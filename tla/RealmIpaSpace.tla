--------------------------- MODULE RealmIpaSpace ---------------------------
(***************************************************************************)
(* What the RMM promises a realm about its protected address space, with   *)
(* no tables in it: every page has a RIPAS and at most one granule behind  *)
(* it, a granule is behind at most one page, the host may take RAM away    *)
(* only at the price of the page being destroyed, and a RIPAS comes back   *)
(* only on the realm's own request.  RmmRtt.tla implements it; building,   *)
(* folding and unfolding tables are steps that do not show here.           *)
(***************************************************************************)
EXTENDS Integers, FiniteSets

CONSTANTS Rds, Granules, ParPages, NoGranule

VARIABLES
    page,      \* realm -> page -> [ripas, granule]
    rdState,   \* realm -> "NEW" or "ACTIVE"
    request    \* realm -> its pending request to change RIPAS

avars == <<page, rdState, request>>

Pages == [ripas : {"empty", "ram", "destroyed"}, granule : Granules \cup {NoGranule}]
Bare(p) == p.granule = NoGranule
Free == Granules \ {page[rd][a].granule : rd \in Rds, a \in ParPages}

\* The pages in a set become what NewPage makes of them.
Become(rd, pages, NewPage(_)) ==
    page' = [page EXCEPT ![rd] =
                [a \in ParPages |-> IF a \in pages THEN NewPage(@[a]) ELSE @[a]]]

\* Tables come and go, host memory is mapped and unmapped, granules change hands.
Housekeeping == UNCHANGED avars

\* The host puts a free granule behind a page.  The page keeps its RIPAS, except
\* that the measured contents of a new realm are RAM.
Give(rd, a) ==
    /\ UNCHANGED <<rdState, request>>
    /\ Bare(page[rd][a])
    /\ \E g \in Free :
         LET Given(p) == [p EXCEPT !.granule = g]
             Filled(p) == [ripas |-> "ram", granule |-> g]
         IN \/ Become(rd, {a}, Given)
            \/ rdState[rd] = "NEW" /\ Become(rd, {a}, Filled)

\* The host takes the granule back: RAM is then destroyed, not empty.
Take(rd, a) ==
    /\ UNCHANGED <<rdState, request>>
    /\ ~Bare(page[rd][a])
    /\ LET Taken(p) == [ripas |-> IF p.ripas = "empty" THEN "empty" ELSE "destroyed",
                        granule |-> NoGranule]
       IN Become(rd, {a}, Taken)

\* The host gives up a range that has nothing behind it.
DestroyRange(rd, pages) ==
    /\ UNCHANGED <<rdState, request>>
    /\ \A a \in pages : Bare(page[rd][a])
    /\ LET Destroyed(p) == [p EXCEPT !.ripas = "destroyed"] IN Become(rd, pages, Destroyed)

\* Before activation the host declares untouched pages RAM.
InitRam(rd, pages) ==
    /\ UNCHANGED <<rdState, request>>
    /\ rdState[rd] = "NEW"
    /\ \A a \in pages : Bare(page[rd][a]) /\ page[rd][a].ripas # "destroyed"
    /\ LET Ram(p) == [p EXCEPT !.ripas = "ram"] IN Become(rd, pages, Ram)

Activate(rd) ==
    /\ rdState[rd] = "NEW"
    /\ rdState' = [rdState EXCEPT ![rd] = "ACTIVE"]
    /\ UNCHANGED <<page, request>>

\* Only the realm says which pages change, to what, and whether destroyed pages
\* may change too.
Request(rd, req) ==
    /\ rdState[rd] = "ACTIVE"
    /\ request' = [request EXCEPT ![rd] = req]
    /\ UNCHANGED <<page, rdState>>

\* The host serves the request from its start, as far as it likes.
Serve(rd, next) ==
    LET req == request[rd]
        pages == {a \in ParPages : req.addr <= a /\ a < next}
    IN /\ req.addr < next /\ next <= req.top
       /\ req.change \/ \A a \in pages : page[rd][a].ripas # "destroyed"
       /\ LET Changed(p) == [p EXCEPT !.ripas = req.ripas] IN Become(rd, pages, Changed)
       /\ request' = [request EXCEPT ![rd].addr = next]
       /\ UNCHANGED rdState

\* The empty request: nothing asked, or the last request over.
NoRequest == [addr |-> 0, top |-> 0, ripas |-> "empty", change |-> FALSE]

AInit ==
    /\ page = [rd \in Rds |-> [a \in ParPages |->
                 [ripas |-> "empty", granule |-> NoGranule]]]
    /\ rdState = [rd \in Rds |-> "NEW"]
    /\ request = [rd \in Rds |-> NoRequest]

Ends == {a + 1 : a \in ParPages}
RealmRequests ==
    [addr : ParPages, top : Ends, ripas : {"empty", "ram"}, change : BOOLEAN]
        \cup {NoRequest}

Step(rd) ==
    \/ \E a \in ParPages :
         \/ Give(rd, a)
         \/ Take(rd, a)
    \/ \E pages \in SUBSET ParPages : DestroyRange(rd, pages) \/ InitRam(rd, pages)
    \/ Activate(rd)
    \/ \E req \in RealmRequests : Request(rd, req)
    \/ \E next \in Ends : Serve(rd, next)

ANext == Housekeeping \/ \E rd \in Rds : Step(rd)
ASpec == AInit /\ [][ANext]_avars
=============================================================================
