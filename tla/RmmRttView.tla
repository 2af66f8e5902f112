----------------------------- MODULE RmmRttView -----------------------------
(***************************************************************************)
(* The tables of RmmRtt implement the address space of RealmIpaSpace: a    *)
(* page is what the walk for its address ends at.                          *)
(***************************************************************************)
EXTENDS RmmRtt

CONSTANT NoGranule
ASSUME NoGranuleAssumption == NoGranule \notin Granules

\* The page at addr as the tables of rd define it; a block entry stands for
\* consecutive granules.
PageView(rd, addr) ==
    LET w == Walk(rd, addr, RTT_PAGE_LEVEL)
        e == EntryAt(w, addr)
    IN [ripas   |-> e.ripas,
        granule |-> IF HoldsData(e) THEN e.pa + (addr % MapSize(w.level)) ELSE NoGranule]

Space == INSTANCE RealmIpaSpace WITH
            ParPages <- Par,
            page     <- [rd \in Rds |-> [a \in Par |-> PageView(rd, a)]],
            request  <- setRipas

\* Every RMI command does to the realm's pages what RealmIpaSpace allows, and
\* RTT_CREATE, RTT_FOLD and the permission commands do nothing to them: the
\* tables are an implementation detail the host cannot use to change what a
\* realm sees at an address.
ImplementsIpaSpace == Space!ASpec
=============================================================================
