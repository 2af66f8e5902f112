------------------------------ MODULE MCRmmRtt ------------------------------
(* Instances of RmmRtt for TLC. *)
EXTENDS RmmRttView

CONSTANTS r1, r2

\* Realms have their roots in the last granules; the first two can make a block.
MCGranules == 0 .. 3
MCRootOf == [rd \in Rds |-> IF rd = r1 THEN 3 ELSE 2]

Request(addr, top, ripas, change) ==
    [addr |-> addr, top |-> top, ripas |-> ripas, change |-> change]

\* Give up the first page; ask for everything back.
MCRequests == {Request(0, 1, "empty", FALSE), Request(0, 2, "ram", TRUE)}

\* Give up both pages, destroyed or not; ask for them back unless destroyed.
MCTwoRequests == {Request(0, 2, "empty", TRUE), Request(0, 2, "ram", FALSE)}

\* A single request, for runs about something else.
MCOneRequest == {Request(0, 2, "ram", TRUE)}
=============================================================================
