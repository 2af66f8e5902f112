------------------------- MODULE MCRmmRttSettings -------------------------
(***************************************************************************)
(* Three more instances of RmmRtt for TLC.  They share the variables:      *)
(* setting says which of them a behaviour is about.  The third, with       *)
(* tables on three levels, is the configuration's own.                     *)
(***************************************************************************)
EXTENDS MCRmmRtt

VARIABLE setting

RootOfTwo == [rd \in {r1, r2} |-> IF rd = r1 THEN 3 ELSE 2]
ThreeGranules == 0 .. 2
RootOfThree == [rd \in Rds |-> 2]

\* Two realms, which compete for the granules, and make no requests about RIPAS.
Two == INSTANCE RmmRtt WITH
    Rds <- {r1, r2}, RootOf <- RootOfTwo, StartLevel <- 2, TlbMax <- 0,
    RipasRequests <- {}
\* The host maps its own memory outside the protected range.
Shared == INSTANCE RmmRtt WITH
    Granules <- ThreeGranules, RootOf <- RootOfThree, HostPas <- {0, 1},
    StartLevel <- 2, RipasRequests <- MCOneRequest

SettingInit ==
    CASE setting = "two realms" -> Two!Init
      [] setting = "shared" -> Shared!Init
      [] setting = "deep" -> Init

RttInit == setting \in {"two realms", "shared", "deep"} /\ SettingInit

RttNext ==
    /\ UNCHANGED setting
    /\ \/ setting = "two realms" /\ Two!Next
       \/ setting = "shared" /\ Shared!Next
       \/ setting = "deep" /\ Next

RttSpec == RttInit /\ [][RttNext]_<<setting, vars>>


\* Properties of RmmRtt, each in the settings made for it.  No granule is in two places
\* and every one in use is reached; a table's reference count is the number of its live
\* entries, which lead to granules in the state they must have; a realm's RAM is what
\* was measured, or empty; and no cached translation outlives its entry.
TablesOwnGranules ==
    CASE setting = "two realms" -> Two!NoSharing /\ Two!NoLeak
      [] setting = "shared" -> Shared!RefcountCountsLive /\ Shared!TlbCoherent
      [] setting = "deep" -> PointsToOwned /\ RamIsMeasured /\ TlbCoherent
=============================================================================
