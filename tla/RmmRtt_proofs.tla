--------------------------- MODULE RmmRtt_proofs ---------------------------
(***************************************************************************)
(* Theorems about RmmRtt.tla, for any number of realms and granules, any   *)
(* table size and any starting level.                                      *)
(*                                                                         *)
(* Inv is inductive: its parts need each other.  Exact reference counts    *)
(* (RefcountCountsLive) tell RTT_FOLD and RTT_DESTROY what a table owns;   *)
(* PointsToOwned makes the granule they take out a table; NoSharing makes  *)
(* its entry the only one; NoLeak is what remains when it is gone.         *)
(*                                                                         *)
(* The second half is about walks: what they depend on, and what a change  *)
(* of the tables does to them.                                             *)
(***************************************************************************)
EXTENDS RmmRtt, FiniteSetTheorems, TLAPS

\* An entry of any level translates at least one granule.
LEMMA MapSizePositive == \A l \in 0 .. 3 : MapSize(l) \in Nat \ {0}
<1>1. S2TTES_PER_S2TT \in Nat \ {0}
  BY ConstantsAssumption
<1>2. S2TTES_PER_S2TT * S2TTES_PER_S2TT \in Nat \ {0}
  BY <1>1
<1>3. S2TTES_PER_S2TT * S2TTES_PER_S2TT * S2TTES_PER_S2TT \in Nat \ {0}
  BY <1>1, <1>2
<1>4. QED
  BY <1>1, <1>2, <1>3 DEF MapSize

\* The address space of a realm has a natural size.
LEMMA IpaSizeNat == IpaSize \in Nat
<1>1. MapSize(StartLevel) \in Nat /\ S2TTES_PER_S2TT \in Nat
  BY MapSizePositive, ConstantsAssumption DEF RTT_MIN_BLOCK_LEVEL
<1>2. QED
  BY <1>1 DEF IpaSize

\* Table indices are numbers.
LEMMA IdxNat == Idx \subseteq Nat
BY DEF Idx

\* The walk's index computation stays within one table.
LEMMA IndexInTable == \A a \in Nat, l \in 0 .. 3 : Index(a, l) \in Idx
<1>1. SUFFICES ASSUME NEW a \in Nat, NEW l \in 0 .. 3
               PROVE  Index(a, l) \in Idx
  OBVIOUS
<1>2. a \div MapSize(l) \in Nat
  <2>1. \A m \in Nat \ {0} : a \div m \in Nat
    OBVIOUS
  <2>2. QED
    BY <2>1, MapSizePositive
<1>3. S2TTES_PER_S2TT \in Nat \ {0}
  BY ConstantsAssumption
<1>4. QED
  BY <1>2, <1>3 DEF Index, Idx

-----------------------------------------------------------------------------
(* The inductive invariant.  No part is inductive alone: a reference count *)
(* stays a natural number because it counts live entries, a walk stays     *)
(* inside the tables because table entries point to tables, and a freed    *)
(* granule has no other entry because nothing is shared.                   *)

\* The root table of every realm stays a table of the starting level.
RootsAreTables ==
    \A rd \in Rds : RootOf[rd] \in Rtts /\ lvl[RootOf[rd]] = StartLevel

\* The types of the memory: what the granules are and hold.
MemoryTypeOK ==
    /\ gstate \in [Granules -> GranuleStates]
    /\ refcount \in [Granules -> Nat]
    /\ s2tt \in [Granules -> [Idx -> Entry]]
    /\ lvl \in [Granules -> Levels]

Inv ==
    /\ MemoryTypeOK
    /\ RootsAreTables
    /\ PointsToOwned
    /\ NoSharing
    /\ NoLeak
    /\ RefcountCountsLive

\* What a walk ends at: a table at the level the walk says.
WalkState == {w \in [g : Rtts, level : Levels] : lvl[w.g] = w.level}

\* One step of the walk leads from a table to a table, one level down.
LEMMA WalkStepOK ==
  ASSUME MemoryTypeOK, PointsToOwned,
         NEW w \in WalkState, NEW a \in Nat, NEW t \in Int
  PROVE  WalkStep(w, a, t) \in WalkState
<1>1. w.g \in Rtts /\ w.g \in Granules /\ w.level \in Levels /\ lvl[w.g] = w.level
  BY DEF WalkState, Rtts
<1>2. w.level \in 0 .. 3
  BY <1>1, ConstantsAssumption DEF Levels, RTT_PAGE_LEVEL
<1>3. Index(a, w.level) \in Idx
  BY <1>2, IndexInTable
<1> DEFINE e == EntryAt(w, a)
<1>4. CASE w.level < t /\ IsTable(e)
  <2>1. e.pa \in Rtts /\ lvl[e.pa] = lvl[w.g] + 1
    BY <1>1, <1>3, <1>4 DEF PointsToOwned, EntryAt
  <2>2. lvl[e.pa] \in Levels
    BY <2>1 DEF MemoryTypeOK, Rtts
  <2>3. WalkStep(w, a, t) = [g |-> e.pa, level |-> w.level + 1]
    BY <1>4 DEF WalkStep
  <2>4. QED
    BY <1>1, <2>1, <2>2, <2>3 DEF WalkState
<1>5. CASE ~(w.level < t /\ IsTable(e))
  BY <1>5 DEF WalkStep
<1>6. QED
  BY <1>4, <1>5

\* The walk ends at a table that is linked at the level it reports
\* (rtt_walk_lock_unlock's last_level).
LEMMA WalkOK ==
  ASSUME MemoryTypeOK, RootsAreTables, PointsToOwned,
         NEW rd \in Rds, NEW a \in Nat, NEW t \in Int
  PROVE  Walk(rd, a, t) \in WalkState
<1> DEFINE w0 == [g |-> RootOf[rd], level |-> StartLevel]
           w1 == WalkStep(w0, a, t)
           w2 == WalkStep(w1, a, t)
<1>1. w0 \in WalkState
  BY ConstantsAssumption
  DEF RootsAreTables, WalkState, Levels, RTT_PAGE_LEVEL, RTT_MIN_BLOCK_LEVEL
<1>2. w1 \in WalkState
  BY <1>1, WalkStepOK
<1>3. w2 \in WalkState
  BY <1>2, WalkStepOK
<1>4. WalkStep(w2, a, t) \in WalkState
  BY <1>3, WalkStepOK
<1>5. QED
  BY <1>4 DEF Walk
-----------------------------------------------------------------------------
(* Initially there are only empty root tables.                             *)

\* What RMI_REALM_CREATE leaves has the right types.
LEMMA InitTypes == Init => TypeOK
<1> SUFFICES ASSUME Init PROVE TypeOK
  OBVIOUS
<1>1. RootTable \in [Idx -> Entry] /\ ZeroTable \in [Idx -> Entry]
  BY DEF RootTable, ZeroTable, Unassigned, UnassignedNs, MkEntry, Entry, Hipas, Ripas
<1>2. s2tt \in [Granules -> [Idx -> Entry]]
  BY <1>1 DEF Init
<1>3. setRipas \in [Rds -> Requests]
  BY DEF Init, NoRequest, Requests
<1>4. lvl \in [Granules -> Levels]
  BY ConstantsAssumption DEF Init, Levels, RTT_PAGE_LEVEL, RTT_MIN_BLOCK_LEVEL
<1>5. QED
  BY <1>2, <1>3, <1>4 DEF Init, TypeOK, GranuleStates

\* A realm without entries satisfies the invariant.
LEMMA InitInv == Init => Inv
<1> SUFFICES ASSUME Init PROVE Inv
  OBVIOUS
<1>1. MemoryTypeOK
  BY InitTypes DEF TypeOK, MemoryTypeOK
<1>2. RootsAreTables
  BY ConstantsAssumption DEF Init, RootsAreTables, Rtts, Roots
<1>3. ASSUME NEW g \in Granules, NEW k \in Idx
      PROVE  ~IsLive(s2tt[g][k])
  BY <1>3 DEF Init, RootTable, ZeroTable, Unassigned, UnassignedNs, MkEntry,
              IsLive, HoldsData, IsTable
<1>4. PointsToOwned /\ NoSharing
  BY <1>3 DEF PointsToOwned, NoSharing, PointsTo, Rtts, IsLive
<1>5. NoLeak
  BY DEF Init, NoLeak
<1>6. RefcountCountsLive
  <2>1. \A g \in Granules : LiveIn(g) = {}
    BY <1>3 DEF LiveIn
  <2>2. QED
    BY <2>1, FS_EmptySet DEF Init, RefcountCountsLive
<1>7. QED
  BY <1>1, <1>2, <1>4, <1>5, <1>6 DEF Inv

-----------------------------------------------------------------------------
(* Steps that leave the ownership of granules alone: entries change their  *)
(* RIPAS, their permissions or their NS mapping, granules change hands     *)
(* while nothing uses them.                                                *)

SameOwner(e, f) ==
    /\ IsTable(e) <=> IsTable(f)
    /\ HoldsData(e) <=> HoldsData(f)
    /\ IsLive(e) => e.pa = f.pa

SameOwnership ==
    /\ \A g \in Granules :
         /\ gstate[g] = "RTT" <=> gstate'[g] = "RTT"
         /\ gstate[g] = "DATA" <=> gstate'[g] = "DATA"
    /\ \A g \in Granules, k \in Idx : SameOwner(s2tt[g][k], s2tt'[g][k])
    /\ UNCHANGED <<refcount, lvl>>

\* A step that changes no owner keeps the invariant.
LEMMA SameOwnershipKeepsInv ==
  ASSUME Inv, MemoryTypeOK', SameOwnership
  PROVE  Inv'
<1>1. Rtts' = Rtts
  BY DEF Rtts, SameOwnership
<1>2. \A g \in Granules, k \in Idx :
          /\ IsTable(s2tt[g][k]) <=> IsTable(s2tt'[g][k])
          /\ HoldsData(s2tt[g][k]) <=> HoldsData(s2tt'[g][k])
          /\ IsLive(s2tt[g][k]) <=> IsLive(s2tt'[g][k])
          /\ IsLive(s2tt[g][k]) => s2tt[g][k].pa = s2tt'[g][k].pa
  BY DEF SameOwnership, SameOwner, IsLive
<1>3. \A g \in Granules, k \in Idx, x \in Granules : PointsTo(g, k, x)' <=> PointsTo(g, k, x)
  BY <1>2 DEF PointsTo, IsLive, SameOwnership
<1>4. RootsAreTables'
  BY <1>1 DEF Inv, RootsAreTables, SameOwnership
<1>5. PointsToOwned'
  <2> SUFFICES ASSUME NEW g \in Rtts', NEW k \in Idx
               PROVE  LET e == s2tt'[g][k] IN
                      /\ IsTable(e) => /\ e.pa \in Rtts' \ Roots
                                       /\ lvl'[e.pa] = lvl'[g] + 1
                      /\ HoldsData(e) =>
                           /\ lvl'[g] >= RTT_MIN_BLOCK_LEVEL
                           /\ \A x \in e.pa .. e.pa + MapSize(lvl'[g]) - 1 :
                                x \in Granules /\ gstate'[x] = "DATA"
    BY DEF PointsToOwned
  <2>1. g \in Rtts /\ g \in Granules /\ lvl' = lvl
    BY <1>1 DEF Rtts, SameOwnership
  <2>2. QED
    BY <1>1, <1>2, <2>1 DEF Inv, PointsToOwned, SameOwnership, IsLive
<1>6. NoSharing'
  BY <1>1, <1>3 DEF Inv, NoSharing, Rtts
<1>7. NoLeak'
  <2> SUFFICES ASSUME NEW x \in Granules \ Roots, gstate'[x] \in {"DATA", "RTT"}
               PROVE  \E g \in Rtts', k \in Idx : PointsTo(g, k, x)'
    BY DEF NoLeak
  <2>1. gstate[x] \in {"DATA", "RTT"}
    BY DEF SameOwnership
  <2>2. PICK g \in Rtts, k \in Idx : PointsTo(g, k, x)
    BY <2>1 DEF Inv, NoLeak
  <2>3. QED
    BY <1>1, <1>3, <2>2 DEF Rtts
<1>8. RefcountCountsLive'
  <2>1. \A g \in Granules : LiveIn(g)' = LiveIn(g)
    BY <1>2 DEF LiveIn
  <2>2. QED
    BY <2>1 DEF Inv, RefcountCountsLive, SameOwnership
<1>9. QED
  BY <1>4, <1>5, <1>6, <1>7, <1>8 DEF Inv
\* The granules of a page or block, as a range and as PointsTo says it.
LEMMA OutputInRange ==
  ASSUME MemoryTypeOK, NEW h \in Granules, NEW k \in Idx, HoldsData(s2tt[h][k])
  PROVE  /\ s2tt[h][k].pa \in Nat
         /\ MapSize(lvl[h]) \in Nat \ {0}
         /\ \A x \in Nat : x \in s2tt[h][k].pa .. s2tt[h][k].pa + MapSize(lvl[h]) - 1
                          <=> PointsTo(h, k, x)
         /\ \A x \in s2tt[h][k].pa .. s2tt[h][k].pa + MapSize(lvl[h]) - 1 :
                PointsTo(h, k, x)
<1>1. s2tt[h][k] \in Entry
  BY DEF MemoryTypeOK
<1>2. s2tt[h][k].pa \in Nat
  BY <1>1 DEF Entry
<1>3. lvl[h] \in 0 .. 3
  BY ConstantsAssumption DEF MemoryTypeOK, Levels, RTT_PAGE_LEVEL
<1>4. MapSize(lvl[h]) \in Nat \ {0}
  BY <1>3, MapSizePositive
<1>5. ~IsTable(s2tt[h][k])
  BY DEF HoldsData, IsTable
<1>6. QED
  BY <1>2, <1>4, <1>5 DEF PointsTo

\* A granule some entry points to is in use.
LEMMA PointsToState ==
  ASSUME PointsToOwned, MemoryTypeOK,
         NEW h \in Rtts, NEW k \in Idx, NEW x \in Granules, PointsTo(h, k, x)
  PROVE  /\ IsLive(s2tt[h][k])
         /\ IsTable(s2tt[h][k]) => x \in Rtts \ Roots
         /\ ~IsTable(s2tt[h][k]) => gstate[x] = "DATA"
         /\ gstate[x] \in {"DATA", "RTT"}
<1> DEFINE e == s2tt[h][k]
<1>1. CASE IsTable(e)
  BY <1>1 DEF PointsTo, PointsToOwned, IsLive, Rtts, IsTable, HoldsData
<1>2. CASE ~IsTable(e)
  <2>1. HoldsData(e) /\ e.pa <= x /\ x < e.pa + MapSize(lvl[h])
    BY <1>2 DEF PointsTo
  <2>3. x \in e.pa .. e.pa + MapSize(lvl[h]) - 1
    BY <2>1, OutputInRange, ConstantsAssumption DEF Rtts
  <2>4. gstate[x] = "DATA"
    BY <2>1, <2>3 DEF PointsToOwned
  <2>5. QED
    BY <1>2, <2>1, <2>4 DEF IsLive
<1>3. QED
  BY <1>1, <1>2

-----------------------------------------------------------------------------
(* Reference counts: one entry of one table becomes live, or dies.         *)

\* A table has finitely many live entries ...
LEMMA LiveInFinite ==
  ASSUME NEW g \in Granules
  PROVE  IsFiniteSet(LiveIn(g)) /\ Cardinality(LiveIn(g)) \in Nat
<1>1. IsFiniteSet(Idx)
  BY ConstantsAssumption, FS_Interval DEF Idx
<1>2. LiveIn(g) \in SUBSET Idx
  BY DEF LiveIn
<1>3. IsFiniteSet(LiveIn(g))
  BY <1>1, <1>2, FS_Subset
<1>4. QED
  BY <1>3, FS_CardinalityType

\* ... after a step as before it.
LEMMA LiveInFiniteNext ==
  ASSUME NEW g \in Granules
  PROVE  IsFiniteSet(LiveIn(g)') /\ Cardinality(LiveIn(g)') \in Nat
<1>1. IsFiniteSet(Idx)
  BY ConstantsAssumption, FS_Interval DEF Idx
<1>2. LiveIn(g)' \in SUBSET Idx
  BY DEF LiveIn
<1>3. IsFiniteSet(LiveIn(g)')
  BY <1>1, <1>2, FS_Subset
<1>4. QED
  BY <1>3, FS_CardinalityType

\* A table has S2TTES_PER_S2TT entries.
LEMMA CardIdx == IsFiniteSet(Idx) /\ Cardinality(Idx) = S2TTES_PER_S2TT
BY ConstantsAssumption, FS_Interval DEF Idx

\* Entry i of table g becomes live and the count goes up.
LEMMA EntryBecomesLive ==
  ASSUME NEW g \in Granules, NEW i \in Idx,
         ~IsLive(s2tt[g][i]), IsLive(s2tt'[g][i]),
         \A k \in Idx \ {i} : s2tt'[g][k] = s2tt[g][k]
  PROVE  Cardinality(LiveIn(g)') = Cardinality(LiveIn(g)) + 1
<1>1. LiveIn(g)' = LiveIn(g) \cup {i}
  BY DEF LiveIn
<1>2. i \notin LiveIn(g)
  BY DEF LiveIn
<1>3. QED
  BY <1>1, <1>2, LiveInFinite, FS_AddElement

\* A table loses one live entry when it loses the entry at i.
LEMMA EntryDies ==
  ASSUME NEW g \in Granules, NEW i \in Idx,
         IsLive(s2tt[g][i]), ~IsLive(s2tt'[g][i]),
         \A k \in Idx \ {i} : s2tt'[g][k] = s2tt[g][k]
  PROVE  Cardinality(LiveIn(g)') = Cardinality(LiveIn(g)) - 1
<1>1. LiveIn(g)' = LiveIn(g) \ {i}
  BY DEF LiveIn
<1>2. i \in LiveIn(g)
  BY DEF LiveIn
<1>3. QED
  BY <1>1, <1>2, LiveInFinite, FS_RemoveElement

\* Writing an entry that is as live as the old one keeps the count.
LEMMA EntryStaysLive ==
  ASSUME NEW g \in Granules, NEW i \in Idx,
         IsLive(s2tt[g][i]) <=> IsLive(s2tt'[g][i]),
         \A k \in Idx \ {i} : s2tt'[g][k] = s2tt[g][k]
  PROVE  LiveIn(g)' = LiveIn(g)
BY DEF LiveIn

\* Tables whose entries do not change keep their count.
LEMMA TableUnchanged ==
  ASSUME NEW g \in Granules, \A k \in Idx : s2tt'[g][k] = s2tt[g][k]
  PROVE  LiveIn(g)' = LiveIn(g)
BY DEF LiveIn

-----------------------------------------------------------------------------
(* Data: a granule enters a page, and leaves it.                           *)

\* data_create: a new page, its granule and the reference of its table.
LEMMA MapDataKeepsInv ==
  ASSUME Inv, UNCHANGED lvl,
         NEW rd \in Rds, NEW g \in Granules, NEW addr \in Nat, NEW ripas \in Ripas,
         DataGranule(g), MapData(Walk(rd, addr, RTT_PAGE_LEVEL), g, addr, ripas),
         BecomesData(g)
  PROVE  Inv'
<1> DEFINE w == Walk(rd, addr, RTT_PAGE_LEVEL)
           i == Index(addr, RTT_PAGE_LEVEL)
           new == Assigned(ripas, g)
<1>1. /\ w.g \in Rtts /\ w.g \in Granules
      /\ w.level = 3 /\ lvl[w.g] = 3
  <2>1. w \in WalkState
    BY WalkOK DEF Inv, RTT_PAGE_LEVEL
  <2>2. QED
    BY <2>1 DEF WalkState, Rtts, MapData, RTT_PAGE_LEVEL
<1>2. i \in Idx
  BY IndexInTable DEF RTT_PAGE_LEVEL
<1>3. gstate[g] = "DELEGATED" /\ g # w.g /\ g \notin Rtts
  BY <1>1 DEF DataGranule, Rtts
<1>4. ~IsLive(s2tt[w.g][i])
  BY DEF MapData, IsUnassigned, IsLive, HoldsData, IsTable
<1>5. /\ new \in Entry /\ HoldsData(new) /\ ~IsTable(new) /\ IsLive(new)
      /\ new.pa = g
  BY ConstantsAssumption
  DEF Assigned, MkEntry, Entry, Hipas, HoldsData, IsTable, IsLive
<1>6. \A h \in Granules, k \in Idx :
         s2tt'[h][k] = IF h = w.g /\ k = i THEN new ELSE s2tt[h][k]
  BY <1>1, <1>2 DEF MapData, Inv, MemoryTypeOK
<1>7. /\ gstate' = [gstate EXCEPT ![g] = "DATA"]
      /\ refcount' = [refcount EXCEPT ![w.g] = @ + 1]
      /\ lvl' = lvl
  BY DEF MapData, BecomesData
<1>8. MemoryTypeOK'
  BY <1>1, <1>2, <1>5, <1>7 DEF MapData, Inv, MemoryTypeOK, GranuleStates
<1>9. Rtts' = Rtts
  BY <1>3, <1>7 DEF Rtts, Inv, MemoryTypeOK
<1>10. RootsAreTables'
  BY <1>7, <1>9 DEF Inv, RootsAreTables
<1>11. MapSize(3) = 1
  BY DEF MapSize
<1>12. PointsToOwned'
  <2> SUFFICES ASSUME NEW h \in Rtts, NEW k \in Idx
               PROVE  LET e == s2tt'[h][k] IN
                      /\ IsTable(e) => /\ e.pa \in Rtts \ Roots
                                       /\ lvl[e.pa] = lvl[h] + 1
                      /\ HoldsData(e) =>
                           /\ lvl[h] >= RTT_MIN_BLOCK_LEVEL
                           /\ \A x \in e.pa .. e.pa + MapSize(lvl[h]) - 1 :
                                x \in Granules /\ gstate'[x] = "DATA"
    BY <1>7, <1>9 DEF PointsToOwned
  <2>1. CASE h = w.g /\ k = i
    <3>1. s2tt'[h][k] = new
      BY <2>1, <1>1, <1>6
    <3>2. \A x \in g .. g + MapSize(lvl[h]) - 1 : x = g
      BY <2>1, <1>1, <1>11, ConstantsAssumption
    <3>3. gstate'[g] = "DATA"
      BY <1>7 DEF Inv, MemoryTypeOK
    <3>4. QED
      BY <2>1, <3>1, <3>2, <3>3, <1>1, <1>5 DEF RTT_MIN_BLOCK_LEVEL
  <2>2. CASE ~(h = w.g /\ k = i)
    <3>1. s2tt'[h][k] = s2tt[h][k] /\ h \in Granules
      BY <2>2, <1>6 DEF Rtts
    <3>2. \A x \in Granules : gstate[x] = "DATA" => gstate'[x] = "DATA"
      BY <1>7 DEF Inv, MemoryTypeOK
    <3>3. QED
      BY <3>1, <3>2 DEF Inv, PointsToOwned
  <2>3. QED
    BY <2>1, <2>2
<1>13. \A h \in Rtts, k \in Idx, x \in Granules :
          PointsTo(h, k, x)' <=> IF h = w.g /\ k = i THEN x = g ELSE PointsTo(h, k, x)
  BY <1>1, <1>5, <1>6, <1>7, <1>11, ConstantsAssumption DEF PointsTo, Rtts
<1>14. \A h \in Rtts, k \in Idx, x \in Granules :
          PointsTo(h, k, x) => x # g /\ ~(h = w.g /\ k = i)
  <2> SUFFICES ASSUME NEW h \in Rtts, NEW k \in Idx, NEW x \in Granules, PointsTo(h, k, x)
               PROVE  x # g /\ ~(h = w.g /\ k = i)
    OBVIOUS
  <2>1. IsLive(s2tt[h][k]) /\ gstate[x] \in {"DATA", "RTT"}
    BY PointsToState DEF Inv
  <2>2. QED
    BY <2>1, <1>3, <1>4
<1>15. NoSharing'
  BY <1>9, <1>13, <1>14 DEF NoSharing, Inv
<1>16. NoLeak'
  <2> SUFFICES ASSUME NEW x \in Granules \ Roots, gstate'[x] \in {"DATA", "RTT"}
               PROVE  \E h \in Rtts, k \in Idx : PointsTo(h, k, x)'
    BY <1>9 DEF NoLeak
  <2>1. CASE x = g
    BY <2>1, <1>1, <1>2, <1>13
  <2>2. CASE x # g
    <3>1. gstate[x] \in {"DATA", "RTT"}
      BY <2>2, <1>7 DEF Inv, MemoryTypeOK
    <3>2. PICK h \in Rtts, k \in Idx : PointsTo(h, k, x)
      BY <3>1 DEF Inv, NoLeak
    <3>3. QED
      BY <3>2, <1>13, <1>14
  <2>3. QED
    BY <2>1, <2>2
<1>17. RefcountCountsLive'
  <2> SUFFICES ASSUME NEW h \in Granules
               PROVE  refcount'[h] = IF h \in Rtts THEN Cardinality(LiveIn(h)') ELSE 0
    BY <1>9 DEF RefcountCountsLive, Rtts
  <2>1. refcount[h] = IF h \in Rtts THEN Cardinality(LiveIn(h)) ELSE 0
    BY DEF Inv, RefcountCountsLive, Rtts
  <2>2. CASE h = w.g
    <3>1. Cardinality(LiveIn(h)') = Cardinality(LiveIn(h)) + 1
      BY <2>2, <1>1, <1>2, <1>4, <1>5, <1>6, EntryBecomesLive
    <3>2. QED
      BY <3>1, <2>1, <2>2, <1>1, <1>7 DEF Inv, MemoryTypeOK
  <2>3. CASE h # w.g
    BY <2>1, <2>3, <1>6, <1>7, TableUnchanged DEF Inv, MemoryTypeOK
  <2>4. QED
    BY <2>2, <2>3
<1>18. QED
  BY <1>8, <1>10, <1>12, <1>15, <1>16, <1>17 DEF Inv
\* smc_data_destroy takes all three away again.
LEMMA DataDestroyKeepsInv ==
  ASSUME Inv, NEW rd \in Rds, NEW addr \in Nat, DataDestroy(rd, addr)
  PROVE  Inv'
<1> DEFINE w == Walk(rd, addr, RTT_PAGE_LEVEL)
           i == Index(addr, RTT_PAGE_LEVEL)
           e == s2tt[w.g][i]
           g == e.pa
           new == Unassigned(RipasAfterDestroy(e))
<1>1. /\ w.g \in Rtts /\ w.g \in Granules
      /\ w.level = 3 /\ lvl[w.g] = 3
  <2>1. w \in WalkState
    BY WalkOK DEF Inv, RTT_PAGE_LEVEL
  <2>2. QED
    BY <2>1 DEF WalkState, Rtts, DataDestroy, UnmapData, FreeData, RTT_PAGE_LEVEL
<1>2. i \in Idx
  BY IndexInTable DEF RTT_PAGE_LEVEL
<1>3. HoldsData(e) /\ ~IsTable(e) /\ IsLive(e)
  BY DEF DataDestroy, UnmapData, FreeData, HoldsData, IsTable, IsLive
<1>4. /\ new \in Entry /\ ~IsLive(new) /\ ~IsTable(new) /\ ~HoldsData(new)
  BY DEF Unassigned, RipasAfterDestroy, MkEntry, Entry, Hipas, Ripas, HoldsData, IsTable, IsLive
<1>5. MapSize(3) = 1
  BY DEF MapSize
<1>6. g \in Granules /\ gstate[g] = "DATA" /\ g # w.g /\ g \notin Rtts
  <2>1. g \in Nat
    BY <1>1, <1>2 DEF Inv, MemoryTypeOK, Entry
  <2>2. g \in g .. g + MapSize(lvl[w.g]) - 1
    BY <2>1, <1>1, <1>5
  <2>3. QED
    BY <2>2, <1>1, <1>2, <1>3 DEF Inv, PointsToOwned, Rtts
<1>7. \A h \in Granules, k \in Idx :
         s2tt'[h][k] = IF h = w.g /\ k = i THEN new ELSE s2tt[h][k]
  BY <1>1, <1>2 DEF DataDestroy, UnmapData, FreeData, Inv, MemoryTypeOK
<1>8. /\ gstate' = [gstate EXCEPT ![g] = "DELEGATED"]
      /\ refcount' = [refcount EXCEPT ![w.g] = @ - 1]
      /\ s2tt' = [s2tt EXCEPT ![w.g] = [@ EXCEPT ![i] = new]]
      /\ lvl' = lvl
  <2>1. Leaf(rd, addr) = e
    BY <1>1 DEF Leaf, EntryAt, RTT_PAGE_LEVEL
  <2>2. QED
    BY <2>1 DEF DataDestroy, UnmapData, FreeData
<1>9. Rtts' = Rtts
  BY <1>6, <1>8 DEF Rtts, Inv, MemoryTypeOK
<1>10. RefcountCountsLive' /\ refcount' \in [Granules -> Nat]
  <2> SUFFICES ASSUME NEW h \in Granules
               PROVE  /\ refcount'[h] = IF h \in Rtts THEN Cardinality(LiveIn(h)') ELSE 0
                      /\ refcount'[h] \in Nat
    BY <1>8, <1>9 DEF RefcountCountsLive, Rtts, Inv, MemoryTypeOK
  <2>1. refcount[h] = IF h \in Rtts THEN Cardinality(LiveIn(h)) ELSE 0
    BY DEF Inv, RefcountCountsLive, Rtts
  <2>2. CASE h = w.g
    <3>1. Cardinality(LiveIn(h)') = Cardinality(LiveIn(h)) - 1
      BY <2>2, <1>1, <1>2, <1>3, <1>4, <1>7, EntryDies
    <3>2. Cardinality(LiveIn(h)') \in Nat
      BY LiveInFiniteNext
    <3>3. QED
      BY <3>1, <3>2, <2>1, <2>2, <1>1, <1>8 DEF Inv, MemoryTypeOK
  <2>3. CASE h # w.g
    BY <2>1, <2>3, <1>7, <1>8, TableUnchanged DEF Inv, MemoryTypeOK
  <2>4. QED
    BY <2>2, <2>3
<1>11. MemoryTypeOK'
  BY <1>1, <1>2, <1>4, <1>6, <1>8, <1>10 DEF Inv, MemoryTypeOK, GranuleStates
<1>12. RootsAreTables'
  BY <1>8, <1>9 DEF Inv, RootsAreTables
<1>13. \A h \in Rtts, k \in Idx, x \in Granules :
          PointsTo(h, k, x)' <=> (PointsTo(h, k, x) /\ ~(h = w.g /\ k = i))
  BY <1>4, <1>7, <1>8 DEF PointsTo, Rtts
<1>14. PointsTo(w.g, i, g) /\ \A x \in Granules : PointsTo(w.g, i, x) => x = g
  <2>1. /\ g \in Nat
        /\ \A x \in Nat : x \in g .. g + MapSize(lvl[w.g]) - 1 <=> PointsTo(w.g, i, x)
    BY <1>1, <1>2, <1>3, OutputInRange DEF Inv
  <2>2. \A x \in Nat : x \in g .. g + MapSize(lvl[w.g]) - 1 <=> x = g
    BY <2>1, <1>1, <1>5
  <2>3. QED
    BY <2>1, <2>2, <1>6, ConstantsAssumption
<1>15. \A h \in Rtts, k \in Idx : PointsTo(h, k, g) => h = w.g /\ k = i
  BY <1>1, <1>2, <1>6, <1>14 DEF Inv, NoSharing
<1>17. PointsToOwned'
  <2> SUFFICES ASSUME NEW h \in Rtts, NEW k \in Idx
               PROVE  LET f == s2tt'[h][k] IN
                      /\ IsTable(f) => /\ f.pa \in Rtts \ Roots
                                       /\ lvl[f.pa] = lvl[h] + 1
                      /\ HoldsData(f) =>
                           /\ lvl[h] >= RTT_MIN_BLOCK_LEVEL
                           /\ \A x \in f.pa .. f.pa + MapSize(lvl[h]) - 1 :
                                x \in Granules /\ gstate'[x] = "DATA"
    BY <1>8, <1>9 DEF PointsToOwned
  <2>1. CASE h = w.g /\ k = i
    BY <2>1, <1>1, <1>4, <1>7
  <2>2. CASE ~(h = w.g /\ k = i)
    <3>1. s2tt'[h][k] = s2tt[h][k] /\ h \in Granules
      BY <2>2, <1>7 DEF Rtts
    <3>2. ASSUME HoldsData(s2tt[h][k]),
                 NEW x \in s2tt[h][k].pa .. s2tt[h][k].pa + MapSize(lvl[h]) - 1
          PROVE  x \in Granules /\ gstate'[x] = "DATA"
      <4>1. x \in Granules /\ gstate[x] = "DATA"
        BY <3>2 DEF Inv, PointsToOwned
      <4>2. PointsTo(h, k, x)
        BY <3>1, <3>2, OutputInRange DEF Inv
      <4>3. x # g
        BY <1>15, <2>2, <4>1, <4>2
      <4>4. QED
        BY <4>1, <4>3, <1>8 DEF Inv, MemoryTypeOK
    <3>3. QED
      BY <3>1, <3>2 DEF Inv, PointsToOwned
  <2>3. QED
    BY <2>1, <2>2
<1>18. NoSharing'
  BY <1>9, <1>13 DEF NoSharing, Inv
<1>19. NoLeak'
  <2> SUFFICES ASSUME NEW x \in Granules \ Roots, gstate'[x] \in {"DATA", "RTT"}
               PROVE  \E h \in Rtts, k \in Idx : PointsTo(h, k, x)'
    BY <1>9 DEF NoLeak
  <2>1. x # g /\ gstate[x] \in {"DATA", "RTT"}
    BY <1>8 DEF Inv, MemoryTypeOK
  <2>2. PICK h \in Rtts, k \in Idx : PointsTo(h, k, x)
    BY <2>1 DEF Inv, NoLeak
  <2>3. QED
    BY <2>1, <2>2, <1>13, <1>14
<1>20. QED
  BY <1>10, <1>11, <1>12, <1>17, <1>18, <1>19 DEF Inv
-----------------------------------------------------------------------------
(* Tables: a delegated granule becomes a table and takes over what the     *)
(* entry above it meant.                                                   *)

\* smc_rtt_create: linking a table, or unfolding a block into one, moves
\* ownership without creating or losing any.
LEMMA RttCreateKeepsInv ==
  ASSUME Inv, NEW rd \in Rds, NEW g \in Granules, NEW addr \in Nat, NEW level \in Int,
         RttCreate(rd, g, addr, level)
  PROVE  Inv'
<1> DEFINE w == Walk(rd, addr, level - 1)
           i == Index(addr, level - 1)
           e == s2tt[w.g][i]
           unfolded == UnfoldEntry(e, level)
<1>1. /\ w.g \in Rtts /\ w.g \in Granules
      /\ w.level = level - 1 /\ lvl[w.g] = level - 1
      /\ level - 1 \in 0 .. 2 /\ level \in 0 .. 3 /\ level \in Levels
  <2>1. w \in WalkState
    BY WalkOK DEF Inv
  <2>2. w.level = level - 1 /\ level \in (StartLevel + 1) .. 3
    BY DEF RttCreate, RttCreateAt, ValidStructureCmd, RTT_PAGE_LEVEL
  <2>3. QED
    BY <2>1, <2>2, ConstantsAssumption
    DEF WalkState, Rtts, Levels, RTT_PAGE_LEVEL, RTT_MIN_BLOCK_LEVEL
<1>2. i \in Idx
  BY <1>1, IndexInTable
<1>3. gstate[g] = "DELEGATED" /\ g # w.g /\ g \notin Rtts /\ ~IsTable(e) /\ g \notin Roots
  <2>1. gstate[g] = "DELEGATED" /\ ~IsTable(e)
    BY DEF RttCreate, RttCreateAt
  <2>2. g \notin Rtts
    BY <2>1 DEF Rtts
  <2>3. QED
    BY <1>1, <2>1, <2>2 DEF Inv, RootsAreTables, Roots
<1>4. /\ s2tt' = [s2tt EXCEPT ![g] = unfolded, ![w.g] = [@ EXCEPT ![i] = TableEntry(g)]]
      /\ gstate' = [gstate EXCEPT ![g] = "RTT"]
      /\ lvl' = [lvl EXCEPT ![g] = level]
      /\ refcount' = RefcountAfterCreate(e, g, w.g)
  BY DEF RttCreate, RttCreateAt
<1>5. e \in Entry /\ e.pa \in Nat
  BY <1>1, <1>2 DEF Inv, MemoryTypeOK, Entry
<1>6. \A k \in Idx :
        /\ unfolded[k] \in Entry
        /\ ~IsTable(unfolded[k])
        /\ HoldsData(unfolded[k]) <=> HoldsData(e)
        /\ IsLive(unfolded[k]) <=> HoldsData(e)
        /\ HoldsData(e) => unfolded[k].pa = e.pa + k * MapSize(level)
  <2> SUFFICES ASSUME NEW k \in Idx
               PROVE  /\ unfolded[k] \in Entry
                      /\ ~IsTable(unfolded[k])
                      /\ HoldsData(unfolded[k]) <=> HoldsData(e)
                      /\ HoldsData(e) => unfolded[k].pa = e.pa + k * MapSize(level)
    BY DEF IsLive
  <2>1. unfolded[k] = IF HasOutput(e) THEN MkEntry(e.hipas, e.ripas, e.pa + k * MapSize(level))
                      ELSE e
    BY DEF UnfoldEntry
  <2>2. k * MapSize(level) \in Nat
    BY <1>1, MapSizePositive, ConstantsAssumption DEF Idx
  <2>3. QED
    BY <1>3, <1>5, <2>1, <2>2
    DEF MkEntry, Entry, IsTable, HoldsData, HasOutput
<1>7. TableEntry(g) \in Entry /\ IsTable(TableEntry(g)) /\ TableEntry(g).pa = g
      /\ IsLive(TableEntry(g)) /\ ~HoldsData(TableEntry(g))
  BY ConstantsAssumption
  DEF TableEntry, MkEntry, Entry, Hipas, Ripas, IsTable, IsLive, HoldsData
<1>8. \A h \in Granules, k \in Idx :
        s2tt'[h][k] = IF h = g THEN unfolded[k]
                      ELSE IF h = w.g /\ k = i THEN TableEntry(g) ELSE s2tt[h][k]
  BY <1>1, <1>2, <1>3, <1>4 DEF Inv, MemoryTypeOK
<1>9. Rtts' = Rtts \cup {g}
  BY <1>4 DEF Inv, MemoryTypeOK, Rtts
<1>10. HoldsData(e) => level = 3 /\ lvl[w.g] = 2
  BY <1>1, <1>2 DEF Inv, PointsToOwned, RTT_MIN_BLOCK_LEVEL
<1>11. MapSize(3) = 1 /\ MapSize(2) = S2TTES_PER_S2TT /\ S2TTES_PER_S2TT \in Nat \ {0}
  BY ConstantsAssumption DEF MapSize
<1>12. RefcountCountsLive' /\ refcount' \in [Granules -> Nat]
  <2> SUFFICES ASSUME NEW h \in Granules
               PROVE  refcount'[h] = IF h \in Rtts' THEN Cardinality(LiveIn(h)') ELSE 0
    <3>1. \A h \in Granules : Cardinality(LiveIn(h)') \in Nat
      BY LiveInFiniteNext
    <3>2. refcount' \in [Granules -> Nat]
      BY <1>1, <1>4, <1>11 DEF RefcountAfterCreate, Inv, MemoryTypeOK
    <3>3. QED
      BY <3>1, <3>2 DEF RefcountCountsLive, Rtts
  <2>1. refcount[h] = IF h \in Rtts THEN Cardinality(LiveIn(h)) ELSE 0
    BY DEF Inv, RefcountCountsLive, Rtts
  <2>2. ASSUME HoldsData(e)
        PROVE  refcount'[h] = IF h \in Rtts' THEN Cardinality(LiveIn(h)') ELSE 0
    <3>1. refcount' = [refcount EXCEPT ![g] = @ + S2TTES_PER_S2TT]
      BY <1>4, <2>2 DEF RefcountAfterCreate
    <3>2. CASE h = g
      <4>1. LiveIn(g)' = Idx
        BY <1>6, <1>8, <2>2 DEF LiveIn
      <4>2. QED
        BY <1>3, <1>9, <1>11, <2>1, <3>1, <3>2, <4>1, CardIdx DEF Inv, MemoryTypeOK
    <3>3. CASE h = w.g
      <4>1. LiveIn(h)' = LiveIn(h)
        BY <1>1, <1>2, <1>3, <1>7, <1>8, <2>2, <3>3, EntryStaysLive DEF IsLive
      <4>2. QED
        BY <1>1, <1>3, <1>9, <2>1, <3>1, <3>3, <4>1 DEF Inv, MemoryTypeOK
    <3>4. CASE h # g /\ h # w.g
      <4>1. LiveIn(h)' = LiveIn(h)
        BY <1>8, <3>4, TableUnchanged
      <4>2. QED
        BY <1>9, <2>1, <3>1, <3>4, <4>1 DEF Inv, MemoryTypeOK
    <3>5. QED
      BY <3>2, <3>3, <3>4
  <2>3. ASSUME ~HoldsData(e)
        PROVE  refcount'[h] = IF h \in Rtts' THEN Cardinality(LiveIn(h)') ELSE 0
    <3>1. refcount' = [refcount EXCEPT ![w.g] = @ + 1]
      BY <1>4, <2>3 DEF RefcountAfterCreate
    <3>2. CASE h = g
      <4>1. LiveIn(g)' = {}
        BY <1>6, <1>8, <2>3 DEF LiveIn
      <4>2. QED
        BY <1>3, <1>9, <2>1, <3>1, <3>2, <4>1, FS_EmptySet DEF Inv, MemoryTypeOK
    <3>3. CASE h = w.g
      <4>1. Cardinality(LiveIn(h)') = Cardinality(LiveIn(h)) + 1
        BY <1>1, <1>2, <1>3, <1>7, <1>8, <2>3, <3>3, EntryBecomesLive DEF IsLive
      <4>2. QED
        BY <1>1, <1>3, <1>9, <2>1, <3>1, <3>3, <4>1 DEF Inv, MemoryTypeOK
    <3>4. CASE h # g /\ h # w.g
      <4>1. LiveIn(h)' = LiveIn(h)
        BY <1>8, <3>4, TableUnchanged
      <4>2. QED
        BY <1>9, <2>1, <3>1, <3>4, <4>1 DEF Inv, MemoryTypeOK
    <3>5. QED
      BY <3>2, <3>3, <3>4
  <2>4. QED
    BY <2>2, <2>3
<1>13. MemoryTypeOK'
  <2>1. unfolded \in [Idx -> Entry]
    BY <1>6 DEF UnfoldEntry
  <2>2. s2tt' \in [Granules -> [Idx -> Entry]]
    BY <1>1, <1>2, <1>4, <1>7, <2>1 DEF Inv, MemoryTypeOK
  <2>3. QED
    BY <1>1, <1>4, <1>12, <2>2 DEF Inv, MemoryTypeOK, GranuleStates
<1>14. RootsAreTables'
  BY <1>3, <1>4, <1>9 DEF Inv, RootsAreTables, MemoryTypeOK, Roots
<1>15. \A k \in Idx, x \in Granules : PointsTo(g, k, x)' <=> (HoldsData(e) /\ x = e.pa + k)
  <2> SUFFICES ASSUME NEW k \in Idx, NEW x \in Granules
               PROVE  PointsTo(g, k, x)' <=> (HoldsData(e) /\ x = e.pa + k)
    OBVIOUS
  <2>1. lvl'[g] = level /\ s2tt'[g][k] = unfolded[k]
    BY <1>4, <1>8 DEF Inv, MemoryTypeOK
  <2>2. x \in Nat /\ k \in Nat
    BY ConstantsAssumption DEF Idx
  <2>3. QED
    BY <1>5, <1>6, <1>10, <1>11, <2>1, <2>2 DEF PointsTo
<1>16. \A h \in Rtts, k \in Idx, x \in Granules :
         PointsTo(h, k, x)' <=> IF h = w.g /\ k = i THEN x = g ELSE PointsTo(h, k, x)
  <2> SUFFICES ASSUME NEW h \in Rtts, NEW k \in Idx, NEW x \in Granules
               PROVE  PointsTo(h, k, x)' <=> IF h = w.g /\ k = i THEN x = g ELSE PointsTo(h, k, x)
    OBVIOUS
  <2>1. h \in Granules /\ h # g /\ lvl'[h] = lvl[h]
    BY <1>3, <1>4 DEF Rtts, Inv, MemoryTypeOK
  <2>2. QED
    BY <1>7, <1>8, <2>1 DEF PointsTo
<1>17. \A x \in Granules, k \in Idx : HoldsData(e) /\ x = e.pa + k => PointsTo(w.g, i, x)
  <2> SUFFICES ASSUME NEW x \in Granules, NEW k \in Idx, HoldsData(e), x = e.pa + k
               PROVE  PointsTo(w.g, i, x)
    OBVIOUS
  <2>1. k \in 0 .. S2TTES_PER_S2TT - 1
    BY DEF Idx
  <2>2. QED
    BY <1>5, <1>10, <1>11, <2>1 DEF PointsTo
<1>18. \A x \in Granules : PointsTo(w.g, i, x) => HoldsData(e) /\ \E k \in Idx : x = e.pa + k
  <2> SUFFICES ASSUME NEW x \in Granules, PointsTo(w.g, i, x)
               PROVE  HoldsData(e) /\ \E k \in Idx : x = e.pa + k
    OBVIOUS
  <2>1. HoldsData(e) /\ e.pa <= x /\ x < e.pa + MapSize(lvl[w.g])
    BY <1>3 DEF PointsTo
  <2>2. x - e.pa \in 0 .. S2TTES_PER_S2TT - 1 /\ x = e.pa + (x - e.pa)
    BY <1>5, <1>10, <1>11, <2>1, ConstantsAssumption
  <2>3. QED
    BY <2>1, <2>2 DEF Idx
<1>19. \A h \in Rtts, k \in Idx : ~PointsTo(h, k, g)
  BY <1>3, PointsToState DEF Inv
<1>20. PointsToOwned'
  <2> SUFFICES ASSUME NEW h \in Rtts \cup {g}, NEW k \in Idx
               PROVE  LET f == s2tt'[h][k] IN
                      /\ IsTable(f) => /\ f.pa \in (Rtts \cup {g}) \ Roots
                                       /\ lvl'[f.pa] = lvl'[h] + 1
                      /\ HoldsData(f) =>
                           /\ lvl'[h] >= RTT_MIN_BLOCK_LEVEL
                           /\ \A x \in f.pa .. f.pa + MapSize(lvl'[h]) - 1 :
                                x \in Granules /\ gstate'[x] = "DATA"
    BY <1>9 DEF PointsToOwned
  <2>1. CASE h = g
    <3>1. s2tt'[h][k] = unfolded[k] /\ lvl'[h] = level
      BY <1>4, <1>8, <2>1 DEF Inv, MemoryTypeOK
    <3>2. ASSUME HoldsData(unfolded[k]), NEW x \in unfolded[k].pa .. unfolded[k].pa + MapSize(level) - 1
          PROVE  x \in Granules /\ gstate'[x] = "DATA"
      <4>1. HoldsData(e) /\ k \in 0 .. S2TTES_PER_S2TT - 1 /\ x = e.pa + k
        <5> HIDE DEF w, i, e, unfolded
        <5>1. HoldsData(e) /\ unfolded[k].pa = e.pa + k * MapSize(level)
          BY <1>6, <3>2, Zenon
        <5>2. level = 3 /\ MapSize(level) = 1
          BY <1>10, <1>11, <5>1, Zenon
        <5>3. k \in Nat /\ k \in 0 .. S2TTES_PER_S2TT - 1
          BY <1>11 DEF Idx
        <5>4. unfolded[k].pa = e.pa + k
          BY <5>1, <5>2, <5>3
        <5>5. QED
          BY <1>5, <3>2, <5>1, <5>2, <5>3, <5>4
      <4>2. x \in e.pa .. e.pa + MapSize(lvl[w.g]) - 1
        BY <1>5, <1>10, <1>11, <4>1
      <4>3. x \in Granules /\ gstate[x] = "DATA"
        BY <1>1, <1>2, <4>1, <4>2 DEF Inv, PointsToOwned
      <4>4. QED
        BY <1>3, <1>4, <4>3 DEF Inv, MemoryTypeOK
    <3>3. QED
      <4> HIDE DEF w, i, e, unfolded
      <4>1. HoldsData(unfolded[k]) => level >= RTT_MIN_BLOCK_LEVEL
        BY <1>6, <1>10 DEF RTT_MIN_BLOCK_LEVEL
      <4>2. ~IsTable(unfolded[k])
        BY <1>6
      <4>3. QED
        BY <3>1, <3>2, <4>1, <4>2, Zenon
  <2>2. CASE h = w.g /\ k = i
    <3>1. s2tt'[h][k] = TableEntry(g) /\ lvl'[h] = level - 1 /\ lvl'[g] = level
      BY <1>1, <1>3, <1>4, <1>8, <2>2 DEF Inv, MemoryTypeOK
    <3>2. QED
      BY <1>3, <1>7, <3>1
  <2>3. CASE h # g /\ ~(h = w.g /\ k = i)
    <3>1. s2tt'[h][k] = s2tt[h][k] /\ h \in Rtts /\ h \in Granules /\ lvl'[h] = lvl[h]
      BY <1>4, <1>8, <2>3 DEF Rtts, Inv, MemoryTypeOK
    <3>2. ASSUME HoldsData(s2tt[h][k]),
                 NEW x \in s2tt[h][k].pa .. s2tt[h][k].pa + MapSize(lvl[h]) - 1
          PROVE  x \in Granules /\ gstate'[x] = "DATA"
      BY <1>3, <1>4, <3>1, <3>2 DEF Inv, PointsToOwned, MemoryTypeOK
    <3>3. ASSUME IsTable(s2tt[h][k])
          PROVE  /\ s2tt[h][k].pa \in Rtts \ Roots
                 /\ lvl'[s2tt[h][k].pa] = lvl'[h] + 1
      <4>1. s2tt[h][k].pa \in Rtts \ Roots /\ lvl[s2tt[h][k].pa] = lvl[h] + 1
        BY <3>1, <3>3 DEF Inv, PointsToOwned
      <4>2. s2tt[h][k].pa # g
        BY <1>3, <4>1
      <4>3. QED
        BY <1>4, <3>1, <4>1, <4>2 DEF Inv, MemoryTypeOK
    <3>4. QED
      BY <3>1, <3>2, <3>3 DEF Inv, PointsToOwned
  <2>4. QED
    BY <2>1, <2>2, <2>3
<1>21. NoSharing'
  <2> SUFFICES ASSUME NEW g1 \in Rtts \cup {g}, NEW g2 \in Rtts \cup {g},
                      NEW j \in Idx, NEW k \in Idx, NEW x \in Granules,
                      PointsTo(g1, j, x)', PointsTo(g2, k, x)'
               PROVE  g1 = g2 /\ j = k
    BY <1>9 DEF NoSharing
  <2>1. CASE g1 = g /\ g2 = g
    BY <1>5, <1>15, <2>1, ConstantsAssumption DEF Idx
  <2>2. CASE g1 # g /\ g2 # g
    BY <1>1, <1>2, <1>16, <1>19, <2>2 DEF Inv, NoSharing
  <2>3. CASE g1 = g /\ g2 # g
    <3>1. PointsTo(w.g, i, x)
      BY <1>15, <1>17, <2>3
    <3>2. x # g
      BY <1>1, <1>2, <1>19, <3>1
    <3>3. PointsTo(g2, k, x) /\ ~(g2 = w.g /\ k = i)
      BY <1>16, <2>3, <3>2
    <3>4. QED
      BY <1>1, <1>2, <2>3, <3>1, <3>3 DEF Inv, NoSharing
  <2>4. CASE g1 # g /\ g2 = g
    <3>1. PointsTo(w.g, i, x)
      BY <1>15, <1>17, <2>4
    <3>2. x # g
      BY <1>1, <1>2, <1>19, <3>1
    <3>3. PointsTo(g1, j, x) /\ ~(g1 = w.g /\ j = i)
      BY <1>16, <2>4, <3>2
    <3>4. QED
      BY <1>1, <1>2, <2>4, <3>1, <3>3 DEF Inv, NoSharing
  <2>5. QED
    BY <2>1, <2>2, <2>3, <2>4
<1>22. NoLeak'
  <2> SUFFICES ASSUME NEW x \in Granules \ Roots, gstate'[x] \in {"DATA", "RTT"}
               PROVE  \E h \in Rtts \cup {g}, k \in Idx : PointsTo(h, k, x)'
    BY <1>9 DEF NoLeak
  <2>1. CASE x = g
    BY <1>1, <1>2, <1>16, <2>1
  <2>2. CASE x # g
    <3>1. gstate[x] \in {"DATA", "RTT"}
      BY <1>4, <2>2 DEF Inv, MemoryTypeOK
    <3>2. PICK h \in Rtts, k \in Idx : PointsTo(h, k, x)
      BY <3>1 DEF Inv, NoLeak
    <3>3. CASE h = w.g /\ k = i
      BY <1>15, <1>18, <3>2, <3>3
    <3>4. CASE ~(h = w.g /\ k = i)
      BY <1>16, <3>2, <3>4
    <3>5. QED
      BY <3>3, <3>4
  <2>3. QED
    BY <2>1, <2>2
<1>23. QED
  BY <1>12, <1>13, <1>14, <1>20, <1>21, <1>22 DEF Inv

\* A table c goes, and the entry above it, entry i of t, says what c said: nothing
\* that holds data (RTT_DESTROY, folding unassigned or NS entries) or one block.
RemovesTable(t, i, c, new) ==
    /\ s2tt' = [s2tt EXCEPT ![t] = [@ EXCEPT ![i] = new], ![c] = ZeroTable]
    /\ gstate' = [gstate EXCEPT ![c] = "DELEGATED"]
    /\ lvl' = lvl
    /\ refcount' = IF HoldsData(new) THEN [refcount EXCEPT ![c] = 0]
                   ELSE [refcount EXCEPT ![t] = @ - 1]

\* What RTT_FOLD and RTT_DESTROY have in common: the child table c at entry i
\* of t is taken out, and the new entry owns what the child's entries owned.
LEMMA RemoveTableKeepsInv ==
  ASSUME Inv, NEW t \in Rtts, NEW i \in Idx, NEW c \in Granules, NEW new \in Entry,
         IsTable(s2tt[t][i]), s2tt[t][i].pa = c, ~IsTable(new),
         \/ ~HoldsData(new) /\ refcount[c] = 0
         \/ /\ HoldsData(new) /\ lvl[c] = 3
            /\ \A k \in Idx : HoldsData(s2tt[c][k]) /\ s2tt[c][k].pa = new.pa + k,
         RemovesTable(t, i, c, new)
  PROVE  Inv'
<1>1. /\ t \in Granules /\ c \in Rtts \ Roots /\ lvl[c] = lvl[t] + 1 /\ c # t
      /\ lvl[t] \in 0 .. 3
  <2>1. t \in Granules /\ c \in Rtts \ Roots /\ lvl[c] = lvl[t] + 1
    BY DEF Rtts, Inv, PointsToOwned
  <2>2. lvl[t] \in 0 .. 3
    BY <2>1, ConstantsAssumption DEF Inv, MemoryTypeOK, Levels, RTT_PAGE_LEVEL
  <2>3. QED
    BY <2>1, <2>2
<1>2. \A k \in Idx : ZeroTable[k] \in Entry /\ ~IsLive(ZeroTable[k])
  BY DEF ZeroTable, Unassigned, MkEntry, Entry, Hipas, Ripas, IsLive, HoldsData, IsTable
<1>3. \A h \in Granules, k \in Idx :
        s2tt'[h][k] = IF h = c THEN ZeroTable[k]
                      ELSE IF h = t /\ k = i THEN new ELSE s2tt[h][k]
  BY <1>1 DEF RemovesTable, Inv, MemoryTypeOK, ZeroTable
<1>4. /\ gstate' = [gstate EXCEPT ![c] = "DELEGATED"]
       /\ lvl' = lvl
       /\ refcount' = IF HoldsData(new) THEN [refcount EXCEPT ![c] = 0]
                      ELSE [refcount EXCEPT ![t] = @ - 1]
  BY DEF RemovesTable
<1>5. Rtts' = Rtts \ {c}
  BY <1>4 DEF Inv, MemoryTypeOK, Rtts
<1>6. MapSize(3) = 1 /\ MapSize(2) = S2TTES_PER_S2TT /\ S2TTES_PER_S2TT \in Nat \ {0}
  BY ConstantsAssumption DEF MapSize
<1>7. \A h \in Granules, k \in Idx : s2tt[h][k] \in Entry /\ s2tt[h][k].pa \in Nat
  BY DEF Inv, MemoryTypeOK, Entry
<1>8. new.pa \in Nat
  BY DEF Entry
<1>9. HoldsData(new) => lvl[t] = 2 /\ lvl[c] = 3
  BY <1>1
<1>10. ~HoldsData(new) => LiveIn(c) = {}
  <2> SUFFICES ASSUME ~HoldsData(new) PROVE LiveIn(c) = {}
    OBVIOUS
  <2>1. Cardinality(LiveIn(c)) = 0
    BY <1>1 DEF Inv, RefcountCountsLive, Rtts
  <2>2. QED
    BY <2>1, LiveInFinite, FS_EmptySet
\* Who pointed at what, before and after.
<1>11. \A k \in Idx, x \in Granules :
         PointsTo(c, k, x) <=> (HoldsData(new) /\ x = new.pa + k)
  <2> SUFFICES ASSUME NEW k \in Idx, NEW x \in Granules
               PROVE  PointsTo(c, k, x) <=> (HoldsData(new) /\ x = new.pa + k)
    OBVIOUS
  <2>1. CASE HoldsData(new)
    <3>1. HoldsData(s2tt[c][k]) /\ s2tt[c][k].pa = new.pa + k
      BY <2>1
    <3>2. ~IsTable(s2tt[c][k])
      BY <3>1 DEF HoldsData, IsTable
    <3>3. x \in Nat
      BY ConstantsAssumption
    <3>4. k \in Nat
      BY IdxNat
    <3>5. QED
      BY <1>6, <1>8, <1>9, <2>1, <3>1, <3>2, <3>3, <3>4 DEF PointsTo
  <2>2. CASE ~HoldsData(new)
    BY <1>10, <2>2 DEF LiveIn, PointsTo, IsLive
  <2>3. QED
    BY <2>1, <2>2
<1>12. \A h \in Granules \ {c}, k \in Idx, x \in Granules :
         PointsTo(h, k, x)' <=> IF h = t /\ k = i
                                THEN HoldsData(new) /\ \E j \in Idx : x = new.pa + j
                                ELSE PointsTo(h, k, x)
  <2> SUFFICES ASSUME NEW h \in Granules \ {c}, NEW k \in Idx, NEW x \in Granules
               PROVE  PointsTo(h, k, x)' <=> IF h = t /\ k = i
                                THEN HoldsData(new) /\ \E j \in Idx : x = new.pa + j
                                ELSE PointsTo(h, k, x)
    OBVIOUS
  <2>1. CASE h = t /\ k = i
    <3>1. s2tt'[h][k] = new /\ x \in Nat
      BY <1>1, <1>3, <2>1, ConstantsAssumption
    <3>2. PointsTo(h, k, x)' <=> HoldsData(new) /\ new.pa <= x /\ x < new.pa + S2TTES_PER_S2TT
      BY <1>4, <1>6, <1>9, <2>1, <3>1 DEF PointsTo
    <3>3. new.pa <= x /\ x < new.pa + S2TTES_PER_S2TT => x - new.pa \in Idx /\ x = new.pa + (x - new.pa)
      BY <1>6, <1>8, <3>1 DEF Idx
    <3>4. \A j \in Idx : x = new.pa + j => new.pa <= x /\ x < new.pa + S2TTES_PER_S2TT
      BY <1>6, <1>8, <3>1 DEF Idx
    <3>5. QED
      BY <2>1, <3>2, <3>3, <3>4
  <2>2. CASE ~(h = t /\ k = i)
    BY <1>4, <1>3, <2>2 DEF PointsTo
  <2>3. QED
    BY <2>1, <2>2
<1>13. \A x \in Granules : PointsTo(t, i, x) <=> x = c
  BY <1>1 DEF PointsTo, IsTable, HoldsData
<1>14. \A h \in Rtts, k \in Idx : PointsTo(h, k, c) => h = t /\ k = i
  BY <1>1, <1>13 DEF Inv, NoSharing
\* The parts of the invariant.
<1>15. RefcountCountsLive' /\ refcount' \in [Granules -> Nat]
  <2>1. ASSUME NEW h \in Granules
        PROVE  refcount'[h] = IF h \in Rtts' THEN Cardinality(LiveIn(h)') ELSE 0
    <3>1. refcount[h] = IF h \in Rtts THEN Cardinality(LiveIn(h)) ELSE 0
      BY DEF Inv, RefcountCountsLive, Rtts
    <3>2. CASE h = c
      BY <1>4, <1>1, <1>5, <3>1, <3>2 DEF Inv, MemoryTypeOK
    <3>3. CASE h = t
      <4>1. IsLive(s2tt[h][i]) /\ s2tt'[h][i] = new /\ \A k \in Idx \ {i} : s2tt'[h][k] = s2tt[h][k]
        BY <1>1, <1>3, <3>3 DEF IsLive
      <4>2. CASE HoldsData(new)
        <5>1. LiveIn(h)' = LiveIn(h)
          BY <4>1, <4>2, EntryStaysLive DEF IsLive
        <5>2. QED
          BY <1>4, <1>1, <1>5, <3>1, <3>3, <4>2, <5>1 DEF Inv, MemoryTypeOK
      <4>3. CASE ~HoldsData(new)
        <5>1. Cardinality(LiveIn(h)') = Cardinality(LiveIn(h)) - 1
          BY <4>1, <4>3, EntryDies DEF IsLive
        <5>2. QED
          BY <1>4, <1>1, <1>5, <3>1, <3>3, <4>3, <5>1 DEF Inv, MemoryTypeOK
      <4>4. QED
        BY <4>2, <4>3
    <3>4. CASE h # c /\ h # t
      <4>1. LiveIn(h)' = LiveIn(h)
        BY <1>3, <3>4, TableUnchanged
      <4>2. QED
        BY <1>4, <1>5, <3>1, <3>4, <4>1 DEF Inv, MemoryTypeOK
    <3>5. QED
      BY <3>2, <3>3, <3>4
  <2>2. refcount' \in [Granules -> Int]
    BY <1>4, <1>1 DEF Inv, MemoryTypeOK
  <2>3. \A h \in Granules : refcount'[h] \in Nat
    BY <2>1, LiveInFiniteNext
  <2>4. QED
    BY <2>1, <2>2, <2>3 DEF RefcountCountsLive, Rtts
<1>16. MemoryTypeOK'
  <2>1. ZeroTable \in [Idx -> Entry]
    BY <1>2 DEF ZeroTable
  <2>2. s2tt' \in [Granules -> [Idx -> Entry]]
    BY <1>1, <2>1 DEF RemovesTable, Inv, MemoryTypeOK
  <2>3. QED
    BY <1>4, <1>15, <2>2 DEF Inv, MemoryTypeOK, GranuleStates
<1>17. RootsAreTables'
  BY <1>4, <1>1, <1>5 DEF Inv, RootsAreTables, Roots
<1>18. PointsToOwned'
  <2> SUFFICES ASSUME NEW h \in Rtts \ {c}, NEW k \in Idx
               PROVE  LET f == s2tt'[h][k] IN
                      /\ IsTable(f) => /\ f.pa \in (Rtts \ {c}) \ Roots
                                       /\ lvl[f.pa] = lvl[h] + 1
                      /\ HoldsData(f) =>
                           /\ lvl[h] >= RTT_MIN_BLOCK_LEVEL
                           /\ \A x \in f.pa .. f.pa + MapSize(lvl[h]) - 1 :
                                x \in Granules /\ gstate'[x] = "DATA"
    BY <1>4, <1>5 DEF PointsToOwned
  <2>1. CASE h = t /\ k = i
    <3>1. s2tt'[h][k] = new
      BY <1>1, <1>3, <2>1
    <3>2. ASSUME HoldsData(new), NEW x \in new.pa .. new.pa + MapSize(lvl[t]) - 1
          PROVE  x \in Granules /\ gstate'[x] = "DATA"
      <4>1. x - new.pa \in Idx /\ x = new.pa + (x - new.pa)
        BY <1>6, <1>8, <1>9, <3>2 DEF Idx
      <4>2. HoldsData(s2tt[c][x - new.pa]) /\ s2tt[c][x - new.pa].pa = x
        BY <3>2, <4>1
      <4>3. x \in x .. x + MapSize(lvl[c]) - 1
        BY <1>6, <1>8, <1>9, <3>2
      <4>4. x \in Granules /\ gstate[x] = "DATA"
        BY <1>1, <4>1, <4>2, <4>3 DEF Inv, PointsToOwned
      <4>5. QED
        BY <1>4, <1>1, <4>4 DEF Rtts, Inv, MemoryTypeOK
    <3>3. QED
      BY <1>9, <2>1, <3>1, <3>2 DEF RTT_MIN_BLOCK_LEVEL
  <2>2. CASE ~(h = t /\ k = i)
    <3>1. s2tt'[h][k] = s2tt[h][k] /\ h \in Granules
      BY <1>3, <2>2 DEF Rtts
    <3>2. ASSUME HoldsData(s2tt[h][k]),
                 NEW x \in s2tt[h][k].pa .. s2tt[h][k].pa + MapSize(lvl[h]) - 1
          PROVE  x \in Granules /\ gstate'[x] = "DATA"
      <4>1. x \in Granules /\ gstate[x] = "DATA"
        BY <3>2 DEF Inv, PointsToOwned
      <4>2. QED
        BY <1>4, <1>1, <4>1 DEF Rtts, Inv, MemoryTypeOK
    <3>3. ASSUME IsTable(s2tt[h][k])
          PROVE  s2tt[h][k].pa \in (Rtts \ {c}) \ Roots /\ lvl[s2tt[h][k].pa] = lvl[h] + 1
      <4>1. s2tt[h][k].pa \in Rtts \ Roots /\ lvl[s2tt[h][k].pa] = lvl[h] + 1
        BY <3>3 DEF Inv, PointsToOwned
      <4>2. PointsTo(h, k, s2tt[h][k].pa)
        BY <3>3 DEF PointsTo
      <4>3. s2tt[h][k].pa # c
        BY <1>14, <2>2, <4>2
      <4>4. QED
        BY <4>1, <4>3
    <3>4. QED
      BY <3>1, <3>2, <3>3 DEF Inv, PointsToOwned
  <2>3. QED
    BY <2>1, <2>2
<1>19. NoSharing'
  <2> SUFFICES ASSUME NEW g1 \in Rtts \ {c}, NEW g2 \in Rtts \ {c},
                      NEW j \in Idx, NEW k \in Idx, NEW x \in Granules,
                      PointsTo(g1, j, x)', PointsTo(g2, k, x)'
               PROVE  g1 = g2 /\ j = k
    BY <1>5 DEF NoSharing
  <2>1. \A h \in Rtts \ {c}, n \in Idx : PointsTo(h, n, x)' /\ ~(h = t /\ n = i) => PointsTo(h, n, x)
    BY <1>12 DEF Rtts
  <2>2. PointsTo(t, i, x)' => \E n \in Idx : PointsTo(c, n, x)
    BY <1>1, <1>11, <1>12
  <2>3. CASE ~(g1 = t /\ j = i) /\ ~(g2 = t /\ k = i)
    BY <2>1, <2>3 DEF Inv, NoSharing
  <2>4. CASE g1 = t /\ j = i
    BY <1>1, <2>1, <2>2, <2>4 DEF Inv, NoSharing
  <2>5. CASE g2 = t /\ k = i
    BY <1>1, <2>1, <2>2, <2>5 DEF Inv, NoSharing
  <2>6. QED
    BY <2>3, <2>4, <2>5
<1>20. NoLeak'
  <2> SUFFICES ASSUME NEW x \in Granules \ Roots, gstate'[x] \in {"DATA", "RTT"}
               PROVE  \E h \in Rtts \ {c}, k \in Idx : PointsTo(h, k, x)'
    BY <1>5 DEF NoLeak
  <2>1. x # c /\ gstate[x] \in {"DATA", "RTT"}
    BY <1>4 DEF Inv, MemoryTypeOK
  <2>2. PICK h \in Rtts, k \in Idx : PointsTo(h, k, x)
    BY <2>1 DEF Inv, NoLeak
  <2>3. ~(h = t /\ k = i)
    BY <1>13, <2>1, <2>2
  <2>4. CASE h = c
    BY <1>1, <1>11, <1>12, <2>2, <2>4
  <2>5. CASE h # c
    BY <1>12, <2>2, <2>3, <2>5 DEF Rtts
  <2>6. QED
    BY <2>4, <2>5
<1>21. QED
  BY <1>15, <1>16, <1>17, <1>18, <1>19, <1>20 DEF Inv

\* smc_rtt_fold: the block entry owns what the folded table owned.
LEMMA RttFoldKeepsInv ==
  ASSUME Inv, NEW rd \in Rds, NEW addr \in Nat, NEW level \in Int,
         RttFold(rd, addr, level)
  PROVE  Inv'
<1> DEFINE w == Walk(rd, addr, level - 1)
           i == Index(addr, level - 1)
           c == s2tt[w.g][i].pa
           new == FoldedEntry(s2tt[c])
<1>1. /\ w.g \in Rtts /\ w.g \in Granules /\ lvl[w.g] = level - 1
      /\ level - 1 \in 0 .. 2 /\ i \in Idx /\ IsTable(s2tt[w.g][i])
  <2>1. w \in WalkState
    BY WalkOK DEF Inv
  <2>2. w.level = level - 1 /\ level \in (StartLevel + 1) .. 3 /\ IsTable(s2tt[w.g][i])
    BY DEF RttFold, RttFoldAt, ValidStructureCmd, RTT_PAGE_LEVEL
  <2>3. level - 1 \in 0 .. 2
    BY <2>2, ConstantsAssumption DEF RTT_MIN_BLOCK_LEVEL
  <2>4. QED
    BY <2>1, <2>2, <2>3, IndexInTable DEF WalkState, Rtts
<1>2. c \in Granules /\ lvl[c] = level
  BY <1>1 DEF Inv, PointsToOwned, Rtts
<1>3. 0 \in Idx /\ S2TTES_PER_S2TT \in Nat \ {0}
  BY ConstantsAssumption DEF Idx
<1>4. s2tt[c][0] \in Entry /\ refcount[c] \in Nat
  BY <1>2, <1>3 DEF Inv, MemoryTypeOK
<1>5. Foldable(s2tt[c], refcount[c], level)
  BY DEF RttFold, RttFoldAt
<1>6. /\ new \in Entry /\ ~IsTable(new)
      /\ HoldsData(new) <=> HoldsData(s2tt[c][0])
      /\ new.pa = s2tt[c][0].pa
  BY <1>4, <1>5
  DEF FoldedEntry, MkEntry, Entry, IsTable, HoldsData, Foldable, IsUnassigned
<1>7. CASE refcount[c] = 0
  <2>1. ~HoldsData(new)
    BY <1>3, <1>5, <1>6, <1>7 DEF Foldable, IsUnassigned, HoldsData
  <2>2. RemovesTable(w.g, i, c, new)
    BY <1>7, <2>1 DEF RttFold, RttFoldAt, RemovesTable
  <2>3. QED
    BY <1>1, <1>2, <1>6, <1>7, <2>1, <2>2, RemoveTableKeepsInv
<1>8. CASE refcount[c] # 0
  <2>1. /\ Homogeneous(s2tt[c]) /\ level > RTT_MIN_BLOCK_LEVEL
        /\ refcount[c] = S2TTES_PER_S2TT
        /\ HoldsData(s2tt[c][0]) /\ MapsBlock(s2tt[c], level)
    BY <1>5, <1>8 DEF Foldable
  <2>2. level = 3 /\ MapSize(level) = 1
    <3> HIDE DEF w, i, c, new
    <3>1. level = 3
      BY <1>1, <2>1 DEF RTT_MIN_BLOCK_LEVEL
    <3>2. MapSize(3) = 1
      BY SMTT(30) DEF MapSize
    <3>3. QED
      BY <3>1, <3>2, Zenon
  <2>3. \A k \in Idx : HoldsData(s2tt[c][k]) /\ s2tt[c][k].pa = new.pa + k
    <3> SUFFICES ASSUME NEW k \in Idx
                 PROVE  HoldsData(s2tt[c][k]) /\ s2tt[c][k].pa = new.pa + k
      OBVIOUS
    <3>1. s2tt[c][k].pa = new.pa + k * MapSize(level)
      BY <1>6, <2>1 DEF MapsBlock
    <3>2. k \in Nat
      BY IdxNat
    <3>3. s2tt[c][k].pa = new.pa + k
      BY <2>2, <3>1, <3>2
    <3>4. HoldsData(s2tt[c][k])
      BY <2>1 DEF Homogeneous, HoldsData
    <3>5. QED
      BY <3>3, <3>4
  <2>4. [refcount EXCEPT ![c] = @ - S2TTES_PER_S2TT] = [refcount EXCEPT ![c] = 0]
    <3> HIDE DEF c
    <3>1. refcount[c] - S2TTES_PER_S2TT = 0
      BY <1>3, <2>1
    <3>2. QED
      BY <3>1, Zenon
  <2>5. RemovesTable(w.g, i, c, new)
    BY <1>6, <1>8, <2>1, <2>4 DEF RttFold, RttFoldAt, RemovesTable
  <2>6. QED
    BY <1>1, <1>2, <1>6, <2>1, <2>2, <2>3, <2>5, RemoveTableKeepsInv
<1>9. QED
  BY <1>7, <1>8

\* smc_rtt_destroy: a table with reference count 0 owns nothing.
LEMMA RttDestroyKeepsInv ==
  ASSUME Inv, NEW rd \in Rds, NEW addr \in Nat, NEW level \in Int,
         RttDestroy(rd, addr, level)
  PROVE  Inv'
<1> DEFINE w == Walk(rd, addr, level - 1)
           i == Index(addr, level - 1)
           c == s2tt[w.g][i].pa
           new == IF addr \in Par THEN Unassigned("destroyed") ELSE UnassignedNs
<1>1. w.g \in Rtts /\ i \in Idx /\ IsTable(s2tt[w.g][i])
  <2>1. w \in WalkState
    BY WalkOK DEF Inv
  <2>2. level \in (StartLevel + 1) .. 3 /\ IsTable(s2tt[w.g][i])
    BY DEF RttDestroy, RttDestroyAt, ValidStructureCmd, RTT_PAGE_LEVEL
  <2>3. level - 1 \in 0 .. 2
    BY <2>2, ConstantsAssumption DEF RTT_MIN_BLOCK_LEVEL
  <2>4. QED
    BY <2>1, <2>2, <2>3, IndexInTable DEF WalkState
<1>2. c \in Granules
  BY <1>1 DEF Inv, PointsToOwned, Rtts
<1>3. new \in Entry /\ ~IsTable(new) /\ ~HoldsData(new)
  BY DEF Unassigned, UnassignedNs, MkEntry, Entry, Hipas, Ripas, IsTable, HoldsData
<1>4. RemovesTable(w.g, i, c, new) /\ refcount[c] = 0
  BY <1>3 DEF RttDestroy, RttDestroyAt, RemovesTable, Destroyable
<1>5. QED
  BY <1>1, <1>2, <1>3, <1>4, RemoveTableKeepsInv

-----------------------------------------------------------------------------
(* Commands that rewrite entries in place.                                 *)

\* Rewriting one table without changing what its entries own keeps the invariant.
LEMMA TableEditKeepsInv ==
  ASSUME Inv, NEW h \in Granules, NEW tbl \in [Idx -> Entry],
         \A k \in Idx : SameOwner(s2tt[h][k], tbl[k]),
         s2tt' = [s2tt EXCEPT ![h] = tbl],
         UNCHANGED <<gstate, refcount, lvl>>
  PROVE  Inv'
<1>1. MemoryTypeOK'
  BY DEF Inv, MemoryTypeOK
<1>2. \A g \in Granules, k \in Idx : SameOwner(s2tt[g][k], s2tt'[g][k])
  BY DEF SameOwner, Inv, MemoryTypeOK
<1>3. QED
  BY <1>1, <1>2, SameOwnershipKeepsInv DEF SameOwnership

\* The same for a single entry.
LEMMA EntryEditKeepsInv ==
  ASSUME Inv, NEW h \in Granules, NEW i \in Idx, NEW f \in Entry,
         SameOwner(s2tt[h][i], f),
         s2tt' = [s2tt EXCEPT ![h] = [@ EXCEPT ![i] = f]],
         UNCHANGED <<gstate, refcount, lvl>>
  PROVE  Inv'
<1> DEFINE tbl == [s2tt[h] EXCEPT ![i] = f]
<1>1. tbl \in [Idx -> Entry]
  BY DEF Inv, MemoryTypeOK
<1>2. \A k \in Idx : SameOwner(s2tt[h][k], tbl[k])
  BY DEF SameOwner, Inv, MemoryTypeOK
<1>3. s2tt' = [s2tt EXCEPT ![h] = tbl]
  OBVIOUS
<1>4. QED
  BY <1>1, <1>2, <1>3, TableEditKeepsInv

\* Where a walk ends there is an entry for the address.
LEMMA WalkedEntry ==
  ASSUME Inv, NEW rd \in Rds, NEW a \in Nat, NEW t \in Int
  PROVE  LET w == Walk(rd, a, t) IN
         /\ w.g \in Granules /\ w.level \in Levels /\ w.level \in 0 .. 3
         /\ Index(a, w.level) \in Idx
         /\ s2tt[w.g][Index(a, w.level)] \in Entry
         /\ s2tt[w.g] \in [Idx -> Entry]
<1> DEFINE w == Walk(rd, a, t)
<1>1. w \in WalkState
  BY WalkOK DEF Inv
<1>2. w.g \in Granules /\ w.level \in Levels /\ w.level \in 0 .. 3
  BY <1>1, ConstantsAssumption DEF WalkState, Rtts, Levels, RTT_PAGE_LEVEL
<1>3. QED
  BY <1>2, IndexInTable DEF Inv, MemoryTypeOK

\* map_unmap_ns: NS mappings own nothing.
LEMMA MapUnprotectedKeepsInv ==
  ASSUME Inv, NEW rd \in Rds, NEW addr \in Nat, NEW level \in Int, NEW pa \in Nat,
         \/ RttMapUnprotected(rd, addr, level, pa)
         \/ RttUnmapUnprotected(rd, addr, level)
  PROVE  Inv'
<1> DEFINE w == Walk(rd, addr, level)
           i == Index(addr, level)
           e == s2tt[w.g][i]
<1>1. w.level = level
  BY DEF RttMapUnprotected, RttMapUnprotectedAt, RttUnmapUnprotected, RttUnmapUnprotectedAt
<1>2. w.g \in Granules /\ i \in Idx
  BY <1>1, WalkedEntry
<1>3. UNCHANGED <<gstate, refcount, lvl>>
  BY DEF RttMapUnprotected, RttMapUnprotectedAt, RttUnmapUnprotected, RttUnmapUnprotectedAt
<1>4. \E f \in Entry : /\ SameOwner(e, f)
                       /\ s2tt' = [s2tt EXCEPT ![w.g] = [@ EXCEPT ![i] = f]]
  <2>1. AssignedNs(pa) \in Entry /\ UnassignedNs \in Entry
    BY DEF AssignedNs, UnassignedNs, MkEntry, Entry, Hipas, Ripas
  <2>2. CASE RttMapUnprotected(rd, addr, level, pa)
    <3>1. SameOwner(e, AssignedNs(pa))
      BY <2>2 DEF RttMapUnprotected, RttMapUnprotectedAt, SameOwner, AssignedNs, MkEntry, IsTable, HoldsData, IsLive
    <3>2. QED
      BY <2>1, <2>2, <3>1 DEF RttMapUnprotected, RttMapUnprotectedAt
  <2>3. CASE RttUnmapUnprotected(rd, addr, level)
    <3>1. SameOwner(e, UnassignedNs)
      BY <2>3 DEF RttUnmapUnprotected, RttUnmapUnprotectedAt, SameOwner, UnassignedNs, MkEntry, IsTable, HoldsData, IsLive
    <3>2. QED
      BY <2>1, <2>3, <3>1 DEF RttUnmapUnprotected, RttUnmapUnprotectedAt
  <2>4. QED
    BY <2>2, <2>3
<1>5. QED
  BY <1>2, <1>3, <1>4, EntryEditKeepsInv

\* smc_ipa_block and smc_ipa_unblock change permissions only.
LEMMA SetBlockedKeepsInv ==
  ASSUME Inv, NEW rd \in Rds, NEW addr \in Nat, NEW blocked \in BOOLEAN,
         SetBlocked(rd, addr, blocked)
  PROVE  Inv'
<1> DEFINE w == Walk(rd, addr, RTT_PAGE_LEVEL)
           i == Index(addr, RTT_PAGE_LEVEL)
           e == s2tt[w.g][i]
           f == [e EXCEPT !.blocked = blocked]
<1>1. w.level = RTT_PAGE_LEVEL
  BY DEF SetBlocked, SetBlockedAt
<1>2. w.g \in Granules /\ i \in Idx /\ e \in Entry
  BY <1>1, WalkedEntry DEF RTT_PAGE_LEVEL
<1>3. f \in Entry /\ SameOwner(e, f)
  BY <1>2 DEF Entry, SameOwner, IsTable, HoldsData, IsLive
<1>4. s2tt' = [s2tt EXCEPT ![w.g] = [@ EXCEPT ![i] = f]]
  BY DEF SetBlocked, SetBlockedAt
<1>5. UNCHANGED <<gstate, refcount, lvl>>
  BY DEF SetBlocked, SetBlockedAt
<1>6. QED
  BY <1>2, <1>3, <1>4, <1>5, EntryEditKeepsInv

\* smc_rtt_init_ripas changes the RIPAS of unassigned entries only.
LEMMA InitRipasKeepsInv ==
  ASSUME Inv, NEW rd \in Rds, NEW base \in Nat, NEW top \in Nat,
         RttInitRipasAt(Walk(rd, base, RTT_PAGE_LEVEL), rd, base, top)
  PROVE  Inv'
<1> DEFINE w == Walk(rd, base, RTT_PAGE_LEVEL)
           Initial(e) == e.hipas = "unassigned" /\ e.ripas \in {"empty", "ram"}
           ks == Run(w, base, top, Initial)
           tbl == [k \in Idx |-> IF k \in ks THEN Unassigned("ram") ELSE s2tt[w.g][k]]
<1>1. w.g \in Granules /\ s2tt[w.g] \in [Idx -> Entry]
  BY WalkedEntry DEF RTT_PAGE_LEVEL
<1>2. \A k \in ks : k \in Idx /\ Initial(s2tt[w.g][k])
  BY DEF Run, Idx
<1>3. Unassigned("ram") \in Entry
  BY DEF Unassigned, MkEntry, Entry, Hipas, Ripas
<1>4. tbl \in [Idx -> Entry]
  BY <1>1, <1>3
<1>5. \A k \in Idx : SameOwner(s2tt[w.g][k], tbl[k])
  BY <1>2 DEF SameOwner, Unassigned, MkEntry, IsTable, HoldsData, IsLive
<1>6. s2tt' = [s2tt EXCEPT ![w.g] = tbl] /\ UNCHANGED <<gstate, refcount, lvl>>
  BY <1>1 DEF RttInitRipasAt, Inv, MemoryTypeOK
<1>7. QED
  BY <1>1, <1>4, <1>5, <1>6, TableEditKeepsInv

\* smc_rtt_set_ripas changes the RIPAS and keeps the output address.
LEMMA SetRipasKeepsInv ==
  ASSUME Inv, setRipas \in [Rds -> Requests], NEW rd \in Rds, NEW top \in Nat,
         RttSetRipas(rd, top)
  PROVE  Inv'
<1> DEFINE req == setRipas[rd]
           base == req.addr
           w == Walk(rd, base, RTT_PAGE_LEVEL)
           CanUpdate(e) == CanUpdateRipas(e, req.change)
           ks == Run(w, base, top, CanUpdate)
           tbl == [k \in Idx |-> IF k \in ks THEN UpdateRipas(s2tt[w.g][k], req.ripas)
                                             ELSE s2tt[w.g][k]]
<1>1. base \in Nat /\ req.ripas \in Ripas
  BY DEF Requests, Ripas
<1>2. w.g \in Granules /\ s2tt[w.g] \in [Idx -> Entry]
  BY <1>1, WalkedEntry DEF RTT_PAGE_LEVEL
<1>3. \A e \in Entry : UpdateRipas(e, req.ripas) \in Entry /\ SameOwner(e, UpdateRipas(e, req.ripas))
  BY <1>1 DEF UpdateRipas, MkEntry, Entry, SameOwner, IsTable, HoldsData, IsLive
<1>4. tbl \in [Idx -> Entry]
  BY <1>2, <1>3
<1>5. \A k \in Idx : SameOwner(s2tt[w.g][k], tbl[k])
  <2>1. \A e : SameOwner(e, e)
    BY DEF SameOwner
  <2>2. QED
    BY <1>2, <1>3, <2>1
<1>6. s2tt' = [s2tt EXCEPT ![w.g] = tbl] /\ UNCHANGED <<gstate, refcount, lvl>>
  BY <1>2 DEF RttSetRipas, RttSetRipasAt, Inv, MemoryTypeOK
<1>7. QED
  BY <1>2, <1>4, <1>5, <1>6, TableEditKeepsInv

\* Granules nothing points to change hands.
LEMMA HandOverKeepsInv ==
  ASSUME Inv, NEW g \in Granules, GranuleDelegate(g) \/ GranuleUndelegate(g)
  PROVE  Inv'
<1>1. MemoryTypeOK'
  BY DEF GranuleDelegate, GranuleUndelegate, Inv, MemoryTypeOK, GranuleStates
<1>2. SameOwnership
  BY DEF GranuleDelegate, GranuleUndelegate, Inv, MemoryTypeOK, SameOwnership, SameOwner
<1>3. QED
  BY <1>1, <1>2, SameOwnershipKeepsInv

\* What the invariant speaks about does not change.
LEMMA UnchangedKeepsInv ==
  ASSUME Inv, UNCHANGED <<gstate, refcount, s2tt, lvl>>
  PROVE  Inv'
<1>1. MemoryTypeOK' /\ SameOwnership
  BY DEF Inv, MemoryTypeOK, SameOwnership, SameOwner
<1>2. QED
  BY <1>1, SameOwnershipKeepsInv

-----------------------------------------------------------------------------
(* Every step.                                                             *)

\* The ranges the next-state relation quantifies over.
LEMMA Ranges == Ipas \subseteq Nat /\ Levels \subseteq Int /\ HostPas \subseteq Nat
BY ConstantsAssumption DEF Ipas, Levels, RTT_PAGE_LEVEL

\* Every RMI_RTT_* structure and NS command keeps the invariant.
LEMMA RttCommandKeepsInv ==
  ASSUME Inv, NEW rd \in Rds, RttCommand(rd)
  PROVE  Inv'
<1>1. CASE \E g \in Granules, addr \in Ipas, level \in Levels : RttCreate(rd, g, addr, level)
  BY <1>1, Ranges, RttCreateKeepsInv
<1>2. CASE \E addr \in Ipas, level \in Levels : RttFold(rd, addr, level)
  BY <1>2, Ranges, RttFoldKeepsInv
<1>3. CASE \E addr \in Ipas, level \in Levels : RttDestroy(rd, addr, level)
  BY <1>3, Ranges, RttDestroyKeepsInv
<1>4. CASE \E addr \in Ipas, level \in Levels, pa \in HostPas :
             RttMapUnprotected(rd, addr, level, pa)
  BY <1>4, Ranges, MapUnprotectedKeepsInv
<1>5. CASE \E addr \in Ipas, level \in Levels : RttUnmapUnprotected(rd, addr, level)
  <2>1. 0 \in Nat
    OBVIOUS
  <2>2. QED
    BY <1>5, <2>1, Ranges, MapUnprotectedKeepsInv
<1>6. QED
  BY <1>1, <1>2, <1>3, <1>4, <1>5 DEF RttCommand

\* Every RMI_DATA_* and RMI_IPA_* command keeps the invariant.
LEMMA DataCommandKeepsInv ==
  ASSUME Inv, NEW rd \in Rds, DataCommand(rd)
  PROVE  Inv'
<1>1. PICK addr \in Ipas :
        \/ \E g \in Granules :
             \/ DataCreate(rd, g, addr)
             \/ DataCreateFault(rd, g, addr)
             \/ DataCreateUnknown(rd, g, addr)
        \/ DataDestroy(rd, addr)
        \/ IpaBlock(rd, addr)
        \/ IpaUnblock(rd, addr)
  BY DEF DataCommand
<1>2. addr \in Nat
  BY Ranges
<1>3. ASSUME NEW g \in Granules, DataCreate(rd, g, addr)
      PROVE  Inv'
  <2>1. "ram" \in Ripas /\ UNCHANGED lvl
    BY <1>3 DEF Ripas, DataCreate, DataCreateAt
  <2>2. QED
    BY <1>2, <1>3, <2>1, MapDataKeepsInv DEF DataCreate, DataCreateAt
<1>4. ASSUME NEW g \in Granules, DataCreateFault(rd, g, addr)
      PROVE  Inv'
  BY <1>4, UnchangedKeepsInv DEF DataCreateFault
<1>5. ASSUME NEW g \in Granules, DataCreateUnknown(rd, g, addr)
      PROVE  Inv'
  <2>1. EntryAt(Walk(rd, addr, RTT_PAGE_LEVEL), addr).ripas \in Ripas
    <3>1. LET w == Walk(rd, addr, RTT_PAGE_LEVEL)
          IN s2tt[w.g][Index(addr, w.level)] \in Entry
      BY <1>2, WalkedEntry DEF RTT_PAGE_LEVEL
    <3>2. QED
      BY <3>1 DEF EntryAt, Entry
  <2>2. UNCHANGED lvl
    BY <1>5 DEF DataCreateUnknown, DataCreateUnknownAt
  <2>3. QED
    BY <1>2, <1>5, <2>1, <2>2, MapDataKeepsInv DEF DataCreateUnknown, DataCreateUnknownAt
<1>6. CASE DataDestroy(rd, addr)
  BY <1>2, <1>6, DataDestroyKeepsInv
<1>7. CASE IpaBlock(rd, addr) \/ IpaUnblock(rd, addr)
  BY <1>2, <1>7, SetBlockedKeepsInv DEF IpaBlock, IpaUnblock
<1>8. QED
  BY <1>1, <1>3, <1>4, <1>5, <1>6, <1>7

\* Both RIPAS commands keep the invariant.
LEMMA RipasCommandKeepsInv ==
  ASSUME Inv, TypeOK, NEW rd \in Rds, RipasCommand(rd)
  PROVE  Inv'
<1>1. \A a \in Ipas : a \in Nat /\ a + 1 \in Nat
  BY Ranges
<1>2. CASE \E base, last \in Ipas : RttInitRipas(rd, base, last + 1)
  BY <1>1, <1>2, InitRipasKeepsInv DEF RttInitRipas
<1>3. CASE \E last \in Ipas : RttSetRipas(rd, last + 1)
  BY <1>1, <1>3, SetRipasKeepsInv DEF TypeOK
<1>4. QED
  BY <1>2, <1>3 DEF RipasCommand

\* What the realm and its REC do keeps the invariant.
LEMMA RealmStepKeepsInv ==
  ASSUME Inv, NEW rd \in Rds, RealmStep(rd)
  PROVE  Inv'
<1>1. UNCHANGED <<gstate, refcount, s2tt, lvl>>
  BY DEF RealmStep, RealmActivate, RealmAccess, RsiIpaStateSet, RecEnter
<1>2. QED
  BY <1>1, UnchangedKeepsInv

\* The inductive step.
LEMMA StepKeepsInv ==
  ASSUME Inv, TypeOK, [Next]_vars
  PROVE  Inv'
<1>1. CASE \E g \in Granules : GranuleDelegate(g) \/ GranuleUndelegate(g)
  BY <1>1, HandOverKeepsInv
<1>2. ASSUME NEW rd \in Rds,
             RttCommand(rd) \/ DataCommand(rd) \/ RipasCommand(rd) \/ RealmStep(rd)
      PROVE  Inv'
  BY <1>2, RttCommandKeepsInv, DataCommandKeepsInv, RipasCommandKeepsInv, RealmStepKeepsInv
<1>3. CASE UNCHANGED vars
  BY <1>3, UnchangedKeepsInv DEF vars
<1>4. QED
  BY <1>1, <1>2, <1>3 DEF Next

-----------------------------------------------------------------------------
(* The types of the rest of the state.                                     *)

RestTypeOK ==
    /\ secret \subseteq Granules
    /\ rdState \in [Rds -> {"NEW", "ACTIVE"}]
    /\ measured \in [Rds -> SUBSET Ipas]
    /\ setRipas \in [Rds -> Requests]
    /\ tlb \subseteq Translations

\* The types of the memory, which Inv includes, and the other types.
LEMMA TypesSplit == TypeOK <=> MemoryTypeOK /\ RestTypeOK
BY DEF TypeOK, MemoryTypeOK, RestTypeOK

\* Every RMI_RTT_* structure and NS command keeps the other types.
LEMMA RttCommandTypes ==
  ASSUME Inv, RestTypeOK, NEW rd \in Rds, RttCommand(rd)
  PROVE  RestTypeOK'
<1>1. PICK addr \in Ipas, level \in Levels :
        \/ \E g \in Granules : RttCreate(rd, g, addr, level)
        \/ RttFold(rd, addr, level)
        \/ RttDestroy(rd, addr, level)
        \/ \E pa \in HostPas : RttMapUnprotected(rd, addr, level, pa)
        \/ RttUnmapUnprotected(rd, addr, level)
  BY DEF RttCommand
<1>2. UNCHANGED <<secret, rdState, measured, setRipas>>
  BY <1>1 DEF RttCreate, RttCreateAt, RttFold, RttFoldAt, RttDestroy, RttDestroyAt,
                    RttMapUnprotected, RttMapUnprotectedAt, RttUnmapUnprotected, RttUnmapUnprotectedAt
<1>3. \A as, a, l : InvalidateAt(rd, as) \subseteq tlb /\ InvalidateRange(rd, a, l) \subseteq tlb
  BY DEF InvalidateAt, InvalidateRange
<1>4. tlb' \subseteq tlb
  <2>1. CASE \E g \in Granules : RttCreate(rd, g, addr, level)
    BY <1>3, <2>1 DEF RttCreate, RttCreateAt
  <2>2. CASE RttFold(rd, addr, level)
    BY <1>3, <2>2 DEF RttFold, RttFoldAt
  <2>3. CASE RttDestroy(rd, addr, level)
    BY <1>3, <2>3 DEF RttDestroy, RttDestroyAt, DestroyFlush
  <2>4. CASE \E pa \in HostPas : RttMapUnprotected(rd, addr, level, pa)
    BY <2>4 DEF RttMapUnprotected, RttMapUnprotectedAt
  <2>5. CASE RttUnmapUnprotected(rd, addr, level)
    BY <1>3, <2>5 DEF RttUnmapUnprotected, RttUnmapUnprotectedAt
  <2>6. QED
    BY <1>1, <2>1, <2>2, <2>3, <2>4, <2>5
<1>5. QED
  BY <1>2, <1>4 DEF RestTypeOK

\* Every RMI_DATA_* and RMI_IPA_* command keeps the other types.
LEMMA DataCommandTypes ==
  ASSUME Inv, RestTypeOK, NEW rd \in Rds, DataCommand(rd)
  PROVE  RestTypeOK'
<1>1. PICK addr \in Ipas :
        \/ \E g \in Granules :
             \/ DataCreate(rd, g, addr)
             \/ DataCreateFault(rd, g, addr)
             \/ DataCreateUnknown(rd, g, addr)
        \/ DataDestroy(rd, addr)
        \/ IpaBlock(rd, addr)
        \/ IpaUnblock(rd, addr)
  BY DEF DataCommand
<1>2. UNCHANGED <<rdState, setRipas>>
  BY <1>1 DEF DataCreate, DataCreateAt, DataCreateFault, DataCreateUnknown, DataCreateUnknownAt,
              DataDestroy, UnmapData, FreeData, IpaBlock, IpaUnblock, SetBlocked, SetBlockedAt
<1>3. secret' \subseteq Granules
  BY <1>1 DEF DataCreate, DataCreateAt, DataCreateFault, DataCreateUnknown, DataCreateUnknownAt,
              MapData, Wipe, DataDestroy, UnmapData, FreeData, IpaBlock, IpaUnblock,
              SetBlocked, SetBlockedAt, RestTypeOK
<1>4. measured' \in [Rds -> SUBSET Ipas]
  BY <1>1, ZenonT(60) DEF DataCreate, DataCreateAt, DataCreateFault, DataCreateUnknown,
     DataCreateUnknownAt,
              DataDestroy, UnmapData, FreeData, IpaBlock, IpaUnblock,
              SetBlocked, SetBlockedAt, RestTypeOK
<1>5. tlb' \subseteq tlb
  BY <1>1 DEF DataCreate, DataCreateAt, DataCreateFault, DataCreateUnknown, DataCreateUnknownAt,
              DataDestroy, UnmapData, FreeData, IpaBlock, IpaUnblock,
              SetBlocked, SetBlockedAt, InvalidateAt
<1>6. QED
  BY <1>2, <1>3, <1>4, <1>5 DEF RestTypeOK

\* smc_rtt_set_ripas moves the request on and leaves the other types alone.
LEMMA SetRipasTypes ==
  ASSUME Inv, setRipas \in [Rds -> Requests], NEW rd \in Rds, NEW top, RttSetRipas(rd, top)
  PROVE  /\ setRipas' \in [Rds -> Requests]
         /\ UNCHANGED <<secret, rdState, measured>> /\ tlb' \subseteq tlb
<1> DEFINE req == setRipas[rd]
           w == Walk(rd, req.addr, RTT_PAGE_LEVEL)
           CanUpdate(e) == CanUpdateRipas(e, req.change)
           ks == Run(w, req.addr, top, CanUpdate)
<1>1. UNCHANGED <<secret, rdState, measured>> /\ tlb' \subseteq tlb
  BY DEF RttSetRipas, RttSetRipasAt, InvalidateAt
<1>2. setRipas' = [setRipas EXCEPT ![rd].addr =
                     req.addr + Cardinality(ks) * MapSize(w.level)]
  BY DEF RttSetRipas, RttSetRipasAt
<1>3. req.addr \in Nat
  BY DEF Requests
<1>4. Cardinality(ks) \in Nat
  <2>1. ks \in SUBSET Idx
    BY DEF Run, Idx
  <2>2. QED
    BY <2>1, CardIdx, FS_Subset, FS_CardinalityType
<1>5. MapSize(w.level) \in Nat
  <2>1. w.level \in 0 .. 3
    BY <1>3, WalkedEntry DEF RTT_PAGE_LEVEL
  <2>2. QED
    BY <2>1, MapSizePositive
<1>6. req.addr + Cardinality(ks) * MapSize(w.level) \in Nat
  BY <1>3, <1>4, <1>5
<1>7. setRipas' \in [Rds -> Requests]
  BY <1>2, <1>6 DEF Requests
<1>8. QED
  BY <1>1, <1>7

\* Both RIPAS commands keep the other types.
LEMMA RipasCommandTypes ==
  ASSUME Inv, RestTypeOK, NEW rd \in Rds, RipasCommand(rd)
  PROVE  RestTypeOK'
<1>1. CASE \E base, last \in Ipas : RttInitRipas(rd, base, last + 1)
  <2>1. PICK base \in Ipas, last \in Ipas : RttInitRipas(rd, base, last + 1)
    BY <1>1
  <2>2. UNCHANGED <<secret, rdState, setRipas, tlb>>
    BY <2>1 DEF RttInitRipas, RttInitRipasAt
  <2>3. \A w, ks : PagesOf(w, base, ks) \subseteq Ipas
    BY DEF PagesOf
  <2>4. \E pages \in SUBSET Ipas : measured' = [measured EXCEPT ![rd] = @ \cup pages]
    BY <2>1, <2>3 DEF RttInitRipas, RttInitRipasAt
  <2>5. QED
    BY <2>2, <2>4 DEF RestTypeOK
<1>2. CASE \E last \in Ipas : RttSetRipas(rd, last + 1)
  BY <1>2, SetRipasTypes DEF RestTypeOK
<1>3. QED
  BY <1>1, <1>2 DEF RipasCommand

\* What the realm and its REC do keeps the other types.
LEMMA RealmStepTypes ==
  ASSUME Inv, RestTypeOK, NEW rd \in Rds, RealmStep(rd)
  PROVE  RestTypeOK'
<1>1. CASE RealmActivate(rd)
  BY <1>1 DEF RealmActivate, RestTypeOK
<1>2. CASE \E addr \in Ipas : RealmAccess(rd, addr)
  <2>1. PICK addr \in Ipas : RealmAccess(rd, addr)
    BY <1>2
  <2> DEFINE w == Walk(rd, addr, RTT_PAGE_LEVEL)
             e == Leaf(rd, addr)
             m == MapSize(w.level)
             entry == [rd |-> rd, level |-> w.level, blocked |-> e.blocked, pa |-> e.pa,
                       base |-> addr - (addr % m)]
  <2>2. addr \in Nat
    BY Ranges
  <2>3. e \in Entry /\ w.level \in Levels /\ m \in Nat \ {0}
    <3>1. e = EntryAt(w, addr)
      BY DEF Leaf
    <3>2. RTT_PAGE_LEVEL \in 0 .. 3
      BY DEF RTT_PAGE_LEVEL
    <3> HIDE DEF w, e
    <3>3. w.level \in Levels /\ w.level \in 0 .. 3 /\ EntryAt(w, addr) \in Entry
      BY <2>2, <3>2, WalkedEntry DEF w, EntryAt
    <3>4. QED
      BY <3>1, <3>3, MapSizePositive
  <2>4. addr % m \in 0 .. addr
    <3>1. \A a \in Nat, n \in Nat \ {0} : a % n \in 0 .. a
      OBVIOUS
    <3>2. QED
      BY <2>2, <2>3, <3>1
  <2>5. addr - (addr % m) \in Ipas
    BY <2>2, <2>4, IpaSizeNat DEF Ipas
  <2>6. entry \in Translations
    BY <2>3, <2>5 DEF Translations, Entry
  <2>7. tlb' \subseteq tlb \cup {entry} /\ UNCHANGED <<secret, rdState, measured, setRipas>>
    BY <2>1 DEF RealmAccess
  <2>8. QED
    BY <2>6, <2>7 DEF RestTypeOK
<1>3. CASE \E req \in RipasRequests : RsiIpaStateSet(rd, req)
  BY <1>3, ConstantsAssumption DEF RsiIpaStateSet, RestTypeOK, Requests
<1>4. CASE RecEnter(rd)
  BY <1>4 DEF RecEnter, RestTypeOK, NoRequest, Requests
<1>5. QED
  BY <1>1, <1>2, <1>3, <1>4 DEF RealmStep

\* The inductive step of type correctness; it needs Inv for the walks.
LEMMA StepKeepsTypes ==
  ASSUME Inv, TypeOK, [Next]_vars
  PROVE  TypeOK'
<1>1. RestTypeOK
  BY TypesSplit
<1>2. CASE \E g \in Granules : GranuleDelegate(g) \/ GranuleUndelegate(g)
  <2>1. RestTypeOK'
    BY <1>1, <1>2 DEF GranuleDelegate, GranuleUndelegate, RestTypeOK
  <2>2. QED
    BY <2>1, StepKeepsInv DEF Inv, TypeOK, MemoryTypeOK, RestTypeOK
<1>3. ASSUME NEW rd \in Rds,
             RttCommand(rd) \/ DataCommand(rd) \/ RipasCommand(rd) \/ RealmStep(rd)
      PROVE  TypeOK'
  <2>1. RestTypeOK'
    BY <1>1, <1>3, RttCommandTypes, DataCommandTypes, RipasCommandTypes, RealmStepTypes
  <2>2. QED
    BY <2>1, StepKeepsInv DEF Inv, TypeOK, MemoryTypeOK, RestTypeOK
<1>4. CASE UNCHANGED vars
  BY <1>4 DEF vars, TypeOK
<1>5. QED
  BY <1>2, <1>3, <1>4 DEF Next

-----------------------------------------------------------------------------
(* The theorems.                                                           *)

\* The inductive invariant holds in every reachable state, for any number of
\* realms, granules, table sizes and starting levels.
THEOREM Invariance == Spec => [](TypeOK /\ Inv)
<1>1. Init => TypeOK /\ Inv
  BY InitTypes, InitInv
<1>2. TypeOK /\ Inv /\ [Next]_vars => (TypeOK /\ Inv)'
  BY StepKeepsInv, StepKeepsTypes
<1>3. QED
  BY <1>1, <1>2, PTL DEF Spec

\* Every variable keeps its type: no command leaves a malformed entry, a negative
\* reference count or an address outside the realm behind.
THEOREM TypesKept == Spec => []TypeOK
BY Invariance, PTL

\* The reference count of a table is the number of its live entries, whatever
\* commands made and undid them.
THEOREM RefcountsAreExact == Spec => []RefcountCountsLive
<1>1. Inv => RefcountCountsLive
  BY DEF Inv
<1>2. QED
  BY <1>1, Invariance, PTL

\* No live entry dangles: tables point to tables one level down, data entries to
\* data granules.
THEOREM NoDanglingEntry == Spec => []PointsToOwned
<1>1. Inv => PointsToOwned
  BY DEF Inv
<1>2. QED
  BY <1>1, Invariance, PTL

\* No granule is mapped twice, within a realm or across realms.
THEOREM RealmsAreDisjoint == Spec => []NoSharing
<1>1. Inv => NoSharing
  BY DEF Inv
<1>2. QED
  BY <1>1, Invariance, PTL

\* Every data or table granule can still be found from some table.
THEOREM NothingIsLost == Spec => []NoLeak
<1>1. Inv => NoLeak
  BY DEF Inv
<1>2. QED
  BY <1>1, Invariance, PTL

-----------------------------------------------------------------------------
(***************************************************************************)
(* Walks.  A walk reads the memory of tables and nothing else, so it is    *)
(* described here for any memory m; the walk before a step has m = s2tt,   *)
(* the walk after it m = s2tt'.  The central fact is WalksMeet: two walks  *)
(* that come to the same table belong to the same realm and to addresses   *)
(* in the same region, because no table is linked twice.  Hence a command  *)
(* that changes the entry for an address changes no other address, and the *)
(* three frame lemmas say what it does change.                             *)
(***************************************************************************)
(* Division.                                                               *)

\* Quotient and remainder.
LEMMA DivMod ==
  \A a \in Nat, m \in Nat \ {0} :
      a \div m \in Nat /\ a % m \in 0 .. m - 1 /\ a = m * (a \div m) + (a % m)
OBVIOUS

\* Multiples of m are at least m apart.
LEMMA MultiplesApart ==
  \A m \in Nat \ {0}, p, q \in Nat : p < q => m * p + m <= m * q
<1> SUFFICES ASSUME NEW m \in Nat \ {0}, NEW p \in Nat, NEW q \in Nat, p < q
             PROVE  m * p + m <= m * q
  OBVIOUS
<1>1. PICK d \in Nat : q = p + 1 + d
  <2>1. q - p - 1 \in Nat /\ q = p + 1 + (q - p - 1)
    OBVIOUS
  <2>2. QED
    BY <2>1
<1>2. m * q = m * p + m + m * d
  BY <1>1
<1>3. m * d \in Nat /\ m * p \in Nat
  OBVIOUS
<1>4. QED
  BY <1>2, <1>3

\* There is only one quotient and one remainder.
LEMMA DivUnique ==
  \A m \in Nat \ {0}, q, r \in Nat :
      r < m => (m * q + r) \div m = q /\ (m * q + r) % m = r
<1> SUFFICES ASSUME NEW m \in Nat \ {0}, NEW q \in Nat, NEW r \in Nat, r < m
             PROVE  (m * q + r) \div m = q /\ (m * q + r) % m = r
  OBVIOUS
<1> DEFINE a == m * q + r
           p == a \div m
           s == a % m
<1>1. a \in Nat
  OBVIOUS
<1>2. p \in Nat /\ s \in 0 .. m - 1 /\ a = m * p + s
  BY <1>1, DivMod
<1>3. /\ p \in Nat /\ s \in Nat /\ s < m /\ m * p \in Nat /\ m * q \in Nat
      /\ m * q + r = m * p + s
  BY <1>2
<1> HIDE DEF p, s
<1>4. ~(p < q)
  <2>1. p < q => m * p + m <= m * q
    BY <1>3, MultiplesApart
  <2>2. QED
    BY <2>1, <1>3
<1>5. ~(q < p)
  <2>1. q < p => m * q + m <= m * p
    BY <1>3, MultiplesApart
  <2>2. QED
    BY <2>1, <1>3
<1>6. p = q
  BY <1>4, <1>5, <1>3
<1>7. s = r
  BY <1>6, <1>3
<1>8. QED
  BY <1>6, <1>7 DEF p, s

\* Dividing twice divides by the product.
LEMMA DivTwice ==
  \A a \in Nat, m, s \in Nat \ {0} : a \div (s * m) = (a \div m) \div s
<1> SUFFICES ASSUME NEW a \in Nat, NEW m \in Nat \ {0}, NEW s \in Nat \ {0}
             PROVE  a \div (s * m) = (a \div m) \div s
  OBVIOUS
<1>1. PICK q \in Nat, r \in Nat : a = m * q + r /\ r < m /\ q = a \div m
  BY DivMod
<1>2. PICK u \in Nat, v \in Nat : q = s * u + v /\ v < s /\ u = q \div s
  BY DivMod
<1>3. \A k, x, y, z \in Nat : k * (x * y + z) = (x * k) * y + k * z
  OBVIOUS
<1>4. a = (s * m) * u + (m * v + r)
  <2>1. m * (s * u + v) = (s * m) * u + m * v
    BY <1>3
  <2>2. s * m \in Nat /\ (s * m) * u \in Nat /\ m * v \in Nat
    OBVIOUS
  <2>3. QED
    BY <1>1, <1>2, <2>1, <2>2
<1>5. m * v + r \in Nat /\ m * v + r < s * m
  <2>1. m * v + m <= m * s
    BY <1>2, MultiplesApart
  <2>2. m * v \in Nat /\ m * s = s * m
    OBVIOUS
  <2>3. QED
    BY <1>1, <2>1, <2>2
<1>6. s * m \in Nat \ {0}
  OBVIOUS
<1>7. a \div (s * m) = u
  BY <1>4, <1>5, <1>6, DivUnique
<1>8. QED
  BY <1>7, <1>1, <1>2

-----------------------------------------------------------------------------
(* Blocks and regions.  An entry of a level translates a block of the      *)
(* address space, a table of that level a region: its parent's block.      *)

Block(a, l) == a \div MapSize(l)
Region(a, l) == a \div (S2TTES_PER_S2TT * MapSize(l))

\* An entry translates what a whole table translates one level down.
LEMMA MapSizeStep == \A l \in 0 .. 2 : MapSize(l) = S2TTES_PER_S2TT * MapSize(l + 1)
<1>1. S2TTES_PER_S2TT \in Nat
  BY ConstantsAssumption
<1>2. \A s \in Nat : (s * s) * s = s * (s * s)
  OBVIOUS
<1>3. MapSize(0) = S2TTES_PER_S2TT * MapSize(1)
  BY <1>1, <1>2 DEF MapSize
<1>4. MapSize(1) = S2TTES_PER_S2TT * MapSize(2) /\ MapSize(2) = S2TTES_PER_S2TT * MapSize(3)
  BY <1>1 DEF MapSize
<1>5. QED
  BY <1>3, <1>4

\* Region and index make up a block number, and a block number both.
LEMMA BlockParts ==
  ASSUME NEW a \in Nat, NEW l \in 0 .. 3
  PROVE  /\ Block(a, l) \in Nat /\ Region(a, l) \in Nat
         /\ Region(a, l) = Block(a, l) \div S2TTES_PER_S2TT
         /\ Index(a, l) = Block(a, l) % S2TTES_PER_S2TT
         /\ Block(a, l) = S2TTES_PER_S2TT * Region(a, l) + Index(a, l)
<1>1. MapSize(l) \in Nat \ {0} /\ S2TTES_PER_S2TT \in Nat \ {0}
  BY MapSizePositive, ConstantsAssumption
<1>2. Block(a, l) \in Nat
  BY <1>1, DivMod DEF Block
<1>3. Region(a, l) = Block(a, l) \div S2TTES_PER_S2TT
  BY <1>1, DivTwice DEF Block, Region
<1>4. Index(a, l) = Block(a, l) % S2TTES_PER_S2TT
  BY DEF Index, Block
<1>5. QED
  BY <1>1, <1>2, <1>3, <1>4, DivMod

\* A table's region is the block of the entry above it.
LEMMA RegionIsBlockAbove ==
  ASSUME NEW a \in Nat, NEW l \in 0 .. 2
  PROVE  Region(a, l + 1) = Block(a, l)
BY MapSizeStep DEF Region, Block

\* The root table translates the whole address space.
LEMMA OneRootRegion == \A a \in Ipas : Region(a, StartLevel) = 0
<1> SUFFICES ASSUME NEW a \in Ipas PROVE Region(a, StartLevel) = 0
  OBVIOUS
<1>1. IpaSize \in Nat /\ a \in Nat /\ a < IpaSize
  BY IpaSizeNat DEF Ipas
<1>2. IpaSize \in Nat \ {0} /\ IpaSize * 0 + a = a
  BY <1>1
<1>3. a \div IpaSize = 0
  BY <1>1, <1>2, DivUnique
<1>4. QED
  BY <1>3 DEF Region, IpaSize

\* Addresses in one block are in one block of every coarser level.
LEMMA CoarserBlock ==
  ASSUME NEW a \in Nat, NEW b \in Nat, NEW l \in 0 .. 2, Block(a, l + 1) = Block(b, l + 1)
  PROVE  Block(a, l) = Block(b, l)
<1>1. l + 1 \in 0 .. 3
  OBVIOUS
<1>2. Region(a, l + 1) = Region(b, l + 1)
  <2>1. Region(a, l + 1) = Block(a, l + 1) \div S2TTES_PER_S2TT
    BY <1>1, BlockParts, Zenon
  <2>2. Region(b, l + 1) = Block(b, l + 1) \div S2TTES_PER_S2TT
    BY <1>1, BlockParts, Zenon
  <2>3. QED
    BY <2>1, <2>2, Zenon
<1>3. QED
  BY <1>2, RegionIsBlockAbove

\* The first address of a block ...
LEMMA BlockBase ==
  ASSUME NEW a \in Nat, NEW l \in 0 .. 3
  PROVE  /\ a - (a % MapSize(l)) = Block(a, l) * MapSize(l)
         /\ a - (a % MapSize(l)) \in Nat
         /\ Aligned(a - (a % MapSize(l)), l)
         /\ Block(a - (a % MapSize(l)), l) = Block(a, l)
         /\ a - (a % MapSize(l)) <= a
         /\ a < a - (a % MapSize(l)) + MapSize(l)
<1> DEFINE m == MapSize(l)
           q == Block(a, l)
<1>1. m \in Nat \ {0}
  BY MapSizePositive
<1>2. q \in Nat /\ a % m \in 0 .. m - 1 /\ a = m * q + (a % m)
  BY <1>1, DivMod DEF Block
<1>3. m * q \in Nat /\ m * q = q * m /\ m * q + 0 = m * q
  BY <1>1, <1>2
<1>4. (m * q) \div m = q /\ (m * q) % m = 0
  <2>1. 0 \in Nat /\ 0 < m
    BY <1>1
  <2>2. (m * q + 0) \div m = q /\ (m * q + 0) % m = 0
    BY <2>1, <1>1, <1>2, DivUnique
  <2>3. QED
    BY <2>2, <1>3
<1>5. /\ a - (a % m) = m * q
      /\ m * q <= a /\ a < m * q + m
  BY <1>1, <1>2, <1>3
<1>6. Aligned(m * q, l) /\ Block(m * q, l) = q
  BY <1>4 DEF Aligned, Block
<1>7. QED
  BY <1>3, <1>5, <1>6

\* ... is the only aligned one.
LEMMA AlignedIsBase ==
  ASSUME NEW a \in Nat, NEW l \in 0 .. 3, Aligned(a, l)
  PROVE  a = Block(a, l) * MapSize(l)
<1>1. a - (a % MapSize(l)) = Block(a, l) * MapSize(l)
  BY BlockBase
<1>2. QED
  BY <1>1 DEF Aligned

\* The addresses of a block, as a range.
LEMMA BlockRange ==
  ASSUME NEW a \in Nat, NEW l \in 0 .. 3, NEW q \in Nat
  PROVE  Block(a, l) = q <=> q * MapSize(l) <= a /\ a < q * MapSize(l) + MapSize(l)
<1> DEFINE m == MapSize(l)
<1>1. m \in Nat \ {0}
  BY MapSizePositive
<1>2. q * m \in Nat /\ q * m = m * q
  BY <1>1
<1>3. ASSUME Block(a, l) = q
      PROVE  q * m <= a /\ a < q * m + m
  BY <1>1, <1>2, <1>3, BlockBase
<1>4. ASSUME q * m <= a, a < q * m + m
      PROVE  Block(a, l) = q
  <2>1. a - q * m \in Nat /\ a - q * m < m /\ m * q + (a - q * m) = a
    BY <1>1, <1>2, <1>4
  <2>2. QED
    BY <2>1, <1>1, DivUnique DEF Block
<1>5. QED
  BY <1>3, <1>4

\* The protected half of the address space is made of whole blocks.
LEMMA ParIsWholeBlocks ==
  ASSUME NEW a \in Ipas, NEW b \in Ipas, NEW l \in Levels, Block(a, l) = Block(b, l)
  PROVE  a \in Par <=> b \in Par
<1>1. a \in Nat /\ b \in Nat /\ StartLevel \in 0 .. 2 /\ StartLevel \in 0 .. 3 /\ l \in StartLevel .. 3
  BY ConstantsAssumption, Ranges DEF Levels, RTT_PAGE_LEVEL, RTT_MIN_BLOCK_LEVEL
<1>2. Block(a, StartLevel) = Block(b, StartLevel)
  <2>1. l = StartLevel + 1 => Block(a, StartLevel) = Block(b, StartLevel)
    BY <1>1, CoarserBlock
  <2>2. l = StartLevel + 2 => Block(a, StartLevel + 1) = Block(b, StartLevel + 1)
    BY <1>1, CoarserBlock
  <2>3. l = StartLevel + 3 => Block(a, StartLevel + 2) = Block(b, StartLevel + 2)
    BY <1>1, CoarserBlock
  <2>4. l = StartLevel + 3 => Block(a, StartLevel + 1) = Block(b, StartLevel + 1)
    BY <2>3, <1>1, CoarserBlock
  <2>5. l \in {StartLevel + 2, StartLevel + 3} => Block(a, StartLevel) = Block(b, StartLevel)
    BY <2>2, <2>4, <1>1, CoarserBlock
  <2>6. QED
    BY <2>1, <2>5, <1>1
<1>3. PICK h \in Nat : S2TTES_PER_S2TT = 2 * h
  <2>1. S2TTES_PER_S2TT \in Nat /\ 2 \in Nat \ {0}
    BY ConstantsAssumption
  <2>2. S2TTES_PER_S2TT \div 2 \in Nat /\ S2TTES_PER_S2TT = 2 * (S2TTES_PER_S2TT \div 2)
    BY <2>1, DivMod, EvenTable
  <2>3. QED
    BY <2>2
<1> DEFINE m == MapSize(StartLevel)
<1>4. m \in Nat \ {0}
  BY <1>1, MapSizePositive
<1>5. IpaSize = 2 * (h * m) /\ h * m \in Nat
  BY <1>3, <1>4 DEF IpaSize
<1>6. ASSUME NEW c \in Ipas
      PROVE  c \in Par <=> Block(c, StartLevel) < h
  <2> DEFINE q == Block(c, StartLevel)
  <2>0. c \in Nat
    BY Ranges
  <2>1. c \in Nat /\ q \in Nat
    BY <2>0, <1>1, BlockParts
  <2>2. c \in Par <=> c < h * m
    BY <1>5, <2>1 DEF Par
  <2>3. q * m <= c /\ c < q * m + m /\ q * m \in Nat
    BY <1>1, <1>4, <2>1, BlockRange
  <2>4. q < h => q * m + m <= h * m
    BY <1>3, <1>4, <2>1, MultiplesApart
  <2>5. h <= q => h * m <= q * m
    <3>1. h < q => h * m + m <= q * m
      BY <1>3, <1>4, <2>1, MultiplesApart
    <3>2. QED
      BY <3>1, <1>4, <1>5, <2>1, <2>3
  <2>6. QED
    BY <1>3, <1>4, <1>5, <2>1, <2>2, <2>3, <2>4, <2>5
<1>7. QED
  BY <1>2, <1>6

-----------------------------------------------------------------------------
(* The path of a walk through a memory m of tables: where it is after d    *)
(* steps.  On says that it comes to table g at level l.                    *)

EntryIn(m, w, a) == m[w.g][Index(a, w.level)]
Deeper(m, w, a) ==
    IF w.level < RTT_PAGE_LEVEL /\ IsTable(EntryIn(m, w, a))
    THEN [g |-> EntryIn(m, w, a).pa, level |-> w.level + 1] ELSE w
At(g, l) == [g |-> g, level |-> l]
Path(m, rd, a, d) ==
    LET w0 == At(RootOf[rd], StartLevel)
        w1 == Deeper(m, w0, a)
        w2 == Deeper(m, w1, a)
    IN CASE d = 0 -> w0 [] d = 1 -> w1 [] d = 2 -> w2 [] OTHER -> Deeper(m, w2, a)
On(m, rd, a, g, l) == Path(m, rd, a, l - StartLevel) = At(g, l)

\* Where a walk stops.
Stops(m, g, l, a) == l = RTT_PAGE_LEVEL \/ ~IsTable(m[g][Index(a, l)])

\* The levels are a few numbers.
LEMMA LevelNumbers ==
  /\ StartLevel \in 0 .. 2 /\ Levels = StartLevel .. 3
  /\ \A l \in Levels : l \in 0 .. 3 /\ l - StartLevel \in 0 .. 3
BY ConstantsAssumption DEF Levels, RTT_PAGE_LEVEL, RTT_MIN_BLOCK_LEVEL

\* What holds of the starting level and passes from level to level holds of all.
LEMMA LevelInduction ==
  ASSUME NEW S, StartLevel \in S, \A l \in S : l \in Levels /\ l + 1 \in Levels => l + 1 \in S
  PROVE  Levels \subseteq S
<1>1. StartLevel + 1 \in Levels => StartLevel + 1 \in S
  BY LevelNumbers
<1>2. StartLevel + 2 \in Levels => StartLevel + 2 \in S
  BY <1>1, LevelNumbers
<1>3. StartLevel + 3 \in Levels => StartLevel + 3 \in S
  BY <1>2, LevelNumbers
<1>4. QED
  BY <1>1, <1>2, <1>3, LevelNumbers

\* One step of the path.
LEMMA PathStep ==
  ASSUME NEW m, NEW rd, NEW a, NEW d \in 0 .. 2
  PROVE  Path(m, rd, a, d + 1) = Deeper(m, Path(m, rd, a, d), a)
BY DEF Path

\* After d steps the path is d levels down, or has stopped before.
PathFact(m, rd, a, d) ==
    \E g, l : /\ Path(m, rd, a, d) = At(g, l)
              /\ l \in Levels /\ l <= StartLevel + d
              /\ On(m, rd, a, g, l)
              /\ l < StartLevel + d => Stops(m, g, l, a)

\* That holds of every number of steps.
LEMMA PathGoesDown ==
  ASSUME NEW m, NEW rd, NEW a
  PROVE  \A d \in 0 .. 3 : PathFact(m, rd, a, d)
<1>1. PathFact(m, rd, a, 0)
  <2>1. Path(m, rd, a, 0) = At(RootOf[rd], StartLevel)
    BY DEF Path
  <2>2. On(m, rd, a, RootOf[rd], StartLevel)
    BY <2>1, LevelNumbers DEF On
  <2>3. QED
    BY <2>1, <2>2, LevelNumbers DEF PathFact
<1>2. ASSUME NEW d \in 0 .. 2, PathFact(m, rd, a, d)
      PROVE  PathFact(m, rd, a, d + 1)
  <2>1. PICK g, l : /\ Path(m, rd, a, d) = At(g, l)
                    /\ l \in Levels /\ l <= StartLevel + d
                    /\ On(m, rd, a, g, l)
                    /\ l < StartLevel + d => Stops(m, g, l, a)
    BY <1>2 DEF PathFact
  <2>2. Path(m, rd, a, d + 1) = Deeper(m, At(g, l), a)
    BY <2>1, PathStep
  <2> DEFINE e == m[g][Index(a, l)]
  <2>3. /\ Stops(m, g, l, a) => Deeper(m, At(g, l), a) = At(g, l)
        /\ ~Stops(m, g, l, a) => Deeper(m, At(g, l), a) = At(e.pa, l + 1)
    BY <2>1, LevelNumbers DEF Deeper, At, EntryIn, Stops, RTT_PAGE_LEVEL
  <2>4. CASE Stops(m, g, l, a)
    <3>1. l <= StartLevel + (d + 1) /\ Path(m, rd, a, d + 1) = At(g, l)
      BY <2>1, <2>2, <2>3, <2>4, LevelNumbers
    <3>2. QED
      BY <3>1, <2>1, <2>4 DEF PathFact
  <2>5. CASE ~Stops(m, g, l, a)
    <3>1. l = StartLevel + d /\ l + 1 \in Levels
      BY <2>1, <2>5, LevelNumbers DEF Stops, RTT_PAGE_LEVEL
    <3>2. Path(m, rd, a, d + 1) = At(e.pa, l + 1)
      BY <2>2, <2>3, <2>5
    <3>3. (l + 1) - StartLevel = d + 1 /\ l + 1 <= StartLevel + (d + 1)
          /\ ~(l + 1 < StartLevel + (d + 1))
      BY <3>1, LevelNumbers
    <3>4. On(m, rd, a, e.pa, l + 1)
      BY <3>2, <3>3 DEF On
    <3>5. QED
      BY <3>1, <3>2, <3>3, <3>4 DEF PathFact
  <2>6. QED
    BY <2>4, <2>5
<1>3. PathFact(m, rd, a, 1)
  BY <1>1, <1>2
<1>4. PathFact(m, rd, a, 2)
  BY <1>2, <1>3
<1>5. PathFact(m, rd, a, 3)
  BY <1>2, <1>4
<1>6. QED
  BY <1>1, <1>3, <1>4, <1>5

\* A walk starts at its realm's root ...
LEMMA OnRoot ==
  ASSUME NEW m, NEW rd, NEW a, NEW g
  PROVE  On(m, rd, a, g, StartLevel) <=> g = RootOf[rd]
<1>1. Path(m, rd, a, StartLevel - StartLevel) = At(RootOf[rd], StartLevel)
  BY LevelNumbers DEF Path
<1>2. QED
  BY <1>1 DEF On, At

\* ... and comes to a table through the entry for its address one level up.
LEMMA OnBelow ==
  ASSUME NEW m, NEW rd, NEW a, NEW h, NEW l \in Levels, l + 1 \in Levels
  PROVE  On(m, rd, a, h, l + 1) <=>
           \E g : /\ On(m, rd, a, g, l)
                  /\ IsTable(m[g][Index(a, l)])
                  /\ h = m[g][Index(a, l)].pa
<1> DEFINE d == l - StartLevel
<1>1. d \in 0 .. 2 /\ (l + 1) - StartLevel = d + 1 /\ l < 3 /\ StartLevel + d = l
  BY LevelNumbers
<1>2. PICK g, k : /\ Path(m, rd, a, d) = At(g, k)
                  /\ k \in Levels /\ k <= l
                  /\ k < l => Stops(m, g, k, a)
  <2>1. PathFact(m, rd, a, d)
    BY <1>1, PathGoesDown
  <2>2. QED
    BY <1>1, <2>1 DEF PathFact
<1>3. Path(m, rd, a, d + 1) = Deeper(m, At(g, k), a)
  BY <1>1, <1>2, PathStep
<1>4. On(m, rd, a, h, l + 1) <=> Deeper(m, At(g, k), a) = At(h, l + 1)
  BY <1>1, <1>3 DEF On
<1>5. \A f : On(m, rd, a, f, l) <=> f = g /\ k = l
  BY <1>2 DEF On, At
<1>6. CASE k = l
  BY <1>1, <1>4, <1>5, <1>6, LevelNumbers DEF Deeper, At, EntryIn, RTT_PAGE_LEVEL
<1>7. CASE k # l
  <2>1. Deeper(m, At(g, k), a) = At(g, k)
    BY <1>1, <1>2, <1>7, LevelNumbers DEF Deeper, At, EntryIn, Stops, RTT_PAGE_LEVEL
  <2>2. k # l + 1
    BY <1>2, <1>7, LevelNumbers
  <2>3. QED
    BY <1>4, <1>5, <1>7, <2>1, <2>2 DEF At
<1>8. QED
  BY <1>6, <1>7

\* Every walk comes to its end ...
LEMMA PathEnds ==
  ASSUME NEW m, NEW rd, NEW a
  PROVE  \E g, l : /\ Path(m, rd, a, 3) = At(g, l)
                   /\ l \in Levels
                   /\ On(m, rd, a, g, l)
                   /\ Stops(m, g, l, a)
<1>1. PICK g, l : /\ Path(m, rd, a, 3) = At(g, l)
                  /\ l \in Levels
                  /\ On(m, rd, a, g, l)
                  /\ l < StartLevel + 3 => Stops(m, g, l, a)
  <2>1. PathFact(m, rd, a, 3)
    BY PathGoesDown
  <2>2. QED
    BY <2>1 DEF PathFact
<1>2. Stops(m, g, l, a)
  BY <1>1, LevelNumbers DEF Stops, RTT_PAGE_LEVEL
<1>3. QED
  BY <1>1, <1>2

\* ... at the first table on it that has no table below.
LEMMA PathEndsAt ==
  ASSUME NEW m, NEW rd, NEW a, NEW g, NEW l \in Levels,
         On(m, rd, a, g, l), Stops(m, g, l, a)
  PROVE  Path(m, rd, a, 3) = At(g, l)
<1> DEFINE d == l - StartLevel
<1>1. d \in 0 .. 3 /\ Path(m, rd, a, d) = At(g, l)
  BY LevelNumbers DEF On
<1>2. Deeper(m, At(g, l), a) = At(g, l)
  BY LevelNumbers DEF Deeper, At, EntryIn, Stops, RTT_PAGE_LEVEL
<1>3. \A k \in 0 .. 2 : Path(m, rd, a, k) = At(g, l) => Path(m, rd, a, k + 1) = At(g, l)
  BY <1>2, PathStep
<1>4. d = 0 => Path(m, rd, a, 1) = At(g, l)
  BY <1>1, <1>3
<1>5. d \in {0, 1} => Path(m, rd, a, 2) = At(g, l)
  BY <1>1, <1>3, <1>4
<1>6. d \in {0, 1, 2} => Path(m, rd, a, 3) = At(g, l)
  BY <1>1, <1>3, <1>5
<1>7. QED
  BY <1>1, <1>6

\* Walk towards level t, in the memory m.
StepTo(m, w, a, t) ==
    IF w.level < t /\ IsTable(EntryIn(m, w, a))
    THEN [g |-> EntryIn(m, w, a).pa, level |-> w.level + 1] ELSE w
WalkTo(m, rd, a, t) ==
    StepTo(m, StepTo(m, StepTo(m, At(RootOf[rd], StartLevel), a, t), a, t), a, t)

\* Such a walk is a path with as many steps as there are levels to go.
LEMMA WalkToIsPath ==
  ASSUME NEW m, NEW rd, NEW a, NEW t \in Levels
  PROVE  WalkTo(m, rd, a, t) = Path(m, rd, a, t - StartLevel)
<1> DEFINE n == t - StartLevel
           P(d) == Path(m, rd, a, d)
           Step(w) == StepTo(m, w, a, t)
<1>1. n \in 0 .. 3 /\ t \in 0 .. 3 /\ StartLevel + n = t
  BY LevelNumbers
<1>2. ASSUME NEW d \in 0 .. 2, d < n
      PROVE  Step(P(d)) = P(d + 1)
  <2>1. PICK g, l : P(d) = At(g, l) /\ l \in Levels /\ l <= StartLevel + d
    BY PathGoesDown DEF PathFact
  <2>2. l < t /\ l < 3
    BY <2>1, <1>1, <1>2, LevelNumbers
  <2>3. Step(At(g, l)) = Deeper(m, At(g, l), a)
    BY <2>2 DEF StepTo, Deeper, At, RTT_PAGE_LEVEL
  <2>4. P(d + 1) = Deeper(m, P(d), a)
    BY PathStep
  <2>5. QED
    BY <2>1, <2>3, <2>4
<1>3. Step(P(n)) = P(n)
  <2>1. PICK g, l : /\ P(n) = At(g, l) /\ l \in Levels /\ l <= StartLevel + n
                    /\ l < StartLevel + n => Stops(m, g, l, a)
    BY <1>1, PathGoesDown DEF PathFact
  <2>2. ~(l < t /\ IsTable(EntryIn(m, At(g, l), a)))
    BY <2>1, <1>1, LevelNumbers DEF Stops, EntryIn, At, RTT_PAGE_LEVEL
  <2>3. Step(At(g, l)) = At(g, l)
    BY <2>2 DEF StepTo, At
  <2>4. QED
    BY <2>1, <2>3
<1>4. P(0) = At(RootOf[rd], StartLevel)
  BY DEF Path
<1>5. WalkTo(m, rd, a, t) = Step(Step(Step(P(0))))
  BY <1>4 DEF WalkTo
<1> HIDE DEF Step, P, n
<1>6. n = 0 => Step(Step(Step(P(0)))) = P(n)
  BY <1>3
<1>7. n = 1 => Step(Step(Step(P(0)))) = P(n)
  <2>1. n = 1 => Step(P(0)) = P(1)
    BY <1>2
  <2>2. QED
    BY <2>1, <1>3
<1>8. n = 2 => Step(Step(Step(P(0)))) = P(n)
  <2>1. n = 2 => Step(P(0)) = P(1) /\ Step(P(1)) = P(2)
    BY <1>2
  <2>2. QED
    BY <2>1, <1>3
<1>9. n = 3 => Step(Step(Step(P(0)))) = P(n)
  BY <1>2
<1>10. WalkTo(m, rd, a, t) = P(n)
  BY <1>1, <1>5, <1>6, <1>7, <1>8, <1>9
<1>11. QED
  BY <1>10 DEF P, n

\* The walks of RmmRtt, before and after a step, are paths.
LEMMA WalkIsPath ==
  ASSUME NEW rd, NEW a, NEW t \in Levels
  PROVE  /\ Walk(rd, a, t) = Path(s2tt, rd, a, t - StartLevel)
         /\ Walk(rd, a, t)' = Path(s2tt', rd, a, t - StartLevel)
<1>1. Walk(rd, a, t) = WalkTo(s2tt, rd, a, t)
  BY DEF Walk, WalkStep, EntryAt, WalkTo, StepTo, EntryIn, At
<1>2. Walk(rd, a, t)' = WalkTo(s2tt', rd, a, t)
  BY DEF Walk, WalkStep, EntryAt, WalkTo, StepTo, EntryIn, At
<1>3. QED
  BY <1>1, <1>2, WalkToIsPath

\* A walk that reaches the level it was sent to.
LEMMA WalkReaches ==
  ASSUME NEW rd, NEW a, NEW t \in Levels, Walk(rd, a, t).level = t
  PROVE  On(s2tt, rd, a, Walk(rd, a, t).g, t)
<1> DEFINE d == t - StartLevel
<1>1. d \in 0 .. 3
  BY LevelNumbers
<1>2. PICK g, l : Path(s2tt, rd, a, d) = At(g, l)
  BY <1>1, PathGoesDown DEF PathFact
<1>3. Walk(rd, a, t) = At(g, l)
  BY <1>2, WalkIsPath
<1>4. l = t /\ Walk(rd, a, t).g = g
  BY <1>3 DEF At
<1>5. QED
  BY <1>2, <1>4 DEF On

\* A path that has come to level t, or finds no table on its way there, is where the
\* walk to level t ends.
LEMMA WalkEndsAt ==
  ASSUME NEW rd, NEW a, NEW t \in Levels, NEW l \in Levels, l <= t, NEW g,
         On(s2tt, rd, a, g, l), l < t => ~IsTable(s2tt[g][Index(a, l)])
  PROVE  Walk(rd, a, t) = At(g, l)
<1> DEFINE d == t - StartLevel
           P(k) == Path(s2tt, rd, a, k)
<1>1. d \in 0 .. 3 /\ l - StartLevel \in 0 .. d /\ P(l - StartLevel) = At(g, l)
  BY LevelNumbers DEF On
<1>2. l < t => \A k \in 0 .. 2 : P(k) = At(g, l) => P(k + 1) = At(g, l)
  BY PathStep DEF Deeper, At, EntryIn
<1>3. Walk(rd, a, t) = P(d)
  BY WalkIsPath
<1>4. l = t => P(d) = At(g, l)
  BY <1>1
<1> HIDE DEF P
<1>5. l < t => P(d) = At(g, l)
  <2>1. CASE l < t /\ l - StartLevel = 0
    <3>1. P(0) = At(g, l)
      BY <1>1, <2>1
    <3>2. P(1) = At(g, l)
      BY <1>2, <2>1, <3>1
    <3>3. P(2) = At(g, l)
      BY <1>2, <2>1, <3>2
    <3>4. P(3) = At(g, l)
      BY <1>2, <2>1, <3>3
    <3>5. QED
      BY <1>1, <3>1, <3>2, <3>3, <3>4
  <2>2. CASE l < t /\ l - StartLevel = 1
    <3>1. P(1) = At(g, l)
      BY <1>1, <2>2
    <3>2. P(2) = At(g, l)
      BY <1>2, <2>2, <3>1
    <3>3. P(3) = At(g, l)
      BY <1>2, <2>2, <3>2
    <3>4. QED
      BY <1>1, <2>2, <3>1, <3>2, <3>3
  <2>3. CASE l < t /\ l - StartLevel = 2
    <3>1. P(2) = At(g, l)
      BY <1>1, <2>3
    <3>2. P(3) = At(g, l)
      BY <1>2, <2>3, <3>1
    <3>3. QED
      BY <1>1, <2>3, <3>1, <3>2
  <2>4. l < t => l - StartLevel \in 0 .. 2
    BY LevelNumbers
  <2>5. QED
    BY <2>1, <2>2, <2>3, <2>4
<1>6. QED
  BY <1>3, <1>4, <1>5, LevelNumbers

\* The walk to page level, before and after a step.
LEMMA WalkToPages ==
  ASSUME NEW rd, NEW a
  PROVE  /\ Walk(rd, a, RTT_PAGE_LEVEL) = Path(s2tt, rd, a, 3)
         /\ Walk(rd, a, RTT_PAGE_LEVEL)' = Path(s2tt', rd, a, 3)
<1> DEFINE d == RTT_PAGE_LEVEL - StartLevel
<1>1. RTT_PAGE_LEVEL \in Levels /\ d \in 0 .. 3 /\ RTT_PAGE_LEVEL = 3 /\ StartLevel + d = 3
  BY LevelNumbers DEF RTT_PAGE_LEVEL
<1>2. ASSUME NEW m
      PROVE  Path(m, rd, a, d) = Path(m, rd, a, 3)
  <2>1. PICK g, l : /\ Path(m, rd, a, d) = At(g, l)
                    /\ l \in Levels /\ l <= 3
                    /\ On(m, rd, a, g, l)
                    /\ l < 3 => Stops(m, g, l, a)
    BY <1>1, PathGoesDown DEF PathFact
  <2>2. Stops(m, g, l, a)
    BY <2>1, LevelNumbers DEF Stops, RTT_PAGE_LEVEL
  <2>3. QED
    BY <2>1, <2>2, PathEndsAt
<1>3. QED
  BY <1>1, <1>2, WalkIsPath

-----------------------------------------------------------------------------
(* Paths through the tables of an invariant state.                         *)

\* A path stays on tables linked at the level it says.
LEMMA OnTable ==
  ASSUME Inv, NEW rd \in Rds, NEW a \in Nat, NEW l \in Levels, NEW g,
         On(s2tt, rd, a, g, l)
  PROVE  /\ g \in Rtts /\ g \in Granules /\ lvl[g] = l
         /\ Index(a, l) \in Idx /\ s2tt[g][Index(a, l)] \in Entry
<1> DEFINE S == {k \in Levels : \A h : On(s2tt, rd, a, h, k) => h \in Rtts /\ lvl[h] = k}
<1>1. StartLevel \in S
  BY OnRoot, LevelNumbers DEF Inv, RootsAreTables
<1>2. ASSUME NEW k \in S, k + 1 \in Levels
      PROVE  k + 1 \in S
  <2> SUFFICES ASSUME NEW h, On(s2tt, rd, a, h, k + 1)
               PROVE  h \in Rtts /\ lvl[h] = k + 1
    BY <1>2
  <2>1. PICK f : /\ On(s2tt, rd, a, f, k)
                 /\ IsTable(s2tt[f][Index(a, k)]) /\ h = s2tt[f][Index(a, k)].pa
    BY <1>2, OnBelow
  <2>2. f \in Rtts /\ lvl[f] = k
    BY <2>1
  <2>3. Index(a, k) \in Idx
    BY LevelNumbers, IndexInTable
  <2>4. QED
    BY <2>1, <2>2, <2>3 DEF Inv, PointsToOwned
<1>3. l \in S
  BY <1>1, <1>2, LevelInduction
<1>4. g \in Rtts /\ lvl[g] = l /\ g \in Granules
  BY <1>3 DEF Rtts
<1>5. Index(a, l) \in Idx
  BY LevelNumbers, IndexInTable
<1>6. QED
  BY <1>4, <1>5 DEF Inv, MemoryTypeOK

\* Two paths meet only on behalf of one realm and one region of its addresses.
LEMMA WalksMeet ==
  ASSUME Inv, NEW r1 \in Rds, NEW r2 \in Rds, NEW a \in Ipas, NEW b \in Ipas,
         NEW l \in Levels, NEW g, On(s2tt, r1, a, g, l), On(s2tt, r2, b, g, l)
  PROVE  r1 = r2 /\ Region(a, l) = Region(b, l)
<1> DEFINE S == {k \in Levels : \A h : On(s2tt, r1, a, h, k) /\ On(s2tt, r2, b, h, k)
                                  => r1 = r2 /\ Region(a, k) = Region(b, k)}
<1>1. StartLevel \in S
  BY OnRoot, LevelNumbers, OneRootRegion, ConstantsAssumption
<1>2. ASSUME NEW k \in S, k + 1 \in Levels
      PROVE  k + 1 \in S
  <2> SUFFICES ASSUME NEW h, On(s2tt, r1, a, h, k + 1), On(s2tt, r2, b, h, k + 1)
               PROVE  r1 = r2 /\ Region(a, k + 1) = Region(b, k + 1)
    BY <1>2
  <2>1. PICK f1 : /\ On(s2tt, r1, a, f1, k)
                  /\ IsTable(s2tt[f1][Index(a, k)]) /\ h = s2tt[f1][Index(a, k)].pa
    BY <1>2, OnBelow
  <2>2. PICK f2 : /\ On(s2tt, r2, b, f2, k)
                  /\ IsTable(s2tt[f2][Index(b, k)]) /\ h = s2tt[f2][Index(b, k)].pa
    BY <1>2, OnBelow
  <2>3. a \in Nat /\ b \in Nat /\ k \in 0 .. 2 /\ k \in 0 .. 3
    BY <1>2, Ranges, LevelNumbers
  <2>4. f1 \in Rtts /\ f2 \in Rtts /\ Index(a, k) \in Idx /\ Index(b, k) \in Idx
    BY <2>1, <2>2, <2>3, OnTable
  <2>5. h \in Granules
    BY <1>2, <2>3, OnTable
  <2>6. f1 = f2 /\ Index(a, k) = Index(b, k)
    <3>1. PointsTo(f1, Index(a, k), h) /\ PointsTo(f2, Index(b, k), h)
      BY <2>1, <2>2 DEF PointsTo
    <3>2. QED
      BY <2>4, <2>5, <3>1 DEF Inv, NoSharing
  <2>7. r1 = r2 /\ Region(a, k) = Region(b, k)
    BY <2>1, <2>2, <2>6
  <2>8. Block(a, k) = Block(b, k)
    BY <2>3, <2>6, <2>7, BlockParts
  <2>9. QED
    BY <2>3, <2>7, <2>8, RegionIsBlockAbove
<1>3. l \in S
  BY <1>1, <1>2, LevelInduction
<1>4. QED
  BY <1>3

\* The addresses of a region go through its table.
LEMMA RegionSharesTable ==
  ASSUME NEW m, NEW rd, NEW a \in Nat, NEW b \in Nat, NEW l \in Levels, NEW g,
         On(m, rd, a, g, l), Region(a, l) = Region(b, l)
  PROVE  On(m, rd, b, g, l)
<1> DEFINE S == {k \in Levels : \A h : On(m, rd, a, h, k) /\ Region(a, k) = Region(b, k)
                                  => On(m, rd, b, h, k)}
<1>1. StartLevel \in S
  BY OnRoot, LevelNumbers
<1>2. ASSUME NEW k \in S, k + 1 \in Levels
      PROVE  k + 1 \in S
  <2> SUFFICES ASSUME NEW h, On(m, rd, a, h, k + 1), Region(a, k + 1) = Region(b, k + 1)
               PROVE  On(m, rd, b, h, k + 1)
    BY <1>2
  <2>1. k \in 0 .. 2 /\ k \in 0 .. 3
    BY <1>2, LevelNumbers
  <2>2. Block(a, k) = Block(b, k)
    BY <2>1, RegionIsBlockAbove
  <2>3. Index(a, k) = Index(b, k) /\ Region(a, k) = Region(b, k)
    <3>1. Index(a, k) = Block(a, k) % S2TTES_PER_S2TT
      BY <2>1, BlockParts, Zenon
    <3>2. Index(b, k) = Block(b, k) % S2TTES_PER_S2TT
      BY <2>1, BlockParts, Zenon
    <3>3. Region(a, k) = Block(a, k) \div S2TTES_PER_S2TT
      BY <2>1, BlockParts, Zenon
    <3>4. Region(b, k) = Block(b, k) \div S2TTES_PER_S2TT
      BY <2>1, BlockParts, Zenon
    <3>5. QED
      BY <2>2, <3>1, <3>2, <3>3, <3>4, Zenon
  <2>4. QED
    BY <1>2, <2>3, OnBelow
<1>3. l \in S
  BY <1>1, <1>2, LevelInduction
<1>4. QED
  BY <1>3

\* The addresses of a block share its entry.
LEMMA BlockSharesEntry ==
  ASSUME NEW m, NEW rd, NEW a \in Nat, NEW b \in Nat, NEW l \in Levels, NEW g,
         On(m, rd, a, g, l), Block(a, l) = Block(b, l)
  PROVE  On(m, rd, b, g, l) /\ Index(a, l) = Index(b, l)
<1>1. Index(a, l) = Index(b, l) /\ Region(a, l) = Region(b, l)
  <2>1. l \in 0 .. 3
    BY LevelNumbers
  <2>2. Index(a, l) = Block(a, l) % S2TTES_PER_S2TT
    BY <2>1, BlockParts, Zenon
  <2>3. Index(b, l) = Block(b, l) % S2TTES_PER_S2TT
    BY <2>1, BlockParts, Zenon
  <2>4. Region(a, l) = Block(a, l) \div S2TTES_PER_S2TT
    BY <2>1, BlockParts, Zenon
  <2>5. Region(b, l) = Block(b, l) \div S2TTES_PER_S2TT
    BY <2>1, BlockParts, Zenon
  <2>6. QED
    BY <2>2, <2>3, <2>4, <2>5, Zenon
<1>2. QED
  BY <1>1, RegionSharesTable

\* An entry belongs to the addresses of one block of one realm.
LEMMA EntrySharedByBlock ==
  ASSUME Inv, NEW r1 \in Rds, NEW r2 \in Rds, NEW a \in Ipas, NEW b \in Ipas,
         NEW l \in Levels, NEW k \in Levels, NEW g,
         On(s2tt, r1, a, g, l), On(s2tt, r2, b, g, k), Index(a, l) = Index(b, k)
  PROVE  r1 = r2 /\ k = l /\ Block(a, l) = Block(b, l)
<1>1. a \in Nat /\ b \in Nat
  BY Ranges
<1>2. k = l
  BY <1>1, OnTable
<1>3. r1 = r2 /\ Region(a, l) = Region(b, l)
  BY <1>2, WalksMeet
<1>4. l \in 0 .. 3
  BY LevelNumbers
<1>5. QED
  BY <1>1, <1>2, <1>3, <1>4, BlockParts

-----------------------------------------------------------------------------
(* Frames: what a change of the tables does to the walk for an address.    *)

\* A step that drops the tables D keeps every path that avoids them.
LEMMA OnKept ==
  ASSUME Inv, NEW D, Roots \cap D = {},
         \A g \in Rtts \ D, k \in Idx :
             IsTable(s2tt[g][k]) /\ s2tt[g][k].pa \notin D => s2tt'[g][k] = s2tt[g][k],
         \A g \in Rtts \cap D, k \in Idx : ~IsTable(s2tt[g][k]),
         NEW rd \in Rds, NEW a \in Nat, NEW l \in Levels, NEW h,
         h \notin D, On(s2tt, rd, a, h, l)
  PROVE  On(s2tt', rd, a, h, l)
<1> DEFINE S == {k \in Levels : \A g : g \notin D /\ On(s2tt, rd, a, g, k)
                                  => On(s2tt', rd, a, g, k)}
<1>1. StartLevel \in S
  BY OnRoot, LevelNumbers
<1>2. ASSUME NEW k \in S, k + 1 \in Levels
      PROVE  k + 1 \in S
  <2> SUFFICES ASSUME NEW g, g \notin D, On(s2tt, rd, a, g, k + 1)
               PROVE  On(s2tt', rd, a, g, k + 1)
    BY <1>2
  <2>1. PICK f : /\ On(s2tt, rd, a, f, k)
                 /\ IsTable(s2tt[f][Index(a, k)]) /\ g = s2tt[f][Index(a, k)].pa
    BY <1>2, OnBelow
  <2>2. f \in Rtts /\ Index(a, k) \in Idx
    BY <2>1, OnTable
  <2>3. f \notin D /\ s2tt'[f][Index(a, k)] = s2tt[f][Index(a, k)]
    BY <2>1, <2>2
  <2>4. On(s2tt', rd, a, f, k)
    BY <2>1, <2>3
  <2>5. QED
    BY <1>2, <2>1, <2>3, <2>4, OnBelow
<1>3. l \in S
  BY <1>1, <1>2, LevelInduction
<1>4. QED
  BY <1>3

\* The leaf of an address and where it is.
LEMMA LeafAt ==
  ASSUME NEW rd, NEW a, NEW g, NEW l, Walk(rd, a, RTT_PAGE_LEVEL) = At(g, l)
  PROVE  Leaf(rd, a) = s2tt[g][Index(a, l)]
BY DEF Leaf, EntryAt, At

\* After a step likewise.
LEMMA LeafAtNext ==
  ASSUME NEW rd, NEW a, NEW g, NEW l, Walk(rd, a, RTT_PAGE_LEVEL)' = At(g, l)
  PROVE  Leaf(rd, a)' = s2tt'[g][Index(a, l)]
BY DEF Leaf, EntryAt, At

\* The step rewrites the entries ks of table t, none of them a table before or after.
Edits(t, ks) ==
    /\ ks \in SUBSET Idx
    /\ \A k \in ks : ~IsTable(s2tt[t][k]) /\ ~IsTable(s2tt'[t][k])
    /\ \A h \in Granules, k \in Idx : ~(h = t /\ k \in ks) => s2tt'[h][k] = s2tt[h][k]

\* The step rewrites entry i of table t, and table c.
OthersKept(t, i, c) ==
    \A h \in Granules \ {c}, k \in Idx : ~(h = t /\ k = i) => s2tt'[h][k] = s2tt[h][k]

\* Rewriting entries of the table for b moves no walk and concerns the addresses of
\* these entries only.
LEMMA EditFrame ==
  ASSUME Inv, NEW rd0 \in Rds, NEW b \in Ipas, NEW t, NEW l0 \in Levels,
         On(s2tt, rd0, b, t, l0), NEW ks, Edits(t, ks),
         NEW rd \in Rds, NEW a \in Ipas
  PROVE  /\ Walk(rd, a, RTT_PAGE_LEVEL)' = Walk(rd, a, RTT_PAGE_LEVEL)
         /\ IF rd = rd0 /\ Region(a, l0) = Region(b, l0) /\ Index(a, l0) \in ks
            THEN /\ Walk(rd, a, RTT_PAGE_LEVEL) = At(t, l0)
                 /\ Leaf(rd, a) = s2tt[t][Index(a, l0)]
                 /\ Leaf(rd, a)' = s2tt'[t][Index(a, l0)]
            ELSE Leaf(rd, a)' = Leaf(rd, a)
<1>1. PICK g, l : /\ Path(s2tt, rd, a, 3) = At(g, l)
                  /\ l \in Levels
                  /\ On(s2tt, rd, a, g, l)
                  /\ Stops(s2tt, g, l, a)
  BY PathEnds
<1>2. a \in Nat /\ b \in Nat
  BY Ranges
<1>3. /\ g \in Rtts /\ g \in Granules /\ Index(a, l) \in Idx /\ lvl[g] = l
      /\ t \in Rtts /\ t \in Granules /\ lvl[t] = l0
  BY <1>1, <1>2, OnTable
<1>4. On(s2tt', rd, a, g, l)
  <2>1. \A h \in Rtts, k \in Idx : IsTable(s2tt[h][k]) => s2tt'[h][k] = s2tt[h][k]
    BY DEF Rtts, Edits
  <2> DEFINE D == {}
  <2>2. /\ Roots \cap D = {} /\ g \notin D
        /\ \A h \in Rtts \ D, k \in Idx :
             IsTable(s2tt[h][k]) /\ s2tt[h][k].pa \notin D => s2tt'[h][k] = s2tt[h][k]
        /\ \A h \in Rtts \cap D, k \in Idx : ~IsTable(s2tt[h][k])
    BY <2>1
  <2> HIDE DEF D
  <2>3. QED
    BY <1>1, <1>2, <2>2, OnKept
<1>5. Stops(s2tt', g, l, a)
  BY <1>1, <1>3 DEF Stops, Edits
<1>6. Path(s2tt', rd, a, 3) = At(g, l)
  BY <1>1, <1>4, <1>5, PathEndsAt
<1>7. /\ Walk(rd, a, RTT_PAGE_LEVEL) = At(g, l)
      /\ Walk(rd, a, RTT_PAGE_LEVEL)' = At(g, l)
  BY <1>1, <1>6, WalkToPages
<1>8. /\ Leaf(rd, a) = s2tt[g][Index(a, l)]
      /\ Leaf(rd, a)' = s2tt'[g][Index(a, l)]
  BY <1>7 DEF Leaf, EntryAt, At
<1>9. CASE rd = rd0 /\ Region(a, l0) = Region(b, l0) /\ Index(a, l0) \in ks
  <2>1. On(s2tt, rd, a, t, l0)
    BY <1>2, <1>9, RegionSharesTable
  <2>2. Path(s2tt, rd, a, 3) = At(t, l0)
    BY <1>9, <2>1, PathEndsAt DEF Stops, Edits
  <2>3. g = t /\ l = l0
    BY <1>1, <2>2 DEF At
  <2>4. QED
    BY <1>7, <1>8, <1>9, <2>3
<1>10. CASE ~(rd = rd0 /\ Region(a, l0) = Region(b, l0) /\ Index(a, l0) \in ks)
  <2>1. ~(g = t /\ Index(a, l) \in ks)
    BY <1>1, <1>3, <1>10, WalksMeet
  <2>2. s2tt'[g][Index(a, l)] = s2tt[g][Index(a, l)]
    BY <1>3, <2>1 DEF Edits
  <2>3. QED
    BY <1>7, <1>8, <1>10, <2>2
<1>11. QED
  BY <1>9, <1>10

\* A new table c below the entry for b takes over the addresses in b's block.
LEMMA CreateFrame ==
  ASSUME Inv, NEW rd0 \in Rds, NEW b \in Ipas, NEW t, NEW l0 \in Levels, l0 + 1 \in Levels,
         On(s2tt, rd0, b, t, l0), ~IsTable(s2tt[t][Index(b, l0)]),
         NEW c \in Granules \ Rtts, s2tt'[t][Index(b, l0)] = TableEntry(c),
         \A k \in Idx : ~IsTable(s2tt'[c][k]),
         OthersKept(t, Index(b, l0), c),
         NEW rd \in Rds, NEW a \in Ipas
  PROVE  IF rd = rd0 /\ Block(a, l0) = Block(b, l0)
         THEN /\ Walk(rd, a, RTT_PAGE_LEVEL) = At(t, l0)
              /\ Leaf(rd, a) = s2tt[t][Index(b, l0)]
              /\ Walk(rd, a, RTT_PAGE_LEVEL)' = At(c, l0 + 1)
              /\ Leaf(rd, a)' = s2tt'[c][Index(a, l0 + 1)]
         ELSE /\ Walk(rd, a, RTT_PAGE_LEVEL)' = Walk(rd, a, RTT_PAGE_LEVEL)
              /\ Leaf(rd, a)' = Leaf(rd, a)
<1> DEFINE i == Index(b, l0)
<1>1. a \in Nat /\ b \in Nat
  BY Ranges
<1>2. t \in Rtts /\ t \in Granules /\ i \in Idx /\ lvl[t] = l0
  BY <1>1, OnTable
<1>3. ASSUME NEW g, NEW l \in Levels, On(s2tt, rd, a, g, l)
      PROVE  On(s2tt', rd, a, g, l) /\ g \in Rtts /\ g \in Granules \ {c} /\ lvl[g] = l
  <2> DEFINE D == {}
  <2>1. /\ Roots \cap D = {} /\ g \notin D
        /\ \A h \in Rtts \ D, k \in Idx :
             IsTable(s2tt[h][k]) /\ s2tt[h][k].pa \notin D => s2tt'[h][k] = s2tt[h][k]
        /\ \A h \in Rtts \cap D, k \in Idx : ~IsTable(s2tt[h][k])
    BY DEF Rtts, OthersKept
  <2> HIDE DEF D
  <2>2. On(s2tt', rd, a, g, l)
    BY <1>1, <1>3, <2>1, OnKept
  <2>3. QED
    BY <1>1, <1>3, <2>2, OnTable DEF Rtts
<1>4. CASE rd = rd0 /\ Block(a, l0) = Block(b, l0)
  <2>1. On(s2tt, rd, a, t, l0) /\ Index(a, l0) = i
    BY <1>1, <1>4, BlockSharesEntry
  <2>2. Path(s2tt, rd, a, 3) = At(t, l0)
    BY <2>1, PathEndsAt DEF Stops
  <2>3. IsTable(TableEntry(c)) /\ TableEntry(c).pa = c
    BY DEF TableEntry, MkEntry, IsTable
  <2>4. On(s2tt', rd, a, c, l0 + 1)
    BY <1>3, <2>1, <2>3, OnBelow
  <2>5. Index(a, l0 + 1) \in Idx
    BY <1>1, LevelNumbers, IndexInTable
  <2>6. Path(s2tt', rd, a, 3) = At(c, l0 + 1)
    BY <2>4, <2>5, PathEndsAt DEF Stops
  <2>7. QED
    BY <1>4, <2>1, <2>2, <2>6, WalkToPages, LeafAt, LeafAtNext
<1>5. CASE ~(rd = rd0 /\ Block(a, l0) = Block(b, l0))
  <2>1. PICK g, l : /\ Path(s2tt, rd, a, 3) = At(g, l)
                    /\ l \in Levels /\ On(s2tt, rd, a, g, l) /\ Stops(s2tt, g, l, a)
    BY PathEnds
  <2>2. ~(g = t /\ Index(a, l) = i)
    BY <1>5, <2>1, EntrySharedByBlock
  <2>3. Index(a, l) \in Idx
    BY <1>1, <2>1, OnTable
  <2>4. s2tt'[g][Index(a, l)] = s2tt[g][Index(a, l)]
    BY <1>3, <2>1, <2>2, <2>3 DEF OthersKept
  <2>5. Path(s2tt', rd, a, 3) = At(g, l)
    BY <1>3, <2>1, <2>4, PathEndsAt DEF Stops
  <2>6. QED
    BY <1>5, <2>1, <2>4, <2>5, WalkToPages, LeafAt, LeafAtNext
<1>6. QED
  BY <1>4, <1>5

\* Taking out the table c below the entry for b gives them back to that entry.
LEMMA RemoveFrame ==
  ASSUME Inv, NEW rd0 \in Rds, NEW b \in Ipas, NEW t, NEW l0 \in Levels, l0 + 1 \in Levels,
         On(s2tt, rd0, b, t, l0), IsTable(s2tt[t][Index(b, l0)]),
         NEW c, c = s2tt[t][Index(b, l0)].pa, ~IsTable(s2tt'[t][Index(b, l0)]),
         \A k \in Idx : ~IsTable(s2tt[c][k]),
         OthersKept(t, Index(b, l0), c),
         NEW rd \in Rds, NEW a \in Ipas
  PROVE  IF rd = rd0 /\ Block(a, l0) = Block(b, l0)
         THEN /\ Walk(rd, a, RTT_PAGE_LEVEL) = At(c, l0 + 1)
              /\ Leaf(rd, a) = s2tt[c][Index(a, l0 + 1)]
              /\ Walk(rd, a, RTT_PAGE_LEVEL)' = At(t, l0)
              /\ Leaf(rd, a)' = s2tt'[t][Index(b, l0)]
         ELSE /\ Walk(rd, a, RTT_PAGE_LEVEL)' = Walk(rd, a, RTT_PAGE_LEVEL)
              /\ Leaf(rd, a)' = Leaf(rd, a)
<1> DEFINE i == Index(b, l0)
<1>1. a \in Nat /\ b \in Nat
  BY Ranges
<1>2. t \in Rtts /\ t \in Granules /\ i \in Idx /\ lvl[t] = l0
  BY <1>1, OnTable
<1>3. c \in Rtts /\ c \in Granules /\ c \notin Roots /\ lvl[c] = l0 + 1 /\ t # c
      /\ On(s2tt, rd0, b, c, l0 + 1)
  <2>1. c \in Rtts \ Roots /\ lvl[c] = l0 + 1
    BY <1>2 DEF Inv, PointsToOwned
  <2>2. On(s2tt, rd0, b, c, l0 + 1)
    BY OnBelow
  <2>3. QED
    BY <1>2, <2>1, <2>2, LevelNumbers DEF Rtts
<1>4. ASSUME NEW g, NEW l \in Levels, On(s2tt, rd, a, g, l), g # c
      PROVE  On(s2tt', rd, a, g, l)
  <2> DEFINE D == {c}
  <2>1. Roots \cap D = {} /\ g \notin D
    BY <1>3, <1>4
  <2>2. \A h \in Rtts \ D, k \in Idx :
             IsTable(s2tt[h][k]) /\ s2tt[h][k].pa \notin D => s2tt'[h][k] = s2tt[h][k]
    BY DEF Rtts, OthersKept
  <2>3. \A h \in Rtts \cap D, k \in Idx : ~IsTable(s2tt[h][k])
    OBVIOUS
  <2> HIDE DEF D
  <2>4. QED
    BY <1>1, <1>4, <2>1, <2>2, <2>3, OnKept
<1>5. CASE rd = rd0 /\ Block(a, l0) = Block(b, l0)
  <2>1. On(s2tt, rd, a, t, l0) /\ Index(a, l0) = i
    BY <1>1, <1>5, BlockSharesEntry
  <2>2. On(s2tt, rd, a, c, l0 + 1)
    BY <2>1, OnBelow
  <2>3. Index(a, l0 + 1) \in Idx
    BY <1>1, LevelNumbers, IndexInTable
  <2>4. Path(s2tt, rd, a, 3) = At(c, l0 + 1)
    BY <2>2, <2>3, PathEndsAt DEF Stops
  <2>5. Path(s2tt', rd, a, 3) = At(t, l0)
    BY <1>3, <1>4, <2>1, PathEndsAt DEF Stops
  <2>6. QED
    BY <1>5, <2>1, <2>4, <2>5, WalkToPages, LeafAt, LeafAtNext
<1>6. CASE ~(rd = rd0 /\ Block(a, l0) = Block(b, l0))
  <2>1. PICK g, l : /\ Path(s2tt, rd, a, 3) = At(g, l)
                    /\ l \in Levels /\ On(s2tt, rd, a, g, l) /\ Stops(s2tt, g, l, a)
    BY PathEnds
  <2>2. g \in Granules /\ Index(a, l) \in Idx /\ lvl[g] = l
    BY <1>1, <2>1, OnTable
  <2>3. ~(g = t /\ Index(a, l) = i)
    BY <1>6, <2>1, EntrySharedByBlock
  <2>4. g # c
    <3>1. SUFFICES ASSUME g = c PROVE FALSE
      OBVIOUS
    <3>2. rd = rd0 /\ Region(a, l0 + 1) = Region(b, l0 + 1)
      BY <1>3, <2>1, <2>2, <3>1, WalksMeet
    <3>3. l0 \in 0 .. 2
      BY LevelNumbers
    <3>4. Block(a, l0) = Block(b, l0)
      BY <1>1, <3>2, <3>3, RegionIsBlockAbove
    <3>5. QED
      BY <1>6, <3>2, <3>4
  <2>5. s2tt'[g][Index(a, l)] = s2tt[g][Index(a, l)]
    BY <2>2, <2>3, <2>4 DEF OthersKept
  <2>6. Path(s2tt', rd, a, 3) = At(g, l)
    BY <1>4, <2>1, <2>4, <2>5, PathEndsAt DEF Stops
  <2>7. /\ Walk(rd, a, RTT_PAGE_LEVEL) = At(g, l)
        /\ Walk(rd, a, RTT_PAGE_LEVEL)' = At(g, l)
    BY <2>1, <2>6, WalkToPages
  <2>8. Leaf(rd, a) = s2tt[g][Index(a, l)]
    BY <2>7 DEF Leaf, EntryAt, At
  <2>9. Leaf(rd, a)' = s2tt'[g][Index(a, l)]
    BY <2>7 DEF Leaf, EntryAt, At
  <2>10. QED
    BY <1>6, <2>5, <2>7, <2>8, <2>9
<1>7. QED
  BY <1>5, <1>6
=============================================================================
