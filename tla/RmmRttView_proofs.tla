------------------------- MODULE RmmRttView_proofs --------------------------
(***************************************************************************)
(* Theorems about what the commands of RmmRtt.tla do to the addresses of   *)
(* realms, for any number of realms and granules, any table size, any      *)
(* starting level and any requests.  They rest on the frames of            *)
(* RmmRtt_proofs: each command changes the leaf of the addresses in one    *)
(* block of one realm.                                                     *)
(*                                                                         *)
(* First, what survives the commands outside the tables: what granules     *)
(* hold when the host gets them back, what the TLB still translates, and   *)
(* what went into a realm's initial measurement.  StepAt says what a step  *)
(* may do to one address, and TlbInv follows from StepAt for all of them.  *)
(*                                                                         *)
(* Second, the tables implement the address space of RealmIpaSpace.tla:    *)
(* each command does to the pages of the addresses it moves what one       *)
(* action of RealmIpaSpace does, or nothing.                               *)
(***************************************************************************)
EXTENDS RmmRttView, RmmRtt_proofs

-----------------------------------------------------------------------------
(* Wiped memory.                                                           *)

\* Bytes of a realm are in data granules only, and table entries in tables: a
\* granule that RTT_FOLD or RTT_DESTROY gives back was a table, so nothing else
\* has to be wiped.
ScrubInv ==
    \A g \in Granules :
        /\ g \in secret => gstate[g] = "DATA"
        /\ gstate[g] # "RTT" => s2tt[g] = ZeroTable

\* Tables change, and only tables; bytes are written to data granules.
Scrubs ==
    \A h \in Granules :
        /\ h \in secret' => gstate'[h] = "DATA"
        /\ gstate'[h] # "RTT" =>
             \/ s2tt'[h] = ZeroTable
             \/ gstate[h] # "RTT" /\ s2tt'[h] = s2tt[h]

\* ScrubInv passes from state to state under such a step.
LEMMA ScrubStep == ScrubInv /\ Scrubs => ScrubInv'
BY DEF ScrubInv, Scrubs, ZeroTable, Idx, Unassigned, MkEntry

\* The granule at the end of a walk is a table.
LEMMA WalkEndsInTable ==
  ASSUME Inv, NEW rd \in Rds, NEW a \in Nat, NEW t \in Int
  PROVE  Walk(rd, a, t).g \in Granules /\ gstate[Walk(rd, a, t).g] = "RTT"
BY WalkOK DEF Inv, WalkState, Rtts

\* The structure and NS commands scrub what they give back.
LEMMA RttCommandScrubs ==
  ASSUME Inv, ScrubInv, NEW rd \in Rds, RttCommand(rd)
  PROVE  Scrubs
<1>1. PICK addr \in Ipas, level \in Levels :
        \/ \E g \in Granules : RttCreate(rd, g, addr, level)
        \/ RttFold(rd, addr, level)
        \/ RttDestroy(rd, addr, level)
        \/ \E pa \in HostPas : RttMapUnprotected(rd, addr, level, pa)
        \/ RttUnmapUnprotected(rd, addr, level)
  BY DEF RttCommand
<1>2. addr \in Nat /\ level \in Int /\ level - 1 \in Int
  BY Ranges
<1>3. CASE \E g \in Granules : RttCreate(rd, g, addr, level)
  <2> DEFINE h == Walk(rd, addr, level - 1).g
  <2>1. PICK g \in Granules : RttCreate(rd, g, addr, level)
    BY <1>3
  <2>2. h \in Granules /\ gstate[h] = "RTT"
    BY <1>2, WalkEndsInTable
  <2>3. gstate[g] = "DELEGATED" /\ gstate' = [gstate EXCEPT ![g] = "RTT"] /\ secret' = secret
    BY <2>1 DEF RttCreate, RttCreateAt
  <2>4. \E T, e : s2tt' = [s2tt EXCEPT ![g] = T, ![h] = e]
    BY <2>1 DEF RttCreate, RttCreateAt
  <2> HIDE DEF h
  <2>5. QED
    BY <2>2, <2>3, <2>4 DEF Scrubs, ScrubInv, Inv, MemoryTypeOK
<1>4. CASE RttFold(rd, addr, level) \/ RttDestroy(rd, addr, level)
  <2> DEFINE h == Walk(rd, addr, level - 1).g
             i == Index(addr, level - 1)
             c == s2tt[h][i].pa
  <2>1. h \in Granules /\ gstate[h] = "RTT"
    BY <1>2, WalkEndsInTable
  <2>2. i \in Idx /\ IsTable(s2tt[h][i])
    <3>1. IsTable(s2tt[h][i]) /\ level \in (StartLevel + 1) .. 3
      BY <1>4 DEF RttFold, RttFoldAt, RttDestroy, RttDestroyAt, ValidStructureCmd, RTT_PAGE_LEVEL
    <3>2. level - 1 \in 0 .. 3
      BY <3>1, ConstantsAssumption
    <3>3. QED
      BY <1>2, <3>1, <3>2, IndexInTable
  <2>3. c \in Granules /\ gstate[c] = "RTT" /\ c # h
    BY <2>1, <2>2 DEF Inv, PointsToOwned, Rtts, MemoryTypeOK, Levels
  <2>4. gstate' = [gstate EXCEPT ![c] = "DELEGATED"] /\ secret' = secret
    BY <1>4 DEF RttFold, RttFoldAt, RttDestroy, RttDestroyAt
  <2>5. \E e : s2tt' = [s2tt EXCEPT ![h] = e, ![c] = ZeroTable]
    BY <1>4 DEF RttFold, RttFoldAt, RttDestroy, RttDestroyAt
  <2> HIDE DEF h, c
  <2>6. QED
    BY <2>1, <2>3, <2>4, <2>5 DEF Scrubs, ScrubInv, Inv, MemoryTypeOK
<1>5. CASE \/ \E pa \in HostPas : RttMapUnprotected(rd, addr, level, pa)
           \/ RttUnmapUnprotected(rd, addr, level)
  <2> DEFINE h == Walk(rd, addr, level).g
  <2>1. h \in Granules /\ gstate[h] = "RTT"
    BY <1>2, WalkEndsInTable
  <2>2. gstate' = gstate /\ secret' = secret
    BY <1>5 DEF RttMapUnprotected, RttMapUnprotectedAt, RttUnmapUnprotected, RttUnmapUnprotectedAt
  <2>3. \E e : s2tt' = [s2tt EXCEPT ![h] = e]
    BY <1>5 DEF RttMapUnprotected, RttMapUnprotectedAt, RttUnmapUnprotected, RttUnmapUnprotectedAt
  <2> HIDE DEF h
  <2>4. QED
    BY <2>1, <2>2, <2>3 DEF Scrubs, ScrubInv, Inv, MemoryTypeOK
<1>6. QED
  BY <1>1, <1>3, <1>4, <1>5

\* The data commands fill the granules they take and wipe those they free.
LEMMA DataCommandScrubs ==
  ASSUME Inv, ScrubInv, NEW rd \in Rds, DataCommand(rd)
  PROVE  Scrubs
<1>1. PICK addr \in Ipas :
        \/ \E g \in Granules : DataCreate(rd, g, addr) \/ DataCreateUnknown(rd, g, addr)
        \/ \E g \in Granules : DataCreateFault(rd, g, addr)
        \/ DataDestroy(rd, addr)
        \/ IpaBlock(rd, addr) \/ IpaUnblock(rd, addr)
  BY DEF DataCommand
<1>2. addr \in Nat /\ RTT_PAGE_LEVEL \in Int
  BY Ranges DEF RTT_PAGE_LEVEL
<1> DEFINE w == Walk(rd, addr, RTT_PAGE_LEVEL)
           h == w.g
           i == Index(addr, RTT_PAGE_LEVEL)
<1>3. h \in Granules /\ gstate[h] = "RTT"
  BY <1>2, WalkEndsInTable
<1>4. CASE \E g \in Granules : DataCreate(rd, g, addr) \/ DataCreateUnknown(rd, g, addr)
  <2>1. PICK g \in Granules : DataCreate(rd, g, addr) \/ DataCreateUnknown(rd, g, addr)
    BY <1>4
  <2>2. gstate[g] = "DELEGATED" /\ gstate' = [gstate EXCEPT ![g] = "DATA"]
    BY <2>1 DEF DataCreate, DataCreateUnknown, DataGranule, BecomesData
  <2>3. secret' = secret \cup {g} /\ \E e : s2tt' = [s2tt EXCEPT ![h] = e]
    BY <2>1 DEF DataCreate, DataCreateUnknown, DataCreateAt, DataCreateUnknownAt, MapData
  <2> HIDE DEF h
  <2>4. QED
    BY <1>3, <2>2, <2>3 DEF Scrubs, ScrubInv, Inv, MemoryTypeOK
<1>5. CASE \E g \in Granules : DataCreateFault(rd, g, addr)
  BY <1>5 DEF DataCreateFault, Wipe, DataGranule, Scrubs, ScrubInv
<1>6. CASE DataDestroy(rd, addr)
  <2> DEFINE x == Leaf(rd, addr).pa
  <2>1. HoldsData(s2tt[h][i]) /\ w.level = RTT_PAGE_LEVEL /\ \E e : s2tt' = [s2tt EXCEPT ![h] = e]
    BY <1>6 DEF DataDestroy, UnmapData
  <2>2. x = s2tt[h][i].pa
    BY <2>1 DEF Leaf, EntryAt
  <2>3. x \in Granules /\ gstate[x] = "DATA"
    <3>1. i \in Idx /\ lvl[h] = RTT_PAGE_LEVEL
      BY <1>2, <2>1, WalkOK, IndexInTable DEF WalkState, RTT_PAGE_LEVEL, Inv
    <3>2. s2tt[h][i].pa \in Nat
      BY <1>3, <3>1 DEF Inv, MemoryTypeOK, Entry
    <3>3. MapSize(lvl[h]) = 1
      BY <3>1 DEF MapSize, RTT_PAGE_LEVEL
    <3>4. s2tt[h][i].pa \in s2tt[h][i].pa .. s2tt[h][i].pa + MapSize(lvl[h]) - 1
      BY <3>2, <3>3
    <3>5. QED
      BY <1>3, <2>1, <2>2, <3>1, <3>4 DEF Inv, PointsToOwned, Rtts
  <2>4. gstate' = [gstate EXCEPT ![x] = "DELEGATED"] /\ secret' = secret \ {x}
    BY <1>6 DEF DataDestroy, FreeData, Wipe
  <2> HIDE DEF h, x
  <2>5. QED
    BY <1>3, <2>1, <2>3, <2>4 DEF Scrubs, ScrubInv, Inv, MemoryTypeOK
<1>7. CASE IpaBlock(rd, addr) \/ IpaUnblock(rd, addr)
  <2>1. gstate' = gstate /\ secret' = secret /\ \E e : s2tt' = [s2tt EXCEPT ![h] = e]
    BY <1>7 DEF IpaBlock, IpaUnblock, SetBlocked, SetBlockedAt
  <2> HIDE DEF h
  <2>2. QED
    BY <1>3, <2>1 DEF Scrubs, ScrubInv, Inv, MemoryTypeOK
<1>8. QED
  BY <1>1, <1>4, <1>5, <1>6, <1>7

\* Both RIPAS commands rewrite a table.
LEMMA RipasCommandScrubs ==
  ASSUME Inv, RestTypeOK, ScrubInv, NEW rd \in Rds, RipasCommand(rd)
  PROVE  Scrubs
<1>1. PICK a \in Nat :
        /\ gstate' = gstate /\ secret' = secret
        /\ \E e : s2tt' = [s2tt EXCEPT ![Walk(rd, a, RTT_PAGE_LEVEL).g] = e]
  <2>1. CASE \E base, last \in Ipas : RttInitRipas(rd, base, last + 1)
    BY <2>1, Ranges DEF RttInitRipas, RttInitRipasAt
  <2>2. CASE \E last \in Ipas : RttSetRipas(rd, last + 1)
    <3>1. setRipas[rd].addr \in Nat
      BY DEF RestTypeOK, Requests
    <3>2. QED
      BY <2>2, <3>1 DEF RttSetRipas, RttSetRipasAt
  <2>3. QED
    BY <2>1, <2>2 DEF RipasCommand
<1> DEFINE h == Walk(rd, a, RTT_PAGE_LEVEL).g
<1>2. h \in Granules /\ gstate[h] = "RTT"
  BY WalkEndsInTable DEF RTT_PAGE_LEVEL
<1>3. \E e : s2tt' = [s2tt EXCEPT ![h] = e]
  BY <1>1
<1> HIDE DEF h
<1>4. QED
  BY <1>1, <1>2, <1>3 DEF Scrubs, ScrubInv, Inv, MemoryTypeOK

\* Every step scrubs.
LEMMA StepScrubs ==
  ASSUME TypeOK, Inv, ScrubInv, [Next]_vars
  PROVE  ScrubInv'
<1>1. CASE \E g \in Granules : GranuleDelegate(g) \/ GranuleUndelegate(g)
  <2>1. Scrubs
    BY <1>1 DEF GranuleDelegate, GranuleUndelegate, Scrubs, ScrubInv, Inv, MemoryTypeOK
  <2>2. QED
    BY <2>1, ScrubStep
<1>2. ASSUME NEW rd \in Rds,
             RttCommand(rd) \/ DataCommand(rd) \/ RipasCommand(rd) \/ RealmStep(rd)
      PROVE  ScrubInv'
  <2>1. CASE RealmStep(rd)
    BY <2>1 DEF RealmStep, RealmActivate, RealmAccess, RsiIpaStateSet, RecEnter, Scrubs, ScrubInv, ZeroTable, Idx, Unassigned, MkEntry
  <2>2. RestTypeOK
    BY TypesSplit
  <2>3. QED
    BY <1>2, <2>1, <2>2, RttCommandScrubs, DataCommandScrubs, RipasCommandScrubs, ScrubStep
<1>3. CASE UNCHANGED vars
  BY <1>3 DEF vars, ScrubInv, ZeroTable, Idx, Unassigned, MkEntry
<1>4. QED
  BY <1>1, <1>2, <1>3 DEF Next

\* What the host gets back is wiped: a granule outside DATA and RTT holds no bytes
\* of a realm and no table entries, for any number of realms and granules.
THEOREM ReturnedGranulesAreWiped == Spec => []ScrubbedOnReturn
<1>1. Init => ScrubInv
  BY DEF Init, ScrubInv
<1>2. TypeOK /\ Inv /\ ScrubInv /\ [Next]_vars => ScrubInv'
  BY StepScrubs
<1>3. ScrubInv => ScrubbedOnReturn
  BY DEF ScrubInv, ScrubbedOnReturn
<1>4. QED
  BY <1>1, <1>2, <1>3, Invariance, PTL DEF Spec

-----------------------------------------------------------------------------
(* The TLB, the halves of the address space and the measurement.           *)

\* The protected half of the address space has entries with a RIPAS, the other half
\* host memory or nothing.
InItsHalf(a, e) ==
    IF a \in Par THEN HasRipas(e) ELSE e.hipas \in {"unassigned_ns", "assigned_ns"}
HalvesApart == \A rd \in Rds, a \in Ipas : InItsHalf(a, Leaf(rd, a))

\* A cached translation starts where its entry does.
TlbAligned == \A t \in tlb : Aligned(t.base, t.level)

\* A realm that has not run has asked for nothing.
NoEarlyRequest == \A rd \in Rds : rdState[rd] = "NEW" => setRipas[rd] = NoRequest

TlbInv ==
    /\ TlbCoherent
    /\ TlbAligned
    /\ HalvesApart
    /\ RamIsMeasured
    /\ NoEarlyRequest

\* What a step may do to address a of rd: its entry stays in its half, becomes RAM
\* before activation only when it is measured, and changes only if no translation
\* that starts there stays cached.
StepAt(rd, a) ==
    /\ InItsHalf(a, Leaf(rd, a)')
    /\ rdState[rd] = "NEW" /\ Leaf(rd, a)'.ripas = "ram" =>
         Leaf(rd, a).ripas = "ram" \/ a \in measured'[rd]
    /\ \A t \in tlb' : t.rd = rd /\ t.base = a =>
         /\ Walk(rd, a, RTT_PAGE_LEVEL)' = Walk(rd, a, RTT_PAGE_LEVEL)
         /\ Leaf(rd, a)' = Leaf(rd, a)

\* The rest of the state, in a step that caches nothing new.
RestGoesOn ==
    /\ tlb' \subseteq tlb
    /\ \A rd \in Rds :
         /\ measured[rd] \subseteq measured'[rd]
         /\ rdState'[rd] = "NEW" => rdState[rd] = "NEW" /\ setRipas'[rd] = NoRequest

\* Good at every address, a step keeps the invariant.
LEMMA StepAtAll ==
  ASSUME TypeOK, TlbInv, RestGoesOn, \A rd \in Rds, a \in Ipas : StepAt(rd, a)
  PROVE  TlbInv'
<1>1. TlbCoherent' /\ TlbAligned'
  <2> SUFFICES ASSUME NEW t \in tlb'
               PROVE  /\ Walk(t.rd, t.base, RTT_PAGE_LEVEL)'.level = t.level
                      /\ IsValid(Leaf(t.rd, t.base)')
                      /\ Leaf(t.rd, t.base)'.pa = t.pa
                      /\ Leaf(t.rd, t.base)'.blocked = t.blocked
                      /\ Aligned(t.base, t.level)
    BY DEF TlbCoherent, TlbAligned, Aligned, MapSize, IsValid, IsAssignedRam, HoldsData
  <2>1. t \in tlb /\ t.rd \in Rds /\ t.base \in Ipas
    BY DEF RestGoesOn, TypeOK, Translations
  <2>2. /\ Walk(t.rd, t.base, RTT_PAGE_LEVEL)' = Walk(t.rd, t.base, RTT_PAGE_LEVEL)
        /\ Leaf(t.rd, t.base)' = Leaf(t.rd, t.base)
    BY <2>1 DEF StepAt
  <2>3. QED
    BY <2>1, <2>2 DEF TlbInv, TlbCoherent, TlbAligned
<1>2. HalvesApart'
  BY DEF StepAt, HalvesApart, InItsHalf, HasRipas, Par, Ipas, IpaSize, MapSize
<1>3. RamIsMeasured'
  <2> SUFFICES ASSUME NEW rd \in Rds, rdState'[rd] = "NEW", NEW a \in Par, Leaf(rd, a)'.ripas = "ram"
               PROVE  a \in measured'[rd]
    BY DEF RamIsMeasured, Par, Ipas, IpaSize, MapSize
  <2>1. a \in Ipas /\ rdState[rd] = "NEW" /\ measured[rd] \subseteq measured'[rd]
    BY DEF Par, RestGoesOn
  <2>2. Leaf(rd, a).ripas = "ram" \/ a \in measured'[rd]
    BY <2>1 DEF StepAt
  <2>3. QED
    BY <2>1, <2>2 DEF TlbInv, RamIsMeasured
<1>4. NoEarlyRequest'
  BY DEF RestGoesOn, NoEarlyRequest, NoRequest
<1>5. QED
  BY <1>1, <1>2, <1>3, <1>4 DEF TlbInv

\* An address whose walk and entry do not change.
LEMMA AddressUntouched ==
  ASSUME TlbInv, NEW rd \in Rds, NEW a \in Ipas,
         Walk(rd, a, RTT_PAGE_LEVEL)' = Walk(rd, a, RTT_PAGE_LEVEL), Leaf(rd, a)' = Leaf(rd, a)
  PROVE  StepAt(rd, a)
BY DEF TlbInv, HalvesApart, StepAt

\* A step that leaves the tables alone touches no address.
LEMMA TablesUntouched ==
  ASSUME s2tt' = s2tt, NEW rd, NEW a
  PROVE  /\ Walk(rd, a, RTT_PAGE_LEVEL)' = Walk(rd, a, RTT_PAGE_LEVEL)
         /\ Leaf(rd, a)' = Leaf(rd, a)
<1>1. PICK g, l : Path(s2tt, rd, a, 3) = At(g, l)
  BY PathEnds
<1>2. Walk(rd, a, RTT_PAGE_LEVEL) = At(g, l) /\ Walk(rd, a, RTT_PAGE_LEVEL)' = At(g, l)
  BY <1>1, WalkToPages
<1>3. Leaf(rd, a) = s2tt[g][Index(a, l)]
  BY <1>2 DEF Leaf, EntryAt, At
<1>4. Leaf(rd, a)' = s2tt'[g][Index(a, l)]
  BY <1>2, LeafAtNext
<1>5. QED
  BY <1>2, <1>3, <1>4

\* A cached translation of the block of b starts at b, and one invalidation by IPA
\* at b finds it.
LEMMA CachedAtBase ==
  ASSUME TlbInv, TypeOK, NEW t \in tlb, NEW b \in Ipas, NEW l \in Levels, Aligned(b, l),
         Walk(t.rd, t.base, RTT_PAGE_LEVEL).level = l, Block(t.base, l) = Block(b, l)
  PROVE  t.base = b /\ t.level = l /\ t \notin InvalidateAt(t.rd, {b})
<1>1. t.level = l /\ Aligned(t.base, l)
  BY DEF TlbInv, TlbCoherent, TlbAligned
<1>2. t.base \in Nat /\ b \in Nat /\ l \in 0 .. 3
  BY LevelNumbers, Ranges DEF TypeOK, Translations
<1>3. t.base = Block(t.base, l) * MapSize(l) /\ b = Block(b, l) * MapSize(l)
  BY <1>1, <1>2, AlignedIsBase
<1>4. t.base = b
  BY <1>3
<1>5. MapSize(t.level) \in Nat \ {0}
  BY <1>1, <1>2, MapSizePositive
<1>6. Covers(t, b)
  BY <1>2, <1>4, <1>5 DEF Covers
<1>7. QED
  BY <1>1, <1>4, <1>6 DEF InvalidateAt

\* A cached translation has a valid entry behind it.
LEMMA CachedIsValid ==
  ASSUME TlbInv, TypeOK, NEW t \in tlb
  PROVE  /\ t.rd \in Rds /\ t.base \in Ipas
         /\ IsValid(Leaf(t.rd, t.base))
         /\ Walk(t.rd, t.base, RTT_PAGE_LEVEL).level = t.level
BY DEF TlbInv, TlbCoherent, TypeOK, Translations

\* Both halves of the address space are made of whole blocks.
LEMMA BlockInOneHalf ==
  ASSUME NEW a \in Ipas, NEW b \in Ipas, NEW l \in Levels, Block(a, l) = Block(b, l), NEW e
  PROVE  InItsHalf(a, e) <=> InItsHalf(b, e)
BY ParIsWholeBlocks DEF InItsHalf

\* Rewriting the entry for b is good at every address.
LEMMA EntryEditStep ==
  ASSUME TypeOK, Inv, TlbInv, tlb' \subseteq tlb,
         NEW rd0 \in Rds, NEW b \in Ipas, NEW t, NEW l0 \in Levels,
         On(s2tt, rd0, b, t, l0), Aligned(b, l0),
         NEW old, old = s2tt[t][Index(b, l0)], ~IsTable(old),
         NEW new, ~IsTable(new),
         s2tt' = [s2tt EXCEPT ![t] = [@ EXCEPT ![Index(b, l0)] = new]],
         InItsHalf(b, new),
         new.ripas = "ram" => old.ripas = "ram" \/ (l0 = RTT_PAGE_LEVEL /\ b \in measured'[rd0]),
         IsValid(old) => tlb' \subseteq InvalidateAt(rd0, {b}),
         NEW rd \in Rds, NEW a \in Ipas
  PROVE  StepAt(rd, a)
<1> DEFINE i == Index(b, l0)
           ks == {i}
<1>1. a \in Nat /\ b \in Nat /\ l0 \in 0 .. 3
  BY Ranges, LevelNumbers
<1>2. t \in Granules /\ i \in Idx
  BY <1>1, OnTable
<1>3. \A h \in Granules, k \in Idx : ~(h = t /\ k \in ks) => s2tt'[h][k] = s2tt[h][k]
  BY <1>2 DEF TypeOK
<1>4. s2tt'[t][i] = new
  BY <1>2 DEF TypeOK
<1>5. Edits(t, ks)
  BY <1>2, <1>3, <1>4 DEF Edits
<1> HIDE DEF ks
<1>6. /\ Walk(rd, a, RTT_PAGE_LEVEL)' = Walk(rd, a, RTT_PAGE_LEVEL)
      /\ IF rd = rd0 /\ Region(a, l0) = Region(b, l0) /\ Index(a, l0) \in ks
         THEN /\ Walk(rd, a, RTT_PAGE_LEVEL) = At(t, l0)
              /\ Leaf(rd, a) = s2tt[t][Index(a, l0)]
              /\ Leaf(rd, a)' = s2tt'[t][Index(a, l0)]
         ELSE Leaf(rd, a)' = Leaf(rd, a)
  BY <1>5, EditFrame
<1>7. CASE ~(rd = rd0 /\ Region(a, l0) = Region(b, l0) /\ Index(a, l0) = i)
  BY <1>6, <1>7, AddressUntouched DEF ks
<1>8. CASE rd = rd0 /\ Region(a, l0) = Region(b, l0) /\ Index(a, l0) = i
  <2>1. Block(a, l0) = Block(b, l0)
    BY <1>1, <1>8, BlockParts
  <2>2. Walk(rd, a, RTT_PAGE_LEVEL) = At(t, l0) /\ Leaf(rd, a) = old /\ Leaf(rd, a)' = new
    BY <1>4, <1>6, <1>8 DEF ks
  <2>3. InItsHalf(a, new)
    BY <2>1, BlockInOneHalf
  <2>4. l0 = RTT_PAGE_LEVEL => a = b
    <3>1. \A x \in Nat : Block(x, 3) = x
      BY DEF Block, MapSize
    <3>2. QED
      BY <1>1, <2>1, <3>1 DEF RTT_PAGE_LEVEL
  <2>5. ASSUME NEW c \in tlb', c.rd = rd, c.base = a
        PROVE  FALSE
    <3>1. c \in tlb
      BY <2>5
    <3>2. IsValid(old)
      BY <2>2, <2>5, <3>1, CachedIsValid
    <3>3. c \notin InvalidateAt(rd0, {b})
      BY <1>8, <2>1, <2>2, <2>5, <3>1, CachedAtBase DEF At
    <3>4. QED
      BY <2>5, <3>2, <3>3
  <2>6. rdState[rd] = "NEW" /\ new.ripas = "ram" => old.ripas = "ram" \/ a \in measured'[rd]
    BY <1>8, <2>4
  <2>7. QED
    BY <2>2, <2>3, <2>5, <2>6 DEF StepAt
<1>9. QED
  BY <1>7, <1>8

\* A new table below the entry for b, every entry of it meaning what that entry
\* meant, is good at every address.
LEMMA CreateStep ==
  ASSUME TypeOK, Inv, TlbInv, tlb' \subseteq tlb,
         NEW rd0 \in Rds, NEW b \in Ipas, NEW t, NEW l0 \in Levels, l0 + 1 \in Levels,
         On(s2tt, rd0, b, t, l0), Aligned(b, l0),
         NEW old, old = s2tt[t][Index(b, l0)], ~IsTable(old),
         NEW c \in Granules \ Rtts, s2tt'[t][Index(b, l0)] = TableEntry(c),
         \A k \in Idx : s2tt'[c][k].hipas = old.hipas /\ s2tt'[c][k].ripas = old.ripas,
         OthersKept(t, Index(b, l0), c),
         IsValid(old) => tlb' \subseteq InvalidateAt(rd0, {b}),
         NEW rd \in Rds, NEW a \in Ipas
  PROVE  StepAt(rd, a)
<1>1. a \in Nat /\ l0 \in 0 .. 3 /\ l0 + 1 \in 0 .. 3
  BY Ranges, LevelNumbers
<1>2. \A k \in Idx : ~IsTable(s2tt'[c][k])
  BY DEF IsTable
<1>3. IF rd = rd0 /\ Block(a, l0) = Block(b, l0)
      THEN /\ Walk(rd, a, RTT_PAGE_LEVEL) = At(t, l0)
           /\ Leaf(rd, a) = old
           /\ Leaf(rd, a)' = s2tt'[c][Index(a, l0 + 1)]
      ELSE /\ Walk(rd, a, RTT_PAGE_LEVEL)' = Walk(rd, a, RTT_PAGE_LEVEL)
           /\ Leaf(rd, a)' = Leaf(rd, a)
  BY <1>2, CreateFrame
<1>4. CASE ~(rd = rd0 /\ Block(a, l0) = Block(b, l0))
  BY <1>3, <1>4, AddressUntouched
<1>5. CASE rd = rd0 /\ Block(a, l0) = Block(b, l0)
  <2>1. Leaf(rd, a)'.hipas = Leaf(rd, a).hipas /\ Leaf(rd, a)'.ripas = Leaf(rd, a).ripas
    BY <1>1, <1>3, <1>5, IndexInTable
  <2>2. InItsHalf(a, Leaf(rd, a)')
    BY <2>1 DEF TlbInv, HalvesApart, InItsHalf, HasRipas
  <2>3. ASSUME NEW x \in tlb', x.rd = rd, x.base = a
        PROVE  FALSE
    <3>1. x \in tlb
      BY <2>3
    <3>2. IsValid(old)
      BY <1>3, <1>5, <2>3, <3>1, CachedIsValid
    <3>3. x \notin InvalidateAt(rd0, {b})
      BY <1>3, <1>5, <2>3, <3>1, CachedAtBase DEF At
    <3>4. QED
      BY <2>3, <3>2, <3>3
  <2>4. QED
    BY <2>1, <2>2, <2>3 DEF StepAt
<1>6. QED
  BY <1>4, <1>5

\* Taking out the table c below the entry for b, for an entry that means no more
\* than the table did, is good at every address.
LEMMA RemoveStep ==
  ASSUME TypeOK, Inv, TlbInv, tlb' \subseteq tlb,
         NEW rd0 \in Rds, NEW b \in Ipas, NEW t, NEW l0 \in Levels, l0 + 1 \in Levels,
         On(s2tt, rd0, b, t, l0), Aligned(b, l0), IsTable(s2tt[t][Index(b, l0)]),
         NEW c, c = s2tt[t][Index(b, l0)].pa,
         \A k \in Idx : ~IsTable(s2tt[c][k]),
         NEW new, s2tt'[t][Index(b, l0)] = new, ~IsTable(new),
         OthersKept(t, Index(b, l0), c),
         \A k \in Idx :
             /\ InItsHalf(b, s2tt[c][k]) => InItsHalf(b, new)
             /\ new.ripas = "ram" => s2tt[c][k].ripas = "ram"
             /\ InItsHalf(b, s2tt[c][k]) /\ IsValid(s2tt[c][k]) =>
                  tlb' \subseteq InvalidateRange(rd0, b, l0),
         NEW rd \in Rds, NEW a \in Ipas
  PROVE  StepAt(rd, a)
<1>1. a \in Nat /\ b \in Nat /\ l0 \in 0 .. 3 /\ l0 + 1 \in 0 .. 3
  BY Ranges, LevelNumbers
<1>2. IF rd = rd0 /\ Block(a, l0) = Block(b, l0)
      THEN /\ Walk(rd, a, RTT_PAGE_LEVEL) = At(c, l0 + 1)
           /\ Leaf(rd, a) = s2tt[c][Index(a, l0 + 1)]
           /\ Leaf(rd, a)' = new
      ELSE /\ Walk(rd, a, RTT_PAGE_LEVEL)' = Walk(rd, a, RTT_PAGE_LEVEL)
           /\ Leaf(rd, a)' = Leaf(rd, a)
  BY RemoveFrame
<1>3. CASE ~(rd = rd0 /\ Block(a, l0) = Block(b, l0))
  BY <1>2, <1>3, AddressUntouched
<1>4. CASE rd = rd0 /\ Block(a, l0) = Block(b, l0)
  <2> DEFINE k == Index(a, l0 + 1)
  <2>1. k \in Idx /\ Leaf(rd, a) = s2tt[c][k] /\ Leaf(rd, a)' = new
    BY <1>1, <1>2, <1>4, IndexInTable
  <2>2. InItsHalf(b, s2tt[c][k])
    BY <1>4, <2>1, BlockInOneHalf DEF TlbInv, HalvesApart
  <2>3. InItsHalf(a, Leaf(rd, a)')
    BY <1>4, <2>1, <2>2, BlockInOneHalf
  <2>4. ASSUME NEW x \in tlb', x.rd = rd, x.base = a
        PROVE  FALSE
    <3>1. x \in tlb /\ x.level = l0 + 1
      BY <1>2, <1>4, <2>4, CachedIsValid DEF At
    <3>2. IsValid(s2tt[c][k])
      BY <2>1, <2>4, <3>1, CachedIsValid
    <3>3. x \in InvalidateRange(rd0, b, l0)
      BY <2>1, <2>2, <2>4, <3>2
    <3>4. b = Block(b, l0) * MapSize(l0) /\ Block(b, l0) \in Nat
      BY <1>1, AlignedIsBase, BlockParts
    <3>5. b <= a /\ a < b + MapSize(l0)
      BY <1>1, <1>4, <3>4, BlockRange
    <3>6. MapSize(x.level) \in Nat \ {0}
      BY <1>1, <3>1, MapSizePositive
    <3>7. b < a + MapSize(x.level)
      BY <1>1, <3>5, <3>6
    <3>8. QED
      BY <1>4, <2>4, <3>3, <3>5, <3>7 DEF InvalidateRange
  <2>5. QED
    BY <2>1, <2>3, <2>4 DEF StepAt
<1>5. QED
  BY <1>3, <1>4

-----------------------------------------------------------------------------
(* One lemma per command: it is good at every address.                     *)

Steps == RestGoesOn /\ \A rd \in Rds, a \in Ipas : StepAt(rd, a)

\* The rest of the state in a command about tables only.
LEMMA RestSame ==
  ASSUME TlbInv, tlb' \subseteq tlb, UNCHANGED <<rdState, measured, setRipas>>
  PROVE  RestGoesOn
BY DEF TlbInv, NoEarlyRequest, RestGoesOn

\* The invalidations remove translations.
LEMMA InvalidationsRemove ==
  ASSUME NEW rd
  PROVE  /\ \A as : InvalidateAt(rd, as) \subseteq tlb
         /\ \A a, l : InvalidateRange(rd, a, l) \subseteq tlb
BY DEF InvalidateAt, InvalidateRange

\* Where a structure command works: at the entry one level above the table.
LEMMA StructureEntry ==
  ASSUME Inv, NEW rd \in Rds, NEW addr \in Ipas, NEW level \in Levels,
         ValidStructureCmd(addr, level), Walk(rd, addr, level - 1).level = level - 1
  PROVE  LET t == Walk(rd, addr, level - 1).g IN
         /\ level - 1 \in Levels /\ level - 1 \in 0 .. 2 /\ level \in 1 .. 3
         /\ level = level - 1 + 1 /\ Aligned(addr, level - 1)
         /\ On(s2tt, rd, addr, t, level - 1)
         /\ t \in Rtts /\ t \in Granules /\ lvl[t] = level - 1
         /\ Index(addr, level - 1) \in Idx
         /\ s2tt[t][Index(addr, level - 1)] \in Entry
<1> DEFINE t == Walk(rd, addr, level - 1).g
<1>1. level \in (StartLevel + 1) .. 3 /\ Aligned(addr, level - 1)
  BY DEF ValidStructureCmd, ValidMapAddr, RTT_PAGE_LEVEL
<1>2. level - 1 \in Levels /\ level - 1 \in 0 .. 2 /\ level \in 1 .. 3
  BY <1>1, LevelNumbers
<1>3. On(s2tt, rd, addr, t, level - 1)
  BY <1>2, WalkReaches
<1>4. addr \in Nat
  BY Ranges
<1>5. level = level - 1 + 1
  BY <1>2
<1>6. QED
  BY <1>1, <1>2, <1>3, <1>4, <1>5, OnTable

\* The table an entry points to is not the entry's own.
LEMMA ChildOwned ==
  ASSUME Inv, NEW t \in Rtts, NEW i \in Idx, IsTable(s2tt[t][i])
  PROVE  LET c == s2tt[t][i].pa IN c \in Granules /\ c # t /\ gstate[c] = "RTT"
<1> DEFINE c == s2tt[t][i].pa
<1>1. c \in Rtts /\ lvl[c] = lvl[t] + 1
  BY DEF Inv, PointsToOwned
<1>2. lvl[t] \in Int
  BY DEF Inv, MemoryTypeOK, Rtts, Levels
<1>3. QED
  BY <1>1, <1>2 DEF Rtts

\* smc_rtt_create.
LEMMA RttCreateSteps ==
  ASSUME TypeOK, Inv, TlbInv, NEW rd0 \in Rds, NEW g \in Granules,
         NEW addr \in Ipas, NEW level \in Levels, RttCreate(rd0, g, addr, level)
  PROVE  Steps
<1> DEFINE l0 == level - 1
           t == Walk(rd0, addr, l0).g
           i == Index(addr, l0)
           e == s2tt[t][i]
<1>1. /\ gstate[g] = "DELEGATED" /\ ValidStructureCmd(addr, level)
      /\ Walk(rd0, addr, l0).level = l0 /\ ~IsTable(e)
      /\ s2tt' = [s2tt EXCEPT ![g] = UnfoldEntry(e, level),
                              ![t] = [@ EXCEPT ![i] = TableEntry(g)]]
      /\ tlb' = IF IsValid(e) THEN InvalidateAt(rd0, {addr}) ELSE tlb
      /\ UNCHANGED <<rdState, measured, setRipas>>
  BY DEF RttCreate, RttCreateAt
<1>2. /\ l0 \in Levels /\ l0 + 1 \in Levels /\ Aligned(addr, l0) /\ On(s2tt, rd0, addr, t, l0)
      /\ t \in Rtts /\ t \in Granules /\ i \in Idx
  BY <1>1, StructureEntry, ZenonT(30)
<1>3. g \in Granules \ Rtts /\ g # t
  BY <1>1, <1>2 DEF Rtts
<1> HIDE DEF t, i
<1>4. s2tt'[t][i] = TableEntry(g) /\ s2tt'[g] = UnfoldEntry(e, level)
  BY <1>1, <1>2, <1>3 DEF TypeOK
<1>5. OthersKept(t, i, g)
  BY <1>1, <1>2, <1>3 DEF TypeOK, OthersKept
<1>6. \A k \in Idx : s2tt'[g][k].hipas = e.hipas /\ s2tt'[g][k].ripas = e.ripas
  BY <1>4 DEF UnfoldEntry, MkEntry
<1>7. tlb' \subseteq tlb /\ (IsValid(e) => tlb' \subseteq InvalidateAt(rd0, {addr}))
  BY <1>1, InvalidationsRemove
<1>8. i = Index(addr, l0) /\ e = s2tt[t][Index(addr, l0)] /\ ~IsTable(e)
  BY <1>1 DEF i
<1> HIDE DEF e, l0
<1>9. \A rd \in Rds, a \in Ipas : StepAt(rd, a)
  BY <1>2, <1>3, <1>4, <1>5, <1>6, <1>7, <1>8, CreateStep
<1>10. QED
  BY <1>1, <1>7, <1>9, RestSame DEF Steps

\* smc_rtt_fold.
LEMMA RttFoldSteps ==
  ASSUME TypeOK, Inv, TlbInv, NEW rd0 \in Rds,
         NEW addr \in Ipas, NEW level \in Levels, RttFold(rd0, addr, level)
  PROVE  Steps
<1> DEFINE l0 == level - 1
           t == Walk(rd0, addr, l0).g
           i == Index(addr, l0)
           c == s2tt[t][i].pa
           new == FoldedEntry(s2tt[c])
<1>1. /\ ValidStructureCmd(addr, level)
      /\ Walk(rd0, addr, l0).level = l0 /\ IsTable(s2tt[t][i])
      /\ Foldable(s2tt[c], refcount[c], level)
      /\ s2tt' = [s2tt EXCEPT ![t] = [@ EXCEPT ![i] = new], ![c] = ZeroTable]
      /\ tlb' = IF IsValid(new) THEN InvalidateRange(rd0, addr, l0)
                ELSE InvalidateAt(rd0, {addr})
      /\ UNCHANGED <<rdState, measured, setRipas>>
  BY DEF RttFold, RttFoldAt
<1>2. /\ l0 \in Levels /\ l0 + 1 \in Levels /\ Aligned(addr, l0) /\ On(s2tt, rd0, addr, t, l0)
      /\ t \in Rtts /\ t \in Granules /\ i \in Idx
  BY <1>1, StructureEntry, ZenonT(30)
<1>3. c \in Granules /\ c # t
  BY <1>1, <1>2, ChildOwned
<1>4. Homogeneous(s2tt[c]) /\ ~IsTable(s2tt[c][0]) /\ 0 \in Idx
  <2>1. Homogeneous(s2tt[c]) /\ s2tt[c][0].hipas \in Hipas \ {"table"}
    BY <1>1 DEF Foldable, IsUnassigned, HoldsData, Hipas
  <2>2. 0 \in Idx
    BY ConstantsAssumption DEF Idx
  <2>3. QED
    BY <2>1, <2>2 DEF IsTable
<1>5. \A k \in Idx : s2tt[c][k].hipas = new.hipas /\ s2tt[c][k].ripas = new.ripas
  BY <1>4 DEF Homogeneous, FoldedEntry, MkEntry
<1>6. \A k \in Idx : ~IsTable(s2tt[c][k]) /\ (IsValid(s2tt[c][k]) <=> IsValid(new))
  BY <1>4, <1>5 DEF IsTable, IsValid, IsAssignedRam, HoldsData
<1>7. ~IsTable(new)
  BY <1>4, <1>5, <1>6 DEF IsTable
<1> HIDE DEF t, i, c, new, l0
<1>8. s2tt'[t][i] = new
  BY <1>1, <1>2, <1>3 DEF TypeOK
<1>9. OthersKept(t, i, c)
  BY <1>1, <1>2, <1>3 DEF TypeOK, OthersKept
<1>10. tlb' \subseteq tlb /\ (IsValid(new) => tlb' \subseteq InvalidateRange(rd0, addr, l0))
  BY <1>1, InvalidationsRemove
<1>11. \A k \in Idx : InItsHalf(addr, s2tt[c][k]) => InItsHalf(addr, new)
  BY <1>5 DEF InItsHalf, HasRipas
<1>12. \A k \in Idx :
          /\ InItsHalf(addr, s2tt[c][k]) => InItsHalf(addr, new)
          /\ new.ripas = "ram" => s2tt[c][k].ripas = "ram"
          /\ InItsHalf(addr, s2tt[c][k]) /\ IsValid(s2tt[c][k]) =>
               tlb' \subseteq InvalidateRange(rd0, addr, l0)
  BY <1>5, <1>6, <1>10, <1>11
<1>13. \A rd \in Rds, a \in Ipas : StepAt(rd, a)
  <2>1. c = s2tt[t][Index(addr, l0)].pa /\ i = Index(addr, l0) /\ IsTable(s2tt[t][Index(addr, l0)])
    BY <1>1 DEF i, c
  <2>2. QED
    BY <1>2, <1>6, <1>7, <1>8, <1>9, <1>10, <1>12, <2>1, RemoveStep
<1>14. QED
  BY <1>1, <1>10, <1>13, RestSame DEF Steps

\* smc_rtt_destroy: the table holds no data and no tables, and maps no host memory
\* either when it is a protected one.
LEMMA RttDestroySteps ==
  ASSUME TypeOK, Inv, TlbInv, NEW rd0 \in Rds,
         NEW addr \in Ipas, NEW level \in Levels, RttDestroy(rd0, addr, level)
  PROVE  Steps
<1> DEFINE l0 == level - 1
           t == Walk(rd0, addr, l0).g
           i == Index(addr, l0)
           c == s2tt[t][i].pa
           new == IF addr \in Par THEN Unassigned("destroyed") ELSE UnassignedNs
<1>1. /\ ValidStructureCmd(addr, level)
      /\ Walk(rd0, addr, l0).level = l0 /\ IsTable(s2tt[t][i])
      /\ refcount[c] = 0
      /\ s2tt' = [s2tt EXCEPT ![t] = [@ EXCEPT ![i] = new], ![c] = ZeroTable]
      /\ tlb' = DestroyFlush(rd0, addr, level)
      /\ UNCHANGED <<rdState, measured, setRipas>>
  BY DEF RttDestroy, RttDestroyAt, Destroyable
<1>2. /\ l0 \in Levels /\ l0 + 1 \in Levels /\ Aligned(addr, l0) /\ On(s2tt, rd0, addr, t, l0)
      /\ t \in Rtts /\ t \in Granules /\ i \in Idx
  BY <1>1, StructureEntry, ZenonT(30)
<1>3. c \in Granules /\ c # t /\ gstate[c] = "RTT"
  BY <1>1, <1>2, ChildOwned
<1>4. \A k \in Idx : ~IsLive(s2tt[c][k])
  <2>1. Cardinality(LiveIn(c)) = 0
    BY <1>1, <1>3 DEF Inv, RefcountCountsLive
  <2>2. LiveIn(c) = {}
    BY <1>3, <2>1, LiveInFinite, FS_EmptySet
  <2>3. QED
    BY <2>2 DEF LiveIn
<1>5. \A k \in Idx : ~IsTable(s2tt[c][k]) /\ ~HoldsData(s2tt[c][k])
  BY <1>4 DEF IsLive
<1>6. ~IsTable(new) /\ InItsHalf(addr, new) /\ new.ripas # "ram"
  BY DEF IsTable, InItsHalf, HasRipas, Unassigned, UnassignedNs, MkEntry
<1> HIDE DEF t, i, c, new, l0
<1>7. s2tt'[t][i] = new
  BY <1>1, <1>2, <1>3 DEF TypeOK
<1>8. OthersKept(t, i, c)
  BY <1>1, <1>2, <1>3 DEF TypeOK, OthersKept
<1>9. tlb' \subseteq tlb /\ (addr \notin Par => tlb' \subseteq InvalidateRange(rd0, addr, l0))
  BY <1>1, InvalidationsRemove DEF DestroyFlush, l0
<1>10. \A k \in Idx : InItsHalf(addr, s2tt[c][k]) /\ IsValid(s2tt[c][k]) => addr \notin Par
  BY <1>5 DEF InItsHalf, HasRipas, IsValid, IsAssignedRam, HoldsData
<1>11. \A k \in Idx :
          /\ InItsHalf(addr, s2tt[c][k]) => InItsHalf(addr, new)
          /\ new.ripas = "ram" => s2tt[c][k].ripas = "ram"
          /\ InItsHalf(addr, s2tt[c][k]) /\ IsValid(s2tt[c][k]) =>
               tlb' \subseteq InvalidateRange(rd0, addr, l0)
  BY <1>6, <1>9, <1>10
<1>12. \A rd \in Rds, a \in Ipas : StepAt(rd, a)
  <2>1. c = s2tt[t][Index(addr, l0)].pa /\ i = Index(addr, l0) /\ IsTable(s2tt[t][Index(addr, l0)])
    BY <1>1 DEF i, c
  <2>2. QED
    BY <1>2, <1>5, <1>6, <1>7, <1>8, <1>9, <1>11, <2>1, RemoveStep
<1>13. QED
  BY <1>1, <1>9, <1>12, RestSame DEF Steps

\* A command that rewrites the entry at the end of the walk to its level.
LEMMA EditSteps ==
  ASSUME TypeOK, Inv, TlbInv, RestGoesOn, NEW rd0 \in Rds, NEW b \in Ipas, NEW l0 \in Levels,
         Walk(rd0, b, l0).level = l0, Aligned(b, l0),
         NEW t, t = Walk(rd0, b, l0).g,
         NEW old, old = s2tt[t][Index(b, l0)], ~IsTable(old),
         NEW new, ~IsTable(new),
         s2tt' = [s2tt EXCEPT ![t] = [@ EXCEPT ![Index(b, l0)] = new]],
         InItsHalf(b, new),
         new.ripas = "ram" => old.ripas = "ram" \/ (l0 = RTT_PAGE_LEVEL /\ b \in measured'[rd0]),
         IsValid(old) => tlb' \subseteq InvalidateAt(rd0, {b})
  PROVE  Steps
<1>1. On(s2tt, rd0, b, t, l0)
  BY WalkReaches
<1>2. tlb' \subseteq tlb
  BY DEF RestGoesOn
<1>3. \A rd \in Rds, a \in Ipas : StepAt(rd, a)
  BY <1>1, <1>2, EntryEditStep
<1>4. QED
  BY <1>3 DEF Steps

\* map_unmap_ns.
LEMMA UnprotectedSteps ==
  ASSUME TypeOK, Inv, TlbInv, NEW rd0 \in Rds, NEW addr \in Ipas, NEW level \in Levels,
         \/ \E pa \in HostPas : RttMapUnprotected(rd0, addr, level, pa)
         \/ RttUnmapUnprotected(rd0, addr, level)
  PROVE  Steps
<1> DEFINE t == Walk(rd0, addr, level).g
           i == Index(addr, level)
           old == s2tt[t][i]
<1>1. Aligned(addr, level) /\ addr \notin Par /\ Walk(rd0, addr, level).level = level
  BY DEF RttMapUnprotected, RttUnmapUnprotected, RttMapUnprotectedAt, RttUnmapUnprotectedAt,
         ValidMapCmd, ValidMapAddr
<1>2. PICK new :
        /\ s2tt' = [s2tt EXCEPT ![t] = [@ EXCEPT ![i] = new]]
        /\ new.hipas \in {"assigned_ns", "unassigned_ns"} /\ new.ripas = "empty"
        /\ old.hipas \in {"assigned_ns", "unassigned_ns"}
        /\ tlb' \subseteq tlb
        /\ IsValid(old) => tlb' \subseteq InvalidateAt(rd0, {addr})
        /\ UNCHANGED <<rdState, measured, setRipas>>
  <2>1. CASE \E pa \in HostPas : RttMapUnprotected(rd0, addr, level, pa)
    <3>1. PICK pa \in HostPas : RttMapUnprotected(rd0, addr, level, pa)
      BY <2>1
    <3>2. WITNESS AssignedNs(pa)
    <3>3. QED
      BY <3>1 DEF RttMapUnprotected, RttMapUnprotectedAt, AssignedNs, MkEntry, IsValid,
                  IsAssignedRam, HoldsData
  <2>2. CASE RttUnmapUnprotected(rd0, addr, level)
    <3>1. WITNESS UnassignedNs
    <3>2. QED
      BY <2>2, InvalidationsRemove
      DEF RttUnmapUnprotected, RttUnmapUnprotectedAt, UnassignedNs, MkEntry
  <2>3. QED
    BY <2>1, <2>2
<1>3. ~IsTable(old) /\ ~IsTable(new) /\ InItsHalf(addr, new)
  BY <1>1, <1>2 DEF IsTable, InItsHalf
<1>4. RestGoesOn
  BY <1>2, RestSame
<1> HIDE DEF t, old
<1>5. QED
  BY <1>1, <1>2, <1>3, <1>4, EditSteps DEF t, old

\* Every address is the base of its page.
LEMMA PageAligned == \A a \in Nat : Aligned(a, RTT_PAGE_LEVEL) /\ RTT_PAGE_LEVEL \in Levels
<1>1. \A a \in Nat : a % 1 = 0
  OBVIOUS
<1>2. QED
  BY <1>1, LevelNumbers DEF Aligned, MapSize, RTT_PAGE_LEVEL

\* data_create: the page becomes RAM when it is measured, and otherwise keeps its RIPAS.
LEMMA DataCreateSteps ==
  ASSUME TypeOK, Inv, TlbInv, NEW rd0 \in Rds, NEW g \in Granules, NEW addr \in Ipas,
         DataCreate(rd0, g, addr) \/ DataCreateUnknown(rd0, g, addr)
  PROVE  Steps
<1> DEFINE t == Walk(rd0, addr, RTT_PAGE_LEVEL).g
           i == Index(addr, RTT_PAGE_LEVEL)
           old == s2tt[t][i]
<1>1. /\ addr \in Par /\ Walk(rd0, addr, RTT_PAGE_LEVEL).level = RTT_PAGE_LEVEL
      /\ IsUnassigned(old) /\ tlb' = tlb /\ UNCHANGED <<rdState, setRipas>>
  BY DEF DataCreate, DataCreateUnknown, DataCreateAt, DataCreateUnknownAt, MapData
<1>2. PICK ripas :
        /\ s2tt' = [s2tt EXCEPT ![t] = [@ EXCEPT ![i] = Assigned(ripas, g)]]
        /\ ripas = "ram" => old.ripas = "ram" \/ addr \in measured'[rd0]
        /\ \A rd \in Rds : measured[rd] \subseteq measured'[rd]
  <2>1. CASE DataCreate(rd0, g, addr)
    BY <2>1 DEF DataCreate, DataCreateAt, MapData, TypeOK
  <2>2. CASE DataCreateUnknown(rd0, g, addr)
    BY <1>1, <2>2 DEF DataCreateUnknown, DataCreateUnknownAt, MapData, EntryAt
  <2>3. QED
    BY <2>1, <2>2
<1> DEFINE new == Assigned(ripas, g)
<1>3. ~IsTable(old) /\ ~IsTable(new) /\ InItsHalf(addr, new) /\ new.ripas = ripas
  BY <1>1 DEF IsUnassigned, IsTable, InItsHalf, HasRipas, Assigned, MkEntry
<1>4. ~IsValid(old)
  BY <1>1 DEF IsUnassigned, IsValid, IsAssignedRam, HoldsData
<1>5. RestGoesOn
  BY <1>1, <1>2 DEF RestGoesOn, TlbInv, NoEarlyRequest
<1>6. addr \in Nat
  BY Ranges
<1> HIDE DEF t, old, new
<1>7. s2tt' = [s2tt EXCEPT ![t] = [@ EXCEPT ![Index(addr, RTT_PAGE_LEVEL)] = new]]
  BY <1>2 DEF new
<1>8. new.ripas = "ram" => old.ripas = "ram" \/ (RTT_PAGE_LEVEL = RTT_PAGE_LEVEL /\ addr \in measured'[rd0])
  BY <1>2, <1>3
<1>9. QED
  BY <1>1, <1>3, <1>4, <1>5, <1>6, <1>7, <1>8, PageAligned, EditSteps DEF t, old

\* smc_data_destroy: the page is empty or destroyed, and no longer cached.
LEMMA DataDestroySteps ==
  ASSUME TypeOK, Inv, TlbInv, NEW rd0 \in Rds, NEW addr \in Ipas, DataDestroy(rd0, addr)
  PROVE  Steps
<1> DEFINE t == Walk(rd0, addr, RTT_PAGE_LEVEL).g
           i == Index(addr, RTT_PAGE_LEVEL)
           old == s2tt[t][i]
           new == Unassigned(RipasAfterDestroy(old))
<1>1. /\ addr \in Par /\ Walk(rd0, addr, RTT_PAGE_LEVEL).level = RTT_PAGE_LEVEL
      /\ HoldsData(old)
      /\ s2tt' = [s2tt EXCEPT ![t] = [@ EXCEPT ![i] = new]]
      /\ tlb' = IF IsAssignedRam(old) THEN InvalidateAt(rd0, {addr}) ELSE tlb
      /\ UNCHANGED <<rdState, measured, setRipas>>
  BY DEF DataDestroy, UnmapData
<1>2. ~IsTable(old) /\ ~IsTable(new) /\ InItsHalf(addr, new) /\ new.ripas # "ram"
  BY <1>1 DEF HoldsData, IsTable, InItsHalf, HasRipas, Unassigned, MkEntry, RipasAfterDestroy
<1>3. IsValid(old) => IsAssignedRam(old)
  BY <1>1 DEF IsValid, HoldsData
<1>4. tlb' \subseteq tlb /\ (IsValid(old) => tlb' \subseteq InvalidateAt(rd0, {addr}))
  BY <1>1, <1>3, InvalidationsRemove
<1>5. RestGoesOn
  BY <1>1, <1>4, RestSame
<1>6. addr \in Nat
  BY Ranges
<1> HIDE DEF t, old, new
<1>7. QED
  BY <1>1, <1>2, <1>4, <1>5, <1>6, PageAligned, EditSteps DEF t, old

\* RMI_IPA_BLOCK and RMI_IPA_UNBLOCK.
LEMMA SetBlockedSteps ==
  ASSUME TypeOK, Inv, TlbInv, NEW rd0 \in Rds, NEW addr \in Ipas, NEW blocked,
         SetBlocked(rd0, addr, blocked)
  PROVE  Steps
<1> DEFINE t == Walk(rd0, addr, RTT_PAGE_LEVEL).g
           i == Index(addr, RTT_PAGE_LEVEL)
           old == s2tt[t][i]
           new == [old EXCEPT !.blocked = blocked]
<1>1. /\ Walk(rd0, addr, RTT_PAGE_LEVEL).level = RTT_PAGE_LEVEL
      /\ IsAssignedRam(old)
      /\ s2tt' = [s2tt EXCEPT ![t] = [@ EXCEPT ![i] = new]]
      /\ tlb' = InvalidateAt(rd0, {addr})
      /\ UNCHANGED <<rdState, measured, setRipas>>
  BY DEF SetBlocked, SetBlockedAt
<1>2. addr \in Nat
  BY Ranges
<1>3. old \in Entry
  BY <1>2, WalkedEntry, <1>1 DEF RTT_PAGE_LEVEL
<1>4. new.hipas = old.hipas /\ new.ripas = old.ripas
  BY <1>3 DEF Entry
<1>5. InItsHalf(addr, old)
  BY <1>1 DEF TlbInv, HalvesApart, Leaf, EntryAt
<1>6. ~IsTable(old) /\ ~IsTable(new) /\ InItsHalf(addr, new)
  BY <1>1, <1>4, <1>5 DEF IsAssignedRam, HoldsData, IsTable, InItsHalf, HasRipas
<1>7. tlb' \subseteq tlb
  BY <1>1, InvalidationsRemove
<1>8. RestGoesOn
  BY <1>1, <1>7, RestSame
<1>9. /\ t = Walk(rd0, addr, RTT_PAGE_LEVEL).g
      /\ old = s2tt[t][Index(addr, RTT_PAGE_LEVEL)]
  OBVIOUS
<1>10. Aligned(addr, RTT_PAGE_LEVEL) /\ RTT_PAGE_LEVEL \in Levels
  BY <1>2, PageAligned
<1>11. IsValid(old) => tlb' \subseteq InvalidateAt(rd0, {addr})
  BY <1>1
<1>12. s2tt' = [s2tt EXCEPT ![t] = [@ EXCEPT ![Index(addr, RTT_PAGE_LEVEL)] = new]]
  BY <1>1
<1>13. new.ripas = "ram" => old.ripas = "ram"
  BY <1>4
<1>14. Walk(rd0, addr, RTT_PAGE_LEVEL).level = RTT_PAGE_LEVEL
  BY <1>1
<1> HIDE DEF t, i, old, new
<1>15. QED
  BY <1>6, <1>8, <1>9, <1>10, <1>11, <1>12, <1>13, <1>14, EditSteps

\* Two addresses of one table, the first aligned to its entries: how far the entry of
\* the second is.
LEMMA EntryDistance ==
  ASSUME NEW a \in Nat, NEW b \in Nat, NEW l \in 0 .. 3,
         Region(a, l) = Region(b, l), Aligned(b, l)
  PROVE  b + (Index(a, l) - Index(b, l)) * MapSize(l) = Block(a, l) * MapSize(l)
<1> DEFINE m == MapSize(l)
<1>1. m \in Nat \ {0} /\ S2TTES_PER_S2TT \in Nat \ {0}
  BY MapSizePositive, ConstantsAssumption
<1>2. b = Block(b, l) * m
  BY AlignedIsBase
<1>3. /\ Block(a, l) = S2TTES_PER_S2TT * Region(a, l) + Index(a, l)
      /\ Block(b, l) = S2TTES_PER_S2TT * Region(a, l) + Index(b, l)
      /\ Block(a, l) \in Nat /\ Block(b, l) \in Nat /\ Region(a, l) \in Nat
  BY BlockParts
<1>4. Index(a, l) \in Nat /\ Index(b, l) \in Nat
  BY IndexInTable, IdxNat
<1> HIDE DEF m
<1>5. Index(a, l) - Index(b, l) = Block(a, l) - Block(b, l)
  <2>1. S2TTES_PER_S2TT * Region(a, l) \in Nat
    BY <1>1, <1>3
  <2>2. QED
    BY <1>3, <1>4, <2>1
<1>6. (Block(a, l) - Block(b, l)) * m = Block(a, l) * m - Block(b, l) * m
  BY <1>1, <1>3
<1>7. Block(a, l) * m \in Nat /\ Block(b, l) * m \in Nat
  BY <1>1, <1>3
<1>8. QED
  BY <1>2, <1>5, <1>6, <1>7 DEF m

\* Where a RIPAS command works: at the deepest table for base.
LEMMA DeepestTable ==
  ASSUME Inv, NEW rd \in Rds, NEW base \in Ipas
  PROVE  LET w == Walk(rd, base, RTT_PAGE_LEVEL) IN
         /\ w = At(w.g, w.level)
         /\ w.level \in Levels /\ w.level \in 0 .. 3 /\ w.g \in Granules
         /\ On(s2tt, rd, base, w.g, w.level)
<1> DEFINE w == Walk(rd, base, RTT_PAGE_LEVEL)
<1>1. PICK g, l : /\ w = At(g, l) /\ l \in Levels /\ On(s2tt, rd, base, g, l)
  BY PathEnds, WalkToPages
<1>2. base \in Nat
  BY Ranges
<1>3. w.g = g /\ w.level = l
  BY <1>1 DEF At
<1> HIDE DEF w
<1>4. g \in Granules /\ l \in 0 .. 3
  BY <1>1, <1>2, OnTable, LevelNumbers
<1>5. QED
  BY <1>1, <1>3, <1>4 DEF w

\* smc_rtt_init_ripas: what becomes RAM is measured.
LEMMA InitRipasSteps ==
  ASSUME TypeOK, Inv, TlbInv, NEW rd0 \in Rds, NEW base \in Ipas, NEW top \in Nat,
         RttInitRipas(rd0, base, top)
  PROVE  Steps
<1> DEFINE w == Walk(rd0, base, RTT_PAGE_LEVEL)
           t == w.g
           l == w.level
           Initial(e) == e.hipas = "unassigned" /\ e.ripas \in {"empty", "ram"}
           ks == Run(w, base, top, Initial)
<1>1. /\ Aligned(base, l)
      /\ s2tt' = [s2tt EXCEPT ![t] = [k \in Idx |-> IF k \in ks THEN Unassigned("ram") ELSE @[k]]]
      /\ measured' = [measured EXCEPT ![rd0] = @ \cup PagesOf(w, base, ks)]
      /\ UNCHANGED <<rdState, setRipas, tlb>>
  BY DEF RttInitRipas, RttInitRipasAt
<1>2. /\ l \in Levels /\ l \in 0 .. 3 /\ t \in Granules /\ On(s2tt, rd0, base, t, l)
  BY DeepestTable
<1>3. ks \in SUBSET Idx /\ \A k \in ks : s2tt[t][k].hipas = "unassigned"
  BY IdxNat DEF Run
<1> DEFINE pages == PagesOf(w, base, ks)
<1>4. pages = {a \in Ipas : \E k \in ks :
                  /\ base + (k - Index(base, l)) * MapSize(l) <= a
                  /\ a < base + (k - Index(base, l)) * MapSize(l) + MapSize(l)}
  BY DEF PagesOf
<1>5. base \in Nat
  BY Ranges
<1> HIDE DEF ks, pages, w
<1>6. /\ \A h \in Granules, k \in Idx : ~(h = t /\ k \in ks) => s2tt'[h][k] = s2tt[h][k]
      /\ \A k \in ks : s2tt'[t][k] = Unassigned("ram")
  BY <1>1, <1>2, <1>3 DEF TypeOK
<1>7. \A k \in ks : ~IsTable(s2tt[t][k]) /\ ~IsTable(s2tt'[t][k])
  BY <1>3, <1>6 DEF IsTable, Unassigned, MkEntry
<1>8. RestGoesOn
  BY <1>1 DEF RestGoesOn, TlbInv, NoEarlyRequest, TypeOK
<1>9. Edits(t, ks)
  BY <1>3, <1>6, <1>7 DEF Edits
<1>10. ASSUME NEW rd \in Rds, NEW a \in Ipas
       PROVE  StepAt(rd, a)
  <2>1. /\ Walk(rd, a, RTT_PAGE_LEVEL)' = Walk(rd, a, RTT_PAGE_LEVEL)
        /\ IF rd = rd0 /\ Region(a, l) = Region(base, l) /\ Index(a, l) \in ks
           THEN /\ Walk(rd, a, RTT_PAGE_LEVEL) = At(t, l)
                /\ Leaf(rd, a) = s2tt[t][Index(a, l)]
                /\ Leaf(rd, a)' = s2tt'[t][Index(a, l)]
           ELSE Leaf(rd, a)' = Leaf(rd, a)
    BY <1>2, <1>9, EditFrame
  <2>2. CASE ~(rd = rd0 /\ Region(a, l) = Region(base, l) /\ Index(a, l) \in ks)
    BY <2>1, <2>2, AddressUntouched
  <2>3. CASE rd = rd0 /\ Region(a, l) = Region(base, l) /\ Index(a, l) \in ks
    <3>1. Leaf(rd, a).hipas = "unassigned" /\ Leaf(rd, a)' = Unassigned("ram")
      BY <1>3, <1>6, <2>1, <2>3
    <3>2. InItsHalf(a, Leaf(rd, a)')
      BY <3>1 DEF TlbInv, HalvesApart, InItsHalf, HasRipas, Unassigned, MkEntry
    <3>3. a \in measured'[rd]
      <4>1. a \in Nat
        BY Ranges
      <4>2. base + (Index(a, l) - Index(base, l)) * MapSize(l) = Block(a, l) * MapSize(l)
        BY <1>1, <1>2, <1>5, <2>3, <4>1, EntryDistance
      <4>3. Block(a, l) * MapSize(l) <= a /\ a < Block(a, l) * MapSize(l) + MapSize(l)
        BY <1>2, <4>1, BlockRange, BlockParts
      <4>4. a \in pages
        BY <1>4, <2>3, <4>2, <4>3
      <4>5. QED
        BY <1>1, <2>3, <4>4 DEF TypeOK, pages
    <3>4. ~IsValid(Leaf(rd, a))
      BY <3>1 DEF IsValid, IsAssignedRam, HoldsData
    <3>5. \A x \in tlb : ~(x.rd = rd /\ x.base = a)
      BY <3>4, CachedIsValid
    <3>6. QED
      BY <1>1, <3>2, <3>3, <3>5 DEF StepAt
  <2>4. QED
    BY <2>2, <2>3
<1>11. QED
  BY <1>8, <1>10 DEF Steps

\* smc_rtt_set_ripas: only a realm that runs has a request, and every entry that
\* stops being RAM is invalidated.
LEMMA SetRipasSteps ==
  ASSUME TypeOK, Inv, TlbInv, NEW rd0 \in Rds, NEW last \in Ipas,
         RttSetRipas(rd0, last + 1)
  PROVE  Steps
<1> DEFINE top == last + 1
           req == setRipas[rd0]
           base == req.addr
           w == Walk(rd0, base, RTT_PAGE_LEVEL)
           t == w.g
           l == w.level
           CanUpdate(e) == CanUpdateRipas(e, req.change)
           ks == Run(w, base, top, CanUpdate)
           flushed == {k \in ks : NeedsTlbi(s2tt[t][k], req.ripas)}
           starts == {base + (k - Index(base, l)) * MapSize(l) : k \in flushed}
<1>1. /\ base < top /\ top <= req.top /\ Aligned(base, l) /\ ks # {}
      /\ s2tt' = [s2tt EXCEPT ![t] =
                    [k \in Idx |-> IF k \in ks THEN UpdateRipas(@[k], req.ripas) ELSE @[k]]]
      /\ tlb' = InvalidateAt(rd0, starts)
      /\ \E x : setRipas' = [setRipas EXCEPT ![rd0].addr = x]
      /\ UNCHANGED <<rdState, measured>>
  BY DEF RttSetRipas, RttSetRipasAt
<1>2. req \in Requests /\ base \in Nat /\ req.ripas \in {"empty", "ram"}
  BY DEF TypeOK, Requests
<1>3. rdState[rd0] # "NEW"
  <2>1. rdState[rd0] = "NEW" => req = NoRequest
    BY DEF TlbInv, NoEarlyRequest
  <2>2. NoRequest.addr = 0 /\ NoRequest.top = 0
    BY DEF NoRequest
  <2>3. top \in Nat
    BY Ranges
  <2> HIDE DEF req, top
  <2>4. QED
    BY <1>1, <2>1, <2>2, <2>3
<1>4. base \in Ipas
  BY <1>1, <1>2, IpaSizeNat DEF Ipas
<1>5. /\ l \in Levels /\ l \in 0 .. 3 /\ t \in Granules /\ On(s2tt, rd0, base, t, l)
  BY <1>4, DeepestTable
<1>6. ks \in SUBSET Idx /\ \A k \in ks : HasRipas(s2tt[t][k])
  <2>1. ks \in SUBSET Idx /\ \A k \in ks : CanUpdate(s2tt[t][k])
    <3>1. Index(base, l) \in Nat
      BY <1>2, <1>5, IndexInTable, IdxNat
    <3> HIDE DEF w, CanUpdate
    <3>2. QED
      BY <3>1, IdxNat DEF Run
  <2>2. QED
    BY <2>1 DEF CanUpdateRipas
<1> HIDE DEF ks, w, req
<1>7. /\ \A h \in Granules, k \in Idx : ~(h = t /\ k \in ks) => s2tt'[h][k] = s2tt[h][k]
      /\ \A k \in ks : s2tt'[t][k] = UpdateRipas(s2tt[t][k], req.ripas)
  BY <1>1, <1>5, <1>6 DEF TypeOK
<1>8. \A k \in ks : s2tt'[t][k].hipas = s2tt[t][k].hipas
  <2>1. \A e, r : UpdateRipas(e, r).hipas = e.hipas
    BY DEF UpdateRipas, MkEntry
  <2>2. QED
    BY <1>7, <2>1
<1>9. \A k \in ks : ~IsTable(s2tt[t][k]) /\ ~IsTable(s2tt'[t][k])
  BY <1>6, <1>8 DEF IsTable, HasRipas
<1>10. RestGoesOn
  <2>1. tlb' \subseteq tlb
    BY <1>1, InvalidationsRemove
  <2>2. \A rd \in Rds : rdState'[rd] = "NEW" => rdState[rd] = "NEW" /\ setRipas'[rd] = NoRequest
    BY <1>1, <1>3 DEF TlbInv, NoEarlyRequest, TypeOK
  <2>3. QED
    BY <1>1, <2>1, <2>2 DEF RestGoesOn
<1>11. ASSUME NEW rd \in Rds, NEW a \in Ipas
       PROVE  StepAt(rd, a)
  <2>0. Edits(t, ks)
    BY <1>6, <1>7, <1>9 DEF Edits
  <2> HIDE DEF t, l, base
  <2>1. /\ Walk(rd, a, RTT_PAGE_LEVEL)' = Walk(rd, a, RTT_PAGE_LEVEL)
        /\ IF rd = rd0 /\ Region(a, l) = Region(base, l) /\ Index(a, l) \in ks
           THEN /\ Walk(rd, a, RTT_PAGE_LEVEL) = At(t, l)
                /\ Leaf(rd, a) = s2tt[t][Index(a, l)]
                /\ Leaf(rd, a)' = s2tt'[t][Index(a, l)]
           ELSE Leaf(rd, a)' = Leaf(rd, a)
    BY <1>4, <1>5, <2>0, EditFrame
  <2>2. CASE ~(rd = rd0 /\ Region(a, l) = Region(base, l) /\ Index(a, l) \in ks)
    BY <2>1, <2>2, AddressUntouched
  <2>3. CASE rd = rd0 /\ Region(a, l) = Region(base, l) /\ Index(a, l) \in ks
    <3> DEFINE k == Index(a, l)
               e == s2tt[t][k]
    <3>1. k \in ks /\ Leaf(rd, a) = e /\ Leaf(rd, a)' = UpdateRipas(e, req.ripas) /\ HasRipas(e)
      BY <1>6, <1>7, <2>1, <2>3
    <3>2. InItsHalf(a, Leaf(rd, a)')
      BY <1>8, <2>1, <3>1 DEF TlbInv, HalvesApart, InItsHalf, HasRipas
    <3>3. ASSUME NEW x \in tlb', x.rd = rd, x.base = a
          PROVE  Leaf(rd, a)' = Leaf(rd, a)
      <4>1. x \in tlb
        BY <1>10, <3>3 DEF RestGoesOn
      <4>2. IsValid(e) /\ x.level = l
        BY <2>1, <2>3, <3>1, <3>3, <4>1, CachedIsValid DEF At
      <4>3. IsAssignedRam(e)
        BY <3>1, <4>2 DEF IsValid, HasRipas
      <4>4. CASE req.ripas = "ram"
        BY <3>1, <4>3, <4>4 DEF UpdateRipas, IsAssignedRam
      <4>5. CASE req.ripas = "empty"
        <5>1. k \in flushed
          BY <3>1, <4>3, <4>5 DEF NeedsTlbi, IsAssignedRam
        <5>2. a \in Nat /\ Aligned(a, l)
          BY <3>3, <4>1, <4>2, Ranges DEF TlbInv, TlbAligned
        <5>3. base + (k - Index(base, l)) * MapSize(l) = a
          BY <1>1, <1>2, <1>5, <2>3, <5>2, EntryDistance, AlignedIsBase
        <5>4. a \in starts
          BY <5>1, <5>3
        <5>5. Covers(x, a)
          BY <1>5, <3>3, <4>2, <5>2, MapSizePositive DEF Covers
        <5>6. x \notin InvalidateAt(rd0, starts)
          BY <2>3, <3>3, <5>4, <5>5 DEF InvalidateAt
        <5>7. QED
          BY <1>1, <3>3, <5>6
      <4>6. QED
        BY <1>2, <4>4, <4>5 DEF req
    <3>4. rdState[rd] # "NEW"
      BY <1>3, <2>3
    <3>5. QED
      BY <2>1, <3>2, <3>3, <3>4 DEF StepAt
  <2>4. QED
    BY <2>2, <2>3
<1>12. QED
  BY <1>10, <1>11 DEF Steps

\* Commands and events that leave the tables and the TLB alone.
LEMMA QuietSteps ==
  ASSUME TypeOK, TlbInv, s2tt' = s2tt, tlb' = tlb,
         \A rd \in Rds :
             /\ measured[rd] \subseteq measured'[rd]
             /\ rdState'[rd] = "NEW" => rdState[rd] = "NEW" /\ setRipas'[rd] = NoRequest
  PROVE  Steps
<1>1. RestGoesOn
  BY DEF RestGoesOn
<1>2. QED
  BY <1>1, TablesUntouched, AddressUntouched DEF Steps

\* The addresses of a block share the leaf.
LEMMA BlockSharesLeaf ==
  ASSUME Inv, NEW rd \in Rds, NEW a \in Ipas, NEW b \in Ipas,
         Block(a, Walk(rd, a, RTT_PAGE_LEVEL).level) = Block(b, Walk(rd, a, RTT_PAGE_LEVEL).level)
  PROVE  Walk(rd, b, RTT_PAGE_LEVEL) = Walk(rd, a, RTT_PAGE_LEVEL) /\ Leaf(rd, b) = Leaf(rd, a)
<1>1. PICK g, l : /\ Walk(rd, a, RTT_PAGE_LEVEL) = At(g, l) /\ l \in Levels
                  /\ On(s2tt, rd, a, g, l) /\ Stops(s2tt, g, l, a)
  BY PathEnds, WalkToPages
<1>2. Walk(rd, a, RTT_PAGE_LEVEL).level = l
  BY <1>1 DEF At
<1>3. a \in Nat /\ b \in Nat /\ Block(a, l) = Block(b, l)
  BY <1>2, Ranges
<1>4. On(s2tt, rd, b, g, l) /\ Index(a, l) = Index(b, l)
  BY <1>1, <1>3, BlockSharesEntry
<1>5. Stops(s2tt, g, l, b)
  BY <1>1, <1>4 DEF Stops
<1>6. Walk(rd, b, RTT_PAGE_LEVEL) = At(g, l)
  BY <1>1, <1>4, <1>5, PathEndsAt, WalkToPages
<1>7. QED
  BY <1>1, <1>4, <1>6 DEF Leaf, EntryAt, At

\* A realm's access caches what the tables say.
LEMMA RealmAccessKeepsTlbInv ==
  ASSUME TypeOK, Inv, TlbInv, NEW rd \in Rds, NEW addr \in Ipas, RealmAccess(rd, addr)
  PROVE  TlbInv'
<1> DEFINE w == Walk(rd, addr, RTT_PAGE_LEVEL)
           e == Leaf(rd, addr)
           base == addr - (addr % MapSize(w.level))
           entry == [rd |-> rd, level |-> w.level, blocked |-> e.blocked, pa |-> e.pa,
                     base |-> base]
<1>1. /\ IsValid(e) /\ tlb' \subseteq tlb \cup {entry} /\ s2tt' = s2tt
      /\ UNCHANGED <<rdState, measured, setRipas>>
  BY DEF RealmAccess
<1>2. w.level \in 0 .. 3 /\ addr \in Nat
  BY DeepestTable, Ranges
<1>3. base \in Nat /\ Aligned(base, w.level) /\ Block(base, w.level) = Block(addr, w.level)
      /\ base <= addr
  BY <1>2, BlockBase
<1>4. base \in Ipas
  BY <1>2, <1>3, IpaSizeNat DEF Ipas
<1>5. Walk(rd, base, RTT_PAGE_LEVEL) = w /\ Leaf(rd, base) = e
  BY <1>3, <1>4, BlockSharesLeaf
<1>6. /\ entry.rd = rd /\ entry.base = base /\ entry.level = w.level
      /\ entry.pa = e.pa /\ entry.blocked = e.blocked
  OBVIOUS
<1> HIDE DEF w, e, base, entry
<1>7. \A x \in tlb' :
        /\ Walk(x.rd, x.base, RTT_PAGE_LEVEL).level = x.level
        /\ IsValid(Leaf(x.rd, x.base))
        /\ Leaf(x.rd, x.base).pa = x.pa
        /\ Leaf(x.rd, x.base).blocked = x.blocked
        /\ Aligned(x.base, x.level)
  BY <1>1, <1>3, <1>5, <1>6 DEF TlbInv, TlbCoherent, TlbAligned
<1>8. \A r, a : /\ Walk(r, a, RTT_PAGE_LEVEL)' = Walk(r, a, RTT_PAGE_LEVEL)
                /\ Leaf(r, a)' = Leaf(r, a)
  BY <1>1, TablesUntouched
<1>9. TlbCoherent' /\ TlbAligned'
  BY <1>7, <1>8 DEF TlbCoherent, TlbAligned, Aligned, MapSize, IsValid, IsAssignedRam, HoldsData
<1>10. HalvesApart' /\ RamIsMeasured'
  BY <1>1, <1>8
  DEF TlbInv, HalvesApart, RamIsMeasured, InItsHalf, HasRipas, Par, Ipas, IpaSize, MapSize
<1>11. NoEarlyRequest'
  BY <1>1 DEF TlbInv, NoEarlyRequest, NoRequest
<1>12. QED
  BY <1>9, <1>10, <1>11 DEF TlbInv

\* Every step keeps the invariant.
LEMMA StepKeepsTlbInv ==
  ASSUME TypeOK, Inv, TlbInv, [Next]_vars
  PROVE  TlbInv'
<1>1. Steps => TlbInv'
  BY StepAtAll DEF Steps
<1>2. CASE \E g \in Granules : GranuleDelegate(g) \/ GranuleUndelegate(g)
  <2>1. Steps
    BY <1>2, QuietSteps DEF GranuleDelegate, GranuleUndelegate, TlbInv, NoEarlyRequest
  <2>2. QED
    BY <1>1, <2>1
<1>3. ASSUME NEW rd \in Rds, RttCommand(rd)
      PROVE  TlbInv'
  BY <1>1, <1>3, RttCreateSteps, RttFoldSteps, RttDestroySteps, UnprotectedSteps DEF RttCommand
<1>4. ASSUME NEW rd \in Rds, DataCommand(rd)
      PROVE  TlbInv'
  <2>1. PICK addr \in Ipas :
          \/ \E g \in Granules : DataCreate(rd, g, addr) \/ DataCreateUnknown(rd, g, addr)
          \/ \E g \in Granules : DataCreateFault(rd, g, addr)
          \/ DataDestroy(rd, addr)
          \/ \E blocked : SetBlocked(rd, addr, blocked)
    BY <1>4 DEF DataCommand, IpaBlock, IpaUnblock
  <2>2. CASE \E g \in Granules : DataCreateFault(rd, g, addr)
    <3>1. Steps
      BY <2>2, QuietSteps DEF DataCreateFault, TlbInv, NoEarlyRequest
    <3>2. QED
      BY <1>1, <3>1
  <2>3. QED
    BY <1>1, <2>1, <2>2, DataCreateSteps, DataDestroySteps, SetBlockedSteps
<1>5. ASSUME NEW rd \in Rds, RipasCommand(rd)
      PROVE  TlbInv'
  <2>1. \A last \in Ipas : last + 1 \in Nat
    BY Ranges
  <2>2. QED
    BY <1>1, <1>5, <2>1, InitRipasSteps, SetRipasSteps DEF RipasCommand
<1>6. ASSUME NEW rd \in Rds, RealmStep(rd)
      PROVE  TlbInv'
  <2>1. CASE RealmActivate(rd)
    <3>1. Steps
      BY <2>1, QuietSteps DEF RealmActivate, TlbInv, NoEarlyRequest, TypeOK
    <3>2. QED
      BY <1>1, <3>1
  <2>2. CASE \E req \in RipasRequests : RsiIpaStateSet(rd, req)
    <3>1. Steps
      BY <2>2, QuietSteps DEF RsiIpaStateSet, TlbInv, NoEarlyRequest, TypeOK
    <3>2. QED
      BY <1>1, <3>1
  <2>3. CASE RecEnter(rd)
    <3>1. Steps
      BY <2>3, QuietSteps DEF RecEnter, TlbInv, NoEarlyRequest, TypeOK
    <3>2. QED
      BY <1>1, <3>1
  <2>4. QED
    BY <1>6, <2>1, <2>2, <2>3, RealmAccessKeepsTlbInv DEF RealmStep
<1>7. CASE UNCHANGED vars
  <2>1. Steps
    BY <1>7, QuietSteps DEF vars, TlbInv, NoEarlyRequest
  <2>2. QED
    BY <1>1, <2>1
<1>8. QED
  BY <1>2, <1>3, <1>4, <1>5, <1>6, <1>7 DEF Next

\* Realms are made with an empty root table, and nothing cached.
LEMMA InitTlbInv == Init => TlbInv
<1> SUFFICES ASSUME Init PROVE TlbInv
  OBVIOUS
<1>1. ASSUME NEW rd \in Rds, NEW a \in Ipas
      PROVE  InItsHalf(a, Leaf(rd, a)) /\ Leaf(rd, a).ripas = "empty"
  <2> DEFINE k == Index(a, StartLevel)
             b == k * MapSize(StartLevel)
  <2>1. a \in Nat /\ StartLevel \in 0 .. 3 /\ StartLevel \in Levels
    BY Ranges, LevelNumbers
  <2>2. k \in Idx /\ k \in Nat /\ MapSize(StartLevel) \in Nat \ {0}
    BY <2>1, IndexInTable, IdxNat, MapSizePositive
  <2>3. RootOf[rd] \in Granules /\ RootOf[rd] \in Roots
    BY ConstantsAssumption DEF Roots
  <2>4. s2tt[RootOf[rd]][k] = IF b \in Par THEN Unassigned("empty") ELSE UnassignedNs
    BY <2>2, <2>3 DEF Init, RootTable
  <2>5. ~IsTable(s2tt[RootOf[rd]][k])
    BY <2>4 DEF IsTable, Unassigned, UnassignedNs, MkEntry
  <2>6. Leaf(rd, a) = s2tt[RootOf[rd]][k]
    <3>1. On(s2tt, rd, a, RootOf[rd], StartLevel)
      BY OnRoot
    <3>2. Walk(rd, a, RTT_PAGE_LEVEL) = At(RootOf[rd], StartLevel)
      BY <2>1, <2>5, <3>1, PathEndsAt, WalkToPages DEF Stops
    <3>3. QED
      BY <3>2 DEF Leaf, EntryAt, At
  <2>7. Block(a, StartLevel) = k
    <3>1. Block(a, StartLevel) = S2TTES_PER_S2TT * Region(a, StartLevel) + k
      BY <2>1, BlockParts
    <3>2. QED
      BY <2>2, <3>1, OneRootRegion, ConstantsAssumption
  <2>8. b \in Nat /\ b <= a /\ Block(b, StartLevel) = k
    <3>1. b <= a
      BY <2>1, <2>2, <2>7, BlockRange
    <3>2. b \in Nat
      BY <2>2
    <3>3. b < b + MapSize(StartLevel)
      BY <2>2, <3>2
    <3>4. QED
      BY <2>1, <2>2, <3>1, <3>2, <3>3, BlockRange
  <2>9. b \in Ipas
    BY <2>1, <2>8, IpaSizeNat DEF Ipas
  <2>10. a \in Par <=> b \in Par
    BY <2>1, <2>7, <2>8, <2>9, ParIsWholeBlocks
  <2>11. QED
    BY <2>4, <2>6, <2>10 DEF InItsHalf, HasRipas, Unassigned, UnassignedNs, MkEntry
<1>2. tlb = {} /\ \A rd \in Rds : setRipas[rd] = NoRequest
  BY DEF Init
<1>3. QED
  BY <1>1, <1>2 DEF TlbInv, TlbCoherent, TlbAligned, HalvesApart, RamIsMeasured, NoEarlyRequest, Par

-----------------------------------------------------------------------------
(* The theorems.                                                           *)

\* The strengthened invariant of the TLB, the halves and the measurement.
THEOREM TlbInvariance == Spec => []TlbInv
<1>1. TypeOK /\ Inv /\ TlbInv /\ [Next]_vars => TlbInv'
  BY StepKeepsTlbInv
<1>2. QED
  BY <1>1, InitTlbInv, Invariance, PTL DEF Spec

\* No command leaves a translation cached that the tables do not give: every command
\* that changes or removes a valid entry invalidates enough, for blocks and pages, for
\* any table size, any number of realms and any size of the TLB.
THEOREM NothingStaleIsCached == Spec => []TlbCoherent
<1>1. TlbInv => TlbCoherent
  BY DEF TlbInv
<1>2. QED
  BY <1>1, TlbInvariance, PTL

\* Until a realm is activated, all its RAM went into its initial measurement, however
\* its tables were folded and rebuilt meanwhile.
THEOREM InitialRamIsMeasured == Spec => []RamIsMeasured
<1>1. TlbInv => RamIsMeasured
  BY DEF TlbInv
<1>2. QED
  BY <1>1, TlbInvariance, PTL

-----------------------------------------------------------------------------
(* Pages.                                                                  *)

\* The page at a, from the entry its walk ends at and the level of that entry.
PageOf(e, l, a) ==
    [ripas   |-> e.ripas,
     granule |-> IF HoldsData(e) THEN e.pa + (a % MapSize(l)) ELSE NoGranule]

\* The pages of all realms, as Space sees them.
View == [rd \in Rds |-> [a \in Par |-> PageView(rd, a)]]

\* The view is made of the leaves and their levels, before and after a step.
LEMMA PageViewOf ==
  ASSUME NEW rd, NEW a
  PROVE  /\ PageView(rd, a) = PageOf(Leaf(rd, a), Walk(rd, a, RTT_PAGE_LEVEL).level, a)
         /\ PageView(rd, a)' = PageOf(Leaf(rd, a)', Walk(rd, a, RTT_PAGE_LEVEL)'.level, a)
BY DEF PageView, PageOf, Leaf, HoldsData, MapSize

\* A page whose walk and entry stay stays.
LEMMA SamePage ==
  ASSUME NEW rd, NEW a, Walk(rd, a, RTT_PAGE_LEVEL)' = Walk(rd, a, RTT_PAGE_LEVEL),
         Leaf(rd, a)' = Leaf(rd, a)
  PROVE  PageView(rd, a)' = PageView(rd, a)
BY PageViewOf

\* The granule behind a page is a data granule.
LEMMA GranuleBehind ==
  ASSUME Inv, NEW rd \in Rds, NEW a \in Ipas, HoldsData(Leaf(rd, a))
  PROVE  PageView(rd, a).granule \in Granules /\ gstate[PageView(rd, a).granule] = "DATA"
<1>1. PICK g, l : /\ Walk(rd, a, RTT_PAGE_LEVEL) = At(g, l) /\ l \in Levels
                  /\ On(s2tt, rd, a, g, l)
  BY PathEnds, WalkToPages
<1>2. a \in Nat /\ l \in 0 .. 3
  BY <1>1, Ranges, LevelNumbers
<1> DEFINE i == Index(a, l)
           x == s2tt[g][i].pa + (a % MapSize(l))
<1>3. g \in Rtts /\ lvl[g] = l /\ i \in Idx /\ s2tt[g][i] \in Entry
  BY <1>1, <1>2, OnTable
<1>4. Leaf(rd, a) = s2tt[g][i]
  BY <1>1, LeafAt
<1>5. PageView(rd, a).granule = x
  BY <1>1, <1>4, PageViewOf DEF PageOf, At
<1>6. s2tt[g][i].pa \in Nat /\ a % MapSize(l) \in 0 .. MapSize(l) - 1 /\ MapSize(l) \in Nat
  BY <1>2, <1>3, MapSizePositive, DivMod DEF Entry
<1> HIDE DEF i
<1>7. x \in s2tt[g][i].pa .. s2tt[g][i].pa + MapSize(lvl[g]) - 1
  BY <1>3, <1>6
<1>8. HoldsData(s2tt[g][i])
  BY <1>4
<1>9. x \in Granules /\ gstate[x] = "DATA"
  BY <1>3, <1>7, <1>8 DEF Inv, PointsToOwned
<1>10. QED
  BY <1>5, <1>9

\* A page is bare when its entry holds no data.
LEMMA BarePages ==
  ASSUME Inv, NEW rd \in Rds, NEW a \in Ipas
  PROVE  PageView(rd, a).granule = NoGranule <=> ~HoldsData(Leaf(rd, a))
<1>1. CASE HoldsData(Leaf(rd, a))
  BY <1>1, GranuleBehind, NoGranuleAssumption
<1>2. CASE ~HoldsData(Leaf(rd, a))
  BY <1>2, PageViewOf DEF PageOf
<1>3. QED
  BY <1>1, <1>2

\* Where a page lies in its block, one level down.
LEMMA OffsetSplit ==
  ASSUME NEW a \in Nat, NEW l \in 0 .. 2
  PROVE  a % MapSize(l) = Index(a, l + 1) * MapSize(l + 1) + (a % MapSize(l + 1))
<1> DEFINE S == S2TTES_PER_S2TT
           m == MapSize(l + 1)
           B == Block(a, l)
           I == Index(a, l + 1)
<1>1. l \in 0 .. 3 /\ l + 1 \in 0 .. 3
  OBVIOUS
<1>2. a - (a % MapSize(l)) = B * MapSize(l) /\ a - (a % m) = Block(a, l + 1) * m
  BY <1>1, BlockBase
<1>3. MapSize(l) = S * m
  BY MapSizeStep
<1>4. Block(a, l + 1) = S * B + I
  BY <1>1, BlockParts, RegionIsBlockAbove
<1>5. S \in Nat /\ m \in Nat \ {0} /\ B \in Nat /\ I \in Nat /\ MapSize(l) \in Nat \ {0}
  BY <1>1, MapSizePositive, ConstantsAssumption, BlockParts, IndexInTable, IdxNat
<1>6. \A s, n, b, i \in Nat : (s * b + i) * n = b * (s * n) + i * n
  OBVIOUS
<1>7. Block(a, l + 1) * m = B * MapSize(l) + I * m
  BY <1>3, <1>4, <1>5, <1>6
<1>8. a % MapSize(l) \in Nat /\ a % m \in Nat
  <2>1. \A n \in Nat \ {0} : a % n \in Nat
    BY DivMod
  <2>2. QED
    BY <1>5, <2>1
<1>9. I * m \in Nat /\ B * MapSize(l) \in Nat
  BY <1>5
<1> HIDE DEF m, B, I
<1>10. QED
  BY <1>2, <1>7, <1>8, <1>9 DEF m, I

-----------------------------------------------------------------------------
(* From pages to the actions of Space.                                     *)

\* No page changes: housekeeping.
LEMMA NoPageChanges ==
  ASSUME \A rd \in Rds, a \in Par : PageView(rd, a)' = PageView(rd, a),
         UNCHANGED <<rdState, setRipas>>
  PROVE  Space!ANext
<1>1. View' = View
  BY DEF View, Par, Ipas, IpaSize, MapSize
<1>2. QED
  BY <1>1 DEF Space!ANext, Space!Housekeeping, Space!avars, View

\* The pages of one realm become f.
LEMMA PagesBecome ==
  ASSUME NEW rd0 \in Rds, NEW f,
         \A a \in Par : PageView(rd0, a)' = f[a],
         \A rd \in Rds, a \in Par : rd # rd0 => PageView(rd, a)' = PageView(rd, a)
  PROVE  View' = [View EXCEPT ![rd0] = [a \in Par |-> f[a]]]
<1>1. View' = [rd \in Rds |-> [a \in Par |-> PageView(rd, a)']]
  BY DEF View, Par, Ipas, IpaSize, MapSize
<1>2. QED
  BY <1>1 DEF View

\* A step of one realm's pages.
LEMMA OneStep == \A rd \in Rds : Space!Step(rd) => Space!ANext
BY DEF Space!ANext

\* The host takes the granule of a page back.
LEMMA TakesPage ==
  ASSUME NEW rd0 \in Rds, NEW b \in Par, UNCHANGED <<rdState, setRipas>>,
         PageView(rd0, b).granule # NoGranule,
         PageView(rd0, b)' =
            [ripas |-> IF PageView(rd0, b).ripas = "empty" THEN "empty" ELSE "destroyed",
             granule |-> NoGranule],
         \A rd \in Rds, a \in Par : ~(rd = rd0 /\ a = b) => PageView(rd, a)' = PageView(rd, a)
  PROVE  Space!ANext
<1> DEFINE new == [ripas |-> IF PageView(rd0, b).ripas = "empty" THEN "empty" ELSE "destroyed",
                   granule |-> NoGranule]
           f == [a \in Par |-> IF a \in {b} THEN new ELSE View[rd0][a]]
<1>1. View' = [View EXCEPT ![rd0] = [a \in Par |-> f[a]]]
  <2>1. \A a \in Par : PageView(rd0, a)' = f[a]
    BY DEF View
  <2>2. \A rd \in Rds, a \in Par : rd # rd0 => PageView(rd, a)' = PageView(rd, a)
    OBVIOUS
  <2> HIDE DEF f
  <2>3. QED
    BY <2>1, <2>2, PagesBecome
<1>2. Space!Take(rd0, b)
  BY <1>1 DEF Space!Take, Space!Become, Space!Bare, View
<1>3. QED
  BY <1>2, OneStep DEF Space!Step

\* The host puts a delegated granule behind a bare page.
LEMMA GivesPage ==
  ASSUME Inv, NEW rd0 \in Rds, NEW b \in Par, UNCHANGED <<rdState, setRipas>>,
         PageView(rd0, b).granule = NoGranule,
         NEW g \in Granules, gstate[g] = "DELEGATED",
         NEW ripas, \/ ripas = PageView(rd0, b).ripas
                    \/ ripas = "ram" /\ rdState[rd0] = "NEW",
         PageView(rd0, b)' = [ripas |-> ripas, granule |-> g],
         \A rd \in Rds, a \in Par : ~(rd = rd0 /\ a = b) => PageView(rd, a)' = PageView(rd, a)
  PROVE  Space!ANext
<1> DEFINE new == [ripas |-> ripas, granule |-> g]
           f == [a \in Par |-> IF a \in {b} THEN new ELSE View[rd0][a]]
<1>1. View' = [View EXCEPT ![rd0] = [a \in Par |-> f[a]]]
  <2>1. \A a \in Par : PageView(rd0, a)' = f[a]
    BY DEF View
  <2>2. \A rd \in Rds, a \in Par : rd # rd0 => PageView(rd, a)' = PageView(rd, a)
    OBVIOUS
  <2> HIDE DEF f
  <2>3. QED
    BY <2>1, <2>2, PagesBecome
<1>2. \A rd \in Rds, a \in Par : PageView(rd, a).granule # g
  <2> SUFFICES ASSUME NEW rd \in Rds, NEW a \in Par, PageView(rd, a).granule = g
               PROVE  FALSE
    OBVIOUS
  <2>1. a \in Ipas
    BY DEF Par
  <2>2. HoldsData(Leaf(rd, a))
    BY <2>1, BarePages, NoGranuleAssumption
  <2>3. QED
    BY <2>1, <2>2, GranuleBehind
<1>3. g \in Space!Free
  BY <1>2 DEF Space!Free
<1>4. View[rd0][b] = PageView(rd0, b) /\ PageView(rd0, b) = [ripas |-> PageView(rd0, b).ripas, granule |-> NoGranule]
  BY PageViewOf DEF View, PageOf
<1>5. Space!Give(rd0, b)
  <2>1. CASE ripas = PageView(rd0, b).ripas
    <3>1. [View[rd0][b] EXCEPT !.granule = g] = new
      BY <1>4, <2>1
    <3>2. [a \in Par |-> f[a]] =
            [a \in Par |-> IF a \in {b} THEN [View[rd0][a] EXCEPT !.granule = g] ELSE View[rd0][a]]
      BY <3>1
    <3> HIDE DEF f
    <3>3. QED
      BY <1>1, <1>3, <3>2 DEF Space!Give, Space!Become, Space!Bare, View
  <2>2. CASE ripas = "ram" /\ rdState[rd0] = "NEW"
    <3>1. View' = [View EXCEPT ![rd0] = [a \in Par |->
                     IF a \in {b} THEN [ripas |-> "ram", granule |-> g] ELSE View[rd0][a]]]
      BY <1>1, <2>2
    <3>2. View[rd0][b].granule = NoGranule
      BY <1>4
    <3> HIDE DEF new, f
    <3>3. QED
      BY <1>3, <2>2, <3>1, <3>2 DEF Space!Give, Space!Become, Space!Bare, View
  <2>3. QED
    BY <2>1, <2>2
<1>6. QED
  BY <1>5, OneStep DEF Space!Step

\* A set of one realm's pages gets a RIPAS and keeps its granules ...
RipasChanges(rd0, pages, ripas) ==
    /\ pages \in SUBSET Par
    /\ \A a \in pages : PageView(rd0, a)' = [PageView(rd0, a) EXCEPT !.ripas = ripas]
    /\ \A rd \in Rds, a \in Par :
          ~(rd = rd0 /\ a \in pages) => PageView(rd, a)' = PageView(rd, a)

\* ... and so it is in the view.
ViewChanges(rd0, pages, ripas) ==
    View' = [View EXCEPT ![rd0] =
               [a \in Par |-> IF a \in pages THEN [View[rd0][a] EXCEPT !.ripas = ripas]
                              ELSE View[rd0][a]]]

\* The one gives the other.
LEMMA RipasBecomes ==
  ASSUME NEW rd0 \in Rds, NEW pages, NEW ripas, RipasChanges(rd0, pages, ripas)
  PROVE  ViewChanges(rd0, pages, ripas)
<1> DEFINE f == [a \in Par |-> IF a \in pages THEN [View[rd0][a] EXCEPT !.ripas = ripas]
                               ELSE View[rd0][a]]
<1>1. \A a \in Par : PageView(rd0, a)' = f[a]
  BY DEF View, RipasChanges
<1>2. \A rd \in Rds, a \in Par : rd # rd0 => PageView(rd, a)' = PageView(rd, a)
  BY DEF RipasChanges
<1> HIDE DEF f
<1>3. View' = [View EXCEPT ![rd0] = [a \in Par |-> f[a]]]
  BY <1>1, <1>2, PagesBecome
<1>4. QED
  BY <1>3 DEF f, ViewChanges

\* The host gives up a bare range.
LEMMA DestroysRange ==
  ASSUME NEW rd0 \in Rds, NEW pages \in SUBSET Par, UNCHANGED <<rdState, setRipas>>,
         \A a \in pages :
            /\ PageView(rd0, a).granule = NoGranule
            /\ PageView(rd0, a)' = [PageView(rd0, a) EXCEPT !.ripas = "destroyed"],
         \A rd \in Rds, a \in Par : ~(rd = rd0 /\ a \in pages) => PageView(rd, a)' = PageView(rd, a)
  PROVE  Space!ANext
<1>1. ViewChanges(rd0, pages, "destroyed")
  BY RipasBecomes DEF RipasChanges
<1>2. Space!DestroyRange(rd0, pages)
  BY <1>1 DEF Space!DestroyRange, Space!Become, Space!Bare, View, ViewChanges
<1>3. QED
  BY <1>2, OneStep DEF Space!Step

\* The host declares bare pages of a new realm RAM.
LEMMA InitsRam ==
  ASSUME NEW rd0 \in Rds, NEW pages \in SUBSET Par, UNCHANGED <<rdState, setRipas>>,
         rdState[rd0] = "NEW",
         \A a \in pages :
            /\ PageView(rd0, a).granule = NoGranule
            /\ PageView(rd0, a).ripas # "destroyed"
            /\ PageView(rd0, a)' = [PageView(rd0, a) EXCEPT !.ripas = "ram"],
         \A rd \in Rds, a \in Par : ~(rd = rd0 /\ a \in pages) => PageView(rd, a)' = PageView(rd, a)
  PROVE  Space!ANext
<1>1. ViewChanges(rd0, pages, "ram")
  BY RipasBecomes DEF RipasChanges
<1>2. Space!InitRam(rd0, pages)
  BY <1>1 DEF Space!InitRam, Space!Become, Space!Bare, View, ViewChanges
<1>3. QED
  BY <1>2, OneStep DEF Space!Step

\* The host serves the realm's request up to next.
LEMMA ServesRequest ==
  ASSUME NEW rd0 \in Rds, NEW next, next - 1 \in Par, next \in Nat, UNCHANGED rdState,
         setRipas[rd0].addr < next, next <= setRipas[rd0].top,
         setRipas' = [setRipas EXCEPT ![rd0].addr = next],
         NEW pages \in SUBSET Par,
         \A a \in Par : a \in pages <=> setRipas[rd0].addr <= a /\ a < next,
         \A a \in pages : PageView(rd0, a).ripas = "destroyed" => setRipas[rd0].change,
         ViewChanges(rd0, pages, setRipas[rd0].ripas)
  PROVE  Space!ANext
<1>1. next \in Space!Ends
  <2>1. next = (next - 1) + 1
    OBVIOUS
  <2>2. QED
    BY <2>1 DEF Space!Ends
<1>2. pages = {a \in Par : setRipas[rd0].addr <= a /\ a < next}
  OBVIOUS
<1>3. \A a \in pages : View[rd0][a].ripas = "destroyed" => setRipas[rd0].change
  BY DEF View
<1>4. Space!Serve(rd0, next)
  BY <1>2, <1>3 DEF Space!Serve, Space!Become, View, ViewChanges
<1>5. QED
  BY <1>1, <1>4, OneStep DEF Space!Step

-----------------------------------------------------------------------------
(* What the commands do to pages.                                          *)

\* Rewriting entries of the table for b concerns the pages of these entries.
LEMMA EditedPages ==
  ASSUME Inv, NEW rd0 \in Rds, NEW b \in Ipas, NEW t, NEW l0 \in Levels,
         On(s2tt, rd0, b, t, l0), NEW ks, Edits(t, ks),
         NEW rd \in Rds, NEW a \in Ipas
  PROVE  IF rd = rd0 /\ Region(a, l0) = Region(b, l0) /\ Index(a, l0) \in ks
         THEN /\ Leaf(rd, a) = s2tt[t][Index(a, l0)]
              /\ PageView(rd, a) = PageOf(s2tt[t][Index(a, l0)], l0, a)
              /\ PageView(rd, a)' = PageOf(s2tt'[t][Index(a, l0)], l0, a)
         ELSE PageView(rd, a)' = PageView(rd, a)
<1>1. /\ Walk(rd, a, RTT_PAGE_LEVEL)' = Walk(rd, a, RTT_PAGE_LEVEL)
      /\ IF rd = rd0 /\ Region(a, l0) = Region(b, l0) /\ Index(a, l0) \in ks
         THEN /\ Walk(rd, a, RTT_PAGE_LEVEL) = At(t, l0)
              /\ Leaf(rd, a) = s2tt[t][Index(a, l0)]
              /\ Leaf(rd, a)' = s2tt'[t][Index(a, l0)]
         ELSE Leaf(rd, a)' = Leaf(rd, a)
  BY EditFrame
<1>2. CASE rd = rd0 /\ Region(a, l0) = Region(b, l0) /\ Index(a, l0) \in ks
  <2>1. /\ Walk(rd, a, RTT_PAGE_LEVEL).level = l0
        /\ Walk(rd, a, RTT_PAGE_LEVEL)'.level = l0
    BY <1>1, <1>2 DEF At
  <2>2. QED
    BY <1>1, <1>2, <2>1, PageViewOf
<1>3. CASE ~(rd = rd0 /\ Region(a, l0) = Region(b, l0) /\ Index(a, l0) \in ks)
  BY <1>1, <1>3, SamePage
<1>4. QED
  BY <1>2, <1>3

\* Entry i of table t becomes new.
Writes(t, i, new) == s2tt' = [s2tt EXCEPT ![t] = [@ EXCEPT ![i] = new]]

\* Rewriting the entry for b at the level its walk was sent to.
LEMMA EditedEntry ==
  ASSUME TypeOK, Inv, NEW rd0 \in Rds, NEW b \in Ipas, NEW l0 \in Levels,
         Walk(rd0, b, l0).level = l0,
         NEW t, t = Walk(rd0, b, l0).g,
         NEW old, old = s2tt[t][Index(b, l0)], ~IsTable(old),
         NEW new, ~IsTable(new),
         Writes(t, Index(b, l0), new),
         NEW rd \in Rds, NEW a \in Ipas
  PROVE  IF rd = rd0 /\ Block(a, l0) = Block(b, l0)
         THEN /\ Leaf(rd, a) = old
              /\ PageView(rd, a) = PageOf(old, l0, a)
              /\ PageView(rd, a)' = PageOf(new, l0, a)
         ELSE PageView(rd, a)' = PageView(rd, a)
<1> DEFINE i == Index(b, l0)
           ks == {i}
<1>1. a \in Nat /\ b \in Nat /\ l0 \in 0 .. 3
  BY Ranges, LevelNumbers
<1>2. On(s2tt, rd0, b, t, l0)
  BY WalkReaches
<1>3. t \in Granules /\ i \in Idx
  BY <1>1, <1>2, OnTable
<1>4. s2tt'[t][i] = new
  BY <1>3 DEF TypeOK, Writes
<1>5. Edits(t, ks)
  BY <1>3, <1>4 DEF Edits, TypeOK, Writes
<1> HIDE DEF ks
<1>6. IF rd = rd0 /\ Region(a, l0) = Region(b, l0) /\ Index(a, l0) \in ks
      THEN /\ Leaf(rd, a) = s2tt[t][Index(a, l0)]
           /\ PageView(rd, a) = PageOf(s2tt[t][Index(a, l0)], l0, a)
           /\ PageView(rd, a)' = PageOf(s2tt'[t][Index(a, l0)], l0, a)
      ELSE PageView(rd, a)' = PageView(rd, a)
  BY <1>2, <1>5, EditedPages
<1>7. Block(a, l0) = Block(b, l0) <=> Region(a, l0) = Region(b, l0) /\ Index(a, l0) = i
  <2>1. \A x \in Nat : /\ Region(x, l0) = Block(x, l0) \div S2TTES_PER_S2TT
                        /\ Index(x, l0) = Block(x, l0) % S2TTES_PER_S2TT
                        /\ Block(x, l0) = S2TTES_PER_S2TT * Region(x, l0) + Index(x, l0)
    BY <1>1, BlockParts
  <2>2. QED
    BY <1>1, <2>1
<1> HIDE DEF i
<1>8. QED
  BY <1>4, <1>6, <1>7 DEF ks, i

\* A page is a block of the last level.
LEMMA PageBlocks ==
  \A a, b \in Nat : /\ Block(a, RTT_PAGE_LEVEL) = Block(b, RTT_PAGE_LEVEL) <=> a = b
                    /\ a % MapSize(RTT_PAGE_LEVEL) = 0
<1>1. \A a \in Nat : a \div 1 = a /\ a % 1 = 0
  OBVIOUS
<1>2. QED
  BY <1>1 DEF Block, MapSize, RTT_PAGE_LEVEL

\* Rewriting the entry of a page concerns that page.
LEMMA EditedPage ==
  ASSUME TypeOK, Inv, NEW rd0 \in Rds, NEW b \in Ipas,
         Walk(rd0, b, RTT_PAGE_LEVEL).level = RTT_PAGE_LEVEL,
         NEW t, t = Walk(rd0, b, RTT_PAGE_LEVEL).g,
         NEW old, old = s2tt[t][Index(b, RTT_PAGE_LEVEL)], ~IsTable(old),
         NEW new, ~IsTable(new), new.pa \in Nat,
         Writes(t, Index(b, RTT_PAGE_LEVEL), new)
  PROVE  /\ Leaf(rd0, b) = old
         /\ PageView(rd0, b) = PageOf(old, RTT_PAGE_LEVEL, b)
         /\ PageView(rd0, b)' = [ripas |-> new.ripas,
                                 granule |-> IF HoldsData(new) THEN new.pa ELSE NoGranule]
         /\ \A rd \in Rds, a \in Ipas :
               ~(rd = rd0 /\ a = b) => PageView(rd, a)' = PageView(rd, a)
<1>1. RTT_PAGE_LEVEL \in Levels /\ b \in Nat /\ \A a \in Ipas : a \in Nat
  BY PageAligned, Ranges
<1>2. \A rd \in Rds, a \in Ipas :
        IF rd = rd0 /\ a = b
        THEN /\ Leaf(rd, a) = old
             /\ PageView(rd, a) = PageOf(old, RTT_PAGE_LEVEL, a)
             /\ PageView(rd, a)' = PageOf(new, RTT_PAGE_LEVEL, a)
        ELSE PageView(rd, a)' = PageView(rd, a)
  <2> TAKE rd \in Rds, a \in Ipas
  <2>1. IF rd = rd0 /\ Block(a, RTT_PAGE_LEVEL) = Block(b, RTT_PAGE_LEVEL)
        THEN /\ Leaf(rd, a) = old
             /\ PageView(rd, a) = PageOf(old, RTT_PAGE_LEVEL, a)
             /\ PageView(rd, a)' = PageOf(new, RTT_PAGE_LEVEL, a)
        ELSE PageView(rd, a)' = PageView(rd, a)
    BY <1>1, EditedEntry
  <2>2. QED
    BY <1>1, <2>1, PageBlocks
<1>3. b % MapSize(RTT_PAGE_LEVEL) = 0
  BY <1>1, PageBlocks
<1>4. PageOf(new, RTT_PAGE_LEVEL, b) = [ripas |-> new.ripas,
                                       granule |-> IF HoldsData(new) THEN new.pa ELSE NoGranule]
  BY <1>3 DEF PageOf
<1>5. QED
  BY <1>2, <1>4

\* smc_rtt_create: each entry of the new table stands for its part of what the old
\* entry stood for.
LEMMA RttCreateHides ==
  ASSUME TypeOK, Inv, NEW rd0 \in Rds, NEW g \in Granules,
         NEW addr \in Ipas, NEW level \in Levels, RttCreate(rd0, g, addr, level)
  PROVE  Space!ANext
<1> DEFINE l0 == level - 1
           t == Walk(rd0, addr, l0).g
           i == Index(addr, l0)
           e == s2tt[t][i]
<1>1. /\ gstate[g] = "DELEGATED" /\ ValidStructureCmd(addr, level)
      /\ Walk(rd0, addr, l0).level = l0 /\ ~IsTable(e)
      /\ s2tt' = [s2tt EXCEPT ![g] = UnfoldEntry(e, level),
                              ![t] = [@ EXCEPT ![i] = TableEntry(g)]]
      /\ UNCHANGED <<rdState, setRipas>>
  BY DEF RttCreate, RttCreateAt
<1>2. /\ l0 \in Levels /\ l0 + 1 \in Levels /\ On(s2tt, rd0, addr, t, l0) /\ l0 \in 0 .. 2
      /\ t \in Rtts /\ t \in Granules /\ i \in Idx /\ level = l0 + 1 /\ e \in Entry
  BY <1>1, StructureEntry, ZenonT(30)
<1>3. g \in Granules \ Rtts /\ g # t
  BY <1>1, <1>2 DEF Rtts
<1> HIDE DEF t, i
<1>4. s2tt'[t][i] = TableEntry(g) /\ s2tt'[g] = UnfoldEntry(e, level)
  BY <1>1, <1>2, <1>3 DEF TypeOK
<1>5. OthersKept(t, i, g)
  BY <1>1, <1>2, <1>3 DEF TypeOK, OthersKept
<1>6. i = Index(addr, l0) /\ e = s2tt[t][Index(addr, l0)] /\ ~IsTable(e)
  BY <1>1 DEF i
<1> HIDE DEF e, l0
<1>7. \A k \in Idx : s2tt'[g][k] = IF HasOutput(e)
                                 THEN MkEntry(e.hipas, e.ripas, e.pa + k * MapSize(level))
                                 ELSE e
  BY <1>4 DEF UnfoldEntry
<1>8. \A k \in Idx : ~IsTable(s2tt'[g][k])
  <2>1. \A k \in Idx : s2tt'[g][k].hipas = e.hipas
    BY <1>4 DEF UnfoldEntry, MkEntry
  <2>2. QED
    BY <1>6, <2>1 DEF IsTable
<1>9. ASSUME NEW rd \in Rds, NEW a \in Par
      PROVE  PageView(rd, a)' = PageView(rd, a)
  <2>1. a \in Ipas /\ a \in Nat
    BY Ranges DEF Par
  <2>2. IF rd = rd0 /\ Block(a, l0) = Block(addr, l0)
        THEN /\ Walk(rd, a, RTT_PAGE_LEVEL) = At(t, l0)
             /\ Leaf(rd, a) = s2tt[t][Index(addr, l0)]
             /\ Walk(rd, a, RTT_PAGE_LEVEL)' = At(g, l0 + 1)
             /\ Leaf(rd, a)' = s2tt'[g][Index(a, l0 + 1)]
        ELSE /\ Walk(rd, a, RTT_PAGE_LEVEL)' = Walk(rd, a, RTT_PAGE_LEVEL)
             /\ Leaf(rd, a)' = Leaf(rd, a)
    <3>1. /\ ~IsTable(s2tt[t][Index(addr, l0)]) /\ s2tt'[t][Index(addr, l0)] = TableEntry(g)
          /\ OthersKept(t, Index(addr, l0), g)
      BY <1>4, <1>5, <1>6
    <3>2. /\ l0 \in Levels /\ l0 + 1 \in Levels /\ On(s2tt, rd0, addr, t, l0)
          /\ g \in Granules \ Rtts
      BY <1>2, <1>3
    <3>3. QED
      BY <1>8, <2>1, <3>1, <3>2, CreateFrame
  <2>3. CASE ~(rd = rd0 /\ Block(a, l0) = Block(addr, l0))
    BY <2>2, <2>3, SamePage
  <2>4. CASE rd = rd0 /\ Block(a, l0) = Block(addr, l0)
    <3> DEFINE k == Index(a, level)
               new == s2tt'[g][k]
    <3>1. k \in Idx /\ k \in Nat
      BY <1>2, <2>1, LevelNumbers, IndexInTable, IdxNat
    <3>2. /\ PageView(rd, a) = PageOf(e, l0, a)
          /\ PageView(rd, a)' = PageOf(new, level, a)
      BY <1>2, <1>6, <2>2, <2>4, PageViewOf DEF At
    <3>3. new = IF HasOutput(e) THEN MkEntry(e.hipas, e.ripas, e.pa + k * MapSize(level)) ELSE e
      BY <1>7, <3>1
    <3> HIDE DEF new, k
    <3>4. new.ripas = e.ripas /\ (HoldsData(new) <=> HoldsData(e))
      BY <3>3 DEF MkEntry, HoldsData
    <3>5. ASSUME HoldsData(e)
          PROVE  new.pa + (a % MapSize(level)) = e.pa + (a % MapSize(l0))
      <4>1. new.pa = e.pa + k * MapSize(level)
        BY <3>3, <3>5 DEF HasOutput, HoldsData, MkEntry
      <4>2. a % MapSize(l0) = k * MapSize(level) + (a % MapSize(level))
        BY <1>2, <2>1, OffsetSplit DEF k
      <4>3. e.pa \in Nat /\ MapSize(level) \in Nat \ {0} /\ level \in 0 .. 3
        BY <1>2, MapSizePositive DEF Entry
      <4>4. k * MapSize(level) \in Nat /\ a % MapSize(level) \in Nat
        <5>1. \A n \in Nat \ {0} : a % n \in Nat
          BY <2>1, DivMod
        <5>2. QED
          BY <3>1, <4>3, <5>1
      <4>5. QED
        BY <4>1, <4>2, <4>3, <4>4
    <3>6. QED
      BY <3>2, <3>4, <3>5 DEF PageOf
  <2>5. QED
    BY <2>3, <2>4
<1>10. QED
  BY <1>1, <1>9, NoPageChanges

\* smc_rtt_fold: the folded entry stands for what the entries of the table stood for.
LEMMA RttFoldHides ==
  ASSUME TypeOK, Inv, NEW rd0 \in Rds,
         NEW addr \in Ipas, NEW level \in Levels, RttFold(rd0, addr, level)
  PROVE  Space!ANext
<1> DEFINE l0 == level - 1
           t == Walk(rd0, addr, l0).g
           i == Index(addr, l0)
           c == s2tt[t][i].pa
           new == FoldedEntry(s2tt[c])
<1>1. /\ ValidStructureCmd(addr, level)
      /\ Walk(rd0, addr, l0).level = l0 /\ IsTable(s2tt[t][i])
      /\ Foldable(s2tt[c], refcount[c], level)
      /\ s2tt' = [s2tt EXCEPT ![t] = [@ EXCEPT ![i] = new], ![c] = ZeroTable]
      /\ UNCHANGED <<rdState, setRipas>>
  BY DEF RttFold, RttFoldAt
<1>2. /\ l0 \in Levels /\ l0 + 1 \in Levels /\ On(s2tt, rd0, addr, t, l0) /\ l0 \in 0 .. 2
      /\ t \in Rtts /\ t \in Granules /\ i \in Idx /\ level = l0 + 1
  BY <1>1, StructureEntry, ZenonT(30)
<1>3. c \in Granules /\ c # t
  BY <1>1, <1>2, ChildOwned
<1>4. Homogeneous(s2tt[c]) /\ ~IsTable(s2tt[c][0]) /\ 0 \in Idx
  <2>1. Homogeneous(s2tt[c]) /\ s2tt[c][0].hipas \in Hipas \ {"table"}
    BY <1>1 DEF Foldable, IsUnassigned, HoldsData, Hipas
  <2>2. 0 \in Idx
    BY ConstantsAssumption DEF Idx
  <2>3. QED
    BY <2>1, <2>2 DEF IsTable
<1>5. \A k \in Idx : s2tt[c][k].hipas = new.hipas /\ s2tt[c][k].ripas = new.ripas
  BY <1>4 DEF Homogeneous, FoldedEntry, MkEntry
<1>6. HoldsData(new) => \A k \in Idx : s2tt[c][k].pa = new.pa + k * MapSize(level)
  BY <1>1 DEF Foldable, FoldedEntry, MkEntry, HoldsData, IsUnassigned, MapsBlock
<1>7. \A k \in Idx : ~IsTable(s2tt[c][k]) /\ (HoldsData(s2tt[c][k]) <=> HoldsData(new))
  BY <1>4, <1>5 DEF IsTable, HoldsData
<1>8. ~IsTable(new) /\ new.pa \in Nat
  <2>1. ~IsTable(new)
    BY <1>4, <1>5, <1>7 DEF IsTable
  <2>2. new.pa \in Nat
    BY <1>3, <1>4 DEF FoldedEntry, MkEntry, TypeOK, Entry
  <2>3. QED
    BY <2>1, <2>2
<1> HIDE DEF t, i, c, new, l0
<1>9. s2tt'[t][i] = new
  BY <1>1, <1>2, <1>3 DEF TypeOK
<1>10. OthersKept(t, i, c)
  BY <1>1, <1>2, <1>3 DEF TypeOK, OthersKept
<1>11. c = s2tt[t][Index(addr, l0)].pa /\ i = Index(addr, l0) /\ IsTable(s2tt[t][Index(addr, l0)])
  BY <1>1 DEF i, c
<1>12. ASSUME NEW rd \in Rds, NEW a \in Par
       PROVE  PageView(rd, a)' = PageView(rd, a)
  <2>1. a \in Ipas /\ a \in Nat
    BY Ranges DEF Par
  <2>2. IF rd = rd0 /\ Block(a, l0) = Block(addr, l0)
        THEN /\ Walk(rd, a, RTT_PAGE_LEVEL) = At(c, l0 + 1)
             /\ Leaf(rd, a) = s2tt[c][Index(a, l0 + 1)]
             /\ Walk(rd, a, RTT_PAGE_LEVEL)' = At(t, l0)
             /\ Leaf(rd, a)' = s2tt'[t][Index(addr, l0)]
        ELSE /\ Walk(rd, a, RTT_PAGE_LEVEL)' = Walk(rd, a, RTT_PAGE_LEVEL)
             /\ Leaf(rd, a)' = Leaf(rd, a)
    BY <1>2, <1>7, <1>8, <1>9, <1>10, <1>11, <2>1, RemoveFrame
  <2>3. CASE ~(rd = rd0 /\ Block(a, l0) = Block(addr, l0))
    BY <2>2, <2>3, SamePage
  <2>4. CASE rd = rd0 /\ Block(a, l0) = Block(addr, l0)
    <3> DEFINE k == Index(a, level)
               old == s2tt[c][k]
    <3>1. k \in Idx /\ k \in Nat
      BY <1>2, <2>1, LevelNumbers, IndexInTable, IdxNat
    <3>2. /\ PageView(rd, a) = PageOf(old, level, a)
          /\ PageView(rd, a)' = PageOf(new, l0, a)
      BY <1>2, <1>9, <1>11, <2>2, <2>4, PageViewOf DEF At
    <3>3. old.ripas = new.ripas /\ (HoldsData(old) <=> HoldsData(new))
      BY <1>5, <1>7, <3>1
    <3>4. HoldsData(new) => old.pa = new.pa + k * MapSize(level)
      BY <1>6, <3>1
    <3> HIDE DEF old, k
    <3>5. ASSUME HoldsData(new)
          PROVE  old.pa + (a % MapSize(level)) = new.pa + (a % MapSize(l0))
      <4>1. a % MapSize(l0) = k * MapSize(level) + (a % MapSize(level))
        BY <1>2, <2>1, OffsetSplit DEF k
      <4>2. MapSize(level) \in Nat \ {0}
        BY <1>2, MapSizePositive
      <4>3. k * MapSize(level) \in Nat /\ a % MapSize(level) \in Nat
        <5>1. \A n \in Nat \ {0} : a % n \in Nat
          BY <2>1, DivMod
        <5>2. QED
          BY <3>1, <4>2, <5>1
      <4>4. QED
        BY <1>8, <3>4, <3>5, <4>1, <4>3
    <3>6. QED
      BY <3>2, <3>3, <3>5 DEF PageOf
  <2>5. QED
    BY <2>3, <2>4
<1>13. QED
  BY <1>1, <1>12, NoPageChanges

\* smc_rtt_destroy: a table without data and tables below it leaves a bare range, which
\* is destroyed when it is protected.
LEMMA RttDestroyShows ==
  ASSUME TypeOK, Inv, NEW rd0 \in Rds,
         NEW addr \in Ipas, NEW level \in Levels, RttDestroy(rd0, addr, level)
  PROVE  Space!ANext
<1> DEFINE l0 == level - 1
           t == Walk(rd0, addr, l0).g
           i == Index(addr, l0)
           c == s2tt[t][i].pa
           new == IF addr \in Par THEN Unassigned("destroyed") ELSE UnassignedNs
           pages == {a \in Par : Block(a, l0) = Block(addr, l0)}
<1>1. /\ ValidStructureCmd(addr, level)
      /\ Walk(rd0, addr, l0).level = l0 /\ IsTable(s2tt[t][i])
      /\ refcount[c] = 0
      /\ s2tt' = [s2tt EXCEPT ![t] = [@ EXCEPT ![i] = new], ![c] = ZeroTable]
      /\ UNCHANGED <<rdState, setRipas>>
  BY DEF RttDestroy, RttDestroyAt, Destroyable
<1>2. /\ l0 \in Levels /\ l0 + 1 \in Levels /\ On(s2tt, rd0, addr, t, l0) /\ l0 \in 0 .. 2
      /\ t \in Rtts /\ t \in Granules /\ i \in Idx
  BY <1>1, StructureEntry, ZenonT(30)
<1>3. c \in Granules /\ c # t /\ gstate[c] = "RTT"
  BY <1>1, <1>2, ChildOwned
<1>4. \A k \in Idx : ~IsLive(s2tt[c][k])
  <2>1. Cardinality(LiveIn(c)) = 0
    BY <1>1, <1>3 DEF Inv, RefcountCountsLive
  <2>2. LiveIn(c) = {}
    BY <1>3, <2>1, LiveInFinite, FS_EmptySet
  <2>3. QED
    BY <2>2 DEF LiveIn
<1>5. \A k \in Idx : ~IsTable(s2tt[c][k]) /\ ~HoldsData(s2tt[c][k])
  BY <1>4 DEF IsLive
<1>6. ~IsTable(new) /\ ~HoldsData(new) /\ (addr \in Par => new.ripas = "destroyed")
  BY DEF IsTable, HoldsData, Unassigned, UnassignedNs, MkEntry
<1> HIDE DEF t, i, c, new, l0
<1>7. s2tt'[t][i] = new
  BY <1>1, <1>2, <1>3 DEF TypeOK
<1>8. OthersKept(t, i, c)
  BY <1>1, <1>2, <1>3 DEF TypeOK, OthersKept
<1>9. c = s2tt[t][Index(addr, l0)].pa /\ i = Index(addr, l0) /\ IsTable(s2tt[t][Index(addr, l0)])
  BY <1>1 DEF i, c
<1>10. ASSUME NEW rd \in Rds, NEW a \in Par
       PROVE  IF rd = rd0 /\ a \in pages
              THEN /\ PageView(rd, a).granule = NoGranule
                   /\ PageView(rd, a)' = [PageView(rd, a) EXCEPT !.ripas = "destroyed"]
              ELSE PageView(rd, a)' = PageView(rd, a)
  <2>1. a \in Ipas /\ a \in Nat
    BY Ranges DEF Par
  <2>2. IF rd = rd0 /\ Block(a, l0) = Block(addr, l0)
        THEN /\ Walk(rd, a, RTT_PAGE_LEVEL) = At(c, l0 + 1)
             /\ Leaf(rd, a) = s2tt[c][Index(a, l0 + 1)]
             /\ Walk(rd, a, RTT_PAGE_LEVEL)' = At(t, l0)
             /\ Leaf(rd, a)' = s2tt'[t][Index(addr, l0)]
        ELSE /\ Walk(rd, a, RTT_PAGE_LEVEL)' = Walk(rd, a, RTT_PAGE_LEVEL)
             /\ Leaf(rd, a)' = Leaf(rd, a)
    <3>1. ~IsTable(s2tt'[t][Index(addr, l0)]) /\ OthersKept(t, Index(addr, l0), c)
      BY <1>6, <1>7, <1>8, <1>9
    <3>2. QED
      BY <1>2, <1>5, <1>9, <2>1, <3>1, RemoveFrame
  <2>3. CASE ~(rd = rd0 /\ a \in pages)
    BY <2>2, <2>3, SamePage
  <2>4. CASE rd = rd0 /\ a \in pages
    <3>1. addr \in Par
      BY <1>2, <2>1, <2>4, ParIsWholeBlocks
    <3>2. Index(a, l0 + 1) \in Idx
      BY <1>2, <2>1, LevelNumbers, IndexInTable
    <3>3. PageView(rd, a) = [ripas |-> Leaf(rd, a).ripas, granule |-> NoGranule]
      BY <1>5, <2>2, <2>4, <3>2, PageViewOf DEF PageOf
    <3>4. PageView(rd, a)' = [ripas |-> "destroyed", granule |-> NoGranule]
      BY <1>6, <1>7, <1>9, <2>2, <2>4, <3>1, PageViewOf DEF PageOf
    <3>5. QED
      BY <2>4, <3>3, <3>4
  <2>5. QED
    BY <2>3, <2>4
<1>11. pages \in SUBSET Par
  OBVIOUS
<1> HIDE DEF pages
<1>12. QED
  BY <1>1, <1>10, <1>11, DestroysRange

\* map_unmap_ns works outside the protected range.
LEMMA UnprotectedHides ==
  ASSUME TypeOK, Inv, NEW rd0 \in Rds, NEW addr \in Ipas, NEW level \in Levels,
         \/ \E pa \in HostPas : RttMapUnprotected(rd0, addr, level, pa)
         \/ RttUnmapUnprotected(rd0, addr, level)
  PROVE  Space!ANext
<1> DEFINE t == Walk(rd0, addr, level).g
           i == Index(addr, level)
           old == s2tt[t][i]
<1>1. addr \notin Par /\ Walk(rd0, addr, level).level = level
  BY DEF RttMapUnprotected, RttUnmapUnprotected, RttMapUnprotectedAt, RttUnmapUnprotectedAt
<1>2. PICK new :
        /\ Writes(t, i, new)
        /\ new.hipas \in {"assigned_ns", "unassigned_ns"}
        /\ old.hipas \in {"assigned_ns", "unassigned_ns"}
        /\ UNCHANGED <<rdState, setRipas>>
  <2>1. CASE \E pa \in HostPas : RttMapUnprotected(rd0, addr, level, pa)
    <3>1. PICK pa \in HostPas : RttMapUnprotected(rd0, addr, level, pa)
      BY <2>1
    <3>2. WITNESS AssignedNs(pa)
    <3>3. QED
      BY <3>1 DEF RttMapUnprotected, RttMapUnprotectedAt, AssignedNs, MkEntry, Writes
  <2>2. CASE RttUnmapUnprotected(rd0, addr, level)
    <3>1. WITNESS UnassignedNs
    <3>2. QED
      BY <2>2 DEF RttUnmapUnprotected, RttUnmapUnprotectedAt, UnassignedNs, MkEntry, Writes
  <2>3. QED
    BY <2>1, <2>2
<1>3. ~IsTable(old) /\ ~IsTable(new)
  BY <1>2 DEF IsTable
<1> HIDE DEF old
<1>4. ASSUME NEW rd \in Rds, NEW a \in Par
      PROVE  PageView(rd, a)' = PageView(rd, a)
  <2>1. a \in Ipas
    BY DEF Par
  <2>2. ~(rd = rd0 /\ Block(a, level) = Block(addr, level))
    BY <1>1, <2>1, ParIsWholeBlocks
  <2>3. IF rd = rd0 /\ Block(a, level) = Block(addr, level)
        THEN /\ Leaf(rd, a) = old
             /\ PageView(rd, a) = PageOf(old, level, a)
             /\ PageView(rd, a)' = PageOf(new, level, a)
        ELSE PageView(rd, a)' = PageView(rd, a)
    BY <1>1, <1>2, <1>3, <2>1, EditedEntry DEF old
  <2>4. QED
    BY <2>2, <2>3
<1>5. QED
  BY <1>2, <1>4, NoPageChanges

\* data_create puts the granule behind a bare page.
LEMMA DataCreateGives ==
  ASSUME TypeOK, Inv, NEW rd0 \in Rds, NEW g \in Granules, NEW addr \in Ipas,
         DataCreate(rd0, g, addr) \/ DataCreateUnknown(rd0, g, addr)
  PROVE  Space!ANext
<1> DEFINE t == Walk(rd0, addr, RTT_PAGE_LEVEL).g
           i == Index(addr, RTT_PAGE_LEVEL)
           old == s2tt[t][i]
<1>1. /\ addr \in Par /\ Walk(rd0, addr, RTT_PAGE_LEVEL).level = RTT_PAGE_LEVEL
      /\ IsUnassigned(old) /\ UNCHANGED <<rdState, setRipas>> /\ gstate[g] = "DELEGATED"
  BY DEF DataCreate, DataCreateUnknown, DataCreateAt, DataCreateUnknownAt, MapData, DataGranule
<1>2. PICK ripas :
        /\ Writes(t, i, Assigned(ripas, g))
        /\ ripas = old.ripas \/ (ripas = "ram" /\ rdState[rd0] = "NEW")
  <2>1. CASE DataCreate(rd0, g, addr)
    BY <2>1 DEF DataCreate, DataCreateAt, MapData, Writes
  <2>2. CASE DataCreateUnknown(rd0, g, addr)
    BY <1>1, <2>2 DEF DataCreateUnknown, DataCreateUnknownAt, MapData, EntryAt, Writes
  <2>3. QED
    BY <2>1, <2>2
<1> DEFINE new == Assigned(ripas, g)
<1>3. ~IsTable(old) /\ ~HoldsData(old) /\ ~IsTable(new) /\ HoldsData(new)
      /\ new.pa = g /\ new.ripas = ripas
  BY <1>1 DEF IsUnassigned, IsTable, HoldsData, Assigned, MkEntry
<1>4. g \in Nat
  BY ConstantsAssumption
<1> HIDE DEF t, old, new
<1>5. /\ Leaf(rd0, addr) = old
      /\ PageView(rd0, addr) = PageOf(old, RTT_PAGE_LEVEL, addr)
      /\ PageView(rd0, addr)' = [ripas |-> new.ripas,
                                 granule |-> IF HoldsData(new) THEN new.pa ELSE NoGranule]
      /\ \A rd \in Rds, a \in Ipas :
            ~(rd = rd0 /\ a = addr) => PageView(rd, a)' = PageView(rd, a)
  <2>1. Writes(t, i, new)
    BY <1>2 DEF new
  <2>2. QED
    BY <1>1, <1>3, <1>4, <2>1, EditedPage DEF t, old
<1>6. PageView(rd0, addr).granule = NoGranule /\ PageView(rd0, addr).ripas = old.ripas
  BY <1>3, <1>5 DEF PageOf
<1>7. PageView(rd0, addr)' = [ripas |-> ripas, granule |-> g]
  BY <1>3, <1>5
<1>8. \A rd \in Rds, a \in Par : ~(rd = rd0 /\ a = addr) => PageView(rd, a)' = PageView(rd, a)
  BY <1>5 DEF Par
<1>9. QED
  BY <1>1, <1>2, <1>6, <1>7, <1>8, GivesPage

\* smc_data_destroy takes it back, and RAM is destroyed.
LEMMA DataDestroyTakes ==
  ASSUME TypeOK, Inv, NEW rd0 \in Rds, NEW addr \in Ipas, DataDestroy(rd0, addr)
  PROVE  Space!ANext
<1> DEFINE t == Walk(rd0, addr, RTT_PAGE_LEVEL).g
           i == Index(addr, RTT_PAGE_LEVEL)
           old == s2tt[t][i]
           new == Unassigned(RipasAfterDestroy(old))
<1>1. /\ addr \in Par /\ Walk(rd0, addr, RTT_PAGE_LEVEL).level = RTT_PAGE_LEVEL
      /\ HoldsData(old) /\ UNCHANGED <<rdState, setRipas>> /\ Writes(t, i, new)
  BY DEF DataDestroy, UnmapData, Writes
<1>2. /\ ~IsTable(old) /\ ~IsTable(new) /\ ~HoldsData(new) /\ new.pa \in Nat
      /\ new.ripas = IF old.ripas = "empty" THEN "empty" ELSE "destroyed"
  BY <1>1 DEF IsTable, HoldsData, Unassigned, MkEntry, RipasAfterDestroy
<1> HIDE DEF t, old, new
<1>3. /\ Leaf(rd0, addr) = old
      /\ PageView(rd0, addr) = PageOf(old, RTT_PAGE_LEVEL, addr)
      /\ PageView(rd0, addr)' = [ripas |-> new.ripas,
                                 granule |-> IF HoldsData(new) THEN new.pa ELSE NoGranule]
      /\ \A rd \in Rds, a \in Ipas :
            ~(rd = rd0 /\ a = addr) => PageView(rd, a)' = PageView(rd, a)
  BY <1>1, <1>2, EditedPage DEF t, old
<1>4. PageView(rd0, addr).granule # NoGranule
  BY <1>1, <1>3, BarePages
<1>5. PageView(rd0, addr).ripas = old.ripas
  BY <1>3 DEF PageOf
<1>6. PageView(rd0, addr)' =
        [ripas |-> IF PageView(rd0, addr).ripas = "empty" THEN "empty" ELSE "destroyed",
         granule |-> NoGranule]
  BY <1>2, <1>3, <1>5
<1>7. \A rd \in Rds, a \in Par : ~(rd = rd0 /\ a = addr) => PageView(rd, a)' = PageView(rd, a)
  BY <1>3 DEF Par
<1>8. QED
  BY <1>1, <1>4, <1>6, <1>7, TakesPage

\* RMI_IPA_BLOCK and RMI_IPA_UNBLOCK change permissions only.
LEMMA SetBlockedHides ==
  ASSUME TypeOK, Inv, NEW rd0 \in Rds, NEW addr \in Ipas, NEW blocked,
         SetBlocked(rd0, addr, blocked)
  PROVE  Space!ANext
<1> DEFINE t == Walk(rd0, addr, RTT_PAGE_LEVEL).g
           i == Index(addr, RTT_PAGE_LEVEL)
           old == s2tt[t][i]
           new == [old EXCEPT !.blocked = blocked]
<1>1. /\ Walk(rd0, addr, RTT_PAGE_LEVEL).level = RTT_PAGE_LEVEL
      /\ IsAssignedRam(old) /\ UNCHANGED <<rdState, setRipas>> /\ Writes(t, i, new)
  BY DEF SetBlocked, SetBlockedAt, Writes
<1>2. addr \in Nat /\ t \in Granules /\ i \in Idx
  <2>1. addr \in Nat /\ RTT_PAGE_LEVEL \in Levels
    BY Ranges, PageAligned
  <2>2. On(s2tt, rd0, addr, t, RTT_PAGE_LEVEL)
    BY <1>1, <2>1, WalkReaches
  <2>3. QED
    BY <2>1, <2>2, OnTable
<1>3. old \in Entry
  BY <1>2 DEF TypeOK
<1>4. /\ HoldsData(old) /\ ~IsTable(old) /\ HoldsData(new) /\ ~IsTable(new)
      /\ new.pa = old.pa /\ new.ripas = old.ripas /\ old.pa \in Nat
  BY <1>1, <1>3 DEF IsAssignedRam, HoldsData, IsTable, Entry
<1> HIDE DEF t, old, new
<1>5. /\ PageView(rd0, addr) = PageOf(old, RTT_PAGE_LEVEL, addr)
      /\ PageView(rd0, addr)' = [ripas |-> new.ripas,
                                 granule |-> IF HoldsData(new) THEN new.pa ELSE NoGranule]
      /\ \A rd \in Rds, a \in Ipas :
            ~(rd = rd0 /\ a = addr) => PageView(rd, a)' = PageView(rd, a)
  BY <1>1, <1>4, EditedPage DEF t, old
<1>6. PageView(rd0, addr) = [ripas |-> old.ripas, granule |-> old.pa]
  <2>1. addr % MapSize(RTT_PAGE_LEVEL) = 0
    BY <1>2, PageBlocks
  <2>2. QED
    BY <1>4, <1>5, <2>1 DEF PageOf
<1>7. \A rd \in Rds, a \in Par : PageView(rd, a)' = PageView(rd, a)
  BY <1>4, <1>5, <1>6 DEF Par
<1>8. QED
  BY <1>1, <1>7, NoPageChanges

\* smc_rtt_init_ripas makes bare pages of a new realm RAM.
LEMMA InitRipasShows ==
  ASSUME TypeOK, Inv, TlbInv, NEW rd0 \in Rds, NEW base \in Ipas, NEW top \in Nat,
         RttInitRipas(rd0, base, top)
  PROVE  Space!ANext
<1> DEFINE w == Walk(rd0, base, RTT_PAGE_LEVEL)
           t == w.g
           l == w.level
           Initial(e) == e.hipas = "unassigned" /\ e.ripas \in {"empty", "ram"}
           ks == Run(w, base, top, Initial)
<1>1. /\ s2tt' = [s2tt EXCEPT ![t] = [k \in Idx |-> IF k \in ks THEN Unassigned("ram") ELSE @[k]]]
      /\ UNCHANGED <<rdState, setRipas>> /\ rdState[rd0] = "NEW"
  BY DEF RttInitRipas, RttInitRipasAt
<1>2. /\ l \in Levels /\ t \in Granules /\ On(s2tt, rd0, base, t, l)
  BY DeepestTable
<1>3. ks \in SUBSET Idx /\ \A k \in ks : s2tt[t][k].hipas = "unassigned" /\ s2tt[t][k].ripas # "destroyed"
  BY IdxNat DEF Run
<1> HIDE DEF ks, w
<1>4. /\ \A h \in Granules, k \in Idx : ~(h = t /\ k \in ks) => s2tt'[h][k] = s2tt[h][k]
      /\ \A k \in ks : s2tt'[t][k] = Unassigned("ram")
  BY <1>1, <1>2, <1>3 DEF TypeOK
<1>5. Edits(t, ks)
  BY <1>3, <1>4 DEF Edits, IsTable, Unassigned, MkEntry
<1> DEFINE pages == {a \in Par : Region(a, l) = Region(base, l) /\ Index(a, l) \in ks}
<1>6. ASSUME NEW rd \in Rds, NEW a \in Par
      PROVE  IF rd = rd0 /\ a \in pages
             THEN /\ PageView(rd, a).granule = NoGranule
                  /\ PageView(rd, a).ripas # "destroyed"
                  /\ PageView(rd, a)' = [PageView(rd, a) EXCEPT !.ripas = "ram"]
             ELSE PageView(rd, a)' = PageView(rd, a)
  <2>1. a \in Ipas
    BY DEF Par
  <2>2. IF rd = rd0 /\ Region(a, l) = Region(base, l) /\ Index(a, l) \in ks
        THEN /\ Leaf(rd, a) = s2tt[t][Index(a, l)]
             /\ PageView(rd, a) = PageOf(s2tt[t][Index(a, l)], l, a)
             /\ PageView(rd, a)' = PageOf(s2tt'[t][Index(a, l)], l, a)
        ELSE PageView(rd, a)' = PageView(rd, a)
    BY <1>2, <1>5, <2>1, EditedPages
  <2>3. CASE rd = rd0 /\ a \in pages
    <3> DEFINE k == Index(a, l)
               old == s2tt[t][k]
    <3>1. k \in ks
      BY <2>3
    <3>2. PageView(rd, a) = [ripas |-> old.ripas, granule |-> NoGranule] /\ old.ripas # "destroyed"
      BY <1>3, <2>2, <2>3 DEF PageOf, HoldsData
    <3>3. PageView(rd, a)' = PageOf(Unassigned("ram"), l, a)
      BY <1>4, <2>2, <2>3
    <3>4. PageView(rd, a)' = [ripas |-> "ram", granule |-> NoGranule]
      BY <3>3 DEF PageOf, Unassigned, MkEntry, HoldsData
    <3> HIDE DEF k, old
    <3>5. QED
      BY <2>3, <3>2, <3>4
  <2>4. QED
    BY <2>2, <2>3
<1>7. pages \in SUBSET Par
  OBVIOUS
<1> HIDE DEF pages
<1>8. QED
  BY <1>1, <1>6, <1>7, InitsRam

-----------------------------------------------------------------------------
(* RTT_SET_RIPAS serves the request from its start, without a gap.         *)

\* The entries a run takes are consecutive, so their number says where they end.
LEMMA RunIsInterval ==
  ASSUME NEW ks \in SUBSET Idx, NEW i \in Idx, ks # {},
         \A k \in ks : k >= i /\ \A j \in i .. k : j \in ks
  PROVE  /\ Cardinality(ks) \in Nat \ {0}
         /\ ks = i .. i + Cardinality(ks) - 1
         /\ i + Cardinality(ks) - 1 \in ks
<1>1. IsFiniteSet(ks) /\ Cardinality(ks) \in Nat
  <2>1. IsFiniteSet(Idx)
    BY FS_Interval, ConstantsAssumption DEF Idx
  <2>2. QED
    BY <2>1, FS_Subset, FS_CardinalityType
<1> DEFINE n == Cardinality(ks)
<1>2. n # 0
  BY <1>1, FS_EmptySet
<1>3. i \in Nat /\ \A k \in Idx : k \in Nat
  BY IdxNat
<1> HIDE DEF n
<1>4. n \in Nat \ {0}
  BY <1>1, <1>2 DEF n
<1>5. i + n \notin ks
  <2>1. SUFFICES ASSUME i + n \in ks PROVE FALSE
    OBVIOUS
  <2>2. (i .. i + n) \subseteq ks
    BY <2>1
  <2>3. Cardinality(i .. i + n) <= Cardinality(ks)
    BY <1>1, <2>2, FS_Subset
  <2>4. i \in Int /\ i + n \in Int /\ i <= i + n
    BY <1>3, <1>4
  <2>5. Cardinality(i .. i + n) = (i + n) - i + 1
    BY <2>4, FS_Interval
  <2>6. QED
    BY <1>3, <1>4, <2>3, <2>5 DEF n
<1>6. ks \subseteq i .. i + n - 1
  <2> SUFFICES ASSUME NEW k \in ks PROVE k \in i .. i + n - 1
    OBVIOUS
  <2>1. k \in Nat /\ k >= i
    BY <1>3
  <2>2. k < i + n
    <3>1. SUFFICES ASSUME k >= i + n PROVE FALSE
      BY <1>3, <1>4, <2>1
    <3>2. i + n \in i .. k
      BY <1>3, <1>4, <2>1, <3>1
    <3>3. QED
      BY <1>5, <3>2
  <2>3. QED
    BY <1>3, <1>4, <2>1, <2>2
<1>7. IsFiniteSet(i .. i + n - 1) /\ Cardinality(i .. i + n - 1) = n
  <2>1. i \in Int /\ i + n - 1 \in Int /\ i <= i + n - 1 /\ (i + n - 1) - i + 1 = n
    BY <1>3, <1>4
  <2>2. QED
    BY <2>1, FS_Interval
<1>8. ks = i .. i + n - 1
  BY <1>6, <1>7, FS_Subset DEF n
<1>9. i + n - 1 \in i .. i + n - 1
  BY <1>3, <1>4
<1>10. QED
  BY <1>4, <1>8, <1>9 DEF n

\* The addresses of n entries from the one for b on.
LEMMA AddressesOfRun ==
  ASSUME NEW a \in Nat, NEW b \in Nat, NEW l \in 0 .. 3, Aligned(b, l), NEW n \in Nat \ {0},
         Index(b, l) + n - 1 \in Idx
  PROVE  /\ Region(a, l) = Region(b, l)
         /\ Index(a, l) \in Index(b, l) .. Index(b, l) + n - 1
         <=> b <= a /\ a < b + n * MapSize(l)
<1> DEFINE S == S2TTES_PER_S2TT
           m == MapSize(l)
           A == Block(a, l)
           B == Block(b, l)
           i == Index(b, l)
           j == Index(a, l)
           R == Region(b, l)
           Q == Region(a, l)
<1>1. /\ A \in Nat /\ B \in Nat /\ R \in Nat /\ Q \in Nat /\ m \in Nat \ {0} /\ S \in Nat \ {0}
      /\ A = S * Q + j /\ B = S * R + i
  BY BlockParts, MapSizePositive, ConstantsAssumption
<1>2. i \in 0 .. S - 1 /\ j \in 0 .. S - 1 /\ i + n - 1 \in 0 .. S - 1
  BY IndexInTable DEF Idx
<1>3. b = B * m
  BY AlignedIsBase
<1>4. A * m <= a /\ a < A * m + m
  BY <1>1, BlockRange
<1> HIDE DEF m, A, B, i, j, R, Q
<1>5. b <= a /\ a < b + n * m <=> B <= A /\ A < B + n
  <2>1. \A x, y \in Nat : x <= y => x * m <= y * m
    BY <1>1
  <2>2. \A x \in Nat : (x + 1) * m = x * m + m /\ x * m \in Nat
    BY <1>1
  <2>3. (B + n) * m = B * m + n * m
    BY <1>1
  <2>4. ASSUME B <= A, A < B + n
        PROVE  b <= a /\ a < b + n * m
    <3>1. B * m <= A * m
      BY <1>1, <2>1, <2>4
    <3>2. A + 1 \in Nat /\ B + n \in Nat /\ A + 1 <= B + n
      BY <1>1, <2>4
    <3>3. (A + 1) * m <= (B + n) * m
      BY <2>1, <3>2
    <3>4. n * m \in Nat
      BY <2>2
    <3>5. QED
      BY <1>1, <1>3, <1>4, <2>2, <2>3, <3>1, <3>3, <3>4
  <2>5. ASSUME A < B
        PROVE  a < b
    <3>1. A + 1 \in Nat /\ A + 1 <= B
      BY <1>1, <2>5
    <3>2. (A + 1) * m <= B * m
      BY <1>1, <2>1, <3>1
    <3>3. QED
      BY <1>1, <1>3, <1>4, <2>2, <3>2
  <2>6. ASSUME A >= B + n
        PROVE  a >= b + n * m
    <3>1. (B + n) * m <= A * m
      BY <1>1, <2>1, <2>6
    <3>2. n * m \in Nat
      BY <2>2
    <3>3. QED
      BY <1>1, <1>3, <1>4, <2>2, <2>3, <3>1, <3>2
  <2>7. n * m \in Nat
    BY <2>2
  <2>8. QED
    BY <1>1, <1>3, <2>2, <2>4, <2>5, <2>6, <2>7
<1>6. B <= A /\ A < B + n <=> Q = R /\ j \in i .. i + n - 1
  <2>1. ASSUME Q < R
        PROVE  A < B
    <3>1. S * Q + S <= S * R
      BY <1>1, <2>1, MultiplesApart
    <3>2. S * Q \in Nat /\ S * R \in Nat
      BY <1>1
    <3>3. QED
      BY <1>1, <1>2, <3>1, <3>2
  <2>2. ASSUME R < Q
        PROVE  A >= B + n
    <3>1. S * R + S <= S * Q
      BY <1>1, <2>2, MultiplesApart
    <3>2. S * Q \in Nat /\ S * R \in Nat
      BY <1>1
    <3>3. QED
      BY <1>1, <1>2, <3>1, <3>2
  <2>3. ASSUME Q = R
        PROVE  B <= A /\ A < B + n <=> j \in i .. i + n - 1
    <3>1. S * R \in Nat /\ A = S * R + j /\ B = S * R + i
      BY <1>1, <2>3
    <3>2. QED
      BY <1>1, <1>2, <3>1
  <2>4. QED
    BY <1>1, <2>1, <2>2, <2>3
<1>7. QED
  BY <1>5, <1>6 DEF m, i, j, R, Q

\* A request concerns protected pages.
RequestInPar == \A rd \in Rds : setRipas[rd].top = 0 \/ setRipas[rd].top - 1 \in Par

\* smc_rtt_set_ripas serves the request from its start.
LEMMA SetRipasServes ==
  ASSUME TypeOK, Inv, TlbInv, RequestInPar, NEW rd0 \in Rds, NEW last \in Ipas,
         RttSetRipas(rd0, last + 1)
  PROVE  Space!ANext
<1> DEFINE top == last + 1
           req == setRipas[rd0]
           base == req.addr
           w == Walk(rd0, base, RTT_PAGE_LEVEL)
           t == w.g
           l == w.level
           i == Index(base, l)
           CanUpdate(e) == CanUpdateRipas(e, req.change)
           ks == Run(w, base, top, CanUpdate)
           n == Cardinality(ks)
           next == base + n * MapSize(l)
           End(k) == base + (k - i + 1) * MapSize(l)
<1>1. /\ base < top /\ top <= req.top /\ Aligned(base, l) /\ ks # {}
      /\ s2tt' = [s2tt EXCEPT ![t] =
                    [k \in Idx |-> IF k \in ks THEN UpdateRipas(@[k], req.ripas) ELSE @[k]]]
      /\ setRipas' = [setRipas EXCEPT ![rd0].addr = next]
      /\ rdState' = rdState
  BY DEF RttSetRipas, RttSetRipasAt
<1>2. req \in Requests /\ base \in Nat /\ req.top \in Nat /\ top \in Nat
  BY Ranges DEF TypeOK, Requests
<1>3. base \in Ipas /\ req.top - 1 \in Par
  <2>1. base \in Ipas
    BY <1>1, <1>2, IpaSizeNat DEF Ipas
  <2>2. req.top # 0
    BY <1>1, <1>2
  <2>3. QED
    BY <2>1, <2>2 DEF RequestInPar
<1>4. /\ l \in Levels /\ l \in 0 .. 3 /\ t \in Granules /\ On(s2tt, rd0, base, t, l) /\ i \in Idx
  BY <1>2, <1>3, DeepestTable, IndexInTable
<1>5. /\ ks \in SUBSET Idx
      /\ \A k \in ks : /\ k >= i /\ \A j \in i .. k : j \in ks
                       /\ CanUpdateRipas(s2tt[t][k], req.change)
                       /\ End(k) <= top
  <2>1. i \in Nat
    BY <1>4, IdxNat
  <2> HIDE DEF w, CanUpdate
  <2>2. /\ ks \in SUBSET Idx
        /\ \A k \in ks : /\ k >= i /\ End(k) <= top /\ CanUpdate(s2tt[t][k])
                         /\ \A j \in i .. k : End(j) <= top /\ CanUpdate(s2tt[t][j])
    BY <2>1, IdxNat DEF Run
  <2>3. \A k \in ks : \A j \in i .. k : j \in ks
    <3> SUFFICES ASSUME NEW k \in ks, NEW j \in i .. k PROVE j \in ks
      OBVIOUS
    <3>1. k \in Idx /\ j \in Idx /\ j >= i
      <4>1. k \in Idx
        BY <2>2
      <4>2. QED
        BY <2>1, <4>1, ConstantsAssumption DEF Idx
    <3>2. \A j2 \in i .. j : j2 \in i .. k
      BY <2>1, <3>1, IdxNat
    <3>3. \A j2 \in i .. j : End(j2) <= top /\ CanUpdate(s2tt[t][j2])
      BY <2>2, <3>2
    <3>4. QED
      BY <3>1, <3>3 DEF Run
  <2>4. QED
    BY <2>2, <2>3 DEF CanUpdate
<1> HIDE DEF ks, w, req
<1>6. /\ n \in Nat \ {0} /\ ks = i .. i + n - 1 /\ i + n - 1 \in ks
  <2>1. \A k \in ks : k >= i /\ \A j \in i .. k : j \in ks
    BY <1>5
  <2> HIDE DEF i
  <2>2. QED
    BY <1>1, <1>4, <1>5, <2>1, RunIsInterval
<1> HIDE DEF n
<1>7. next \in Nat /\ base < next /\ next <= top
  <2>1. MapSize(l) \in Nat \ {0} /\ i \in Nat
    BY <1>4, MapSizePositive, IdxNat
  <2>2. n * MapSize(l) \in Nat \ {0}
    BY <1>6, <2>1
  <2>3. (i + n - 1) - i + 1 = n
    BY <1>6, <2>1
  <2>4. End(i + n - 1) <= top
    BY <1>5, <1>6
  <2>5. QED
    BY <1>2, <2>2, <2>3, <2>4
<1>8. next - 1 \in Par
  <2>1. req.top - 1 \in Ipas /\ 2 * (req.top - 1) < IpaSize
    BY <1>3 DEF Par
  <2>2. next - 1 \in Nat /\ next - 1 <= req.top - 1
    BY <1>1, <1>2, <1>7
  <2> HIDE DEF next
  <2>3. QED
    BY <1>2, <2>1, <2>2, IpaSizeNat DEF Par, Ipas
<1>9. /\ \A h \in Granules, k \in Idx : ~(h = t /\ k \in ks) => s2tt'[h][k] = s2tt[h][k]
      /\ \A k \in ks : s2tt'[t][k] = UpdateRipas(s2tt[t][k], req.ripas)
  BY <1>1, <1>4, <1>5 DEF TypeOK
<1>10. Edits(t, ks)
  <2>1. \A e, r : UpdateRipas(e, r).hipas = e.hipas
    BY DEF UpdateRipas, MkEntry
  <2>2. \A k \in ks : ~IsTable(s2tt[t][k])
    BY <1>5 DEF CanUpdateRipas, HasRipas, IsTable
  <2>3. \A k \in ks : s2tt'[t][k].hipas = s2tt[t][k].hipas
    BY <1>9, <2>1
  <2>4. \A k \in ks : ~IsTable(s2tt'[t][k])
    BY <2>2, <2>3 DEF IsTable
  <2>5. QED
    BY <1>5, <1>9, <2>2, <2>4 DEF Edits
<1> DEFINE pages == {a \in Par : base <= a /\ a < next}
<1>11. ASSUME NEW a \in Par
       PROVE  a \in pages <=> Region(a, l) = Region(base, l) /\ Index(a, l) \in ks
  <2>1. a \in Nat
    BY <1>11, Ranges DEF Par
  <2>2. i + n - 1 \in Idx
    BY <1>5, <1>6
  <2> HIDE DEF l, base
  <2>3. Region(a, l) = Region(base, l) /\ Index(a, l) \in i .. i + n - 1
          <=> base <= a /\ a < base + n * MapSize(l)
    BY <1>1, <1>2, <1>4, <1>6, <2>1, <2>2, AddressesOfRun
  <2>4. QED
    BY <1>6, <2>3
<1>12. ASSUME NEW rd \in Rds, NEW a \in Par
       PROVE  IF rd = rd0 /\ a \in pages
              THEN /\ PageView(rd, a).ripas = "destroyed" => req.change
                   /\ PageView(rd, a)' = [PageView(rd, a) EXCEPT !.ripas = req.ripas]
              ELSE PageView(rd, a)' = PageView(rd, a)
  <2>1. a \in Ipas
    BY DEF Par
  <2> HIDE DEF l, base, t
  <2>2. IF rd = rd0 /\ Region(a, l) = Region(base, l) /\ Index(a, l) \in ks
        THEN /\ Leaf(rd, a) = s2tt[t][Index(a, l)]
             /\ PageView(rd, a) = PageOf(s2tt[t][Index(a, l)], l, a)
             /\ PageView(rd, a)' = PageOf(s2tt'[t][Index(a, l)], l, a)
        ELSE PageView(rd, a)' = PageView(rd, a)
    BY <1>3, <1>4, <1>10, <2>1, EditedPages
  <2>3. CASE rd = rd0 /\ a \in pages
    <3> DEFINE k == Index(a, l)
               e == s2tt[t][k]
    <3>1. k \in ks /\ PageView(rd, a) = PageOf(e, l, a) /\ PageView(rd, a)' = PageOf(s2tt'[t][k], l, a)
      BY <1>11, <2>2, <2>3
    <3>2. CanUpdateRipas(e, req.change) /\ s2tt'[t][k] = UpdateRipas(e, req.ripas)
      BY <1>5, <1>9, <3>1
    <3> HIDE DEF k
    <3>3. PageView(rd, a).ripas = "destroyed" => req.change
      BY <3>1, <3>2 DEF PageOf, CanUpdateRipas
    <3>4. PageOf(UpdateRipas(e, req.ripas), l, a) = [PageOf(e, l, a) EXCEPT !.ripas = req.ripas]
      BY DEF UpdateRipas, PageOf, MkEntry, HoldsData
    <3>5. QED
      BY <2>3, <3>1, <3>2, <3>3, <3>4
  <2>4. CASE ~(rd = rd0 /\ a \in pages)
    BY <1>11, <2>2, <2>4
  <2>5. QED
    BY <2>3, <2>4
<1>13. pages \in SUBSET Par
  OBVIOUS
<1>14. ViewChanges(rd0, pages, req.ripas)
  <2>1. RipasChanges(rd0, pages, req.ripas)
    BY <1>12, <1>13 DEF RipasChanges
  <2> HIDE DEF pages
  <2>2. QED
    BY <2>1, RipasBecomes
<1>15. \A a \in pages : PageView(rd0, a).ripas = "destroyed" => req.change
  BY <1>12, <1>13
<1>16. \A a \in Par : a \in pages <=> base <= a /\ a < next
  OBVIOUS
<1>17. next <= req.top
  BY <1>1, <1>2, <1>7
<1> HIDE DEF pages, next
<1>18. QED
  BY <1>1, <1>7, <1>8, <1>13, <1>14, <1>15, <1>16, <1>17, ServesRequest DEF req

-----------------------------------------------------------------------------
(* The refinement.                                                         *)

\* Requests stay in the protected range: RSI_IPA_STATE_SET checks the last page.
LEMMA RequestsKept ==
  ASSUME TypeOK, RequestInPar, [Next]_vars
  PROVE  RequestInPar'
<1>1. SUFFICES \A rd \in Rds : setRipas'[rd].top = 0 \/ setRipas'[rd].top - 1 \in Par
  BY DEF RequestInPar, Par, Ipas, IpaSize, MapSize
<1>2. CASE setRipas' = setRipas
  BY <1>2 DEF RequestInPar
<1>3. ASSUME NEW rd0 \in Rds, NEW last \in Ipas, RttSetRipas(rd0, last + 1)
      PROVE  \A rd \in Rds : setRipas'[rd].top = 0 \/ setRipas'[rd].top - 1 \in Par
  <2>1. PICK x : setRipas' = [setRipas EXCEPT ![rd0].addr = x]
    BY <1>3 DEF RttSetRipas, RttSetRipasAt
  <2>2. \A rd \in Rds : setRipas'[rd].top = setRipas[rd].top
    BY <2>1 DEF TypeOK, Requests
  <2>3. QED
    BY <2>2 DEF RequestInPar
<1>4. ASSUME NEW rd0 \in Rds, NEW req \in RipasRequests, RsiIpaStateSet(rd0, req)
      PROVE  \A rd \in Rds : setRipas'[rd].top = 0 \/ setRipas'[rd].top - 1 \in Par
  BY <1>4 DEF RsiIpaStateSet, RequestInPar, TypeOK
<1>5. ASSUME NEW rd0 \in Rds, RecEnter(rd0)
      PROVE  \A rd \in Rds : setRipas'[rd].top = 0 \/ setRipas'[rd].top - 1 \in Par
  BY <1>5 DEF RecEnter, NoRequest, RequestInPar, TypeOK
<1>6. CASE \E g \in Granules : GranuleDelegate(g) \/ GranuleUndelegate(g)
  BY <1>2, <1>6 DEF GranuleDelegate, GranuleUndelegate
<1>7. ASSUME NEW rd0 \in Rds, RttCommand(rd0)
      PROVE  setRipas' = setRipas
  <2>1. CASE \E g \in Granules, addr \in Ipas, level \in Levels : RttCreate(rd0, g, addr, level)
    BY <2>1 DEF RttCreate, RttCreateAt
  <2>2. ASSUME NEW addr \in Ipas, NEW level \in Levels, RttFold(rd0, addr, level)
        PROVE  setRipas' = setRipas
    BY <2>2 DEF RttFold, RttFoldAt
  <2>3. ASSUME NEW addr \in Ipas, NEW level \in Levels, RttDestroy(rd0, addr, level)
        PROVE  setRipas' = setRipas
    BY <2>3 DEF RttDestroy, RttDestroyAt
  <2>4. ASSUME NEW addr \in Ipas, NEW level \in Levels, NEW pa \in HostPas,
               RttMapUnprotected(rd0, addr, level, pa)
        PROVE  setRipas' = setRipas
    BY <2>4 DEF RttMapUnprotected, RttMapUnprotectedAt
  <2>5. ASSUME NEW addr \in Ipas, NEW level \in Levels, RttUnmapUnprotected(rd0, addr, level)
        PROVE  setRipas' = setRipas
    BY <2>5 DEF RttUnmapUnprotected, RttUnmapUnprotectedAt
  <2>6. QED
    BY <1>7, <2>1, <2>2, <2>3, <2>4, <2>5 DEF RttCommand
<1>8. ASSUME NEW rd0 \in Rds, DataCommand(rd0)
      PROVE  setRipas' = setRipas
  BY <1>8 DEF DataCommand, DataCreate, DataCreateAt, DataCreateFault, DataCreateUnknown,
              DataCreateUnknownAt, DataDestroy, UnmapData, IpaBlock, IpaUnblock, SetBlocked,
              SetBlockedAt
<1>9. ASSUME NEW rd0 \in Rds, NEW base, NEW top, RttInitRipas(rd0, base, top)
      PROVE  setRipas' = setRipas
  BY <1>9 DEF RttInitRipas, RttInitRipasAt
<1>10. ASSUME NEW rd0 \in Rds, RealmActivate(rd0) \/ \E addr \in Ipas : RealmAccess(rd0, addr)
       PROVE  setRipas' = setRipas
  BY <1>10 DEF RealmActivate, RealmAccess
<1>11. CASE UNCHANGED vars
  BY <1>2, <1>11 DEF vars
<1>12. QED
  BY <1>2, <1>3, <1>4, <1>5, <1>6, <1>7, <1>8, <1>9, <1>10, <1>11
  DEF Next, RipasCommand, RealmStep

\* A step that leaves the tables alone changes no page.
LEMMA QuietPages ==
  ASSUME s2tt' = s2tt
  PROVE  /\ \A rd \in Rds, a \in Par : PageView(rd, a)' = PageView(rd, a)
         /\ View' = View
<1>1. \A rd \in Rds, a \in Par : PageView(rd, a)' = PageView(rd, a)
  BY TablesUntouched, SamePage
<1>2. View' = View
  BY <1>1 DEF View, Par, Ipas, IpaSize, MapSize
<1>3. QED
  BY <1>1, <1>2

\* A step that leaves the tables, the realms and their requests alone does not show.
LEMMA QuietHides ==
  ASSUME UNCHANGED <<s2tt, rdState, setRipas>>
  PROVE  Space!ANext
BY QuietPages, NoPageChanges

\* Activation and the realm's own requests are those of the abstract space.
LEMMA RealmStepShows ==
  ASSUME TypeOK, TlbInv, NEW rd \in Rds, RealmStep(rd)
  PROVE  Space!ANext
<1>1. CASE RealmActivate(rd)
  <2>1. Space!Activate(rd)
    BY <1>1, QuietPages DEF RealmActivate, Space!Activate, View
  <2>2. QED
    BY <2>1, OneStep DEF Space!Step
<1>2. CASE \E addr \in Ipas : RealmAccess(rd, addr)
  BY <1>2, QuietHides DEF RealmAccess
<1>3. ASSUME NEW req \in RipasRequests, RsiIpaStateSet(rd, req)
      PROVE  Space!ANext
  <2>1. Space!Request(rd, req)
    BY <1>3, QuietPages DEF RsiIpaStateSet, Space!Request, View
  <2>2. req \in Space!RealmRequests
    <3>1. req.addr \in Par /\ req.top - 1 \in Par
      BY <1>3 DEF RsiIpaStateSet
    <3>2. req \in [addr : Nat, top : Nat, ripas : {"empty", "ram"}, change : BOOLEAN]
      BY ConstantsAssumption
    <3>3. req.top \in Space!Ends
      <4>1. req.top = (req.top - 1) + 1
        BY <3>2
      <4>2. QED
        BY <3>1, <4>1 DEF Space!Ends
    <3>4. QED
      BY <3>1, <3>2, <3>3 DEF Space!RealmRequests
  <2>3. QED
    BY <2>1, <2>2, OneStep DEF Space!Step
<1>4. CASE RecEnter(rd)
  <2>1. rdState[rd] = "ACTIVE"
    BY <1>4 DEF RecEnter, TlbInv, NoEarlyRequest, TypeOK
  <2>2. NoRequest = Space!NoRequest
    BY DEF NoRequest, Space!NoRequest
  <2>3. Space!Request(rd, Space!NoRequest)
    BY <1>4, <2>1, <2>2, QuietPages DEF RecEnter, Space!Request, View
  <2>4. Space!NoRequest \in Space!RealmRequests
    BY DEF Space!RealmRequests
  <2>5. QED
    BY <2>3, <2>4, OneStep DEF Space!Step
<1>5. QED
  BY <1>1, <1>2, <1>3, <1>4 DEF RealmStep

\* Every step is a step of the abstract space, or shows nothing.
LEMMA StepRefines ==
  ASSUME TypeOK, Inv, TlbInv, RequestInPar, [Next]_vars
  PROVE  [Space!ANext]_(Space!avars)
<1>1. CASE \E g \in Granules : GranuleDelegate(g) \/ GranuleUndelegate(g)
  BY <1>1, QuietHides DEF GranuleDelegate, GranuleUndelegate
<1>2. ASSUME NEW rd \in Rds, RttCommand(rd)
      PROVE  Space!ANext
  BY <1>2, RttCreateHides, RttFoldHides, RttDestroyShows, UnprotectedHides DEF RttCommand
<1>3. ASSUME NEW rd \in Rds, DataCommand(rd)
      PROVE  Space!ANext
  <2>1. PICK addr \in Ipas :
          \/ \E g \in Granules : DataCreate(rd, g, addr) \/ DataCreateUnknown(rd, g, addr)
          \/ \E g \in Granules : DataCreateFault(rd, g, addr)
          \/ DataDestroy(rd, addr)
          \/ \E blocked : SetBlocked(rd, addr, blocked)
    BY <1>3 DEF DataCommand, IpaBlock, IpaUnblock
  <2>2. CASE \E g \in Granules : DataCreateFault(rd, g, addr)
    BY <2>2, QuietHides DEF DataCreateFault
  <2>3. QED
    BY <2>1, <2>2, DataCreateGives, DataDestroyTakes, SetBlockedHides
<1>4. ASSUME NEW rd \in Rds, RipasCommand(rd)
      PROVE  Space!ANext
  <2>1. \A last \in Ipas : last + 1 \in Nat
    BY Ranges
  <2>2. QED
    BY <1>4, <2>1, InitRipasShows, SetRipasServes DEF RipasCommand
<1>5. ASSUME NEW rd \in Rds, RealmStep(rd)
      PROVE  Space!ANext
  BY <1>5, RealmStepShows
<1>6. CASE UNCHANGED vars
  BY <1>6, QuietHides DEF vars
<1>7. QED
  BY <1>1, <1>2, <1>3, <1>4, <1>5, <1>6 DEF Next

\* At first every protected page is empty and bare.
LEMMA InitRefines == Init => Space!AInit
<1> SUFFICES ASSUME Init PROVE Space!AInit
  OBVIOUS
<1>1. TlbInv
  BY InitTlbInv
<1>2. ASSUME NEW rd \in Rds, NEW a \in Par
      PROVE  PageView(rd, a) = [ripas |-> "empty", granule |-> NoGranule]
  <2> DEFINE k == Index(a, StartLevel)
  <2>1. a \in Ipas /\ a \in Nat /\ StartLevel \in 0 .. 3 /\ StartLevel \in Levels
    BY Ranges, LevelNumbers DEF Par
  <2>2. k \in Idx
    BY <2>1, IndexInTable
  <2>3. RootOf[rd] \in Granules /\ RootOf[rd] \in Roots
    BY ConstantsAssumption DEF Roots
  <2>4. s2tt[RootOf[rd]][k] \in {Unassigned("empty"), UnassignedNs}
    BY <2>2, <2>3 DEF Init, RootTable
  <2>5. /\ ~IsTable(s2tt[RootOf[rd]][k]) /\ ~HoldsData(s2tt[RootOf[rd]][k])
        /\ s2tt[RootOf[rd]][k].ripas = "empty"
    BY <2>4 DEF IsTable, HoldsData, Unassigned, UnassignedNs, MkEntry
  <2>6. Leaf(rd, a) = s2tt[RootOf[rd]][k]
    <3>1. On(s2tt, rd, a, RootOf[rd], StartLevel)
      BY OnRoot
    <3>2. Walk(rd, a, RTT_PAGE_LEVEL) = At(RootOf[rd], StartLevel)
      BY <2>1, <2>5, <3>1, PathEndsAt, WalkToPages DEF Stops
    <3>3. QED
      BY <3>2, LeafAt
  <2>7. QED
    BY <2>5, <2>6, PageViewOf DEF PageOf
<1>3. View = [rd \in Rds |-> [a \in Par |-> [ripas |-> "empty", granule |-> NoGranule]]]
  BY <1>2 DEF View
<1>4. rdState = [rd \in Rds |-> "NEW"] /\ setRipas = [rd \in Rds |-> Space!NoRequest]
  BY DEF Init, NoRequest, Space!NoRequest
<1>5. QED
  BY <1>3, <1>4 DEF Space!AInit, View

\* The tables implement the address space a realm is promised: each command does to a
\* realm's pages what RealmIpaSpace allows its host, and building, folding and unfolding
\* tables and blocking accesses do nothing to them, for any tables the host may build.
THEOREM TablesImplementIpaSpace == Spec => ImplementsIpaSpace
<1>1. Init => RequestInPar
  BY DEF Init, RequestInPar, NoRequest
<1>2. TypeOK /\ RequestInPar /\ [Next]_vars => RequestInPar'
  BY RequestsKept
<1>3. TypeOK /\ Inv /\ TlbInv /\ RequestInPar /\ [Next]_vars => [Space!ANext]_(Space!avars)
  BY StepRefines
<1>4. QED
  BY <1>1, <1>2, <1>3, InitRefines, Invariance, TlbInvariance, PTL
  DEF Spec, ImplementsIpaSpace, Space!ASpec
=============================================================================
