------------------------------ MODULE KvmStage2 ------------------------------
(***************************************************************************)
(* The host's side of a realm's stage 2: how KVM fills the tables on a     *)
(* fault (tetd_cca/linux/arch/arm64/kvm/rme.c, realm_map_protected and     *)
(* realm_map_non_secure with everything below them).                       *)
(*                                                                         *)
(* The RMM answers every RMI command with an action of RmmRtt or a result  *)
(* that says why not; a host function is the sequence of its commands, one *)
(* step each, and of its accesses to realm->spare_page.  VCPUs fault under *)
(* the read side of kvm->mmu_lock, so their steps interleave.              *)
(***************************************************************************)
EXTENDS RmmRtt, Sequences

CONSTANTS
    Vcpus,      \* the realm's VCPUs
    Unmapper,   \* the thread that holds mmu_lock for writing
    KernelPages,\* pages of the kernel's allocator that become tables
    FaultIpas,  \* where the realm faults
    MapSizes,   \* the sizes, in pages, that KVM maps at once
    NoPage      \* PHYS_ADDR_MAX

ASSUME HostAssumption ==
    /\ Cardinality(Rds) = 1
    /\ Unmapper \notin Vcpus
    /\ KernelPages \subseteq Granules
    /\ FaultIpas \subseteq Ipas
    /\ MapSizes \subseteq {1, MapSize(2)}
    /\ NoPage \notin Granules

VARIABLES
    spare,  \* realm->spare_page
    free,   \* pages in the kernel's allocator
    lost,   \* pages kept by get_page: they could not be undelegated
    th      \* thread -> where it is in rme.c, and its locals

hostVars == <<spare, free, lost, th>>

Threads == Vcpus \cup {Unmapper}
realm == CHOOSE rd \in Rds : TRUE
Page(ipa) == ipa                      \* the host page behind a realm page

\* base_ipa, map_size and size are those of the map functions; level, max_level
\* those of realm_create_rtt_levels; after and to name the step that follows a
\* call, after for realm_create_rtt_levels and to for the page functions.
Idle == [pc |-> "idle", base_ipa |-> 0, map_size |-> 1, size |-> 0, level |-> 0,
         max_level |-> 0, rtt |-> NoPage, after |-> "idle", to |-> "idle"]
Resting == {"idle", "failed"}

Settled(rec) ==
    CASE rec.pc = "idle" -> Idle
      [] rec.pc = "failed" -> [Idle EXCEPT !.pc = "failed", !.map_size = rec.map_size]
      [] OTHER -> rec
Set(t, rec) == th' = [th EXCEPT ![t] = Settled(rec)]
Goto(t, pc) == Set(t, [th[t] EXCEPT !.pc = pc])
At(t, pc) == th[t].pc = pc

ipa(t) == th[t].base_ipa + th[t].size

-----------------------------------------------------------------------------
(* What an RMI command answers when it does nothing: the guards of its     *)
(* action in RmmRtt, in the order the code tests them.                     *)

Answer(status, index, top) == [status |-> status, index |-> index, top |-> top]
Done(top) == Answer("success", 0, top)
Input == Answer("input", 0, 0)
Rtt(index, top) == Answer("rtt", index, top)

AlignDown(addr, level) == addr - (addr % MapSize(level))
AlignUp(addr, level) == AlignDown(addr + MapSize(level) - 1, level)

\* skip_non_live_entries: from entry k of the table on, the first address with a
\* table or an output.
FirstLive(w, addr, k) ==
    LET i == Index(addr, w.level)
        live == {j \in k .. S2TTES_PER_S2TT - 1 :
                    IsTable(s2tt[w.g][j]) \/ HasOutput(s2tt[w.g][j])}
        first == IF live = {} THEN S2TTES_PER_S2TT
                 ELSE CHOOSE j \in live : \A l \in live : j <= l
    IN IF first = i THEN addr
       ELSE AlignDown(addr, w.level) + (first - i) * MapSize(w.level)
SkipNonLive(w, addr) == FirstLive(w, addr, Index(addr, w.level))
SkipRemoved(w, addr) == FirstLive(w, addr, Index(addr, w.level) + 1)

RttCreateAnswer(g, addr, level) ==
    LET w == Walk(realm, addr, level - 1) IN
    CASE gstate[g] # "DELEGATED" \/ ~ValidStructureCmd(addr, level) -> Input
      [] w.level # level - 1 -> Rtt(w.level, 0)
      [] IsTable(EntryAt(w, addr)) -> Rtt(level - 1, 0)
      [] OTHER -> Done(0)

DataCreateUnknownAnswer(g, addr) ==
    LET w == Walk(realm, addr, RTT_PAGE_LEVEL) IN
    CASE ~DataGranule(g) \/ addr \notin Par -> Input
      [] w.level # RTT_PAGE_LEVEL -> Rtt(w.level, 0)
      [] ~IsUnassigned(EntryAt(w, addr)) -> Rtt(RTT_PAGE_LEVEL, 0)
      [] OTHER -> Done(0)

DataDestroyAnswer(addr) ==
    LET w == Walk(realm, addr, RTT_PAGE_LEVEL) IN
    IF w.level = RTT_PAGE_LEVEL /\ HoldsData(EntryAt(w, addr))
    THEN Done(SkipRemoved(w, addr)) ELSE Rtt(w.level, SkipNonLive(w, addr))

RttFoldAnswer(addr, level) ==
    LET w == Walk(realm, addr, level - 1)
        c == EntryAt(w, addr).pa IN
    CASE ~ValidStructureCmd(addr, level) -> Input
      [] w.level # level - 1 -> Rtt(w.level, 0)
      [] ~IsTable(EntryAt(w, addr)) -> Rtt(level - 1, 0)
      [] ~Foldable(s2tt[c], refcount[c], level) -> Rtt(level, 0)
      [] OTHER -> Done(0)

RttMapUnprotectedAnswer(addr, level) ==
    LET w == Walk(realm, addr, level) IN
    CASE w.level # level -> Rtt(w.level, 0)
      [] EntryAt(w, addr).hipas # "unassigned_ns" -> Rtt(level, 0)
      [] OTHER -> Done(0)

Succeeded(r) == r.status = "success"

-----------------------------------------------------------------------------
(* alloc_delegated_page and free_delegated_page.  Nothing but mmu_lock's   *)
(* read side protects realm->spare_page, so every access is a step.        *)

\* A page of the allocator: they are all alike.
AnyFree == CHOOSE p \in free : TRUE

HaveRtt(t, p) == Set(t, [th[t] EXCEPT !.pc = th[t].to, !.rtt = p])

\* Mutant: the page is never undelegated.
Undelegate_Skipped(p) == UNCHANGED vars
\* rmi_granule_undelegate, or the RMM's refusal.
Undelegate(p) ==
    IF gstate[p] = "DELEGATED" THEN GranuleUndelegate(p) ELSE UNCHANGED vars

\* `if (realm->spare_page != PHYS_ADDR_MAX)`, or a fresh page to delegate.
AllocPage(t) ==
    /\ At(t, "alloc")
    /\ UNCHANGED <<spare, lost>>
    /\ \/ spare # NoPage /\ Goto(t, "swap") /\ UNCHANGED <<vars, free>>
       \/ spare = NoPage /\ free = {} /\ HaveRtt(t, NoPage) /\ UNCHANGED <<vars, free>>
       \/ /\ spare = NoPage /\ free # {}
          /\ IF gstate[AnyFree] = "NS"
             THEN GranuleDelegate(AnyFree) /\ free' = free \ {AnyFree} /\ HaveRtt(t, AnyFree)
             ELSE UNCHANGED <<vars, free>> /\ HaveRtt(t, NoPage)

\* swap(realm->spare_page, phys), phys being PHYS_ADDR_MAX: a load and a store.
LoadSpare(t) ==
    /\ At(t, "swap")
    /\ Set(t, [th[t] EXCEPT !.pc = "swapped", !.rtt = spare])
    /\ UNCHANGED <<vars, spare, free, lost>>
\* Mutant: the page stays the spare one.
ClearSpare_Kept == spare
ClearSpare == NoPage
StoreSpare(t) ==
    /\ At(t, "swapped")
    /\ spare' = ClearSpare
    /\ Goto(t, th[t].to)
    /\ UNCHANGED <<vars, free, lost>>

\* Mutant: the page is freed whatever the RMM said.
GiveBack_Always(p) == free \cup {p}
GiveBack(p) == IF gstate[p] = "DELEGATED" THEN free \cup {p} ELSE free

FreePage(t) ==
    /\ At(t, "free")
    /\ IF spare = NoPage
       THEN Goto(t, "put") /\ UNCHANGED <<vars, free>>
       ELSE /\ Undelegate(th[t].rtt)
            /\ free' = GiveBack(th[t].rtt)
            /\ Set(t, [th[t] EXCEPT !.pc = th[t].to, !.rtt = NoPage])
    /\ UNCHANGED <<spare, lost>>

PutSpare(t) ==
    /\ At(t, "put")
    /\ spare' = th[t].rtt
    /\ Set(t, [th[t] EXCEPT !.pc = th[t].to, !.rtt = NoPage])
    /\ UNCHANGED <<vars, free, lost>>

-----------------------------------------------------------------------------
(* realm_create_rtt_levels.                                                *)

\* Mutant: one level too many.
EnterLevels_PastMax(rec, level, max_level, after) ==
    IF level > max_level THEN [rec EXCEPT !.pc = after]
    ELSE [rec EXCEPT !.pc = "alloc", !.to = "create_rtt", !.level = level + 1,
                     !.max_level = max_level, !.after = after]

EnterLevels(rec, level, max_level, after) ==
    IF level = max_level THEN [rec EXCEPT !.pc = after]      \* WARN_ON, return 0
    ELSE [rec EXCEPT !.pc = "alloc", !.to = "create_rtt", !.level = level + 1,
                     !.max_level = max_level, !.after = after]

\* Where an error of realm_create_rtt_levels leads: the temporary table of a
\* block mapping may fail, a missing table may not.
OnLevelsError(after) ==
    CASE after = "delegate" -> "delegate"
      [] after = "retry" -> "undelegate"
      [] OTHER -> "failed"

\* Mutant: the address of the fault as it is.
RttAddr_Unaligned(t) == ipa(t)
RttAddr(t) == AlignDown(ipa(t), th[t].level - 1)

CreateRtt(t) ==
    LET rec == th[t]
        r == RttCreateAnswer(rec.rtt, RttAddr(t), rec.level)
    IN /\ At(t, "create_rtt")
       /\ \/ /\ rec.rtt = NoPage
             /\ Goto(t, OnLevelsError(rec.after)) /\ UNCHANGED vars
          \/ /\ rec.rtt # NoPage /\ Succeeded(r)
             /\ RttCreate(realm, rec.rtt, RttAddr(t), rec.level)
             /\ LET next == [rec EXCEPT !.rtt = NoPage] IN
                Set(t, EnterLevels(next, rec.level, rec.max_level, rec.after))
          \/ /\ rec.rtt # NoPage /\ ~Succeeded(r)
             /\ Set(t, [rec EXCEPT !.pc = "free", !.to = OnLevelsError(rec.after)])
             /\ UNCHANGED vars
       /\ UNCHANGED <<spare, free, lost>>

-----------------------------------------------------------------------------
(* realm_map_protected.                                                    *)

\* kvm->mmu_lock: faults hold its read side.
UnmapperIdle == th[Unmapper].pc \in Resting

\* A VCPU exits on an unmapped page and enters the map function for it.  The host
\* backs a block with one huge page only after taking its small pages away.  A
\* block mapping first makes the table it will fold away.
Fault(v, base, map_size) ==
    LET rec == [Idle EXCEPT !.base_ipa = base, !.map_size = map_size]
        map_level == IF map_size = 1 THEN RTT_PAGE_LEVEL ELSE 2
    IN /\ th[v].pc \in Resting /\ UnmapperIdle
       /\ base % map_size = 0
       /\ \A a \in base .. base + map_size - 1 : ~HasOutput(Leaf(realm, a))
       /\ CASE base \notin Par -> Set(v, [rec EXCEPT !.pc = "map_ns"])
            [] base \in Par /\ map_size = 1 -> Set(v, [rec EXCEPT !.pc = "delegate"])
            [] OTHER -> Set(v, EnterLevels(rec, map_level, RTT_PAGE_LEVEL, "delegate"))
       /\ UNCHANGED <<vars, spare, free, lost>>

Delegate(v) ==
    /\ At(v, "delegate")
    /\ IF gstate[Page(ipa(v))] = "NS"
       THEN GranuleDelegate(Page(ipa(v))) /\ Goto(v, "create_data")
       ELSE UNCHANGED vars /\ Goto(v, "read_entry")
    /\ UNCHANGED <<spare, free, lost>>

\* Mutant: the other VCPU is trusted to have mapped it.
MappedHere_Assumed(a) == TRUE

MappedHere(a) ==
    /\ Walk(realm, a, RTT_PAGE_LEVEL).level = RTT_PAGE_LEVEL
    /\ HoldsData(Leaf(realm, a))
    /\ Leaf(realm, a).pa = Page(a)

\* Mutant: a page this VCPU did not delegate is undelegated.
OnMismatch_Undelegate == "undelegate"
OnMismatch == "err"

\* The page was not ours to delegate: another VCPU has mapped it, or WARN_ON.
ReadEntry(v) ==
    /\ At(v, "read_entry")
    /\ IF MappedHere(ipa(v)) THEN Set(v, Idle) ELSE Goto(v, OnMismatch)
    /\ UNCHANGED <<vars, spare, free, lost>>

\* One page is in: the next one, the fold, or the end.
PageDone(rec) ==
    LET r == [rec EXCEPT !.size = @ + 1] IN
    CASE r.size < r.map_size -> [r EXCEPT !.pc = "delegate"]
      [] r.map_size > 1 -> [r EXCEPT !.pc = "fold"]
      [] OTHER -> Idle

CreateData(v) ==
    LET r == DataCreateUnknownAnswer(Page(ipa(v)), ipa(v)) IN
    /\ th[v].pc \in {"create_data", "retry"}
    /\ \/ /\ Succeeded(r)
          /\ DataCreateUnknown(realm, Page(ipa(v)), ipa(v))
          /\ Set(v, PageDone(th[v]))
       \/ /\ At(v, "create_data") /\ r.status = "rtt"
          /\ Set(v, EnterLevels(th[v], r.index, RTT_PAGE_LEVEL, "retry"))
          /\ UNCHANGED vars
       \/ /\ ~Succeeded(r) /\ (At(v, "retry") \/ r.status = "input")
          /\ Goto(v, "undelegate")
          /\ UNCHANGED vars
    /\ UNCHANGED <<spare, free, lost>>

FoldBlock(v) ==
    LET rec == th[v]
        w == Walk(realm, rec.base_ipa, 2)
    IN /\ At(v, "fold")
       /\ IF Succeeded(RttFoldAnswer(rec.base_ipa, RTT_PAGE_LEVEL))
          THEN /\ RttFold(realm, rec.base_ipa, RTT_PAGE_LEVEL)
               /\ Set(v, [rec EXCEPT !.pc = "free", !.to = "idle",
                                     !.rtt = EntryAt(w, rec.base_ipa).pa])
          ELSE Goto(v, "err") /\ UNCHANGED vars
       /\ UNCHANGED <<spare, free, lost>>

\* get_page: a page the RMM does not return never goes back to the allocator.
Keep(p) == IF gstate[p] = "DELEGATED" THEN lost ELSE lost \cup {p}

\* err_undelegate, and the same two lines inside the err loop.
UndelegatePage(v) ==
    /\ At(v, "undelegate")
    /\ Undelegate(Page(ipa(v)))
    /\ lost' = Keep(Page(ipa(v)))
    /\ Goto(v, "err")
    /\ UNCHANGED <<spare, free>>

\* Mutants: a page is not taken out before it is undelegated; the error is not
\* returned.
TakeOut_Skipped(a) == UNCHANGED vars
ErrReturn_Zero == "idle"

TakeOut(a) == IF Succeeded(DataDestroyAnswer(a)) THEN DataDestroy(realm, a) ELSE UNCHANGED vars
ErrReturn == "failed"                                   \* return -ENXIO

\* err: take out again, last page first, what this call has mapped.
DestroyMapped(v) ==
    LET a == ipa(v) - 1 IN
    /\ At(v, "err")
    /\ IF th[v].size = 0 THEN Goto(v, ErrReturn) /\ UNCHANGED vars
       ELSE /\ TakeOut(a)
            /\ Set(v, [th[v] EXCEPT !.pc = "undelegate", !.size = @ - 1])
    /\ UNCHANGED <<spare, free, lost>>

-----------------------------------------------------------------------------
(* realm_map_non_secure.                                                   *)

MapNonSecure(v) ==
    LET rec == th[v]
        map_level == IF rec.map_size = 1 THEN RTT_PAGE_LEVEL ELSE 2
        r == RttMapUnprotectedAnswer(rec.base_ipa, map_level)
    IN /\ rec.pc \in {"map_ns", "retry_ns"}
       /\ \/ /\ Succeeded(r)
             /\ RttMapUnprotected(realm, rec.base_ipa, map_level, Page(rec.base_ipa))
             /\ Set(v, Idle)
          \/ /\ ~Succeeded(r) /\ At(v, "map_ns")
             /\ Set(v, EnterLevels(rec, r.index, map_level, "retry_ns"))
             /\ UNCHANGED vars
          \/ /\ ~Succeeded(r) /\ At(v, "retry_ns")
             /\ Goto(v, "failed") /\ UNCHANGED vars
       /\ UNCHANGED <<spare, free, lost>>

-----------------------------------------------------------------------------
PageStep(t) == AllocPage(t) \/ LoadSpare(t) \/ StoreSpare(t) \/ FreePage(t) \/ PutSpare(t)

FaultStep(v) ==
    \/ \E base \in FaultIpas, map_size \in MapSizes : Fault(v, base, map_size)
    \/ PageStep(v) \/ CreateRtt(v)
    \/ Delegate(v) \/ ReadEntry(v) \/ CreateData(v) \/ FoldBlock(v)
    \/ UndelegatePage(v) \/ DestroyMapped(v) \/ MapNonSecure(v)

\* An activated realm whose protected half is all RAM, and a host that holds
\* every page but the root table.
HostInit ==
    /\ gstate = [g \in Granules |-> IF g \in Roots THEN "RTT" ELSE "NS"]
    /\ refcount = [g \in Granules |-> 0]
    /\ s2tt = [g \in Granules |->
                 IF g \notin Roots THEN ZeroTable
                 ELSE [k \in Idx |-> IF k * MapSize(StartLevel) \in Par
                                     THEN Unassigned("ram") ELSE UnassignedNs]]
    /\ secret = {} /\ tlb = {}
    /\ rdState = [r \in Rds |-> "ACTIVE"]
    /\ measured = [r \in Rds |-> {}]
    /\ setRipas = [r \in Rds |-> NoRequest]
    /\ lvl = [g \in Granules |-> StartLevel]
    /\ spare = NoPage
    /\ free = KernelPages
    /\ lost = {}
    /\ th = [t \in Threads |-> Idle]
=============================================================================
