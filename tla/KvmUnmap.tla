------------------------------ MODULE KvmUnmap ------------------------------
(***************************************************************************)
(* KVM takes a realm's stage 2 down again (rme.c): kvm_realm_unmap_range   *)
(* for a range of the memory, kvm_realm_destroy_rtts for all tables.  Both *)
(* hold kvm->mmu_lock for writing, so no fault runs meanwhile.             *)
(*                                                                         *)
(* realm_unmap_unprotected, realm_fold_rtt_level and                       *)
(* realm_tear_down_rtt_level call themselves one level deeper: their       *)
(* activations are the frames of `stack`, the innermost last.              *)
(***************************************************************************)
EXTENDS KvmStage2

CONSTANT UnmapRanges  \* the ranges <<ipa, end>> the host takes away

VARIABLES
    op,     \* what the unmapper is doing: "none", "unmap" or "teardown"
    range,  \* [ipa, end) of kvm_realm_unmap_range
    cur,    \* ipa in realm_destroy_undelegate_range
    stack,  \* frames of the recursive functions
    warned  \* a WARN_ON fired in this operation

unmapVars == <<op, range, cur, stack, warned>>
allVars == <<vars, hostVars, unmapVars>>

u == Unmapper
ParEnd == IpaSize \div 2

Frame(level, addr, end) ==
    [level |-> level, addr |-> addr, end |-> end, not_folded |-> 0]
top == stack[Len(stack)]
Below == SubSeq(stack, 1, Len(stack) - 1)
\* The loop of the innermost activation goes on at addr, or calls a deeper one.
Continue(addr) == stack' = Append(Below, [top EXCEPT !.addr = addr])
Call(addr, frame) == stack' = Append(Append(Below, [top EXCEPT !.addr = addr]), frame)

NextAddr(addr, level) == AlignUp(addr + 1, level)
LowerOf(a, b) == IF a < b THEN a ELSE b

-----------------------------------------------------------------------------
(* Starting, and ensure_spare_page.                                        *)

Start(o, r) ==
    /\ op = "none"
    /\ \A v \in Vcpus : th[v].pc \in Resting
    /\ op' = o /\ range' = r /\ warned' = FALSE
    /\ Set(u, [Idle EXCEPT !.pc = "alloc", !.to = "ensure"])
    /\ UNCHANGED <<vars, spare, free, lost, cur, stack>>

\* Mutant: the page that was only tried for is not put back.
AfterEnsure_Dropped(rec) == [rec EXCEPT !.pc = "ranges", !.rtt = NoPage]
AfterEnsure(rec) ==
    IF rec.rtt = NoPage THEN [rec EXCEPT !.pc = "ranges"]
    ELSE [rec EXCEPT !.pc = "free", !.to = "ranges"]

EnsureSpare ==
    /\ At(u, "ensure")
    /\ Set(u, AfterEnsure(th[u]))
    /\ UNCHANGED <<vars, spare, free, lost, unmapVars>>

\* kvm_realm_unmap_range's three parts: the protected pages, the host's own
\* memory, and folding what is left.  kvm_realm_destroy_rtts has one.
Ranges ==
    /\ At(u, "ranges")
    /\ \/ /\ op = "teardown"
          /\ Goto(u, "tear")
          /\ stack' = <<Frame(StartLevel + 1, 0, IpaSize)>>
          /\ UNCHANGED cur
       \/ /\ op = "unmap" /\ range[1] \in Par
          /\ Goto(u, "data") /\ cur' = range[1]
          /\ UNCHANGED stack
       \/ /\ op = "unmap" /\ range[1] \notin Par
          /\ Goto(u, "unprotected")
          /\ UNCHANGED <<cur, stack>>
    /\ UNCHANGED <<vars, spare, free, lost, op, range, warned>>

-----------------------------------------------------------------------------
(* realm_destroy_undelegate_range.                                         *)

\* Mutants: the last page is left out; the whole of its block is included.
DataEnd_Exclusive == LowerOf(range[2], ParEnd) - 1
DataEnd_WholeBlock == LowerOf(AlignUp(range[2], 2), ParEnd)
DataEnd == LowerOf(range[2], ParEnd)

DataStep ==
    LET r == DataDestroyAnswer(cur) IN
    /\ At(u, "data")
    /\ \/ /\ cur >= DataEnd
          /\ Goto(u, "unprotected") /\ UNCHANGED <<vars, cur>>
       \/ /\ cur < DataEnd /\ Succeeded(r)
          /\ DataDestroy(realm, cur)
          /\ Set(u, [th[u] EXCEPT !.pc = "data_page", !.rtt = Leaf(realm, cur).pa])
          /\ cur' = r.top
       \/ /\ cur < DataEnd /\ ~Succeeded(r) /\ r.top > cur
          /\ cur' = r.top /\ UNCHANGED <<vars, th>>
       \/ /\ cur < DataEnd /\ ~Succeeded(r) /\ r.top <= cur
          /\ Set(u, [th[u] EXCEPT !.pc = "alloc", !.to = "split", !.level = r.index + 1])
          /\ UNCHANGED <<vars, cur>>
    /\ UNCHANGED <<spare, free, lost, op, range, stack, warned>>

\* The destroyed page goes back to the host, or is kept out of it for good.
DataPage ==
    LET p == th[u].rtt IN
    /\ At(u, "data_page")
    /\ Undelegate(p)
    /\ lost' = Keep(p)
    /\ Set(u, [th[u] EXCEPT !.pc = "data", !.rtt = NoPage])
    /\ UNCHANGED <<spare, free, unmapVars>>

\* Mutant: the address as it is.
SplitAddr_Unaligned(level) == cur
SplitAddr(level) == AlignDown(cur, level - 1)

\* cur lies in a block: give it a table of pages and try again.
SplitBlock ==
    LET rec == th[u]
        addr == SplitAddr(rec.level)
        r == RttCreateAnswer(rec.rtt, addr, rec.level)
    IN /\ At(u, "split")
       /\ \/ /\ rec.rtt = NoPage
             /\ Goto(u, "unprotected") /\ warned' = TRUE /\ UNCHANGED vars
          \/ /\ rec.rtt # NoPage /\ Succeeded(r)
             /\ RttCreate(realm, rec.rtt, addr, rec.level)
             /\ Set(u, [rec EXCEPT !.pc = "data", !.rtt = NoPage])
             /\ UNCHANGED warned
          \/ /\ rec.rtt # NoPage /\ ~Succeeded(r)
             /\ Set(u, [rec EXCEPT !.pc = "free", !.to = "unprotected"])
             /\ warned' = TRUE /\ UNCHANGED vars
       /\ UNCHANGED <<spare, free, lost, op, range, cur, stack>>

-----------------------------------------------------------------------------
(* realm_unmap_unprotected.                                                *)

StartUnprotected ==
    /\ At(u, "unprotected")
    /\ IF range[2] - 1 \in Par
       THEN Goto(u, "start_fold") /\ UNCHANGED stack
       ELSE /\ Goto(u, "unmap_ns")
            /\ stack' = <<Frame(RTT_PAGE_LEVEL - 1,
                                IF range[1] \in Par THEN ParEnd ELSE range[1], range[2])>>
    /\ UNCHANGED <<vars, spare, free, lost, op, range, cur, warned>>

\* RMI_RTT_UNMAP_UNPROTECTED at the whole entry that addr begins.
UnmapEntry(addr, level) ==
    LET w == Walk(realm, addr, level)
        live == w.level = level /\ EntryAt(w, addr).hipas = "assigned_ns"
    IN IF live
       THEN /\ RttUnmapUnprotected(realm, addr, level)
            /\ Continue(SkipRemoved(w, addr))
       ELSE /\ UNCHANGED vars
            /\ IF SkipNonLive(w, addr) = addr
               THEN LET next == NextAddr(addr, level) IN Call(next, Frame(level + 1, addr, next))
               ELSE Continue(SkipNonLive(w, addr))

UnmapNs ==
    /\ At(u, "unmap_ns")
    /\ \/ stack = <<>> /\ Goto(u, "start_fold") /\ UNCHANGED <<vars, stack, warned>>
       \/ /\ stack # <<>> /\ top.level > RTT_PAGE_LEVEL
          /\ stack' = Below /\ warned' = TRUE /\ UNCHANGED <<vars, th>>
       \/ /\ stack # <<>> /\ top.level <= RTT_PAGE_LEVEL
          /\ LET addr == top.addr
                 next == NextAddr(addr, top.level) IN
             CASE addr >= top.end -> stack' = Below /\ UNCHANGED vars
               [] addr < top.end /\ Aligned(addr, top.level) /\ next <= top.end ->
                    UnmapEntry(addr, top.level)
               [] OTHER ->
                    /\ Call(next, Frame(top.level + 1, addr, LowerOf(next, top.end)))
                    /\ UNCHANGED vars
          /\ UNCHANGED <<th, warned>>
    /\ UNCHANGED <<spare, free, lost, op, range, cur>>

-----------------------------------------------------------------------------
(* realm_fold_rtt_range, realm_fold_rtt_level.                             *)

\* A table came out of the tree: undelegate and free it, then go on at pc.
TableOut(c, pc) == Set(u, [th[u] EXCEPT !.pc = "table", !.to = pc, !.rtt = c])

TablePage ==
    /\ At(u, "table")
    /\ Undelegate(th[u].rtt)
    /\ free' = GiveBack(th[u].rtt)
    /\ Set(u, [th[u] EXCEPT !.pc = th[u].to, !.rtt = NoPage])
    /\ UNCHANGED <<spare, lost, unmapVars>>

StartFold ==
    /\ At(u, "start_fold")
    /\ Goto(u, "fold_range")
    /\ stack' = <<Frame(StartLevel + 1, range[1], range[2])>>
    /\ UNCHANGED <<vars, spare, free, lost, op, range, cur, warned>>

\* An activation returns not_folded to the one that called it, which tries its
\* own entry again when everything below it was folded.
ReturnFold ==
    LET caller == stack[Len(stack) - 1]
        next == IF top.not_folded = 0 THEN caller.addr
                ELSE NextAddr(caller.addr, caller.level - 1)
    IN stack' = IF Len(stack) = 1 THEN <<>>
                ELSE Append(SubSeq(stack, 1, Len(stack) - 2), [caller EXCEPT !.addr = next])

\* Mutant: an entry that cannot be folded is not counted.
NotFolded_Uncounted(f, next) == [f EXCEPT !.addr = next]
NotFolded(f, next) == [f EXCEPT !.addr = next, !.not_folded = @ + 1]

FoldAt(level, addr) ==
    LET al == AlignUp(addr, level - 1)
        next == NextAddr(addr, level - 1)
        w == Walk(realm, al, level - 1)
        r == RttFoldAnswer(al, level)
    IN \/ /\ Succeeded(r)
          /\ RttFold(realm, al, level)
          /\ Continue(next)
          /\ TableOut(EntryAt(w, al).pa, "fold_range")
       \/ /\ r.status = "rtt" /\ (level = RTT_PAGE_LEVEL \/ r.index < level)
          /\ stack' = Append(Below, NotFolded(top, next))
          /\ UNCHANGED <<vars, th>>
       \/ /\ r.status = "rtt" /\ level < RTT_PAGE_LEVEL /\ r.index = level
          /\ Call(addr, Frame(level + 1, addr, next))
          /\ UNCHANGED <<vars, th>>
       \/ /\ r.status = "input"                       \* -ENXIO, all the way up
          /\ stack' = <<>>
          /\ UNCHANGED <<vars, th>>

FoldStep ==
    /\ At(u, "fold_range") /\ stack # <<>>
    /\ \/ top.addr >= top.end /\ ReturnFold /\ UNCHANGED <<vars, th>>
       \/ top.addr < top.end /\ FoldAt(top.level, top.addr)
    /\ UNCHANGED <<spare, free, lost, op, range, cur, warned>>

UnmapReturn ==
    /\ At(u, "fold_range") /\ stack = <<>>
    /\ Set(u, Idle) /\ op' = "none"
    /\ UNCHANGED <<vars, spare, free, lost, range, cur, stack, warned>>

-----------------------------------------------------------------------------
(* realm_tear_down_rtt_range, realm_tear_down_rtt_level.  The range is the *)
(* whole address space, so every frame covers whole entries.               *)

RttDestroyAnswer(addr, level) ==
    LET w == Walk(realm, addr, level - 1)
        e == EntryAt(w, addr) IN
    CASE ~ValidStructureCmd(addr, level) -> Input
      [] w.level # level - 1 \/ ~IsTable(e) -> Rtt(w.level, SkipNonLive(w, addr))
      [] ~Destroyable(e.pa) -> Rtt(level, addr)
      [] OTHER -> Done(SkipRemoved(w, addr))

\* -EBUSY or -ENXIO, all the way up; kvm_realm_destroy_rtts only warns.
TearDownFails == stack' = <<>> /\ warned' = TRUE /\ UNCHANGED <<vars, th>>

\* Mutant: after the tables below, the one that held them is passed over.
TryAgain_Next(addr, level) == NextAddr(addr, level - 1)
TryAgain(addr, level) == addr

TearDownEntry(addr, level) ==
    LET w == Walk(realm, addr, level - 1)
        r == RttDestroyAnswer(addr, level)
        next == NextAddr(addr, level - 1)
    IN \/ /\ Succeeded(r)
          /\ RttDestroy(realm, addr, level)
          /\ Continue(r.top)
          /\ TableOut(EntryAt(w, addr).pa, "tear")
          /\ UNCHANGED warned
       \/ /\ r.status = "rtt" /\ r.top > addr
          /\ Continue(r.top) /\ UNCHANGED <<vars, th, warned>>
       \/ /\ r.status = "rtt" /\ r.top <= addr /\ r.index = level /\ level < RTT_PAGE_LEVEL
          /\ Call(TryAgain(addr, level), Frame(level + 1, addr, next))
          /\ UNCHANGED <<vars, th, warned>>
       \/ /\ \/ r.status = "input"
             \/ r.status = "rtt" /\ r.top <= addr /\ (r.index # level \/ level = RTT_PAGE_LEVEL)
          /\ TearDownFails

TearDown ==
    /\ At(u, "tear") /\ stack # <<>>
    /\ LET addr == top.addr
           next == NextAddr(addr, top.level - 1) IN
       \/ addr >= top.end /\ stack' = Below /\ UNCHANGED <<vars, th, warned>>
       \/ addr < top.end /\ next <= top.end /\ TearDownEntry(addr, top.level)
    /\ UNCHANGED <<spare, free, lost, op, range, cur>>

TearDownReturn ==
    /\ At(u, "tear") /\ stack = <<>>
    /\ Set(u, Idle) /\ op' = "done"
    /\ UNCHANGED <<vars, spare, free, lost, range, cur, stack, warned>>

-----------------------------------------------------------------------------
UnmapperStep ==
    \/ (PageStep(u) /\ UNCHANGED unmapVars)
    \/ EnsureSpare \/ Ranges
    \/ DataStep \/ DataPage \/ SplitBlock
    \/ StartUnprotected \/ UnmapNs
    \/ TablePage \/ StartFold \/ FoldStep \/ UnmapReturn
    \/ TearDown \/ TearDownReturn

\* The MMU notifier takes away a range; the end of the VM takes away everything,
\* after unmapping the whole address space (mmu.c, not in this repository).
StartUnmap == \E r \in UnmapRanges : Start("unmap", r)
StartTearDown ==
    /\ \A a \in Ipas : ~HasOutput(Leaf(realm, a))
    /\ Start("teardown", <<0, IpaSize>>)

\* Nothing runs in a realm whose tables are gone.
Gone == op = "done" /\ UNCHANGED allVars

UnmapInit ==
    /\ HostInit
    /\ op = "none" /\ range = <<0, 0>> /\ cur = 0 /\ stack = <<>> /\ warned = FALSE

UnmapNext ==
    \/ \E v \in Vcpus : op # "done" /\ FaultStep(v) /\ UNCHANGED unmapVars
    \/ StartUnmap \/ StartTearDown
    \/ UnmapperStep
    \/ Gone

\* The unmapper runs on: it holds a lock and never sleeps.
HostSpec == UnmapInit /\ [][UnmapNext]_allVars /\ WF_allVars(UnmapperStep)

-----------------------------------------------------------------------------
(* Properties.                                                             *)

Pcs == {"idle", "failed", "alloc", "swap", "swapped", "free", "put", "create_rtt",
        "delegate", "read_entry", "create_data", "retry", "undelegate", "err", "fold",
        "map_ns", "retry_ns", "ensure", "ranges", "data", "data_page", "split",
        "unprotected", "unmap_ns", "start_fold", "fold_range", "table", "tear"}
Locals == [pc : Pcs, base_ipa : Ipas, map_size : Nat, size : Nat, level : 0 .. 3,
           max_level : 0 .. 3, rtt : Granules \cup {NoPage}, after : Pcs, to : Pcs]

\* The variables have their types; the RMM's keep theirs.
HostTypeOK ==
    /\ TypeOK
    /\ spare \in Granules \cup {NoPage}
    /\ free \subseteq KernelPages /\ lost \subseteq Granules
    /\ th \in [Threads -> Locals]
    /\ op \in {"none", "unmap", "teardown", "done"} /\ warned \in BOOLEAN
    /\ cur \in Nat
    /\ \A i \in DOMAIN stack : stack[i].level \in 1 .. 4

\* A page in the kernel's allocator is the host's: nobody gets a page on whose
\* first use the processor faults.
FreePagesAreNs == \A p \in free : gstate[p] = "NS"

Reached(x) == \E g \in Rtts, k \in Idx : PointsTo(g, k, x)
\* What a thread is about to map, has just taken out, or will put somewhere.
HeldBy(t) ==
    {th[t].rtt} \cup
    (IF t = u \/ th[t].pc \in Resting THEN {}
     ELSE {Page(th[t].base_ipa + i) : i \in 0 .. th[t].map_size - 1})

\* No page is lost to the host: one that is not the host's is in the realm's
\* tables, is the spare page, is in a thread's hands, or was given up for good
\* with get_page.
NoPageLost ==
    \A x \in Granules \ Roots :
        gstate[x] = "NS" \/ Reached(x) \/ x = spare \/ x \in lost
        \/ \E t \in Threads : x \in HeldBy(t)

\* Nothing has to be given up: every undelegate in rme.c succeeds.
NothingGivenUp == lost = {}

\* struct realm, "@spare_page: A physical page that has been delegated to the
\* Realm world but is otherwise free".
SparePageIsFree == spare # NoPage => gstate[spare] = "DELEGATED"

\* A map function that returns 0 leaves its first page mapped, by itself or by
\* the VCPU it lost the race to.
MapReturnsMapped ==
    [][\A v \in Vcpus, a \in FaultIpas :
         th[v].pc \notin Resting /\ th[v].base_ipa = a /\ th'[v].pc = "idle" =>
            HasOutput(Leaf(realm, a)')]_allVars

\* A VCPU that faults on a page gets it: no error reaches the VMM while the kernel
\* has pages, whatever tables earlier operations left.
PageFaultsSucceed == \A v \in Vcpus : ~(th[v].pc = "failed" /\ th[v].map_size = 1)

\* realm_map_non_secure and realm_map_protected, WARN_ON(ret): the retry after
\* realm_create_rtt_levels, and the fold of a block, succeed.
NoFaultFails == \A v \in Vcpus : th[v].pc # "failed"

\* realm_map_protected, "It's possible we raced with another VCPU on the same
\* fault": then WARN_ON's condition is false, the entry exists and matches.
RacedEntryMatches ==
    \A v \in Vcpus : At(v, "read_entry") => MappedHere(ipa(v))

NothingIsLeft ==
    op = "unmap" /\ op' = "none" =>
        \A a \in range[1] .. range[2] - 1 :
            /\ ~HasOutput(Leaf(realm, a))
            /\ a \in Par => gstate[Page(a)] = "NS"
TheRestStays ==
    op = "unmap" =>
        \A a \in Ipas \ (range[1] .. range[2] - 1) :
            HasOutput(Leaf(realm, a)) => HasOutput(Leaf(realm, a)')

\* After kvm_realm_unmap_range nothing of the range is mapped, and its pages are
\* the host's again, whatever blocks and tables there were.
UnmapLeavesNothing == [][NothingIsLeft]_allVars

\* kvm_realm_unmap_range folds what it can only inside the realm: pages outside
\* the range stay mapped.
UnmapLeavesTheRest == [][TheRestStays]_allVars

\* kvm_realm_destroy_rtts leaves the root table and the spare page.
TearDownComplete ==
    op = "done" =>
        /\ ~warned
        /\ \A x \in Granules \ Roots : gstate[x] = "NS" \/ x = spare

\* realm_unmap_unprotected, WARN_ON(level > RME_RTT_MAX_LEVEL), and the two
\* WARN_ONs of realm_destroy_undelegate_range: none fires.
UnmapNeverWarns == ~warned
=============================================================================
