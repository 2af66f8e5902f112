---------------------------- MODULE TdxTrack ----------------------------
(***************************************************************************)
(* TLB tracking of a finalized TD: how KVM takes a private page away from  *)
(* a guest whose VCPUs run (kvm/tdx.c: tdx_sept_zap_private_spte,          *)
(* tdx_track, tdx_sept_drop_private_spte, tdx_sept_unzap_private_spte,     *)
(* tdx_mem_page_aug, tdx_flush_tlb), composed with the run loop of a VCPU  *)
(* (kvm/x86.c: vcpu_enter_guest).                                          *)
(*                                                                         *)
(* Threads are the VCPUs and the host's zappers (memory slot changes,      *)
(* private/shared conversion).  The TDX module, the MMU code that calls    *)
(* the tdx_sept_* operations and kvm_make_all_cpus_request are not in the  *)
(* repository; they are modelled from the calls and the comment above      *)
(* tdx_track.  A page stands for a gfn and the host page behind it.        *)
(***************************************************************************)
EXTENDS Naturals, FiniteSets

CONSTANTS Vcpus, Zappers, Pages, NoPage,
          MaxZaps        \* bound: zap operations started

Threads == Vcpus \cup Zappers

ASSUME TrackAssumption ==
    /\ Vcpus \cap Zappers = {}
    /\ NoPage \notin Pages
    /\ IsFiniteSet(Threads)
    /\ MaxZaps \in Nat

VARIABLES
    pc,            \* where a thread is
    back,          \* where tdx_track returns to in a thread
    at,            \* the page a thread works on
    removes,       \* does the zapper remove the page, or only block it?
    vcpu,          \* kvm_vcpu: mode, the TLB_FLUSH request, root loaded
    track,         \* kvm_tdx->tdh_mem_track
    todo, waiting, \* kvm_make_all_cpus_request: VCPUs to ask, acks awaited
    module,        \* TDX module: TD epoch, epoch and TLB of each VCPU
    sept, bepoch,  \* TDX module: Secure-EPT entry, epoch of its blocking
    spte,          \* KVM's mirror of the entry
    pins,          \* page references taken by get_page
    readers, writer, \* kvm->mmu_lock
    bugged,        \* a KVM_BUG_ON fired
    zaps

vars == <<pc, back, at, removes, vcpu, track, todo, waiting, module, sept,
          bepoch, spte, pins, readers, writer, bugged, zaps>>

hostVars == <<vcpu, track, todo, waiting>>
pageVars == <<sept, bepoch, spte, pins>>
lockVars == <<readers, writer>>

VcpuPcs == {"top", "spin", "reload", "mode", "check", "enter", "guest",
            "left", "exit", "fault", "aug", "unzap"}
ZapPcs == {"idle", "block", "drop", "scrub"}
TrackPcs == {"track", "request", "wait", "release"}

\* Interrupts are off from before IN_GUEST_MODE to after the exit.
IrqsOff == {"check", "enter", "guest", "left"}

Init ==
    /\ pc = [t \in Threads |-> IF t \in Vcpus THEN "top" ELSE "idle"]
    /\ back = [t \in Threads |-> "top"]
    /\ at = [t \in Threads |-> NoPage]
    /\ removes = [z \in Zappers |-> FALSE]
    /\ vcpu = [v \in Vcpus |-> [mode |-> "OUTSIDE", req |-> FALSE, loaded |-> FALSE]]
    /\ track = 0
    /\ todo = [t \in Threads |-> {}]
    /\ waiting = [t \in Threads |-> {}]
    /\ module = [epoch |-> 1, seen |-> [v \in Vcpus |-> 0],
                 tlb |-> [v \in Vcpus |-> {}]]
    /\ sept = [p \in Pages |-> "free"]
    /\ bepoch = [p \in Pages |-> 0]
    /\ spte = [p \in Pages |-> "none"]
    /\ pins = [p \in Pages |-> 0]
    /\ readers = {}
    /\ writer = {}
    /\ bugged = FALSE
    /\ zaps = 0

Goto(t, label) == pc' = [pc EXCEPT ![t] = label]

---------------------------------------------------------------------------
\* What the TDX module answers.

InGuest(v) == pc[v] = "guest"

\* TDH.MEM.TRACK is refused while a VCPU of the previous epoch runs.
PreviousEpochBusy == \E v \in Vcpus : InGuest(v) /\ module.seen[v] < module.epoch

\* REMOVE and UNBLOCK need every VCPU to have left the epoch of the BLOCK.
Tracked(p) ==
    /\ bepoch[p] < module.epoch
    /\ \A v \in Vcpus : InGuest(v) => module.seen[v] > bepoch[p]

---------------------------------------------------------------------------
\* tdx_track, run by a zapper or by a VCPU that loads its first root.

\* atomic_inc, then kvm_make_all_cpus_request(KVM_REQ_TLB_FLUSH) starts.
\* Mutant: the counter is raised only after the TRACK.
X_TrackIncrement(t) ==
    /\ pc[t] = "track"
    /\ track' = track
    /\ todo' = [todo EXCEPT ![t] = Vcpus]
    /\ Goto(t, "request")
    /\ UNCHANGED <<back, at, removes, vcpu, waiting, module, pageVars,
                   lockVars, bugged, zaps>>

TrackIncrement(t) ==
    /\ pc[t] = "track"
    /\ track' = track + 1
    /\ todo' = [todo EXCEPT ![t] = Vcpus]
    /\ Goto(t, "request")
    /\ UNCHANGED <<back, at, removes, vcpu, waiting, module, pageVars,
                   lockVars, bugged, zaps>>

\* Mutant: a request without KVM_REQUEST_WAIT expects no acknowledgement.
X_MakeRequest(t, v) ==
    /\ pc[t] = "request" /\ v \in todo[t]
    /\ todo' = [todo EXCEPT ![t] = @ \ {v}]
    /\ vcpu' = [vcpu EXCEPT ![v].req = TRUE]
    /\ UNCHANGED <<pc, back, at, removes, track, waiting, module, pageVars,
                   lockVars, bugged, zaps>>

\* The request bit first, then kvm_vcpu_exiting_guest_mode.
MakeRequest(t, v) ==
    /\ pc[t] = "request" /\ v \in todo[t]
    /\ todo' = [todo EXCEPT ![t] = @ \ {v}]
    /\ vcpu' = [vcpu EXCEPT ![v].req = TRUE,
                  ![v].mode = IF @ = "OUTSIDE" THEN "OUTSIDE" ELSE "EXITING"]
    /\ waiting' = [waiting EXCEPT
          ![t] = IF vcpu[v].mode = "OUTSIDE" THEN @ ELSE @ \cup {v}]
    /\ UNCHANGED <<pc, back, at, removes, track, module, pageVars,
                   lockVars, bugged, zaps>>

SendIpis(t) ==
    /\ pc[t] = "request" /\ todo[t] = {}
    /\ Goto(t, "wait")
    /\ UNCHANGED <<back, at, removes, hostVars, module, pageVars, lockVars,
                   bugged, zaps>>

\* ack_flush runs on a CPU as soon as its interrupts are on.
AckFlush(t, v) ==
    /\ pc[t] = "wait" /\ v \in waiting[t]
    /\ pc[v] \notin IrqsOff
    /\ waiting' = [waiting EXCEPT ![t] = @ \ {v}]
    /\ UNCHANGED <<pc, back, at, removes, vcpu, track, todo, module, pageVars,
                   lockVars, bugged, zaps>>

\* TDH.MEM.TRACK; an error other than OPERAND_BUSY is a KVM_BUG_ON.
TdhMemTrack(t) ==
    /\ pc[t] = "wait" /\ waiting[t] = {}
    /\ IF PreviousEpochBusy
       THEN bugged' = TRUE /\ UNCHANGED module
       ELSE module' = [module EXCEPT !.epoch = @ + 1] /\ UNCHANGED bugged
    /\ Goto(t, "release")
    /\ UNCHANGED <<back, at, removes, hostVars, pageVars, lockVars, zaps>>

TrackRelease(t) ==
    /\ pc[t] = "release"
    /\ track' = track - 1
    /\ Goto(t, back[t])
    /\ UNCHANGED <<back, at, removes, vcpu, todo, waiting, module, pageVars,
                   lockVars, bugged, zaps>>

---------------------------------------------------------------------------
\* vcpu_enter_guest.

\* kvm_check_request clears the bit before kvm_vcpu_flush_tlb_all.
CheckRequests(v) ==
    /\ pc[v] = "top"
    /\ Goto(v, IF vcpu[v].req THEN "spin" ELSE "reload")
    /\ vcpu' = [vcpu EXCEPT ![v].req = FALSE]
    /\ UNCHANGED <<back, at, removes, track, todo, waiting, module, pageVars,
                   lockVars, bugged, zaps>>

\* Mutant: tdx_flush_tlb does not wait for the initiator's TRACK.
X_FlushTlb(v) ==
    /\ pc[v] = "spin"
    /\ Goto(v, "reload")
    /\ UNCHANGED <<back, at, removes, hostVars, module, pageVars, lockVars,
                   bugged, zaps>>

\* tdx_flush_tlb spins until no TDH.MEM.TRACK is outstanding.
FlushTlb(v) ==
    /\ pc[v] = "spin" /\ track = 0
    /\ Goto(v, "reload")
    /\ UNCHANGED <<back, at, removes, hostVars, module, pageVars, lockVars,
                   bugged, zaps>>

\* kvm_mmu_reload: loading the first root calls tdx_flush_tlb_current.
MmuReload(v) ==
    /\ pc[v] = "reload"
    /\ Goto(v, IF vcpu[v].loaded THEN "mode" ELSE "track")
    /\ back' = [back EXCEPT ![v] = "mode"]
    /\ vcpu' = [vcpu EXCEPT ![v].loaded = TRUE]
    /\ UNCHANGED <<at, removes, track, todo, waiting, module, pageVars,
                   lockVars, bugged, zaps>>

SetInGuestMode(v) ==
    /\ pc[v] = "mode"
    /\ vcpu' = [vcpu EXCEPT ![v].mode = "IN_GUEST"]
    /\ Goto(v, "check")
    /\ UNCHANGED <<back, at, removes, track, todo, waiting, module, pageVars,
                   lockVars, bugged, zaps>>

ExitRequest(v) == vcpu[v].mode = "EXITING" \/ vcpu[v].req

\* Mutant: requests are not looked at again after the mode is set.
X_RecheckRequests(v) ==
    /\ pc[v] = "check"
    /\ Goto(v, "enter")
    /\ UNCHANGED <<back, at, removes, hostVars, module, pageVars, lockVars,
                   bugged, zaps>>

RecheckRequests(v) ==
    /\ pc[v] = "check"
    /\ IF ExitRequest(v)
       THEN Goto(v, "top") /\ vcpu' = [vcpu EXCEPT ![v].mode = "OUTSIDE"]
       ELSE Goto(v, "enter") /\ UNCHANGED vcpu
    /\ UNCHANGED <<back, at, removes, track, todo, waiting, module, pageVars,
                   lockVars, bugged, zaps>>

\* tdx_vcpu_run: TDH.VP.ENTER flushes the TLB of a VCPU of an older epoch.
VcpuRun(v) ==
    /\ pc[v] = "enter"
    /\ module' = [module EXCEPT !.seen[v] = module.epoch,
                    !.tlb[v] = IF module.seen[v] < module.epoch THEN {} ELSE @]
    /\ Goto(v, "guest")
    /\ UNCHANGED <<back, at, removes, hostVars, pageVars, lockVars, bugged, zaps>>

\* The guest reads a mapped page: the CPU caches the translation.
GuestTouch(v, p) ==
    /\ InGuest(v) /\ sept[p] = "mapped" /\ p \notin module.tlb[v]
    /\ module' = [module EXCEPT !.tlb[v] = @ \cup {p}]
    /\ UNCHANGED <<pc, back, at, removes, hostVars, pageVars, lockVars,
                   bugged, zaps>>

\* TDEXIT: an EPT violation on p, or an interrupt (p = NoPage).
GuestFault(v, p) ==
    /\ InGuest(v) /\ p \notin module.tlb[v] /\ sept[p] # "mapped"
    /\ at' = [at EXCEPT ![v] = p]
    /\ Goto(v, "left")
    /\ UNCHANGED <<back, removes, hostVars, module, pageVars, lockVars,
                   bugged, zaps>>

Interrupt(v) ==
    /\ InGuest(v)
    /\ at' = [at EXCEPT ![v] = NoPage]
    /\ Goto(v, "left")
    /\ UNCHANGED <<back, removes, hostVars, module, pageVars, lockVars,
                   bugged, zaps>>

\* mode = OUTSIDE_GUEST_MODE, then local_irq_enable.
LeaveGuest(v) ==
    /\ pc[v] = "left"
    /\ vcpu' = [vcpu EXCEPT ![v].mode = "OUTSIDE"]
    /\ Goto(v, "exit")
    /\ UNCHANGED <<back, at, removes, track, todo, waiting, module, pageVars,
                   lockVars, bugged, zaps>>

---------------------------------------------------------------------------
\* The fault path, under mmu_lock for reading; an SPTE is frozen while its
\* Secure-EPT entry is changed.

HandleExit(v) ==
    /\ pc[v] = "exit"
    /\ \/ at[v] = NoPage /\ Goto(v, "top") /\ UNCHANGED readers
       \/ /\ at[v] # NoPage /\ writer = {}
          /\ readers' = readers \cup {v}
          /\ Goto(v, "fault")
    /\ UNCHANGED <<back, at, removes, hostVars, module, pageVars, writer,
                   bugged, zaps>>

\* Mutant: tdx_sept_set_private_spte takes no page reference.
X_TdpMap(v) ==
    LET p == at[v] IN
    /\ pc[v] = "fault"
    /\ \/ /\ spte[p] = "none"
          /\ spte' = [spte EXCEPT ![p] = "frozen"]
          /\ Goto(v, "aug") /\ UNCHANGED <<pins, readers>>
       \/ /\ spte[p] = "zapped"
          /\ spte' = [spte EXCEPT ![p] = "frozen"]
          /\ Goto(v, "unzap") /\ UNCHANGED <<pins, readers>>
       \/ /\ spte[p] \in {"frozen", "present"}
          /\ Goto(v, "top")
          /\ readers' = readers \ {v}
          /\ UNCHANGED <<spte, pins>>
    /\ UNCHANGED <<back, at, removes, hostVars, module, sept, bepoch, writer,
                   bugged, zaps>>

\* A zapped SPTE is unblocked, an empty one is filled after get_page.
TdpMap(v) ==
    LET p == at[v] IN
    /\ pc[v] = "fault"
    /\ \/ /\ spte[p] = "none"
          /\ spte' = [spte EXCEPT ![p] = "frozen"]
          /\ pins' = [pins EXCEPT ![p] = @ + 1]
          /\ Goto(v, "aug") /\ UNCHANGED readers
       \/ /\ spte[p] = "zapped"
          /\ spte' = [spte EXCEPT ![p] = "frozen"]
          /\ Goto(v, "unzap") /\ UNCHANGED <<pins, readers>>
       \/ /\ spte[p] \in {"frozen", "present"}
          /\ Goto(v, "top")
          /\ readers' = readers \ {v}
          /\ UNCHANGED <<spte, pins>>
    /\ UNCHANGED <<back, at, removes, hostVars, module, sept, bepoch, writer,
                   bugged, zaps>>

\* Leave the fault path with the SPTE set to s.
FaultDone(v, s) ==
    /\ spte' = [spte EXCEPT ![at[v]] = s]
    /\ readers' = readers \ {v}
    /\ Goto(v, "top")

\* TDH.MEM.PAGE.AUG; an entry that is not free is a KVM_BUG_ON.
MemPageAug(v) ==
    LET p == at[v] IN
    /\ pc[v] = "aug"
    /\ IF sept[p] = "free"
       THEN /\ sept' = [sept EXCEPT ![p] = "mapped"]
            /\ FaultDone(v, "present")
            /\ UNCHANGED <<pins, bugged>>
       ELSE /\ bugged' = TRUE
            /\ pins' = [pins EXCEPT ![p] = @ - 1]
            /\ FaultDone(v, "none")
            /\ UNCHANGED sept
    /\ UNCHANGED <<back, at, removes, hostVars, module, bepoch, writer, zaps>>

\* Mutant: the page stays pinned when the caller is told to retry.
X_MemPageAugBusy(v) ==
    /\ pc[v] = "aug"
    /\ FaultDone(v, "none")
    /\ UNCHANGED <<back, at, removes, hostVars, module, sept, bepoch, pins,
                   writer, bugged, zaps>>

\* TDX_ERROR_SEPT_BUSY: unpin and let the guest fault again.
MemPageAugBusy(v) ==
    /\ pc[v] = "aug"
    /\ pins' = [pins EXCEPT ![at[v]] = @ - 1]
    /\ FaultDone(v, "none")
    /\ UNCHANGED <<back, at, removes, hostVars, module, sept, bepoch, writer,
                   bugged, zaps>>

\* tdx_sept_unzap_private_spte: TDH.MEM.RANGE.UNBLOCK is repeated until the
\* thread that blocked the range has completed tdx_track.
UnzapPrivateSpte(v) ==
    /\ pc[v] = "unzap" /\ Tracked(at[v])
    /\ sept' = [sept EXCEPT ![at[v]] = "mapped"]
    /\ FaultDone(v, "present")
    /\ UNCHANGED <<back, at, removes, hostVars, module, bepoch, pins, writer,
                   bugged, zaps>>

UnzapBusy(v) ==
    /\ pc[v] = "unzap"
    /\ FaultDone(v, "zapped")
    /\ UNCHANGED <<back, at, removes, hostVars, module, sept, bepoch, pins,
                   writer, bugged, zaps>>

---------------------------------------------------------------------------
\* The zapper, under mmu_lock for writing.

ZapLock(z, p) ==
    /\ pc[z] = "idle" /\ zaps < MaxZaps
    /\ readers = {} /\ writer = {}
    /\ spte[p] \in {"present", "zapped"}
    /\ writer' = {z}
    /\ at' = [at EXCEPT ![z] = p]
    /\ zaps' = zaps + 1
    /\ back' = [back EXCEPT ![z] = "drop"]
    /\ \/ /\ spte[p] = "present"
          /\ \E r \in BOOLEAN : removes' = [removes EXCEPT ![z] = r]
          /\ Goto(z, "block")
       \/ /\ spte[p] = "zapped"
          /\ removes' = [removes EXCEPT ![z] = TRUE]
          /\ Goto(z, "track")
    /\ UNCHANGED <<hostVars, module, pageVars, readers, bugged>>

\* TDH.MEM.RANGE.BLOCK.  A zapper that only blocks drops the lock and then
\* flushes (tdx_sept_flush_remote_tlbs); tdx_sept_remove_private_spte
\* tracks under the lock.
\* Mutant: the page is dropped without tdx_track.
X_ZapPrivateSpte(z) ==
    /\ pc[z] = "block"
    /\ sept' = [sept EXCEPT ![at[z]] = "blocked"]
    /\ bepoch' = [bepoch EXCEPT ![at[z]] = module.epoch]
    /\ spte' = [spte EXCEPT ![at[z]] = "zapped"]
    /\ IF removes[z]
       THEN Goto(z, "drop") /\ UNCHANGED <<back, writer>>
       ELSE writer' = {} /\ back' = [back EXCEPT ![z] = "idle"] /\ Goto(z, "track")
    /\ UNCHANGED <<at, removes, hostVars, module, pins, readers, bugged, zaps>>

\* Mutant: nobody flushes after a zap that only blocks.
Y_ZapPrivateSpte(z) ==
    /\ pc[z] = "block"
    /\ sept' = [sept EXCEPT ![at[z]] = "blocked"]
    /\ bepoch' = [bepoch EXCEPT ![at[z]] = module.epoch]
    /\ spte' = [spte EXCEPT ![at[z]] = "zapped"]
    /\ IF removes[z]
       THEN Goto(z, "track") /\ UNCHANGED <<back, writer>>
       ELSE writer' = {} /\ Goto(z, "idle") /\ UNCHANGED back
    /\ UNCHANGED <<at, removes, hostVars, module, pins, readers, bugged, zaps>>

ZapPrivateSpte(z) ==
    /\ pc[z] = "block"
    /\ sept' = [sept EXCEPT ![at[z]] = "blocked"]
    /\ bepoch' = [bepoch EXCEPT ![at[z]] = module.epoch]
    /\ spte' = [spte EXCEPT ![at[z]] = "zapped"]
    /\ Goto(z, "track")
    /\ IF removes[z]
       THEN UNCHANGED <<back, writer>>
       ELSE writer' = {} /\ back' = [back EXCEPT ![z] = "idle"]
    /\ UNCHANGED <<at, removes, hostVars, module, pins, readers, bugged, zaps>>

\* TDX_ERROR_SEPT_BUSY: -EAGAIN, nothing changed.
ZapBusy(z) ==
    /\ pc[z] = "block"
    /\ writer' = {}
    /\ Goto(z, "idle")
    /\ UNCHANGED <<back, at, removes, hostVars, module, pageVars, readers,
                   bugged, zaps>>

\* TDH.MEM.PAGE.REMOVE; an error other than SEPT_BUSY is a KVM_BUG_ON.
DropPrivateSpte(z) ==
    /\ pc[z] = "drop"
    /\ IF Tracked(at[z])
       THEN /\ sept' = [sept EXCEPT ![at[z]] = "free"]
            /\ Goto(z, "scrub")
            /\ UNCHANGED <<bugged, writer>>
       ELSE /\ bugged' = TRUE
            /\ writer' = {}
            /\ Goto(z, "idle")
            /\ UNCHANGED sept
    /\ UNCHANGED <<back, at, removes, hostVars, module, bepoch, spte, pins,
                   readers, zaps>>

\* TDH.PHYMEM.PAGE.WBINVD, tdx_clear_page, tdx_unpin; the SPTE is cleared.
ScrubPage(z) ==
    /\ pc[z] = "scrub"
    /\ pins' = [pins EXCEPT ![at[z]] = @ - 1]
    /\ spte' = [spte EXCEPT ![at[z]] = "none"]
    /\ writer' = {}
    /\ Goto(z, "idle")
    /\ UNCHANGED <<back, at, removes, hostVars, module, sept, bepoch, readers,
                   bugged, zaps>>

---------------------------------------------------------------------------
TrackStep(t) ==
    \/ TrackIncrement(t) \/ SendIpis(t) \/ TdhMemTrack(t) \/ TrackRelease(t)
    \/ \E v \in Vcpus : MakeRequest(t, v) \/ AckFlush(t, v)

EntryStep(v) ==
    \/ CheckRequests(v) \/ FlushTlb(v) \/ MmuReload(v) \/ SetInGuestMode(v)
    \/ RecheckRequests(v) \/ VcpuRun(v) \/ LeaveGuest(v)

FaultStep(v) ==
    \/ HandleExit(v) \/ TdpMap(v) \/ MemPageAug(v) \/ MemPageAugBusy(v)
    \/ UnzapPrivateSpte(v)

GuestStep(v) ==
    \/ Interrupt(v)
    \/ \E p \in Pages : GuestTouch(v, p) \/ GuestFault(v, p)

ZapStep(z) ==
    \/ ZapPrivateSpte(z) \/ ZapBusy(z) \/ DropPrivateSpte(z) \/ ScrubPage(z)

Next ==
    \/ \E t \in Threads : TrackStep(t)
    \/ \E v \in Vcpus : EntryStep(v) \/ FaultStep(v) \/ UnzapBusy(v) \/ GuestStep(v)
    \/ \E z \in Zappers : ZapStep(z) \/ \E p \in Pages : ZapLock(z, p)

Spec == Init /\ [][Next]_vars

\* Every thread keeps running; an IPI (or a timer) takes a VCPU out of the
\* guest.  The module may go on answering SEPT_BUSY or not.  Nothing makes
\* a zapper start.
Fairness ==
    /\ \A t \in Threads : WF_vars(TrackStep(t))
    /\ \A v \in Vcpus :
          /\ WF_vars(EntryStep(v)) /\ WF_vars(FaultStep(v))
          /\ WF_vars(Interrupt(v))
    /\ \A z \in Zappers : WF_vars(ZapStep(z))

FairSpec == Spec /\ Fairness

---------------------------------------------------------------------------
\* Type invariant of the tracking state of tdx.c and x86.c.
TypeOK ==
    /\ pc \in [Threads -> VcpuPcs \cup ZapPcs \cup TrackPcs]
    /\ \A v \in Vcpus : pc[v] \notin ZapPcs
    /\ \A z \in Zappers : pc[z] \notin VcpuPcs
    /\ back \in [Threads -> {"top", "mode", "drop", "idle"}]
    /\ at \in [Threads -> Pages \cup {NoPage}]
    /\ removes \in [Zappers -> BOOLEAN]
    /\ vcpu \in [Vcpus -> [mode : {"OUTSIDE", "IN_GUEST", "EXITING"},
                           req : BOOLEAN, loaded : BOOLEAN]]
    /\ track \in 0 .. Cardinality(Threads)
    /\ todo \in [Threads -> SUBSET Vcpus] /\ waiting \in [Threads -> SUBSET Vcpus]
    /\ module \in [epoch : Nat \ {0}, seen : [Vcpus -> Nat], tlb : [Vcpus -> SUBSET Pages]]
    /\ sept \in [Pages -> {"free", "mapped", "blocked"}]
    /\ bepoch \in [Pages -> Nat]
    /\ spte \in [Pages -> {"none", "frozen", "present", "zapped"}]
    /\ pins \in [Pages -> 0 .. 1]
    /\ readers \subseteq Vcpus /\ writer \subseteq Zappers
    /\ bugged \in BOOLEAN /\ zaps \in 0 .. MaxZaps

\* No KVM_BUG_ON of tdx_track, tdx_sept_drop_private_spte or
\* tdx_mem_page_aug fires: the module never refuses a TRACK because a VCPU
\* of the previous epoch still runs, nor a REMOVE for missing tracking.
NeverBugged == ~bugged

\* Between tdx_track and the reuse of the page no VCPU that runs can still
\* reach it through its TLB.
FlushedBeforeDrop ==
    \A z \in Zappers : pc[z] \in {"drop", "scrub"} =>
        \A v \in Vcpus : InGuest(v) => at[z] \notin module.tlb[v]

\* A translation a running VCPU can use leads to a page that is still pinned.
TlbReachesPinned ==
    \A v \in Vcpus, p \in Pages :
        InGuest(v) /\ p \in module.tlb[v] => pins[p] > 0

\* No reference leaks: a page KVM does not map, and nobody is mapping, has
\* no reference left, whatever the retries were.
NoPinLeak ==
    \A p \in Pages : spte[p] = "none" => pins[p] = 0

\* The TLB of a VCPU that runs reaches pinned pages only, and none that tdx_track was
\* called for and is about to be reused; and no pin outlives the mapping.
FlushedBeforeUnpinned == TypeOK /\ FlushedBeforeDrop /\ TlbReachesPinned /\ NoPinLeak

\* The spin of tdx_flush_tlb, the UNBLOCK loop and the wait for the IPI
\* acknowledgements.
Waits(t) == pc[t] \in {"spin", "unzap", "wait"}
=============================================================================
