-------------------------- MODULE EventInjection --------------------------
(***************************************************************************)
(* Exceptions, NMIs and interrupts that KVM injects into a VMX guest       *)
(* (kvm/x86.c: kvm_multiple_exception, kvm_inject_nmi, process_nmi,        *)
(* kvm_check_and_inject_events, vcpu_enter_guest; kvm/vmx.c:               *)
(* vmx_inject_nmi, vmx_set_nmi_mask, vmx_nmi_blocked,                      *)
(* vmx_recover_nmi_blocking, __vmx_complete_interrupts,                    *)
(* vmx_cancel_injection, handle_ept_violation), while entries are          *)
(* cancelled and the delivery of an event, or the guest's IRET, exits.     *)
(*                                                                         *)
(* APICv is off, there is no nested guest and no SMM.  The local APIC is   *)
(* one interrupt that is there or not.  VM entries and exits follow the    *)
(* SDM as the code's comments quote it; they are not in the repository.    *)
(***************************************************************************)
EXTENDS Naturals

CONSTANTS
    Vnmi,        \* enable_vnmi
    Faults,      \* exceptions of the guest KVM intercepts: "UD", "GP", "PF"
    IretExits,   \* exits an IRET from an NMI meets: "ept", "exception"
    MaxNmis, MaxIrqs, MaxExits  \* bounds: NMIs sent, interrupts sent, faulting exits

ASSUME InjectionAssumption ==
    /\ Vnmi \in BOOLEAN
    /\ Faults \subseteq {"UD", "GP", "PF"}
    /\ IretExits \subseteq {"ept", "exception"}
    /\ {MaxNmis, MaxIrqs, MaxExits} \subseteq Nat

Exceptions == {"UD", "GP", "PF", "DF"}

VARIABLES
    ipc, irequests,
    nmiQueued, nmiPending, nmiInjected,  \* arch.nmi_*
    excPending, excInjected, vector,     \* arch.exception
    irqInjected,                         \* arch.interrupt.injected
    interrupt,   \* the local APIC has an interrupt for the VCPU
    canInject, forced,                   \* can_inject, req_immediate_exit
    entry,       \* VM_ENTRY_INTR_INFO_FIELD
    windows,     \* interrupt- and NMI-window exiting
    blocked,     \* GUEST_INTR_STATE_NMI
    shadow,      \* GUEST_INTR_STATE_STI
    knownUnmasked, softBlocked,          \* loaded_vmcs->nmi_known_unmasked, soft_vnmi_blocked
    guestIf,     \* the guest's RFLAGS.IF
    frames,      \* NMI handlers the guest is in
    iretsMet,    \* history: which of IretExits IRETs have met
    exit,        \* the last VM exit: reason, vectoring event, IRET unblocked NMIs
    nmis, irqs, exits

apic == <<interrupt, irqs>>
arrivals == <<nmiQueued, nmis>>
queue == <<nmiPending, nmiInjected, excPending, excInjected, vector, irqInjected>>
masks == <<blocked, knownUnmasked, softBlocked>>
guest == <<guestIf, shadow, frames, iretsMet>>
eventVars == <<ipc, irequests, arrivals, apic, queue, masks, guest, canInject, forced,
               entry, windows, exit, exits>>

Exits == [reason : {"none", "host", "preempt", "ept", "irqWindow", "nmiWindow"} \cup Exceptions,
          vectoring : {"none", "nmi", "irq"} \cup Exceptions, unblock : BOOLEAN]
NoExit == [reason |-> "none", vectoring |-> "none", unblock |-> FALSE]

StageTypeOK ==
    /\ ipc \in {"requests", "reinject", "new", "nmi", "irq", "gate", "guest", "complete",
                "handle", "shutdown"}
    /\ irequests \subseteq {"EVENT", "NMI", "TRIPLE_FAULT"}
    /\ vector \in Exceptions
    /\ entry \in {"none", "nmi", "irq"} \cup Exceptions
    /\ windows \subseteq {"irq", "nmi"}
    /\ exit \in Exits
    /\ iretsMet \subseteq IretExits
FlagsTypeOK ==
    {nmiInjected, excPending, excInjected, irqInjected, interrupt, canInject, forced,
     blocked, shadow, knownUnmasked, softBlocked, guestIf} \subseteq BOOLEAN
CountsTypeOK ==
    /\ nmiQueued \in 0 .. MaxNmis /\ nmiPending \in 0 .. 2
    /\ frames \in 0 .. MaxNmis
    /\ nmis \in 0 .. MaxNmis /\ irqs \in 0 .. MaxIrqs /\ exits \in 0 .. MaxExits
InjectTypeOK == StageTypeOK /\ FlagsTypeOK /\ CountsTypeOK

InjectInit ==
    /\ ipc = "requests" /\ irequests = {}
    /\ nmiQueued = 0 /\ nmiPending = 0 /\ nmiInjected = FALSE
    /\ excPending = FALSE /\ excInjected = FALSE /\ vector = "UD"
    /\ irqInjected = FALSE /\ interrupt = FALSE
    /\ canInject = TRUE /\ forced = FALSE /\ entry = "none" /\ windows = {}
    /\ blocked = FALSE /\ shadow = FALSE /\ knownUnmasked = FALSE /\ softBlocked = FALSE
    /\ guestIf = TRUE /\ frames = 0 /\ iretsMet = {} /\ exit = NoExit
    /\ nmis = 0 /\ irqs = 0 /\ exits = 0

(***************************************************************************)
(* Events arrive from other threads.                                       *)
(***************************************************************************)
InjectNmi ==
    /\ nmis < MaxNmis
    /\ nmis' = nmis + 1
    /\ nmiQueued' = nmiQueued + 1
    /\ irequests' = irequests \cup {"NMI"}
    /\ UNCHANGED <<ipc, apic, queue, masks, guest, canInject, forced, entry, windows, exit,
                   exits>>

SendInterrupt ==
    /\ irqs < MaxIrqs
    /\ irqs' = irqs + 1
    /\ interrupt' = TRUE
    /\ irequests' = irequests \cup {"EVENT"}
    /\ UNCHANGED <<ipc, arrivals, queue, masks, guest, canInject, forced, entry, windows,
                   exit, exits>>

(***************************************************************************)
(* Before the entry.                                                       *)
(***************************************************************************)
\* vmx_get_nmi_mask
NmiMask == IF Vnmi THEN ~knownUnmasked /\ blocked ELSE softBlocked
NmiBlocked == softBlocked \/ blocked \/ shadow   \* vmx_nmi_blocked
InterruptBlocked == ~guestIf \/ shadow             \* vmx_interrupt_blocked

\* Mutant: an NMI that waits for its re-injection does not count.
NmiLimit_Masked == IF NmiMask THEN 1 ELSE 2

NmiLimit == IF NmiMask \/ nmiInjected THEN 1 ELSE 2

\* Mutant: the NMIs that are pending are never collapsed.
AtMost_All(limit, n) == n

AtMost(limit, n) == IF n > limit THEN limit ELSE n

\* process_nmi
ProcessNmi ==
    /\ ipc = "requests" /\ "NMI" \in irequests /\ "TRIPLE_FAULT" \notin irequests
    /\ nmiQueued' = 0
    /\ nmiPending' = AtMost(NmiLimit, nmiPending + nmiQueued)
    /\ knownUnmasked' = (knownUnmasked \/ (Vnmi /\ ~blocked))
    /\ irequests' = (irequests \ {"NMI"}) \cup IF nmiPending' > 0 THEN {"EVENT"} ELSE {}
    /\ UNCHANGED <<ipc, nmis, apic, nmiInjected, excPending, excInjected, vector, irqInjected,
                   blocked, softBlocked, guest, canInject, forced, entry, windows, exit,
                   exits>>

TripleFault ==
    /\ ipc = "requests" /\ "TRIPLE_FAULT" \in irequests
    /\ irequests' = irequests \ {"TRIPLE_FAULT"}
    /\ ipc' = "shutdown"
    /\ UNCHANGED <<arrivals, apic, queue, masks, guest, canInject, forced, entry, windows,
                   exit, exits>>

CheckEvent ==
    /\ ipc = "requests" /\ irequests \subseteq {"EVENT"}
    /\ irequests' = {}
    /\ forced' = FALSE
    /\ ipc' = IF "EVENT" \in irequests THEN "reinject" ELSE "gate"
    /\ UNCHANGED <<arrivals, apic, queue, masks, guest, canInject, entry, windows, exit, exits>>

\* vmx_inject_nmi
InjectsNmi ==
    /\ entry' = "nmi"
    /\ knownUnmasked' = FALSE
    /\ softBlocked' = (softBlocked \/ ~Vnmi)

\* kvm_event_needs_reinjection
NeedsReinjection == excInjected \/ nmiInjected \/ irqInjected

\* kvm_check_and_inject_events: what an earlier entry did not deliver ...
Reinject ==
    /\ ipc = "reinject"
    /\ canInject' = ~NeedsReinjection
    /\ IF ~excInjected /\ ~excPending /\ nmiInjected
       THEN InjectsNmi
       ELSE /\ entry' = IF excInjected THEN vector
                        ELSE IF ~excPending /\ irqInjected THEN "irq" ELSE entry
            /\ UNCHANGED <<knownUnmasked, softBlocked>>
    /\ ipc' = "new"
    /\ UNCHANGED <<irequests, arrivals, apic, queue, blocked, guest, forced, windows, exit,
                   exits>>

\* ... a new exception ...
InjectException ==
    /\ ipc = "new"
    /\ entry' = IF excPending THEN vector ELSE entry
    /\ canInject' = (canInject /\ ~excPending)
    /\ excInjected' = (excInjected \/ excPending)
    /\ excPending' = FALSE
    /\ ipc' = "nmi"
    /\ UNCHANGED <<irequests, arrivals, apic, nmiPending, nmiInjected, vector, irqInjected,
                   masks, guest, forced, windows, exit, exits>>

\* vmx_enable_nmi_window
NmiWindow == IF Vnmi /\ ~shadow THEN {"nmi"} ELSE {"irq"}

\* Mutant: an NMI goes over what is being injected.
Busy_Never == FALSE

\* -EBUSY
Busy == ~canInject

\* ... an NMI: in an immediate exit, at once, or once a window opens ...
InjectPendingNmi ==
    /\ ipc = "nmi"
    /\ \/ /\ nmiPending = 0
          /\ ipc' = "irq"
          /\ UNCHANGED <<nmiPending, nmiInjected, knownUnmasked, softBlocked, canInject,
                         forced, entry, windows>>
       \/ /\ nmiPending > 0 /\ Busy
          /\ forced' = TRUE
          /\ ipc' = "gate"
          /\ UNCHANGED <<nmiPending, nmiInjected, knownUnmasked, softBlocked, canInject,
                         entry, windows>>
       \/ /\ nmiPending > 0 /\ ~Busy /\ ~NmiBlocked
          /\ nmiPending' = nmiPending - 1
          /\ nmiInjected' = TRUE
          /\ InjectsNmi
          /\ canInject' = FALSE
          /\ windows' = IF nmiPending' > 0 THEN windows \cup NmiWindow ELSE windows
          /\ ipc' = "irq"
          /\ UNCHANGED forced
       \/ /\ nmiPending > 0 /\ ~Busy /\ NmiBlocked
          /\ windows' = windows \cup NmiWindow
          /\ ipc' = "irq"
          /\ UNCHANGED <<nmiPending, nmiInjected, knownUnmasked, softBlocked, canInject,
                         forced, entry>>
    /\ UNCHANGED <<irequests, arrivals, apic, excPending, excInjected, vector, irqInjected,
                   blocked, guest, exit, exits>>

\* ... and an interrupt.
InjectInterrupt ==
    /\ ipc = "irq"
    /\ \/ /\ ~interrupt
          /\ UNCHANGED <<interrupt, irqInjected, forced, entry, windows>>
       \/ /\ interrupt /\ Busy
          /\ forced' = TRUE
          /\ UNCHANGED <<interrupt, irqInjected, entry, windows>>
       \/ /\ interrupt /\ ~Busy /\ ~InterruptBlocked
          /\ interrupt' = FALSE
          /\ irqInjected' = TRUE
          /\ entry' = "irq"
          /\ UNCHANGED <<forced, windows>>
       \/ /\ interrupt /\ ~Busy /\ InterruptBlocked
          /\ windows' = windows \cup {"irq"}
          /\ UNCHANGED <<interrupt, irqInjected, forced, entry>>
    /\ ipc' = "gate"
    /\ UNCHANGED <<irequests, arrivals, irqs, nmiPending, nmiInjected, excPending, excInjected,
                   vector, masks, guest, canInject, exit, exits>>

\* __vmx_complete_interrupts: the queues hold what is left to inject again.
Requeues(event) ==
    /\ nmiInjected' = (event = "nmi")
    /\ excInjected' = (event \in Exceptions)
    /\ excPending' = FALSE
    /\ vector' = IF event \in Exceptions THEN event ELSE vector
    /\ irqInjected' = (event = "irq")

\* vmx_set_nmi_mask(vcpu, false)
Unmasked(event, hardware, known) ==
    /\ blocked' = (hardware /\ ~(Vnmi /\ event = "nmi"))
    /\ knownUnmasked' = (known \/ (Vnmi /\ event = "nmi"))
    /\ softBlocked' = (softBlocked /\ ~(~Vnmi /\ event = "nmi"))

\* kvm_vcpu_exit_request (a request, or a signal or reschedule on the host):
\* vmx_cancel_injection.
CancelInjection ==
    /\ ipc = "gate"
    /\ \/ irequests # {}
       \/ exits < MaxExits
    /\ exits' = IF irequests # {} THEN exits ELSE exits + 1
    /\ Requeues(entry)
    /\ Unmasked(entry, blocked, knownUnmasked)
    /\ irequests' = IF forced \/ entry # "none" THEN irequests \cup {"EVENT"} ELSE irequests
    /\ entry' = "none"
    /\ ipc' = "requests"
    /\ UNCHANGED <<arrivals, apic, nmiPending, guest, canInject, forced, windows, exit>>

EnterGuest ==
    /\ ipc = "gate" /\ irequests = {}
    /\ irequests' = IF forced THEN {"EVENT"} ELSE {}
    /\ ipc' = "guest"
    /\ UNCHANGED <<arrivals, apic, queue, masks, guest, canInject, forced, entry, windows,
                   exit, exits>>

(***************************************************************************)
(* Guest mode (the hardware and the guest).                                *)
(***************************************************************************)
ExitsFor(reason, vectoring, unblock) ==
    /\ exit' = [reason |-> reason, vectoring |-> vectoring, unblock |-> unblock]
    /\ ipc' = "complete"

WindowOpen == \/ "nmi" \in windows /\ ~blocked /\ ~shadow
              \/ "irq" \in windows /\ guestIf /\ ~shadow

GuestRuns == ipc = "guest" /\ entry = "none" /\ ~forced /\ ~WindowOpen

Delivered ==
    /\ ipc = "guest" /\ entry # "none"
    /\ blocked' = (blocked \/ (Vnmi /\ entry = "nmi"))
    /\ frames' = IF entry = "nmi" THEN frames + 1 ELSE frames
    /\ guestIf' = FALSE
    /\ shadow' = FALSE
    /\ entry' = "none"
    /\ UNCHANGED <<ipc, irequests, arrivals, apic, queue, knownUnmasked, softBlocked, iretsMet,
                   canInject, forced, windows, exit, exits>>

\* Delivering the event meets an EPT violation or an intercepted exception.
DeliveryExits ==
    /\ ipc = "guest" /\ entry # "none" /\ exits < MaxExits
    /\ exits' = exits + 1
    /\ blocked' = (blocked \/ (Vnmi /\ entry = "nmi"))
    /\ entry' = "none"
    /\ \E reason \in {"ept"} \cup Faults : ExitsFor(reason, entry, FALSE)
    /\ UNCHANGED <<irequests, arrivals, apic, queue, knownUnmasked, softBlocked, guest,
                   canInject, forced, windows>>

ForcedExit ==
    /\ ipc = "guest" /\ entry = "none"
    /\ \/ forced /\ ExitsFor("preempt", "none", FALSE)
       \/ "nmi" \in windows /\ ~blocked /\ ~shadow /\ ExitsFor("nmiWindow", "none", FALSE)
       \/ "irq" \in windows /\ guestIf /\ ~shadow /\ ExitsFor("irqWindow", "none", FALSE)
    /\ UNCHANGED <<irequests, arrivals, apic, queue, masks, guest, canInject, forced, entry,
                   windows, exits>>

\* A request kicks the VCPU out of the guest; the guest's instructions fault.
HostExit ==
    /\ ipc = "guest" /\ entry = "none" /\ irequests # {}
    /\ ExitsFor("host", "none", FALSE)
    /\ UNCHANGED <<irequests, arrivals, apic, queue, masks, guest, canInject, forced, entry,
                   windows, exits>>

Fault ==
    /\ GuestRuns /\ exits < MaxExits
    /\ exits' = exits + 1
    /\ \E reason \in {"ept"} \cup Faults : ExitsFor(reason, "none", FALSE)
    /\ UNCHANGED <<irequests, arrivals, apic, queue, masks, guest, canInject, forced, entry,
                   windows>>

Sti == GuestRuns /\ ~guestIf /\ frames = 0 /\ guestIf' = TRUE /\ shadow' = TRUE
       /\ UNCHANGED frames
Cli == GuestRuns /\ guestIf /\ frames = 0 /\ guestIf' = FALSE /\ shadow' = FALSE
       /\ UNCHANGED frames
Retire == GuestRuns /\ shadow /\ shadow' = FALSE /\ UNCHANGED <<guestIf, frames>>
Instruction ==
    /\ Sti \/ Cli \/ Retire
    /\ UNCHANGED <<ipc, irequests, arrivals, apic, queue, masks, iretsMet, canInject, forced,
                   entry, windows, exit, exits>>

\* The end of an NMI handler, which keeps interrupts off until then.
Iret ==
    /\ GuestRuns /\ frames > 0
    /\ frames' = frames - 1
    /\ blocked' = FALSE
    /\ guestIf' \in BOOLEAN
    /\ shadow' = FALSE
    /\ UNCHANGED <<ipc, irequests, arrivals, apic, queue, knownUnmasked, softBlocked, iretsMet,
                   canInject, forced, entry, windows, exit, exits>>

\* The IRET unblocks NMIs and then faults on the handler's stack.
IretFaultsWith(kind, reason) ==
    /\ kind \in IretExits
    /\ GuestRuns /\ frames > 0 /\ exits < MaxExits
    /\ exits' = exits + 1
    /\ blocked' = FALSE
    /\ ExitsFor(reason, "none", Vnmi /\ blocked)
    /\ iretsMet' = iretsMet \cup {kind}
    /\ UNCHANGED <<irequests, arrivals, apic, queue, knownUnmasked, softBlocked, guestIf,
                   shadow, frames, canInject, forced, entry, windows>>

IretFaults == \/ IretFaultsWith("ept", "ept")
              \/ \E v \in Faults : IretFaultsWith("exception", v)

(***************************************************************************)
(* After the exit.                                                         *)
(***************************************************************************)
\* vmx_recover_nmi_blocking sees the IRET only in an exit for an exception.
IretSeen == /\ exit.unblock /\ exit.vectoring = "none"
            /\ exit.reason \in Exceptions \ {"DF"}

\* Mutant: an IRET that faulted is taken for one that ended.
Recovered_Lost == [blocked |-> blocked, known |-> knownUnmasked \/ ~blocked]

Recovered ==
    IF ~Vnmi \/ knownUnmasked THEN [blocked |-> blocked, known |-> knownUnmasked]
    ELSE IF IretSeen THEN [blocked |-> TRUE, known |-> knownUnmasked]
    ELSE [blocked |-> blocked, known |-> ~blocked]

\* Mutant: what was interrupted is requeued, but no event is requested.
Complete_Silent ==
    /\ ipc = "complete"
    /\ Requeues(exit.vectoring)
    /\ Unmasked(exit.vectoring, Recovered.blocked, Recovered.known)
    /\ ipc' = "handle"
    /\ UNCHANGED <<irequests, arrivals, apic, nmiPending, guest, canInject, forced, entry,
                   windows, exit, exits>>

\* The end of vmx_vcpu_run.
Complete ==
    /\ ipc = "complete"
    /\ Requeues(exit.vectoring)
    /\ Unmasked(exit.vectoring, Recovered.blocked, Recovered.known)
    /\ irequests' = IF exit.vectoring # "none" THEN irequests \cup {"EVENT"} ELSE irequests
    /\ ipc' = "handle"
    /\ UNCHANGED <<arrivals, apic, nmiPending, guest, canInject, forced, entry, windows,
                   exit, exits>>

\* Mutant: nothing ends the guessed NMI handler.
SoftUnblocks_Never == UNCHANGED softBlocked

\* __vmx_handle_exit, without virtual NMIs: an open interrupt window or a second
\* of waiting ends the NMI's.
SoftUnblocks == \/ softBlocked' = (softBlocked /\ InterruptBlocked)
                \/ /\ InterruptBlocked /\ nmiPending > 0
                   /\ softBlocked' = FALSE

\* Mutant: an open window requests no event.
HandleOther_Silent ==
    /\ ipc = "handle" /\ exit.reason \in {"host", "preempt", "irqWindow", "nmiWindow"}
    /\ SoftUnblocks
    /\ windows' = windows \ CASE exit.reason = "irqWindow" -> {"irq"}
                            [] exit.reason = "nmiWindow" -> {"nmi"}
                            [] OTHER -> {}
    /\ UNCHANGED irequests
    /\ ipc' = "requests"
    /\ UNCHANGED <<arrivals, apic, queue, blocked, knownUnmasked, guest, canInject, forced,
                   entry, exit, exits>>

HandleOther ==
    /\ ipc = "handle" /\ exit.reason \in {"host", "preempt", "irqWindow", "nmiWindow"}
    /\ SoftUnblocks
    /\ windows' = windows \ CASE exit.reason = "irqWindow" -> {"irq"}
                            [] exit.reason = "nmiWindow" -> {"nmi"}
                            [] OTHER -> {}
    /\ irequests' = IF exit.reason \in {"irqWindow", "nmiWindow"}
                   THEN irequests \cup {"EVENT"} ELSE irequests
    /\ ipc' = "requests"
    /\ UNCHANGED <<arrivals, apic, queue, blocked, knownUnmasked, guest, canInject, forced,
                   entry, exit, exits>>

\* Mutant: the IRET an EPT violation interrupted is not undone.
HandleEpt_Lost ==
    /\ ipc = "handle" /\ exit.reason = "ept"
    /\ SoftUnblocks
    /\ ipc' = "requests"
    /\ UNCHANGED <<irequests, arrivals, apic, queue, blocked, knownUnmasked, guest, canInject,
                   forced, entry, windows, exit, exits>>

\* handle_ept_violation; the memory is there when the guest tries again.
HandleEpt ==
    /\ ipc = "handle" /\ exit.reason = "ept"
    /\ SoftUnblocks
    /\ blocked' = (blocked \/ (exit.unblock /\ exit.vectoring = "none" /\ Vnmi))
    /\ ipc' = "requests"
    /\ UNCHANGED <<irequests, arrivals, apic, queue, knownUnmasked, guest, canInject,
                   forced, entry, windows, exit, exits>>

Contributory == {"GP"}
DoubleFault(first, second) == \/ first \in Contributory /\ second \in Contributory
                              \/ first = "PF" /\ second \in Contributory \cup {"PF"}

\* Mutant: a new exception joins one that is being re-injected.
QueueException_Keep(nr) ==
    /\ excPending' = TRUE /\ vector' = nr
    /\ UNCHANGED excInjected
    /\ irequests' = irequests \cup {"EVENT"}

\* kvm_multiple_exception for a new exception.
QueueException(nr) ==
    LET busy == excPending \/ excInjected IN
    \/ /\ busy /\ vector = "DF"
       /\ irequests' = irequests \cup {"EVENT", "TRIPLE_FAULT"}
       /\ UNCHANGED <<excPending, excInjected, vector>>
    \/ /\ ~(busy /\ vector = "DF")
       /\ irequests' = irequests \cup {"EVENT"}
       /\ vector' = IF busy /\ DoubleFault(vector, nr) THEN "DF" ELSE nr
       /\ excPending' = TRUE
       /\ excInjected' = FALSE

\* handle_exception_nmi: KVM's own fault, or one the guest has to see.
HandleException ==
    /\ ipc = "handle" /\ exit.reason \in Exceptions
    /\ SoftUnblocks
    /\ \/ QueueException(exit.reason)
       \/ UNCHANGED <<irequests, excPending, excInjected, vector>>
    /\ ipc' = "requests"
    /\ UNCHANGED <<arrivals, apic, nmiPending, nmiInjected, irqInjected, blocked,
                   knownUnmasked, guest, canInject, forced, entry, windows, exit, exits>>

(***************************************************************************)
Arrive == InjectNmi \/ SendInterrupt
Kvm == \/ ProcessNmi \/ TripleFault \/ CheckEvent
       \/ Reinject \/ InjectException \/ InjectPendingNmi \/ InjectInterrupt
       \/ EnterGuest \/ CancelInjection
       \/ Complete \/ HandleOther \/ HandleEpt \/ HandleException
Processor == Delivered \/ ForcedExit \/ HostExit
GuestActs == Instruction \/ Iret \/ IretFaults \/ Fault \/ DeliveryExits

InjectNext == Arrive \/ Kvm \/ Processor \/ GuestActs

InjectSpec == InjectInit /\ [][InjectNext]_eventVars

\* KVM's thread runs, the CPU does what it was told, the guest ends its NMI
\* handlers, turns interrupts on again and executes an instruction with them on.
FairInjectSpec ==
    /\ InjectSpec
    /\ WF_eventVars(Kvm) /\ WF_eventVars(Processor)
    /\ SF_eventVars(Iret)
    /\ SF_eventVars(Instruction /\ guestIf' /\ shadow')
    /\ SF_eventVars(Instruction /\ guestIf' /\ ~shadow')

(***************************************************************************)
(* Properties                                                              *)
(***************************************************************************)
\* An exception is new or being injected again, never both (the WARN_ON_ONCE of
\* kvm_check_and_inject_events).
OneException == ~(excPending /\ excInjected)

\* What the software counts as injected is what the VM entry injects: the
\* exception before the NMI before the interrupt, and nothing is forgotten.
EntryIsQueued ==
    ipc = "guest" /\ entry # "none" =>
        entry = IF excInjected THEN vector
                ELSE IF nmiInjected THEN "nmi" ELSE "irq"

\* With virtual NMIs the guest gets no NMI inside its NMI handler, wherever
\* deliveries, IRETs and entries are interrupted.  (After an IRET that met an EPT
\* violation nmi_known_unmasked is stale, and one that meets an exception is then
\* taken for one that ended.)
OneHandler == Vnmi /\ iretsMet # {"ept", "exception"} => frames <= 1

\* No NMI is made up: those that wait, are on their way into the guest or in it have
\* been sent.
InFlight == CASE ipc = "guest" -> entry = "nmi"
              [] ipc = "complete" -> exit.vectoring = "nmi"
              [] OTHER -> nmiInjected
NmisAreReal == nmiQueued + nmiPending + (IF InFlight THEN 1 ELSE 0) + frames <= nmis

\* The types, and the invariants of injection.
NmisDoNotNest ==
    InjectTypeOK /\ OneException /\ EntryIsQueued /\ OneHandler /\ NmisAreReal

\* An entry injects what an earlier one did not deliver.
InjectsAgain == EnterGuest /\ NeedsReinjection => entry # "none"

\* Two NMIs are pending only while one of them can be injected at once (until
\* nmi_known_unmasked is stale).
SecondWaits ==
    ProcessNmi /\ (blocked \/ nmiInjected) /\ "ept" \notin iretsMet => nmiPending' <= 1

\* Nothing queued is forgotten at an entry, and no NMI waits for its turn that cannot
\* have one.
NothingForgotten == [][InjectsAgain /\ SecondWaits]_eventVars

\* Every NMI that is sent, and every interrupt, has to get to the guest, wherever
\* the entries are cancelled, the deliveries exit and the guest blocks events.
InGuest == ipc = "guest" /\ entry = "none"
NmiWaits == nmiQueued > 0 \/ nmiPending > 0 \/ (nmiInjected /\ ~InGuest)
InterruptWaits == interrupt \/ (irqInjected /\ ~InGuest)

=============================================================================
