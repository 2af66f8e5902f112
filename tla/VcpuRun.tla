----------------------------- MODULE VcpuRun -----------------------------
(***************************************************************************)
(* Interrupts of one VCPU between the threads that deliver them and the    *)
(* thread that runs it (kvm/x86.c: vcpu_run, vcpu_enter_guest, vcpu_block, *)
(* kvm_vcpu_has_events, __kvm_vcpu_update_apicv,                           *)
(* __kvm_set_or_clear_apicv_inhibit; kvm/vmx.c: vmx_deliver_interrupt,     *)
(* vmx_sync_pir_to_irr; kvm/tdx.c: tdx_deliver_interrupt, tdx_vcpu_run,    *)
(* tdx_protected_apic_has_interrupt).                                      *)
(*                                                                         *)
(* A vector is a priority and is owned by the thread that delivers it.     *)
(* What the CPU does in guest mode, the local APIC, kvm_vcpu_block and the *)
(* posted-interrupt primitives are not in the repository.                  *)
(***************************************************************************)
EXTENDS Naturals, FiniteSetsExt

CONSTANTS Vectors,
          MaxPosts,     \* bound: deliveries of a vector
          MaxToggles    \* bound: changes of the VM's APICv inhibition

ASSUME RunAssumption ==
    /\ Vectors \subseteq 1 .. 255
    /\ MaxPosts \in Nat
    /\ MaxToggles \in Nat

VARIABLES
    td,         \* the VCPU belongs to a TD: chosen with the VM, for good
    pc,         \* the VCPU's thread
    mode,       \* vcpu->mode
    requests,   \* vcpu->requests
    ipi,        \* interrupts pending on the VCPU's CPU
    pir, on,    \* pi_desc
    irr, isr,   \* of the (virtual) APIC
    begun,      \* vectors whose handler the guest entered and has not ended
    rvi,        \* the vector virtual interrupt delivery looks at
    event,      \* arch.interrupt while injected, and the VM-entry event
    immediate,  \* req_immediate_exit
    apicv,      \* apic->apicv_active
    inhibited,  \* kvm->arch.apicv_inhibit_reasons # 0
    toggler,    \* the thread that changes the inhibition
    halted,     \* mp_state = KVM_MP_STATE_HALTED
    asleep,     \* the thread's state while it blocks
    hltOff,     \* tdx->interrupt_disabled_hlt
    iflag,      \* the guest's RFLAGS.IF
    window,     \* CPU_BASED_INTR_WINDOW_EXITING
    why,        \* the reason of the last VM exit
    sender,     \* progress of each delivery
    posts, toggles

vcpuVars == <<pc, mode, event, immediate, halted, hltOff, iflag, window, why>>
apicVars == <<pir, on, irr, isr, begun, rvi>>
apicvVars == <<td, apicv, inhibited, toggler, toggles>>
vars == <<vcpuVars, apicVars, apicvVars, requests, ipi, asleep, sender, posts>>

\* vector 0: none
NoVector == 0
\* Mutant: vmx_set_rvi writes the low byte of -1.
Highest_Byte(set) == IF set = {} THEN 255 ELSE Max(set)

Highest(set) == IF set = {} THEN NoVector ELSE Max(set)
\* the interrupt the APIC has for a VCPU, over what it is serving
Deliverable(pending) == Highest(pending) > Highest(isr)

ThreadTypeOK ==
    /\ pc \in {"top", "apicv", "event", "enter", "clearOn", "takePir", "gate", "guest",
               "exited", "handle", "block", "check", "sleep", "unblock"}
    /\ mode \in {"OUTSIDE", "IN_GUEST", "EXITING"}
    /\ event \in Vectors \cup {NoVector}
    /\ {immediate, halted, hltOff, iflag, window} \subseteq BOOLEAN
    /\ why \in {"none", "irq", "hlt", "eoi", "window", "preempt"}
ApicTypeOK ==
    /\ {pir, irr, isr, begun} \subseteq SUBSET Vectors
    /\ rvi \in Vectors \cup {NoVector}
    /\ on \in BOOLEAN
SenderTypeOK ==
    /\ requests \subseteq {"EVENT", "APICV_UPDATE"}
    /\ ipi \subseteq {"notify", "kick", "call"}
    /\ {td, apicv, inhibited, asleep} \subseteq BOOLEAN
    /\ toggler \in {"idle", "kick", "wait", "flip"}
    /\ toggles \in 0 .. MaxToggles
    /\ sender \in [Vectors -> {"idle", "on", "mode", "ipi", "irr", "request", "wake",
                               "kick"}]
    /\ posts \in [Vectors -> 0 .. MaxPosts]
TypeOK == ThreadTypeOK /\ ApicTypeOK /\ SenderTypeOK

Init ==
    /\ td \in BOOLEAN
    /\ pc = "top" /\ mode = "OUTSIDE" /\ requests = {} /\ ipi = {}
    /\ pir = {} /\ on = FALSE /\ irr = {} /\ isr = {} /\ begun = {} /\ rvi = NoVector
    /\ event = NoVector /\ immediate = FALSE
    /\ apicv = TRUE /\ inhibited = FALSE /\ toggler = "idle" /\ toggles = 0
    /\ halted = FALSE /\ asleep = FALSE /\ hltOff = FALSE
    /\ iflag = TRUE /\ window = FALSE /\ why = "none"
    /\ sender = [v \in Vectors |-> "idle"] /\ posts = [v \in Vectors |-> 0]

(***************************************************************************)
(* Delivery.  The order of each thread's steps is the code's.              *)
(***************************************************************************)
SenderTo(v, step) == sender' = [sender EXCEPT ![v] = step]

\* vmx_deliver_interrupt: through the descriptor when APICv is active (and
\* always for a TD), through the APIC's IRR otherwise.
Deliver(v) ==
    /\ sender[v] = "idle" /\ posts[v] < MaxPosts
    /\ posts' = [posts EXCEPT ![v] = @ + 1]
    /\ IF apicv \/ td
       THEN /\ pir' = pir \cup {v}
            /\ SenderTo(v, IF v \in pir THEN "idle" ELSE "on")
       ELSE UNCHANGED pir /\ SenderTo(v, "irr")
    /\ UNCHANGED <<vcpuVars, on, irr, isr, begun, rvi, apicvVars, requests, ipi, asleep>>

\* pi_test_and_set_on: somebody else's notification is on its way.
SetOn(v) ==
    /\ sender[v] = "on"
    /\ on' = TRUE
    /\ SenderTo(v, IF on THEN "idle" ELSE "mode")
    /\ UNCHANGED <<vcpuVars, pir, irr, isr, begun, rvi, apicvVars, requests, ipi, asleep, posts>>

\* kvm_vcpu_trigger_posted_interrupt: an IPI to a VCPU in guest mode, a
\* wake-up to any other.
ReadMode(v) ==
    /\ sender[v] = "mode"
    /\ SenderTo(v, IF mode = "IN_GUEST" THEN "ipi" ELSE "wake")
    /\ UNCHANGED <<vcpuVars, apicVars, apicvVars, requests, ipi, asleep, posts>>

Notify(v) ==
    /\ sender[v] = "ipi"
    /\ ipi' = ipi \cup {"notify"}
    /\ SenderTo(v, "idle")
    /\ UNCHANGED <<vcpuVars, apicVars, apicvVars, requests, asleep, posts>>

SetIrr(v) ==
    /\ sender[v] = "irr"
    /\ irr' = irr \cup {v}
    /\ SenderTo(v, "request")
    /\ UNCHANGED <<vcpuVars, pir, on, isr, begun, rvi, apicvVars, requests, ipi, asleep, posts>>

MakeRequest(v) ==
    /\ sender[v] = "request"
    /\ requests' = requests \cup {"EVENT"}
    /\ SenderTo(v, "kick")
    /\ UNCHANGED <<vcpuVars, apicVars, apicvVars, ipi, asleep, posts>>

WakeUp(v) ==
    /\ sender[v] = "wake"
    /\ asleep' = FALSE
    /\ SenderTo(v, "idle")
    /\ UNCHANGED <<vcpuVars, apicVars, apicvVars, requests, ipi, posts>>

\* kvm_vcpu_exiting_guest_mode: IN_GUEST becomes EXITING; the old mode decides.
Kicked == mode' = IF mode = "IN_GUEST" THEN "EXITING" ELSE mode

\* kvm_vcpu_kick: wakes a sleeper, else has a VCPU in guest mode leave it
\* (kvm_arch_vcpu_should_kick).
Kick(v) ==
    /\ sender[v] = "kick"
    /\ asleep' = FALSE
    /\ IF asleep
       THEN UNCHANGED <<mode, ipi>>
       ELSE Kicked /\ ipi' = IF mode = "IN_GUEST" THEN ipi \cup {"kick"} ELSE ipi
    /\ SenderTo(v, "idle")
    /\ UNCHANGED <<pc, event, immediate, halted, hltOff, iflag, window, why, apicVars,
                   apicvVars, requests, posts>>

(***************************************************************************)
(* Changing the inhibition, under apicv_update_lock for writing.           *)
(***************************************************************************)
ToggleStart ==
    /\ ~td /\ toggler = "idle" /\ toggles < MaxToggles
    /\ toggler' = "kick"
    /\ toggles' = toggles + 1
    /\ requests' = requests \cup {"APICV_UPDATE"}
    /\ UNCHANGED <<vcpuVars, apicVars, td, apicv, inhibited, ipi, asleep, sender, posts>>

\* Mutant: the inhibition changes without waiting for the VCPU to leave.
ToggleKick_NoWait ==
    /\ toggler = "kick"
    /\ Kicked
    /\ toggler' = "flip"
    /\ ipi' = IF mode = "OUTSIDE" THEN ipi ELSE ipi \cup {"call"}
    /\ UNCHANGED <<pc, event, immediate, halted, hltOff, iflag, window, why, apicVars, td,
                   apicv, inhibited, toggles, requests, asleep, sender, posts>>

\* KVM_REQUEST_NO_WAKEUP | KVM_REQUEST_WAIT: a VCPU outside guest mode is left
\* alone, any other has to take the IPI first.
ToggleKick ==
    /\ toggler = "kick"
    /\ Kicked
    /\ IF mode = "OUTSIDE"
       THEN toggler' = "flip" /\ UNCHANGED ipi
       ELSE toggler' = "wait" /\ ipi' = ipi \cup {"call"}
    /\ UNCHANGED <<pc, event, immediate, halted, hltOff, iflag, window, why, apicVars, td,
                   apicv, inhibited, toggles, requests, asleep, sender, posts>>

ToggleAcked ==
    /\ toggler = "wait" /\ "call" \notin ipi
    /\ toggler' = "flip"
    /\ UNCHANGED <<vcpuVars, apicVars, td, apicv, inhibited, toggles, requests, ipi, asleep,
                   sender, posts>>

ToggleFlip ==
    /\ toggler = "flip"
    /\ inhibited' = ~inhibited
    /\ toggler' = "idle"
    /\ UNCHANGED <<vcpuVars, apicVars, td, apicv, toggles, requests, ipi, asleep, sender,
                   posts>>

(***************************************************************************)
(* The VCPU's thread.                                                      *)
(***************************************************************************)
\* vmx_sync_pir_to_irr, all at once.  Without APICv an event is requested when
\* the highest vector is new (kvm_apic_update_irr).
Posted == IF on THEN pir ELSE {}
RequestFor(taken) ==
    IF ~apicv /\ Highest(taken \ irr) > Highest(irr) THEN {"EVENT"} ELSE {}
Sync ==
    /\ on' = FALSE
    /\ pir' = pir \ Posted
    /\ rvi' = IF apicv THEN Highest(irr \cup Posted) ELSE rvi

Top ==
    /\ pc = "top"
    /\ immediate' = FALSE
    /\ requests' = IF halted THEN requests ELSE requests \ {"APICV_UPDATE"}
    /\ pc' = IF halted THEN "block"
             ELSE IF "APICV_UPDATE" \in requests THEN "apicv" ELSE "event"
    /\ UNCHANGED <<mode, event, halted, hltOff, iflag, window, why, apicVars, apicvVars,
                   ipi, asleep, sender, posts>>

\* Mutant: disabling APICv requests no event.
UpdateApicv_Silent ==
    /\ pc = "apicv" /\ toggler = "idle"
    /\ apicv' = ~inhibited
    /\ pc' = "event"
    /\ UNCHANGED <<mode, event, immediate, halted, hltOff, iflag, window, why, apicVars, td,
                   inhibited, toggler, toggles, requests, ipi, asleep, sender, posts>>

\* __kvm_vcpu_update_apicv, with apicv_update_lock for reading.
UpdateApicv ==
    /\ pc = "apicv" /\ toggler = "idle"
    /\ apicv' = ~inhibited
    /\ requests' = IF apicv /\ inhibited THEN requests \cup {"EVENT"} ELSE requests
    /\ pc' = "event"
    /\ UNCHANGED <<mode, event, immediate, halted, hltOff, iflag, window, why, apicVars, td,
                   inhibited, toggler, toggles, ipi, asleep, sender, posts>>

NoEvent ==
    /\ pc = "event" /\ "EVENT" \notin requests
    /\ pc' = "enter"
    /\ UNCHANGED <<mode, event, immediate, halted, hltOff, iflag, window, why, apicVars,
                   apicvVars, requests, ipi, asleep, sender, posts>>

\* kvm_check_and_inject_events.  With APICv there is nothing to inject but what
\* an exit interrupted, and that is re-injected first in any case.
InjectNothing ==
    /\ pc = "event" /\ "EVENT" \in requests /\ (apicv \/ td)
    /\ requests' = requests \ {"EVENT"}
    /\ pc' = "enter"
    /\ UNCHANGED <<mode, event, immediate, halted, hltOff, iflag, window, why, apicVars,
                   apicvVars, ipi, asleep, sender, posts>>

Inject ==
    /\ pc = "event" /\ "EVENT" \in requests /\ ~apicv /\ ~td
    /\ Sync
    /\ requests' = (requests \ {"EVENT"}) \cup RequestFor(Posted)
    /\ LET pending == irr \cup Posted IN
       \/ /\ ~Deliverable(pending)
          /\ irr' = pending
          /\ UNCHANGED <<isr, event, immediate, window>>
       \/ /\ Deliverable(pending) /\ event # NoVector  \* -EBUSY
          /\ irr' = pending
          /\ immediate' = TRUE
          /\ UNCHANGED <<isr, event, window>>
       \/ /\ Deliverable(pending) /\ event = NoVector /\ iflag
          /\ event' = Highest(pending)
          /\ irr' = pending \ {event'}
          /\ isr' = isr \cup {event'}
          /\ UNCHANGED <<immediate, window>>
       \/ /\ Deliverable(pending) /\ event = NoVector /\ ~iflag
          /\ irr' = pending
          /\ window' = TRUE
          /\ UNCHANGED <<isr, event, immediate>>
    /\ pc' = "enter"
    /\ UNCHANGED <<mode, halted, hltOff, iflag, why, begun, apicvVars, ipi, asleep, sender,
                   posts>>

\* Interrupts of the CPU stay off from here until the exit.
Enter ==
    /\ pc = "enter"
    /\ mode' = "IN_GUEST"
    /\ pc' = IF td THEN "gate" ELSE "clearOn"
    /\ UNCHANGED <<event, immediate, halted, hltOff, iflag, window, why, apicVars,
                   apicvVars, requests, ipi, asleep, sender, posts>>

\* Mutant: posted interrupts are synchronised only with APICv active.
ClearOn_Active ==
    /\ pc = "clearOn"
    /\ on' = (on /\ ~apicv)
    /\ IF on /\ apicv
       THEN pc' = "takePir" /\ UNCHANGED rvi
       ELSE pc' = "gate" /\ rvi' = IF apicv THEN Highest(irr) ELSE rvi
    /\ UNCHANGED <<mode, event, immediate, halted, hltOff, iflag, window, why, pir, irr, isr,
                   begun, apicvVars, requests, ipi, asleep, sender, posts>>

ClearOn ==
    /\ pc = "clearOn"
    /\ on' = FALSE
    /\ IF on
       THEN pc' = "takePir" /\ UNCHANGED rvi
       ELSE pc' = "gate" /\ rvi' = IF apicv THEN Highest(irr) ELSE rvi
    /\ UNCHANGED <<mode, event, immediate, halted, hltOff, iflag, window, why, pir, irr, isr,
                   begun, apicvVars, requests, ipi, asleep, sender, posts>>

TakePir ==
    /\ pc = "takePir"
    /\ pir' = {}
    /\ irr' = irr \cup pir
    /\ rvi' = IF apicv THEN Highest(irr') ELSE rvi
    /\ requests' = requests \cup RequestFor(pir)
    /\ pc' = "gate"
    /\ UNCHANGED <<mode, event, immediate, halted, hltOff, iflag, window, why, on, isr,
                   begun, apicvVars, ipi, asleep, sender, posts>>

\* Mutant: leaving before the entry, interrupts of the CPU stay off.
Cancel_IrqOff ==
    /\ pc = "gate" /\ (mode = "EXITING" \/ requests # {})
    /\ mode' = "OUTSIDE"
    /\ requests' = IF immediate \/ event # NoVector THEN requests \cup {"EVENT"} ELSE requests
    /\ pc' = "top"
    /\ UNCHANGED <<event, immediate, halted, hltOff, iflag, window, why, apicVars,
                   apicvVars, ipi, asleep, sender, posts>>

\* kvm_vcpu_exit_request.  A cancelled injection stays queued; enabling
\* interrupts takes the IPIs, whose handlers do nothing to the VCPU.
Cancel ==
    /\ pc = "gate" /\ (mode = "EXITING" \/ requests # {})
    /\ mode' = "OUTSIDE"
    /\ ipi' = {}
    /\ requests' = IF immediate \/ event # NoVector THEN requests \cup {"EVENT"} ELSE requests
    /\ pc' = "top"
    /\ UNCHANGED <<event, immediate, halted, hltOff, iflag, window, why, apicVars,
                   apicvVars, asleep, sender, posts>>

\* Mutant: tdx_vcpu_run enters the TD without looking at the descriptor.
VmEntry_NoIpi ==
    /\ pc = "gate" /\ mode # "EXITING" /\ requests = {}
    /\ requests' = IF immediate THEN {"EVENT"} ELSE {}
    /\ pc' = "guest"
    /\ UNCHANGED <<mode, event, immediate, halted, hltOff, iflag, window, why, apicVars,
                   apicvVars, ipi, asleep, sender, posts>>

\* tdx_vcpu_run sends the notification to itself; it arrives in the guest.
VmEntry ==
    /\ pc = "gate" /\ mode # "EXITING" /\ requests = {}
    /\ requests' = IF immediate THEN {"EVENT"} ELSE {}
    /\ ipi' = IF td /\ on THEN ipi \cup {"notify"} ELSE ipi
    /\ pc' = "guest"
    /\ UNCHANGED <<mode, event, immediate, halted, hltOff, iflag, window, why, apicVars,
                   apicvVars, asleep, sender, posts>>

(***************************************************************************)
(* Guest mode (the hardware, the TDX module and the guest).                *)
(***************************************************************************)
Exit(reason) == pc' = "exited" /\ why' = reason
Recognised == (apicv \/ td) /\ iflag /\ rvi > Highest(isr)
\* an instruction of the guest retires
Runs == pc = "guest" /\ event = NoVector /\ ~immediate /\ ~Recognised /\ ~(window /\ iflag)

EventDelivered ==
    /\ pc = "guest" /\ event # NoVector
    /\ event' = NoVector
    /\ begun' = begun \cup {event}
    /\ iflag' = FALSE
    /\ UNCHANGED <<pc, mode, immediate, halted, hltOff, window, why, pir, on, irr, isr, rvi,
                   apicvVars, requests, ipi, asleep, sender, posts>>

\* Delivering the event exits (an EPT violation on the guest's stack).
EventFaults ==
    /\ pc = "guest" /\ event # NoVector
    /\ Exit("none")
    /\ UNCHANGED <<mode, event, immediate, halted, hltOff, iflag, window, apicVars,
                   apicvVars, requests, ipi, asleep, sender, posts>>

\* Posted-interrupt processing.
GuestNotified ==
    /\ pc = "guest" /\ event = NoVector /\ (apicv \/ td) /\ "notify" \in ipi
    /\ ipi' = ipi \ {"notify"}
    /\ on' = FALSE /\ pir' = {}
    /\ irr' = irr \cup pir
    /\ rvi' = Max({rvi} \cup pir)
    /\ UNCHANGED <<vcpuVars, isr, begun, apicvVars, requests, asleep, sender, posts>>

GuestInterrupted ==
    /\ pc = "guest" /\ event = NoVector
    /\ ipi \cap {"kick", "call"} # {} \/ ("notify" \in ipi /\ ~apicv /\ ~td)
    /\ Exit("irq")
    /\ UNCHANGED <<mode, event, immediate, halted, hltOff, iflag, window, apicVars,
                   apicvVars, requests, ipi, asleep, sender, posts>>

GuestLeaves ==
    /\ pc = "guest" /\ event = NoVector
    /\ \/ immediate /\ Exit("preempt")
       \/ window /\ iflag /\ Exit("window")
    /\ UNCHANGED <<mode, event, immediate, halted, hltOff, iflag, window, apicVars,
                   apicvVars, requests, ipi, asleep, sender, posts>>

\* Virtual interrupt delivery.
GuestTakes ==
    /\ pc = "guest" /\ event = NoVector /\ ~immediate /\ Recognised
    /\ irr' = irr \ {rvi}
    /\ isr' = isr \cup {rvi}
    /\ begun' = begun \cup {rvi}
    /\ rvi' = Highest(irr')
    /\ iflag' = FALSE
    /\ UNCHANGED <<pc, mode, event, immediate, halted, hltOff, window, why, pir, on,
                   apicvVars, requests, ipi, asleep, sender, posts>>

GuestSetsIf ==
    /\ Runs
    /\ iflag' = ~iflag
    /\ UNCHANGED <<pc, mode, event, immediate, halted, hltOff, window, why, apicVars,
                   apicvVars, requests, ipi, asleep, sender, posts>>

\* Without APICv the write to the APIC's EOI register exits.
GuestEoi ==
    /\ Runs /\ isr # {}
    /\ isr' = isr \ {Max(isr)}
    /\ begun' = begun \ {Max(isr)}
    /\ IF apicv \/ td THEN UNCHANGED <<pc, why>> ELSE Exit("eoi")
    /\ UNCHANGED <<mode, event, immediate, halted, hltOff, iflag, window, pir, on, irr, rvi,
                   apicvVars, requests, ipi, asleep, sender, posts>>

\* HLT with interrupts on; a TD says so with its call instead (tdx_emulate_hlt).
GuestHlt ==
    /\ Runs /\ isr = {}
    /\ iflag \/ td
    /\ hltOff' \in IF td /\ ~iflag THEN BOOLEAN ELSE {FALSE}
    /\ Exit("hlt")
    /\ UNCHANGED <<mode, event, immediate, halted, iflag, window, apicVars, apicvVars,
                   requests, ipi, asleep, sender, posts>>

(***************************************************************************)
(* After an exit, and blocking.                                            *)
(***************************************************************************)
\* Mutant: an event whose delivery was interrupted is forgotten.
Exited_Forget ==
    /\ pc = "exited"
    /\ mode' = "OUTSIDE"
    /\ event' = NoVector
    /\ ipi' = {}
    /\ pc' = "handle"
    /\ UNCHANGED <<immediate, halted, hltOff, iflag, window, why, apicVars, apicvVars,
                   requests, asleep, sender, posts>>

\* vmx_complete_interrupts keeps an event whose delivery was interrupted.
Exited ==
    /\ pc = "exited"
    /\ mode' = "OUTSIDE"
    /\ requests' = IF event # NoVector THEN requests \cup {"EVENT"} ELSE requests
    /\ ipi' = {}
    /\ pc' = "handle"
    /\ UNCHANGED <<event, immediate, halted, hltOff, iflag, window, why, apicVars,
                   apicvVars, asleep, sender, posts>>

HandleExit ==
    /\ pc = "handle"
    /\ halted' = (halted \/ why = "hlt")
    /\ window' = (window /\ why # "window")
    /\ requests' = IF why \in {"window", "eoi"} THEN requests \cup {"EVENT"} ELSE requests
    /\ why' = "none"
    /\ pc' = "top"
    /\ UNCHANGED <<mode, event, immediate, hltOff, iflag, apicVars, apicvVars, ipi, asleep,
                   sender, posts>>

\* kvm_vcpu_block: the thread's state changes before the conditions are read.
Block ==
    /\ pc = "block"
    /\ asleep' = TRUE
    /\ pc' = "check"
    /\ UNCHANGED <<mode, event, immediate, halted, hltOff, iflag, window, why, apicVars,
                   apicvVars, requests, ipi, sender, posts>>

\* Mutant: a TD that halted with interrupts disabled waits for none.
TdHasInterrupt_Off == ~hltOff /\ (on \/ rvi > Highest(isr))

\* kvm_vcpu_has_events for a TD: tdx_protected_apic_has_interrupt.
TdHasInterrupt == on \/ (~hltOff /\ rvi > Highest(isr))

CheckTd ==
    /\ pc = "check" /\ td
    /\ asleep' = (asleep /\ ~TdHasInterrupt)
    /\ pc' = IF TdHasInterrupt THEN "unblock" ELSE "sleep"
    /\ UNCHANGED <<mode, event, immediate, halted, hltOff, iflag, window, why, apicVars,
                   apicvVars, requests, ipi, sender, posts>>

\* Mutant: what is posted is not looked at.
Check_NoSync ==
    /\ pc = "check" /\ ~td
    /\ asleep' = (asleep /\ ~(iflag /\ Deliverable(irr)))
    /\ pc' = IF iflag /\ Deliverable(irr) THEN "unblock" ELSE "sleep"
    /\ UNCHANGED <<mode, event, immediate, halted, hltOff, iflag, window, why, apicVars,
                   apicvVars, requests, ipi, sender, posts>>

\* ... for any other VCPU: kvm_arch_interrupt_allowed, then the APIC's answer.
Check ==
    /\ pc = "check" /\ ~td
    /\ IF iflag
       THEN /\ Sync
            /\ irr' = irr \cup Posted
            /\ requests' = requests \cup RequestFor(Posted)
            /\ asleep' = (asleep /\ ~Deliverable(irr'))
            /\ pc' = IF Deliverable(irr') THEN "unblock" ELSE "sleep"
       ELSE /\ pc' = "sleep"
            /\ UNCHANGED <<pir, on, irr, rvi, requests, asleep>>
    /\ UNCHANGED <<mode, event, immediate, halted, hltOff, iflag, window, why, isr,
                   begun, apicvVars, ipi, sender, posts>>

Wake ==
    /\ pc = "sleep" /\ ~asleep
    /\ pc' = "block"
    /\ UNCHANGED <<mode, event, immediate, halted, hltOff, iflag, window, why, apicVars,
                   apicvVars, requests, ipi, asleep, sender, posts>>

Unblock ==
    /\ pc = "unblock"
    /\ halted' = FALSE
    /\ pc' = "top"
    /\ UNCHANGED <<mode, event, immediate, hltOff, iflag, window, why, apicVars, apicvVars,
                   requests, ipi, asleep, sender, posts>>

(***************************************************************************)
Delivery(v) == \/ Deliver(v) \/ SetOn(v) \/ ReadMode(v) \/ Notify(v)
               \/ SetIrr(v) \/ MakeRequest(v) \/ WakeUp(v) \/ Kick(v)
Going(v) == sender[v] # "idle" /\ Delivery(v)
Toggle == ToggleKick \/ ToggleAcked \/ ToggleFlip
Thread == \/ Top \/ UpdateApicv \/ NoEvent \/ InjectNothing \/ Inject \/ Enter \/ ClearOn
          \/ TakePir \/ Cancel \/ VmEntry \/ Exited \/ HandleExit
          \/ Block \/ CheckTd \/ Check \/ Wake \/ Unblock
Hardware == GuestNotified \/ GuestInterrupted \/ GuestLeaves \/ GuestTakes
Guest == GuestSetsIf \/ GuestEoi \/ GuestHlt

Next == \/ \E v \in Vectors : Delivery(v)
        \/ ToggleStart \/ Toggle
        \/ Thread \/ Hardware \/ EventDelivered \/ EventFaults \/ Guest

Spec == Init /\ [][Next]_vars

\* Threads run, the CPU acts on what it was sent (a notification that is there
\* at the entry not after any number of instructions), a guest that has
\* interrupts off turns them on again and ends what it serves, and an event
\* that keeps faulting is delivered in the end.
FairSpec ==
    /\ Spec
    /\ \A v \in Vectors : WF_vars(Going(v))
    /\ WF_vars(Toggle) /\ WF_vars(Thread) /\ WF_vars(Hardware)
    /\ SF_vars(GuestNotified) /\ SF_vars(EventDelivered)
    /\ SF_vars(GuestSetsIf /\ iflag') /\ SF_vars(GuestEoi)

(***************************************************************************)
(* Properties                                                              *)
(***************************************************************************)
Pending == pir \cup irr
OnTheWay == \E v \in Vectors : sender[v] # "idle"

\* A VCPU runs the guest with APICv as the VM has it: the toggler flips only
\* once the VCPU is out, and the VCPU returns only past apicv_update_lock (the
\* WARN_ON_ONCE of vcpu_enter_guest).
ApicvAgrees == pc = "guest" /\ ~td => apicv = ~inhibited

\* An interrupt the running guest could take does not stay where the CPU does
\* not look: it is in RVI, or an IPI, a request or a sender is about to have the
\* descriptor or the APIC looked at.
Noticed ==
    pc = "guest" /\ ~OnTheWay /\ ipi = {} /\ requests = {}
        => /\ pir = {}
           /\ apicv \/ td => rvi = Highest(irr)
           /\ ~apicv /\ ~td /\ event = NoVector /\ Deliverable(irr) => window

\* A VCPU does not sleep on an interrupt that would have kept it awake, once
\* every sender is done.
NoLostWakeup ==
    pc = "sleep" /\ asleep /\ ~OnTheWay
        => /\ pir = {}
           /\ ~td /\ iflag => ~Deliverable(irr)
           /\ td /\ ~hltOff => ~Deliverable(irr)

\* What the APIC counts as being served is what the guest serves, and the one
\* event that waits to be (re-)injected: no cancelled or interrupted entry, and
\* no later interrupt, loses an interrupt that was acknowledged.
ServedIsReal ==
    /\ isr = begun \cup ({event} \ {NoVector})
    /\ event \notin begun

\* No interrupt of a VCPU is lost or stranded, whatever the senders, the change of the
\* inhibition and the VCPU's thread do in between.
InterruptsKept == TypeOK /\ ApicvAgrees /\ Noticed /\ ServedIsReal

\* A delivered interrupt has to reach the guest, across halts, kicks and changes of
\* APICv (a TD that halted with interrupts disabled does not count).
Waits(v) == v \in pir \cup irr
Taken(v) == v \in isr \/ (halted /\ hltOff)

\* A change of the inhibition has to end: it does not wait for ever for a VCPU.
Changing == toggler # "idle"
=============================================================================
