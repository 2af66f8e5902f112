------------------------- MODULE MCProgressServices -------------------------
(***************************************************************************)
(* Liveness of everything but the hosts' functions for TLC: the RMM's      *)
(* commands (RttLocking), the module loader (ModuleLoader), the audit      *)
(* queues (AuditQueue), interrupts (VcpuRun, EventInjection) and the ring  *)
(* (TdRing).  The modules share no state: system says which of them a      *)
(* behaviour is about, the others stay where they start.                   *)
(***************************************************************************)
EXTENDS MCRttLocking

CONSTANTS p1, p2, x1, o1, o2, a, b, t1, d1, w1, q1, None

VARIABLES system,
          lpc, name, mine, file, lasleep, ret, idem, mutex, mod, listed, holds, logPage,
          lcalls,
          queue, retry, hold, conn, enabled, k, reset, tpc, stime, serial, dpc, op,
          ctl, waitq, alive, issued, requests, mcast, got, gone,
          vpc, mode, vrequests, ipi, pir, on, irr, isr, begun, rvi, event, immediate,
          td, apicv, inhibited, toggler, halted, vasleep, hltOff, iflag, window, why, sender,
          posts, toggles,
          ipc, irequests, nmiQueued, nmiPending, nmiInjected, excPending, excInjected,
          vector, irqInjected, interrupt, canInject, forced, entry, windows, blocked,
          shadow, knownUnmasked, softBlocked, guestIf, frames, iretsMet, exit, nmis, irqs,
          exits,
          head, tail, mem, rpc, rat, pages, buffer, rcalls, sent, rgot, lapped

\* The page outside the protected range: two CPUs on the same tables.
MCReturning == {[c EXCEPT !.addr = 2] : c \in
    {Command("rtt_create", 0, 3), Command("rtt_fold", 0, 3), Command("rtt_destroy", 0, 3),
     Command("map_unprotected", 0, 3), Command("unmap_unprotected", 0, 3)}}

Loader == INSTANCE ModuleLoader WITH
    Procs <- {p1, p2}, Users <- {x1}, Objs <- {o1, o2}, Names <- {a, b},
    Needs <- (a :> {}) @@ (b :> {a}), MaxCalls <- 2,
    PageFails <- FALSE, RoFails <- FALSE, pc <- lpc, asleep <- lasleep, calls <- lcalls

\* Auditing is switched on and off; the next record takes the held ones along.
Audit == INSTANCE AuditQueue WITH
    Tasks <- {t1}, Daemons <- {d1}, Nobody <- None, Limit <- 1, Retries <- 2, WaitTime <- 1,
    Default <- TRUE, MaxRecords <- 2, MaxRequests <- 2, Ops <- {"register"},
    Lossy <- FALSE, Congested <- FALSE, Reuse <- FALSE

\* A vector and a change of the inhibition for a VMX guest, two vectors for a TD.
Vmx == INSTANCE VcpuRun WITH
    Vectors <- {1}, MaxPosts <- 2, MaxToggles <- 1,
    pc <- vpc, requests <- vrequests, asleep <- vasleep
Tdx == INSTANCE VcpuRun WITH
    Vectors <- {1, 2}, MaxPosts <- 1, MaxToggles <- 0,
    pc <- vpc, requests <- vrequests, asleep <- vasleep

\* With and without virtual NMIs.
Virtual == INSTANCE EventInjection WITH
    Vnmi <- TRUE, Faults <- {}, IretExits <- {}, MaxNmis <- 2, MaxIrqs <- 1, MaxExits <- 1
Soft == INSTANCE EventInjection WITH
    Vnmi <- FALSE, Faults <- {}, IretExits <- {}, MaxNmis <- 2, MaxIrqs <- 1, MaxExits <- 1

Ring == INSTANCE TdRing WITH
    PAGE_SIZE <- 4, RING_PAGES <- 3, DATA_PAGES <- 2, Writers <- {w1}, Readers <- {q1},
    MAX_CALLS <- 2, pc <- rpc, at <- rat, calls <- rcalls, got <- rgot

ASSUME /\ Loader!LoaderAssumption /\ Audit!AuditAssumption
       /\ Vmx!RunAssumption /\ Tdx!RunAssumption
       /\ Virtual!InjectionAssumption /\ Soft!InjectionAssumption

rmmVars == <<vars, locked, cpu>>
loaderVars == <<lpc, name, mine, file, lasleep, ret, idem, mutex, mod, listed, holds,
                logPage, lcalls>>
auditVars == <<queue, retry, hold, conn, enabled, k, reset, tpc, stime, serial, dpc, op,
               ctl, waitq, alive, issued, requests, mcast, got, gone>>
runVars == <<vpc, mode, vrequests, ipi, pir, on, irr, isr, begun, rvi, event, immediate,
             td, apicv, inhibited, toggler, halted, vasleep, hltOff, iflag, window, why,
             sender, posts, toggles>>
eventVars == <<ipc, irequests, nmiQueued, nmiPending, nmiInjected, excPending,
               excInjected, vector, irqInjected, interrupt, canInject, forced, entry,
               windows, blocked, shadow, knownUnmasked, softBlocked, guestIf, frames,
               iretsMet, exit, nmis, irqs, exits>>
ringVars == <<head, tail, mem, rpc, rat, pages, buffer, rcalls, sent, rgot, lapped>>

ProgressInit ==
    /\ system \in {"rmm", "loader", "audit", "drain", "vmx", "tdx", "virtual", "soft", "ring"}
    /\ LInit /\ Loader!Init /\ Audit!AuditInit /\ Virtual!InjectInit /\ Ring!Init
    /\ IF system = "tdx" THEN Tdx!Init /\ td ELSE Vmx!Init /\ ~td

ProgressNext ==
    /\ UNCHANGED system
    /\ \/ /\ system = "rmm" /\ LNext
          /\ UNCHANGED <<loaderVars, auditVars, runVars, eventVars, ringVars>>
       \/ /\ system = "loader" /\ Loader!Next
          /\ UNCHANGED <<rmmVars, auditVars, runVars, eventVars, ringVars>>
       \/ /\ system \in {"audit", "drain"} /\ Audit!AuditNext
          /\ UNCHANGED <<rmmVars, loaderVars, runVars, eventVars, ringVars>>
       \/ /\ \/ system = "vmx" /\ Vmx!Next
             \/ system = "tdx" /\ Tdx!Next
          /\ UNCHANGED <<rmmVars, loaderVars, auditVars, eventVars, ringVars>>
       \/ /\ \/ system = "virtual" /\ Virtual!InjectNext
             \/ system = "soft" /\ Soft!InjectNext
          /\ UNCHANGED <<rmmVars, loaderVars, auditVars, runVars, ringVars>>
       \/ /\ system = "ring" /\ Ring!Next
          /\ UNCHANGED <<rmmVars, loaderVars, auditVars, runVars, eventVars>>

\* The fairness of each module, while it is the one that moves.
RmmFairness == WF_rmmVars(system = "rmm" /\ \E c \in Cpus : Advance(c))

LoaderFairness == \A p \in {p1, p2} :
    WF_loaderVars(system = "loader" /\ (Loader!LoadStep(p) \/ Loader!InitStep(p)))

Audits == system \in {"audit", "drain"}
AuditFairness ==
    /\ WF_auditVars(Audits /\ Audit!KauditdStep)
    /\ \A f \in {d1, Audit!Kauditd} : WF_auditVars(Audits /\ Audit!ResetStep(f))
    /\ WF_auditVars(Audits /\ Audit!TaskStep(t1))
    /\ WF_auditVars(Audits /\ Audit!DaemonStep(d1))

Runs(vmx, tdx) == (system = "vmx" /\ vmx) \/ (system = "tdx" /\ tdx)
VcpuFairness ==
    /\ \A v \in {1, 2} : WF_runVars(Runs(v = 1 /\ Vmx!Going(v), Tdx!Going(v)))
    /\ WF_runVars(Runs(Vmx!Toggle, Tdx!Toggle))
    /\ WF_runVars(Runs(Vmx!Thread, Tdx!Thread))
    /\ WF_runVars(Runs(Vmx!Hardware, Tdx!Hardware))
    /\ SF_runVars(Runs(Vmx!GuestNotified, Tdx!GuestNotified))
    /\ SF_runVars(Runs(Vmx!EventDelivered, Tdx!EventDelivered))
    /\ SF_runVars(Runs(Vmx!GuestSetsIf, Tdx!GuestSetsIf) /\ iflag')
    /\ SF_runVars(Runs(Vmx!GuestEoi, Tdx!GuestEoi))

Injects(virtual, soft) == (system = "virtual" /\ virtual) \/ (system = "soft" /\ soft)
EventFairness ==
    /\ WF_eventVars(Injects(Virtual!Kvm, Soft!Kvm))
    /\ WF_eventVars(Injects(Virtual!Processor, Soft!Processor))
    /\ SF_eventVars(Injects(Virtual!Iret, Soft!Iret))
    /\ SF_eventVars(Injects(Virtual!Instruction, Soft!Instruction) /\ guestIf' /\ shadow')
    /\ SF_eventVars(Injects(Virtual!Instruction, Soft!Instruction) /\ guestIf' /\ ~shadow')

RingFairness ==
    /\ WF_ringVars(system = "ring" /\ Ring!WriteStep(w1))
    /\ WF_ringVars(system = "ring" /\ Ring!ReadStep(q1))

ProgressSpec ==
    /\ ProgressInit
    /\ [][ProgressNext]_<<system, rmmVars, loaderVars, auditVars, runVars, eventVars, ringVars>>
    /\ RmmFairness /\ LoaderFairness /\ AuditFairness /\ VcpuFairness
    /\ EventFairness /\ RingFairness

\* What somebody waits for in each system, and when it is over.
Waiting(i) ==
    CASE system = "rmm" -> i = 1 /\ \A c \in Cpus : Busy(c)
      [] system = "loader" -> i = 1 /\ Loader!InCall(p1)
      [] system = "audit" -> <<tpc[t1] # "idle", dpc[d1] # "idle">>[i]
      [] system = "drain" -> i = 1 /\ Audit!Held
      [] system = "vmx" -> <<Vmx!Waits(1), Vmx!Changing>>[i]
      [] system = "tdx" -> Tdx!Waits(i)
      [] system = "ring" -> i = 1 /\ Ring!InWrite(w1)
      [] OTHER -> <<Virtual!NmiWaits, Virtual!InterruptWaits>>[i]
Over(i) ==
    CASE system = "rmm" -> \E c \in Cpus : ~Busy(c)
      [] system = "drain" -> Audit!Drained
      [] system = "vmx" /\ i = 1 -> Vmx!Taken(1)
      [] system = "tdx" -> Tdx!Taken(i)
      [] OTHER -> ~Waiting(i)

\* While every CPU of the RMM is in a command, one of them returns; a call of the
\* module loader comes back; a task that logs, a daemon's request and, at the next
\* record, the held records of a connected daemon get on; a delivered interrupt and
\* an NMI reach the guest, and a change of the APICv inhibition ends; a writer of
\* the ring returns.
ServicesGetOn == \A i \in 1 .. 2 : Waiting(i) ~> Over(i)
=============================================================================
