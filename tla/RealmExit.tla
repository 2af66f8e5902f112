----------------------------- MODULE RealmExit -----------------------------
(***************************************************************************)
(* What the RMM does when a realm's VCPU (a REC) stops running: it handles *)
(* the exception and lets the realm go on, injects an exception into the   *)
(* realm, or reports an exit to the host (rmm/runtime/core/exit.c:         *)
(* handle_realm_exit and what it calls), and how it keeps the SIMD         *)
(* registers of the host, of the realm and its own use of them apart       *)
(* (handle_simd_exception, handle_realm_rsi; handle_ns_smc in handler.c).  *)
(*                                                                         *)
(* REC_ENTER itself, the RSI handlers and the SIMD library are not in the  *)
(* repository.  One page is in the realm's protected space ("par"), one    *)
(* outside ("out").  The realm's data are the value "data".                *)
(***************************************************************************)
EXTENDS Naturals, FiniteSets

CONSTANTS Sve,        \* realm_info.simd_cfg.sve_en
          UsesFpu,    \* RMM_FPU_USE_AT_REL2
          MaxRipas    \* bound: times the realm changes its page's RIPAS

RealmExitAssumption == {Sve, UsesFpu} \subseteq BOOLEAN /\ MaxRipas \in Nat

VARIABLES
    where,      \* "host", "rmi" (an RMI command), "realm", "rmm" (handle_realm_exit)
    active,     \* rec->active_simd_ctx: "ns" or "rec"
    cptr,       \* the REC may use SIMD without a trap
    regs,       \* whose values the SIMD registers hold
    saved,      \* whose values each saved context holds, "none" when it is not saved
    streaming,  \* the host entered with PSTATE.SM
    ripas,      \* of the page "par"
    mapped,     \* pages the stage 2 tables map
    blocked,    \* RMI_IPA_BLOCK took the permissions of the page "par"
    trap,       \* the instruction that trapped and how it is reported
    injected,   \* what was injected into the realm for it
    exit,       \* struct rmi_rec_exit
    fixes       \* RIPAS changes

vars == <<where, active, cptr, regs, saved, streaming, ripas, mapped, blocked, trap, injected, exit,
          fixes>>
simd == <<active, cptr, regs, saved, streaming>>
memory == <<ripas, mapped, blocked, fixes>>

Contexts == {"ns", "rec"}
RecSaved == [ns |-> "none", rec |-> "rec"]
HostSaved == [ns |-> "ns", rec |-> "none"]
NoTrap == [op |-> "none", ipa |-> "par", ec |-> "none", aa32 |-> FALSE]
NoExit == [reason |-> "none", esr |-> "none", ipa |-> "none", value |-> "zero"]

TypeOK ==
    /\ where \in {"host", "rmi", "realm", "rmm"}
    /\ active \in Contexts /\ {cptr, streaming} \subseteq BOOLEAN
    /\ regs \in Contexts \cup {"rmm", "none"}
    /\ saved \in [Contexts -> Contexts \cup {"rmm", "none"}]
    /\ ripas \in {"ram", "empty", "destroyed"} /\ mapped \subseteq {"par", "out"}
    /\ blocked \in BOOLEAN
    /\ trap \in [op : {"none", "read", "write", "fetch", "fpu", "sve", "sme", "rsi", "rsiPage",
                       "attest", "wfx", "hvc", "sysreg", "irq", "serror"},
                 ipa : {"par", "out"},
                 ec : {"none", "data", "inst", "FPU", "SVE", "SME", "SMC", "other", "sea"},
                 aa32 : BOOLEAN]
    /\ injected \in {"none", "sea", "undef", "serror"}
    /\ exit \in [reason : {"none", "sync", "irq", "serror"},
                 esr : {"none", "bare", "emulated", "fault"},
                 ipa : {"none", "par", "out"}, value : {"zero", "data"}]
    /\ fixes \in 0 .. MaxRipas

Init ==
    /\ where = "host" /\ active = "ns" /\ cptr = FALSE /\ regs = "ns"
    /\ saved = RecSaved /\ streaming \in BOOLEAN
    /\ ripas = "ram" /\ mapped = {} /\ blocked = FALSE /\ trap = NoTrap /\ injected = "none" /\ exit = NoExit
    /\ fixes = 0

(***************************************************************************)
(* The host: RMI commands (handle_ns_smc), the tables, REC_ENTER.          *)
(***************************************************************************)
\* simd_context_save, simd_context_restore, simd_context_switch
Save(ctx) == saved' = [saved EXCEPT ![ctx] = regs] /\ regs' = "rmm"
Restore(ctx) == saved' = [saved EXCEPT ![ctx] = "none"] /\ regs' = saved[ctx]
Switch(from, to) == /\ saved' = [saved EXCEPT ![from] = regs, ![to] = "none"]
                    /\ regs' = saved[to]

\* A command that computes measurements saves the host's registers first.
RmiBegin == /\ where = "host" /\ UsesFpu
            /\ Save("ns")
            /\ where' = "rmi"
            /\ UNCHANGED <<active, cptr, streaming, memory, trap, injected, exit>>

RmiEnd == /\ where = "rmi"
          /\ Restore("ns")
          /\ where' = "host"
          /\ UNCHANGED <<active, cptr, streaming, memory, trap, injected, exit>>

\* The host maps what it was told is missing, or takes a page away.
HostMaps == /\ where = "host" /\ exit.ipa # "none" /\ exit.esr \in {"fault", "emulated"}
            /\ (exit.ipa = "par" => ripas = "ram")
            /\ mapped' = mapped \cup {exit.ipa}
            /\ exit' = NoExit
            /\ UNCHANGED <<where, simd, ripas, blocked, fixes, trap, injected>>

HostUnmaps == /\ where = "host" /\ fixes < MaxRipas
              /\ fixes' = fixes + 1
              /\ \E ipa \in mapped :
                    /\ mapped' = mapped \ {ipa}
                    /\ blocked' = (blocked /\ ipa # "par")
                    /\ ripas' \in IF ipa = "par" THEN {ripas, "destroyed"} ELSE {ripas}
              /\ UNCHANGED <<where, simd, trap, injected, exit>>

\* The realm asked for this with RSI_IPA_STATE_SET.
HostSetsRipas == /\ where = "host" /\ fixes < MaxRipas
                 /\ fixes' = fixes + 1
                 /\ ripas' \in {"ram", "empty"} \ {ripas}
                 /\ mapped' = mapped \ {"par"}
                 /\ blocked' = FALSE
                 /\ UNCHANGED <<where, simd, trap, injected, exit>>

HostBlocks == /\ where = "host" /\ "par" \in mapped /\ ripas = "ram"
              /\ blocked' = ~blocked
              /\ UNCHANGED <<where, simd, ripas, mapped, fixes, trap, injected, exit>>

RecEnter == /\ where = "host"
            /\ where' = "realm"
            /\ exit' = NoExit /\ trap' = NoTrap /\ injected' = "none"
            /\ UNCHANGED <<simd, memory>>

\* The end of REC_ENTER: the host gets its own registers back.
RecExit == IF active = "rec"
           THEN /\ Switch("rec", "ns")
                /\ active' = "ns" /\ cptr' = FALSE
                /\ UNCHANGED streaming
           ELSE UNCHANGED simd

(***************************************************************************)
(* The realm.                                                              *)
(***************************************************************************)
Traps(op, ipa, ec, aa32) ==
    /\ trap' = [op |-> op, ipa |-> ipa, ec |-> ec, aa32 |-> aa32]
    /\ where' = "rmm"
    /\ injected' = "none"

Access == /\ where = "realm"
          /\ \E op \in {"read", "write", "fetch"}, aa32 \in BOOLEAN,
                ipa \in ({"par", "out"} \ mapped) \cup (IF blocked THEN {"par"} ELSE {}) :
                Traps(op, ipa, IF op = "fetch" THEN "inst" ELSE "data", aa32)
          /\ UNCHANGED <<simd, memory, exit>>

\* Without a trap the realm computes with the registers.
UsesSimd == /\ where = "realm"
            /\ \E op \in {"fpu", "sve", "sme"} :
                  /\ op = "sme" \/ ~cptr \/ (op = "sve" /\ ~Sve)
                  /\ Traps(op, "par",
                           CASE op = "fpu" -> "FPU"
                             [] op = "sme" \/ (streaming /\ active = "ns") -> "SME"
                             [] OTHER -> "SVE", FALSE)
            /\ UNCHANGED <<simd, memory, exit>>

OtherTrap == /\ where = "realm"
             /\ \/ \E op \in {"rsi", "rsiPage", "attest"} : Traps(op, "par", "SMC", FALSE)
                \/ \E op \in {"wfx", "hvc", "sysreg", "irq", "serror"} :
                      Traps(op, "par", "other", FALSE)
                \/ \E op \in {"read", "fetch"} : Traps(op, "par", "sea", FALSE)
             /\ UNCHANGED <<simd, memory, exit>>

(***************************************************************************)
(* handle_realm_exit                                                       *)
(***************************************************************************)
Handling(ec) == where = "rmm" /\ trap.ec = ec
ToRealm == where' = "realm" /\ UNCHANGED exit
ToHost(reason, esr, ipa, value) ==
    /\ where' = "host"
    /\ exit' = [reason |-> reason, esr |-> esr, ipa |-> ipa, value |-> value]
Inject(what) == injected' = what
Protected == trap.ipa = "par"       \* access_in_rec_par
Empty == Protected /\ ripas = "empty"  \* ipa_is_empty

\* handle_sync_external_abort: a restartable one is reported, a recoverable one
\* injected as well.
ExternalAbort == /\ Handling("sea")
                 /\ injected' \in {"none", "sea"}
                 /\ ToHost("sync", "bare", "none", "zero")
                 /\ RecExit
                 /\ UNCHANGED <<memory, trap>>

\* Mutant: only the protected space hides the written value.
Opaque_Aa64 == Protected

\* fixup_aarch32_data_abort, or an access in the protected space
Opaque == trap.aa32 \/ Protected

\* Mutant: the syndrome is not masked.
DataAbort_Raw ==
    /\ Handling("data") /\ ~Empty
    /\ ToHost("sync", "raw", trap.ipa, "zero")
    /\ RecExit
    /\ UNCHANGED <<injected, memory, trap>>

DataAbort == /\ Handling("data")
             /\ \/ /\ Empty
                   /\ Inject("sea") /\ ToRealm
                   /\ UNCHANGED simd
                \/ /\ ~Empty
                   /\ IF Opaque THEN ToHost("sync", "fault", trap.ipa, "zero")
                      ELSE ToHost("sync", "emulated", trap.ipa,
                                  IF trap.op = "write" THEN "data" ELSE "zero")
                   /\ RecExit
                   /\ UNCHANGED injected
             /\ UNCHANGED <<memory, trap>>

\* Mutant: a fetch of an empty page is reported to the host.
FetchRefused_Out == ~Protected

FetchRefused == ~Protected \/ Empty

\* A permission fault is "unhandled": the host is told nothing of it.
InstAbort == /\ Handling("inst")
             /\ \/ /\ FetchRefused
                   /\ Inject("sea") /\ ToRealm
                   /\ UNCHANGED simd
                \/ /\ ~FetchRefused
                   /\ IF blocked THEN ToHost("sync", "none", "none", "zero")
                      ELSE ToHost("sync", "fault", trap.ipa, "zero")
                   /\ RecExit
                   /\ UNCHANGED injected
             /\ UNCHANGED <<memory, trap>>

\* Mutant: an SME trap is always the realm's own doing.
SimdRefused_Sme == (trap.ec = "SVE" /\ ~Sve) \/ trap.ec = "SME"

\* Mutant: a realm without SVE gets no SIMD at all.
SimdRefused_All == ~Sve \/ (trap.ec = "SME" /\ active = "rec")

SimdRefused == \/ trap.ec = "SVE" /\ ~Sve
               \/ trap.ec = "SME" /\ (~Sve \/ active = "rec")

\* Mutant: the realm's flags are set, and its context is not restored.
SimdException_NoSwitch ==
    /\ where = "rmm" /\ trap.ec \in {"FPU", "SVE", "SME"}
    /\ \/ /\ SimdRefused
          /\ Inject("undef")
          /\ UNCHANGED simd
       \/ /\ ~SimdRefused
          /\ active' = "rec" /\ cptr' = TRUE
          /\ UNCHANGED <<regs, saved, streaming, injected>>
    /\ ToRealm
    /\ UNCHANGED <<memory, trap>>

\* Mutant: the REC's traps stay on.
SimdException_NoFlags ==
    /\ where = "rmm" /\ trap.ec \in {"FPU", "SVE", "SME"}
    /\ \/ /\ SimdRefused
          /\ Inject("undef")
          /\ UNCHANGED simd
       \/ /\ ~SimdRefused
          /\ Switch(active, "rec")
          /\ active' = "rec"
          /\ UNCHANGED <<cptr, streaming, injected>>
    /\ ToRealm
    /\ UNCHANGED <<memory, trap>>

\* handle_simd_exception
SimdException ==
    /\ where = "rmm" /\ trap.ec \in {"FPU", "SVE", "SME"}
    /\ \/ /\ SimdRefused
          /\ Inject("undef")
          /\ UNCHANGED simd
       \/ /\ ~SimdRefused
          /\ Switch(active, "rec")
          /\ active' = "rec" /\ cptr' = TRUE
          /\ UNCHANGED <<streaming, injected>>
    /\ ToRealm
    /\ UNCHANGED <<memory, trap>>

\* handle_realm_rsi: back to the realm, to the host, or a stage 2 fault on a page
\* of the realm that the call needs and the realm calls again.
Rsi == /\ Handling("SMC") /\ ~(trap.op = "attest" /\ UsesFpu)
       /\ \/ /\ trap.op = "rsi" \/ (trap.op = "rsiPage" /\ (Empty \/ "par" \in mapped))
             /\ \/ ToRealm /\ UNCHANGED simd
                \/ ToHost("sync", "bare", "none", "zero") /\ RecExit
          \/ /\ trap.op = "rsiPage" /\ ~Empty /\ "par" \notin mapped
             /\ ToHost("sync", "fault", "par", "zero")
             /\ RecExit
          \/ trap.op = "attest" /\ ToRealm /\ UNCHANGED simd
       /\ UNCHANGED <<memory, trap, injected>>

\* Mutant: the realm's context is saved, whoever used the registers.
RsiSave_Rec == /\ Handling("SMC") /\ trap.op = "attest" /\ UsesFpu /\ regs # "rmm"
               /\ Save("rec")
               /\ UNCHANGED <<where, active, cptr, streaming, memory, trap, injected, exit>>

\* An attestation or measurement computes with the registers itself ...
RsiSave == /\ Handling("SMC") /\ trap.op = "attest" /\ UsesFpu /\ regs # "rmm"
           /\ Save(active)
           /\ UNCHANGED <<where, active, cptr, streaming, memory, trap, injected, exit>>

\* ... and restores them, before it may also exit for a pending interrupt.
RsiRestore == /\ Handling("SMC") /\ trap.op = "attest" /\ UsesFpu /\ regs = "rmm"
              /\ Restore(active)
              /\ ToRealm
              /\ UNCHANGED <<active, cptr, streaming, memory, trap, injected>>

Other == /\ Handling("other")
         /\ \/ /\ trap.op = "hvc"
               /\ Inject("undef") /\ ToRealm /\ UNCHANGED simd
            \/ /\ trap.op = "sysreg"
               /\ ToRealm /\ UNCHANGED <<injected, simd>>
            \/ /\ trap.op \in {"wfx", "irq"}
               /\ ToHost(IF trap.op = "irq" THEN "irq" ELSE "sync",
                         IF trap.op = "irq" THEN "none" ELSE "bare", "none", "zero")
               /\ RecExit
               /\ UNCHANGED injected
            \/ /\ trap.op = "serror"
               /\ injected' \in {"none", "serror"}
               /\ ToHost("serror", "bare", "none", "zero")
               /\ RecExit
         /\ UNCHANGED <<memory, trap>>

Host == RmiBegin \/ RmiEnd \/ HostMaps \/ HostUnmaps \/ HostSetsRipas \/ HostBlocks \/ RecEnter
Realm == Access \/ UsesSimd \/ OtherTrap
Rmm == ExternalAbort \/ DataAbort \/ InstAbort \/ SimdException \/ Rsi \/ RsiSave \/ RsiRestore
       \/ Other

Next == Host \/ Realm \/ Rmm

Spec == Init /\ [][Next]_vars

(***************************************************************************)
(* Properties                                                              *)
(***************************************************************************)
\* The host, and the realm once it computes without traps, find their own SIMD
\* registers, and the values of the other are in memory, whatever the RMM computed
\* in between.
SimdIsolated ==
    /\ where = "host" => regs = "ns" /\ saved = RecSaved
    /\ where = "realm" /\ cptr => regs = "rec" /\ saved = HostSaved
    /\ where = "realm" /\ ~cptr => regs = "ns" /\ saved = RecSaved

\* The asserts of handle_simd_exception and handle_ns_smc: the registers that are
\* saved are not saved again over the RMM's own values.
AssertsHold ==
    /\ where = "rmm" /\ trap.ec \in {"FPU", "SVE", "SME"} /\ ~SimdRefused => active # "rec"
    /\ where = "host" => saved["ns"] = "none"

\* An undefined instruction is one this realm really lacks: SVE in a realm that
\* has it gets through also when the host was in streaming mode.
UndefIsTheRealms ==
    injected = "undef" => \/ trap.op \in {"hvc", "sme"}
                          \/ trap.op = "sve" /\ ~Sve

\* A value of the realm reaches the host only as a write outside the protected
\* space that the host is to emulate.
OnlyEmulatedWritesShow ==
    exit.value = "data" => trap.op = "write" /\ trap.ipa = "out" /\ ~trap.aa32

\* The host is told of a protected page only when it can do something about it:
\* it may map or the realm must restore it, never an empty page.
HostIsToldOfRam ==
    [][where = "rmm" /\ where' = "host" /\ exit'.ipa = "par" => ripas # "empty"]_vars
=============================================================================
