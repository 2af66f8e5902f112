----------------------------- MODULE MCServices -----------------------------
(***************************************************************************)
(* Instances for TLC of the modified kernel's services: the module loader  *)
(* (ModuleLoader) and the audit queues (AuditQueue).  They share no state: *)
(* system says which of them a behaviour is about, the other stays where   *)
(* it starts.                                                              *)
(***************************************************************************)
EXTENDS ModuleLoader, AuditQueue, TLC

CONSTANTS a, b, t1, t2, d1, d2

VARIABLES system

\* Module b imports symbols of module a.
MCNeeds == (a :> {}) @@ (b :> {a})

\* Of the audit queues' behaviours, two selections.  In "moves" one daemon replaces
\* another while records are on their way: one task logs two records, and is neither
\* held back nor rate limited.
Moves ==
    /\ \A t \in Tasks : tpc'[t] # "nap" /\ serial'[t] <= 2
    /\ tpc'[t2] = "idle"
    /\ \A t \in Tasks : serial'[t] # serial[t] => serial[t] \notin gone'

\* In "limits" two tasks meet a limit of one record; one daemon registers, and no send
\* to it is tried again.
Limits ==
    /\ requests' <= 1 /\ op'[d1] = "register"
    /\ dpc'[d2] = "idle" /\ alive'[d2]
    /\ k'.failed = 0

\* Processes are alike.  So are the objects: the allocator returns the first.
Symmetry == Permutations(Procs)
MCObjs == 1 .. 3
FirstFree ==
    \A o \in Objs : mod[o].state = "FREE" /\ mod'[o].state # "FREE" =>
        \A x \in Objs : x < o => mod[x].state # "FREE"

serviceVars == <<system, vars, auditVars>>

ServiceInit ==
    /\ system \in {"loader", "moves", "limits"}
    /\ Init
    /\ AuditInit

ServiceNext ==
    /\ UNCHANGED system
    /\ \/ system = "loader" /\ Next /\ FirstFree /\ UNCHANGED auditVars
       \/ system = "moves" /\ AuditNext /\ Moves /\ UNCHANGED vars
       \/ system = "limits" /\ AuditNext /\ Limits /\ UNCHANGED vars

ServiceSpec == ServiceInit /\ [][ServiceNext]_serviceVars
=============================================================================
