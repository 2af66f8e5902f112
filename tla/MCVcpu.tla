------------------------------- MODULE MCVcpu -------------------------------
(***************************************************************************)
(* Instances for TLC of what KVM does for one VCPU: interrupts on their    *)
(* way between the threads that deliver them and its own (VcpuRun), and    *)
(* the exceptions, NMIs and interrupts its entries inject                  *)
(* (EventInjection).  setting says which of them a behaviour is about; the *)
(* other stays where it starts.                                            *)
(***************************************************************************)
EXTENDS VcpuRun, EventInjection

VARIABLE setting

VcpuInit ==
    /\ setting \in {"run", "inject"}
    /\ Init
    /\ setting # "run" => td
    /\ InjectInit

VcpuNext ==
    /\ UNCHANGED setting
    /\ \/ setting = "run" /\ Next /\ UNCHANGED eventVars
       \/ setting = "inject" /\ InjectNext /\ UNCHANGED vars

VcpuSpec == VcpuInit /\ [][VcpuNext]_<<setting, vars, eventVars>>
=============================================================================
