----------------------------- MODULE MCTdxHost -----------------------------
(***************************************************************************)
(* Instances for TLC of the TDX host: TLB tracking (TdxTrack), the life of *)
(* TDs and their VCPUs (TdxLife) and the lists of VCPUs that CPUs are      *)
(* associated with (TdxCpus).  The modules share no state: system says     *)
(* which of them a behaviour is about, the others stay where they start.   *)
(***************************************************************************)
EXTENDS TdxTrack, TdxLife, TdxCpus, TLC

CONSTANTS t1, t2, u1, u2, c1, c2, c3

VARIABLE system

\* Two packages, the second with one CPU only.
MCPackage == (c1 :> 1) @@ (c2 :> 1) @@ (c3 :> 2)

\* One of two TDs has VCPUs.  With two TDCS pages and a TDVPX page per VCPU it needs
\* seven pages, of five.
MCTdOf == [u \in TdVcpus |-> t1]
MCKernelPages == 1 .. 5

tdxVars == <<system, vars, lifeVars, cpusVars>>

TdxInit ==
    /\ system \in {"track", "one TD", "two TDs", "cpus"}
    /\ Init /\ LifeInit /\ CpusInit
    /\ system # "cpus" => online = Cpus

\* Of one TD, the other never begins.
OneTd == td'[t2] = td[t2]

\* Two TDs, one with one VCPU, compete for pages and key ids.  Building them fails only
\* for want of pages, or of a VCPU after the TD is final; what gives back fails at the end.
TwoTds ==
    /\ tdVcpu'[u2] = tdVcpu[u2]
    /\ td'[t1].bugged => td[t1].bugged \/ mod[t1].finalized
    /\ \A t \in Tds :
         /\ td'[t].pc \in {"free_all", "teardown"} =>
              \/ td'[t].pc = td[t].pc
              \/ free = {} /\ td[t].pc \in {"alloc_tdr", "alloc_tdcs"}
         /\ mod'[t].kept => td[t].ending

TdxNext ==
    /\ UNCHANGED system
    /\ \/ system = "track" /\ Next /\ UNCHANGED <<lifeVars, cpusVars>>
       \/ system = "one TD" /\ LifeNext /\ OneTd /\ UNCHANGED <<vars, cpusVars>>
       \/ system = "one TD" /\ Ended(t1) /\ UNCHANGED <<vars, lifeVars, cpusVars>>
       \/ system = "two TDs" /\ LifeNext /\ TwoTds /\ UNCHANGED <<vars, cpusVars>>
       \/ system = "cpus" /\ CpusNext /\ UNCHANGED <<vars, lifeVars>>

TdxSpec == TdxInit /\ [][TdxNext]_tdxVars

\* VCPUs are alike, and so are zappers and the CPUs of the first package.
Symmetry == Permutations(Vcpus) \cup Permutations(Zappers) \cup Permutations({c1, c2})
=============================================================================
