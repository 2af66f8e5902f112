----------------------------- MODULE TdxCpus -----------------------------
(***************************************************************************)
(* VCPUs of a TD and the CPUs they are associated with (kvm/tdx.c: the     *)
(* associated_tdvcpus lists, tdx_vcpu_load, tdx_flush_vp,                  *)
(* tdx_hardware_disable, tdx_offline_cpu, the flush of                     *)
(* __tdx_mmu_release_hkid, tdx_vcpu_free; kvm/x86.c: kvm_arch_vcpu_load,   *)
(* kvm_unload_vcpu_mmus, kvm_arch_destroy_vm), while VCPU threads migrate  *)
(* and CPUs go offline and come back.                                      *)
(*                                                                         *)
(* The TDX module ties a VCPU to the CPU that entered it, until            *)
(* TDH.VP.FLUSH on that very CPU; TDH.MNG.VPFLUSHDONE wants no VCPU tied.  *)
(* The CPU hotplug core, smp_call_function_single and the module are not   *)
(* in the repository.                                                      *)
(***************************************************************************)
EXTENDS Naturals, FiniteSets

CONSTANTS Vps, Cpus, NoCpu,
          Package,       \* topology_physical_package_id
          MaxOffline     \* bound: CPU removals

ASSUME CpusAssumption ==
    /\ NoCpu \notin Cpus
    /\ DOMAIN Package = Cpus
    /\ MaxOffline \in Nat

VARIABLES
    cpu,        \* vcpu->cpu, NoCpu for -1
    list,       \* per_cpu(associated_tdvcpus)
    assoc,      \* TDX module: the CPU a VCPU is associated with
    on,         \* the CPU whose current thread has the VCPU loaded
    vpPc,       \* progress of vcpu_load and of the destroyer on a VCPU
    target,     \* vcpu->cpu as read before an IPI is sent
    phase,      \* of the TD
    left,       \* VCPUs the destroyer's current loop has still to visit
    configured, \* nr_configured_hkid of this TD
    online, going, \* online CPUs; the CPU being taken down
    listedTwice, deletedTwice, \* list_add or list_del of a wrong entry
    offlines

cpusVars == <<cpu, list, assoc, on, vpPc, target, phase, left, configured, online,
          going, listedTwice, deletedTwice, offlines>>

vcpuVars == <<cpu, list, assoc, deletedTwice>>
hotplugVars == <<online, going, offlines>>
tdVars == <<phase, left, configured>>

Phases == {"none", "keyid", "running", "release", "flushdone", "unload",
           "free", "dead"}
VpPcs == {"out", "flush", "add", "set", "in", "delete", "freed"}

CpusInit ==
    /\ cpu = [v \in Vps |-> NoCpu]
    /\ list = [c \in Cpus |-> {}]
    /\ assoc = [v \in Vps |-> NoCpu]
    /\ on = [v \in Vps |-> NoCpu]
    /\ vpPc = [v \in Vps |-> "out"]
    /\ target = [v \in Vps |-> NoCpu]
    /\ phase = "none"
    /\ left = {}
    /\ configured = FALSE
    /\ online \in {Cpus} \cup {Cpus \ {c} : c \in Cpus}
    /\ going = {}
    /\ listedTwice = FALSE
    /\ deletedTwice = FALSE
    /\ offlines = 0

VpGoto(v, label) == vpPc' = [vpPc EXCEPT ![v] = label]
Idle(c) == \A v \in Vps : on[v] # c
Listed(v) == \E c \in Cpus : v \in list[c]
PackagesOf(cpus) == {Package[c] : c \in cpus}

\* tdx_disassociate_vp for the VCPUs in vs, run on CPU c.
Disassociated(vs, c) ==
    /\ list' = [d \in Cpus |-> list[d] \ vs]
    /\ cpu' = [v \in Vps |-> IF v \in vs THEN NoCpu ELSE cpu[v]]
    /\ deletedTwice' = (deletedTwice \/ \E v \in vs : ~Listed(v))

\* TDH.VP.FLUSH on CPU c.
VpFlushed(vs, c) ==
    assoc' = [v \in Vps |-> IF v \in vs /\ assoc[v] = c THEN NoCpu ELSE assoc[v]]

\* tdx_flush_vp: a VCPU that is no longer at CPU c is left alone.
FlushVp(vs, c) ==
    LET here == {v \in vs : cpu[v] = c} IN
    Disassociated(here, c) /\ VpFlushed(here, c)

---------------------------------------------------------------------------
\* vcpu_load of v on CPU c, preemption off; also by the destroyer.

MayLoad(v) ==
    \/ phase = "running"
    \/ phase = "unload" /\ v \in left /\ \A w \in Vps : on[w] = NoCpu

LoadBegin(v, c) ==
    /\ vpPc[v] = "out" /\ MayLoad(v)
    /\ c \in online \ going /\ Idle(c)
    /\ on' = [on EXCEPT ![v] = c]
    /\ target' = [target EXCEPT ![v] = cpu[v]]
    /\ VpGoto(v, IF cpu[v] = c THEN "in" ELSE IF cpu[v] = NoCpu THEN "add" ELSE "flush")
    /\ UNCHANGED <<vcpuVars, tdVars, hotplugVars, listedTwice>>

\* Mutant: the VCPU moves without a TDH.VP.FLUSH on its old CPU.
X_FlushOldCpu(v) ==
    /\ vpPc[v] = "flush"
    /\ Disassociated({v} \cap {w \in Vps : cpu[w] = target[v]}, target[v])
    /\ VpGoto(v, "add")
    /\ UNCHANGED <<assoc, on, target, tdVars, hotplugVars, listedTwice>>

\* tdx_flush_vp_on_cpu: the IPI fails if the CPU has gone offline.
FlushOldCpu(v) ==
    /\ vpPc[v] = "flush"
    /\ IF target[v] \in online
       THEN FlushVp({v}, target[v])
       ELSE UNCHANGED vcpuVars
    /\ VpGoto(v, "add")
    /\ UNCHANGED <<on, target, tdVars, hotplugVars, listedTwice>>

ListAdd(v) ==
    /\ vpPc[v] = "add"
    /\ list' = [list EXCEPT ![on[v]] = @ \cup {v}]
    /\ listedTwice' = (listedTwice \/ Listed(v))
    /\ VpGoto(v, "set")
    /\ UNCHANGED <<cpu, assoc, deletedTwice, on, target, tdVars, hotplugVars>>

\* kvm_arch_vcpu_load sets vcpu->cpu after the vendor's vcpu_load.
SetCpu(v) ==
    /\ vpPc[v] = "set"
    /\ cpu' = [cpu EXCEPT ![v] = on[v]]
    /\ VpGoto(v, "in")
    /\ UNCHANGED <<list, assoc, deletedTwice, on, target, tdVars, hotplugVars,
                   listedTwice>>

\* TDH.VP.ENTER (or TDH.VP.CREATE and INIT) associates the VCPU.
Enter(v) ==
    /\ vpPc[v] = "in" /\ phase = "running"
    /\ assoc[v] \in {NoCpu, on[v]}
    /\ assoc' = [assoc EXCEPT ![v] = on[v]]
    /\ UNCHANGED <<cpu, list, deletedTwice, on, vpPc, target, tdVars,
                   hotplugVars, listedTwice>>

\* Mutant: the thread keeps its CPU.
X_Put(v) ==
    /\ vpPc[v] = "in"
    /\ left' = IF phase = "unload" THEN left \ {v} ELSE left
    /\ VpGoto(v, "out")
    /\ UNCHANGED <<vcpuVars, on, target, phase, configured, hotplugVars, listedTwice>>

\* vcpu_put, or the thread is scheduled out; the destroyer goes on.
Put(v) ==
    /\ vpPc[v] = "in"
    /\ on' = [on EXCEPT ![v] = NoCpu]
    /\ left' = IF phase = "unload" THEN left \ {v} ELSE left
    /\ VpGoto(v, "out")
    /\ UNCHANGED <<vcpuVars, target, phase, configured, hotplugVars, listedTwice>>

---------------------------------------------------------------------------
\* CPU hotplug: kvm_arch_offline_cpu and kvm_arch_hardware_disable run on
\* the CPU before it stops; cpus_write_lock is held until it has stopped.

\* tdx_offline_cpu returns -EBUSY.
LastOfPackage(c) ==
    configured /\ Package[c] \notin PackagesOf(online \ {c})

CpusReadLocked == phase \in {"release", "flushdone"}

\* Mutant: a CPU that goes offline keeps its list.
X_OfflineBegin(c) ==
    /\ going = {} /\ offlines < MaxOffline /\ ~CpusReadLocked
    /\ c \in online /\ Cardinality(online) > 1 /\ Idle(c)
    /\ ~LastOfPackage(c)
    /\ going' = {c}
    /\ offlines' = offlines + 1
    /\ UNCHANGED <<vcpuVars, on, vpPc, target, tdVars, online, listedTwice>>

OfflineBegin(c) ==
    /\ going = {} /\ offlines < MaxOffline /\ ~CpusReadLocked
    /\ c \in online /\ Cardinality(online) > 1 /\ Idle(c)
    /\ ~LastOfPackage(c)
    /\ going' = {c}
    /\ offlines' = offlines + 1
    /\ FlushVp(list[c], c)
    /\ UNCHANGED <<on, vpPc, target, tdVars, online, listedTwice>>

OfflineDone ==
    /\ going # {}
    /\ online' = online \ going
    /\ going' = {}
    /\ UNCHANGED <<vcpuVars, on, vpPc, target, tdVars, offlines, listedTwice>>

Online(c) ==
    /\ going = {} /\ ~CpusReadLocked
    /\ c \notin online
    /\ online' = online \cup {c}
    /\ UNCHANGED <<vcpuVars, on, vpPc, target, tdVars, going, offlines, listedTwice>>

---------------------------------------------------------------------------
\* The TD.

\* tdx_guest_keyid_alloc and atomic_inc(&nr_configured_hkid).
AllocKeyid ==
    /\ phase = "none"
    /\ phase' = "keyid" /\ configured' = TRUE
    /\ UNCHANGED <<vcpuVars, on, vpPc, target, left, hotplugVars, listedTwice>>

\* Mutant: __tdx_td_init does not hold cpus_read_lock.
X_CheckPackages ==
    /\ phase = "keyid"
    /\ IF PackagesOf(online) = PackagesOf(Cpus)
       THEN phase' = "running" /\ UNCHANGED configured
       ELSE phase' = "none" /\ configured' = FALSE
    /\ UNCHANGED <<vcpuVars, on, vpPc, target, left, hotplugVars, listedTwice>>

\* __tdx_td_init, under cpus_read_lock: every package needs an online CPU.
CheckPackages ==
    /\ phase = "keyid" /\ going = {}
    /\ IF PackagesOf(online) = PackagesOf(Cpus)
       THEN phase' = "running" /\ UNCHANGED configured
       ELSE phase' = "none" /\ configured' = FALSE
    /\ UNCHANGED <<vcpuVars, on, vpPc, target, left, hotplugVars, listedTwice>>

\* The last user of the VM is gone: __tdx_mmu_release_hkid starts.
ReleaseBegin ==
    /\ phase = "running" /\ going = {}
    /\ \A v \in Vps : vpPc[v] = "out"
    /\ phase' = "release" /\ left' = Vps
    /\ UNCHANGED <<vcpuVars, on, vpPc, target, configured, hotplugVars, listedTwice>>

\* Mutant: a VCPU is taken off its list without TDH.VP.FLUSH.
X_ReleaseFlush(v) ==
    /\ phase = "release" /\ v \in left
    /\ left' = left \ {v}
    /\ IF cpu[v] # NoCpu
       THEN Disassociated({v}, cpu[v]) /\ UNCHANGED assoc
       ELSE UNCHANGED vcpuVars
    /\ UNCHANGED <<on, vpPc, target, phase, configured, hotplugVars, listedTwice>>

ReleaseFlush(v) ==
    /\ phase = "release" /\ v \in left
    /\ left' = left \ {v}
    /\ IF cpu[v] # NoCpu THEN FlushVp({v}, cpu[v]) ELSE UNCHANGED vcpuVars
    /\ UNCHANGED <<on, vpPc, target, phase, configured, hotplugVars, listedTwice>>

VpFlushDone ==
    /\ phase = "release" /\ left = {}
    /\ phase' = "flushdone"
    /\ UNCHANGED <<vcpuVars, on, vpPc, target, left, configured, hotplugVars,
                   listedTwice>>

\* TDH.MNG.VPFLUSHDONE, the cache flush on all packages, tdx_hkid_free;
\* then kvm_unload_vcpu_mmus loads every VCPU once more.  A VCPU that is
\* still associated makes VPFLUSHDONE fail and the key id leak.
HkidFree ==
    /\ phase = "flushdone"
    /\ \A v \in Vps : assoc[v] = NoCpu
    /\ phase' = "unload" /\ left' = Vps
    /\ configured' = FALSE
    /\ UNCHANGED <<vcpuVars, on, vpPc, target, hotplugVars, listedTwice>>

FreeBegin ==
    /\ phase = "unload" /\ left = {}
    /\ phase' = "free" /\ left' = Vps
    /\ UNCHANGED <<vcpuVars, on, vpPc, target, configured, hotplugVars, listedTwice>>

\* tdx_vcpu_free: tdx_disassociate_vp_on_cpu reads vcpu->cpu ...
FreeRead(v) ==
    /\ phase = "free" /\ v \in left /\ vpPc[v] = "out"
    /\ \A w \in Vps : vpPc[w] # "delete"
    /\ target' = [target EXCEPT ![v] = cpu[v]]
    /\ VpGoto(v, "delete")
    /\ UNCHANGED <<vcpuVars, on, tdVars, hotplugVars, listedTwice>>

\* Mutant: a VCPU loaded after the release stays on its list.
X_FreeVcpu(v) ==
    /\ vpPc[v] = "delete"
    /\ left' = left \ {v}
    /\ VpGoto(v, "freed")
    /\ UNCHANGED <<vcpuVars, on, target, phase, configured, hotplugVars, listedTwice>>

\* Mutant: an IPI to a CPU that left is waited for until it is back.
Y_FreeVcpu(v) ==
    /\ vpPc[v] = "delete"
    /\ target[v] \in online \cup {NoCpu}
    /\ IF target[v] # NoCpu
       THEN Disassociated({v}, target[v]) /\ UNCHANGED assoc
       ELSE UNCHANGED vcpuVars
    /\ left' = left \ {v}
    /\ VpGoto(v, "freed")
    /\ UNCHANGED <<on, target, phase, configured, hotplugVars, listedTwice>>

\* ... and an IPI runs tdx_disassociate_vp there, if the CPU is online,
\* whatever vcpu->cpu is by then.
FreeVcpu(v) ==
    /\ vpPc[v] = "delete"
    /\ IF target[v] \in online
       THEN Disassociated({v}, target[v]) /\ UNCHANGED assoc
       ELSE UNCHANGED vcpuVars
    /\ left' = left \ {v}
    /\ VpGoto(v, "freed")
    /\ UNCHANGED <<on, target, phase, configured, hotplugVars, listedTwice>>

VmFree ==
    /\ phase = "free" /\ left = {}
    /\ phase' = "dead"
    /\ UNCHANGED <<vcpuVars, on, vpPc, target, left, configured, hotplugVars,
                   listedTwice>>

---------------------------------------------------------------------------
\* Nothing is left to do for a VM that is freed.
Gone == phase = "dead" /\ UNCHANGED cpusVars

LoadStep(v) ==
    \/ FlushOldCpu(v) \/ ListAdd(v) \/ SetCpu(v) \/ Put(v)

DestroyStep ==
    \/ VpFlushDone \/ HkidFree \/ FreeBegin \/ VmFree
    \/ \E v \in Vps : ReleaseFlush(v) \/ FreeRead(v) \/ FreeVcpu(v)

UnloadStep ==
    phase = "unload" /\ \E v \in Vps, c \in Cpus : LoadBegin(v, c)

CpusNext ==
    \/ AllocKeyid \/ CheckPackages \/ ReleaseBegin \/ OfflineDone \/ DestroyStep
    \/ \E c \in Cpus : OfflineBegin(c) \/ Online(c)
    \/ \E v \in Vps : LoadStep(v) \/ Enter(v)
    \/ \E v \in Vps, c \in Cpus : LoadBegin(v, c)
    \/ Gone

CpusSpec == CpusInit /\ [][CpusNext]_cpusVars

\* The destroyer, vcpu_load and a started CPU removal run to their end.
CpusFairSpec ==
    /\ CpusSpec
    /\ WF_cpusVars(DestroyStep) /\ WF_cpusVars(UnloadStep) /\ WF_cpusVars(OfflineDone)
    /\ \A v \in Vps : WF_cpusVars(LoadStep(v))

---------------------------------------------------------------------------
\* Type invariant of the association state of tdx.c.
CpusTypeOK ==
    /\ cpu \in [Vps -> Cpus \cup {NoCpu}]
    /\ list \in [Cpus -> SUBSET Vps]
    /\ assoc \in [Vps -> Cpus \cup {NoCpu}]
    /\ on \in [Vps -> Cpus \cup {NoCpu}]
    /\ vpPc \in [Vps -> VpPcs]
    /\ \A v \in Vps : on[v] # NoCpu <=> vpPc[v] \in {"flush", "add", "set", "in"}
    /\ target \in [Vps -> Cpus \cup {NoCpu}]
    /\ phase \in Phases /\ left \subseteq Vps
    /\ configured \in BOOLEAN
    /\ online \subseteq Cpus /\ going \subseteq Cpus
    /\ listedTwice \in BOOLEAN /\ deletedTwice \in BOOLEAN
    /\ offlines \in 0..MaxOffline

\* tdx_vcpu_load never links a VCPU that is still on a list, and a VCPU is
\* on the list of vcpu->cpu and on no other (while vcpu_load is between
\* its list_add and the store to vcpu->cpu, on that of the loading CPU).
OneList ==
    /\ ~listedTwice
    /\ \A v \in Vps, c \in Cpus :
          v \in list[c] <=> (cpu[v] = c \/ (vpPc[v] = "set" /\ on[v] = c))

\* A VCPU the module ties to a CPU can be found there by whoever must
\* flush it: it is on that CPU's list and the CPU is online.
AssociatedIsListed ==
    \A v \in Vps :
        assoc[v] # NoCpu => v \in list[assoc[v]] /\ assoc[v] \in online \ going

\* TDH.VP.ENTER is never refused for an association with another CPU.
EnterAllowed ==
    \A v \in Vps : vpPc[v] = "in" => assoc[v] \in {NoCpu, on[v]}

\* After the flush loop of __tdx_mmu_release_hkid no VCPU is associated, so
\* TDH.MNG.VPFLUSHDONE succeeds and the key id is not leaked.
FlushDoneSucceeds ==
    phase = "flushdone" => \A v \in Vps : assoc[v] = NoCpu

\* No freed VCPU is reachable from a CPU's list, and the WARN_ON_ONCE of
\* tdx_vcpu_free on vcpu->cpu does not fire.
FreedIsUnlisted ==
    \A v \in Vps : vpPc[v] = "freed" => ~Listed(v) /\ cpu[v] = NoCpu

\* While the TD holds its key id every package keeps an online CPU that
\* can run TDH.PHYMEM.CACHE.WB and TDH.MNG.KEY.CONFIG.
PackagesStayOnline ==
    phase \in {"running", "release", "flushdone"} =>
        PackagesOf(online) = PackagesOf(Cpus)

\* The lists of associated_tdvcpus: a VCPU is on one list at most, on that of the CPU
\* the module associates it with, on none once freed.  So TDH.VP.ENTER is made where
\* the VCPU may be associated and TDH.MNG.VPFLUSHDONE finds every VCPU flushed; and a
\* package with configured key ids keeps a CPU online.
VcpuListsSound ==
    /\ CpusTypeOK /\ OneList /\ AssociatedIsListed /\ FreedIsUnlisted /\ EnterAllowed
    /\ FlushDoneSucceeds /\ PackagesStayOnline

\* A VCPU is only taken off a list it is on ("Task migration can race with
\* CPU offlining", tdx_flush_vp).
NoDoubleDelete == ~deletedTwice

\* The release of the TD's key id, and the end of the VM.
Releasing == phase = "release"
Dead == phase = "dead"
=============================================================================
