-------------------------- MODULE MCProgressHosts --------------------------
(***************************************************************************)
(* Liveness of the hosts' functions for TLC: unmapping (KvmUnmap), the     *)
(* destruction of realms (RealmLife) and of TDs (TdxLife), TLB tracking    *)
(* (TdxTrack) and the flushing of VCPUs with CPU hotplug (TdxCpus).  The   *)
(* modules share no state: system says which of them a behaviour is about, *)
(* the others stay where they start.                                       *)
(***************************************************************************)
EXTENDS KvmUnmap, TLC

CONSTANTS rd1, v1, vm1, t1, u1, u2, z1, p1, c1, c2, c3, NoCpu

VARIABLES system,
          kernel, pstate, vmids, structs, rec, rmm,
          tdFree, pamt, pool, nr_configured_hkid, td, tdVcpu, mod,
          pc, back, at, removes, vcpu, track, todo, waiting, module, sept, bepoch,
          spte, pins, readers, writer, bugged, zaps,
          cpu, list, assoc, on, vpPc, target, phase, left, configured,
          online, going, listedTwice, deletedTwice, offlines

\* Three levels of tables, two entries each: pages 0 .. 3 are protected, 4 .. 7 the
\* host's.
MCGranules == 0 .. 3 \cup 8 .. 14
MCKernelPages == 8 .. 13
MCRoot == [rd \in Rds |-> 14]
MCPas == 4 .. 7
MCRanges == {<<3, 6>>, <<0, 8>>}

\* A VM with two VCPUs, as in MCRealmHost.
Life == INSTANCE RealmLife WITH
    Vms <- {vm1}, Vcpus <- {u1, u2}, VmOf <- [v \in {u1, u2} |-> vm1], Pages <- 0 .. 11,
    PgdPages <- [vm \in {vm1} |-> {0, 1}], ParamsPage <- [vm \in {vm1} |-> 2],
    NumAux <- 1, Vmids <- {0}, Refusals <- {"realm_create", "rec_create"},
    free <- kernel, realm <- structs

\* A TD with two VCPUs whose last allocation fails, as in MCTdxHost.
Td == INSTANCE TdxLife WITH
    Tds <- {t1}, TdVcpus <- {u1, u2}, TdOf <- [x \in {u1, u2} |-> t1],
    KernelPages <- 1 .. 6, NullPa <- 0, NrTdcs <- 2, NrTdvpx <- 1, Keyids <- {1},
    Refusals <- {"kcalloc", "mng_create", "key_config", "addcx", "mng_init",
                 "vp_create", "vp_addcx", "vp_init"},
    free <- tdFree

\* One zapper, two VCPUs, one of which loads its root late.
Track == INSTANCE TdxTrack WITH
    Vcpus <- {u1, u2}, Zappers <- {z1}, Pages <- {p1}, MaxZaps <- 1

\* Two VCPUs on three CPUs of two packages, one of which leaves.
CpuLists == INSTANCE TdxCpus WITH
    Vps <- {u1, u2}, Cpus <- {c1, c2, c3}, Package <- (c1 :> 1) @@ (c2 :> 1) @@ (c3 :> 2),
    MaxOffline <- 1

ASSUME /\ Life!LifeAssumption /\ Td!TdxLifeAssumption
       /\ Track!TrackAssumption /\ CpuLists!CpusAssumption

lifeVars == <<kernel, pstate, vmids, structs, rec, rmm>>
tdVars == <<tdFree, pamt, pool, nr_configured_hkid, td, tdVcpu, mod>>
trackVars == <<pc, back, at, removes, vcpu, track, todo, waiting, module, sept, bepoch,
               spte, pins, readers, writer, bugged, zaps>>
cpusVars == <<cpu, list, assoc, on, vpPc, target, phase, left, configured,
              online, going, listedTwice, deletedTwice, offlines>>

ProgressInit ==
    /\ system \in {"unmap", "life", "td", "track", "cpus"}
    /\ UnmapInit /\ Life!Init /\ Td!LifeInit /\ Track!Init
    /\ CpuLists!CpusInit /\ (system # "cpus" => online = {c1, c2, c3})

ProgressNext ==
    /\ UNCHANGED system
    /\ \/ system = "unmap" /\ UnmapNext /\ UNCHANGED <<lifeVars, tdVars, trackVars, cpusVars>>
       \/ system = "life" /\ Life!Next /\ UNCHANGED <<allVars, tdVars, trackVars, cpusVars>>
       \/ system = "td" /\ Td!LifeNext /\ UNCHANGED <<allVars, lifeVars, trackVars, cpusVars>>
       \/ system = "track" /\ Track!Next /\ UNCHANGED <<allVars, lifeVars, tdVars, cpusVars>>
       \/ system = "cpus" /\ CpuLists!CpusNext /\ UNCHANGED <<allVars, lifeVars, tdVars, trackVars>>

\* The fairness of each module, while it is the one that moves.
ProgressFairness ==
    /\ WF_allVars(system = "unmap" /\ UnmapperStep)
    /\ WF_lifeVars(system = "life" /\ Life!VmGoesOn(vm1))
    /\ \A x \in {u1, u2} :
         /\ WF_lifeVars(system = "life" /\ Life!RecGoesOn(x))
         /\ WF_tdVars(system = "td" /\ Td!VcpuGoesOn(x))
         /\ WF_trackVars(system = "track" /\ Track!EntryStep(x))
         /\ WF_trackVars(system = "track" /\ Track!FaultStep(x))
         /\ WF_trackVars(system = "track" /\ Track!Interrupt(x))
         /\ WF_cpusVars(system = "cpus" /\ CpuLists!LoadStep(x))
    /\ WF_tdVars(system = "td" /\ (Td!InitGoesOn(t1) \/ Td!EndGoesOn(t1)))
    /\ \A t \in {u1, u2, z1} : WF_trackVars(system = "track" /\ Track!TrackStep(t))
    /\ WF_trackVars(system = "track" /\ Track!ZapStep(z1))
    /\ WF_cpusVars(system = "cpus" /\ CpuLists!DestroyStep)
    /\ WF_cpusVars(system = "cpus" /\ CpuLists!UnloadStep)
    /\ WF_cpusVars(system = "cpus" /\ CpuLists!OfflineDone)

ProgressSpec ==
    /\ ProgressInit
    /\ [][ProgressNext]_<<system, allVars, lifeVars, tdVars, trackVars, cpusVars>>
    /\ ProgressFairness

\* What somebody waits for in each system, and when it is over.  1 is
\* kvm_realm_unmap_range, the destruction of a VM, that of a TD, tdx_mmu_release_hkid
\* and the spins and waits of a VCPU in TLB tracking; 2 is those of a zapper.
Waiting(i) ==
    CASE system = "unmap" -> i = 1 /\ op = "unmap"
      [] system = "life" -> i = 1 /\ Life!Destroying(vm1)
      [] system = "td" -> i = 1 /\ Td!Ending(t1)
      [] system = "cpus" -> i = 1 /\ CpuLists!Releasing
      [] system = "track" -> Track!Waits(IF i = 1 THEN u1 ELSE z1)
Over(i) ==
    CASE system = "unmap" -> op = "none"
      [] system = "life" -> Life!Destroyed(vm1)
      [] system = "td" -> Td!Ended(t1)
      [] system = "cpus" -> CpuLists!Dead
      [] system = "track" -> ~Track!Waits(IF i = 1 THEN u1 ELSE z1)

\* Unmapping a range returns; the destruction of a VM and of a TD ends, whatever
\* failed while it was built; hotplug does not keep a TD's VCPUs from being
\* flushed; and no spin or wait of TLB tracking waits for a thread that waits for it.
HostsGetOn == \A i \in 1 .. 2 : Waiting(i) ~> Over(i)
=============================================================================
