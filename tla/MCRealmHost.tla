---------------------------- MODULE MCRealmHost ----------------------------
(***************************************************************************)
(* Instances for TLC of the host of realms: faults and unmapping           *)
(* (KvmUnmap), the life of realms and RECs (RealmLife) and what the RMM    *)
(* does when a realm exits (RealmExit).  The three share no state: system  *)
(* says which of them a behaviour is about and in which setting, the       *)
(* others stay where they start.                                           *)
(***************************************************************************)
EXTENDS KvmUnmap, TLC

CONSTANTS rd1, vm1, vm2, u1

VARIABLES system,
          kernel, pstate, vmids, structs, rec, rmm,
          where, active, cptr, regs, saved, streaming, ripas, mapped, blocked, trap,
          injected, exit, fixes

\* Two levels of tables, two entries each: pages 0 and 1 are protected and can be
\* a block, 2 and 3 are the host's.  Granules 0 and 1 back the protected pages.
MCGranules == {0, 1} \cup 4 .. 7
MCKernelPages == 4 .. 6
MCRoot == [rd \in Rds |-> 7]
MCPas == {2, 3}
\* The host's memory goes all at once, the realm's by the page as well.
MCRanges == {<<0, 1>>, <<1, 2>>, <<0, 2>>, <<0, 4>>, <<1, 4>>, <<2, 4>>}

\* One VM with two VCPUs, 12 pages: its root table is two of them.  Two RECs with
\* one auxiliary page each need eight pages, the realm one.
LifeOne == INSTANCE RealmLife WITH
    Vms <- {vm1}, VmOf <- [v \in Vcpus |-> vm1], Pages <- 0 .. 11,
    PgdPages <- [vm \in {vm1} |-> {0, 1}], ParamsPage <- [vm \in {vm1} |-> 2],
    NumAux <- 1, Vmids <- {0}, Refusals <- {"realm_create", "rec_create"},
    free <- kernel, realm <- structs

\* Nine pages, which is too few.
LifeFew == INSTANCE RealmLife WITH
    Vms <- {vm1}, VmOf <- [v \in Vcpus |-> vm1], Pages <- 0 .. 8,
    PgdPages <- [vm \in {vm1} |-> {0, 1}], ParamsPage <- [vm \in {vm1} |-> 2],
    NumAux <- 1, Vmids <- {0}, Refusals <- {"realm_create", "rec_create", "aux_count"},
    free <- kernel, realm <- structs

\* Two VMs, one of them with a VCPU, one VMID, and an RMM that destroys nothing.
LifeTwo == INSTANCE RealmLife WITH
    Vms <- {vm1, vm2}, Vcpus <- {u1}, VmOf <- [v \in {u1} |-> vm1], Pages <- 0 .. 8,
    PgdPages <- [vm \in {vm1, vm2} |-> IF vm = vm1 THEN {0} ELSE {1}],
    ParamsPage <- [vm \in {vm1, vm2} |-> IF vm = vm1 THEN 2 ELSE 3],
    NumAux <- 1, Vmids <- {0},
    Refusals <- {"realm_create", "rec_create", "realm_destroy", "rec_destroy"},
    free <- kernel, realm <- structs

\* A realm with SVE, and one without.
ExitSve == INSTANCE RealmExit WITH Sve <- TRUE, UsesFpu <- TRUE, MaxRipas <- 2
ExitFpu == INSTANCE RealmExit WITH Sve <- FALSE, UsesFpu <- TRUE, MaxRipas <- 2

ASSUME /\ LifeOne!LifeAssumption /\ LifeFew!LifeAssumption /\ LifeTwo!LifeAssumption
       /\ ExitSve!RealmExitAssumption /\ ExitFpu!RealmExitAssumption

lifeVars == <<kernel, pstate, vmids, structs, rec, rmm>>
exitVars == <<where, active, cptr, regs, saved, streaming, ripas, mapped, blocked,
              trap, injected, exit, fixes>>
realmVars == <<system, allVars, lifeVars, exitVars>>

RealmInit ==
    /\ system \in {"fault", "pages", "blocks", "life", "few pages", "two VMs", "sve", "fpu"}
    /\ UnmapInit
    /\ CASE system = "few pages" -> LifeFew!Init
         [] system = "two VMs" -> LifeTwo!Init
         [] OTHER -> LifeOne!Init
    /\ ExitSve!Init /\ (system \notin {"sve", "fpu"} => ~streaming)

Busy(v) == th'[v].pc \notin Resting

\* One VCPU at a time faults, anywhere, for a page or a block.
OneFaults == \A v, w \in Vcpus : Busy(v) /\ Busy(w) => v = w
\* Two VCPUs fault on two pages, or race for one block.
TwoFaultOnPages ==
    /\ \A v \in Vcpus : Busy(v) => th'[v].base_ipa \in {0, 1} /\ th'[v].map_size = 1
    /\ op' = "unmap" => range' \in {<<1, 2>>, <<0, 4>>}
TwoFaultOnBlock ==
    /\ \A v \in Vcpus : Busy(v) => th'[v].base_ipa = 0
    /\ op' = "unmap" => range' = <<0, 4>>

RealmNext ==
    /\ UNCHANGED system
    /\ \/ /\ UnmapNext /\ UNCHANGED <<lifeVars, exitVars>>
          /\ \/ system = "fault" /\ OneFaults
             \/ system = "pages" /\ TwoFaultOnPages
             \/ system = "blocks" /\ TwoFaultOnBlock
       \/ /\ UNCHANGED <<allVars, exitVars>>
          /\ \/ system = "life" /\ LifeOne!Next
             \/ system = "few pages" /\ LifeFew!Next
             \/ system = "two VMs" /\ LifeTwo!Next
       \/ /\ UNCHANGED <<allVars, lifeVars>>
          /\ \/ system = "sve" /\ ExitSve!Next
             \/ system = "fpu" /\ ExitFpu!Next

RealmSpec == RealmInit /\ [][RealmNext]_realmVars

Symmetry == Permutations(Vcpus)

\* Some of KvmUnmap's properties are about faults one at a time; two VCPUs that race
\* for realm->spare_page break them (README, Divergences without a run).  Every page
\* the kernel hands out is the host's, none is lost or given up, and the spare page is
\* delegated and otherwise free (realm_create_rtt_levels, alloc_delegated_page).
PagesAccounted ==
    /\ HostTypeOK /\ FreePagesAreNs /\ NothingGivenUp
    /\ system = "fault" => NoPageLost /\ SparePageIsFree

\* A VCPU that faults on a page gets it, tearing a realm's tables down leaves the root
\* table and the spare page, and no WARN_ON of the unmapping functions fires.
FaultsAndTearDownSucceed ==
    /\ system = "fault" => PageFaultsSucceed
    /\ system # "blocks" => TearDownComplete /\ UnmapNeverWarns

\* A fault that reports success leaves its page mapped; kvm_realm_unmap_range leaves
\* nothing of its range mapped and everything else as it was.
MappingIsExact ==
    /\ MapReturnsMapped
    /\ [][system # "blocks" => NothingIsLeft /\ TheRestStays]_allVars

\* No page is used after it was freed, or by two; the kernel's allocator holds only
\* pages of the host, also while the RMM refuses to destroy what it has; the VMID of a
\* realm the RMM has is reserved; KVM runs a VCPU only in a realm the RMM activated.
LivesKeepApart ==
    CASE system = "life" -> LifeOne!TypeOK /\ LifeOne!OneOwner /\ LifeOne!HostAgreesWithRmm
      [] system = "few pages" -> LifeFew!TypeOK
      [] system = "two VMs" -> /\ LifeTwo!TypeOK /\ LifeTwo!OneOwner
                               /\ LifeTwo!FreePagesAreNs /\ LifeTwo!LiveVmidReserved
      [] OTHER -> TRUE

\* When all VMs are gone, every page and every VMID is back.
EverythingBack ==
    CASE system = "life" -> LifeOne!EverythingBack
      [] system = "few pages" -> LifeFew!EverythingBack
      [] OTHER -> TRUE

\* Host and realm find their own SIMD registers, the asserts of the SIMD handlers
\* hold, and an undefined instruction is one this realm lacks.
SimdIsolated ==
    /\ ExitSve!TypeOK /\ ExitSve!SimdIsolated
    /\ system = "sve" => ExitSve!AssertsHold
    /\ IF system = "fpu" THEN ExitFpu!UndefIsTheRealms ELSE ExitSve!UndefIsTheRealms

\* Only a write outside the protected space shows the host a value, and the host is
\* told of a protected page only when it can do something about it.
HostLearnsLittle == []ExitSve!OnlyEmulatedWritesShow /\ ExitSve!HostIsToldOfRam
=============================================================================
