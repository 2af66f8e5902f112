------------------------------ MODULE RealmLife ------------------------------
(***************************************************************************)
(* The life of a realm on the host: tetd_cca/linux/arch/arm64/kvm/rme.c,   *)
(* kvm_create_realm to kvm_destroy_realm, and the RECs of its VCPUs.       *)
(*                                                                         *)
(* KVM takes pages from the kernel, delegates them, and has the RMM make   *)
(* the realm descriptor, its root tables and RECs out of them; every       *)
(* failure on the way must hand the pages and the VMID back.  The VM       *)
(* ioctls of one VM exclude each other (kvm->lock), those of its VCPUs run *)
(* beside them.  What the RMM does (rmm/runtime/rmi/realm.c and rec.c are  *)
(* not in this repository) is modelled from the commands rme.c sends.      *)
(***************************************************************************)
EXTENDS Integers, FiniteSets

CONSTANTS
    Vms,
    Vcpus,
    VmOf,        \* VmOf[v] is the VM of VCPU v
    Pages,       \* pages of the kernel, by number
    PgdPages,    \* PgdPages[vm] are the pages of vm's root table (mmu.pgd_phys)
    ParamsPage,  \* ParamsPage[vm] is realm->params (kvm_init_realm_vm)
    NumAux,      \* realm->num_aux, what RMI_REC_AUX_COUNT reports
    Vmids,       \* 0 .. vmid_count - 1
    Refusals,    \* commands the RMM may refuse without a reason seen here
    NoPage       \* NULL

LifeAssumption ==
    /\ VmOf \in [Vcpus -> Vms]
    /\ PgdPages \in [Vms -> SUBSET Pages]
    /\ ParamsPage \in [Vms -> Pages]
    /\ NumAux \in Nat
    /\ Vmids \subseteq Nat
    /\ Refusals \subseteq {"realm_create", "aux_count", "rec_create", "realm_destroy", "rec_destroy"}
    /\ Pages \subseteq Nat /\ NoPage \notin Pages

VARIABLES
    free,    \* the kernel's free pages
    pstate,  \* page -> its granule state in the RMM
    vmids,   \* rme_vmid_bitmap: the reserved VMIDs
    realm,   \* VM -> struct realm, and where its VM ioctl or destruction is
    rec,     \* VCPU -> struct realm_rec, and where its function is
    rmm      \* VM -> what the RMM knows: [state, vmid, recs]

vars == <<free, pstate, vmids, realm, rec, rmm>>

SetRealm(vm, r) == realm' = [realm EXCEPT ![vm] = r]
SetRec(v, r) == rec' = [rec EXCEPT ![v] = r]
In(vm, pc) == realm[vm].pc = pc
At(v, pc) == rec[v].pc = pc
Quiet(vm) == In(vm, "idle")
Least(S) == CHOOSE x \in S : \A y \in S : x <= y

\* __get_free_page: the pages are all alike.
Alloc == Least(free)

NoRec == [pc |-> "none", rec_page |-> NoPage, run |-> NoPage, params |-> NoPage, aux |-> {}]
NoRealm == [state |-> "none", vmid |-> 0, recs |-> {}]

Delegated(ps) == pstate' = [p \in Pages |-> IF p \in ps THEN "DELEGATED" ELSE pstate[p]]
\* Mutant: the page goes back to the kernel as it is.
Undelegated_Skipped(p) == pstate
Undelegated(p) == [pstate EXCEPT ![p] = "NS"]
Refused(command) == command \in Refusals

-----------------------------------------------------------------------------
(* kvm_create_realm and realm_create_rd.                                   *)

\* Mutant: bitmap_find_free_region's failure is stored as the VMID.
ReserveVmid_AnyResult(vm) ==
    /\ Quiet(vm) /\ realm[vm].state = "NONE"
    /\ LET id == IF vmids = Vmids THEN Cardinality(Vmids) ELSE Least(Vmids \ vmids) IN
       /\ vmids' = vmids \cup {id}
       /\ SetRealm(vm, [realm[vm] EXCEPT !.pc = "alloc_rd", !.vmid = id])
    /\ UNCHANGED <<free, pstate, rec, rmm>>

ReserveVmid(vm) ==
    /\ Quiet(vm) /\ realm[vm].state = "NONE"
    /\ vmids # Vmids
    /\ LET id == Least(Vmids \ vmids) IN
       /\ vmids' = vmids \cup {id}
       /\ SetRealm(vm, [realm[vm] EXCEPT !.pc = "alloc_rd", !.vmid = id])
    /\ UNCHANGED <<free, pstate, rec, rmm>>

\* Mutant: the VMID of a realm that could not be made stays reserved.
VmidAfterFailure_Kept(vm) == vmids
VmidAfterFailure(vm) == vmids \ {realm[vm].vmid}

AllocRd(vm) ==
    /\ In(vm, "alloc_rd")
    /\ \/ /\ free = {} \/ realm[vm].rd # NoPage          \* WARN_ON(realm->rd): -EEXIST
          /\ SetRealm(vm, [realm[vm] EXCEPT !.pc = "idle"])
          /\ vmids' = VmidAfterFailure(vm) /\ UNCHANGED <<free, pstate>>
       \/ /\ free # {} /\ realm[vm].rd = NoPage
          /\ free' = free \ {Alloc}
          /\ Delegated({Alloc})
          /\ SetRealm(vm, [realm[vm] EXCEPT !.pc = "delegate_pgd", !.rd = Alloc])
          /\ UNCHANGED vmids
    /\ UNCHANGED <<rec, rmm>>

\* realm->rd is only set after RMI_REALM_CREATE: until then rd is a local.
DelegatePgd(vm) ==
    LET left == {p \in PgdPages[vm] : pstate[p] = "NS"} IN
    /\ In(vm, "delegate_pgd")
    /\ IF left = {}
       THEN SetRealm(vm, [realm[vm] EXCEPT !.pc = "rmi_create"]) /\ UNCHANGED pstate
       ELSE Delegated({Least(left)}) /\ UNCHANGED realm
    /\ UNCHANGED <<free, vmids, rec, rmm>>

RmiRealmCreate(vm) ==
    /\ In(vm, "rmi_create")
    /\ \/ /\ rmm' = [rmm EXCEPT ![vm] = [state |-> "NEW", vmid |-> realm[vm].vmid, recs |-> {}]]
          /\ pstate' = [p \in Pages |-> IF p = realm[vm].rd THEN "RD"
                                        ELSE IF p \in PgdPages[vm] THEN "RTT" ELSE pstate[p]]
          /\ SetRealm(vm, [realm[vm] EXCEPT !.pc = "aux_count"])
       \/ /\ Refused("realm_create")
          /\ SetRealm(vm, [realm[vm] EXCEPT !.pc = "undelegate_pgd"])
          /\ UNCHANGED <<pstate, rmm>>
    /\ UNCHANGED <<free, vmids, rec>>

\* realm->rd is set by now.  If RMI_REC_AUX_COUNT fails, the realm is destroyed again.
RmiRecAuxCount(vm) ==
    /\ In(vm, "aux_count")
    /\ \/ /\ SetRealm(vm, [realm[vm] EXCEPT !.pc = "created"])
          /\ UNCHANGED <<pstate, rmm>>
       \/ /\ Refused("aux_count")
          /\ rmm' = [rmm EXCEPT ![vm] = NoRealm]
          /\ Delegated({realm[vm].rd} \cup PgdPages[vm])
          /\ SetRealm(vm, [realm[vm] EXCEPT !.pc = "undelegate_lost"])
    /\ UNCHANGED <<free, vmids, rec>>

\* Mutant: the parameters are freed but not forgotten.
ParamsAfterCreate_Kept(vm) == realm[vm].params
ParamsAfterCreate(vm) == NoPage

\* "The realm is up, free the parameters."
RealmCreated(vm) ==
    /\ In(vm, "created")
    /\ free' = free \cup {realm[vm].params}
    /\ SetRealm(vm, [realm[vm] EXCEPT !.pc = "idle", !.state = "NEW",
                                      !.params = ParamsAfterCreate(vm)])
    /\ UNCHANGED <<pstate, vmids, rec, rmm>>

\* out_undelegate_tables, and kvm_create_realm's rme_vmid_release.
UndelegatePgd(vm) ==
    LET left == {p \in PgdPages[vm] : pstate[p] = "DELEGATED"} IN
    /\ realm[vm].pc \in {"undelegate_pgd", "undelegate_lost"}
    /\ IF left # {}
       THEN pstate' = Undelegated(Least(left)) /\ UNCHANGED <<free, vmids, realm>>
       ELSE /\ pstate' = Undelegated(realm[vm].rd)
            /\ free' = free \cup {realm[vm].rd}
            /\ \/ /\ In(vm, "undelegate_pgd")
                  /\ vmids' = VmidAfterFailure(vm)
                  /\ SetRealm(vm, [realm[vm] EXCEPT !.pc = "idle", !.rd = NoPage])
               \/ /\ In(vm, "undelegate_lost")     \* realm->rd stays; r was never set:
                  /\ \/ /\ vmids' = VmidAfterFailure(vm)                 \* it is not 0
                        /\ SetRealm(vm, [realm[vm] EXCEPT !.pc = "idle"])
                     \/ /\ SetRealm(vm, [realm[vm] EXCEPT !.pc = "created"])  \* or 0
                        /\ UNCHANGED vmids
    /\ UNCHANGED <<rec, rmm>>

\* Mutant: the state is stored before the command.
RmiActivate_StoreFirst(vm) ==
    /\ Quiet(vm) /\ realm[vm].state = "NEW"
    /\ rmm' = rmm
    /\ SetRealm(vm, [realm[vm] EXCEPT !.pc = "activated", !.state = "ACTIVE"])
    /\ UNCHANGED <<free, pstate, vmids, rec>>

\* kvm_activate_realm: the command and the store of the state.
RmiActivate(vm) ==
    /\ Quiet(vm) /\ realm[vm].state = "NEW"
    /\ rmm[vm].state = "NEW"
    /\ rmm' = [rmm EXCEPT ![vm].state = "ACTIVE"]
    /\ SetRealm(vm, [realm[vm] EXCEPT !.pc = "activated"])
    /\ UNCHANGED <<free, pstate, vmids, rec>>

Activated(vm) ==
    /\ In(vm, "activated")
    /\ SetRealm(vm, [realm[vm] EXCEPT !.pc = "idle", !.state = "ACTIVE"])
    /\ UNCHANGED <<free, pstate, vmids, rec, rmm>>

-----------------------------------------------------------------------------
(* kvm_create_rec.                                                         *)

\* The test of the realm's state, and the three pages.  (After a failure, and after
\* the REC's destruction, the code leaves rec_page and run pointing to the pages it
\* freed.  Nothing reads them unless mpidr says that the VCPU is a REC: the model
\* clears them.)
StartRec(v) ==
    LET params == Alloc
        rec_page == Least(free \ {params})
        run == Least(free \ {params, rec_page})
    IN /\ At(v, "none")
       /\ realm[VmOf[v]].state = "NEW" /\ ~In(VmOf[v], "destroy_vcpus")
       /\ Cardinality(free) >= 3                       \* else -ENOMEM: nothing changes
       /\ free' = free \ {params, rec_page, run}
       /\ SetRec(v, [rec[v] EXCEPT !.pc = "delegate_rec", !.params = params,
                                   !.rec_page = rec_page, !.run = run])
       /\ UNCHANGED <<pstate, vmids, realm, rmm>>

DelegateRec(v) ==
    /\ At(v, "delegate_rec")
    /\ Delegated({rec[v].rec_page})
    /\ SetRec(v, [rec[v] EXCEPT !.pc = "alloc_aux"])
    /\ UNCHANGED <<free, vmids, realm, rmm>>

\* alloc_rec_aux: one page of the loop, or no page.
AllocAux(v) ==
    LET r == rec[v] IN
    /\ At(v, "alloc_aux")
    /\ CASE Cardinality(r.aux) = NumAux ->
              SetRec(v, [r EXCEPT !.pc = "rmi_create"]) /\ UNCHANGED <<free, pstate>>
         [] Cardinality(r.aux) < NumAux /\ free = {} ->
              SetRec(v, [r EXCEPT !.pc = "free_aux"]) /\ UNCHANGED <<free, pstate>>
         [] OTHER ->
              /\ free' = free \ {Alloc} /\ Delegated({Alloc})
              /\ SetRec(v, [r EXCEPT !.aux = @ \cup {Alloc}])
    /\ UNCHANGED <<vmids, realm, rmm>>

\* The RMM makes RECs for a realm that is NEW only: the state tested above may be
\* out of date.
RmiRecCreate(v) ==
    LET vm == VmOf[v]
        r == rec[v]
    IN /\ At(v, "rmi_create")
       /\ \/ /\ rmm[vm].state = "NEW"
             /\ rmm' = [rmm EXCEPT ![vm].recs = @ \cup {v}]
             /\ pstate' = [p \in Pages |-> IF p = r.rec_page THEN "REC"
                                           ELSE IF p \in r.aux THEN "REC_AUX" ELSE pstate[p]]
             /\ free' = free \cup {r.params}
             /\ SetRec(v, [r EXCEPT !.pc = "ready", !.params = NoPage])     \* rec->mpidr
          \/ /\ rmm[vm].state # "NEW" \/ Refused("rec_create")
             /\ SetRec(v, [r EXCEPT !.pc = "free_aux"])
             /\ UNCHANGED <<free, pstate, rmm>>
       /\ UNCHANGED <<vmids, realm>>

\* Mutant: the auxiliary pages stay where they are.
AuxLeft_None(v) == {}
AuxLeft(v) == rec[v].aux

\* free_rec_aux, on the way out of both functions, then the REC's own pages.
FreeAux(v) ==
    LET r == rec[v] IN
    /\ r.pc \in {"free_aux", "destroy_aux"}
    /\ IF AuxLeft(v) # {}
       THEN LET p == Least(r.aux) IN
            /\ pstate' = Undelegated(p)
            /\ free' = free \cup {p}
            /\ SetRec(v, [r EXCEPT !.aux = @ \ {p}])
       ELSE /\ pstate' = Undelegated(r.rec_page)
            /\ free' = free \cup ({r.rec_page, r.run, r.params} \ {NoPage})
            /\ SetRec(v, [NoRec EXCEPT !.pc = IF r.pc = "free_aux" THEN "none" ELSE "gone"])
    /\ UNCHANGED <<vmids, realm, rmm>>

-----------------------------------------------------------------------------
(* The end of the VM: its VCPUs go, then the realm.  By then                *)
(* kvm_realm_destroy_rtts has emptied the tables (KvmUnmap).                *)

\* The last reference to the VM is dropped: no ioctl is running.
StartDestroy(vm) ==
    /\ Quiet(vm) /\ realm[vm].state # "DEAD"
    /\ \A v \in Vcpus : VmOf[v] = vm => rec[v].pc \in {"none", "ready"}
    /\ SetRealm(vm, [realm[vm] EXCEPT !.pc = "destroy_vcpus"])
    /\ UNCHANGED <<free, pstate, vmids, rec, rmm>>

\* kvm_destroy_rec: "If the REC destroy fails, leak all pages relating to the REC".
RmiRecDestroy(v) ==
    /\ In(VmOf[v], "destroy_vcpus")
    /\ At(v, "ready")                                            \* vcpu_is_rec
    /\ \/ /\ rmm' = [rmm EXCEPT ![VmOf[v]].recs = @ \ {v}]
          /\ Delegated({rec[v].rec_page} \cup rec[v].aux)
          /\ SetRec(v, [rec[v] EXCEPT !.pc = "destroy_aux"])
       \/ /\ Refused("rec_destroy")
          /\ SetRec(v, [NoRec EXCEPT !.pc = "gone"])
          /\ UNCHANGED <<rmm, pstate>>
    /\ UNCHANGED <<free, vmids, realm>>

\* kvm_destroy_realm up to the RMM's command.
DestroyRealm(vm) ==
    LET r == realm[vm] IN
    /\ In(vm, "destroy_vcpus")
    /\ \A v \in Vcpus : VmOf[v] = vm => rec[v].pc \in {"none", "gone"}
    /\ free' = free \cup ({r.params} \ {NoPage})
    /\ SetRealm(vm, IF r.state = "NONE" THEN [r EXCEPT !.params = NoPage, !.pc = "free_pgd"]
                    ELSE [r EXCEPT !.params = NoPage, !.state = "DYING", !.pc = "rmi_destroy"])
    /\ UNCHANGED <<pstate, vmids, rec, rmm>>

\* Mutant: the VMID is released whatever the RMM answered.
RmiRealmDestroy_ReleasesVmid(vm) ==
    /\ In(vm, "rmi_destroy")
    /\ \/ /\ rmm[vm].state # "none" /\ rmm[vm].recs = {}
          /\ rmm' = [rmm EXCEPT ![vm] = NoRealm]
          /\ Delegated({realm[vm].rd} \cup PgdPages[vm])
          /\ SetRealm(vm, [realm[vm] EXCEPT !.pc = "free_rd"])
          /\ UNCHANGED vmids
       \/ /\ rmm[vm].state = "none" \/ rmm[vm].recs # {} \/ Refused("realm_destroy")
          /\ SetRealm(vm, [realm[vm] EXCEPT !.pc = "stuck"])
          /\ vmids' = vmids \ {realm[vm].vmid}
          /\ UNCHANGED <<rmm, pstate>>
    /\ UNCHANGED <<free, rec>>

\* RMI_REALM_DESTROY is refused while a REC is left.
RmiRealmDestroy(vm) ==
    /\ In(vm, "rmi_destroy")
    /\ \/ /\ rmm[vm].state # "none" /\ rmm[vm].recs = {}
          /\ rmm' = [rmm EXCEPT ![vm] = NoRealm]
          /\ Delegated({realm[vm].rd} \cup PgdPages[vm])
          /\ SetRealm(vm, [realm[vm] EXCEPT !.pc = "free_rd"])
       \/ /\ rmm[vm].state = "none" \/ rmm[vm].recs # {} \/ Refused("realm_destroy")
          /\ SetRealm(vm, [realm[vm] EXCEPT !.pc = "stuck"])
          /\ UNCHANGED <<rmm, pstate>>
    /\ UNCHANGED <<free, vmids, rec>>

FreeRd(vm) ==
    /\ In(vm, "free_rd")
    /\ pstate' = Undelegated(realm[vm].rd)
    /\ free' = free \cup {realm[vm].rd}
    /\ vmids' = vmids \ {realm[vm].vmid}
    /\ SetRealm(vm, [realm[vm] EXCEPT !.pc = "undelegate_all", !.rd = NoPage])
    /\ UNCHANGED <<rec, rmm>>

\* Mutant: the loop over the root tables never looks at the next one.
PgdLeft_Same(vm) == PgdPages[vm]
PgdLeft(vm) == {p \in PgdPages[vm] : pstate[p] # "NS"}

FreePgd(vm) ==
    LET left == PgdLeft(vm) IN
    /\ realm[vm].pc \in {"undelegate_all", "free_pgd"}
    /\ IF left # {}
       THEN pstate' = Undelegated(Least(left)) /\ UNCHANGED <<free, realm>>
       ELSE /\ free' = free \cup PgdPages[vm]             \* kvm_free_stage2_pgd
            /\ SetRealm(vm, [realm[vm] EXCEPT !.pc = "gone", !.state = "DEAD"])
            /\ UNCHANGED pstate
    /\ UNCHANGED <<vmids, rec, rmm>>

-----------------------------------------------------------------------------
VmStep(vm) ==
    \/ ReserveVmid(vm) \/ RmiActivate(vm) \/ StartDestroy(vm)

\* What goes on by itself once it has begun.
VmGoesOn(vm) ==
    \/ AllocRd(vm) \/ DelegatePgd(vm) \/ RmiRealmCreate(vm) \/ RmiRecAuxCount(vm)
    \/ RealmCreated(vm)
    \/ UndelegatePgd(vm) \/ Activated(vm)
    \/ DestroyRealm(vm) \/ RmiRealmDestroy(vm) \/ FreeRd(vm) \/ FreePgd(vm)

RecGoesOn(v) ==
    DelegateRec(v) \/ AllocAux(v) \/ RmiRecCreate(v) \/ FreeAux(v) \/ RmiRecDestroy(v)

\* Every VM is gone, or its destruction was refused.
Finished ==
    /\ \A vm \in Vms : realm[vm].pc \in {"gone", "stuck"}
    /\ UNCHANGED vars

Init ==
    /\ free = Pages \ UNION {PgdPages[vm] \cup {ParamsPage[vm]} : vm \in Vms}
    /\ pstate = [p \in Pages |-> "NS"]
    /\ vmids = {}
    /\ realm = [vm \in Vms |-> [state |-> "NONE", pc |-> "idle", rd |-> NoPage, vmid |-> 0,
                                params |-> ParamsPage[vm]]]
    /\ rec = [v \in Vcpus |-> NoRec]
    /\ rmm = [vm \in Vms |-> NoRealm]

Next ==
    \/ \E vm \in Vms : VmStep(vm) \/ VmGoesOn(vm)
    \/ \E v \in Vcpus : StartRec(v) \/ RecGoesOn(v)
    \/ Finished

\* A call into KVM runs to its end.
Spec ==
    /\ Init /\ [][Next]_vars
    /\ \A vm \in Vms : WF_vars(VmGoesOn(vm))
    /\ \A v \in Vcpus : WF_vars(RecGoesOn(v))

-----------------------------------------------------------------------------
(* Properties.                                                             *)

Page == Pages \cup {NoPage}

\* The variables have their types (struct realm, struct realm_rec).
TypeOK ==
    /\ free \subseteq Pages
    /\ pstate \in [Pages -> {"NS", "DELEGATED", "RD", "RTT", "REC", "REC_AUX"}]
    /\ vmids \subseteq Vmids
    /\ \A vm \in Vms :
         /\ realm[vm].state \in {"NONE", "NEW", "ACTIVE", "DYING", "DEAD"}
         /\ realm[vm].rd \in Page /\ realm[vm].params \in Page
         /\ rmm[vm].state \in {"none", "NEW", "ACTIVE"} /\ rmm[vm].recs \subseteq Vcpus
    /\ \A v \in Vcpus :
         /\ rec[v].rec_page \in Page /\ rec[v].run \in Page /\ rec[v].params \in Page
         /\ rec[v].aux \subseteq Pages

\* The kernel's allocator holds no page that the hardware keeps from it: every
\* free_page in rme.c comes after a successful undelegate.
FreePagesAreNs == \A p \in free : pstate[p] = "NS"

\* The pages in use by a VM or a VCPU, each with its use.
Uses ==
    {<<"pgd", vm, p>> : vm \in {x \in Vms : realm[x].state # "DEAD"}, p \in Pages} \cup
    {<<"rd", vm, realm[vm].rd>> : vm \in Vms} \cup
    {<<"params", vm, realm[vm].params>> : vm \in Vms} \cup
    {<<"rec_page", v, rec[v].rec_page>> : v \in Vcpus} \cup
    {<<"run", v, rec[v].run>> : v \in Vcpus} \cup
    {<<"rec_params", v, rec[v].params>> : v \in Vcpus} \cup
    {<<"aux", v, p>> : v \in Vcpus, p \in Pages}
InUse(use) ==
    CASE use[1] = "pgd" -> use[3] \in PgdPages[use[2]]
      [] use[1] = "aux" -> use[3] \in rec[use[2]].aux
      [] OTHER -> use[3] # NoPage

\* No page is used after it was freed, or by two: pointers into the RMM's pages,
\* the run page and the parameters are cleared, or their owner is gone, whenever
\* their page is freed.
OneOwner ==
    \A x \in Uses : InUse(x) =>
        /\ x[3] \notin free
        /\ \A y \in Uses : InUse(y) /\ y[3] = x[3] => x = y

\* A VMID is reserved as long as the RMM has a realm that runs under it, also when
\* kvm_destroy_realm had to give up, and no two realms run under one VMID.
LiveVmidReserved ==
    /\ \A vm \in Vms : rmm[vm].state # "none" => rmm[vm].vmid \in vmids
    /\ \A vm1, vm2 \in Vms :
         rmm[vm1].state # "none" /\ rmm[vm2].state # "none" /\ rmm[vm1].vmid = rmm[vm2].vmid
           => vm1 = vm2

\* When all VMs are gone, whatever failed while they were built, every page and
\* every VMID is back.
EverythingBack ==
    (\A vm \in Vms : realm[vm].pc = "gone") => free = Pages /\ vmids = {}

\* KVM runs a VCPU (kvm_rec_enter) only in a realm the RMM has activated, and a
\* VCPU that is a REC has one in the RMM.
HostAgreesWithRmm ==
    /\ \A vm \in Vms : realm[vm].state = "ACTIVE" => rmm[vm].state = "ACTIVE"
    /\ \A v \in Vcpus : rec[v].pc = "ready" <=> v \in rmm[VmOf[v]].recs

\* realm_create_rd's WARN_ON(realm->rd): a realm is only made where none is.
NoRdAtCreate == \A vm \in Vms : In(vm, "alloc_rd") => realm[vm].rd = NoPage

\* The destruction of a VM, and its end: the realm may be stuck in the RMM.
Destroying(vm) == realm[vm].pc = "destroy_vcpus"
Destroyed(vm) == realm[vm].pc \in {"gone", "stuck"}
=============================================================================
