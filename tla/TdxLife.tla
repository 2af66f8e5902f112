------------------------------ MODULE TdxLife ------------------------------
(***************************************************************************)
(* The life of a trust domain on the host:                                 *)
(* tetd_x86/tetd_h_g/host/kvm/tdx.c, __tdx_td_init to tdx_vm_free.         *)
(*                                                                         *)
(* KVM reserves a key id, takes pages from the kernel and hands them to    *)
(* the TDX module as control pages of the TD (TDR, TDCS) and of its VCPUs  *)
(* (TDVPR, TDVPX).  To get them back it must flush and free the key id     *)
(* first.  VM ioctls exclude each other (kvm->lock), those of the VCPUs    *)
(* run beside them.  What the TDX module checks is modelled from the       *)
(* SEAMCALLs and the comments of tdx.c.                                    *)
(***************************************************************************)
EXTENDS Integers, FiniteSets

CONSTANTS
    Tds,
    TdVcpus,
    TdOf,        \* TdOf[v] is the TD of VCPU v
    KernelPages,
    NrTdcs,      \* tdx_info->nr_tdcs_pages
    NrTdvpx,     \* tdx_info->nr_tdvpx_pages
    Keyids,      \* tdx_guest_keyid_start .. tdx_guest_keyid_start + tdx_nr_guest_keyids - 1
    Refusals,    \* SEAMCALLs that may fail without a reason seen here, and "kcalloc"
    NullPa       \* a physical address of 0

ASSUME TdxLifeAssumption ==
    /\ IsFiniteSet(Tds) /\ TdOf \in [TdVcpus -> Tds]
    /\ KernelPages \subseteq Nat /\ NullPa \notin KernelPages
    /\ NrTdcs \in Nat \ {0} /\ NrTdvpx \in Nat
    /\ Keyids \subseteq Nat \ {0} /\ IsFiniteSet(Keyids)

VARIABLES
    free,    \* the kernel's free pages
    pamt,    \* page -> what the TDX module has it for; "dirty": given back, not cleared
    pool,    \* tdx_guest_keyid_pool: the reserved key ids
    nr_configured_hkid,
    td,      \* TD -> struct kvm_tdx, and where its ioctl or destruction is
    tdVcpu,    \* VCPU -> struct vcpu_tdx, and where its ioctl or destruction is
    mod      \* TD -> what the TDX module knows of it

lifeVars == <<free, pamt, pool, nr_configured_hkid, td, tdVcpu, mod>>

SetTd(t, r) == td' = [td EXCEPT ![t] = r]
SetVcpu(v, r) == tdVcpu' = [tdVcpu EXCEPT ![v] = r]
GoTd(t, pc) == SetTd(t, [td[t] EXCEPT !.pc = pc])
GoVcpu(v, pc) == SetVcpu(v, [tdVcpu[v] EXCEPT !.pc = pc])
InTd(t, pc) == td[t].pc = pc
InVcpu(v, pc) == tdVcpu[v].pc = pc
Least(S) == CHOOSE x \in S : \A y \in S : x <= y
Alloc == Least(free)            \* __get_free_page: the pages are all alike
Refused(call) == call \in Refusals
VcpusOf(t) == {v \in TdVcpus : TdOf[v] = t}

Given(p, kind) == [pamt EXCEPT ![p] = kind]
NoTd == [key |-> "none", hkid |-> 0, pages |-> {}, finalized |-> FALSE, kept |-> FALSE]

\* The TDX module refuses to give something back (kept is a history of it).
Keeps(t) == mod' = [mod EXCEPT ![t].kept = TRUE]

\* is_hkid_assigned: "hkid > 0".
HkidAssigned(t) == td[t].hkid > 0

-----------------------------------------------------------------------------
(* __tdx_td_init.  new_tdr and new_tdcs are its locals tdr_pa and tdcs_pa.  *)

\* KVM_TDX_INIT_VM: is_hkid_assigned and created_vcpus are tested first.
KeyidAlloc(t) ==
    /\ InTd(t, "idle") /\ ~td[t].bugged /\ ~HkidAssigned(t)
    /\ \A v \in VcpusOf(t) : InVcpu(v, "none")
    /\ pool # Keyids                                     \* else: an error, no change
    /\ LET id == Least(Keyids \ pool) IN
       /\ pool' = pool \cup {id}
       /\ SetTd(t, [td[t] EXCEPT !.pc = "alloc_tdr", !.hkid = id])
    /\ nr_configured_hkid' = nr_configured_hkid + 1
    /\ UNCHANGED <<free, pamt, tdVcpu, mod>>

AllocTdr(t) ==
    /\ InTd(t, "alloc_tdr")
    /\ \/ free = {} /\ GoTd(t, "free_all") /\ UNCHANGED free
       \/ /\ free # {}
          /\ free' = free \ {Alloc}
          /\ SetTd(t, [td[t] EXCEPT !.pc = "alloc_tdcs", !.new_tdr = Alloc])
    /\ UNCHANGED <<pamt, pool, nr_configured_hkid, tdVcpu, mod>>

\* kcalloc, and one page of the loop after it.
AllocTdcs(t) ==
    LET pages == td[t].new_tdcs IN
    /\ InTd(t, "alloc_tdcs")
    /\ \/ /\ free = {} \/ (pages = {} /\ Refused("kcalloc"))
          /\ Cardinality(pages) < NrTdcs
          /\ GoTd(t, "free_all") /\ UNCHANGED free
       \/ /\ free # {} /\ Cardinality(pages) < NrTdcs
          /\ free' = free \ {Alloc}
          /\ SetTd(t, [td[t] EXCEPT !.new_tdcs = @ \cup {Alloc}])
       \/ /\ Cardinality(pages) = NrTdcs
          /\ GoTd(t, "mng_create") /\ UNCHANGED free
    /\ UNCHANGED <<pamt, pool, nr_configured_hkid, tdVcpu, mod>>

\* The packages are looked at, and TDH.MNG.CREATE.
MngCreate(t) ==
    LET tdr == td[t].new_tdr IN
    /\ InTd(t, "mng_create")
    /\ \/ /\ SetTd(t, [td[t] EXCEPT !.pc = "key_config", !.tdr = tdr])
          /\ pamt' = Given(tdr, "TDR")
          /\ mod' = [mod EXCEPT ![t] = [NoTd EXCEPT !.key = "assigned", !.hkid = td[t].hkid,
                                                   !.pages = {tdr}, !.kept = mod[t].kept]]
       \/ /\ Refused("mng_create")
          /\ GoTd(t, "free_all") /\ UNCHANGED <<pamt, mod>>
    /\ UNCHANGED <<free, pool, nr_configured_hkid, tdVcpu>>

\* TDH.MNG.KEY.CONFIG on every package; kvm_tdx->tdcs_pa is set after it.
KeyConfig(t) ==
    /\ InTd(t, "key_config")
    /\ \/ /\ SetTd(t, [td[t] EXCEPT !.pc = "addcx", !.tdcs = td[t].new_tdcs])
          /\ mod' = [mod EXCEPT ![t].key = "configured"]
       \/ /\ Refused("key_config")
          /\ GoTd(t, "teardown") /\ UNCHANGED mod
    /\ UNCHANGED <<free, pamt, pool, nr_configured_hkid, tdVcpu>>

AddCx(t) ==
    LET left == {p \in td[t].tdcs : pamt[p] = "host"} IN
    /\ InTd(t, "addcx")
    /\ \/ /\ left # {}
          /\ pamt' = Given(Least(left), "TDCX")
          /\ mod' = [mod EXCEPT ![t].pages = @ \cup {Least(left)}]
          /\ UNCHANGED td
       \/ /\ left # {} /\ Refused("addcx")
          /\ GoTd(t, "teardown") /\ UNCHANGED <<pamt, mod>>
       \/ /\ left = {}
          /\ GoTd(t, "mng_init") /\ UNCHANGED <<pamt, mod>>
    /\ UNCHANGED <<free, pool, nr_configured_hkid, tdVcpu>>

MngInit(t) ==
    /\ InTd(t, "mng_init")
    /\ \/ SetTd(t, [td[t] EXCEPT !.pc = "idle", !.new_tdr = NullPa, !.new_tdcs = {}])
       \/ Refused("mng_init") /\ GoTd(t, "teardown")
    /\ UNCHANGED <<free, pamt, pool, nr_configured_hkid, tdVcpu, mod>>

\* Mutant: the key id is given back, but still counted.
FreeHkid_StillCounted(t) == /\ pool' = pool \ {td[t].hkid}
                            /\ nr_configured_hkid' = nr_configured_hkid
\* tdx_hkid_free (hkid becomes -1; here 0).
FreeHkid(t) == /\ pool' = pool \ {td[t].hkid}
               /\ nr_configured_hkid' = nr_configured_hkid - 1

\* Mutant: the goto to free_tdr skips what is below it.
Allocated_NoTdcs(t) == {td[t].new_tdr}
Allocated(t) == {td[t].new_tdr} \cup td[t].new_tdcs

\* free_packages, free_tdcs, free_tdr and free_hkid.
FreeAll(t) ==
    /\ InTd(t, "free_all")
    /\ free' = free \cup (Allocated(t) \ {NullPa})
    /\ FreeHkid(t)
    /\ SetTd(t, [td[t] EXCEPT !.pc = "idle", !.hkid = 0, !.tdr = NullPa, !.tdcs = {},
                              !.new_tdr = NullPa, !.new_tdcs = {}])
    /\ UNCHANGED <<pamt, tdVcpu, mod>>

\* Mutant: all pages of the array are freed, those that were added too.
NotAdded_All(t) == td[t].new_tdcs
NotAdded(t) == {p \in td[t].new_tdcs : pamt[p] = "host"}

\* teardown: the pages not added yet; then "the full teardown and destroy".
Teardown(t) ==
    /\ InTd(t, "teardown")
    /\ free' = free \cup NotAdded(t)
    /\ SetTd(t, [td[t] EXCEPT !.pc = "release", !.tdcs = @ \ NotAdded(t),
                              !.new_tdr = NullPa, !.new_tdcs = {}])
    /\ UNCHANGED <<pamt, pool, nr_configured_hkid, tdVcpu, mod>>

-----------------------------------------------------------------------------
(* KVM_TDX_INIT_VCPU: tdx_vcpu_ioctl and tdx_td_vcpu_init.                  *)

\* A VCPU is created under kvm->lock.
CreateVcpu(v) ==
    /\ InVcpu(v, "none") /\ InTd(TdOf[v], "idle") /\ ~td[TdOf[v]].bugged
    /\ GoVcpu(v, "idle")
    /\ UNCHANGED <<free, pamt, pool, nr_configured_hkid, td, mod>>

InitVcpu(v) ==
    LET t == TdOf[v] IN
    /\ InVcpu(v, "idle") /\ ~tdVcpu[v].created
    /\ ~td[t].bugged /\ HkidAssigned(t) /\ ~td[t].finalized /\ ~td[t].ending
    /\ free # {}                                            \* else -ENOMEM
    /\ free' = free \ {Alloc}
    /\ SetVcpu(v, [tdVcpu[v] EXCEPT !.pc = "alloc_tdvpx", !.new_tdvpr = Alloc])
    /\ UNCHANGED <<pamt, pool, nr_configured_hkid, td, mod>>

AllocTdvpx(v) ==
    LET pages == tdVcpu[v].new_tdvpx IN
    /\ InVcpu(v, "alloc_tdvpx")
    /\ \/ /\ free = {} \/ (pages = {} /\ Refused("kcalloc"))
          /\ Cardinality(pages) < NrTdvpx
          /\ GoVcpu(v, "free_tdvpx") /\ UNCHANGED free
       \/ /\ free # {} /\ Cardinality(pages) < NrTdvpx
          /\ free' = free \ {Alloc}
          /\ SetVcpu(v, [tdVcpu[v] EXCEPT !.new_tdvpx = @ \cup {Alloc}])
       \/ /\ Cardinality(pages) = NrTdvpx
          /\ GoVcpu(v, "vp_create") /\ UNCHANGED free
    /\ UNCHANGED <<pamt, pool, nr_configured_hkid, td, mod>>

\* KVM_BUG_ON: the VM is dead, every further ioctl fails.
Bugged(t) == td' = [td EXCEPT ![t].bugged = TRUE]

\* TDH.VP.CREATE works on a TD that is not final: finalized was tested by the ioctl.
VpCreate(v) ==
    LET t == TdOf[v]
        r == tdVcpu[v]
    IN /\ InVcpu(v, "vp_create")
       /\ \/ /\ ~mod[t].finalized
             /\ pamt' = Given(r.new_tdvpr, "TDVPR")
             /\ mod' = [mod EXCEPT ![t].pages = @ \cup {r.new_tdvpr}]
             /\ SetVcpu(v, [r EXCEPT !.pc = "vp_addcx", !.tdvpr = r.new_tdvpr,
                                     !.tdvpx = r.new_tdvpx])
             /\ UNCHANGED td
          \/ /\ mod[t].finalized \/ Refused("vp_create")
             /\ Bugged(t)
             /\ GoVcpu(v, "free_tdvpx") /\ UNCHANGED <<pamt, mod>>
       /\ UNCHANGED <<free, pool, nr_configured_hkid>>

\* Out of order: "vcpu_free method frees TDVPX and TDR donated to TDX".
VpAddCx(v) ==
    LET t == TdOf[v]
        left == {p \in tdVcpu[v].tdvpx : pamt[p] = "host"}
    IN /\ InVcpu(v, "vp_addcx")
       /\ \/ /\ left # {}
             /\ pamt' = Given(Least(left), "TDVPX")
             /\ mod' = [mod EXCEPT ![t].pages = @ \cup {Least(left)}]
             /\ UNCHANGED <<free, td, tdVcpu>>
          \/ /\ left # {} /\ Refused("vp_addcx")
             /\ Bugged(t)
             /\ free' = free \cup left
             /\ SetVcpu(v, [tdVcpu[v] EXCEPT !.pc = "idle", !.tdvpx = @ \ left,
                                           !.new_tdvpr = NullPa, !.new_tdvpx = {}])
             /\ UNCHANGED <<pamt, mod>>
          \/ /\ left = {}
             /\ GoVcpu(v, "vp_init") /\ UNCHANGED <<free, pamt, td, mod>>
       /\ UNCHANGED <<pool, nr_configured_hkid>>

VpInit(v) ==
    LET done == [tdVcpu[v] EXCEPT !.pc = "idle", !.new_tdvpr = NullPa, !.new_tdvpx = {}] IN
    /\ InVcpu(v, "vp_init")
    /\ \/ SetVcpu(v, [done EXCEPT !.created = TRUE]) /\ UNCHANGED td
       \/ Refused("vp_init") /\ Bugged(TdOf[v]) /\ SetVcpu(v, done)
    /\ UNCHANGED <<free, pamt, pool, nr_configured_hkid, mod>>

\* free_tdvpx and free_tdvpr.
FreeTdvpx(v) ==
    /\ InVcpu(v, "free_tdvpx")
    /\ free' = free \cup {tdVcpu[v].new_tdvpr} \cup tdVcpu[v].new_tdvpx
    /\ SetVcpu(v, [tdVcpu[v] EXCEPT !.pc = "idle", !.tdvpr = NullPa, !.tdvpx = {},
                                  !.new_tdvpr = NullPa, !.new_tdvpx = {}])
    /\ UNCHANGED <<pamt, pool, nr_configured_hkid, td, mod>>

\* KVM_TDX_FINALIZE_VM: TDH.MR.FINALIZE, then the flag.
Finalize(t) ==
    /\ InTd(t, "idle") /\ ~td[t].bugged /\ HkidAssigned(t) /\ ~td[t].finalized
    /\ mod' = [mod EXCEPT ![t].finalized = TRUE]
    /\ GoTd(t, "finalized")
    /\ UNCHANGED <<free, pamt, pool, nr_configured_hkid, tdVcpu>>

Finalized(t) ==
    /\ InTd(t, "finalized")
    /\ SetTd(t, [td[t] EXCEPT !.pc = "idle", !.finalized = TRUE])
    /\ UNCHANGED <<free, pamt, pool, nr_configured_hkid, tdVcpu, mod>>

-----------------------------------------------------------------------------
(* tdx_mmu_release_hkid, tdx_vcpu_free and tdx_vm_free.                     *)

\* The process exits: no ioctl is running, none will come.
EndVm(t) ==
    /\ InTd(t, "idle") /\ ~td[t].ending
    /\ \A v \in VcpusOf(t) : tdVcpu[v].pc \in {"none", "idle"}
    /\ SetTd(t, [td[t] EXCEPT !.pc = "release", !.ending = TRUE])
    /\ UNCHANGED <<free, pamt, pool, nr_configured_hkid, tdVcpu, mod>>

AfterRelease(t) == IF td[t].ending THEN "free_vcpus" ELSE "vm_free"
AfterFree(t) == IF td[t].ending THEN "gone" ELSE "idle"

\* The VCPUs are flushed (TdxCpus) and TDH.MNG.VPFLUSHDONE says so.
MngVpFlushDone(t) ==
    /\ InTd(t, "release")
    /\ \/ HkidAssigned(t) /\ GoTd(t, "key_free") /\ mod' = [mod EXCEPT ![t].key = "flushed"]
       \/ HkidAssigned(t) /\ Refused("vpflushdone") /\ GoTd(t, AfterRelease(t)) /\ Keeps(t)
       \/ ~HkidAssigned(t) /\ GoTd(t, AfterRelease(t)) /\ UNCHANGED mod
    /\ UNCHANGED <<free, pamt, pool, nr_configured_hkid, tdVcpu>>

\* Mutant: the key id goes back to the pool also when the TDX module kept it.
KeyFree_Always(t) ==
    /\ InTd(t, "key_free")
    /\ FreeHkid(t)
    /\ SetTd(t, [td[t] EXCEPT !.pc = AfterRelease(t), !.hkid = 0])
    /\ \/ mod' = [mod EXCEPT ![t].key = "freed"]
       \/ Refused("key_freeid") /\ UNCHANGED mod
    /\ UNCHANGED <<free, pamt, tdVcpu>>

\* TDH.PHYMEM.CACHE.WB and TDH.MNG.KEY.FREEID: "HKID %d is leaked" if it fails.
KeyFree(t) ==
    /\ InTd(t, "key_free")
    /\ \/ /\ mod' = [mod EXCEPT ![t].key = "freed"]
          /\ FreeHkid(t)
          /\ SetTd(t, [td[t] EXCEPT !.pc = AfterRelease(t), !.hkid = 0])
       \/ /\ Refused("key_freeid")
          /\ GoTd(t, AfterRelease(t)) /\ Keeps(t) /\ UNCHANGED <<pool, nr_configured_hkid>>
    /\ UNCHANGED <<free, pamt, tdVcpu>>

\* TDH.PHYMEM.PAGE.RECLAIM "is allowed only when TD is shutdown", and of the TDR only
\* when no other page is left.
ReclaimOk(t, p) ==
    /\ mod[t].key = "freed"
    /\ p = td[t].tdr => mod[t].pages = {p}

\* Mutant: the page is freed as the TDX module left it.
Cleared_Skipped(p) == Given(p, "dirty")
\* tdx_clear_page (and TDH.PHYMEM.PAGE.WBINVD before it for the TDR).
Cleared(p) == Given(p, "host")

\* tdx_reclaim_control_page: the page is leaked if the TDX module refuses.
ReclaimControlPage(t, p) ==
    \/ /\ ReclaimOk(t, p)
       /\ pamt' = Cleared(p) /\ free' = free \cup {p}
       /\ mod' = [mod EXCEPT ![t].pages = @ \ {p}]
    \/ ReclaimOk(t, p) /\ Refused("reclaim") /\ Keeps(t) /\ UNCHANGED <<free, pamt>>
    \/ ~ReclaimOk(t, p) /\ UNCHANGED <<free, pamt, mod>>

\* Mutant: the pages of a VCPU are reclaimed whatever became of the key id.
VcpuGivesUp_Never(v) == FALSE
VcpuGivesUp(v) == HkidAssigned(TdOf[v])

VcpuFree(v) ==
    LET r == tdVcpu[v] IN
    /\ InTd(TdOf[v], "free_vcpus") /\ InVcpu(v, "idle")
    /\ \/ /\ VcpuGivesUp(v) \/ (r.tdvpx = {} /\ r.tdvpr = NullPa)
          /\ GoVcpu(v, "gone") /\ UNCHANGED <<free, pamt, mod>>
       \/ /\ ~VcpuGivesUp(v) /\ r.tdvpx # {}
          /\ ReclaimControlPage(TdOf[v], Least(r.tdvpx))
          /\ SetVcpu(v, [r EXCEPT !.tdvpx = @ \ {Least(@)}])
       \/ /\ ~VcpuGivesUp(v) /\ r.tdvpx = {} /\ r.tdvpr # NullPa
          /\ ReclaimControlPage(TdOf[v], r.tdvpr)
          /\ SetVcpu(v, [r EXCEPT !.tdvpr = NullPa])
    /\ UNCHANGED <<pool, nr_configured_hkid, td>>

VcpusFreed(t) ==
    /\ InTd(t, "free_vcpus")
    /\ \A v \in VcpusOf(t) : tdVcpu[v].pc \in {"none", "gone"}
    /\ GoTd(t, "vm_free")
    /\ UNCHANGED <<free, pamt, pool, nr_configured_hkid, tdVcpu, mod>>

\* Mutant: the loop over the pages of the TDCS stays at the first.
TdcsLeft_Same(t) == td[t].tdcs
TdcsLeft(t) == td[t].tdcs \ {Least(td[t].tdcs)}

\* "tdx_mmu_release_hkid() failed to reclaim HKID ... Give up freeing TD pages."
VmFreeTdcs(t) ==
    LET r == td[t] IN
    /\ InTd(t, "vm_free")
    /\ \/ /\ HkidAssigned(t)
          /\ GoTd(t, AfterFree(t)) /\ UNCHANGED <<free, pamt, mod>>
       \/ /\ ~HkidAssigned(t) /\ r.tdcs # {}
          /\ ReclaimControlPage(t, Least(r.tdcs))
          /\ SetTd(t, [r EXCEPT !.tdcs = TdcsLeft(t)])
       \/ /\ ~HkidAssigned(t) /\ r.tdcs = {}
          /\ GoTd(t, IF r.tdr = NullPa THEN AfterFree(t) ELSE "free_tdr")
          /\ UNCHANGED <<free, pamt, mod>>
    /\ UNCHANGED <<pool, nr_configured_hkid, tdVcpu>>

VmFreeTdr(t) ==
    LET tdr == td[t].tdr IN
    /\ InTd(t, "free_tdr")
    /\ \/ /\ ReclaimOk(t, tdr)
          /\ pamt' = Cleared(tdr) /\ free' = free \cup {tdr}
          /\ mod' = [mod EXCEPT ![t] = [NoTd EXCEPT !.kept = mod[t].kept]]
          /\ SetTd(t, [td[t] EXCEPT !.pc = AfterFree(t), !.tdr = NullPa])
       \/ /\ ReclaimOk(t, tdr) /\ Refused("reclaim")
          /\ GoTd(t, AfterFree(t)) /\ Keeps(t) /\ UNCHANGED <<free, pamt>>
       \/ /\ ~ReclaimOk(t, tdr)
          /\ GoTd(t, AfterFree(t)) /\ UNCHANGED <<free, pamt, mod>>
    /\ UNCHANGED <<pool, nr_configured_hkid, tdVcpu>>

-----------------------------------------------------------------------------
InitGoesOn(t) ==
    \/ AllocTdr(t) \/ AllocTdcs(t) \/ MngCreate(t) \/ KeyConfig(t) \/ AddCx(t)
    \/ MngInit(t) \/ FreeAll(t) \/ Teardown(t) \/ Finalized(t)

EndGoesOn(t) ==
    MngVpFlushDone(t) \/ KeyFree(t) \/ VcpusFreed(t) \/ VmFreeTdcs(t) \/ VmFreeTdr(t)

VcpuGoesOn(v) ==
    AllocTdvpx(v) \/ VpCreate(v) \/ VpAddCx(v) \/ VpInit(v) \/ FreeTdvpx(v) \/ VcpuFree(v)

Finished == (\A t \in Tds : InTd(t, "gone")) /\ UNCHANGED lifeVars

LifeInit ==
    /\ free = KernelPages /\ pamt = [p \in KernelPages |-> "host"]
    /\ pool = {} /\ nr_configured_hkid = 0
    /\ td = [t \in Tds |-> [pc |-> "idle", hkid |-> 0, tdr |-> NullPa, tdcs |-> {},
                             new_tdr |-> NullPa, new_tdcs |-> {},
                             finalized |-> FALSE, bugged |-> FALSE, ending |-> FALSE]]
    /\ tdVcpu = [v \in TdVcpus |-> [pc |-> "none", tdvpr |-> NullPa, tdvpx |-> {},
                                new_tdvpr |-> NullPa, new_tdvpx |-> {}, created |-> FALSE]]
    /\ mod = [t \in Tds |-> NoTd]

LifeNext ==
    \/ \E t \in Tds : KeyidAlloc(t) \/ Finalize(t) \/ EndVm(t) \/ InitGoesOn(t) \/ EndGoesOn(t)
    \/ \E v \in TdVcpus : CreateVcpu(v) \/ InitVcpu(v) \/ VcpuGoesOn(v)
    \/ Finished

\* An ioctl and the end of a process run to their end.
LifeSpec ==
    /\ LifeInit /\ [][LifeNext]_lifeVars
    /\ \A t \in Tds : WF_lifeVars(InitGoesOn(t) \/ EndGoesOn(t))
    /\ \A v \in TdVcpus : WF_lifeVars(VcpuGoesOn(v))

-----------------------------------------------------------------------------
(* Properties.                                                             *)

PageOr0 == KernelPages \cup {NullPa}

\* The variables have their types, and key ids come from the range given to KVM.
LifeTypeOK ==
    /\ free \subseteq KernelPages
    /\ pamt \in [KernelPages -> {"host", "TDR", "TDCX", "TDVPR", "TDVPX"}]
    /\ pool \subseteq Keyids /\ nr_configured_hkid \in 0 .. Cardinality(Keyids)
    /\ \A t \in Tds :
         /\ td[t].hkid \in Keyids \cup {0} /\ td[t].tdr \in PageOr0
         /\ td[t].tdcs \subseteq KernelPages /\ mod[t].pages \subseteq KernelPages
         /\ mod[t].key \in {"none", "assigned", "configured", "flushed", "freed"}
    /\ \A v \in TdVcpus : tdVcpu[v].tdvpr \in PageOr0 /\ tdVcpu[v].tdvpx \subseteq KernelPages

\* The kernel is given back only pages that the TDX module has released and that were
\* cleared, on every path out of tdx_td_init, tdx_td_vcpu_init and the destruction.
FreePagesAreHost == \A p \in free : pamt[p] = "host"

\* A key id that the TDX module still has for a TD is reserved and belongs to that TD
\* alone, also after a SEAMCALL of its release failed.
Keyed(t) == mod[t].key \in {"assigned", "configured", "flushed"}
KeyidExclusive ==
    /\ \A t \in Tds : Keyed(t) => mod[t].hkid \in pool
    /\ \A t1, t2 \in Tds : Keyed(t1) /\ Keyed(t2) /\ mod[t1].hkid = mod[t2].hkid => t1 = t2

\* tdx_offline_cpu relies on nr_configured_hkid: it counts the TDs with a key id.
ConfiguredCounted ==
    nr_configured_hkid = Cardinality({t \in Tds : HkidAssigned(t)})

\* tdx_vcpu_free and tdx_vm_free ask for a page back only when the TDX module will give
\* it: after the key id is freed, and for the TDR after all others.
Reclaims(t) ==
    (IF td[t].pc = "vm_free" /\ ~HkidAssigned(t) THEN td[t].tdcs ELSE {})
    \cup (IF td[t].pc = "free_tdr" THEN {td[t].tdr} ELSE {})
    \cup (IF td[t].pc = "free_vcpus"
          THEN UNION {tdVcpu[v].tdvpx \cup ({tdVcpu[v].tdvpr} \ {NullPa}) :
                        v \in {u \in VcpusOf(t) : ~VcpuGivesUp(u)}}
          ELSE {})
ReclaimsAllowed ==
    \A t \in Tds : \A p \in Reclaims(t) :
        /\ mod[t].key = "freed"
        /\ p = td[t].tdr => td[t].tdcs = {} /\ \A v \in VcpusOf(t) : tdVcpu[v].tdvpr = NullPa

\* "Simply use the full teardown and destroy, which naturally play nice with partial
\* initialization": a KVM_TDX_INIT_VM that failed leaves nothing behind and can be
\* repeated.
Unassigned(t) == InTd(t, "idle") /\ ~HkidAssigned(t)
FailedInitUndone ==
    \A t \in Tds : Unassigned(t) /\ ~mod[t].kept
        => td[t].tdr = NullPa /\ td[t].tdcs = {} /\ mod[t] = NoTd

\* When no TD has a key id any more or ever will, whatever failed while they were built,
\* every page and every key id is back, but for those that the TDX module has kept.
AllGivenBack ==
    (\A t \in Tds : InTd(t, "gone") \/ Unassigned(t)) =>
        /\ free = {p \in KernelPages : pamt[p] = "host"}
        /\ (\A t \in Tds : ~mod[t].kept) => free = KernelPages /\ pool = {}

\* The types, and what keeps the key ids and the pages of TDs, the kernel and the TDX
\* module apart.
TdsKeepApart ==
    /\ LifeTypeOK /\ FreePagesAreHost /\ KeyidExclusive /\ ConfiguredCounted
    /\ ReclaimsAllowed

\* Pages and key ids come back: at once when KVM_TDX_INIT_VM fails, else at the end.
EverythingBack == FailedInitUndone /\ AllGivenBack

\* KVM_BUG_ON of tdx_td_vcpu_init: the TDX module does not refuse a VCPU that
\* tdx_vcpu_ioctl let through.
VcpuInitNeverBugs == \A t \in Tds : ~td[t].bugged

\* The destruction of a TD, and its end.
Ending(t) == td[t].ending
Ended(t) == InTd(t, "gone")
=============================================================================
