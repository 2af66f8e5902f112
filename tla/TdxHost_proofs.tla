--------------------------- MODULE TdxHost_proofs ---------------------------
(***************************************************************************)
(* Theorems about the TDX host, for any number of VCPUs, zappers, pages,   *)
(* TDs, key ids, CPUs and packages: about TdxTrack.tla, then TdxCpus.tla,  *)
(* then TdxLife.tla.  The three share no state.                            *)
(*                                                                         *)
(* TLB tracking is safe because a thread in tdx_track has asked every VCPU *)
(* before TDH.MEM.TRACK, and a VCPU that was asked does not enter the      *)
(* guest before tdh_mem_track is 0 again.  So at the TRACK no VCPU runs,   *)
(* and one that runs later has seen an epoch later than the BLOCK and has  *)
(* flushed what it had cached.                                             *)
(***************************************************************************)
EXTENDS TdxTrack, TdxLife, TdxCpus, FiniteSetTheorems, WellFoundedInduction, TLAPS

\* The threads counted by kvm_tdx->tdh_mem_track.
Trackers == {t \in Threads : pc[t] \in {"request", "wait", "release"}}

\* A zapper that has mmu_lock.
Holding(z) == \/ pc[z] \in {"block", "drop", "scrub"}
              \/ pc[z] \in TrackPcs /\ back[z] = "drop"

\* Where tdx_track returns to, and who has mmu_lock.
Places ==
    /\ \A v \in Vcpus : pc[v] \in TrackPcs => back[v] = "mode"
    /\ \A z \in Zappers :
          /\ pc[z] \in TrackPcs => back[z] \in {"drop", "idle"}
          /\ pc[z] = "block" => back[z] = "drop"
          /\ Holding(z) => at[z] \in Pages /\ writer = {z}
    /\ \A v \in Vcpus : pc[v] \in {"fault", "aug", "unzap"} => at[v] \in Pages /\ v \in readers
    /\ readers # {} => writer = {}

\* tdh_mem_track counts the threads between its increment and its decrement.
Counted == track = Cardinality(Trackers)

\* A VCPU that a tracker has asked finds the request before it enters the guest, and
\* one that was in the guest has not acknowledged yet.
Kicked ==
    \A t \in Threads, v \in Vcpus :
        /\ pc[t] = "wait" => todo[t] = {}
        /\ pc[t] \in {"request", "wait"} /\ v \notin todo[t] =>
              /\ vcpu[v].req \/ pc[v] = "spin"
              /\ pc[v] \in {"enter", "guest"} => v \in waiting[t]

\* kvm_make_all_cpus_request sees the VCPUs whose interrupts are off.
Modes == \A v \in Vcpus : pc[v] \in IrqsOff => vcpu[v].mode # "OUTSIDE"

\* No epoch lies in the future; a translation that outlived its entry is older than
\* the BLOCK; a page is free only after tracking, and a zapper removes it only then.
Epochs ==
    /\ \A v \in Vcpus : module.seen[v] <= module.epoch
    /\ \A p \in Pages : bepoch[p] <= module.epoch
    /\ \A v \in Vcpus, p \in Pages :
          p \in module.tlb[v] /\ sept[p] # "mapped" => module.seen[v] <= bepoch[p]
    /\ \A p \in Pages : sept[p] = "free" => Tracked(p)
    /\ \A z \in Zappers :
          pc[z] = "drop" \/ (pc[z] = "release" /\ back[z] = "drop") => Tracked(at[z])

\* KVM's mirror agrees with the Secure-EPT up to the step in progress, and a mapped
\* page has one reference.
Mirrored ==
    /\ \A p \in Pages :
          /\ spte[p] = "none" => sept[p] = "free"
          /\ spte[p] = "present" => sept[p] = "mapped"
          /\ spte[p] = "zapped" => \/ sept[p] = "blocked"
                                   \/ \E z \in Zappers : pc[z] = "scrub" /\ at[z] = p
          /\ pins[p] = IF spte[p] = "none" THEN 0 ELSE 1
    /\ \A v \in Vcpus :
          /\ pc[v] = "aug" => spte[at[v]] = "frozen" /\ sept[at[v]] = "free"
          /\ pc[v] = "unzap" => spte[at[v]] = "frozen" /\ sept[at[v]] = "blocked"
    /\ \A v, w \in Vcpus :
          v # w /\ pc[v] \in {"aug", "unzap"} /\ pc[w] \in {"aug", "unzap"} => at[v] # at[w]
    /\ \A z \in Zappers : Holding(z) =>
          IF pc[z] = "block" THEN spte[at[z]] = "present"
          ELSE spte[at[z]] = "zapped" /\ sept[at[z]] = IF pc[z] = "scrub" THEN "free" ELSE "blocked"

IInv ==
    /\ TypeOK /\ ~bugged
    /\ Places /\ Counted /\ Kicked /\ Modes /\ Epochs /\ Mirrored

\* The places a thread can move from and to, and the others stand still.
Goes(t, from, to) ==
    /\ pc[t] \in from /\ pc'[t] \in to
    /\ pc' = [pc EXCEPT ![t] = pc'[t]]
    /\ \A u \in Threads \ {t} : pc'[u] = pc[u] /\ back'[u] = back[u] /\ at'[u] = at[u]

-----------------------------------------------------------------------------
(* Sets and numbers.                                                       *)

\* VCPUs and zappers are different threads, and finitely many.
LEMMA ThreadSets ==
  /\ Vcpus \subseteq Threads /\ Zappers \subseteq Threads
  /\ \A v \in Vcpus, z \in Zappers : v # z
  /\ IsFiniteSet(Threads) /\ Cardinality(Threads) \in Nat
  /\ NoPage \notin Pages /\ MaxZaps \in Nat
BY TrackAssumption, FS_CardinalityType DEF Threads

\* tdh_mem_track fits the number of threads.
LEMMA TrackersCounted ==
  /\ IsFiniteSet(Trackers)
  /\ Cardinality(Trackers) \in 0 .. Cardinality(Threads)
<1>1. Trackers \subseteq Threads /\ IsFiniteSet(Threads)
  BY ThreadSets DEF Trackers
<1>2. IsFiniteSet(Trackers) /\ Cardinality(Trackers) <= Cardinality(Threads)
  BY <1>1, FS_Subset
<1>3. QED
  BY <1>2, ThreadSets, FS_CardinalityType

-----------------------------------------------------------------------------
(* One thread moves at a time.                                             *)

\* Where the steps of tdx_track lead.
LEMMA TrackMoves ==
  ASSUME TypeOK, NEW t \in Threads, TrackStep(t)
  PROVE  /\ Goes(t, TrackPcs, TrackPcs \cup {back[t]})
         /\ \A v \in Vcpus : /\ vcpu[v].mode # "OUTSIDE" => vcpu'[v].mode # "OUTSIDE"
                             /\ vcpu[v].req => vcpu'[v].req
         /\ UNCHANGED <<back, at, sept, bepoch, spte, pins, readers, writer, zaps>>
<1> USE ThreadSets DEF TypeOK, Goto, Goes, TrackPcs, hostVars, pageVars, lockVars
<1>1. CASE TrackIncrement(t)
  BY <1>1 DEF TrackIncrement
<1>2. CASE SendIpis(t)
  BY <1>2 DEF SendIpis
<1>3. CASE TdhMemTrack(t)
  BY <1>3 DEF TdhMemTrack
<1>4. CASE TrackRelease(t)
  BY <1>4 DEF TrackRelease
<1>5. CASE \E v \in Vcpus : MakeRequest(t, v)
  BY <1>5 DEF MakeRequest
<1>6. CASE \E v \in Vcpus : AckFlush(t, v)
  BY <1>6 DEF AckFlush
<1>7. QED
  BY <1>1, <1>2, <1>3, <1>4, <1>5, <1>6 DEF TrackStep

\* Where the steps of vcpu_enter_guest lead.
LEMMA EntryMoves ==
  ASSUME TypeOK, NEW v \in Vcpus, EntryStep(v)
  PROVE  /\ Goes(v, {"top", "spin", "reload", "mode", "check", "enter", "left"},
                    {"top", "spin", "reload", "mode", "check", "enter", "guest", "exit", "track"})
         /\ pc'[v] = "track" => back'[v] = "mode"
         /\ \A w \in Vcpus : w # v => vcpu'[w] = vcpu[w]
         /\ pc[v] # "top" /\ vcpu[v].req => vcpu'[v].req
         /\ UNCHANGED <<at, track, todo, waiting, sept, bepoch, spte, pins, readers, writer,
                        bugged, zaps>>
<1> USE ThreadSets DEF TypeOK, Goto, Goes, hostVars, pageVars, lockVars
<1>1. CASE CheckRequests(v)
  BY <1>1 DEF CheckRequests
<1>2. CASE FlushTlb(v)
  BY <1>2 DEF FlushTlb
<1>3. CASE MmuReload(v)
  BY ZenonT(40), <1>3 DEF MmuReload
<1>4. CASE SetInGuestMode(v)
  BY ZenonT(40), <1>4 DEF SetInGuestMode
<1>5. CASE RecheckRequests(v)
  BY <1>5 DEF RecheckRequests
<1>6. CASE VcpuRun(v)
  BY <1>6 DEF VcpuRun
<1>7. CASE LeaveGuest(v)
  BY ZenonT(40), <1>7 DEF LeaveGuest
<1>8. QED
  BY <1>1, <1>2, <1>3, <1>4, <1>5, <1>6, <1>7 DEF EntryStep

\* Where the steps of the guest lead.
LEMMA GuestMoves ==
  ASSUME TypeOK, NEW v \in Vcpus, GuestStep(v)
  PROVE  /\ Goes(v, {"guest"}, {"guest", "left"})
         /\ UNCHANGED <<back, removes, hostVars, pageVars, lockVars, bugged, zaps>>
<1> USE ThreadSets DEF TypeOK, Goto, Goes, hostVars, pageVars, lockVars, InGuest
<1>1. CASE Interrupt(v)
  BY <1>1 DEF Interrupt
<1>2. CASE \E p \in Pages : GuestTouch(v, p)
  BY <1>2 DEF GuestTouch
<1>3. CASE \E p \in Pages : GuestFault(v, p)
  BY <1>3 DEF GuestFault
<1>4. QED
  BY <1>1, <1>2, <1>3 DEF GuestStep

\* Where the steps of the fault path lead.
LEMMA FaultMoves ==
  ASSUME TypeOK, NEW v \in Vcpus, FaultStep(v) \/ UnzapBusy(v)
  PROVE  /\ Goes(v, {"exit", "fault", "aug", "unzap"}, {"top", "fault", "aug", "unzap"})
         /\ UNCHANGED <<back, at, removes, hostVars, module, bepoch, writer, zaps>>
<1> USE ThreadSets DEF TypeOK, Goto, Goes, hostVars, FaultDone
<1>1. CASE HandleExit(v)
  BY <1>1 DEF HandleExit, pageVars
<1>2. CASE TdpMap(v)
  BY <1>2 DEF TdpMap
<1>3. CASE MemPageAug(v)
  BY <1>3 DEF MemPageAug
<1>4. CASE MemPageAugBusy(v)
  BY <1>4 DEF MemPageAugBusy
<1>5. CASE UnzapPrivateSpte(v)
  BY <1>5 DEF UnzapPrivateSpte
<1>6. CASE UnzapBusy(v)
  BY <1>6 DEF UnzapBusy
<1>7. QED
  BY <1>1, <1>2, <1>3, <1>4, <1>5, <1>6 DEF FaultStep

\* Where the steps of a zapper lead.
LEMMA ZapMoves ==
  ASSUME TypeOK, NEW z \in Zappers, ZapStep(z) \/ \E p \in Pages : ZapLock(z, p)
  PROVE  /\ Goes(z, ZapPcs, ZapPcs \cup {"track"})
         /\ UNCHANGED <<hostVars, module, readers>>
<1> USE ThreadSets DEF TypeOK, Goto, Goes, hostVars, pageVars, ZapPcs
<1>1. CASE ZapPrivateSpte(z)
  BY <1>1 DEF ZapPrivateSpte
<1>2. CASE ZapBusy(z)
  BY <1>2 DEF ZapBusy
<1>3. CASE DropPrivateSpte(z)
  BY <1>3 DEF DropPrivateSpte
<1>4. CASE ScrubPage(z)
  BY <1>4 DEF ScrubPage
<1>5. CASE \E p \in Pages : ZapLock(z, p)
  BY <1>5 DEF ZapLock
<1>6. QED
  BY <1>1, <1>2, <1>3, <1>4, <1>5 DEF ZapStep

-----------------------------------------------------------------------------
(* Places.                                                                 *)

\* mmu_lock has one writer.
LEMMA OneHolder ==
  ASSUME Places, NEW y \in Zappers, NEW z \in Zappers, Holding(y), Holding(z)
  PROVE  y = z
BY DEF Places

\* A step that leaves mmu_lock alone keeps who holds it.
LEMMA PlacesFrame ==
  ASSUME Places, UNCHANGED <<readers, writer>>,
         \A v \in Vcpus : pc'[v] \in TrackPcs => back'[v] = "mode",
         \A v \in Vcpus : pc'[v] \in {"fault", "aug", "unzap"} =>
                             pc[v] \in {"fault", "aug", "unzap"} /\ at'[v] = at[v],
         \A z \in Zappers : /\ pc'[z] \in TrackPcs => back'[z] \in {"drop", "idle"}
                            /\ pc'[z] = "block" => back'[z] = "drop"
                            /\ Holding(z)' => Holding(z) /\ at'[z] = at[z]
  PROVE  Places'
BY DEF Places

\* tdx_track returns to where it was called, and mmu_lock is a rwlock.
LEMMA PlacesKept ==
  ASSUME TypeOK, Places, [Next]_vars
  PROVE  Places'
<1> USE ThreadSets
<1>1. ASSUME NEW t \in Threads, TrackStep(t)
      PROVE  Places'
  <2>1. /\ Goes(t, TrackPcs, TrackPcs \cup {back[t]})
        /\ UNCHANGED <<back, at, readers, writer>>
    BY <1>1, TrackMoves
  <2>2. QED
    BY <2>1, PlacesFrame DEF Goes, Places, Holding, TrackPcs
<1>2. ASSUME NEW v \in Vcpus, EntryStep(v)
      PROVE  Places'
  BY <1>2, EntryMoves, PlacesFrame DEF Goes, Places, Holding, TrackPcs
<1>3. ASSUME NEW v \in Vcpus, GuestStep(v)
      PROVE  Places'
  BY <1>3, GuestMoves, PlacesFrame DEF Goes, Places, Holding, TrackPcs, lockVars
<1>4. ASSUME NEW v \in Vcpus, FaultStep(v) \/ UnzapBusy(v)
      PROVE  Places'
  <2>1. /\ Goes(v, {"exit", "fault", "aug", "unzap"}, {"top", "fault", "aug", "unzap"})
        /\ UNCHANGED <<back, at, writer>>
    BY <1>4, FaultMoves
  <2>2. IF pc'[v] = "top"
        THEN readers' \in {readers, readers \ {v}}
        ELSE /\ readers' \in {readers, readers \cup {v}}
             /\ at[v] \in Pages /\ v \in readers' /\ writer = {}
    <3> USE DEF TypeOK, Goto, FaultDone, Places, lockVars
    <3>1. CASE HandleExit(v)
      BY <3>1 DEF HandleExit
    <3>2. CASE TdpMap(v)
      BY <3>2 DEF TdpMap
    <3>3. CASE MemPageAug(v) \/ MemPageAugBusy(v) \/ UnzapPrivateSpte(v) \/ UnzapBusy(v)
      BY <3>3 DEF MemPageAug, MemPageAugBusy, UnzapPrivateSpte, UnzapBusy
    <3>4. QED
      BY <1>4, <3>1, <3>2, <3>3 DEF FaultStep
  <2>3. readers' # {} => writer' = {}
    BY <2>1, <2>2 DEF Places, Goes
  <2>4. \A z \in Zappers : pc'[z] = pc[z] /\ (Holding(z)' <=> Holding(z))
    BY <2>1 DEF Goes, Holding
  <2>5. QED
    BY <2>1, <2>2, <2>3, <2>4 DEF Goes, Places, TrackPcs
<1>5. ASSUME NEW z \in Zappers, ZapStep(z) \/ \E p \in Pages : ZapLock(z, p)
      PROVE  Places'
  <2>1. /\ Goes(z, ZapPcs, ZapPcs \cup {"track"})
        /\ UNCHANGED readers
    BY <1>5, ZapMoves
  <2>2. /\ writer = {} \/ writer = {z}
        /\ Holding(z)' => writer' = {z} /\ at'[z] \in Pages
        /\ ~Holding(z)' => writer' = {}
        /\ pc'[z] \in TrackPcs => back'[z] \in {"drop", "idle"}
        /\ pc'[z] = "block" => back'[z] = "drop"
        /\ writer' # {} => readers = {} \/ Holding(z)
    <3> USE DEF TypeOK, Goto, Places, Holding, TrackPcs
    <3>1. CASE ZapPrivateSpte(z)
      BY <3>1 DEF ZapPrivateSpte
    <3>2. CASE ZapBusy(z)
      BY <3>2 DEF ZapBusy
    <3>3. CASE DropPrivateSpte(z)
      BY <3>3 DEF DropPrivateSpte
    <3>4. CASE ScrubPage(z)
      BY <3>4 DEF ScrubPage
    <3>5. CASE \E p \in Pages : ZapLock(z, p)
      BY <3>5 DEF ZapLock
    <3>6. QED
      BY <1>5, <3>1, <3>2, <3>3, <3>4, <3>5 DEF ZapStep
  <2>3. \A y \in Zappers : y # z => /\ pc'[y] = pc[y] /\ back'[y] = back[y]
                                    /\ ~Holding(y) /\ ~Holding(y)'
    BY <2>1, <2>2 DEF Goes, Places, Holding
  <2>4. \A v \in Vcpus : pc'[v] = pc[v] /\ back'[v] = back[v] /\ at'[v] = at[v]
    BY <2>1 DEF Goes
  <2>5. readers' # {} => writer' = {}
    BY <2>1, <2>2 DEF Places
  <2>6. QED
    BY <2>1, <2>2, <2>3, <2>4, <2>5 DEF Places
<1>6. CASE UNCHANGED vars
  BY <1>6, PlacesFrame DEF vars, Places, Holding, lockVars
<1>7. QED
  BY <1>1, <1>2, <1>3, <1>4, <1>5, <1>6 DEF Next

-----------------------------------------------------------------------------
(* The count and the requests.                                             *)

\* tdh_mem_track counts its threads.
LEMMA CountedKept ==
  ASSUME TypeOK, Places, Counted, [Next]_vars
  PROVE  Counted'
<1> USE ThreadSets
<1>1. ASSUME Trackers' = Trackers, track' = track
      PROVE  Counted'
  BY <1>1 DEF Counted
<1>2. ASSUME NEW t \in Threads, TrackIncrement(t)
      PROVE  Counted'
  <2>1. Trackers' = Trackers \cup {t} /\ t \notin Trackers
    BY <1>2 DEF TrackIncrement, Trackers, Goto, TypeOK
  <2>2. Cardinality(Trackers') = Cardinality(Trackers) + 1
    BY <2>1, TrackersCounted, FS_AddElement
  <2>3. QED
    BY <1>2, <2>2 DEF TrackIncrement, Counted
<1>3. ASSUME NEW t \in Threads, TrackRelease(t)
      PROVE  Counted'
  <2>1. back[t] \notin {"request", "wait", "release"}
    BY <1>3 DEF TypeOK
  <2>2. Trackers' = Trackers \ {t} /\ t \in Trackers
    BY <1>3, <2>1 DEF TrackRelease, Trackers, Goto, TypeOK
  <2>3. Cardinality(Trackers') = Cardinality(Trackers) - 1
    BY <2>2, TrackersCounted, FS_RemoveElement
  <2>4. QED
    BY <1>3, <2>3 DEF TrackRelease, Counted
<1>4. ASSUME NEW t \in Threads,
             SendIpis(t) \/ TdhMemTrack(t) \/ \E v \in Vcpus : MakeRequest(t, v) \/ AckFlush(t, v)
      PROVE  Counted'
  <2>1. Trackers' = Trackers
    BY <1>4 DEF SendIpis, TdhMemTrack, MakeRequest, AckFlush, Trackers, Goto, TypeOK
  <2>2. track' = track
    BY <1>4 DEF SendIpis, TdhMemTrack, MakeRequest, AckFlush, hostVars
  <2>3. QED
    BY <1>1, <2>1, <2>2
<1>5. ASSUME NEW v \in Vcpus, EntryStep(v) \/ FaultStep(v) \/ UnzapBusy(v) \/ GuestStep(v)
      PROVE  Counted'
  <2>1. /\ Goes(v, VcpuPcs, VcpuPcs \cup {"track"})
        /\ track' = track
    BY <1>5, EntryMoves, FaultMoves, GuestMoves DEF Goes, VcpuPcs, hostVars
  <2>2. Trackers' = Trackers
    BY <2>1 DEF Goes, VcpuPcs, Trackers
  <2>3. QED
    BY <1>1, <2>1, <2>2
<1>6. ASSUME NEW z \in Zappers, ZapStep(z) \/ \E p \in Pages : ZapLock(z, p)
      PROVE  Counted'
  <2>1. Goes(z, ZapPcs, ZapPcs \cup {"track"}) /\ track' = track
    BY <1>6, ZapMoves DEF hostVars
  <2>2. Trackers' = Trackers
    BY <2>1 DEF Goes, ZapPcs, Trackers
  <2>3. QED
    BY <1>1, <2>1, <2>2
<1>7. CASE UNCHANGED vars
  BY <1>1, <1>7 DEF vars, hostVars, Trackers
<1>8. QED
  BY <1>2, <1>3, <1>4, <1>5, <1>6, <1>7 DEF Next, TrackStep

\* While no request is dropped and no asked VCPU gets nearer to the guest, nothing
\* that was asked is forgotten.
LEMMA KickedFrame ==
  ASSUME Kicked, UNCHANGED <<todo, waiting>>,
         \A t \in Threads : pc'[t] \in {"request", "wait"} => pc'[t] = pc[t],
         \A v \in Vcpus : vcpu[v].req => vcpu'[v].req,
         \A v \in Vcpus : pc[v] = "spin" => pc'[v] = "spin",
         \A v \in Vcpus : pc'[v] \in {"enter", "guest"} => pc[v] \in {"enter", "guest"}
  PROVE  Kicked'
BY DEF Kicked

\* A VCPU with a request pending has interrupts off only if its mode says so.
LEMMA ModesKept ==
  ASSUME TypeOK, Modes, [Next]_vars
  PROVE  Modes'
<1> USE ThreadSets DEF Modes, IrqsOff
<1>1. ASSUME NEW t \in Threads, TrackStep(t)
      PROVE  Modes'
  <2>1. \A v \in Vcpus : pc'[v] \in IrqsOff => pc'[v] = pc[v]
    BY SMTT(40), <1>1, TrackMoves DEF Goes, TrackPcs, TypeOK
  <2>2. QED
    BY <1>1, <2>1, TrackMoves
<1>2. ASSUME NEW v \in Vcpus, EntryStep(v)
      PROVE  Modes'
  <2>1. \A w \in Vcpus : w # v => pc'[w] = pc[w] /\ vcpu'[w] = vcpu[w]
    BY <1>2, EntryMoves DEF Goes
  <2>2. pc'[v] \in IrqsOff => vcpu'[v].mode # "OUTSIDE"
    BY <1>2 DEF EntryStep, CheckRequests, FlushTlb, MmuReload, SetInGuestMode,
                RecheckRequests, VcpuRun, LeaveGuest, hostVars, TypeOK, Goto
  <2>3. QED
    BY <2>1, <2>2
<1>3. ASSUME NEW v \in Vcpus, FaultStep(v) \/ UnzapBusy(v) \/ GuestStep(v)
      PROVE  Modes'
  <2>1. vcpu' = vcpu
    BY <1>3, FaultMoves, GuestMoves DEF hostVars
  <2>2. \A w \in Vcpus : pc'[w] \in IrqsOff => pc[w] \in IrqsOff
    BY <1>3, FaultMoves, GuestMoves DEF Goes
  <2>3. QED
    BY <2>1, <2>2
<1>4. ASSUME NEW z \in Zappers, ZapStep(z) \/ \E p \in Pages : ZapLock(z, p)
      PROVE  Modes'
  <2>1. vcpu' = vcpu /\ \A w \in Vcpus : pc'[w] = pc[w]
    BY <1>4, ZapMoves DEF Goes, hostVars
  <2>2. QED
    BY <2>1
<1>5. CASE UNCHANGED vars
  BY <1>5 DEF vars, hostVars
<1>6. QED
  BY <1>1, <1>2, <1>3, <1>4, <1>5 DEF Next

\* A VCPU that tdx_track asked does not enter the guest before it waited for the TRACK.
LEMMA KickedKept ==
  ASSUME TypeOK, Counted, Kicked, Modes, [Next]_vars
  PROVE  Kicked'
<1> USE ThreadSets
<1>1. ASSUME NEW t \in Threads, TrackIncrement(t)
      PROVE  Kicked'
  <2>1. /\ pc' = [pc EXCEPT ![t] = "request"] /\ pc[t] = "track"
        /\ todo' = [todo EXCEPT ![t] = Vcpus]
        /\ UNCHANGED <<vcpu, waiting>>
    BY <1>1 DEF TrackIncrement, Goto
  <2>2. QED
    BY <2>1 DEF Kicked, TypeOK
<1>2. ASSUME NEW t \in Threads, NEW v \in Vcpus, MakeRequest(t, v)
      PROVE  Kicked'
  <2>1. /\ todo' = [todo EXCEPT ![t] = @ \ {v}]
        /\ UNCHANGED pc /\ pc[t] = "request"
    BY <1>2 DEF MakeRequest
  <2>2. \A w \in Vcpus : vcpu[w].req => vcpu'[w].req
    BY <1>2 DEF MakeRequest, TypeOK
  <2>3. vcpu'[v].req
    BY <1>2 DEF MakeRequest, TypeOK
  <2>4. \A u \in Threads : waiting[u] \subseteq waiting'[u]
    BY <1>2 DEF MakeRequest, TypeOK
  <2>5. pc[v] \in {"enter", "guest"} => v \in waiting'[t]
    BY <1>2 DEF MakeRequest, TypeOK, Modes, IrqsOff
  <2>6. QED
    BY <2>1, <2>2, <2>3, <2>4, <2>5 DEF Kicked, TypeOK
<1>3. ASSUME NEW t \in Threads, SendIpis(t)
      PROVE  Kicked'
  <2>1. /\ pc' = [pc EXCEPT ![t] = "wait"] /\ pc[t] = "request" /\ todo[t] = {}
        /\ UNCHANGED <<vcpu, todo, waiting>>
    BY <1>3 DEF SendIpis, Goto, hostVars
  <2>2. QED
    BY <2>1 DEF Kicked, TypeOK
<1>4. ASSUME NEW t \in Threads, NEW v \in Vcpus, AckFlush(t, v)
      PROVE  Kicked'
  <2>1. /\ waiting' = [waiting EXCEPT ![t] = @ \ {v}]
        /\ pc[v] \notin {"enter", "guest"}
        /\ UNCHANGED <<pc, vcpu, todo>>
    BY <1>4 DEF AckFlush, IrqsOff
  <2>2. QED
    BY <2>1 DEF Kicked, TypeOK
<1>5. ASSUME NEW t \in Threads, TdhMemTrack(t) \/ TrackRelease(t)
      PROVE  Kicked'
  <2>1. /\ \A u \in Threads : u # t => pc'[u] = pc[u]
        /\ pc[t] \in TrackPcs
        /\ pc'[t] \in {"release", "top", "mode", "drop", "idle"}
        /\ UNCHANGED <<vcpu, todo, waiting>>
    BY <1>5 DEF TdhMemTrack, TrackRelease, TrackPcs, Goto, TypeOK, hostVars
  <2>2. QED
    BY <2>1, KickedFrame DEF TrackPcs
<1>6. ASSUME NEW v \in Vcpus, CheckRequests(v)
      PROVE  Kicked'
  <2>1. /\ pc' = [pc EXCEPT ![v] = IF vcpu[v].req THEN "spin" ELSE "reload"]
        /\ pc[v] = "top"
        /\ UNCHANGED <<todo, waiting>>
    BY <1>6 DEF CheckRequests, Goto
  <2>2. \A w \in Vcpus : w # v => vcpu'[w] = vcpu[w]
    BY <1>6 DEF CheckRequests
  <2>3. QED
    BY <2>1, <2>2 DEF Kicked, TypeOK
<1>7. ASSUME NEW v \in Vcpus, FlushTlb(v)
      PROVE  Kicked'
  <2>1. Cardinality(Trackers) = 0
    BY <1>7 DEF FlushTlb, Counted
  <2>2. Trackers = {}
    BY <2>1, TrackersCounted, FS_EmptySet
  <2>3. \A t \in Threads : pc'[t] \notin {"request", "wait"}
    BY <1>7, <2>2 DEF FlushTlb, Goto, Trackers, TypeOK
  <2>4. QED
    BY <2>3 DEF Kicked
<1>8. ASSUME NEW v \in Vcpus, RecheckRequests(v)
      PROVE  Kicked'
  <2>1. /\ pc[v] = "check" /\ pc'[v] \in {"top", "enter"}
        /\ pc'[v] = "enter" => ~vcpu[v].req
        /\ \A u \in Threads : u # v => pc'[u] = pc[u]
        /\ UNCHANGED <<todo, waiting>>
    BY <1>8 DEF RecheckRequests, ExitRequest, Goto, TypeOK
  <2>2. \A w \in Vcpus : vcpu[w].req => vcpu'[w].req
    BY <1>8, <2>1, EntryMoves DEF EntryStep
  <2>3. QED
    BY <2>1, <2>2 DEF Kicked
<1>9. ASSUME NEW v \in Vcpus, MmuReload(v) \/ SetInGuestMode(v) \/ VcpuRun(v) \/ LeaveGuest(v)
      PROVE  Kicked'
  <2>1. /\ \A u \in Threads : u # v => pc'[u] = pc[u]
        /\ pc[v] \in {"reload", "mode", "enter", "left"}
        /\ pc'[v] \in {"mode", "track", "check", "guest", "exit"}
        /\ pc'[v] = "guest" => pc[v] = "enter"
        /\ UNCHANGED <<todo, waiting>>
    BY <1>9 DEF MmuReload, SetInGuestMode, VcpuRun, LeaveGuest, Goto, TypeOK, hostVars
  <2>2. \A w \in Vcpus : vcpu[w].req => vcpu'[w].req
    BY <1>9, <2>1, EntryMoves DEF EntryStep
  <2>3. QED
    BY <2>1, <2>2, KickedFrame
<1>10. ASSUME NEW v \in Vcpus, FaultStep(v) \/ UnzapBusy(v) \/ GuestStep(v)
       PROVE  Kicked'
  <2>1. /\ \A u \in Threads : u # v => pc'[u] = pc[u]
        /\ pc[v] \in {"exit", "fault", "aug", "unzap", "guest"}
        /\ pc'[v] \in {"top", "fault", "aug", "unzap", "guest", "left"}
        /\ pc'[v] = "guest" => pc[v] = "guest"
        /\ UNCHANGED <<vcpu, todo, waiting>>
    BY <1>10, FaultMoves, GuestMoves DEF Goes, hostVars
  <2>2. QED
    BY <2>1, KickedFrame
<1>11. ASSUME NEW z \in Zappers, ZapStep(z) \/ \E p \in Pages : ZapLock(z, p)
       PROVE  Kicked'
  <2>1. /\ \A u \in Threads : u # z => pc'[u] = pc[u]
        /\ pc[z] \in ZapPcs /\ pc'[z] \in ZapPcs \cup {"track"}
        /\ UNCHANGED <<vcpu, todo, waiting>>
    BY <1>11, ZapMoves DEF Goes, hostVars
  <2>2. QED
    BY <2>1, KickedFrame DEF ZapPcs
<1>12. CASE UNCHANGED vars
  BY <1>12, KickedFrame DEF vars, hostVars
<1>13. QED
  BY <1>1, <1>2, <1>3, <1>4, <1>5, <1>6, <1>7, <1>8, <1>9, <1>10, <1>11, <1>12
  DEF Next, TrackStep, EntryStep

-----------------------------------------------------------------------------
(* Epochs.                                                                 *)

\* TDH.MEM.TRACK finds no VCPU in the guest: the KVM_BUG_ON of tdx_track does not fire.
LEMMA NobodyRunsAtTrack ==
  ASSUME Kicked, NEW t \in Threads, pc[t] = "wait", waiting[t] = {}
  PROVE  \A v \in Vcpus : ~InGuest(v)
BY DEF Kicked, InGuest

\* Tracking done is not undone.
LEMMA TrackedStays ==
  ASSUME TypeOK, NEW p \in Pages, Tracked(p),
         bepoch'[p] = bepoch[p], module'.epoch \in Nat, module'.epoch >= module.epoch,
         \A v \in Vcpus : InGuest(v)' => \/ module'.seen[v] = module'.epoch
                                         \/ InGuest(v) /\ module'.seen[v] = module.seen[v]
  PROVE  Tracked(p)'
BY SMTT(40) DEF Tracked, TypeOK

\* Steps outside the TDX module keep what the epochs promise.
LEMMA EpochsFrame ==
  ASSUME Epochs, UNCHANGED <<module, bepoch, sept>>,
         \A v \in Vcpus : InGuest(v)' => InGuest(v),
         \A z \in Zappers : pc'[z] = "drop" \/ (pc'[z] = "release" /\ back'[z] = "drop") =>
            /\ pc[z] = "drop" \/ (pc[z] = "release" /\ back[z] = "drop")
            /\ at'[z] = at[z]
  PROVE  Epochs'
BY DEF Epochs, Tracked

\* A zapper that is past tdx_track with the lock.
LEMMA PastTrackHolds ==
  ASSUME Places, NEW z \in Zappers, pc[z] = "drop" \/ (pc[z] = "release" /\ back[z] = "drop")
  PROVE  Holding(z) /\ at[z] \in Pages
BY DEF Places, Holding, TrackPcs

\* At the TRACK no VCPU runs; a VCPU that enters later has the new epoch and an empty
\* TLB; a BLOCK is as young as any translation.
LEMMA EpochsKept ==
  ASSUME TypeOK, Places, Kicked, Mirrored, Epochs, [Next]_vars
  PROVE  Epochs'
<1> USE ThreadSets
<1>1. ASSUME NEW t \in Threads, TdhMemTrack(t)
      PROVE  Epochs'
  <2>1. \A v \in Vcpus : ~InGuest(v)
    BY <1>1, NobodyRunsAtTrack DEF TdhMemTrack
  <2>2. /\ module' = [module EXCEPT !.epoch = module.epoch + 1]
        /\ pc' = [pc EXCEPT ![t] = "release"]
        /\ UNCHANGED <<back, at, sept, bepoch>>
    BY <1>1, <2>1 DEF TdhMemTrack, PreviousEpochBusy, Goto, pageVars
  <2>3. /\ module'.epoch = module.epoch + 1 /\ module'.seen = module.seen
        /\ module'.tlb = module.tlb /\ module.epoch \in Nat
    BY <2>2 DEF TypeOK
  <2>4. \A v \in Vcpus : ~InGuest(v)'
    BY <2>1, <2>2 DEF InGuest, TypeOK
  <2>5. \A p \in Pages : Tracked(p)'
    BY <2>2, <2>3, <2>4 DEF Epochs, Tracked, TypeOK
  <2>6. \A z \in Zappers : pc'[z] = "drop" \/ (pc'[z] = "release" /\ back'[z] = "drop") => at'[z] \in Pages
    BY <1>1, <2>2, PastTrackHolds DEF Places, Holding, TrackPcs, TypeOK, TdhMemTrack
  <2>7. /\ \A v \in Vcpus : module'.seen[v] <= module'.epoch
        /\ \A p \in Pages : bepoch'[p] <= module'.epoch
    BY <2>2, <2>3 DEF Epochs, TypeOK
  <2>8. QED
    BY <2>2, <2>3, <2>5, <2>6, <2>7 DEF Epochs
<1>2. ASSUME NEW t \in Threads,
             TrackIncrement(t) \/ SendIpis(t) \/ TrackRelease(t)
             \/ \E v \in Vcpus : MakeRequest(t, v) \/ AckFlush(t, v)
      PROVE  Epochs'
  <2>1. UNCHANGED <<module, bepoch, sept, back, at>>
    BY <1>2 DEF TrackIncrement, SendIpis, TrackRelease, MakeRequest, AckFlush, pageVars
  <2>2. /\ \A u \in Threads : u # t => pc'[u] = pc[u]
        /\ pc'[t] # pc[t] => \/ pc'[t] \in {"request", "wait"}
                             \/ pc[t] = "release" /\ pc'[t] = back[t]
    BY <1>2 DEF TrackIncrement, SendIpis, TrackRelease, MakeRequest, AckFlush, Goto, TypeOK
  <2>3. back[t] # "guest"
    BY DEF TypeOK
  <2>4. QED
    BY <2>1, <2>2, <2>3, EpochsFrame DEF InGuest
<1>3. ASSUME NEW v \in Vcpus, VcpuRun(v)
      PROVE  Epochs'
  <2>1. /\ module'.epoch = module.epoch /\ module.epoch \in Nat
        /\ module'.seen = [module.seen EXCEPT ![v] = module.epoch]
        /\ module'.tlb = [module.tlb EXCEPT ![v] = IF module.seen[v] < module.epoch THEN {} ELSE @]
        /\ module.seen \in [Vcpus -> Nat] /\ module.tlb \in [Vcpus -> SUBSET Pages]
        /\ pc' = [pc EXCEPT ![v] = "guest"]
        /\ UNCHANGED <<back, at, sept, bepoch>>
    BY <1>3 DEF VcpuRun, TypeOK, Goto, pageVars
  <2>2. /\ \A w \in Vcpus : module'.seen[w] <= module'.epoch
        /\ \A p \in Pages : bepoch'[p] <= module'.epoch
    BY <2>1 DEF Epochs
  <2>3. ASSUME NEW w \in Vcpus, NEW p \in Pages, p \in module'.tlb[w], sept'[p] # "mapped"
        PROVE  module'.seen[w] <= bepoch'[p]
    <3>1. p \in module.tlb[w] /\ module'.seen[w] = module.seen[w]
      BY <2>1, <2>3 DEF Epochs
    <3>2. QED
      BY <2>1, <2>3, <3>1 DEF Epochs
  <2>4. ASSUME NEW p \in Pages, Tracked(p)
        PROVE  Tracked(p)'
    BY <2>1, <2>4 DEF Tracked, InGuest, TypeOK
  <2>5. \A z \in Zappers : pc'[z] = pc[z]
    BY <2>1 DEF TypeOK
  <2>6. QED
    BY <2>1, <2>2, <2>3, <2>4, <2>5, PastTrackHolds DEF Epochs
<1>4. ASSUME NEW v \in Vcpus, EntryStep(v), ~VcpuRun(v)
      PROVE  Epochs'
  <2>1. module' = module /\ pc'[v] # "guest"
    BY <1>4 DEF EntryStep, CheckRequests, FlushTlb, MmuReload, SetInGuestMode, RecheckRequests,
                LeaveGuest, Goto, TypeOK
  <2>2. QED
    BY <1>4, <2>1, EntryMoves, EpochsFrame DEF Goes, InGuest
<1>5. ASSUME NEW v \in Vcpus, GuestStep(v)
      PROVE  Epochs'
  <2>1. UNCHANGED <<sept, bepoch>> /\ \A u \in Threads : u # v =>
          pc'[u] = pc[u] /\ back'[u] = back[u] /\ at'[u] = at[u]
    BY <1>5, GuestMoves DEF Goes, pageVars
  <2>2. pc[v] = "guest"
    BY <1>5 DEF GuestStep, Interrupt, GuestTouch, GuestFault, InGuest
  <2>3. CASE \E p \in Pages : GuestTouch(v, p)
    <3>1. PICK p \in Pages : GuestTouch(v, p)
      BY <2>3
    <3>2. /\ module'.epoch = module.epoch /\ module'.seen = module.seen
          /\ \A w \in Vcpus, q \in Pages : q \in module'.tlb[w] => q \in module.tlb[w] \/ q = p
          /\ sept[p] = "mapped" /\ pc' = pc
      BY <3>1 DEF GuestTouch, TypeOK
    <3>3. \A q : Tracked(q)' <=> Tracked(q)
      BY <2>1, <3>2 DEF Tracked, InGuest
    <3>4. QED
      BY <2>1, <3>2, <3>3 DEF Epochs
  <2>4. CASE module' = module
    BY <2>1, <2>2, <2>4, EpochsFrame DEF InGuest
  <2>5. QED
    BY <1>5, <2>3, <2>4 DEF GuestStep, Interrupt, GuestFault
<1>6. ASSUME NEW v \in Vcpus, FaultStep(v) \/ UnzapBusy(v)
      PROVE  Epochs'
  <2>1. /\ UNCHANGED <<back, at, module, bepoch>>
        /\ \A w \in Vcpus : InGuest(w)' <=> InGuest(w)
        /\ \A z \in Zappers : pc'[z] = pc[z]
    BY <1>6, FaultMoves DEF Goes, InGuest
  <2>2. \A p \in Pages : sept'[p] = sept[p] \/ sept'[p] = "mapped"
    BY <1>6 DEF FaultStep, HandleExit, TdpMap, MemPageAug, MemPageAugBusy, UnzapPrivateSpte,
                UnzapBusy, pageVars, TypeOK
  <2>3. \A q : Tracked(q)' <=> Tracked(q)
    BY <2>1 DEF Tracked
  <2>4. QED
    BY <2>1, <2>2, <2>3 DEF Epochs
<1>7. ASSUME NEW z \in Zappers, ZapPrivateSpte(z)
      PROVE  Epochs'
  <2>1. /\ sept' = [sept EXCEPT ![at[z]] = "blocked"]
        /\ bepoch' = [bepoch EXCEPT ![at[z]] = module.epoch]
        /\ pc' = [pc EXCEPT ![z] = "track"] /\ pc[z] = "block"
        /\ UNCHANGED <<module, at>>
    BY <1>7 DEF ZapPrivateSpte, Goto
  <2>2. Holding(z) /\ at[z] \in Pages
    BY <2>1 DEF Places, Holding
  <2>3. \A y \in Zappers : ~(pc'[y] = "drop" \/ (pc'[y] = "release" /\ back'[y] = "drop"))
    <3>1. \A y \in Zappers : y # z => ~Holding(y) /\ back'[y] = back[y]
      BY <1>7, <2>2, OneHolder DEF ZapPrivateSpte, TypeOK
    <3>2. QED
      BY <2>1, <3>1 DEF Holding, TrackPcs, TypeOK
  <2>4. \A p \in Pages : p # at[z] => (Tracked(p)' <=> Tracked(p))
    BY <2>1 DEF Tracked, InGuest, TypeOK
  <2>5. \A p \in Pages : /\ bepoch'[p] <= module.epoch
                         /\ sept'[p] = "free" => p # at[z] /\ sept[p] = "free"
                         /\ p # at[z] => bepoch'[p] = bepoch[p] /\ sept'[p] = sept[p]
                         /\ p = at[z] => bepoch'[p] = module.epoch
    BY <2>1, <2>2 DEF Epochs, TypeOK
  <2>6. QED
    BY <2>1, <2>3, <2>4, <2>5 DEF Epochs
<1>8. ASSUME NEW z \in Zappers, DropPrivateSpte(z)
      PROVE  Epochs'
  <2>1. Tracked(at[z]) /\ Holding(z) /\ at[z] \in Pages /\ pc[z] = "drop"
    BY <1>8, PastTrackHolds DEF DropPrivateSpte, Epochs
  <2>2. /\ sept' = [sept EXCEPT ![at[z]] = "free"]
        /\ pc' = [pc EXCEPT ![z] = "scrub"]
        /\ UNCHANGED <<module, at, bepoch, back>>
    BY <1>8, <2>1 DEF DropPrivateSpte, Goto
  <2>3. sept[at[z]] = "blocked"
    BY <2>1 DEF Mirrored
  <2>4. \A p : Tracked(p)' <=> Tracked(p)
    BY <2>2 DEF Tracked, InGuest, TypeOK
  <2>5. \A p \in Pages : sept'[p] # sept[p] => p = at[z]
    BY <2>2 DEF TypeOK
  <2>6. \A y \in Zappers : y # z => pc'[y] = pc[y]
    BY <2>2 DEF TypeOK
  <2>7. QED
    BY <2>1, <2>2, <2>3, <2>4, <2>5, <2>6 DEF Epochs, TypeOK
<1>9. ASSUME NEW z \in Zappers, ZapBusy(z) \/ ScrubPage(z) \/ \E p \in Pages : ZapLock(z, p)
      PROVE  Epochs'
  <2>1. /\ UNCHANGED <<module, bepoch, sept>>
        /\ pc'[z] \in {"idle", "block", "track"}
        /\ \A u \in Threads : u # z => pc'[u] = pc[u] /\ back'[u] = back[u] /\ at'[u] = at[u]
    BY <1>9 DEF ZapBusy, ScrubPage, ZapLock, Goto, TypeOK, pageVars
  <2>2. QED
    BY <2>1, EpochsFrame DEF InGuest
<1>10. CASE UNCHANGED vars
  BY <1>10, EpochsFrame DEF vars, pageVars, InGuest
<1>11. QED
  BY <1>1, <1>2, <1>3, <1>4, <1>5, <1>6, <1>7, <1>8, <1>9, <1>10
  DEF Next, TrackStep, ZapStep

-----------------------------------------------------------------------------
(* The mirror.                                                             *)

\* One page gets a new mirror, entry and count, and the others stay.
PageBecomes(q, s, m, n) ==
    \A p \in Pages : IF p = q THEN spte'[p] = s /\ sept'[p] = m /\ pins'[p] = n
                    ELSE spte'[p] = spte[p] /\ sept'[p] = sept[p] /\ pins'[p] = pins[p]

\* While nobody faults with the lock, a zapper that has it is alone.
LEMMA WriterAlone ==
  ASSUME Places, writer # {}
  PROVE  \A v \in Vcpus : pc[v] \notin {"fault", "aug", "unzap"}
BY DEF Places

\* A VCPU in the fault path keeps every zapper out.
LEMMA ReaderKeepsOut ==
  ASSUME Places, NEW v \in Vcpus, pc[v] \in {"fault", "aug", "unzap"}
  PROVE  \A z \in Zappers : ~Holding(z)
BY DEF Places

\* A step that leaves the pages alone keeps the mirror.
LEMMA MirrorFrame ==
  ASSUME Mirrored, UNCHANGED <<spte, sept, pins>>,
         \A v \in Vcpus : pc'[v] \in {"aug", "unzap"} => pc'[v] = pc[v] /\ at'[v] = at[v],
         \A z \in Zappers :
            /\ Holding(z)' => /\ Holding(z) /\ at'[z] = at[z]
                              /\ pc'[z] = "block" <=> pc[z] = "block"
                              /\ pc'[z] = "scrub" <=> pc[z] = "scrub"
            /\ pc[z] = "scrub" => pc'[z] = "scrub" /\ at'[z] = at[z]
  PROVE  Mirrored'
BY DEF Mirrored

\* The fault path: a frozen entry has one owner, who knows the Secure-EPT entry.
LEMMA FaultKeepsMirror ==
  ASSUME TypeOK, Places, Mirrored, NEW v \in Vcpus, FaultStep(v) \/ UnzapBusy(v)
  PROVE  Mirrored'
<1> USE ThreadSets
<1>1. /\ \A u \in Threads : u # v => pc'[u] = pc[u]
      /\ UNCHANGED <<back, at>>
  BY FaultMoves DEF Goes
<1>2. CASE HandleExit(v)
  <2>1. UNCHANGED <<spte, sept, pins>> /\ pc'[v] \notin {"aug", "unzap"}
    BY <1>2 DEF HandleExit, pageVars, Goto, TypeOK
  <2>2. QED
    BY <1>1, <2>1, MirrorFrame DEF Holding
<1>3. ASSUME pc[v] \in {"fault", "aug", "unzap"}
      PROVE  /\ at[v] \in Pages
             /\ \A z \in Zappers : ~Holding(z) /\ ~Holding(z)' /\ pc[z] # "scrub" /\ pc'[z] # "scrub"
  BY <1>1, <1>3, ReaderKeepsOut DEF Places, Holding
<1>4. ASSUME NEW s, NEW m, NEW n, at[v] \in Pages,
             PageBecomes(at[v], s, m, n),
             n = IF s = "none" THEN 0 ELSE 1,
             <<s, m>> \in {<<"none", "free">>, <<"present", "mapped">>, <<"zapped", "blocked">>,
                           <<"frozen", "free">>, <<"frozen", "blocked">>},
             pc[v] \in {"fault", "aug", "unzap"},
             pc'[v] \in {"aug", "unzap"} => s = "frozen",
             pc'[v] = "aug" => m = "free", pc'[v] = "unzap" => m = "blocked",
             \A w \in Vcpus : w # v /\ pc[w] \in {"aug", "unzap"} => at[w] # at[v]
      PROVE  Mirrored'
  <2>1. \A p \in Pages : /\ spte'[p] = "none" => sept'[p] = "free"
                         /\ spte'[p] = "present" => sept'[p] = "mapped"
                         /\ spte'[p] = "zapped" => sept'[p] = "blocked"
                         /\ pins'[p] = IF spte'[p] = "none" THEN 0 ELSE 1
    BY <1>3, <1>4 DEF Mirrored, PageBecomes
  <2>2. \A w \in Vcpus : pc'[w] \in {"aug", "unzap"} => at[w] \in Pages
    BY <1>1, <1>4 DEF Places
  <2>3. \A w \in Vcpus : /\ pc'[w] = "aug" => spte'[at'[w]] = "frozen" /\ sept'[at'[w]] = "free"
                         /\ pc'[w] = "unzap" => spte'[at'[w]] = "frozen" /\ sept'[at'[w]] = "blocked"
    BY <1>1, <1>4, <2>2 DEF Mirrored, PageBecomes
  <2>4. \A u, w \in Vcpus :
          u # w /\ pc'[u] \in {"aug", "unzap"} /\ pc'[w] \in {"aug", "unzap"} => at'[u] # at'[w]
    BY <1>1, <1>4 DEF Mirrored
  <2>5. QED
    BY <1>3, <1>4, <2>1, <2>3, <2>4 DEF Mirrored
<1>5. CASE TdpMap(v)
  <2>1. at[v] \in Pages /\ pc[v] = "fault"
        /\ \A z \in Zappers : pc[z] # "scrub"
    BY <1>3, <1>5 DEF TdpMap
  <2>2. CASE spte[at[v]] \in {"none", "zapped"}
    <3>1. \A w \in Vcpus : w # v /\ pc[w] \in {"aug", "unzap"} => at[w] # at[v]
      BY <2>2 DEF Mirrored
    <3>2. CASE spte[at[v]] = "none"
      <4>1. /\ spte' = [spte EXCEPT ![at[v]] = "frozen"]
            /\ pins' = [pins EXCEPT ![at[v]] = @ + 1]
            /\ sept' = sept /\ pc'[v] = "aug"
        BY <1>5, <3>2 DEF TdpMap, Goto, TypeOK
      <4>2. pins[at[v]] = 0 /\ sept[at[v]] = "free"
        BY <2>1, <3>2 DEF Mirrored
      <4>3. PageBecomes(at[v], "frozen", "free", 1)
        BY <2>1, <4>1, <4>2 DEF TypeOK, PageBecomes
      <4>4. QED
        BY <1>4, <2>1, <3>1, <4>1, <4>3
    <3>3. CASE spte[at[v]] = "zapped"
      <4>1. /\ spte' = [spte EXCEPT ![at[v]] = "frozen"]
            /\ pins' = pins
            /\ sept' = sept /\ pc'[v] = "unzap"
        BY <1>5, <3>3 DEF TdpMap, Goto, TypeOK
      <4>2. pins[at[v]] = 1 /\ sept[at[v]] = "blocked"
        BY <2>1, <3>3 DEF Mirrored
      <4>3. PageBecomes(at[v], "frozen", "blocked", 1)
        BY <2>1, <4>1, <4>2 DEF TypeOK, PageBecomes
      <4>4. QED
        BY <1>4, <2>1, <3>1, <4>1, <4>3
    <3>4. QED
      BY <2>2, <3>2, <3>3
  <2>3. CASE spte[at[v]] \notin {"none", "zapped"}
    <3>1. UNCHANGED <<spte, sept, pins>> /\ pc'[v] = "top"
      BY <1>5, <2>3 DEF TdpMap, Goto, TypeOK
    <3>2. QED
      BY <1>1, <3>1, MirrorFrame DEF Holding
  <2>4. QED
    BY <2>2, <2>3
<1>6. CASE MemPageAug(v) \/ MemPageAugBusy(v) \/ UnzapPrivateSpte(v) \/ UnzapBusy(v)
  <2>1. pc[v] \in {"aug", "unzap"}
    BY <1>6 DEF MemPageAug, MemPageAugBusy, UnzapPrivateSpte, UnzapBusy
  <2>2. /\ at[v] \in Pages /\ spte[at[v]] = "frozen" /\ pins[at[v]] = 1
        /\ sept[at[v]] = IF pc[v] = "aug" THEN "free" ELSE "blocked"
        /\ \A w \in Vcpus : w # v /\ pc[w] \in {"aug", "unzap"} => at[w] # at[v]
    BY <1>3, <2>1 DEF Mirrored
  <2>3. pc'[v] = "top"
    BY <1>6 DEF MemPageAug, MemPageAugBusy, UnzapPrivateSpte, UnzapBusy, FaultDone, Goto, TypeOK
  <2>4. CASE MemPageAug(v)
    <3>1. /\ sept' = [sept EXCEPT ![at[v]] = "mapped"]
          /\ spte' = [spte EXCEPT ![at[v]] = "present"] /\ pins' = pins
      BY <2>2, <2>4 DEF MemPageAug, FaultDone
    <3>2. PageBecomes(at[v], "present", "mapped", 1)
      BY <2>2, <3>1 DEF TypeOK, PageBecomes
    <3>3. QED
      BY <1>4, <2>1, <2>2, <2>3, <3>2
  <2>5. CASE MemPageAugBusy(v)
    <3>1. /\ sept' = sept /\ pc[v] = "aug"
          /\ spte' = [spte EXCEPT ![at[v]] = "none"] /\ pins' = [pins EXCEPT ![at[v]] = @ - 1]
      BY <2>5 DEF MemPageAugBusy, FaultDone
    <3>2. PageBecomes(at[v], "none", "free", 0)
      BY <2>2, <3>1 DEF TypeOK, PageBecomes
    <3>3. QED
      BY <1>4, <2>1, <2>2, <2>3, <3>2
  <2>6. CASE UnzapPrivateSpte(v)
    <3>1. /\ sept' = [sept EXCEPT ![at[v]] = "mapped"]
          /\ spte' = [spte EXCEPT ![at[v]] = "present"] /\ pins' = pins
      BY <2>6 DEF UnzapPrivateSpte, FaultDone
    <3>2. PageBecomes(at[v], "present", "mapped", 1)
      BY <2>2, <3>1 DEF TypeOK, PageBecomes
    <3>3. QED
      BY <1>4, <2>1, <2>2, <2>3, <3>2
  <2>7. CASE UnzapBusy(v)
    <3>1. /\ sept' = sept /\ pc[v] = "unzap"
          /\ spte' = [spte EXCEPT ![at[v]] = "zapped"] /\ pins' = pins
      BY <2>7 DEF UnzapBusy, FaultDone
    <3>2. PageBecomes(at[v], "zapped", "blocked", 1)
      BY <2>2, <3>1 DEF TypeOK, PageBecomes
    <3>3. QED
      BY <1>4, <2>1, <2>2, <2>3, <3>2
  <2>8. QED
    BY <1>6, <2>4, <2>5, <2>6, <2>7
<1>7. QED
  BY <1>2, <1>5, <1>6 DEF FaultStep

\* The zappers: who has the lock works on an entry that nobody else touches.
LEMMA ZapKeepsMirror ==
  ASSUME TypeOK, Places, Mirrored, Epochs, NEW z \in Zappers,
         ZapStep(z) \/ \E p \in Pages : ZapLock(z, p)
  PROVE  Mirrored'
<1> USE ThreadSets
<1>1. \A u \in Threads : u # z => pc'[u] = pc[u] /\ back'[u] = back[u] /\ at'[u] = at[u]
  BY ZapMoves DEF Goes
<1>2. ASSUME Holding(z)
      PROVE  /\ at[z] \in Pages
             /\ \A v \in Vcpus : pc[v] \notin {"aug", "unzap"} /\ pc'[v] \notin {"aug", "unzap"}
             /\ \A y \in Zappers : y # z => /\ ~Holding(y) /\ ~Holding(y)'
                                            /\ pc[y] # "scrub" /\ pc'[y] # "scrub"
  BY <1>1, <1>2, WriterAlone, OneHolder DEF Places, Holding
<1>3. ASSUME NEW s, NEW m, NEW n, Holding(z), at'[z] = at[z],
             PageBecomes(at[z], s, m, n),
             n = IF s = "none" THEN 0 ELSE 1,
             \/ s = "none" /\ m = "free" /\ pc'[z] = "idle"
             \/ s = "zapped" /\ m = "blocked" /\ pc'[z] \in {"idle", "track"}
             \/ s = "zapped" /\ m = "free" /\ pc'[z] = "scrub"
             \/ s = "present" /\ m = "mapped" /\ pc'[z] = "idle",
             pc[z] # "scrub" \/ s # "zapped"
      PROVE  Mirrored'
  <2>1. \A p \in Pages :
          /\ spte'[p] = "none" => sept'[p] = "free"
          /\ spte'[p] = "present" => sept'[p] = "mapped"
          /\ spte'[p] = "zapped" => \/ sept'[p] = "blocked"
                                    \/ \E y \in Zappers : pc'[y] = "scrub" /\ at'[y] = p
          /\ pins'[p] = IF spte'[p] = "none" THEN 0 ELSE 1
    BY <1>2, <1>3 DEF Mirrored, PageBecomes
  <2>2. Holding(z)' => pc'[z] # "block" /\ spte'[at'[z]] = "zapped"
                       /\ sept'[at'[z]] = IF pc'[z] = "scrub" THEN "free" ELSE "blocked"
    BY <1>2, <1>3 DEF Holding, PageBecomes, TrackPcs
  <2>3. QED
    BY <1>2, <1>3, <2>1, <2>2 DEF Mirrored
<1>4. CASE ZapPrivateSpte(z)
  <2>1. Holding(z) /\ spte[at[z]] = "present" /\ pc[z] = "block"
    BY <1>4 DEF ZapPrivateSpte, Holding, Mirrored
  <2>2. /\ sept' = [sept EXCEPT ![at[z]] = "blocked"] /\ spte' = [spte EXCEPT ![at[z]] = "zapped"]
        /\ pins' = pins /\ pc'[z] = "track" /\ at' = at
    BY <1>4 DEF ZapPrivateSpte, Goto, TypeOK
  <2>3. PageBecomes(at[z], "zapped", "blocked", 1)
    BY <1>2, <2>1, <2>2 DEF Mirrored, TypeOK, PageBecomes
  <2>4. QED
    BY <1>3, <2>1, <2>2, <2>3
<1>5. CASE ZapBusy(z)
  <2>1. UNCHANGED <<spte, sept, pins>> /\ pc'[z] = "idle" /\ pc[z] = "block"
    BY <1>5 DEF ZapBusy, pageVars, Goto, TypeOK
  <2>2. QED
    BY <1>1, <2>1, MirrorFrame DEF Holding, TrackPcs
<1>6. CASE DropPrivateSpte(z)
  <2>1. Tracked(at[z]) /\ Holding(z) /\ pc[z] = "drop" /\ at[z] \in Pages
    BY <1>6, PastTrackHolds DEF DropPrivateSpte, Epochs
  <2>2. spte[at[z]] = "zapped" /\ pins[at[z]] = 1
    BY <2>1 DEF Mirrored
  <2>3. /\ sept' = [sept EXCEPT ![at[z]] = "free"] /\ spte' = spte
        /\ pins' = pins /\ pc'[z] = "scrub" /\ at' = at
    BY <1>6, <2>1 DEF DropPrivateSpte, Goto, TypeOK
  <2>4. PageBecomes(at[z], "zapped", "free", 1)
    BY <2>1, <2>2, <2>3 DEF TypeOK, PageBecomes
  <2>5. QED
    BY <1>3, <2>1, <2>3, <2>4
<1>7. CASE ScrubPage(z)
  <2>1. Holding(z) /\ pc[z] = "scrub" /\ at[z] \in Pages
    BY <1>7 DEF ScrubPage, Holding, Places
  <2>2. spte[at[z]] = "zapped" /\ sept[at[z]] = "free" /\ pins[at[z]] = 1
    BY <2>1 DEF Mirrored
  <2>3. /\ sept' = sept /\ spte' = [spte EXCEPT ![at[z]] = "none"]
        /\ pins' = [pins EXCEPT ![at[z]] = @ - 1] /\ pc'[z] = "idle" /\ at' = at
    BY <1>7 DEF ScrubPage, Goto, TypeOK
  <2>4. PageBecomes(at[z], "none", "free", 0)
    BY <2>1, <2>2, <2>3 DEF TypeOK, PageBecomes
  <2>5. QED
    BY <1>3, <2>1, <2>3, <2>4
<1>8. ASSUME NEW p \in Pages, ZapLock(z, p)
      PROVE  Mirrored'
  <2>1. /\ UNCHANGED <<spte, sept, pins>> /\ pc[z] = "idle" /\ writer = {}
        /\ at'[z] = p /\ pc'[z] \in {"block", "track"}
        /\ IF pc'[z] = "block" THEN spte[p] = "present" ELSE spte[p] = "zapped"
    BY <1>8 DEF ZapLock, pageVars, Goto, TypeOK
  <2>2. \A y \in Zappers : ~Holding(y) /\ pc[y] # "scrub"
    BY <2>1 DEF Places, Holding
  <2>3. \A q \in Pages : spte[q] = "zapped" => sept[q] = "blocked"
    BY <2>2 DEF Mirrored
  <2>4. \A v \in Vcpus : pc'[v] = pc[v] /\ at'[v] = at[v]
    BY <1>1
  <2>5. \A y \in Zappers : y # z => ~Holding(y)'
    BY <1>1, <2>2 DEF Holding
  <2>6. QED
    BY <2>1, <2>3, <2>4, <2>5 DEF Mirrored
<1>9. QED
  BY <1>4, <1>5, <1>6, <1>7, <1>8 DEF ZapStep

\* KVM's mirror, the Secure-EPT and the page references agree.
LEMMA MirroredKept ==
  ASSUME TypeOK, Places, Mirrored, Epochs, [Next]_vars
  PROVE  Mirrored'
<1> USE ThreadSets
<1>1. ASSUME NEW t \in Threads, TrackStep(t)
      PROVE  Mirrored'
  <2>1. /\ Goes(t, TrackPcs, TrackPcs \cup {back[t]})
        /\ UNCHANGED <<back, at, spte, sept, pins>>
    BY <1>1, TrackMoves
  <2>2. \A v \in Vcpus : pc'[v] \in {"aug", "unzap"} => pc'[v] = pc[v]
    BY <2>1 DEF Goes, TrackPcs, TypeOK
  <2>3. \A z \in Zappers : /\ Holding(z)' => /\ Holding(z)
                                             /\ pc'[z] = "block" <=> pc[z] = "block"
                                             /\ pc'[z] = "scrub" <=> pc[z] = "scrub"
                           /\ pc[z] = "scrub" => pc'[z] = "scrub"
    BY <2>1 DEF Goes, TrackPcs, Holding, TypeOK
  <2>4. QED
    BY <2>1, <2>2, <2>3, MirrorFrame
<1>2. ASSUME NEW v \in Vcpus, EntryStep(v) \/ GuestStep(v)
      PROVE  Mirrored'
  <2>1. /\ UNCHANGED <<spte, sept, pins>>
        /\ pc'[v] \notin {"aug", "unzap"}
        /\ \A u \in Threads : u # v => pc'[u] = pc[u] /\ back'[u] = back[u] /\ at'[u] = at[u]
    BY <1>2, EntryMoves, GuestMoves DEF Goes, pageVars
  <2>2. QED
    BY <2>1, MirrorFrame DEF Holding
<1>3. CASE UNCHANGED vars
  BY <1>3, MirrorFrame DEF vars, pageVars, Holding
<1>4. QED
  BY <1>1, <1>2, <1>3, FaultKeepsMirror, ZapKeepsMirror DEF Next

-----------------------------------------------------------------------------
(* Types, and the theorems.                                                *)

\* No KVM_BUG_ON: the TRACK finds nobody in the guest, the REMOVE a tracked page, the
\* AUG a free entry.
LEMMA NoBug ==
  ASSUME TypeOK, ~bugged, Places, Kicked, Epochs, Mirrored, [Next]_vars
  PROVE  ~bugged'
<1> USE ThreadSets
<1>1. ASSUME NEW t \in Threads, TdhMemTrack(t)
      PROVE  ~bugged'
  BY <1>1, NobodyRunsAtTrack DEF TdhMemTrack, PreviousEpochBusy
<1>2. ASSUME NEW t \in Threads, TrackStep(t), ~TdhMemTrack(t)
      PROVE  ~bugged'
  BY <1>2 DEF TrackStep, TrackIncrement, SendIpis, TrackRelease, MakeRequest, AckFlush
<1>3. ASSUME NEW v \in Vcpus, EntryStep(v) \/ GuestStep(v)
      PROVE  ~bugged'
  BY <1>3, EntryMoves, GuestMoves
<1>4. ASSUME NEW v \in Vcpus, MemPageAug(v)
      PROVE  ~bugged'
  BY <1>4 DEF MemPageAug, Mirrored
<1>5. ASSUME NEW v \in Vcpus, FaultStep(v) \/ UnzapBusy(v), ~MemPageAug(v)
      PROVE  ~bugged'
  BY <1>5 DEF FaultStep, HandleExit, TdpMap, MemPageAugBusy, UnzapPrivateSpte, UnzapBusy
<1>6. ASSUME NEW z \in Zappers, DropPrivateSpte(z)
      PROVE  ~bugged'
  BY <1>6 DEF DropPrivateSpte, Epochs
<1>7. ASSUME NEW z \in Zappers, ZapStep(z) \/ (\E p \in Pages : ZapLock(z, p)), ~DropPrivateSpte(z)
      PROVE  ~bugged'
  BY <1>7 DEF ZapStep, ZapPrivateSpte, ZapBusy, ScrubPage, ZapLock
<1>8. CASE UNCHANGED vars
  BY <1>8 DEF vars
<1>9. QED
  BY <1>1, <1>2, <1>3, <1>4, <1>5, <1>6, <1>7, <1>8 DEF Next

\* A thread stands at one of its own places.
LEMMA PcTyped ==
  ASSUME TypeOK, Places, [Next]_vars
  PROVE  /\ pc' \in [Threads -> VcpuPcs \cup ZapPcs \cup TrackPcs]
         /\ \A v \in Vcpus : pc'[v] \notin ZapPcs
         /\ \A z \in Zappers : pc'[z] \notin VcpuPcs
<1> DEFINE Typed == /\ pc' \in [Threads -> VcpuPcs \cup ZapPcs \cup TrackPcs]
                    /\ \A v \in Vcpus : pc'[v] \notin ZapPcs
                    /\ \A z \in Zappers : pc'[z] \notin VcpuPcs
<1> USE ThreadSets
<1>1. ASSUME NEW u \in Threads, pc' = [pc EXCEPT ![u] = pc'[u]],
             \/ u \in Vcpus /\ pc'[u] \in VcpuPcs \cup TrackPcs
             \/ u \in Zappers /\ pc'[u] \in ZapPcs \cup TrackPcs
      PROVE  Typed
  <2>1. pc' \in [Threads -> VcpuPcs \cup ZapPcs \cup TrackPcs]
    BY <1>1 DEF TypeOK
  <2>2. \A w \in Threads : w # u => pc'[w] = pc[w]
    BY <1>1 DEF TypeOK
  <2>3. pc'[u] \in VcpuPcs \cup TrackPcs => pc'[u] \notin ZapPcs
    BY DEF VcpuPcs, ZapPcs, TrackPcs
  <2>4. pc'[u] \in ZapPcs \cup TrackPcs => pc'[u] \notin VcpuPcs
    BY DEF VcpuPcs, ZapPcs, TrackPcs
  <2>5. QED
    BY <1>1, <2>1, <2>2, <2>3, <2>4 DEF TypeOK
<1>2. ASSUME NEW t \in Threads, TrackStep(t)
      PROVE  Typed
  <2>1. /\ Goes(t, TrackPcs, TrackPcs \cup {back[t]})
    BY <1>2, TrackMoves
  <2>2. IF t \in Vcpus THEN back[t] \in VcpuPcs ELSE t \in Zappers /\ back[t] \in ZapPcs
    BY <2>1 DEF Goes, Places, VcpuPcs, ZapPcs, Threads
  <2>3. QED
    BY <1>1, <2>1, <2>2 DEF Goes
<1>3. ASSUME NEW v \in Vcpus, EntryStep(v) \/ FaultStep(v) \/ UnzapBusy(v) \/ GuestStep(v)
      PROVE  Typed
  <2>1. Goes(v, VcpuPcs, VcpuPcs \cup TrackPcs)
    BY <1>3, EntryMoves, FaultMoves, GuestMoves DEF Goes, VcpuPcs, TrackPcs
  <2>2. QED
    BY <1>1, <2>1 DEF Goes
<1>4. ASSUME NEW z \in Zappers, ZapStep(z) \/ \E p \in Pages : ZapLock(z, p)
      PROVE  Typed
  BY <1>1, <1>4, ZapMoves DEF Goes, TrackPcs
<1>5. CASE UNCHANGED vars
  BY <1>5 DEF vars, TypeOK
<1>6. QED
  BY <1>2, <1>3, <1>4, <1>5 DEF Next

\* The types of what the host keeps for VCPUs and threads.
LEMMA ThreadsTyped ==
  ASSUME TypeOK, [Next]_vars
  PROVE  /\ back' \in [Threads -> {"top", "mode", "drop", "idle"}]
         /\ at' \in [Threads -> Pages \cup {NoPage}]
         /\ removes' \in [Zappers -> BOOLEAN]
         /\ vcpu' \in [Vcpus -> [mode : {"OUTSIDE", "IN_GUEST", "EXITING"},
                                 req : BOOLEAN, loaded : BOOLEAN]]
         /\ todo' \in [Threads -> SUBSET Vcpus] /\ waiting' \in [Threads -> SUBSET Vcpus]
<1> DEFINE Typed ==
      /\ back' \in [Threads -> {"top", "mode", "drop", "idle"}]
      /\ at' \in [Threads -> Pages \cup {NoPage}]
      /\ removes' \in [Zappers -> BOOLEAN]
      /\ vcpu' \in [Vcpus -> [mode : {"OUTSIDE", "IN_GUEST", "EXITING"},
                              req : BOOLEAN, loaded : BOOLEAN]]
      /\ todo' \in [Threads -> SUBSET Vcpus] /\ waiting' \in [Threads -> SUBSET Vcpus]
<1> USE ThreadSets DEF TypeOK, hostVars
<1>1. ASSUME NEW t \in Threads, TrackStep(t)
      PROVE  Typed
  <2>1. CASE TrackIncrement(t)
    BY <2>1 DEF TrackIncrement
  <2>2. ASSUME NEW v \in Vcpus, MakeRequest(t, v)
        PROVE  Typed
    <3>1. UNCHANGED <<back, at, removes>>
      BY <2>2 DEF MakeRequest
    <3>2. /\ todo' \in [Threads -> SUBSET Vcpus] /\ waiting' \in [Threads -> SUBSET Vcpus]
      BY <2>2 DEF MakeRequest
    <3>3. vcpu' \in [Vcpus -> [mode : {"OUTSIDE", "IN_GUEST", "EXITING"},
                               req : BOOLEAN, loaded : BOOLEAN]]
      <4> DEFINE m == IF vcpu[v].mode = "OUTSIDE" THEN "OUTSIDE" ELSE "EXITING"
           u == [vcpu EXCEPT ![v] = [vcpu[v] EXCEPT !.req = TRUE]]
      <4>1. vcpu' = [u EXCEPT ![v] = [u[v] EXCEPT !.mode = m]]
        BY <2>2 DEF MakeRequest
      <4>2. m \in {"OUTSIDE", "IN_GUEST", "EXITING"}
        OBVIOUS
      <4>3. u \in [Vcpus -> [mode : {"OUTSIDE", "IN_GUEST", "EXITING"},
                             req : BOOLEAN, loaded : BOOLEAN]]
        <5>1. PICK r \in [mode : {"OUTSIDE", "IN_GUEST", "EXITING"}, req : BOOLEAN, loaded : BOOLEAN] :
                 r = vcpu[v]
          OBVIOUS
        <5>2. [r EXCEPT !.req = TRUE] \in
                 [mode : {"OUTSIDE", "IN_GUEST", "EXITING"}, req : BOOLEAN, loaded : BOOLEAN]
          OBVIOUS
        <5>3. QED
          BY <5>1, <5>2
      <4> HIDE DEF m, u
      <4>4. QED
        BY ZenonT(40), <4>1, <4>2, <4>3
    <3>4. QED
      BY <3>1, <3>2, <3>3
  <2>3. CASE SendIpis(t)
    BY <2>3 DEF SendIpis
  <2>4. ASSUME NEW v \in Vcpus, AckFlush(t, v)
        PROVE  Typed
    BY <2>4 DEF AckFlush
  <2>5. CASE TdhMemTrack(t)
    BY <2>5 DEF TdhMemTrack
  <2>6. CASE TrackRelease(t)
    BY <2>6 DEF TrackRelease
  <2>7. QED
    BY <1>1, <2>1, <2>2, <2>3, <2>4, <2>5, <2>6 DEF TrackStep
<1>2. ASSUME NEW v \in Vcpus, EntryStep(v)
      PROVE  Typed
  <2>1. UNCHANGED <<at, removes, todo, waiting>>
    BY <1>2 DEF EntryStep, CheckRequests, FlushTlb, MmuReload, SetInGuestMode, RecheckRequests,
                VcpuRun, LeaveGuest
  <2>2. back' \in [Threads -> {"top", "mode", "drop", "idle"}]
    BY <1>2 DEF EntryStep, CheckRequests, FlushTlb, MmuReload, SetInGuestMode, RecheckRequests,
                VcpuRun, LeaveGuest
  <2>3. \/ vcpu' = vcpu
        \/ \E r \in [mode : {"OUTSIDE", "IN_GUEST", "EXITING"}, req : BOOLEAN, loaded : BOOLEAN] :
              vcpu' = [vcpu EXCEPT ![v] = r]
    <3> DEFINE C == vcpu[v]
    <3>1. C \in [mode : {"OUTSIDE", "IN_GUEST", "EXITING"}, req : BOOLEAN, loaded : BOOLEAN]
      OBVIOUS
    <3>2. CASE CheckRequests(v)
      <4>1. vcpu' = [vcpu EXCEPT ![v] = [C EXCEPT !.req = FALSE]]
        BY <3>2 DEF CheckRequests
      <4>2. QED
        BY <3>1, <4>1
    <3>3. CASE MmuReload(v)
      <4>1. vcpu' = [vcpu EXCEPT ![v] = [C EXCEPT !.loaded = TRUE]]
        BY <3>3 DEF MmuReload
      <4>2. QED
        BY <3>1, <4>1
    <3>4. CASE SetInGuestMode(v)
      <4>1. vcpu' = [vcpu EXCEPT ![v] = [C EXCEPT !.mode = "IN_GUEST"]]
        BY <3>4 DEF SetInGuestMode
      <4>2. QED
        BY <3>1, <4>1
    <3>5. CASE RecheckRequests(v) \/ LeaveGuest(v)
      <4>1. vcpu' = vcpu \/ vcpu' = [vcpu EXCEPT ![v] = [C EXCEPT !.mode = "OUTSIDE"]]
        BY <3>5 DEF RecheckRequests, LeaveGuest
      <4>2. QED
        BY <3>1, <4>1
    <3>6. CASE FlushTlb(v) \/ VcpuRun(v)
      BY <3>6 DEF FlushTlb, VcpuRun
    <3>7. QED
      BY <1>2, <3>2, <3>3, <3>4, <3>5, <3>6 DEF EntryStep
  <2>4. vcpu' \in [Vcpus -> [mode : {"OUTSIDE", "IN_GUEST", "EXITING"},
                             req : BOOLEAN, loaded : BOOLEAN]]
    BY <2>3
  <2>5. QED
    BY <2>1, <2>2, <2>4
<1>3. ASSUME NEW v \in Vcpus, FaultStep(v) \/ UnzapBusy(v)
      PROVE  Typed
  BY <1>3, FaultMoves
<1>4. ASSUME NEW v \in Vcpus, GuestStep(v)
      PROVE  Typed
  <2>1. UNCHANGED <<back, removes, vcpu, todo, waiting>>
    BY <1>4, GuestMoves
  <2>2. at' \in [Threads -> Pages \cup {NoPage}]
    BY SMTT(40), <1>4 DEF GuestStep, Interrupt, GuestTouch, GuestFault
  <2>3. QED
    BY <2>1, <2>2
<1>5. ASSUME NEW z \in Zappers, ZapStep(z) \/ \E p \in Pages : ZapLock(z, p)
      PROVE  Typed
  <2>1. UNCHANGED <<vcpu, todo, waiting>>
    BY <1>5, ZapMoves
  <2>2. CASE ZapStep(z)
    BY <2>1, <2>2 DEF ZapStep, ZapPrivateSpte, ZapBusy, DropPrivateSpte, ScrubPage
  <2>3. ASSUME NEW p \in Pages, ZapLock(z, p)
        PROVE  Typed
    BY ZenonT(40), <2>1, <2>3 DEF ZapLock
  <2>4. QED
    BY <1>5, <2>2, <2>3
<1>6. CASE UNCHANGED vars
  BY <1>6 DEF vars
<1>7. QED
  BY <1>1, <1>2, <1>3, <1>4, <1>5, <1>6 DEF Next

\* The types of what the TDX module and the MMU keep for pages.
LEMMA PagesTyped ==
  ASSUME TypeOK, Places, Mirrored', [Next]_vars
  PROVE  /\ module' \in [epoch : Nat \ {0}, seen : [Vcpus -> Nat], tlb : [Vcpus -> SUBSET Pages]]
         /\ sept' \in [Pages -> {"free", "mapped", "blocked"}]
         /\ bepoch' \in [Pages -> Nat]
         /\ spte' \in [Pages -> {"none", "frozen", "present", "zapped"}]
         /\ pins' \in [Pages -> 0 .. 1]
         /\ readers' \subseteq Vcpus /\ writer' \subseteq Zappers
         /\ bugged' \in BOOLEAN /\ zaps' \in 0 .. MaxZaps
<1> USE ThreadSets DEF TypeOK, pageVars, lockVars
<1>1. module' \in [epoch : Nat \ {0}, seen : [Vcpus -> Nat], tlb : [Vcpus -> SUBSET Pages]]
  <2> DEFINE M == [epoch : Nat \ {0}, seen : [Vcpus -> Nat], tlb : [Vcpus -> SUBSET Pages]]
  <2>1. ASSUME NEW t \in Threads, TrackStep(t)
        PROVE  module' \in M
    <3>1. module' = module \/ module' = [module EXCEPT !.epoch = @ + 1]
      BY <2>1 DEF TrackStep, TrackIncrement, MakeRequest, SendIpis, AckFlush, TdhMemTrack, TrackRelease
    <3>2. QED
      BY SMTT(40), <3>1
  <2>2. ASSUME NEW v \in Vcpus, EntryStep(v)
        PROVE  module' \in M
    <3>1. CASE VcpuRun(v)
      BY <3>1 DEF VcpuRun
    <3>2. CASE ~VcpuRun(v)
      BY <2>2, <3>2 DEF EntryStep, CheckRequests, FlushTlb, MmuReload, SetInGuestMode,
                        RecheckRequests, LeaveGuest
    <3>3. QED
      BY <3>1, <3>2
  <2>3. ASSUME NEW v \in Vcpus, GuestStep(v)
        PROVE  module' \in M
    <3>1. CASE \E p \in Pages : GuestTouch(v, p)
      <4>1. PICK p \in Pages : 
              module' = [module EXCEPT !.tlb = [module.tlb EXCEPT ![v] = module.tlb[v] \cup {p}]]
        BY <3>1 DEF GuestTouch
      <4>2. [module.tlb EXCEPT ![v] = module.tlb[v] \cup {p}] \in [Vcpus -> SUBSET Pages]
        OBVIOUS
      <4>3. QED
        BY <4>1, <4>2
    <3>2. CASE module' = module
      BY <3>2
    <3>3. QED
      BY <2>3, <3>1, <3>2 DEF GuestStep, Interrupt, GuestFault
  <2>4. ASSUME NEW v \in Vcpus, FaultStep(v) \/ UnzapBusy(v)
        PROVE  module' \in M
    BY <2>4, FaultMoves
  <2>5. ASSUME NEW z \in Zappers, ZapStep(z) \/ \E p \in Pages : ZapLock(z, p)
        PROVE  module' \in M
    BY <2>5, ZapMoves
  <2>6. ASSUME UNCHANGED vars PROVE module' \in M
    BY <2>6 DEF vars
  <2> HIDE DEF M, TypeOK, pageVars, lockVars
  <2>7. module' \in M
    BY <2>1, <2>2, <2>3, <2>4, <2>5, <2>6 DEF Next
  <2>8. QED
    BY <2>7 DEF M
<1>2. ASSUME NEW v \in Vcpus, FaultStep(v) \/ UnzapBusy(v)
      PROVE  /\ sept' \in [Pages -> {"free", "mapped", "blocked"}]
             /\ spte' \in [Pages -> {"none", "frozen", "present", "zapped"}]
             /\ DOMAIN pins' = Pages /\ pins' = [p \in Pages |-> pins'[p]]
             /\ readers' \subseteq Vcpus
             /\ bugged' \in BOOLEAN
             /\ UNCHANGED <<bepoch, writer, zaps>>
  <2> USE <1>2
  <2>1. UNCHANGED <<bepoch, writer, zaps>>
    BY FaultMoves
  <2>2. CASE HandleExit(v)
    BY <2>1, <2>2 DEF HandleExit
  <2>3. CASE TdpMap(v)
    BY <2>1, <2>3, ZenonT(60) DEF TdpMap
  <2>4. CASE MemPageAug(v)
    BY ZenonT(40), <2>1, <2>4 DEF MemPageAug, FaultDone
  <2>5. CASE MemPageAugBusy(v)
    BY <2>1, <2>5 DEF MemPageAugBusy, FaultDone
  <2>6. CASE UnzapPrivateSpte(v)
    BY <2>1, <2>6 DEF UnzapPrivateSpte, FaultDone
  <2>7. CASE UnzapBusy(v)
    BY <2>1, <2>7 DEF UnzapBusy, FaultDone
  <2>8. QED
    BY <2>2, <2>3, <2>4, <2>5, <2>6, <2>7 DEF FaultStep
<1>3. ASSUME NEW z \in Zappers, ZapStep(z) \/ \E p \in Pages : ZapLock(z, p)
      PROVE  /\ sept' \in [Pages -> {"free", "mapped", "blocked"}]
             /\ spte' \in [Pages -> {"none", "frozen", "present", "zapped"}]
             /\ DOMAIN pins' = Pages /\ pins' = [p \in Pages |-> pins'[p]]
             /\ bepoch' \in [Pages -> Nat]
             /\ writer' \subseteq Zappers /\ readers' = readers
             /\ bugged' \in BOOLEAN /\ zaps' \in 0 .. MaxZaps
  <2>1. readers' = readers
    BY <1>3, ZapMoves
  <2>2. CASE ZapPrivateSpte(z)
    BY <2>1, <2>2 DEF ZapPrivateSpte
  <2>3. CASE ZapBusy(z)
    BY <2>1, <2>3 DEF ZapBusy
  <2>4. CASE DropPrivateSpte(z)
    BY <2>1, <2>4 DEF DropPrivateSpte
  <2>5. CASE ScrubPage(z)
    BY <2>1, <2>5 DEF ScrubPage
  <2>6. CASE \E p \in Pages : ZapLock(z, p)
    BY <2>1, <2>6 DEF ZapLock
  <2>7. QED
    BY <1>3, <2>2, <2>3, <2>4, <2>5, <2>6 DEF ZapStep
<1>4. ASSUME NEW t \in Threads, TrackStep(t)
      PROVE  UNCHANGED <<pageVars, lockVars, zaps>> /\ bugged' \in BOOLEAN
  BY <1>4 DEF TrackStep, TrackIncrement, MakeRequest, SendIpis, AckFlush, TdhMemTrack, TrackRelease
<1>5. ASSUME NEW v \in Vcpus, EntryStep(v) \/ GuestStep(v)
      PROVE  UNCHANGED <<pageVars, lockVars, zaps, bugged>>
  BY <1>5, EntryMoves, GuestMoves
<1>6. /\ sept' \in [Pages -> {"free", "mapped", "blocked"}]
      /\ spte' \in [Pages -> {"none", "frozen", "present", "zapped"}]
      /\ pins' = [p \in Pages |-> pins'[p]]
      /\ bepoch' \in [Pages -> Nat]
      /\ readers' \subseteq Vcpus /\ writer' \subseteq Zappers
      /\ bugged' \in BOOLEAN /\ zaps' \in 0 .. MaxZaps
  <2>1. CASE UNCHANGED vars
    BY <2>1 DEF vars
  <2>2. QED
    BY <1>2, <1>3, <1>4, <1>5, <2>1 DEF Next
<1>7. pins' \in [Pages -> 0 .. 1]
  BY <1>6 DEF Mirrored
<1>8. QED
  BY <1>1, <1>6, <1>7

\* At first nobody tracks, and every page is free.
LEMMA InitIInv == Init => IInv
<1> SUFFICES ASSUME Init PROVE IInv
  OBVIOUS
<1> USE ThreadSets DEF Init
<1>1. Trackers = {} /\ Cardinality(Trackers) = 0
  BY FS_EmptySet DEF Trackers
<1>2. TypeOK
  <2>1. /\ pc \in [Threads -> VcpuPcs \cup ZapPcs \cup TrackPcs]
        /\ \A v \in Vcpus : pc[v] \notin ZapPcs
        /\ \A z \in Zappers : pc[z] \notin VcpuPcs
    BY DEF VcpuPcs, ZapPcs, TrackPcs, Threads
  <2>2. /\ back \in [Threads -> {"top", "mode", "drop", "idle"}]
        /\ at \in [Threads -> Pages \cup {NoPage}] /\ removes \in [Zappers -> BOOLEAN]
        /\ vcpu \in [Vcpus -> [mode : {"OUTSIDE", "IN_GUEST", "EXITING"},
                               req : BOOLEAN, loaded : BOOLEAN]]
        /\ track \in 0 .. Cardinality(Threads)
    OBVIOUS
  <2>3. /\ todo \in [Threads -> SUBSET Vcpus] /\ waiting \in [Threads -> SUBSET Vcpus]
        /\ module \in [epoch : Nat \ {0}, seen : [Vcpus -> Nat], tlb : [Vcpus -> SUBSET Pages]]
    OBVIOUS
  <2>4. /\ sept \in [Pages -> {"free", "mapped", "blocked"}] /\ bepoch \in [Pages -> Nat]
        /\ spte \in [Pages -> {"none", "frozen", "present", "zapped"}]
    OBVIOUS
  <2>5. pins \in [Pages -> 0 .. 1]
    OBVIOUS
  <2>6. readers \subseteq Vcpus /\ writer \subseteq Zappers /\ zaps \in 0 .. MaxZaps
    OBVIOUS
  <2>7. bugged \in BOOLEAN
    OBVIOUS
  <2> HIDE DEF Init
  <2>8. QED
    BY <2>1, <2>2, <2>3, <2>4, <2>5, <2>6, <2>7 DEF TypeOK
<1>3. Places /\ Kicked /\ Modes
  BY DEF Places, Holding, Kicked, Modes, TrackPcs, IrqsOff
<1>4. Epochs
  BY DEF Epochs, Tracked, InGuest
<1>5. Mirrored
  BY DEF Mirrored, Holding, TrackPcs
<1>6. QED
  BY <1>1, <1>2, <1>3, <1>4, <1>5 DEF IInv, Counted

\* Every step keeps the invariant.
LEMMA NextIInv == IInv /\ [Next]_vars => IInv'
<1> SUFFICES ASSUME IInv, [Next]_vars PROVE IInv'
  OBVIOUS
<1> USE DEF IInv
<1>1. Places' /\ Counted' /\ Kicked' /\ Modes' /\ Epochs' /\ Mirrored' /\ ~bugged'
  BY PlacesKept, CountedKept, KickedKept, ModesKept, EpochsKept, MirroredKept, NoBug
<1>2. track' \in 0 .. Cardinality(Threads)
  <2>1. (Cardinality(Trackers) \in 0 .. Cardinality(Threads))'
    BY TrackersCounted, PTL
  <2>2. QED
    BY <1>1, <2>1 DEF Counted, Threads
<1>3. TypeOK'
  BY <1>1, <1>2, PcTyped, ThreadsTyped, PagesTyped DEF TypeOK, Threads
<1>4. QED
  BY <1>1, <1>3

\* The inductive invariant of TLB tracking: who is where, whom tdh_mem_track counts, who
\* was asked, what the epochs say of cached translations, and KVM's mirror of the pages.
THEOREM TrackInvariance == Spec => []IInv
BY InitIInv, NextIInv, PTL DEF Spec

\* No KVM_BUG_ON of tdx_track, tdx_sept_drop_private_spte or tdx_mem_page_aug fires, for
\* any number of VCPUs and zappers.
THEOREM KvmNeverBugs == Spec => []NeverBugged
<1>1. IInv => NeverBugged
  BY DEF IInv, NeverBugged
<1>2. QED
  BY <1>1, TrackInvariance, PTL

\* A page that tdx_track was called for is out of the reach of every VCPU that runs
\* before it is removed and reused, what a running VCPU reaches is pinned, and no pin
\* outlives its mapping.
THEOREM PagesAreFlushedBeforeReuse == Spec => []FlushedBeforeUnpinned
<1>1. IInv => FlushedBeforeUnpinned
  <2> SUFFICES ASSUME IInv PROVE FlushedBeforeUnpinned
    OBVIOUS
  <2> USE ThreadSets DEF IInv
  <2>1. ASSUME NEW z \in Zappers, pc[z] \in {"drop", "scrub"}, NEW v \in Vcpus, InGuest(v)
        PROVE  at[z] \notin module.tlb[v]
    <3>1. at[z] \in Pages /\ Holding(z)
      BY <2>1 DEF Places, Holding
    <3>2. sept[at[z]] # "mapped" /\ (pc[z] = "scrub" => sept[at[z]] = "free")
      BY <2>1, <3>1 DEF Mirrored
    <3>3. Tracked(at[z])
      BY <2>1, <3>1, <3>2 DEF Epochs
    <3>4. module.seen[v] > bepoch[at[z]] /\ module.seen[v] \in Nat /\ bepoch[at[z]] \in Nat
      BY <2>1, <3>1, <3>3 DEF Tracked, TypeOK
    <3>5. QED
      BY <3>1, <3>2, <3>4 DEF Epochs
  <2>2. ASSUME NEW v \in Vcpus, NEW p \in Pages, InGuest(v), p \in module.tlb[v]
        PROVE  pins[p] > 0
    <3>1. sept[p] # "free"
      <4>1. ASSUME sept[p] = "free" PROVE FALSE
        <5>1. Tracked(p) /\ module.seen[v] <= bepoch[p]
          BY <2>2, <4>1 DEF Epochs
        <5>2. QED
          BY <2>2, <5>1 DEF Tracked, TypeOK
      <4>2. QED
        BY <4>1
    <3>2. QED
      BY <3>1 DEF Mirrored
  <2>3. NoPinLeak
    BY DEF NoPinLeak, Mirrored
  <2>4. QED
    BY <2>1, <2>2, <2>3 DEF FlushedBeforeUnpinned, FlushedBeforeDrop, TlbReachesPinned
<1>2. QED
  BY <1>1, TrackInvariance, PTL

-----------------------------------------------------------------------------
(* The lists of VCPUs are sound because vcpu->cpu is: nobody but the CPU   *)
(* it names, or a thread that knows that no other does, takes a VCPU off   *)
(* its list.  CpusInv says where vcpu->cpu may point at each step of       *)
(* vcpu_load, of the release of the key id and of the end of the VM.       *)

Loading == {"flush", "add", "set", "in"}

\* A VCPU is at the CPU that last loaded it, and both that CPU and the one that
\* loads it now stay online: tdx_hardware_disable empties the list of a CPU that
\* leaves, and a CPU that runs a VCPU's thread does not leave.
AtOnlineCpu ==
    \A v \in Vps : cpu[v] # NoCpu => cpu[v] \in online \ going
LoaderOnline ==
    \A v \in Vps : on[v] # NoCpu => on[v] \in online \ going

\* A VCPU is where vcpu_load read it to be, or nowhere, until it is added to the
\* new CPU's list; then it is nowhere until vcpu->cpu is set.
CpuAsRead ==
    \A v \in Vps :
        /\ vpPc[v] \in {"flush", "delete"} => cpu[v] \in {target[v], NoCpu}
        /\ vpPc[v] \in {"add", "set", "freed"} => cpu[v] = NoCpu
        /\ vpPc[v] = "in" => cpu[v] = on[v]

\* The module ties a VCPU to the CPU it is at, or to none.
TiedWhereItIs == \A v \in Vps : assoc[v] \in {NoCpu, cpu[v]}

\* Who loads and frees VCPUs when: threads while the TD runs, then the destroyer,
\* which has visited what is not left.
PhaseOrder ==
    /\ \A v \in Vps :
        /\ vpPc[v] \in Loading => phase = "running" \/ (phase = "unload" /\ v \in left)
        /\ vpPc[v] \in {"delete", "freed"} => phase \in {"free", "dead"}
        /\ phase \in {"release", "flushdone"} => v \in left \/ cpu[v] = NoCpu
        /\ phase \in {"unload", "free", "dead"} => assoc[v] = NoCpu
    /\ phase = "flushdone" => left = {}

\* A TD with a key id has all packages online, also when the CPU that is going is
\* gone: tdx_offline_cpu counts its key id.
PackagesHeld ==
    /\ phase \in {"keyid", "running", "release", "flushdone"} => configured
    /\ phase \in {"running", "release", "flushdone"} =>
           PackagesOf(online \ going) = PackagesOf(Cpus)

\* What the steps keep: a VCPU is where its list, its CPU, who read it and the module
\* have it.
CpusInv ==
    /\ CpusTypeOK /\ OneList /\ AtOnlineCpu /\ LoaderOnline /\ CpuAsRead
    /\ TiedWhereItIs /\ PhaseOrder /\ PackagesHeld

-----------------------------------------------------------------------------
(* Every step keeps CpusInv.                                               *)

\* A thread, or the destroyer, is put on a CPU that stays: the CPU is in use, so it is
\* not going.
LEMMA LoadBeginKeepsInv ==
  ASSUME CpusInv, NEW v \in Vps, NEW c \in Cpus, LoadBegin(v, c)
  PROVE  CpusInv'
<1>1. CpusTypeOK'
  BY DEF CpusInv, CpusTypeOK, VpPcs, LoadBegin, VpGoto, Idle, vcpuVars, tdVars,
         hotplugVars
<1>2. OneList'
  BY DEF CpusInv, OneList, LoadBegin, VpGoto, vcpuVars
<1>3. LoaderOnline'
  BY DEF CpusInv, LoaderOnline, LoadBegin, hotplugVars
<1>4. CpuAsRead'
  BY DEF CpusInv, CpuAsRead, CpusTypeOK, LoadBegin, VpGoto, vcpuVars
<1>5. PhaseOrder'
  BY DEF CpusInv, PhaseOrder, LoadBegin, VpGoto, vcpuVars, tdVars, MayLoad
<1>6. AtOnlineCpu' /\ TiedWhereItIs' /\ PackagesHeld'
  BY DEF CpusInv, AtOnlineCpu, TiedWhereItIs, PackagesHeld, LoadBegin, vcpuVars,
         tdVars, hotplugVars, PackagesOf
<1>7. QED
  BY <1>1, <1>2, <1>3, <1>4, <1>5, <1>6 DEF CpusInv

\* After the IPI the VCPU is nowhere: if its old CPU has left, tdx_hardware_disable
\* flushed it.
LEMMA FlushOldCpuKeepsInv ==
  ASSUME CpusInv, NEW v \in Vps, FlushOldCpu(v)
  PROVE  CpusInv'
<1>1. CpusTypeOK'
  BY DEF CpusInv, CpusTypeOK, OneList, VpPcs, FlushOldCpu, FlushVp, VpGoto,
         vcpuVars, tdVars, hotplugVars, VpFlushed, Disassociated, Listed
<1>2. OneList'
  BY CpusAssumption DEF CpusInv, OneList, FlushOldCpu, FlushVp, VpGoto, vcpuVars,
         Disassociated
<1>3. AtOnlineCpu'
  BY DEF CpusInv, AtOnlineCpu, FlushOldCpu, FlushVp, vcpuVars, hotplugVars,
         Disassociated
<1>4. CpuAsRead'
  BY DEF CpusInv, CpuAsRead, AtOnlineCpu, FlushOldCpu, FlushVp, VpGoto, vcpuVars,
         Disassociated
<1>5. TiedWhereItIs'
  BY DEF CpusInv, TiedWhereItIs, FlushOldCpu, FlushVp, vcpuVars, VpFlushed,
         Disassociated
<1>6. PhaseOrder'
  BY DEF CpusInv, PhaseOrder, Loading, FlushOldCpu, FlushVp, VpGoto, vcpuVars,
         tdVars, VpFlushed
<1>7. LoaderOnline' /\ PackagesHeld'
  BY DEF CpusInv, LoaderOnline, PackagesHeld, FlushOldCpu, vcpuVars, tdVars,
         hotplugVars, PackagesOf
<1>8. QED
  BY <1>1, <1>2, <1>3, <1>4, <1>5, <1>6, <1>7 DEF CpusInv

\* A VCPU that is nowhere is on no list.
LEMMA ListAddKeepsInv ==
  ASSUME CpusInv, NEW v \in Vps, ListAdd(v)
  PROVE  CpusInv'
<1>1. CpusTypeOK'
  BY DEF CpusInv, CpusTypeOK, VpPcs, ListAdd, VpGoto, tdVars, hotplugVars
<1>2. OneList'
  BY CpusAssumption DEF CpusInv, OneList, CpusTypeOK, CpuAsRead, ListAdd, VpGoto,
         Listed
<1>3. CpuAsRead'
  BY DEF CpusInv, CpuAsRead, ListAdd, VpGoto
<1>4. PhaseOrder'
  BY DEF CpusInv, PhaseOrder, Loading, ListAdd, VpGoto, tdVars
<1>5. AtOnlineCpu' /\ LoaderOnline' /\ TiedWhereItIs' /\ PackagesHeld'
  BY DEF CpusInv, AtOnlineCpu, LoaderOnline, TiedWhereItIs, PackagesHeld, ListAdd,
         tdVars, hotplugVars, PackagesOf
<1>6. QED
  BY <1>1, <1>2, <1>3, <1>4, <1>5 DEF CpusInv

\* vcpu->cpu follows the list.
LEMMA SetCpuKeepsInv ==
  ASSUME CpusInv, NEW v \in Vps, SetCpu(v)
  PROVE  CpusInv'
<1>1. CpusTypeOK'
  BY DEF CpusInv, CpusTypeOK, VpPcs, SetCpu, VpGoto, tdVars, hotplugVars
<1>2. OneList'
  BY CpusAssumption DEF CpusInv, OneList, CpusTypeOK, CpuAsRead, SetCpu, VpGoto
<1>3. AtOnlineCpu'
  BY DEF CpusInv, AtOnlineCpu, LoaderOnline, SetCpu, hotplugVars
<1>4. CpuAsRead'
  BY DEF CpusInv, CpuAsRead, CpusTypeOK, SetCpu, VpGoto
<1>5. TiedWhereItIs'
  BY DEF CpusInv, TiedWhereItIs, CpuAsRead, SetCpu
<1>6. PhaseOrder'
  BY DEF CpusInv, PhaseOrder, Loading, SetCpu, VpGoto, tdVars
<1>7. LoaderOnline' /\ PackagesHeld'
  BY DEF CpusInv, LoaderOnline, PackagesHeld, SetCpu, tdVars, hotplugVars,
         PackagesOf
<1>8. QED
  BY <1>1, <1>2, <1>3, <1>4, <1>5, <1>6, <1>7 DEF CpusInv

\* The module ties the VCPU to the CPU it is loaded on.
LEMMA EnterKeepsInv ==
  ASSUME CpusInv, NEW v \in Vps, Enter(v)
  PROVE  CpusInv'
<1>1. CpusTypeOK'
  BY DEF CpusInv, CpusTypeOK, Enter, tdVars, hotplugVars
<1>2. TiedWhereItIs'
  BY DEF CpusInv, TiedWhereItIs, CpuAsRead, Enter
<1>3. PhaseOrder'
  BY DEF CpusInv, PhaseOrder, Enter, tdVars
<1>4. OneList' /\ AtOnlineCpu' /\ LoaderOnline' /\ CpuAsRead' /\ PackagesHeld'
  BY DEF CpusInv, OneList, AtOnlineCpu, LoaderOnline, CpuAsRead, PackagesHeld,
         Enter, tdVars, hotplugVars, PackagesOf
<1>5. QED
  BY <1>1, <1>2, <1>3, <1>4 DEF CpusInv

\* A loaded VCPU leaves its CPU; it stays on that CPU's list.
LEMMA PutKeepsInv ==
  ASSUME CpusInv, NEW v \in Vps, Put(v)
  PROVE  CpusInv'
<1>1. CpusTypeOK'
  BY DEF CpusInv, CpusTypeOK, VpPcs, Put, VpGoto, vcpuVars, hotplugVars
<1>2. OneList'
  BY DEF CpusInv, OneList, Put, VpGoto, vcpuVars
<1>3. LoaderOnline'
  BY DEF CpusInv, LoaderOnline, Put, hotplugVars
<1>4. CpuAsRead'
  BY DEF CpusInv, CpuAsRead, CpusTypeOK, Put, VpGoto, vcpuVars
<1>5. PhaseOrder'
  BY DEF CpusInv, PhaseOrder, CpusTypeOK, Loading, Put, VpGoto, vcpuVars
<1>6. AtOnlineCpu' /\ TiedWhereItIs' /\ PackagesHeld'
  BY DEF CpusInv, AtOnlineCpu, TiedWhereItIs, PackagesHeld, Put, vcpuVars,
         hotplugVars, PackagesOf
<1>7. QED
  BY <1>1, <1>2, <1>3, <1>4, <1>5, <1>6 DEF CpusInv

\* A CPU that goes flushes all VCPUs that are at it; none of them is loaded there.
LEMMA OfflineBeginKeepsInv ==
  ASSUME CpusInv, NEW c \in Cpus, OfflineBegin(c)
  PROVE  CpusInv'
<1>1. CpusTypeOK'
  BY CpusAssumption DEF CpusInv, CpusTypeOK, OfflineBegin, FlushVp, tdVars,
         VpFlushed, Disassociated
<1>2. OneList'
  BY CpusAssumption DEF CpusInv, OneList, CpuAsRead, OfflineBegin, FlushVp,
         Disassociated
<1>3. AtOnlineCpu'
  BY DEF CpusInv, AtOnlineCpu, OneList, OfflineBegin, FlushVp, Disassociated
<1>4. LoaderOnline'
  BY DEF CpusInv, LoaderOnline, OfflineBegin, Idle
<1>5. CpuAsRead'
  BY DEF CpusInv, CpuAsRead, OfflineBegin, FlushVp, Idle, Disassociated
<1>6. TiedWhereItIs'
  BY DEF CpusInv, TiedWhereItIs, OfflineBegin, FlushVp, VpFlushed, Disassociated
<1>7. PhaseOrder'
  BY DEF CpusInv, PhaseOrder, OfflineBegin, FlushVp, tdVars, CpusReadLocked,
         VpFlushed
<1>8. PackagesHeld'
  <2>1. configured' = configured /\ phase' = phase /\ online' \ going' = online \ {c}
    BY DEF OfflineBegin, tdVars
  <2>2. going = {} /\ phase \notin {"release", "flushdone"}
    BY DEF OfflineBegin, CpusReadLocked
  <2>3. CASE phase = "running"
    <3>1. Package[c] \in PackagesOf(online \ {c})
      BY <2>3 DEF CpusInv, PackagesHeld, OfflineBegin, LastOfPackage
    <3>2. PackagesOf(online \ {c}) = PackagesOf(online)
      BY <3>1 DEF PackagesOf
    <3>3. online \ going = online
      BY <2>2
    <3>4. QED
      BY <2>1, <2>3, <3>2, <3>3 DEF CpusInv, PackagesHeld
  <2>4. QED
    BY <2>1, <2>2, <2>3 DEF CpusInv, PackagesHeld
<1>9. QED
  BY <1>1, <1>2, <1>3, <1>4, <1>5, <1>6, <1>7, <1>8 DEF CpusInv

\* Nothing points at the CPU that stops.
LEMMA OfflineDoneKeepsInv ==
  ASSUME CpusInv, OfflineDone
  PROVE  CpusInv'
<1>1. CpusTypeOK'
  BY DEF CpusInv, CpusTypeOK, OfflineDone, vcpuVars, tdVars
<1>2. AtOnlineCpu'
  BY DEF CpusInv, AtOnlineCpu, OfflineDone, vcpuVars
<1>3. LoaderOnline'
  BY DEF CpusInv, LoaderOnline, OfflineDone
<1>4. PackagesHeld'
  BY DEF CpusInv, PackagesHeld, OfflineDone, tdVars
<1>5. OneList' /\ CpuAsRead' /\ TiedWhereItIs' /\ PhaseOrder'
  BY DEF CpusInv, OneList, CpuAsRead, TiedWhereItIs, PhaseOrder, OfflineDone,
         vcpuVars, tdVars, Loading
<1>6. QED
  BY <1>1, <1>2, <1>3, <1>4, <1>5 DEF CpusInv

\* A CPU comes back.
LEMMA OnlineKeepsInv ==
  ASSUME CpusInv, NEW c \in Cpus, Online(c)
  PROVE  CpusInv'
<1>1. CpusTypeOK'
  BY DEF CpusInv, CpusTypeOK, Online, vcpuVars, tdVars
<1>2. AtOnlineCpu'
  BY DEF CpusInv, AtOnlineCpu, Online, vcpuVars
<1>3. LoaderOnline'
  BY DEF CpusInv, LoaderOnline, Online
<1>4. PackagesHeld'
  <2>1. /\ configured' = configured /\ phase' = phase
        /\ going' = going /\ online' = online \cup {c}
    BY DEF Online, tdVars
  <2>2. PackagesOf(online \ going) = PackagesOf(Cpus)
          => PackagesOf((online \ going) \cup {c}) = PackagesOf(Cpus)
    BY DEF PackagesOf
  <2>3. online' \ going' = (online \ going) \cup {c}
    BY <2>1 DEF Online
  <2>4. QED
    BY <2>1, <2>2, <2>3 DEF CpusInv, PackagesHeld
<1>5. OneList' /\ CpuAsRead' /\ TiedWhereItIs' /\ PhaseOrder'
  BY DEF CpusInv, OneList, CpuAsRead, TiedWhereItIs, PhaseOrder, Online, vcpuVars,
         tdVars, Loading
<1>6. QED
  BY <1>1, <1>2, <1>3, <1>4, <1>5 DEF CpusInv

\* The TD has its key id.
LEMMA AllocKeyidKeepsInv ==
  ASSUME CpusInv, AllocKeyid
  PROVE  CpusInv'
<1>1. CpusTypeOK'
  BY DEF CpusInv, CpusTypeOK, Phases, AllocKeyid, vcpuVars, hotplugVars
<1>2. PhaseOrder'
  BY DEF CpusInv, PhaseOrder, AllocKeyid
<1>3. PackagesHeld'
  BY DEF CpusInv, PackagesHeld, AllocKeyid
<1>4. OneList' /\ AtOnlineCpu' /\ LoaderOnline' /\ CpuAsRead' /\ TiedWhereItIs'
  BY DEF CpusInv, OneList, AtOnlineCpu, LoaderOnline, CpuAsRead, TiedWhereItIs,
         AllocKeyid, vcpuVars, hotplugVars
<1>5. QED
  BY <1>1, <1>2, <1>3, <1>4 DEF CpusInv

\* The TD is created with all packages online, or not at all.
LEMMA CheckPackagesKeepsInv ==
  ASSUME CpusInv, CheckPackages
  PROVE  CpusInv'
<1>1. CpusTypeOK'
  BY DEF CpusInv, CpusTypeOK, Phases, CheckPackages, vcpuVars, hotplugVars
<1>2. PhaseOrder'
  BY DEF CpusInv, PhaseOrder, CheckPackages
<1>3. PackagesHeld'
  <2>1. online' \ going' = online
    BY DEF CheckPackages, hotplugVars
  <2>2. CASE PackagesOf(online) = PackagesOf(Cpus)
    BY <2>1, <2>2 DEF CpusInv, PackagesHeld, CheckPackages
  <2>3. CASE PackagesOf(online) # PackagesOf(Cpus)
    BY <2>3 DEF CheckPackages, PackagesHeld
  <2>4. QED
    BY <2>2, <2>3
<1>4. OneList' /\ AtOnlineCpu' /\ LoaderOnline' /\ CpuAsRead' /\ TiedWhereItIs'
  BY DEF CpusInv, OneList, AtOnlineCpu, LoaderOnline, CpuAsRead, TiedWhereItIs,
         CheckPackages, vcpuVars, hotplugVars
<1>5. QED
  BY <1>1, <1>2, <1>3, <1>4 DEF CpusInv

\* Nobody loads a VCPU any more.
LEMMA ReleaseBeginKeepsInv ==
  ASSUME CpusInv, ReleaseBegin
  PROVE  CpusInv'
<1>1. CpusTypeOK'
  BY DEF CpusInv, CpusTypeOK, Phases, ReleaseBegin, vcpuVars, hotplugVars
<1>2. PhaseOrder'
  BY DEF CpusInv, PhaseOrder, Loading, ReleaseBegin
<1>3. PackagesHeld'
  BY DEF CpusInv, PackagesHeld, ReleaseBegin, hotplugVars
<1>4. OneList' /\ AtOnlineCpu' /\ LoaderOnline' /\ CpuAsRead' /\ TiedWhereItIs'
  BY DEF CpusInv, OneList, AtOnlineCpu, LoaderOnline, CpuAsRead, TiedWhereItIs,
         ReleaseBegin, vcpuVars, hotplugVars
<1>5. QED
  BY <1>1, <1>2, <1>3, <1>4 DEF CpusInv

\* The destroyer flushes a VCPU where it is.
LEMMA ReleaseFlushKeepsInv ==
  ASSUME CpusInv, NEW v \in Vps, ReleaseFlush(v)
  PROVE  CpusInv'
<1>1. CpusTypeOK'
  BY DEF CpusInv, CpusTypeOK, OneList, ReleaseFlush, FlushVp, vcpuVars, hotplugVars,
         VpFlushed, Disassociated, Listed
<1>2. OneList'
  BY CpusAssumption DEF CpusInv, OneList, CpuAsRead, ReleaseFlush, FlushVp,
         vcpuVars, Disassociated
<1>3. AtOnlineCpu'
  BY DEF CpusInv, AtOnlineCpu, ReleaseFlush, FlushVp, vcpuVars, hotplugVars,
         Disassociated
<1>4. CpuAsRead'
  BY DEF CpusInv, CpuAsRead, PhaseOrder, Loading, ReleaseFlush
<1>5. TiedWhereItIs'
  BY DEF CpusInv, TiedWhereItIs, ReleaseFlush, FlushVp, vcpuVars, VpFlushed,
         Disassociated
<1>6. PhaseOrder'
  BY DEF CpusInv, PhaseOrder, ReleaseFlush, FlushVp, vcpuVars, Disassociated
<1>7. LoaderOnline' /\ PackagesHeld'
  BY DEF CpusInv, LoaderOnline, PackagesHeld, ReleaseFlush, vcpuVars, hotplugVars,
         PackagesOf
<1>8. QED
  BY <1>1, <1>2, <1>3, <1>4, <1>5, <1>6, <1>7 DEF CpusInv

\* All VCPUs have been flushed.
LEMMA VpFlushDoneKeepsInv ==
  ASSUME CpusInv, VpFlushDone
  PROVE  CpusInv'
<1>1. CpusTypeOK'
  BY DEF CpusInv, CpusTypeOK, Phases, VpFlushDone, vcpuVars, hotplugVars
<1>2. PhaseOrder'
  BY DEF CpusInv, PhaseOrder, VpFlushDone, vcpuVars
<1>3. PackagesHeld'
  BY DEF CpusInv, PackagesHeld, VpFlushDone, hotplugVars
<1>4. OneList' /\ AtOnlineCpu' /\ LoaderOnline' /\ CpuAsRead' /\ TiedWhereItIs'
  BY DEF CpusInv, OneList, AtOnlineCpu, LoaderOnline, CpuAsRead, TiedWhereItIs,
         VpFlushDone, vcpuVars, hotplugVars
<1>5. QED
  BY <1>1, <1>2, <1>3, <1>4 DEF CpusInv

\* The destroyer loads every VCPU once more.
LEMMA HkidFreeKeepsInv ==
  ASSUME CpusInv, HkidFree
  PROVE  CpusInv'
<1>1. CpusTypeOK'
  BY DEF CpusInv, CpusTypeOK, Phases, HkidFree, vcpuVars, hotplugVars
<1>2. PhaseOrder'
  BY DEF CpusInv, PhaseOrder, HkidFree, vcpuVars
<1>3. PackagesHeld'
  BY DEF CpusInv, PackagesHeld, HkidFree
<1>4. OneList' /\ AtOnlineCpu' /\ LoaderOnline' /\ CpuAsRead' /\ TiedWhereItIs'
  BY DEF CpusInv, OneList, AtOnlineCpu, LoaderOnline, CpuAsRead, TiedWhereItIs,
         HkidFree, vcpuVars, hotplugVars
<1>5. QED
  BY <1>1, <1>2, <1>3, <1>4 DEF CpusInv

\* All VCPUs have been loaded and put.
LEMMA FreeBeginKeepsInv ==
  ASSUME CpusInv, FreeBegin
  PROVE  CpusInv'
<1>1. CpusTypeOK'
  BY DEF CpusInv, CpusTypeOK, Phases, FreeBegin, vcpuVars, hotplugVars
<1>2. PhaseOrder'
  BY DEF CpusInv, PhaseOrder, FreeBegin, vcpuVars
<1>3. PackagesHeld'
  BY DEF CpusInv, PackagesHeld, FreeBegin
<1>4. OneList' /\ AtOnlineCpu' /\ LoaderOnline' /\ CpuAsRead' /\ TiedWhereItIs'
  BY DEF CpusInv, OneList, AtOnlineCpu, LoaderOnline, CpuAsRead, TiedWhereItIs,
         FreeBegin, vcpuVars, hotplugVars
<1>5. QED
  BY <1>1, <1>2, <1>3, <1>4 DEF CpusInv

\* The destroyer reads where a VCPU is.
LEMMA FreeReadKeepsInv ==
  ASSUME CpusInv, NEW v \in Vps, FreeRead(v)
  PROVE  CpusInv'
<1>1. CpusTypeOK'
  BY DEF CpusInv, CpusTypeOK, VpPcs, FreeRead, VpGoto, vcpuVars, tdVars, hotplugVars
<1>2. OneList'
  BY DEF CpusInv, OneList, FreeRead, VpGoto, vcpuVars
<1>3. CpuAsRead'
  BY DEF CpusInv, CpuAsRead, CpusTypeOK, FreeRead, VpGoto, vcpuVars
<1>4. PhaseOrder'
  BY DEF CpusInv, PhaseOrder, Loading, FreeRead, VpGoto, vcpuVars, tdVars
<1>5. AtOnlineCpu' /\ LoaderOnline' /\ TiedWhereItIs' /\ PackagesHeld'
  BY DEF CpusInv, AtOnlineCpu, LoaderOnline, TiedWhereItIs, PackagesHeld, FreeRead,
         vcpuVars, tdVars, hotplugVars, PackagesOf
<1>6. QED
  BY <1>1, <1>2, <1>3, <1>4, <1>5 DEF CpusInv

\* A VCPU that is freed is nowhere, whether the IPI found its CPU or not.
LEMMA FreeVcpuKeepsInv ==
  ASSUME CpusInv, NEW v \in Vps, FreeVcpu(v)
  PROVE  CpusInv'
<1>1. CpusTypeOK'
  <2>1. CASE target[v] \in online
    BY <2>1 DEF CpusInv, CpusTypeOK, VpPcs, FreeVcpu, Disassociated, VpGoto, Listed,
           hotplugVars
  <2>2. CASE target[v] \notin online
    BY <2>2 DEF CpusInv, CpusTypeOK, VpPcs, FreeVcpu, VpGoto, vcpuVars, hotplugVars
  <2>3. QED
    BY <2>1, <2>2
<1>2. OneList'
  BY CpusAssumption DEF CpusInv, OneList, CpusTypeOK, PhaseOrder, Loading, FreeVcpu,
         Disassociated, vcpuVars
<1>3. AtOnlineCpu'
  BY DEF CpusInv, AtOnlineCpu, FreeVcpu, Disassociated, vcpuVars, hotplugVars
<1>4. CpuAsRead'
  BY DEF CpusInv, CpuAsRead, AtOnlineCpu, FreeVcpu, Disassociated, VpGoto, vcpuVars
<1>5. TiedWhereItIs'
  BY DEF CpusInv, TiedWhereItIs, PhaseOrder, FreeVcpu, vcpuVars
<1>6. PhaseOrder'
  BY DEF CpusInv, PhaseOrder, Loading, FreeVcpu, VpGoto, vcpuVars
<1>7. LoaderOnline' /\ PackagesHeld'
  BY DEF CpusInv, LoaderOnline, PackagesHeld, FreeVcpu, vcpuVars, hotplugVars,
         PackagesOf
<1>8. QED
  BY <1>1, <1>2, <1>3, <1>4, <1>5, <1>6, <1>7 DEF CpusInv

\* The VM is gone.
LEMMA VmFreeKeepsInv ==
  ASSUME CpusInv, VmFree
  PROVE  CpusInv'
<1>1. CpusTypeOK'
  BY DEF CpusInv, CpusTypeOK, Phases, VmFree, vcpuVars, hotplugVars
<1>2. PhaseOrder'
  BY DEF CpusInv, PhaseOrder, VmFree, vcpuVars
<1>3. PackagesHeld'
  BY DEF CpusInv, PackagesHeld, VmFree
<1>4. OneList' /\ AtOnlineCpu' /\ LoaderOnline' /\ CpuAsRead' /\ TiedWhereItIs'
  BY DEF CpusInv, OneList, AtOnlineCpu, LoaderOnline, CpuAsRead, TiedWhereItIs,
         VmFree, vcpuVars, hotplugVars
<1>5. QED
  BY <1>1, <1>2, <1>3, <1>4 DEF CpusInv

-----------------------------------------------------------------------------

\* No VCPU is anywhere at first.
LEMMA CpusInvInit == CpusInit => CpusInv
<1> SUFFICES ASSUME CpusInit PROVE CpusInv
  OBVIOUS
<1>1. CpusTypeOK
  <2>1. online \subseteq Cpus
    BY DEF CpusInit
  <2>2. phase \in Phases /\ vpPc \in [Vps -> VpPcs] /\ offlines \in 0 .. MaxOffline
    BY CpusAssumption DEF CpusInit, Phases, VpPcs
  <2>3. QED
    BY <2>1, <2>2, CpusAssumption DEF CpusInit, CpusTypeOK
<1>2. OneList /\ AtOnlineCpu /\ LoaderOnline
  BY CpusAssumption DEF CpusInit, OneList, AtOnlineCpu, LoaderOnline
<1>3. CpuAsRead /\ TiedWhereItIs
  BY DEF CpusInit, CpuAsRead, TiedWhereItIs
<1>4. PhaseOrder /\ PackagesHeld
  BY DEF CpusInit, PhaseOrder, PackagesHeld, Loading
<1>5. QED
  BY <1>1, <1>2, <1>3, <1>4 DEF CpusInv

\* A step of the destroyer keeps CpusInv.
LEMMA DestroyKeepsInv == CpusInv /\ DestroyStep => CpusInv'
BY VpFlushDoneKeepsInv, HkidFreeKeepsInv, FreeBeginKeepsInv, VmFreeKeepsInv,
   ReleaseFlushKeepsInv, FreeReadKeepsInv, FreeVcpuKeepsInv DEF DestroyStep

\* So does a step of vcpu_load.
LEMMA LoadKeepsInv == ASSUME CpusInv, NEW v \in Vps, LoadStep(v) PROVE CpusInv'
BY FlushOldCpuKeepsInv, ListAddKeepsInv, SetCpuKeepsInv, PutKeepsInv DEF LoadStep

\* Nothing changes in a step that stutters.
LEMMA CpusStutterKeepsInv == CpusInv /\ UNCHANGED cpusVars => CpusInv'
<1> SUFFICES ASSUME CpusInv, UNCHANGED cpusVars PROVE CpusInv'
  OBVIOUS
<1>1. CpusTypeOK'
  BY DEF CpusInv, cpusVars, CpusTypeOK
<1>2. OneList' /\ AtOnlineCpu' /\ LoaderOnline'
  BY DEF CpusInv, cpusVars, OneList, AtOnlineCpu, LoaderOnline
<1>3. CpuAsRead' /\ TiedWhereItIs' /\ PhaseOrder'
  BY DEF CpusInv, cpusVars, CpuAsRead, TiedWhereItIs, PhaseOrder
<1>4. PackagesHeld'
  BY DEF CpusInv, cpusVars, PackagesHeld, PackagesOf
<1>5. QED
  BY <1>1, <1>2, <1>3, <1>4 DEF CpusInv

\* CpusInv is an invariant: threads may migrate, CPUs leave and come back and the TD
\* end in any order the code allows.
THEOREM CpusInvariance == CpusSpec => []CpusInv
<1>1. CpusInv /\ [CpusNext]_cpusVars => CpusInv'
  <2>1. SUFFICES ASSUME CpusInv, [CpusNext]_cpusVars PROVE CpusInv'
    OBVIOUS
  <2>2. CASE AllocKeyid \/ CheckPackages \/ ReleaseBegin \/ OfflineDone \/ DestroyStep
    BY <2>1, <2>2, AllocKeyidKeepsInv, CheckPackagesKeepsInv, ReleaseBeginKeepsInv,
       OfflineDoneKeepsInv, DestroyKeepsInv
  <2>3. CASE \E c \in Cpus : OfflineBegin(c) \/ Online(c)
    BY <2>1, <2>3, OfflineBeginKeepsInv, OnlineKeepsInv
  <2>4. CASE \E v \in Vps : LoadStep(v) \/ Enter(v)
    BY <2>1, <2>4, LoadKeepsInv, EnterKeepsInv
  <2>5. CASE \E v \in Vps, c \in Cpus : LoadBegin(v, c)
    BY <2>1, <2>5, LoadBeginKeepsInv
  <2>6. CASE Gone \/ UNCHANGED cpusVars
    BY <2>1, <2>6, CpusStutterKeepsInv DEF Gone
  <2>7. QED
    BY <2>1, <2>2, <2>3, <2>4, <2>5, <2>6 DEF CpusNext
<1>2. QED
  BY <1>1, CpusInvInit, PTL DEF CpusSpec

\* What the destroyer finds when it calls TDH.MNG.VPFLUSHDONE and when it frees a
\* VCPU, and what TDH.VP.ENTER finds, follows.
LEMMA CpusInvSuffices == CpusInv => VcpuListsSound
<1> SUFFICES ASSUME CpusInv PROVE VcpuListsSound
  OBVIOUS
<1>1. AssociatedIsListed
  BY CpusAssumption DEF CpusInv, CpusTypeOK, OneList, AtOnlineCpu, TiedWhereItIs,
         AssociatedIsListed
<1>2. FreedIsUnlisted
  BY CpusAssumption DEF CpusInv, CpusTypeOK, OneList, CpuAsRead, FreedIsUnlisted, Listed
<1>3. EnterAllowed
  BY DEF CpusInv, CpuAsRead, TiedWhereItIs, EnterAllowed
<1>4. FlushDoneSucceeds
  BY DEF CpusInv, TiedWhereItIs, PhaseOrder, FlushDoneSucceeds
<1>5. PackagesStayOnline
  <2>1. /\ PackagesOf(online \ going) \subseteq PackagesOf(online)
        /\ PackagesOf(online) \subseteq PackagesOf(Cpus)
    BY DEF CpusInv, CpusTypeOK, PackagesOf
  <2>2. QED
    BY <2>1 DEF CpusInv, PackagesHeld, PackagesStayOnline
<1>6. QED
  BY <1>1, <1>2, <1>3, <1>4, <1>5 DEF CpusInv, VcpuListsSound

\* However VCPU threads migrate while CPUs leave and come back: no VCPU is on two lists
\* or on that of a CPU it is not tied to, none that is freed is on a list, no entry is
\* refused for a tie to another CPU, the flush before the key id is released finds
\* every VCPU that is tied, and every package keeps a CPU that can run the SEAMCALLs.
THEOREM VcpuListsStaySound == CpusSpec => []VcpuListsSound
BY CpusInvariance, CpusInvSuffices, PTL

-----------------------------------------------------------------------------
(* The life of TDs: the inductive invariant.                               *)

\* Where __tdx_td_init is before and after TDH.MNG.CREATE, and the other places.
Building == {"alloc_tdr", "alloc_tdcs", "mng_create", "free_all"}
Created == {"key_config", "addcx", "mng_init", "teardown"}
Returning == {"release", "key_free"}
Freeing == {"vm_free", "free_tdr"}
TdPcs == {"idle", "finalized", "free_vcpus", "gone"}
            \cup Building \cup Created \cup Returning \cup Freeing

\* Where tdx_td_vcpu_init is before and after TDH.VP.CREATE.
VpBuilding == {"alloc_tdvpx", "vp_create", "free_tdvpx"}
VpCreated == {"vp_addcx", "vp_init"}
LifeVcpuPcs == {"none", "idle", "gone"} \cup VpBuilding \cup VpCreated

PageKinds == {"host", "TDR", "TDCX", "TDVPR", "TDVPX"}

\* The records of TDs, VCPUs and the TDX module.
TdRecords == [pc : TdPcs, hkid : Keyids \cup {0}, tdr : PageOr0, tdcs : SUBSET KernelPages,
              new_tdr : PageOr0, new_tdcs : SUBSET KernelPages,
              finalized : BOOLEAN, bugged : BOOLEAN, ending : BOOLEAN]
VcpuRecords == [pc : LifeVcpuPcs, tdvpr : PageOr0, tdvpx : SUBSET KernelPages,
                new_tdvpr : PageOr0, new_tdvpx : SUBSET KernelPages, created : BOOLEAN]
ModRecords == [key : {"none", "assigned", "configured", "flushed", "freed"},
               hkid : Keyids \cup {0}, pages : SUBSET KernelPages,
               finalized : BOOLEAN, kept : BOOLEAN]
LifeRecords ==
    /\ td \in [Tds -> TdRecords] /\ tdVcpu \in [TdVcpus -> VcpuRecords]
    /\ mod \in [Tds -> ModRecords] /\ pamt \in [KernelPages -> PageKinds]
    /\ free \in SUBSET KernelPages /\ pool \in SUBSET Keyids

IsHost(S) == \A p \in S : pamt[p] = "host"
IsGiven(S) == \A p \in S : pamt[p] # "host"
NonNull(p) == {p} \ {NullPa}

\* The pages that struct kvm_tdx or struct vcpu_tdx, or a local of an ioctl, names.
HeldByTd(t) ==
    NonNull(td[t].tdr) \cup NonNull(td[t].new_tdr) \cup td[t].tdcs \cup td[t].new_tdcs
HeldByVcpu(v) ==
    NonNull(tdVcpu[v].tdvpr) \cup NonNull(tdVcpu[v].new_tdvpr)
        \cup tdVcpu[v].tdvpx \cup tdVcpu[v].new_tdvpx

\* Until TDH.MNG.CREATE the TDX module knows nothing of the TD.
TdUnbuilt(t) ==
    /\ td[t].pc \notin (Building \ {"alloc_tdr"}) \cup Created =>
         td[t].new_tdr = NullPa /\ td[t].new_tdcs = {}
    /\ td[t].pc \in Building =>
         /\ td[t].hkid # 0 /\ ~Keyed(t) /\ td[t].tdcs = {}
         /\ ~mod[t].kept => td[t].tdr = NullPa
         /\ IsHost(NonNull(td[t].new_tdr)) /\ IsHost(td[t].new_tdcs)
    /\ td[t].pc \in {"alloc_tdcs", "mng_create"} => td[t].new_tdr # NullPa

\* After it the TDCS pages are added one by one.
TdBuilt(t) ==
    /\ td[t].pc \in Created => td[t].new_tdr = td[t].tdr
    /\ td[t].pc = "key_config" => td[t].tdcs = {} /\ IsHost(td[t].new_tdcs)
    /\ td[t].pc \in {"addcx", "mng_init"} => td[t].tdcs = td[t].new_tdcs
    /\ td[t].pc = "teardown" =>
         td[t].tdcs = td[t].new_tdcs \/ (td[t].tdcs = {} /\ IsHost(td[t].new_tdcs))

\* The TDR and the TDCS pages are the TDX module's, and all different.
TdGiven(t) ==
    /\ td[t].tdr # NullPa => pamt[td[t].tdr] # "host" /\ td[t].tdr \in mod[t].pages
    /\ td[t].pc \notin {"addcx", "teardown"} => IsGiven(td[t].tdcs)
    /\ td[t].tdr \notin td[t].tdcs /\ td[t].tdr \notin td[t].new_tdcs
    /\ td[t].new_tdr \notin td[t].new_tdcs

\* A TD that is built has its key id until the TDX module has freed it.
TdKeyed(t) ==
    /\ td[t].hkid # 0 /\ td[t].pc \notin Building => Keyed(t) /\ td[t].tdr # NullPa
    /\ Keyed(t) => td[t].hkid # 0 /\ mod[t].hkid = td[t].hkid
    /\ td[t].hkid = 0 /\ (td[t].tdcs # {} \/ td[t].tdr # NullPa) => mod[t].key = "freed"
    /\ td[t].pc \in Created \cup {"finalized", "key_free"} => td[t].hkid # 0

\* The destruction goes on without the key id, unless something was kept.
TdEnds(t) ==
    /\ td[t].pc \in {"free_vcpus", "vm_free", "free_tdr", "gone"} /\ td[t].hkid # 0
         => mod[t].kept
    /\ td[t].pc = "free_tdr" => td[t].hkid = 0 /\ td[t].tdcs = {} /\ td[t].tdr # NullPa
    /\ td[t].pc \in {"idle", "gone"} /\ td[t].hkid = 0 =>
         td[t].tdcs = {} /\ (~mod[t].kept => td[t].tdr = NullPa)
    /\ td[t].pc \in {"free_vcpus", "gone"} => td[t].ending
    /\ td[t].ending => td[t].pc \in Returning \cup Freeing \cup {"free_vcpus", "gone"}

\* Without a TDR the TDX module has nothing of the TD, but for what it kept, and it has
\* no other pages than those named here.
TdNothingElse(t) ==
    ~mod[t].kept =>
        /\ td[t].tdr = NullPa => mod[t] = NoTd
        /\ IsGiven(mod[t].pages)
        /\ \A p \in mod[t].pages :
             p \in HeldByTd(t) \/ \E v \in VcpusOf(t) : p \in HeldByVcpu(v)

TdStage(t) ==
    /\ TdUnbuilt(t) /\ TdBuilt(t) /\ TdGiven(t) /\ TdKeyed(t) /\ TdEnds(t) /\ TdNothingElse(t)

\* The pages of a VCPU at each place of tdx_td_vcpu_init.
VcpuPages(v) ==
    /\ tdVcpu[v].pc \in {"none", "idle", "gone"} =>
         tdVcpu[v].new_tdvpr = NullPa /\ tdVcpu[v].new_tdvpx = {}
    /\ tdVcpu[v].pc \in VpBuilding \cup {"none"} =>
         tdVcpu[v].tdvpr = NullPa /\ tdVcpu[v].tdvpx = {}
    /\ tdVcpu[v].pc \in VpBuilding =>
         /\ tdVcpu[v].new_tdvpr # NullPa
         /\ pamt[tdVcpu[v].new_tdvpr] = "host" /\ IsHost(tdVcpu[v].new_tdvpx)
    /\ tdVcpu[v].pc \in VpCreated =>
         tdVcpu[v].new_tdvpr = tdVcpu[v].tdvpr /\ tdVcpu[v].new_tdvpx = tdVcpu[v].tdvpx
    /\ tdVcpu[v].tdvpr # NullPa => pamt[tdVcpu[v].tdvpr] # "host"
    /\ tdVcpu[v].pc # "vp_addcx" => IsGiven(tdVcpu[v].tdvpx)
    /\ tdVcpu[v].tdvpr \notin tdVcpu[v].tdvpx
    /\ tdVcpu[v].new_tdvpr \notin tdVcpu[v].new_tdvpx

\* Where a VCPU may be while its TD is built, runs and is destroyed.
VcpuPlace(v) ==
    LET t == TdOf[v] IN
    /\ tdVcpu[v].pc \in VpBuilding \cup VpCreated =>
         td[t].pc \in {"idle", "finalized"} /\ td[t].hkid # 0
    /\ td[t].pc \in Building \cup Created
         \/ (~td[t].ending /\ td[t].pc \in Returning \cup Freeing) =>
         tdVcpu[v].pc = "none"
    /\ td[t].pc \in Freeing \cup {"gone"} => tdVcpu[v].pc \in {"none", "gone"}
    /\ tdVcpu[v].pc = "gone" => td[t].pc \in Freeing \cup {"free_vcpus", "gone"}

\* A VCPU has pages only while its TD has a key id, or when that was freed.
VcpuKeyed(v) ==
    LET t == TdOf[v] IN
    /\ tdVcpu[v].tdvpr # NullPa \/ tdVcpu[v].tdvpx # {} =>
         /\ td[t].hkid = 0 => mod[t].key = "freed"
         /\ tdVcpu[v].pc = "gone" => td[t].hkid # 0
         /\ tdVcpu[v].pc = "idle" /\ ~tdVcpu[v].created => td[t].bugged

VcpuStage(v) == VcpuPages(v) /\ VcpuPlace(v) /\ VcpuKeyed(v)

\* Nobody has a page that somebody else has.
PagesApart ==
    /\ \A t \in Tds : HeldByTd(t) \cap free = {}
    /\ \A v \in TdVcpus : HeldByVcpu(v) \cap free = {}
    /\ \A t \in Tds, v \in TdVcpus : HeldByTd(t) \cap HeldByVcpu(v) = {}
    /\ \A t1, t2 \in Tds : t1 # t2 => HeldByTd(t1) \cap HeldByTd(t2) = {}
    /\ \A v1, v2 \in TdVcpus : v1 # v2 => HeldByVcpu(v1) \cap HeldByVcpu(v2) = {}

\* And every page is somebody's, but for those that the TDX module kept.
NoneLost ==
    \A p \in KernelPages :
        \/ p \in free
        \/ \E t \in Tds : p \in HeldByTd(t)
        \/ \E v \in TdVcpus : p \in HeldByVcpu(v)
        \/ pamt[p] # "host" /\ \E t \in Tds : mod[t].kept

\* The pool has the key ids of the TDs, each TD its own.
KeyidsOwned ==
    /\ \A t \in Tds : td[t].hkid # 0 => td[t].hkid \in pool
    /\ \A k \in pool : \E t \in Tds : td[t].hkid = k
    /\ \A t1, t2 \in Tds : t1 # t2 /\ td[t1].hkid # 0 => td[t1].hkid # td[t2].hkid
    /\ nr_configured_hkid = Cardinality(pool)
    /\ ConfiguredCounted

LifeInv ==
    /\ LifeRecords /\ FreePagesAreHost
    /\ (\A t \in Tds : TdStage(t)) /\ (\A v \in TdVcpus : VcpuStage(v))
    /\ PagesApart /\ NoneLost /\ KeyidsOwned

-----------------------------------------------------------------------------
(* What a step of one TD or of one VCPU leaves as it is.                    *)

\* The page that Alloc takes, and the loops begin with, is one of the set.
LEMMA LeastIsIn == ASSUME NEW S \in SUBSET Nat, S # {} PROVE Least(S) \in S
<1> DEFINE less == OpToRel(<, Nat)
<1>1. \A a, b \in Nat : <<a, b>> \in less <=> a < b
  BY DEF OpToRel
<1>2. IsWellFoundedOn(less, Nat)
  BY NatLessThanWellFounded
<1> HIDE DEF less
<1>3. S \subseteq Nat
  OBVIOUS
<1>4. PICK x \in S : \A y \in S : <<y, x>> \notin less
  BY <1>2, <1>3, WFMin
<1>5. ASSUME NEW y \in S PROVE x <= y
  <2>1. x \in Nat /\ y \in Nat /\ ~(y < x)
    BY <1>1, <1>3, <1>4
  <2>2. QED
    BY <2>1
<1>6. QED
  BY <1>5 DEF Least

\* A step of the TD t or the destruction of it.
OnlyTd(t) ==
    /\ \A u \in Tds : u # t => td'[u] = td[u] /\ mod'[u] = mod[u]
    /\ tdVcpu' = tdVcpu
    /\ \A p \in KernelPages : p \notin HeldByTd(t) => pamt'[p] = pamt[p]
    /\ mod[t].kept => mod'[t].kept

\* It gives and takes pages of the kernel only, and loses none.
TdHandsOver(t) ==
    /\ HeldByTd(t)' \cap free' = {}
    /\ HeldByTd(t)' \cup free' \subseteq HeldByTd(t) \cup free
    /\ \A p \in HeldByTd(t) \cup free :
         p \in HeldByTd(t)' \cup free' \/ (pamt'[p] # "host" /\ mod'[t].kept)

\* What such a step leaves as it was, and that every page still is somebody's alone.
LEMMA TdFrame ==
  ASSUME LifeInv, NEW t \in Tds, OnlyTd(t), TdHandsOver(t), LifeRecords'
  PROVE  /\ \A u \in Tds : u # t => TdStage(u)'
         /\ \A v \in TdVcpus : VcpuPages(v)'
         /\ \A v \in TdVcpus : TdOf[v] # t => VcpuStage(v)'
         /\ PagesApart' /\ NoneLost'
<1>0. \A v \in TdVcpus : TdOf[v] \in Tds
  BY TdxLifeAssumption
<1>1. \A u \in Tds : u # t => HeldByTd(u)' = HeldByTd(u)
  BY DEF OnlyTd, HeldByTd
<1>2. \A v \in TdVcpus : HeldByVcpu(v)' = HeldByVcpu(v)
  BY DEF OnlyTd, HeldByVcpu
<1>3. \A u \in Tds : u # t => HeldByTd(u) \cap HeldByTd(t) = {}
  BY DEF LifeInv, PagesApart
<1>4. \A v \in TdVcpus : HeldByVcpu(v) \cap HeldByTd(t) = {}
  BY DEF LifeInv, PagesApart
<1>5. \A u \in Tds : HeldByTd(u) \subseteq KernelPages
  BY TdxLifeAssumption DEF LifeInv, LifeRecords, TdRecords, HeldByTd, NonNull, PageOr0
<1>6. \A v \in TdVcpus : HeldByVcpu(v) \subseteq KernelPages
  BY TdxLifeAssumption DEF LifeInv, LifeRecords, VcpuRecords, HeldByVcpu, NonNull, PageOr0
<1>7. \A v \in TdVcpus : \A p \in HeldByVcpu(v) : pamt'[p] = pamt[p]
  BY <1>4, <1>6 DEF OnlyTd
<1>8. \A u \in Tds : u # t => \A p \in HeldByTd(u) : pamt'[p] = pamt[p]
  BY <1>3, <1>5 DEF OnlyTd
<1>9. ASSUME NEW u \in Tds, u # t PROVE TdStage(u)'
  <2>1. td'[u] = td[u] /\ mod'[u] = mod[u] /\ TdStage(u)
    BY <1>9 DEF OnlyTd, LifeInv
  <2>2. \A p \in HeldByTd(u) : pamt'[p] = pamt[p]
    BY <1>8, <1>9
  <2>3. /\ td[u].tdr # NullPa => td[u].tdr \in HeldByTd(u)
        /\ NonNull(td[u].new_tdr) \subseteq HeldByTd(u)
        /\ td[u].tdcs \subseteq HeldByTd(u) /\ td[u].new_tdcs \subseteq HeldByTd(u)
    BY DEF HeldByTd, NonNull
  <2>4. TdUnbuilt(u)'
    BY <2>1, <2>2, <2>3 DEF TdStage, TdUnbuilt, IsHost, Keyed
  <2>5. TdBuilt(u)'
    BY <2>1, <2>2, <2>3 DEF TdStage, TdBuilt, IsHost
  <2>6. TdGiven(u)'
    BY <2>1, <2>2, <2>3 DEF TdStage, TdGiven, IsGiven
  <2>7. TdKeyed(u)' /\ TdEnds(u)'
    BY <2>1 DEF TdStage, TdKeyed, TdEnds, Keyed
  <2>8. TdNothingElse(u)'
    <3>1. SUFFICES ASSUME ~mod[u].kept PROVE TdNothingElse(u)'
      BY <2>1 DEF TdNothingElse
    <3>2. /\ td[u].tdr = NullPa => mod[u] = NoTd
          /\ IsGiven(mod[u].pages)
          /\ \A p \in mod[u].pages :
               p \in HeldByTd(u) \/ \E v \in VcpusOf(u) : p \in HeldByVcpu(v)
      BY <2>1, <3>1 DEF TdStage, TdNothingElse
    <3>3. \A p \in mod[u].pages : pamt'[p] = pamt[p]
      BY <1>7, <2>2, <3>2 DEF VcpusOf
    <3>4. IsGiven(mod[u].pages)'
      BY <2>1, <3>2, <3>3 DEF IsGiven
    <3>5. VcpusOf(u) \subseteq TdVcpus
      BY DEF VcpusOf
    <3>6. QED
      BY <1>1, <1>2, <1>9, <2>1, <3>2, <3>4, <3>5 DEF TdNothingElse
  <2>9. QED
    BY <2>4, <2>5, <2>6, <2>7, <2>8 DEF TdStage
<1>10. ASSUME NEW v \in TdVcpus PROVE VcpuPages(v)'
  <2>1. tdVcpu'[v] = tdVcpu[v] /\ VcpuPages(v)
    BY DEF OnlyTd, LifeInv, VcpuStage
  <2>2. \A p \in HeldByVcpu(v) : pamt'[p] = pamt[p]
    BY <1>7
  <2>3. /\ NonNull(tdVcpu[v].tdvpr) \subseteq HeldByVcpu(v)
        /\ NonNull(tdVcpu[v].new_tdvpr) \subseteq HeldByVcpu(v)
        /\ tdVcpu[v].tdvpx \subseteq HeldByVcpu(v)
        /\ tdVcpu[v].new_tdvpx \subseteq HeldByVcpu(v)
    BY DEF HeldByVcpu
  <2>4. QED
    BY <2>1, <2>2, <2>3 DEF VcpuPages, IsHost, IsGiven, NonNull
<1>11. ASSUME NEW v \in TdVcpus, TdOf[v] # t PROVE VcpuStage(v)'
  <2>1. /\ tdVcpu'[v] = tdVcpu[v] /\ VcpuPlace(v) /\ VcpuKeyed(v)
        /\ td'[TdOf[v]] = td[TdOf[v]] /\ mod'[TdOf[v]] = mod[TdOf[v]]
    BY <1>0, <1>11 DEF OnlyTd, LifeInv, VcpuStage
  <2>2. VcpuPlace(v)' /\ VcpuKeyed(v)'
    BY <2>1 DEF VcpuPlace, VcpuKeyed
  <2>3. QED
    BY <1>10, <2>2 DEF VcpuStage
<1>12. PagesApart'
  <2>1. \A u \in Tds : HeldByTd(u)' \cap free' = {}
    BY <1>1, <1>3 DEF TdHandsOver, LifeInv, PagesApart
  <2>2. \A v \in TdVcpus : HeldByVcpu(v)' \cap free' = {}
    BY <1>2, <1>4 DEF TdHandsOver, LifeInv, PagesApart
  <2>3. \A u \in Tds, v \in TdVcpus : HeldByTd(u)' \cap HeldByVcpu(v)' = {}
    BY <1>1, <1>2, <1>4 DEF TdHandsOver, LifeInv, PagesApart
  <2>4. \A u1, u2 \in Tds : u1 # u2 => HeldByTd(u1)' \cap HeldByTd(u2)' = {}
    <3>1. SUFFICES ASSUME NEW u1 \in Tds, NEW u2 \in Tds, u1 # u2
                   PROVE  HeldByTd(u1)' \cap HeldByTd(u2)' = {}
      OBVIOUS
    <3>2. \A u \in Tds : u # t => HeldByTd(t)' \cap HeldByTd(u) = {}
      BY <1>3 DEF TdHandsOver, LifeInv, PagesApart
    <3>3. HeldByTd(u1) \cap HeldByTd(u2) = {}
      BY <3>1 DEF LifeInv, PagesApart
    <3>4. QED
      BY <1>1, <3>1, <3>2, <3>3
  <2>5. \A v1, v2 \in TdVcpus : v1 # v2 => HeldByVcpu(v1)' \cap HeldByVcpu(v2)' = {}
    BY <1>2 DEF LifeInv, PagesApart
  <2>6. QED
    BY <2>1, <2>2, <2>3, <2>4, <2>5 DEF PagesApart
<1>13. NoneLost'
  <2>1. SUFFICES ASSUME NEW p \in KernelPages
                 PROVE  \/ p \in free'
                        \/ \E u \in Tds : p \in HeldByTd(u)'
                        \/ \E v \in TdVcpus : p \in HeldByVcpu(v)'
                        \/ pamt'[p] # "host" /\ \E u \in Tds : mod'[u].kept
    BY DEF NoneLost
  <2>2. \A u \in Tds : mod[u].kept => mod'[u].kept
    BY DEF OnlyTd
  <2>3. CASE p \in HeldByTd(t) \cup free
    BY <2>3 DEF TdHandsOver
  <2>4. CASE p \notin HeldByTd(t) \cup free
    <3>1. pamt'[p] = pamt[p]
      BY <2>4 DEF OnlyTd
    <3>2. \/ \E u \in Tds : p \in HeldByTd(u)
          \/ \E v \in TdVcpus : p \in HeldByVcpu(v)
          \/ pamt[p] # "host" /\ \E u \in Tds : mod[u].kept
      BY <2>4 DEF LifeInv, NoneLost
    <3>3. QED
      BY <1>1, <1>2, <2>2, <2>4, <3>1, <3>2
  <2>5. QED
    BY <2>3, <2>4
<1>14. QED
  BY <1>9, <1>10, <1>11, <1>12, <1>13

\* A step of the VCPU v, with what it does to its TD.
OnlyVcpu(v) ==
    /\ \A w \in TdVcpus : w # v => tdVcpu'[w] = tdVcpu[w]
    /\ \A u \in Tds : u # TdOf[v] => td'[u] = td[u] /\ mod'[u] = mod[u]
    /\ \/ td' = td
       \/ td' = [td EXCEPT ![TdOf[v]].bugged = TRUE]
    /\ \A p \in KernelPages : p \notin HeldByVcpu(v) => pamt'[p] = pamt[p]
    /\ mod[TdOf[v]].kept => mod'[TdOf[v]].kept
    /\ mod'[TdOf[v]].key = mod[TdOf[v]].key /\ mod'[TdOf[v]].hkid = mod[TdOf[v]].hkid
    /\ pool' = pool /\ nr_configured_hkid' = nr_configured_hkid

VcpuHandsOver(v) ==
    /\ HeldByVcpu(v)' \cap free' = {}
    /\ HeldByVcpu(v)' \cup free' \subseteq HeldByVcpu(v) \cup free
    /\ \A p \in HeldByVcpu(v) \cup free :
         p \in HeldByVcpu(v)' \cup free' \/ (pamt'[p] # "host" /\ mod'[TdOf[v]].kept)

\* The TDX module loses of the TD only what it gives back.
TdrStays(t) == td[t].tdr # NullPa => td[t].tdr \in mod'[t].pages

\* The same of a step of a VCPU, which changes its TD little.
LEMMA VcpuFrame ==
  ASSUME LifeInv, NEW v \in TdVcpus, OnlyVcpu(v), VcpuHandsOver(v), LifeRecords',
         TdrStays(TdOf[v])
  PROVE  /\ \A u \in Tds : u # TdOf[v] => TdStage(u)'
         /\ LET t == TdOf[v] IN
            TdUnbuilt(t)' /\ TdBuilt(t)' /\ TdGiven(t)' /\ TdKeyed(t)' /\ TdEnds(t)'
         /\ \A w \in TdVcpus : w # v => VcpuStage(w)'
         /\ PagesApart' /\ NoneLost' /\ KeyidsOwned'
<1> DEFINE t == TdOf[v]
<1>0. t \in Tds /\ \A w \in TdVcpus : TdOf[w] \in Tds
  BY TdxLifeAssumption
<1>1. \A u \in Tds : /\ td'[u].pc = td[u].pc /\ td'[u].hkid = td[u].hkid
                     /\ td'[u].tdr = td[u].tdr /\ td'[u].tdcs = td[u].tdcs
                     /\ td'[u].new_tdr = td[u].new_tdr /\ td'[u].new_tdcs = td[u].new_tdcs
                     /\ td'[u].ending = td[u].ending
                     /\ td[u].bugged => td'[u].bugged
                     /\ mod'[u].key = mod[u].key /\ mod'[u].hkid = mod[u].hkid
                     /\ mod[u].kept => mod'[u].kept
  <2>1. SUFFICES ASSUME NEW u \in Tds
        PROVE  /\ td'[u].pc = td[u].pc /\ td'[u].hkid = td[u].hkid
               /\ td'[u].tdr = td[u].tdr /\ td'[u].tdcs = td[u].tdcs
               /\ td'[u].new_tdr = td[u].new_tdr /\ td'[u].new_tdcs = td[u].new_tdcs
               /\ td'[u].ending = td[u].ending
               /\ td[u].bugged => td'[u].bugged
               /\ mod'[u].key = mod[u].key /\ mod'[u].hkid = mod[u].hkid
               /\ mod[u].kept => mod'[u].kept
    OBVIOUS
  <2>2. td'[u] = td[u] \/ td'[u] = [td[u] EXCEPT !.bugged = TRUE]
    BY <1>0 DEF OnlyVcpu, LifeInv, LifeRecords
  <2>3. td[u] \in TdRecords
    BY DEF LifeInv, LifeRecords
  <2>4. mod'[u].key = mod[u].key /\ mod'[u].hkid = mod[u].hkid /\ (mod[u].kept => mod'[u].kept)
    BY DEF OnlyVcpu
  <2>5. CASE td'[u] = td[u]
    BY <2>4, <2>5
  <2>6. CASE td'[u] = [td[u] EXCEPT !.bugged = TRUE]
    BY <2>3, <2>4, <2>6 DEF TdRecords
  <2>7. QED
    BY <2>2, <2>5, <2>6
<1>2. \A w \in TdVcpus : w # v => HeldByVcpu(w)' = HeldByVcpu(w)
  BY DEF OnlyVcpu, HeldByVcpu
<1>3. \A u \in Tds : HeldByTd(u) \cap HeldByVcpu(v) = {}
  BY DEF LifeInv, PagesApart
<1>4. \A w \in TdVcpus : w # v => HeldByVcpu(w) \cap HeldByVcpu(v) = {}
  BY DEF LifeInv, PagesApart
<1>5. \A u \in Tds : HeldByTd(u) \subseteq KernelPages
  BY TdxLifeAssumption DEF LifeInv, LifeRecords, TdRecords, HeldByTd, NonNull, PageOr0
<1>6. \A w \in TdVcpus : HeldByVcpu(w) \subseteq KernelPages
  BY TdxLifeAssumption DEF LifeInv, LifeRecords, VcpuRecords, HeldByVcpu, NonNull, PageOr0
<1>7. \A w \in TdVcpus : w # v => \A p \in HeldByVcpu(w) : pamt'[p] = pamt[p]
  BY <1>4, <1>6 DEF OnlyVcpu
<1>8. \A u \in Tds : \A p \in HeldByTd(u) : pamt'[p] = pamt[p]
  BY <1>3, <1>5 DEF OnlyVcpu
<1>9. \A u \in Tds : HeldByTd(u)' = HeldByTd(u)
  BY <1>1 DEF HeldByTd
<1>10. ASSUME NEW u \in Tds
       PROVE  TdUnbuilt(u)' /\ TdBuilt(u)' /\ TdKeyed(u)' /\ TdEnds(u)'
  <2>1. TdStage(u)
    BY DEF LifeInv
  <2>2. \A p \in HeldByTd(u) : pamt'[p] = pamt[p]
    BY <1>8
  <2>3. NonNull(td[u].new_tdr) \subseteq HeldByTd(u) /\ td[u].new_tdcs \subseteq HeldByTd(u)
    BY DEF HeldByTd, NonNull
  <2>4. TdUnbuilt(u)'
    BY <1>1, <2>1, <2>2, <2>3 DEF TdStage, TdUnbuilt, IsHost, Keyed
  <2>5. TdBuilt(u)'
    BY <1>1, <2>1, <2>2, <2>3 DEF TdStage, TdBuilt, IsHost
  <2>6. TdKeyed(u)'
    BY <1>1, <2>1 DEF TdStage, TdKeyed, Keyed
  <2>7. TdEnds(u)'
    BY <1>1, <2>1 DEF TdStage, TdEnds
  <2>8. QED
    BY <2>4, <2>5, <2>6, <2>7
<1>11. ASSUME NEW u \in Tds PROVE TdGiven(u)'
  <2>1. TdStage(u)
    BY DEF LifeInv
  <2>2. \A p \in HeldByTd(u) : pamt'[p] = pamt[p]
    BY <1>8
  <2>3. /\ td[u].tdr # NullPa => td[u].tdr \in HeldByTd(u)
        /\ td[u].tdcs \subseteq HeldByTd(u)
    BY DEF HeldByTd, NonNull
  <2>4. td[u].tdr # NullPa => td[u].tdr \in mod'[u].pages
    BY <2>1 DEF OnlyVcpu, TdrStays, TdStage, TdGiven
  <2>5. QED
    BY <1>1, <2>1, <2>2, <2>3, <2>4 DEF TdStage, TdGiven, IsGiven
<1>12. ASSUME NEW u \in Tds, u # t PROVE TdNothingElse(u)'
  <2>1. td'[u] = td[u] /\ mod'[u] = mod[u] /\ TdStage(u)
    BY <1>12 DEF OnlyVcpu, LifeInv
  <2>2. SUFFICES ASSUME ~mod[u].kept PROVE TdNothingElse(u)'
    BY <2>1 DEF TdNothingElse
  <2>3. /\ td[u].tdr = NullPa => mod[u] = NoTd
        /\ IsGiven(mod[u].pages)
        /\ \A p \in mod[u].pages :
             p \in HeldByTd(u) \/ \E w \in VcpusOf(u) : p \in HeldByVcpu(w)
    BY <2>1, <2>2 DEF TdStage, TdNothingElse
  <2>4. \A w \in VcpusOf(u) : w \in TdVcpus /\ w # v
    BY <1>12 DEF VcpusOf
  <2>5. \A p \in mod[u].pages : pamt'[p] = pamt[p]
    BY <1>7, <1>8, <2>3, <2>4
  <2>6. IsGiven(mod[u].pages)'
    BY <2>1, <2>3, <2>5 DEF IsGiven
  <2>7. QED
    BY <1>9, <1>2, <2>1, <2>3, <2>4, <2>6 DEF TdNothingElse
<1>13. ASSUME NEW w \in TdVcpus, w # v PROVE VcpuStage(w)'
  <2>1. tdVcpu'[w] = tdVcpu[w] /\ VcpuPages(w) /\ VcpuPlace(w) /\ VcpuKeyed(w)
    BY <1>13 DEF OnlyVcpu, LifeInv, VcpuStage
  <2>2. \A p \in HeldByVcpu(w) : pamt'[p] = pamt[p]
    BY <1>7, <1>13
  <2>3. /\ NonNull(tdVcpu[w].tdvpr) \subseteq HeldByVcpu(w)
        /\ NonNull(tdVcpu[w].new_tdvpr) \subseteq HeldByVcpu(w)
        /\ tdVcpu[w].tdvpx \subseteq HeldByVcpu(w)
        /\ tdVcpu[w].new_tdvpx \subseteq HeldByVcpu(w)
    BY DEF HeldByVcpu
  <2>4. VcpuPages(w)'
    BY <2>1, <2>2, <2>3 DEF VcpuPages, IsHost, IsGiven, NonNull
  <2>5. VcpuPlace(w)' /\ VcpuKeyed(w)'
    BY <1>0, <1>1, <2>1 DEF VcpuPlace, VcpuKeyed
  <2>6. QED
    BY <2>4, <2>5 DEF VcpuStage
<1>14. PagesApart'
  <2>1. \A u \in Tds : HeldByTd(u)' \cap free' = {}
    BY <1>9, <1>3 DEF VcpuHandsOver, LifeInv, PagesApart
  <2>2. \A w \in TdVcpus : HeldByVcpu(w)' \cap free' = {}
    BY <1>2, <1>4 DEF VcpuHandsOver, LifeInv, PagesApart
  <2>3. \A u \in Tds : HeldByTd(u) \cap HeldByVcpu(v)' = {}
    BY <1>3 DEF VcpuHandsOver, LifeInv, PagesApart
  <2>4. \A u \in Tds, w \in TdVcpus : HeldByTd(u)' \cap HeldByVcpu(w)' = {}
    BY <1>9, <1>2, <2>3 DEF LifeInv, PagesApart
  <2>5. \A u1, u2 \in Tds : u1 # u2 => HeldByTd(u1)' \cap HeldByTd(u2)' = {}
    BY <1>9 DEF LifeInv, PagesApart
  <2>6. \A w \in TdVcpus : w # v => HeldByVcpu(v)' \cap HeldByVcpu(w) = {}
    BY <1>4 DEF VcpuHandsOver, LifeInv, PagesApart
  <2>7. \A v1, v2 \in TdVcpus : v1 # v2 => HeldByVcpu(v1)' \cap HeldByVcpu(v2)' = {}
    <3>1. SUFFICES ASSUME NEW v1 \in TdVcpus, NEW v2 \in TdVcpus, v1 # v2
                   PROVE  HeldByVcpu(v1)' \cap HeldByVcpu(v2)' = {}
      OBVIOUS
    <3>2. HeldByVcpu(v1) \cap HeldByVcpu(v2) = {}
      BY <3>1 DEF LifeInv, PagesApart
    <3>3. QED
      BY <1>2, <2>6, <3>1, <3>2
  <2>8. QED
    BY <2>1, <2>2, <2>4, <2>5, <2>7 DEF PagesApart
<1>15. NoneLost'
  <2>1. SUFFICES ASSUME NEW p \in KernelPages
                 PROVE  \/ p \in free'
                        \/ \E u \in Tds : p \in HeldByTd(u)'
                        \/ \E w \in TdVcpus : p \in HeldByVcpu(w)'
                        \/ pamt'[p] # "host" /\ \E u \in Tds : mod'[u].kept
    BY DEF NoneLost
  <2>2. CASE p \in HeldByVcpu(v) \cup free
    BY <1>0, <2>2 DEF VcpuHandsOver
  <2>3. CASE p \notin HeldByVcpu(v) \cup free
    <3>1. pamt'[p] = pamt[p]
      BY <2>3 DEF OnlyVcpu
    <3>2. \/ \E u \in Tds : p \in HeldByTd(u)
          \/ \E w \in TdVcpus : p \in HeldByVcpu(w)
          \/ pamt[p] # "host" /\ \E u \in Tds : mod[u].kept
      BY <2>3 DEF LifeInv, NoneLost
    <3>3. QED
      BY <1>9, <1>2, <1>1, <2>3, <3>1, <3>2
  <2>4. QED
    BY <2>2, <2>3
<1>16. KeyidsOwned'
  <2>1. pool' = pool /\ nr_configured_hkid' = nr_configured_hkid
    BY DEF OnlyVcpu
  <2>2. {u \in Tds : HkidAssigned(u)}' = {u \in Tds : HkidAssigned(u)}
    BY <1>1 DEF HkidAssigned
  <2>3. ConfiguredCounted'
    BY <2>1, <2>2 DEF LifeInv, KeyidsOwned, ConfiguredCounted
  <2>4. QED
    BY <1>1, <2>1, <2>3 DEF LifeInv, KeyidsOwned
<1>17. QED
  BY <1>0, <1>10, <1>11, <1>12, <1>13, <1>14, <1>15, <1>16 DEF TdStage

\* What LifeInv says of one TD and of one VCPU.
LEMMA RecordsOf ==
  ASSUME LifeInv
  PROVE  /\ \A t \in Tds : td[t] \in TdRecords /\ mod[t] \in ModRecords /\ TdStage(t)
         /\ \A v \in TdVcpus : tdVcpu[v] \in VcpuRecords /\ VcpuStage(v) /\ TdOf[v] \in Tds
         /\ NullPa \notin KernelPages /\ Keyids \subseteq Nat \ {0}
         /\ free \subseteq KernelPages /\ pamt \in [KernelPages -> PageKinds]
BY TdxLifeAssumption DEF LifeInv, LifeRecords

\* __get_free_page gives a free page.
LEMMA AllocIsFree == ASSUME LifeInv, free # {} PROVE Alloc \in free
BY LeastIsIn, TdxLifeAssumption DEF LifeInv, LifeRecords, Alloc

\* The types after a step of a TD.
LEMMA TdRecordsKept ==
  ASSUME LifeInv, NEW t \in Tds, NEW r \in TdRecords, NEW m \in ModRecords,
         td' = [td EXCEPT ![t] = r], mod' = [mod EXCEPT ![t] = m], tdVcpu' = tdVcpu,
         pamt' \in [KernelPages -> PageKinds],
         free' \subseteq KernelPages, pool' \subseteq Keyids
  PROVE  LifeRecords'
BY DEF LifeInv, LifeRecords

\* The types after a step of a VCPU.
LEMMA VcpuRecordsKept ==
  ASSUME LifeInv, NEW v \in TdVcpus, NEW q \in VcpuRecords, NEW r \in TdRecords,
         NEW m \in ModRecords,
         td' = [td EXCEPT ![TdOf[v]] = r], mod' = [mod EXCEPT ![TdOf[v]] = m],
         tdVcpu' = [tdVcpu EXCEPT ![v] = q],
         pamt' \in [KernelPages -> PageKinds], free' \subseteq KernelPages, pool' = pool
  PROVE  LifeRecords'
BY TdxLifeAssumption DEF LifeInv, LifeRecords

\* A step that leaves the key ids alone.
LEMMA KeyidsFrame ==
  ASSUME LifeInv, pool' = pool, nr_configured_hkid' = nr_configured_hkid,
         \A u \in Tds : td'[u].hkid = td[u].hkid
  PROVE  KeyidsOwned'
<1>1. {u \in Tds : HkidAssigned(u)}' = {u \in Tds : HkidAssigned(u)}
  BY DEF HkidAssigned
<1>2. ConfiguredCounted'
  BY <1>1 DEF LifeInv, KeyidsOwned, ConfiguredCounted
<1>3. QED
  BY <1>2 DEF LifeInv, KeyidsOwned

\* The invariant after a step of a TD.
LEMMA TdStepKeeps ==
  ASSUME LifeInv, NEW t \in Tds, OnlyTd(t), TdHandsOver(t), LifeRecords',
         FreePagesAreHost', TdStage(t)', KeyidsOwned',
         \A v \in VcpusOf(t) : VcpuPlace(v)' /\ VcpuKeyed(v)'
  PROVE  LifeInv'
<1>1. \A v \in TdVcpus : TdOf[v] = t => VcpuStage(v)'
  BY TdFrame DEF VcpusOf, VcpuStage
<1>2. QED
  BY <1>1, TdFrame DEF LifeInv

\* A key id is a number; without one it is 0.
LEMMA HkidOrNone == ASSUME LifeInv, NEW t \in Tds PROVE td[t].hkid = 0 \/ td[t].hkid > 0
<1>1. td[t].hkid \in Keyids \cup {0}
  BY RecordsOf DEF TdRecords
<1>2. \A k \in Keyids \cup {0} : k = 0 \/ k > 0
  BY TdxLifeAssumption
<1>3. QED
  BY <1>1, <1>2

\* A step of a TD that takes a key id.
LEMMA KeyidTaken ==
  ASSUME LifeInv, NEW t \in Tds, NEW id \in Keyids \ pool, td[t].hkid = 0,
         td'[t].hkid = id, \A u \in Tds : u # t => td'[u].hkid = td[u].hkid,
         pool' = pool \cup {id}, nr_configured_hkid' = nr_configured_hkid + 1
  PROVE  KeyidsOwned'
<1>1. id \in Nat \ {0} /\ IsFiniteSet(pool) /\ IsFiniteSet(Tds)
  BY FS_Subset, TdxLifeAssumption DEF LifeInv, LifeRecords
<1>2. \A u \in Tds : td[u].hkid \in Nat
  BY RecordsOf DEF TdRecords
<1>3. {u \in Tds : HkidAssigned(u)}' = {u \in Tds : HkidAssigned(u)} \cup {t}
  BY <1>1 DEF HkidAssigned
<1>4. t \notin {u \in Tds : HkidAssigned(u)}
  BY DEF HkidAssigned
<1>5. IsFiniteSet({u \in Tds : HkidAssigned(u)})
  BY <1>1, FS_Subset
<1>6. Cardinality({u \in Tds : HkidAssigned(u)} \cup {t})
        = Cardinality({u \in Tds : HkidAssigned(u)}) + 1
  BY <1>4, <1>5, FS_AddElement
<1>7. Cardinality(pool \cup {id}) = Cardinality(pool) + 1
  BY <1>1, FS_AddElement
<1>8. nr_configured_hkid' = Cardinality(pool') /\ ConfiguredCounted'
  BY <1>3, <1>6, <1>7 DEF LifeInv, KeyidsOwned, ConfiguredCounted
<1>9. \A u \in Tds : td'[u].hkid # 0 => td'[u].hkid \in pool'
  BY DEF LifeInv, KeyidsOwned
<1>10. \A k \in pool' : \E u \in Tds : td'[u].hkid = k
  <2>1. \A k \in pool : k # 0 /\ \E u \in Tds : td[u].hkid = k
    BY TdxLifeAssumption DEF LifeInv, LifeRecords, KeyidsOwned
  <2>2. QED
    BY <2>1
<1>11. \A t1, t2 \in Tds : t1 # t2 /\ td'[t1].hkid # 0 => td'[t1].hkid # td'[t2].hkid
  <2>1. \A u \in Tds : td[u].hkid # id
    BY <1>1 DEF LifeInv, KeyidsOwned
  <2>2. \A t1, t2 \in Tds : t1 # t2 /\ td[t1].hkid # 0 => td[t1].hkid # td[t2].hkid
    BY DEF LifeInv, KeyidsOwned
  <2>3. QED
    BY <2>1, <2>2
<1>12. QED
  BY <1>8, <1>9, <1>10, <1>11 DEF KeyidsOwned

\* A step of a TD that gives its key id back.
LEMMA KeyidGivenBack ==
  ASSUME LifeInv, NEW t \in Tds, td[t].hkid # 0,
         td'[t].hkid = 0, \A u \in Tds : u # t => td'[u].hkid = td[u].hkid,
         pool' = pool \ {td[t].hkid}, nr_configured_hkid' = nr_configured_hkid - 1
  PROVE  KeyidsOwned'
<1>1. IsFiniteSet(pool) /\ IsFiniteSet(Tds)
  BY FS_Subset, TdxLifeAssumption DEF LifeInv, LifeRecords
<1>2. \A u \in Tds : td[u].hkid \in Nat
  BY RecordsOf DEF TdRecords
<1>3. {u \in Tds : HkidAssigned(u)}' = {u \in Tds : HkidAssigned(u)} \ {t}
  BY DEF HkidAssigned
<1>4. t \in {u \in Tds : HkidAssigned(u)}
  BY <1>2 DEF HkidAssigned
<1>5. IsFiniteSet({u \in Tds : HkidAssigned(u)})
  BY <1>1, FS_Subset
<1>6. Cardinality({u \in Tds : HkidAssigned(u)} \ {t})
        = Cardinality({u \in Tds : HkidAssigned(u)}) - 1
  BY <1>4, <1>5, FS_RemoveElement
<1>7. td[t].hkid \in pool
  BY DEF LifeInv, KeyidsOwned
<1>8. Cardinality(pool \ {td[t].hkid}) = Cardinality(pool) - 1
  BY <1>1, <1>7, FS_RemoveElement
<1>9. nr_configured_hkid' = Cardinality(pool') /\ ConfiguredCounted'
  BY <1>3, <1>6, <1>8 DEF LifeInv, KeyidsOwned, ConfiguredCounted
<1>10. \A u \in Tds : u # t /\ td[u].hkid # 0 => td[u].hkid # td[t].hkid
  BY DEF LifeInv, KeyidsOwned
<1>11. \A u \in Tds : td'[u].hkid # 0 => td'[u].hkid \in pool'
  BY <1>10 DEF LifeInv, KeyidsOwned
<1>12. \A k \in pool' : \E u \in Tds : td'[u].hkid = k
  BY DEF LifeInv, KeyidsOwned
<1>13. \A t1, t2 \in Tds : t1 # t2 /\ td'[t1].hkid # 0 => td'[t1].hkid # td'[t2].hkid
  <2>1. \A t1, t2 \in Tds : t1 # t2 /\ td[t1].hkid # 0 => td[t1].hkid # td[t2].hkid
    BY DEF LifeInv, KeyidsOwned
  <2>2. QED
    BY <2>1
<1>14. QED
  BY <1>9, <1>11, <1>12, <1>13 DEF KeyidsOwned

\* What a VCPU gives to the TDX module and gets back, the TDX module gets and gives.
VcpuGivesPages(v) ==
    ~mod'[TdOf[v]].kept =>
        /\ td[TdOf[v]].tdr = NullPa => mod'[TdOf[v]] = mod[TdOf[v]]
        /\ \A p \in mod'[TdOf[v]].pages :
             \/ p \in mod[TdOf[v]].pages \ HeldByVcpu(v)
             \/ p \in HeldByVcpu(v)' /\ pamt'[p] # "host"

\* Then the TDX module has no page of the TD that nobody names.
LEMMA VcpuGivesElse ==
  ASSUME LifeInv, NEW v \in TdVcpus, OnlyVcpu(v), LifeRecords', VcpuGivesPages(v)
  PROVE  TdNothingElse(TdOf[v])'
<1> DEFINE t == TdOf[v]
<1>1. t \in Tds /\ v \in VcpusOf(t)
  BY TdxLifeAssumption DEF VcpusOf
<1>2. td'[t].tdr = td[t].tdr /\ HeldByTd(t)' = HeldByTd(t)
  <2>1. td'[t] = td[t] \/ td'[t] = [td[t] EXCEPT !.bugged = TRUE]
    BY <1>1 DEF OnlyVcpu, LifeInv, LifeRecords
  <2>2. td[t] \in TdRecords
    BY <1>1 DEF LifeInv, LifeRecords
  <2>3. /\ td'[t].tdr = td[t].tdr /\ td'[t].tdcs = td[t].tdcs
        /\ td'[t].new_tdr = td[t].new_tdr /\ td'[t].new_tdcs = td[t].new_tdcs
    <3>1. CASE td'[t] = td[t]
      BY <3>1
    <3>2. CASE td'[t] = [td[t] EXCEPT !.bugged = TRUE]
      BY <2>2, <3>2 DEF TdRecords
    <3>3. QED
      BY <2>1, <3>1, <3>2
  <2>4. QED
    BY <2>3 DEF HeldByTd
<1>3. SUFFICES ASSUME ~mod'[t].kept PROVE TdNothingElse(t)'
  BY DEF TdNothingElse
<1>4. ~mod[t].kept /\ TdNothingElse(t)
  BY <1>1, <1>3 DEF OnlyVcpu, LifeInv, TdStage
<1>5. /\ td[t].tdr = NullPa => mod[t] = NoTd
      /\ IsGiven(mod[t].pages)
      /\ \A p \in mod[t].pages :
           p \in HeldByTd(t) \/ \E w \in VcpusOf(t) : p \in HeldByVcpu(w)
  BY <1>4 DEF TdNothingElse
<1>6. \A w \in VcpusOf(t) : w # v => HeldByVcpu(w)' = HeldByVcpu(w)
  BY DEF OnlyVcpu, HeldByVcpu, VcpusOf
<1>7. mod[t].pages \subseteq KernelPages
  BY <1>1, RecordsOf DEF ModRecords
<1>8. ASSUME NEW p \in mod'[t].pages
      PROVE  /\ pamt'[p] # "host"
             /\ p \in HeldByTd(t)' \/ \E w \in VcpusOf(t) : p \in HeldByVcpu(w)'
  <2>1. CASE p \in HeldByVcpu(v)' /\ pamt'[p] # "host"
    BY <1>1, <2>1
  <2>2. CASE p \in mod[t].pages \ HeldByVcpu(v)
    <3>1. pamt'[p] = pamt[p]
      BY <1>7, <2>2 DEF OnlyVcpu
    <3>2. p \in HeldByTd(t) \/ \E w \in VcpusOf(t) : w # v /\ p \in HeldByVcpu(w)
      BY <1>5, <2>2
    <3>3. QED
      BY <1>2, <1>5, <1>6, <2>2, <3>1, <3>2 DEF IsGiven
  <2>3. QED
    BY <1>3, <1>8, <2>1, <2>2 DEF VcpuGivesPages
<1>9. td'[t].tdr = NullPa => mod'[t] = NoTd
  BY <1>2, <1>3, <1>5 DEF VcpuGivesPages
<1>10. QED
  BY <1>8, <1>9, <1>3 DEF TdNothingElse, IsGiven, VcpusOf

\* The invariant after a step of a VCPU.
LEMMA VcpuStepKeeps ==
  ASSUME LifeInv, NEW v \in TdVcpus, OnlyVcpu(v), VcpuHandsOver(v), LifeRecords',
         FreePagesAreHost', TdrStays(TdOf[v]), VcpuStage(v)', VcpuGivesPages(v)
  PROVE  LifeInv'
<1>1. TdOf[v] \in Tds
  BY TdxLifeAssumption
<1>2. TdStage(TdOf[v])'
  BY VcpuFrame, VcpuGivesElse DEF TdStage
<1>3. QED
  BY <1>1, <1>2, VcpuFrame DEF LifeInv

\* What a TD gives to the TDX module and gets back, the TDX module gets and gives.
TdGivesPages(t) ==
    ~mod'[t].kept =>
        /\ td'[t].tdr = NullPa => mod'[t] = NoTd
        /\ \A p \in mod'[t].pages :
             \/ p \in mod[t].pages \ HeldByTd(t)
             \/ p \in HeldByTd(t)' /\ pamt'[p] # "host"

\* Then the TDX module has no page of the TD that nobody names.
LEMMA TdGivesElse ==
  ASSUME LifeInv, NEW t \in Tds, OnlyTd(t), TdGivesPages(t)
  PROVE  TdNothingElse(t)'
<1>1. SUFFICES ASSUME ~mod'[t].kept PROVE TdNothingElse(t)'
  BY DEF TdNothingElse
<1>2. ~mod[t].kept /\ TdNothingElse(t)
  BY <1>1 DEF OnlyTd, LifeInv, TdStage
<1>3. /\ IsGiven(mod[t].pages)
      /\ \A p \in mod[t].pages :
           p \in HeldByTd(t) \/ \E w \in VcpusOf(t) : p \in HeldByVcpu(w)
  BY <1>2 DEF TdNothingElse
<1>4. \A w \in VcpusOf(t) : HeldByVcpu(w)' = HeldByVcpu(w)
  BY DEF OnlyTd, HeldByVcpu
<1>5. mod[t].pages \subseteq KernelPages
  BY RecordsOf DEF ModRecords
<1>6. ASSUME NEW p \in mod'[t].pages
      PROVE  /\ pamt'[p] # "host"
             /\ p \in HeldByTd(t)' \/ \E w \in VcpusOf(t) : p \in HeldByVcpu(w)'
  <2>1. CASE p \in HeldByTd(t)' /\ pamt'[p] # "host"
    BY <2>1
  <2>2. CASE p \in mod[t].pages \ HeldByTd(t)
    BY <1>3, <1>4, <1>5, <2>2 DEF OnlyTd, IsGiven
  <2>3. QED
    BY <1>1, <1>6, <2>1, <2>2 DEF TdGivesPages
<1>7. QED
  BY <1>1, <1>6 DEF TdNothingElse, IsGiven, TdGivesPages, VcpusOf

\* What comes of TDH.PHYMEM.PAGE.RECLAIM where the TDX module allows it.
LEMMA ReclaimEffect ==
  ASSUME LifeInv, NEW t \in Tds, NEW p, ReclaimOk(t, p), ReclaimControlPage(t, p)
  PROVE  /\ mod' = [mod EXCEPT ![t] = mod'[t]]
         /\ \/ /\ mod'[t] = [mod[t] EXCEPT !.pages = mod[t].pages \ {p}]
               /\ pamt' = [pamt EXCEPT ![p] = "host"] /\ free' = free \cup {p}
            \/ /\ mod'[t] = [mod[t] EXCEPT !.kept = TRUE]
               /\ pamt' = pamt /\ free' = free
<1>1. mod \in [Tds -> ModRecords]
  BY DEF LifeInv, LifeRecords
<1>2. CASE /\ pamt' = Cleared(p) /\ free' = free \cup {p}
           /\ mod' = [mod EXCEPT ![t].pages = @ \ {p}]
  BY <1>1, <1>2 DEF Cleared, Given
<1>3. CASE Keeps(t) /\ UNCHANGED <<free, pamt>>
  BY <1>1, <1>3 DEF Keeps
<1>4. QED
  BY <1>2, <1>3 DEF ReclaimControlPage

-----------------------------------------------------------------------------
(* The life of TDs: what each step keeps.                                  *)

\* KVM_TDX_INIT_VM takes the least key id that the pool does not have.
LEMMA KeyidAllocKeeps == ASSUME LifeInv, NEW t \in Tds, KeyidAlloc(t) PROVE LifeInv'
<1> DEFINE id == Least(Keyids \ pool)
<1>1. /\ td[t] \in TdRecords /\ mod[t] \in ModRecords /\ TdStage(t)
      /\ NullPa \notin KernelPages /\ Keyids \subseteq Nat \ {0}
      /\ free \subseteq KernelPages /\ pamt \in [KernelPages -> PageKinds]
  BY RecordsOf
<1>2. pool # Keyids => id \in Keyids \ pool
  BY <1>1, LeastIsIn DEF LifeInv, LifeRecords
<1> HIDE DEF id
<1>3. /\ td' = [td EXCEPT ![t] = td'[t]] /\ mod' = [mod EXCEPT ![t] = mod'[t]]
      /\ tdVcpu' = tdVcpu
  BY <1>1, <1>2 DEF LifeInv, LifeRecords, KeyidAlloc, SetTd, InTd, InVcpu, HkidAssigned
<1>4. /\ td[t].pc = "idle"
      /\ td[t].hkid = 0
      /\ \A v \in VcpusOf(t) : tdVcpu[v].pc = "none"
  BY <1>1, <1>2 DEF KeyidAlloc, SetTd, InTd, InVcpu, HkidAssigned, TdRecords
<1>5. /\ td'[t] = [td[t] EXCEPT !.pc = "alloc_tdr", !.hkid = id]
      /\ mod'[t] = mod[t]
      /\ pamt' = pamt
      /\ free' = free
      /\ id \in Keyids \ pool
      /\ pool' = pool \cup {id} /\ nr_configured_hkid' = nr_configured_hkid + 1
  BY <1>1, <1>2, <1>4 DEF LifeInv, LifeRecords, TdRecords, TdStage, TdKeyed, TdGiven, IsGiven,
     KeyidAlloc, SetTd, InTd, InVcpu, HkidAssigned, id
<1>6. td'[t] \in TdRecords
  BY <1>1, <1>4, <1>5, ZenonT(60) DEF TdRecords, TdPcs, Building, Created, Returning, Freeing,
     PageOr0
<1>7. mod'[t] \in ModRecords
  BY <1>1, <1>4, <1>5 DEF TdRecords, ModRecords, NoTd
<1>8. pamt' \in [KernelPages -> PageKinds] /\ free' \subseteq KernelPages
  BY <1>1, <1>4, <1>5 DEF PageKinds, TdRecords, PageOr0, TdStage, TdUnbuilt
<1>9. LifeRecords'
  BY <1>1, <1>1, <1>3, <1>6, <1>7, <1>8, <1>5, TdRecordsKept DEF LifeInv, LifeRecords
<1>10. FreePagesAreHost'
  BY <1>1, <1>4, <1>5 DEF LifeInv, FreePagesAreHost, PagesApart, HeldByTd, PageOr0, TdStage,
     TdUnbuilt, IsHost, NonNull, Building, TdRecords
<1>11. \A p \in KernelPages : p \notin HeldByTd(t) => pamt'[p] = pamt[p]
  BY <1>1, <1>4, <1>5 DEF HeldByTd, NonNull, TdRecords, PageOr0
<1>12. mod[t].kept => mod'[t].kept
  BY <1>1, <1>4, <1>5 DEF ModRecords, NoTd
<1>13. OnlyTd(t)
  <2>1. \A u \in Tds : u # t => td'[u] = td[u] /\ mod'[u] = mod[u]
    BY <1>3 DEF LifeInv, LifeRecords
  <2>2. QED
    BY <1>3, <1>11, <1>12, <2>1 DEF OnlyTd
<1>14. TdHandsOver(t)
  BY <1>1, <1>4, <1>5, <1>3 DEF LifeInv, TdHandsOver, HeldByTd, NonNull, PagesApart, TdRecords,
     PageOr0, TdStage, TdUnbuilt, TdBuilt, TdGiven, TdEnds, IsGiven, IsHost, Building, Created,
     Returning, Freeing
<1>15. TdUnbuilt(t)'
  BY <1>1, <1>4, <1>5 DEF TdRecords, ModRecords, LifeInv, FreePagesAreHost, TdStage, TdUnbuilt,
     TdBuilt, TdKeyed, TdEnds, TdNothingElse, NoTd, Keyed, IsHost, NonNull, Building, Created,
     Returning, Freeing
<1>16. TdBuilt(t)'
  BY <1>1, <1>4, <1>5 DEF TdRecords, TdStage, TdUnbuilt, TdBuilt, TdGiven, IsHost, IsGiven,
     NonNull, Building, Created, Returning, Freeing
<1>17. TdGiven(t)'
  BY <1>1, <1>4, <1>5 DEF TdRecords, ModRecords, LifeInv, PagesApart, HeldByTd, TdStage,
     TdUnbuilt, TdBuilt, TdGiven, IsHost, IsGiven, NonNull, Building, Created, Returning,
     Freeing
<1>18. TdKeyed(t)'
  BY <1>1, <1>4, <1>5 DEF TdRecords, ModRecords, TdStage, TdUnbuilt, TdKeyed, TdEnds, Keyed,
     NoTd, Building, Created, Returning, Freeing
<1>19. TdEnds(t)'
  BY <1>1, <1>4, <1>5 DEF TdRecords, ModRecords, TdStage, TdUnbuilt, TdKeyed, TdEnds, Building,
     Created, Returning, Freeing
<1>20. TdGivesPages(t)
  BY <1>1, <1>4, <1>5 DEF TdGivesPages, TdRecords, ModRecords, TdStage, TdUnbuilt, TdBuilt,
     TdGiven, TdKeyed, TdEnds, TdNothingElse, IsGiven, IsHost, NonNull, HeldByTd, NoTd, Keyed,
     Building, Created, Returning, Freeing
<1>21. KeyidsOwned'
  <2>1. \A u \in Tds : u # t => td'[u].hkid = td[u].hkid
    BY <1>3 DEF LifeInv, LifeRecords
  <2>2. td'[t].hkid = id
    BY <1>1, <1>5 DEF TdRecords
  <2>3. QED
    BY <1>4, <1>5, <2>1, <2>2, KeyidTaken
<1>22. \A v \in VcpusOf(t) : VcpuPlace(v)'
  <2>1. SUFFICES ASSUME NEW v \in VcpusOf(t) PROVE VcpuPlace(v)'
    OBVIOUS
  <2>2. /\ v \in TdVcpus /\ TdOf[v] = t /\ tdVcpu'[v] = tdVcpu[v]
        /\ VcpuStage(v) /\ tdVcpu[v] \in VcpuRecords
    BY <1>3, RecordsOf DEF VcpusOf
  <2>3. tdVcpu[v].pc \in {"none", "idle"}
    BY <2>1, <1>4
  <2>4. QED
    BY <1>1, <1>4, <1>5, <2>2, <2>3 DEF TdRecords, TdPcs, VcpuRecords, VcpuStage, VcpuPlace,
       TdStage, TdEnds, TdKeyed, Building, Created, Returning, Freeing, VpBuilding, VpCreated
<1>23. \A v \in VcpusOf(t) : VcpuKeyed(v)'
  <2>1. SUFFICES ASSUME NEW v \in VcpusOf(t) PROVE VcpuKeyed(v)'
    OBVIOUS
  <2>2. /\ v \in TdVcpus /\ TdOf[v] = t /\ tdVcpu'[v] = tdVcpu[v]
        /\ VcpuStage(v) /\ tdVcpu[v] \in VcpuRecords
    BY <1>3, RecordsOf DEF VcpusOf
  <2>3. tdVcpu[v].pc \in {"none", "idle"}
    BY <2>1, <1>4
  <2>4. QED
    BY <1>1, <1>4, <1>5, <2>2, <2>3 DEF TdRecords, ModRecords, NoTd, VcpuRecords, VcpuStage,
       VcpuPages, VcpuPlace, VcpuKeyed, TdStage, TdKeyed, Building, Created, Returning, Freeing
<1>24. QED
  BY <1>9, <1>10, <1>13, <1>14, <1>15, <1>16, <1>17, <1>18, <1>19, <1>20, <1>21, <1>22, <1>23,
     TdStepKeeps, TdGivesElse DEF TdStage

\* The page for the TDR is taken from the free ones, or there is none.
LEMMA AllocTdrKeeps == ASSUME LifeInv, NEW t \in Tds, AllocTdr(t) PROVE LifeInv'
<1> DEFINE fails ==
      /\ td'[t] = [td[t] EXCEPT !.pc = "free_all"]
      /\ mod'[t] = mod[t]
      /\ pamt' = pamt
      /\ free' = free
<1> DEFINE takes ==
      /\ td'[t] = [td[t] EXCEPT !.pc = "alloc_tdcs", !.new_tdr = Alloc]
      /\ mod'[t] = mod[t]
      /\ pamt' = pamt
      /\ free' = free \ {Alloc}
      /\ Alloc \in free
<1>1. /\ td[t] \in TdRecords /\ mod[t] \in ModRecords /\ TdStage(t)
      /\ NullPa \notin KernelPages /\ Keyids \subseteq Nat \ {0}
      /\ free \subseteq KernelPages /\ pamt \in [KernelPages -> PageKinds]
  BY RecordsOf
<1>2. /\ td' = [td EXCEPT ![t] = td'[t]] /\ mod' = [mod EXCEPT ![t] = mod'[t]]
      /\ tdVcpu' = tdVcpu
      /\ pool' = pool /\ nr_configured_hkid' = nr_configured_hkid
  BY <1>1, AllocIsFree DEF LifeInv, LifeRecords, AllocTdr, SetTd, GoTd, InTd
<1>3. td[t].pc = "alloc_tdr"
  BY <1>1 DEF AllocTdr, SetTd, GoTd, InTd, TdRecords
<1>4. fails \/ takes
  BY <1>1, <1>3, AllocIsFree DEF LifeInv, LifeRecords, TdRecords, TdStage, TdKeyed, TdGiven,
     IsGiven, AllocTdr, SetTd, GoTd, InTd
<1>5. td'[t] \in TdRecords
  BY <1>1, <1>3, <1>4, ZenonT(60) DEF TdRecords, TdPcs, Building, Created, Returning, Freeing,
     PageOr0
<1>6. mod'[t] \in ModRecords
  BY <1>1, <1>3, <1>4 DEF TdRecords, ModRecords, NoTd
<1>7. pamt' \in [KernelPages -> PageKinds] /\ free' \subseteq KernelPages
  BY <1>1, <1>3, <1>4 DEF PageKinds, TdRecords, PageOr0, TdStage, TdUnbuilt
<1>8. LifeRecords'
  BY <1>2, <1>5, <1>6, <1>7, TdRecordsKept DEF LifeInv, LifeRecords
<1>9. FreePagesAreHost'
  BY <1>1, <1>3, <1>4 DEF LifeInv, FreePagesAreHost, PagesApart, HeldByTd, PageOr0, TdStage,
     TdUnbuilt, IsHost, NonNull, Building, TdRecords
<1>10. \A p \in KernelPages : p \notin HeldByTd(t) => pamt'[p] = pamt[p]
  BY <1>1, <1>3, <1>4 DEF HeldByTd, NonNull, TdRecords, PageOr0
<1>11. mod[t].kept => mod'[t].kept
  BY <1>1, <1>3, <1>4 DEF ModRecords, NoTd
<1>12. OnlyTd(t)
  <2>1. \A u \in Tds : u # t => td'[u] = td[u] /\ mod'[u] = mod[u]
    BY <1>2 DEF LifeInv, LifeRecords
  <2>2. QED
    BY <1>2, <1>10, <1>11, <2>1 DEF OnlyTd
<1>13. TdHandsOver(t)
  <2>1. CASE fails
    BY <1>1, <1>3, <2>1, <1>2 DEF LifeInv, TdHandsOver, HeldByTd, NonNull, PagesApart,
       TdRecords, PageOr0, TdStage, TdUnbuilt, TdBuilt, TdGiven, TdEnds, IsGiven, IsHost,
       Building, Created, Returning, Freeing
  <2>2. CASE takes
    BY <1>1, <1>3, <2>2, <1>2 DEF LifeInv, TdHandsOver, HeldByTd, NonNull, PagesApart,
       TdRecords, PageOr0, TdStage, TdUnbuilt, TdBuilt, TdGiven, TdEnds, IsGiven, IsHost,
       Building, Created, Returning, Freeing
  <2>3. QED
    BY <1>4, <2>1, <2>2
<1>14. TdUnbuilt(t)'
  <2>1. CASE fails
    BY <1>1, <1>3, <2>1 DEF TdRecords, ModRecords, LifeInv, FreePagesAreHost, TdStage,
       TdUnbuilt, TdBuilt, TdKeyed, TdEnds, TdNothingElse, NoTd, Keyed, IsHost, NonNull,
       Building, Created, Returning, Freeing
  <2>2. CASE takes
    BY <1>1, <1>3, <2>2 DEF TdRecords, ModRecords, LifeInv, FreePagesAreHost, TdStage,
       TdUnbuilt, TdBuilt, TdKeyed, TdEnds, TdNothingElse, NoTd, Keyed, IsHost, NonNull,
       Building, Created, Returning, Freeing
  <2>3. QED
    BY <1>4, <2>1, <2>2
<1>15. TdBuilt(t)'
  BY <1>1, <1>3, <1>4, ZenonT(60) DEF TdRecords, TdStage, TdUnbuilt, TdBuilt, TdGiven, IsHost,
     IsGiven,
     NonNull, Building, Created, Returning, Freeing
<1>16. TdGiven(t)'
  BY <1>1, <1>3, <1>4, ZenonT(60) DEF TdRecords, ModRecords, LifeInv, PagesApart, HeldByTd,
     TdStage,
     TdUnbuilt, TdBuilt, TdGiven, IsHost, IsGiven, NonNull, Building, Created, Returning,
     Freeing
<1>17. TdKeyed(t)'
  BY <1>1, <1>3, <1>4 DEF TdRecords, ModRecords, TdStage, TdUnbuilt, TdKeyed, TdEnds, Keyed,
     NoTd, Building, Created, Returning, Freeing
<1>18. TdEnds(t)'
  BY <1>1, <1>3, <1>4, ZenonT(60) DEF TdRecords, ModRecords, TdStage, TdUnbuilt, TdKeyed, TdEnds,
     Building,
     Created, Returning, Freeing
<1>19. TdGivesPages(t)
  BY <1>1, <1>3, <1>4 DEF TdGivesPages, TdRecords, ModRecords, TdStage, TdUnbuilt, TdBuilt,
     TdGiven, TdKeyed, TdEnds, TdNothingElse, IsGiven, IsHost, NonNull, HeldByTd, NoTd, Keyed,
     Building, Created, Returning, Freeing
<1>20. KeyidsOwned'
  <2>1. td'[t].hkid = td[t].hkid
    BY <1>1, <1>4 DEF TdRecords, NoTd
  <2>2. \A u \in Tds : u # t => td'[u] = td[u]
    BY <1>2 DEF LifeInv, LifeRecords
  <2>3. QED
    BY <1>2, <2>1, <2>2, KeyidsFrame
<1>21. \A v \in VcpusOf(t) : VcpuPlace(v)'
  <2>1. SUFFICES ASSUME NEW v \in VcpusOf(t) PROVE VcpuPlace(v)'
    OBVIOUS
  <2>2. /\ v \in TdVcpus /\ TdOf[v] = t /\ tdVcpu'[v] = tdVcpu[v]
        /\ VcpuStage(v) /\ tdVcpu[v] \in VcpuRecords
    BY <1>2, RecordsOf DEF VcpusOf
  <2>3. QED
    BY <1>1, <1>3, <1>4, <2>2 DEF TdRecords, TdPcs, VcpuRecords, VcpuStage, VcpuPlace, TdStage,
       TdEnds, TdKeyed, Building, Created, Returning, Freeing, VpBuilding, VpCreated
<1>22. \A v \in VcpusOf(t) : VcpuKeyed(v)'
  <2>1. SUFFICES ASSUME NEW v \in VcpusOf(t) PROVE VcpuKeyed(v)'
    OBVIOUS
  <2>2. /\ v \in TdVcpus /\ TdOf[v] = t /\ tdVcpu'[v] = tdVcpu[v]
        /\ VcpuStage(v) /\ tdVcpu[v] \in VcpuRecords
    BY <1>2, RecordsOf DEF VcpusOf
  <2>3. QED
    BY <1>1, <1>3, <1>4, <2>2 DEF TdRecords, ModRecords, NoTd, VcpuRecords, VcpuStage,
       VcpuPages, VcpuPlace, VcpuKeyed, TdStage, TdKeyed, Building, Created, Returning, Freeing
<1>23. QED
  BY <1>8, <1>9, <1>12, <1>13, <1>14, <1>15, <1>16, <1>17, <1>18, <1>19, <1>20, <1>21, <1>22,
     TdStepKeeps, TdGivesElse DEF TdStage

\* A page for the TDCS is taken from the free ones, until all are there.
LEMMA AllocTdcsKeeps == ASSUME LifeInv, NEW t \in Tds, AllocTdcs(t) PROVE LifeInv'
<1> DEFINE fails ==
      /\ td'[t] = [td[t] EXCEPT !.pc = "free_all"]
      /\ mod'[t] = mod[t]
      /\ pamt' = pamt
      /\ free' = free
<1> DEFINE takes ==
      /\ td'[t] = [td[t] EXCEPT !.new_tdcs = td[t].new_tdcs \cup {Alloc}]
      /\ mod'[t] = mod[t]
      /\ pamt' = pamt
      /\ free' = free \ {Alloc}
      /\ Alloc \in free
<1> DEFINE over ==
      /\ td'[t] = [td[t] EXCEPT !.pc = "mng_create"]
      /\ mod'[t] = mod[t]
      /\ pamt' = pamt
      /\ free' = free
<1>1. /\ td[t] \in TdRecords /\ mod[t] \in ModRecords /\ TdStage(t)
      /\ NullPa \notin KernelPages /\ Keyids \subseteq Nat \ {0}
      /\ free \subseteq KernelPages /\ pamt \in [KernelPages -> PageKinds]
  BY RecordsOf
<1>2. /\ td' = [td EXCEPT ![t] = td'[t]] /\ mod' = [mod EXCEPT ![t] = mod'[t]]
      /\ tdVcpu' = tdVcpu
      /\ pool' = pool /\ nr_configured_hkid' = nr_configured_hkid
  BY <1>1, AllocIsFree DEF LifeInv, LifeRecords, AllocTdcs, SetTd, GoTd, InTd
<1>3. td[t].pc = "alloc_tdcs"
  BY <1>1 DEF AllocTdcs, SetTd, GoTd, InTd, TdRecords
<1>4. fails \/ takes \/ over
  BY <1>1, <1>3, AllocIsFree DEF LifeInv, LifeRecords, TdRecords, TdStage, TdKeyed, TdGiven,
     IsGiven, AllocTdcs, SetTd, GoTd, InTd
<1>5. td'[t] \in TdRecords
  BY <1>1, <1>3, <1>4 DEF TdRecords, TdPcs, Building, Created, Returning, Freeing, PageOr0
<1>6. mod'[t] \in ModRecords
  BY <1>1, <1>3, <1>4 DEF TdRecords, ModRecords, NoTd
<1>7. pamt' \in [KernelPages -> PageKinds] /\ free' \subseteq KernelPages
  BY <1>1, <1>3, <1>4 DEF PageKinds, TdRecords, PageOr0, TdStage, TdUnbuilt
<1>8. LifeRecords'
  BY <1>2, <1>5, <1>6, <1>7, TdRecordsKept DEF LifeInv, LifeRecords
<1>9. FreePagesAreHost'
  BY <1>1, <1>3, <1>4 DEF LifeInv, FreePagesAreHost, PagesApart, HeldByTd, PageOr0, TdStage,
     TdUnbuilt, IsHost, NonNull, Building, TdRecords
<1>10. \A p \in KernelPages : p \notin HeldByTd(t) => pamt'[p] = pamt[p]
  BY <1>1, <1>3, <1>4 DEF HeldByTd, NonNull, TdRecords, PageOr0
<1>11. mod[t].kept => mod'[t].kept
  BY <1>1, <1>3, <1>4 DEF ModRecords, NoTd
<1>12. OnlyTd(t)
  <2>1. \A u \in Tds : u # t => td'[u] = td[u] /\ mod'[u] = mod[u]
    BY <1>2 DEF LifeInv, LifeRecords
  <2>2. QED
    BY <1>2, <1>10, <1>11, <2>1 DEF OnlyTd
<1>13. TdHandsOver(t)
  BY <1>1, <1>3, <1>4, <1>2 DEF LifeInv, TdHandsOver, HeldByTd, NonNull, PagesApart, TdRecords,
     PageOr0, TdStage, TdUnbuilt, TdBuilt, TdGiven, TdEnds, IsGiven, IsHost, Building, Created,
     Returning, Freeing
<1>14. TdUnbuilt(t)'
  BY <1>1, <1>3, <1>4 DEF TdRecords, ModRecords, LifeInv, FreePagesAreHost, TdStage, TdUnbuilt,
     TdBuilt, TdKeyed, TdEnds, TdNothingElse, NoTd, Keyed, IsHost, NonNull, Building, Created,
     Returning, Freeing
<1>15. TdBuilt(t)'
  BY <1>1, <1>3, <1>4 DEF TdRecords, TdStage, TdUnbuilt, TdBuilt, TdGiven, IsHost, IsGiven,
     NonNull, Building, Created, Returning, Freeing
<1>16. TdGiven(t)'
  BY <1>1, <1>3, <1>4 DEF TdRecords, ModRecords, LifeInv, PagesApart, HeldByTd, TdStage,
     TdUnbuilt, TdBuilt, TdGiven, IsHost, IsGiven, NonNull, Building, Created, Returning,
     Freeing
<1>17. TdKeyed(t)'
  BY <1>1, <1>3, <1>4 DEF TdRecords, ModRecords, TdStage, TdUnbuilt, TdKeyed, TdEnds, Keyed,
     NoTd, Building, Created, Returning, Freeing
<1>18. TdEnds(t)'
  BY <1>1, <1>3, <1>4 DEF TdRecords, ModRecords, TdStage, TdUnbuilt, TdKeyed, TdEnds, Building,
     Created, Returning, Freeing
<1>19. TdGivesPages(t)
  BY <1>1, <1>3, <1>4 DEF TdGivesPages, TdRecords, ModRecords, TdStage, TdUnbuilt, TdBuilt,
     TdGiven, TdKeyed, TdEnds, TdNothingElse, IsGiven, IsHost, NonNull, HeldByTd, NoTd, Keyed,
     Building, Created, Returning, Freeing
<1>20. KeyidsOwned'
  <2>1. td'[t].hkid = td[t].hkid
    BY <1>1, <1>4 DEF TdRecords, NoTd
  <2>2. \A u \in Tds : u # t => td'[u] = td[u]
    BY <1>2 DEF LifeInv, LifeRecords
  <2>3. QED
    BY <1>2, <2>1, <2>2, KeyidsFrame
<1>21. \A v \in VcpusOf(t) : VcpuPlace(v)'
  <2>1. SUFFICES ASSUME NEW v \in VcpusOf(t) PROVE VcpuPlace(v)'
    OBVIOUS
  <2>2. /\ v \in TdVcpus /\ TdOf[v] = t /\ tdVcpu'[v] = tdVcpu[v]
        /\ VcpuStage(v) /\ tdVcpu[v] \in VcpuRecords
    BY <1>2, RecordsOf DEF VcpusOf
  <2>3. QED
    BY <1>1, <1>3, <1>4, <2>2 DEF TdRecords, TdPcs, VcpuRecords, VcpuStage, VcpuPlace, TdStage,
       TdEnds, TdKeyed, Building, Created, Returning, Freeing, VpBuilding, VpCreated
<1>22. \A v \in VcpusOf(t) : VcpuKeyed(v)'
  <2>1. SUFFICES ASSUME NEW v \in VcpusOf(t) PROVE VcpuKeyed(v)'
    OBVIOUS
  <2>2. /\ v \in TdVcpus /\ TdOf[v] = t /\ tdVcpu'[v] = tdVcpu[v]
        /\ VcpuStage(v) /\ tdVcpu[v] \in VcpuRecords
    BY <1>2, RecordsOf DEF VcpusOf
  <2>3. QED
    BY <1>1, <1>3, <1>4, <2>2 DEF TdRecords, ModRecords, NoTd, VcpuRecords, VcpuStage,
       VcpuPages, VcpuPlace, VcpuKeyed, TdStage, TdKeyed, Building, Created, Returning, Freeing
<1>23. QED
  BY <1>8, <1>9, <1>12, <1>13, <1>14, <1>15, <1>16, <1>17, <1>18, <1>19, <1>20, <1>21, <1>22,
     TdStepKeeps, TdGivesElse DEF TdStage

\* TDH.MNG.CREATE makes the page the TDR, or all that was taken is given back.
LEMMA MngCreateKeeps == ASSUME LifeInv, NEW t \in Tds, MngCreate(t) PROVE LifeInv'
<1> DEFINE done ==
      /\ td'[t] = [td[t] EXCEPT !.pc = "key_config", !.tdr = td[t].new_tdr]
      /\ mod'[t] = [NoTd EXCEPT !.key = "assigned", !.hkid = td[t].hkid,
                                !.pages = {td[t].new_tdr}, !.kept = mod[t].kept]
      /\ pamt' = [pamt EXCEPT ![td[t].new_tdr] = "TDR"]
      /\ free' = free
<1> DEFINE fails ==
      /\ td'[t] = [td[t] EXCEPT !.pc = "free_all"]
      /\ mod'[t] = mod[t]
      /\ pamt' = pamt
      /\ free' = free
<1>1. /\ td[t] \in TdRecords /\ mod[t] \in ModRecords /\ TdStage(t)
      /\ NullPa \notin KernelPages /\ Keyids \subseteq Nat \ {0}
      /\ free \subseteq KernelPages /\ pamt \in [KernelPages -> PageKinds]
  BY RecordsOf
<1>2. /\ td' = [td EXCEPT ![t] = td'[t]] /\ mod' = [mod EXCEPT ![t] = mod'[t]]
      /\ tdVcpu' = tdVcpu
      /\ pool' = pool /\ nr_configured_hkid' = nr_configured_hkid
  BY <1>1 DEF LifeInv, LifeRecords, MngCreate, SetTd, GoTd, InTd, Given
<1>3. td[t].pc = "mng_create"
  BY <1>1 DEF MngCreate, SetTd, GoTd, InTd, TdRecords
<1>4. done \/ fails
  BY <1>1, <1>3 DEF LifeInv, LifeRecords, TdRecords, TdStage, TdKeyed, TdGiven, IsGiven,
     MngCreate, SetTd, GoTd, InTd, Given
<1>5. /\ td[t].new_tdr \in KernelPages /\ td[t].new_tdr \notin free
      /\ td[t].new_tdr \notin td[t].new_tdcs /\ td[t].tdcs = {} /\ td[t].hkid # 0
  BY <1>1, <1>3 DEF TdRecords, PageOr0, LifeInv, PagesApart, HeldByTd, NonNull, TdStage,
     TdUnbuilt, TdGiven, Building, Created
<1>6. td'[t] \in TdRecords
  <2>1. CASE done
    BY <1>1, <1>3, <2>1, <1>5 DEF TdRecords, TdPcs, Building, Created, Returning, Freeing,
       PageOr0
  <2>2. CASE fails
    BY <1>1, <1>3, <2>2, <1>5 DEF TdRecords, TdPcs, Building, Created, Returning, Freeing,
       PageOr0
  <2>3. QED
    BY <1>4, <2>1, <2>2
<1>7. mod'[t] \in ModRecords
  <2>1. CASE done
    <3>1. mod[t].kept \in BOOLEAN /\ td[t].hkid \in Keyids \cup {0}
      BY <1>1 DEF TdRecords, ModRecords
    <3>2. mod'[t] = [key |-> "assigned", hkid |-> td[t].hkid, pages |-> {td[t].new_tdr},
                     finalized |-> FALSE, kept |-> mod[t].kept]
      BY <2>1 DEF NoTd
    <3>3. QED
      BY <1>5, <3>1, <3>2 DEF ModRecords
  <2>2. CASE fails
    BY <1>1, <1>3, <2>2, <1>5 DEF TdRecords, ModRecords, NoTd
  <2>3. QED
    BY <1>4, <2>1, <2>2
<1>8. pamt' \in [KernelPages -> PageKinds] /\ free' \subseteq KernelPages
  <2>1. CASE done
    BY <1>1, <1>3, <2>1, <1>5 DEF PageKinds, TdRecords, PageOr0, TdStage, TdUnbuilt
  <2>2. CASE fails
    BY <1>1, <1>3, <2>2, <1>5 DEF PageKinds, TdRecords, PageOr0, TdStage, TdUnbuilt
  <2>3. QED
    BY <1>4, <2>1, <2>2
<1>9. LifeRecords'
  BY <1>2, <1>6, <1>7, <1>8, TdRecordsKept DEF LifeInv, LifeRecords
<1>10. FreePagesAreHost'
  <2>1. CASE done
    BY <1>1, <1>3, <2>1, <1>5 DEF LifeInv, FreePagesAreHost, PagesApart, HeldByTd, PageOr0,
       TdStage, TdUnbuilt, IsHost, NonNull, Building, TdRecords
  <2>2. CASE fails
    BY <1>1, <1>3, <2>2, <1>5 DEF LifeInv, FreePagesAreHost, PagesApart, HeldByTd, PageOr0,
       TdStage, TdUnbuilt, IsHost, NonNull, Building, TdRecords
  <2>3. QED
    BY <1>4, <2>1, <2>2
<1>11. \A p \in KernelPages : p \notin HeldByTd(t) => pamt'[p] = pamt[p]
  <2>1. CASE done
    BY <1>1, <1>3, <2>1, <1>5 DEF HeldByTd, NonNull, TdRecords, PageOr0
  <2>2. CASE fails
    BY <1>1, <1>3, <2>2, <1>5 DEF HeldByTd, NonNull, TdRecords, PageOr0
  <2>3. QED
    BY <1>4, <2>1, <2>2
<1>12. mod[t].kept => mod'[t].kept
  <2>1. CASE done
    BY <1>1, <1>3, <2>1, <1>5 DEF ModRecords, NoTd
  <2>2. CASE fails
    BY <1>1, <1>3, <2>2, <1>5 DEF ModRecords, NoTd
  <2>3. QED
    BY <1>4, <2>1, <2>2
<1>13. OnlyTd(t)
  <2>1. \A u \in Tds : u # t => td'[u] = td[u] /\ mod'[u] = mod[u]
    BY <1>2 DEF LifeInv, LifeRecords
  <2>2. QED
    BY <1>2, <1>11, <1>12, <2>1 DEF OnlyTd
<1>14. TdHandsOver(t)
  <2>1. CASE done
    BY <1>1, <1>3, <2>1, <1>5, <1>2 DEF LifeInv, TdHandsOver, HeldByTd, NonNull, PagesApart,
       TdRecords, PageOr0, TdStage, TdUnbuilt, TdBuilt, TdGiven, TdEnds, IsGiven, IsHost,
       Building, Created, Returning, Freeing
  <2>2. CASE fails
    BY <1>1, <1>3, <2>2, <1>5, <1>2 DEF LifeInv, TdHandsOver, HeldByTd, NonNull, PagesApart,
       TdRecords, PageOr0, TdStage, TdUnbuilt, TdBuilt, TdGiven, TdEnds, IsGiven, IsHost,
       Building, Created, Returning, Freeing
  <2>3. QED
    BY <1>4, <2>1, <2>2
<1>15. TdUnbuilt(t)'
  <2>1. CASE done
    BY <1>1, <1>3, <2>1, <1>5 DEF TdRecords, ModRecords, LifeInv, FreePagesAreHost, TdStage,
       TdUnbuilt, TdBuilt, TdKeyed, TdEnds, TdNothingElse, NoTd, Keyed, IsHost, NonNull,
       Building, Created, Returning, Freeing
  <2>2. CASE fails
    BY <1>1, <1>3, <2>2, <1>5 DEF TdRecords, ModRecords, LifeInv, FreePagesAreHost, TdStage,
       TdUnbuilt, TdBuilt, TdKeyed, TdEnds, TdNothingElse, NoTd, Keyed, IsHost, NonNull,
       Building, Created, Returning, Freeing
  <2>3. QED
    BY <1>4, <2>1, <2>2
<1>16. TdBuilt(t)'
  <2>1. CASE done
    BY <1>1, <1>3, <2>1, <1>5 DEF TdRecords, TdStage, TdUnbuilt, TdBuilt, TdGiven, IsHost,
       IsGiven, NonNull, Building, Created, Returning, Freeing
  <2>2. CASE fails
    BY <1>1, <1>3, <2>2, <1>5 DEF TdRecords, TdStage, TdUnbuilt, TdBuilt, TdGiven, IsHost,
       IsGiven, NonNull, Building, Created, Returning, Freeing
  <2>3. QED
    BY <1>4, <2>1, <2>2
<1>17. TdGiven(t)'
  <2>1. CASE done
    BY <1>1, <1>3, <2>1, <1>5 DEF TdRecords, ModRecords, LifeInv, PagesApart, HeldByTd, TdStage,
       TdUnbuilt, TdBuilt, TdGiven, IsHost, IsGiven, NonNull, Building, Created, Returning,
       Freeing
  <2>2. CASE fails
    BY <1>1, <1>3, <2>2, <1>5 DEF TdRecords, ModRecords, LifeInv, PagesApart, HeldByTd, TdStage,
       TdUnbuilt, TdBuilt, TdGiven, IsHost, IsGiven, NonNull, Building, Created, Returning,
       Freeing
  <2>3. QED
    BY <1>4, <2>1, <2>2
<1>18. TdKeyed(t)'
  <2>1. CASE done
    BY <1>1, <1>3, <2>1, <1>5 DEF TdRecords, ModRecords, TdStage, TdUnbuilt, TdKeyed, TdEnds,
       Keyed, NoTd, Building, Created, Returning, Freeing
  <2>2. CASE fails
    BY <1>1, <1>3, <2>2, <1>5 DEF TdRecords, ModRecords, TdStage, TdUnbuilt, TdKeyed, TdEnds,
       Keyed, NoTd, Building, Created, Returning, Freeing
  <2>3. QED
    BY <1>4, <2>1, <2>2
<1>19. TdEnds(t)'
  <2>1. CASE done
    BY <1>1, <1>3, <2>1, <1>5 DEF TdRecords, ModRecords, TdStage, TdUnbuilt, TdKeyed, TdEnds,
       Building, Created, Returning, Freeing
  <2>2. CASE fails
    BY <1>1, <1>3, <2>2, <1>5 DEF TdRecords, ModRecords, TdStage, TdUnbuilt, TdKeyed, TdEnds,
       Building, Created, Returning, Freeing
  <2>3. QED
    BY <1>4, <2>1, <2>2
<1>20. TdGivesPages(t)
  <2>1. CASE done
    BY <1>1, <1>3, <2>1, <1>5 DEF TdGivesPages, TdRecords, ModRecords, TdStage, TdUnbuilt,
       TdBuilt, TdGiven, TdKeyed, TdEnds, TdNothingElse, IsGiven, IsHost, NonNull, HeldByTd,
       NoTd, Keyed, Building, Created, Returning, Freeing
  <2>2. CASE fails
    BY <1>1, <1>3, <2>2, <1>5 DEF TdGivesPages, TdRecords, ModRecords, TdStage, TdUnbuilt,
       TdBuilt, TdGiven, TdKeyed, TdEnds, TdNothingElse, IsGiven, IsHost, NonNull, HeldByTd,
       NoTd, Keyed, Building, Created, Returning, Freeing
  <2>3. QED
    BY <1>4, <2>1, <2>2
<1>21. KeyidsOwned'
  <2>1. td'[t].hkid = td[t].hkid
    BY <1>1, <1>4 DEF TdRecords, NoTd
  <2>2. \A u \in Tds : u # t => td'[u] = td[u]
    BY <1>2 DEF LifeInv, LifeRecords
  <2>3. QED
    BY <1>2, <2>1, <2>2, KeyidsFrame
<1>22. \A v \in VcpusOf(t) : VcpuPlace(v)'
  <2>1. SUFFICES ASSUME NEW v \in VcpusOf(t) PROVE VcpuPlace(v)'
    OBVIOUS
  <2>2. /\ v \in TdVcpus /\ TdOf[v] = t /\ tdVcpu'[v] = tdVcpu[v]
        /\ VcpuStage(v) /\ tdVcpu[v] \in VcpuRecords
    BY <1>2, RecordsOf DEF VcpusOf
  <2>3. CASE done
    BY <1>1, <1>3, <2>2, <2>3, <1>5 DEF TdRecords, TdPcs, VcpuRecords, VcpuStage, VcpuPlace,
       TdStage, TdEnds, TdKeyed, Building, Created, Returning, Freeing, VpBuilding, VpCreated
  <2>4. CASE fails
    BY <1>1, <1>3, <2>2, <2>4, <1>5 DEF TdRecords, TdPcs, VcpuRecords, VcpuStage, VcpuPlace,
       TdStage, TdEnds, TdKeyed, Building, Created, Returning, Freeing, VpBuilding, VpCreated
  <2>5. QED
    BY <1>4, <2>3, <2>4
<1>23. \A v \in VcpusOf(t) : VcpuKeyed(v)'
  <2>1. SUFFICES ASSUME NEW v \in VcpusOf(t) PROVE VcpuKeyed(v)'
    OBVIOUS
  <2>2. /\ v \in TdVcpus /\ TdOf[v] = t /\ tdVcpu'[v] = tdVcpu[v]
        /\ VcpuStage(v) /\ tdVcpu[v] \in VcpuRecords
    BY <1>2, RecordsOf DEF VcpusOf
  <2>3. CASE done
    BY <1>1, <1>3, <2>2, <2>3, <1>5 DEF TdRecords, ModRecords, NoTd, VcpuRecords, VcpuStage,
       VcpuPages, VcpuPlace, VcpuKeyed, TdStage, TdKeyed, Building, Created, Returning, Freeing
  <2>4. CASE fails
    BY <1>1, <1>3, <2>2, <2>4, <1>5 DEF TdRecords, ModRecords, NoTd, VcpuRecords, VcpuStage,
       VcpuPages, VcpuPlace, VcpuKeyed, TdStage, TdKeyed, Building, Created, Returning, Freeing
  <2>5. QED
    BY <1>4, <2>3, <2>4
<1>24. QED
  BY <1>9, <1>10, <1>13, <1>14, <1>15, <1>16, <1>17, <1>18, <1>19, <1>20, <1>21, <1>22, <1>23,
     TdStepKeeps, TdGivesElse DEF TdStage

\* From TDH.MNG.KEY.CONFIG on, the pages of the TDCS are those of kvm_tdx.
LEMMA KeyConfigKeeps == ASSUME LifeInv, NEW t \in Tds, KeyConfig(t) PROVE LifeInv'
<1> DEFINE done ==
      /\ td'[t] = [td[t] EXCEPT !.pc = "addcx", !.tdcs = td[t].new_tdcs]
      /\ mod'[t] = [mod[t] EXCEPT !.key = "configured"]
      /\ pamt' = pamt
      /\ free' = free
<1> DEFINE fails ==
      /\ td'[t] = [td[t] EXCEPT !.pc = "teardown"]
      /\ mod'[t] = mod[t]
      /\ pamt' = pamt
      /\ free' = free
<1>1. /\ td[t] \in TdRecords /\ mod[t] \in ModRecords /\ TdStage(t)
      /\ NullPa \notin KernelPages /\ Keyids \subseteq Nat \ {0}
      /\ free \subseteq KernelPages /\ pamt \in [KernelPages -> PageKinds]
  BY RecordsOf
<1>2. /\ td' = [td EXCEPT ![t] = td'[t]] /\ mod' = [mod EXCEPT ![t] = mod'[t]]
      /\ tdVcpu' = tdVcpu
      /\ pool' = pool /\ nr_configured_hkid' = nr_configured_hkid
  BY <1>1 DEF LifeInv, LifeRecords, KeyConfig, SetTd, GoTd, InTd
<1>3. td[t].pc = "key_config"
  BY <1>1 DEF KeyConfig, SetTd, GoTd, InTd, TdRecords
<1>4. done \/ fails
  BY <1>1, <1>3 DEF LifeInv, LifeRecords, TdRecords, TdStage, TdKeyed, TdGiven, IsGiven,
     KeyConfig, SetTd, GoTd, InTd
<1>5. td'[t] \in TdRecords
  BY <1>1, <1>3, <1>4, ZenonT(60) DEF TdRecords, TdPcs, Building, Created, Returning, Freeing,
     PageOr0
<1>6. mod'[t] \in ModRecords
  BY <1>1, <1>3, <1>4 DEF TdRecords, ModRecords, NoTd
<1>7. pamt' \in [KernelPages -> PageKinds] /\ free' \subseteq KernelPages
  BY <1>1, <1>3, <1>4 DEF PageKinds, TdRecords, PageOr0, TdStage, TdUnbuilt
<1>8. LifeRecords'
  BY <1>2, <1>5, <1>6, <1>7, TdRecordsKept DEF LifeInv, LifeRecords
<1>9. FreePagesAreHost'
  BY <1>1, <1>3, <1>4 DEF LifeInv, FreePagesAreHost, PagesApart, HeldByTd, PageOr0, TdStage,
     TdUnbuilt, IsHost, NonNull, Building, TdRecords
<1>10. \A p \in KernelPages : p \notin HeldByTd(t) => pamt'[p] = pamt[p]
  BY <1>1, <1>3, <1>4 DEF HeldByTd, NonNull, TdRecords, PageOr0
<1>11. mod[t].kept => mod'[t].kept
  BY <1>1, <1>3, <1>4 DEF ModRecords, NoTd
<1>12. OnlyTd(t)
  <2>1. \A u \in Tds : u # t => td'[u] = td[u] /\ mod'[u] = mod[u]
    BY <1>2 DEF LifeInv, LifeRecords
  <2>2. QED
    BY <1>2, <1>10, <1>11, <2>1 DEF OnlyTd
<1>13. TdHandsOver(t)
  <2>1. CASE done
    BY <1>1, <1>3, <2>1, <1>2 DEF LifeInv, TdHandsOver, HeldByTd, NonNull, PagesApart,
       TdRecords, PageOr0, TdStage, TdUnbuilt, TdBuilt, TdGiven, TdEnds, IsGiven, IsHost,
       Building, Created, Returning, Freeing
  <2>2. CASE fails
    BY <1>1, <1>3, <2>2, <1>2 DEF LifeInv, TdHandsOver, HeldByTd, NonNull, PagesApart,
       TdRecords, PageOr0, TdStage, TdUnbuilt, TdBuilt, TdGiven, TdEnds, IsGiven, IsHost,
       Building, Created, Returning, Freeing
  <2>3. QED
    BY <1>4, <2>1, <2>2
<1>14. TdUnbuilt(t)'
  BY <1>1, <1>3, <1>4, ZenonT(60) DEF TdRecords, ModRecords, LifeInv, FreePagesAreHost, TdStage,
     TdUnbuilt,
     TdBuilt, TdKeyed, TdEnds, TdNothingElse, NoTd, Keyed, IsHost, NonNull, Building, Created,
     Returning, Freeing
<1>15. TdBuilt(t)'
  <2>1. CASE done
    BY <1>1, <1>3, <2>1 DEF TdRecords, TdStage, TdUnbuilt, TdBuilt, TdGiven, IsHost, IsGiven,
       NonNull, Building, Created, Returning, Freeing
  <2>2. CASE fails
    BY <1>1, <1>3, <2>2 DEF TdRecords, TdStage, TdUnbuilt, TdBuilt, TdGiven, IsHost, IsGiven,
       NonNull, Building, Created, Returning, Freeing
  <2>3. QED
    BY <1>4, <2>1, <2>2
<1>16. TdGiven(t)'
  <2>1. CASE done
    BY <1>1, <1>3, <2>1 DEF TdRecords, ModRecords, LifeInv, PagesApart, HeldByTd, TdStage,
       TdUnbuilt, TdBuilt, TdGiven, IsHost, IsGiven, NonNull, Building, Created, Returning,
       Freeing
  <2>2. CASE fails
    BY <1>1, <1>3, <2>2 DEF TdRecords, ModRecords, LifeInv, PagesApart, HeldByTd, TdStage,
       TdUnbuilt, TdBuilt, TdGiven, IsHost, IsGiven, NonNull, Building, Created, Returning,
       Freeing
  <2>3. QED
    BY <1>4, <2>1, <2>2
<1>17. TdKeyed(t)'
  BY <1>1, <1>3, <1>4, ZenonT(60) DEF TdRecords, ModRecords, TdStage, TdUnbuilt, TdKeyed, TdEnds,
     Keyed,
     NoTd, Building, Created, Returning, Freeing
<1>18. TdEnds(t)'
  BY <1>1, <1>3, <1>4, ZenonT(60) DEF TdRecords, ModRecords, TdStage, TdUnbuilt, TdKeyed, TdEnds,
     Building,
     Created, Returning, Freeing
<1>19. TdGivesPages(t)
  <2>1. CASE done
    BY <1>1, <1>3, <2>1 DEF TdGivesPages, TdRecords, ModRecords, TdStage, TdUnbuilt, TdBuilt,
       TdGiven, TdKeyed, TdEnds, TdNothingElse, IsGiven, IsHost, NonNull, HeldByTd, NoTd, Keyed,
       Building, Created, Returning, Freeing
  <2>2. CASE fails
    BY <1>1, <1>3, <2>2 DEF TdGivesPages, TdRecords, ModRecords, TdStage, TdUnbuilt, TdBuilt,
       TdGiven, TdKeyed, TdEnds, TdNothingElse, IsGiven, IsHost, NonNull, HeldByTd, NoTd, Keyed,
       Building, Created, Returning, Freeing
  <2>3. QED
    BY <1>4, <2>1, <2>2
<1>20. KeyidsOwned'
  <2>1. td'[t].hkid = td[t].hkid
    BY <1>1, <1>4 DEF TdRecords, NoTd
  <2>2. \A u \in Tds : u # t => td'[u] = td[u]
    BY <1>2 DEF LifeInv, LifeRecords
  <2>3. QED
    BY <1>2, <2>1, <2>2, KeyidsFrame
<1>21. \A v \in VcpusOf(t) : VcpuPlace(v)'
  <2>1. SUFFICES ASSUME NEW v \in VcpusOf(t) PROVE VcpuPlace(v)'
    OBVIOUS
  <2>2. /\ v \in TdVcpus /\ TdOf[v] = t /\ tdVcpu'[v] = tdVcpu[v]
        /\ VcpuStage(v) /\ tdVcpu[v] \in VcpuRecords
    BY <1>2, RecordsOf DEF VcpusOf
  <2>3. QED
    BY <1>1, <1>3, <1>4, <2>2 DEF TdRecords, TdPcs, VcpuRecords, VcpuStage, VcpuPlace, TdStage,
       TdEnds, TdKeyed, Building, Created, Returning, Freeing, VpBuilding, VpCreated
<1>22. \A v \in VcpusOf(t) : VcpuKeyed(v)'
  <2>1. SUFFICES ASSUME NEW v \in VcpusOf(t) PROVE VcpuKeyed(v)'
    OBVIOUS
  <2>2. /\ v \in TdVcpus /\ TdOf[v] = t /\ tdVcpu'[v] = tdVcpu[v]
        /\ VcpuStage(v) /\ tdVcpu[v] \in VcpuRecords
    BY <1>2, RecordsOf DEF VcpusOf
  <2>3. QED
    BY <1>1, <1>3, <1>4, <2>2 DEF TdRecords, ModRecords, NoTd, VcpuRecords, VcpuStage,
       VcpuPages, VcpuPlace, VcpuKeyed, TdStage, TdKeyed, Building, Created, Returning, Freeing
<1>23. QED
  BY <1>8, <1>9, <1>12, <1>13, <1>14, <1>15, <1>16, <1>17, <1>18, <1>19, <1>20, <1>21, <1>22,
     TdStepKeeps, TdGivesElse DEF TdStage

\* TDH.MNG.ADDCX makes a page of the kernel one of the TDCS.
LEMMA AddCxKeeps == ASSUME LifeInv, NEW t \in Tds, AddCx(t) PROVE LifeInv'
<1> DEFINE unadded == {p \in td[t].tdcs : pamt[p] = "host"}
<1> DEFINE page == Least(unadded)
<1> DEFINE adds ==
      /\ td'[t] = td[t]
      /\ mod'[t] = [mod[t] EXCEPT !.pages = mod[t].pages \cup {page}]
      /\ pamt' = [pamt EXCEPT ![page] = "TDCX"]
      /\ free' = free
      /\ page \in td[t].tdcs
      /\ pamt[page] = "host"
<1> DEFINE fails ==
      /\ td'[t] = [td[t] EXCEPT !.pc = "teardown"]
      /\ mod'[t] = mod[t]
      /\ pamt' = pamt
      /\ free' = free
<1> DEFINE over ==
      /\ td'[t] = [td[t] EXCEPT !.pc = "mng_init"]
      /\ mod'[t] = mod[t]
      /\ pamt' = pamt
      /\ free' = free
      /\ IsGiven(td[t].tdcs)
<1>1. /\ td[t] \in TdRecords /\ mod[t] \in ModRecords /\ TdStage(t)
      /\ NullPa \notin KernelPages /\ Keyids \subseteq Nat \ {0}
      /\ free \subseteq KernelPages /\ pamt \in [KernelPages -> PageKinds]
  BY RecordsOf
<1>2. unadded # {} => page \in unadded
  BY <1>1, LeastIsIn, TdxLifeAssumption DEF TdRecords
<1> HIDE DEF page
<1>3. /\ td' = [td EXCEPT ![t] = td'[t]] /\ mod' = [mod EXCEPT ![t] = mod'[t]]
      /\ tdVcpu' = tdVcpu
      /\ pool' = pool /\ nr_configured_hkid' = nr_configured_hkid
  BY <1>1, <1>2 DEF LifeInv, LifeRecords, AddCx, SetTd, GoTd, InTd, Given
<1>4. td[t].pc = "addcx"
  BY <1>1, <1>2 DEF AddCx, SetTd, GoTd, InTd, TdRecords
<1>5. adds \/ fails \/ over
  BY <1>1, <1>2, <1>4 DEF LifeInv, LifeRecords, TdRecords, TdStage, TdKeyed, TdGiven, IsGiven,
     AddCx, SetTd, GoTd, InTd, Given, page
<1>6. /\ td[t].tdcs \subseteq HeldByTd(t) /\ td[t].tdcs \cap free = {}
  BY <1>1, <1>5 DEF LifeInv, PagesApart, HeldByTd
<1>7. td'[t] \in TdRecords
  BY <1>1, <1>4, <1>5, <1>6 DEF TdRecords, TdPcs, Building, Created, Returning, Freeing, PageOr0
<1>8. mod'[t] \in ModRecords
  BY <1>1, <1>4, <1>5, <1>6 DEF TdRecords, ModRecords, NoTd
<1>9. pamt' \in [KernelPages -> PageKinds] /\ free' \subseteq KernelPages
  BY <1>1, <1>4, <1>5, <1>6 DEF PageKinds, TdRecords, PageOr0, TdStage, TdUnbuilt
<1>10. LifeRecords'
  BY <1>3, <1>7, <1>8, <1>9, TdRecordsKept DEF LifeInv, LifeRecords
<1>11. FreePagesAreHost'
  <2>1. CASE adds
    BY <1>1, <1>4, <2>1, <1>6 DEF LifeInv, FreePagesAreHost, PagesApart, HeldByTd, PageOr0,
       TdStage, TdUnbuilt, IsHost, NonNull, Building, TdRecords
  <2>2. CASE fails
    BY <1>1, <1>4, <2>2, <1>6 DEF LifeInv, FreePagesAreHost, PagesApart, HeldByTd, PageOr0,
       TdStage, TdUnbuilt, IsHost, NonNull, Building, TdRecords
  <2>3. CASE over
    BY <1>1, <1>4, <2>3, <1>6 DEF LifeInv, FreePagesAreHost, PagesApart, HeldByTd, PageOr0,
       TdStage, TdUnbuilt, IsHost, NonNull, Building, TdRecords
  <2>4. QED
    BY <1>5, <2>1, <2>2, <2>3
<1>12. \A p \in KernelPages : p \notin HeldByTd(t) => pamt'[p] = pamt[p]
  <2>1. CASE adds
    BY <1>1, <1>4, <2>1, <1>6 DEF HeldByTd, NonNull, TdRecords, PageOr0
  <2>2. CASE fails
    BY <1>1, <1>4, <2>2, <1>6 DEF HeldByTd, NonNull, TdRecords, PageOr0
  <2>3. CASE over
    BY <1>1, <1>4, <2>3, <1>6 DEF HeldByTd, NonNull, TdRecords, PageOr0
  <2>4. QED
    BY <1>5, <2>1, <2>2, <2>3
<1>13. mod[t].kept => mod'[t].kept
  BY <1>1, <1>4, <1>5, <1>6 DEF ModRecords, NoTd
<1>14. OnlyTd(t)
  <2>1. \A u \in Tds : u # t => td'[u] = td[u] /\ mod'[u] = mod[u]
    BY <1>3 DEF LifeInv, LifeRecords
  <2>2. QED
    BY <1>3, <1>12, <1>13, <2>1 DEF OnlyTd
<1>15. TdHandsOver(t)
  <2>1. CASE adds
    BY <1>1, <1>4, <2>1, <1>6, <1>3 DEF LifeInv, TdHandsOver, HeldByTd, NonNull, PagesApart,
       TdRecords, PageOr0, TdStage, TdUnbuilt, TdBuilt, TdGiven, TdEnds, IsGiven, IsHost,
       Building, Created, Returning, Freeing
  <2>2. CASE fails
    BY <1>1, <1>4, <2>2, <1>6, <1>3 DEF LifeInv, TdHandsOver, HeldByTd, NonNull, PagesApart,
       TdRecords, PageOr0, TdStage, TdUnbuilt, TdBuilt, TdGiven, TdEnds, IsGiven, IsHost,
       Building, Created, Returning, Freeing
  <2>3. CASE over
    BY <1>1, <1>4, <2>3, <1>6, <1>3 DEF LifeInv, TdHandsOver, HeldByTd, NonNull, PagesApart,
       TdRecords, PageOr0, TdStage, TdUnbuilt, TdBuilt, TdGiven, TdEnds, IsGiven, IsHost,
       Building, Created, Returning, Freeing
  <2>4. QED
    BY <1>5, <2>1, <2>2, <2>3
<1>16. TdUnbuilt(t)'
  BY <1>1, <1>4, <1>5, <1>6 DEF TdRecords, ModRecords, LifeInv, FreePagesAreHost, TdStage,
     TdUnbuilt, TdBuilt, TdKeyed, TdEnds, TdNothingElse, NoTd, Keyed, IsHost, NonNull, Building,
     Created, Returning, Freeing
<1>17. TdBuilt(t)'
  BY <1>1, <1>4, <1>5, <1>6 DEF TdRecords, TdStage, TdUnbuilt, TdBuilt, TdGiven, IsHost,
     IsGiven, NonNull, Building, Created, Returning, Freeing
<1>18. TdGiven(t)'
  BY <1>1, <1>4, <1>5, <1>6 DEF TdRecords, ModRecords, LifeInv, PagesApart, HeldByTd, TdStage,
     TdUnbuilt, TdBuilt, TdGiven, IsHost, IsGiven, NonNull, Building, Created, Returning,
     Freeing
<1>19. TdKeyed(t)'
  BY <1>1, <1>4, <1>5, <1>6 DEF TdRecords, ModRecords, TdStage, TdUnbuilt, TdKeyed, TdEnds,
     Keyed, NoTd, Building, Created, Returning, Freeing
<1>20. TdEnds(t)'
  BY <1>1, <1>4, <1>5, <1>6 DEF TdRecords, ModRecords, TdStage, TdUnbuilt, TdKeyed, TdEnds,
     Building, Created, Returning, Freeing
<1>21. TdGivesPages(t)
  BY <1>1, <1>4, <1>5, <1>6 DEF TdGivesPages, TdRecords, ModRecords, TdStage, TdUnbuilt,
     TdBuilt, TdGiven, TdKeyed, TdEnds, TdNothingElse, IsGiven, IsHost, NonNull, HeldByTd, NoTd,
     Keyed, Building, Created, Returning, Freeing
<1>22. KeyidsOwned'
  <2>1. td'[t].hkid = td[t].hkid
    BY <1>1, <1>5 DEF TdRecords, NoTd
  <2>2. \A u \in Tds : u # t => td'[u] = td[u]
    BY <1>3 DEF LifeInv, LifeRecords
  <2>3. QED
    BY <1>3, <2>1, <2>2, KeyidsFrame
<1>23. \A v \in VcpusOf(t) : VcpuPlace(v)'
  <2>1. SUFFICES ASSUME NEW v \in VcpusOf(t) PROVE VcpuPlace(v)'
    OBVIOUS
  <2>2. /\ v \in TdVcpus /\ TdOf[v] = t /\ tdVcpu'[v] = tdVcpu[v]
        /\ VcpuStage(v) /\ tdVcpu[v] \in VcpuRecords
    BY <1>3, RecordsOf DEF VcpusOf
  <2>3. QED
    BY <1>1, <1>4, <1>5, <1>6, <2>2 DEF TdRecords, TdPcs, VcpuRecords, VcpuStage, VcpuPlace,
       TdStage, TdEnds, TdKeyed, Building, Created, Returning, Freeing, VpBuilding, VpCreated
<1>24. \A v \in VcpusOf(t) : VcpuKeyed(v)'
  <2>1. SUFFICES ASSUME NEW v \in VcpusOf(t) PROVE VcpuKeyed(v)'
    OBVIOUS
  <2>2. /\ v \in TdVcpus /\ TdOf[v] = t /\ tdVcpu'[v] = tdVcpu[v]
        /\ VcpuStage(v) /\ tdVcpu[v] \in VcpuRecords
    BY <1>3, RecordsOf DEF VcpusOf
  <2>3. QED
    BY <1>1, <1>4, <1>5, <1>6, <2>2 DEF TdRecords, ModRecords, NoTd, VcpuRecords, VcpuStage,
       VcpuPages, VcpuPlace, VcpuKeyed, TdStage, TdKeyed, Building, Created, Returning, Freeing
<1>25. QED
  BY <1>10, <1>11, <1>14, <1>15, <1>16, <1>17, <1>18, <1>19, <1>20, <1>21, <1>22, <1>23, <1>24,
     TdStepKeeps, TdGivesElse DEF TdStage

\* With TDH.MNG.INIT the locals of __tdx_td_init are forgotten, all is in kvm_tdx.
LEMMA MngInitKeeps == ASSUME LifeInv, NEW t \in Tds, MngInit(t) PROVE LifeInv'
<1> DEFINE done ==
      /\ td'[t] = [td[t] EXCEPT !.pc = "idle", !.new_tdr = NullPa, !.new_tdcs = {}]
      /\ mod'[t] = mod[t]
      /\ pamt' = pamt
      /\ free' = free
<1> DEFINE fails ==
      /\ td'[t] = [td[t] EXCEPT !.pc = "teardown"]
      /\ mod'[t] = mod[t]
      /\ pamt' = pamt
      /\ free' = free
<1>1. /\ td[t] \in TdRecords /\ mod[t] \in ModRecords /\ TdStage(t)
      /\ NullPa \notin KernelPages /\ Keyids \subseteq Nat \ {0}
      /\ free \subseteq KernelPages /\ pamt \in [KernelPages -> PageKinds]
  BY RecordsOf
<1>2. /\ td' = [td EXCEPT ![t] = td'[t]] /\ mod' = [mod EXCEPT ![t] = mod'[t]]
      /\ tdVcpu' = tdVcpu
      /\ pool' = pool /\ nr_configured_hkid' = nr_configured_hkid
  BY <1>1 DEF LifeInv, LifeRecords, MngInit, SetTd, GoTd, InTd
<1>3. td[t].pc = "mng_init"
  BY <1>1 DEF MngInit, SetTd, GoTd, InTd, TdRecords
<1>4. done \/ fails
  BY <1>1, <1>3 DEF LifeInv, LifeRecords, TdRecords, TdStage, TdKeyed, TdGiven, IsGiven,
     MngInit, SetTd, GoTd, InTd
<1>5. td'[t] \in TdRecords
  BY <1>1, <1>3, <1>4, ZenonT(60) DEF TdRecords, TdPcs, Building, Created, Returning, Freeing,
     PageOr0
<1>6. mod'[t] \in ModRecords
  BY <1>1, <1>3, <1>4 DEF TdRecords, ModRecords, NoTd
<1>7. pamt' \in [KernelPages -> PageKinds] /\ free' \subseteq KernelPages
  BY <1>1, <1>3, <1>4 DEF PageKinds, TdRecords, PageOr0, TdStage, TdUnbuilt
<1>8. LifeRecords'
  BY <1>2, <1>5, <1>6, <1>7, TdRecordsKept DEF LifeInv, LifeRecords
<1>9. FreePagesAreHost'
  BY <1>1, <1>3, <1>4 DEF LifeInv, FreePagesAreHost, PagesApart, HeldByTd, PageOr0, TdStage,
     TdUnbuilt, IsHost, NonNull, Building, TdRecords
<1>10. \A p \in KernelPages : p \notin HeldByTd(t) => pamt'[p] = pamt[p]
  BY <1>1, <1>3, <1>4 DEF HeldByTd, NonNull, TdRecords, PageOr0
<1>11. mod[t].kept => mod'[t].kept
  BY <1>1, <1>3, <1>4 DEF ModRecords, NoTd
<1>12. OnlyTd(t)
  <2>1. \A u \in Tds : u # t => td'[u] = td[u] /\ mod'[u] = mod[u]
    BY <1>2 DEF LifeInv, LifeRecords
  <2>2. QED
    BY <1>2, <1>10, <1>11, <2>1 DEF OnlyTd
<1>13. TdHandsOver(t)
  <2>1. CASE done
    BY <1>1, <1>3, <2>1, <1>2 DEF LifeInv, TdHandsOver, HeldByTd, NonNull, PagesApart,
       TdRecords, PageOr0, TdStage, TdUnbuilt, TdBuilt, TdGiven, TdEnds, IsGiven, IsHost,
       Building, Created, Returning, Freeing
  <2>2. CASE fails
    BY <1>1, <1>3, <2>2, <1>2 DEF LifeInv, TdHandsOver, HeldByTd, NonNull, PagesApart,
       TdRecords, PageOr0, TdStage, TdUnbuilt, TdBuilt, TdGiven, TdEnds, IsGiven, IsHost,
       Building, Created, Returning, Freeing
  <2>3. QED
    BY <1>4, <2>1, <2>2
<1>14. TdUnbuilt(t)'
  BY <1>1, <1>3, <1>4, ZenonT(60) DEF TdRecords, ModRecords, LifeInv, FreePagesAreHost, TdStage,
     TdUnbuilt,
     TdBuilt, TdKeyed, TdEnds, TdNothingElse, NoTd, Keyed, IsHost, NonNull, Building, Created,
     Returning, Freeing
<1>15. TdBuilt(t)'
  <2>1. CASE done
    BY <1>1, <1>3, <2>1 DEF TdRecords, TdStage, TdUnbuilt, TdBuilt, TdGiven, IsHost, IsGiven,
       NonNull, Building, Created, Returning, Freeing
  <2>2. CASE fails
    BY <1>1, <1>3, <2>2 DEF TdRecords, TdStage, TdUnbuilt, TdBuilt, TdGiven, IsHost, IsGiven,
       NonNull, Building, Created, Returning, Freeing
  <2>3. QED
    BY <1>4, <2>1, <2>2
<1>16. TdGiven(t)'
  <2>1. CASE done
    BY <1>1, <1>3, <2>1 DEF TdRecords, ModRecords, LifeInv, PagesApart, HeldByTd, TdStage,
       TdUnbuilt, TdBuilt, TdGiven, IsHost, IsGiven, NonNull, Building, Created, Returning,
       Freeing
  <2>2. CASE fails
    BY <1>1, <1>3, <2>2 DEF TdRecords, ModRecords, LifeInv, PagesApart, HeldByTd, TdStage,
       TdUnbuilt, TdBuilt, TdGiven, IsHost, IsGiven, NonNull, Building, Created, Returning,
       Freeing
  <2>3. QED
    BY <1>4, <2>1, <2>2
<1>17. TdKeyed(t)'
  BY <1>1, <1>3, <1>4, ZenonT(60) DEF TdRecords, ModRecords, TdStage, TdUnbuilt, TdKeyed, TdEnds,
     Keyed,
     NoTd, Building, Created, Returning, Freeing
<1>18. TdEnds(t)'
  BY <1>1, <1>3, <1>4 DEF TdRecords, ModRecords, TdStage, TdUnbuilt, TdKeyed, TdEnds, Building,
     Created, Returning, Freeing
<1>19. TdGivesPages(t)
  <2>1. CASE done
    BY <1>1, <1>3, <2>1 DEF TdGivesPages, TdRecords, ModRecords, TdStage, TdUnbuilt, TdBuilt,
       TdGiven, TdKeyed, TdEnds, TdNothingElse, IsGiven, IsHost, NonNull, HeldByTd, NoTd, Keyed,
       Building, Created, Returning, Freeing
  <2>2. CASE fails
    BY <1>1, <1>3, <2>2 DEF TdGivesPages, TdRecords, ModRecords, TdStage, TdUnbuilt, TdBuilt,
       TdGiven, TdKeyed, TdEnds, TdNothingElse, IsGiven, IsHost, NonNull, HeldByTd, NoTd, Keyed,
       Building, Created, Returning, Freeing
  <2>3. QED
    BY <1>4, <2>1, <2>2
<1>20. KeyidsOwned'
  <2>1. td'[t].hkid = td[t].hkid
    BY <1>1, <1>4 DEF TdRecords, NoTd
  <2>2. \A u \in Tds : u # t => td'[u] = td[u]
    BY <1>2 DEF LifeInv, LifeRecords
  <2>3. QED
    BY <1>2, <2>1, <2>2, KeyidsFrame
<1>21. \A v \in VcpusOf(t) : VcpuPlace(v)'
  <2>1. SUFFICES ASSUME NEW v \in VcpusOf(t) PROVE VcpuPlace(v)'
    OBVIOUS
  <2>2. /\ v \in TdVcpus /\ TdOf[v] = t /\ tdVcpu'[v] = tdVcpu[v]
        /\ VcpuStage(v) /\ tdVcpu[v] \in VcpuRecords
    BY <1>2, RecordsOf DEF VcpusOf
  <2>3. QED
    BY <1>1, <1>3, <1>4, <2>2 DEF TdRecords, TdPcs, VcpuRecords, VcpuStage, VcpuPlace, TdStage,
       TdEnds, TdKeyed, Building, Created, Returning, Freeing, VpBuilding, VpCreated
<1>22. \A v \in VcpusOf(t) : VcpuKeyed(v)'
  <2>1. SUFFICES ASSUME NEW v \in VcpusOf(t) PROVE VcpuKeyed(v)'
    OBVIOUS
  <2>2. /\ v \in TdVcpus /\ TdOf[v] = t /\ tdVcpu'[v] = tdVcpu[v]
        /\ VcpuStage(v) /\ tdVcpu[v] \in VcpuRecords
    BY <1>2, RecordsOf DEF VcpusOf
  <2>3. QED
    BY <1>1, <1>3, <1>4, <2>2 DEF TdRecords, ModRecords, NoTd, VcpuRecords, VcpuStage,
       VcpuPages, VcpuPlace, VcpuKeyed, TdStage, TdKeyed, Building, Created, Returning, Freeing
<1>23. QED
  BY <1>8, <1>9, <1>12, <1>13, <1>14, <1>15, <1>16, <1>17, <1>18, <1>19, <1>20, <1>21, <1>22,
     TdStepKeeps, TdGivesElse DEF TdStage

\* What the TDX module does not know of yet is given back with the key id.
LEMMA FreeAllKeeps == ASSUME LifeInv, NEW t \in Tds, FreeAll(t) PROVE LifeInv'
<1>1. /\ td[t] \in TdRecords /\ mod[t] \in ModRecords /\ TdStage(t)
      /\ NullPa \notin KernelPages /\ Keyids \subseteq Nat \ {0}
      /\ free \subseteq KernelPages /\ pamt \in [KernelPages -> PageKinds]
  BY RecordsOf
<1>2. /\ td' = [td EXCEPT ![t] = td'[t]] /\ mod' = [mod EXCEPT ![t] = mod'[t]]
      /\ tdVcpu' = tdVcpu
  BY <1>1 DEF LifeInv, LifeRecords, FreeAll, SetTd, InTd, FreeHkid, Allocated
<1>3. td[t].pc = "free_all"
  BY <1>1 DEF FreeAll, SetTd, InTd, TdRecords
<1>4. /\ td'[t] = [td[t] EXCEPT !.pc = "idle", !.hkid = 0, !.tdr = NullPa, !.tdcs = {},
                                !.new_tdr = NullPa, !.new_tdcs = {}]
      /\ mod'[t] = mod[t]
      /\ pamt' = pamt
      /\ free' = free \cup (({td[t].new_tdr} \cup td[t].new_tdcs) \ {NullPa})
      /\ pool' = pool \ {td[t].hkid} /\ nr_configured_hkid' = nr_configured_hkid - 1
  BY <1>1, <1>3 DEF LifeInv, LifeRecords, TdRecords, TdStage, TdKeyed, TdGiven, IsGiven,
     FreeAll, SetTd, InTd, FreeHkid, Allocated
<1>5. td'[t] \in TdRecords
  BY <1>1, <1>3, <1>4 DEF TdRecords, TdPcs, Building, Created, Returning, Freeing, PageOr0
<1>6. mod'[t] \in ModRecords
  BY <1>1, <1>3, <1>4 DEF TdRecords, ModRecords, NoTd
<1>7. pamt' \in [KernelPages -> PageKinds] /\ free' \subseteq KernelPages
  BY <1>1, <1>3, <1>4 DEF PageKinds, TdRecords, PageOr0, TdStage, TdUnbuilt
<1>8. LifeRecords'
  BY <1>1, <1>2, <1>5, <1>6, <1>7, <1>4, TdRecordsKept DEF LifeInv, LifeRecords
<1>9. FreePagesAreHost'
  BY <1>1, <1>3, <1>4 DEF LifeInv, FreePagesAreHost, PagesApart, HeldByTd, PageOr0, TdStage,
     TdUnbuilt, IsHost, NonNull, Building, TdRecords
<1>10. \A p \in KernelPages : p \notin HeldByTd(t) => pamt'[p] = pamt[p]
  BY <1>1, <1>3, <1>4 DEF HeldByTd, NonNull, TdRecords, PageOr0
<1>11. mod[t].kept => mod'[t].kept
  BY <1>1, <1>3, <1>4 DEF ModRecords, NoTd
<1>12. OnlyTd(t)
  <2>1. \A u \in Tds : u # t => td'[u] = td[u] /\ mod'[u] = mod[u]
    BY <1>2 DEF LifeInv, LifeRecords
  <2>2. QED
    BY <1>2, <1>10, <1>11, <2>1 DEF OnlyTd
<1>13. TdHandsOver(t)
  BY <1>1, <1>3, <1>4, <1>2 DEF LifeInv, TdHandsOver, HeldByTd, NonNull, PagesApart, TdRecords,
     PageOr0, TdStage, TdUnbuilt, TdBuilt, TdGiven, TdEnds, IsGiven, IsHost, Building, Created,
     Returning, Freeing
<1>14. TdUnbuilt(t)'
  BY <1>1, <1>3, <1>4 DEF TdRecords, ModRecords, LifeInv, FreePagesAreHost, TdStage, TdUnbuilt,
     TdBuilt, TdKeyed, TdEnds, TdNothingElse, NoTd, Keyed, IsHost, NonNull, Building, Created,
     Returning, Freeing
<1>15. TdBuilt(t)'
  BY <1>1, <1>3, <1>4 DEF TdRecords, TdStage, TdUnbuilt, TdBuilt, TdGiven, IsHost, IsGiven,
     NonNull, Building, Created, Returning, Freeing
<1>16. TdGiven(t)'
  BY <1>1, <1>3, <1>4 DEF TdRecords, ModRecords, LifeInv, PagesApart, HeldByTd, TdStage,
     TdUnbuilt, TdBuilt, TdGiven, IsHost, IsGiven, NonNull, Building, Created, Returning,
     Freeing
<1>17. TdKeyed(t)'
  BY <1>1, <1>3, <1>4 DEF TdRecords, ModRecords, TdStage, TdUnbuilt, TdKeyed, TdEnds, Keyed,
     NoTd, Building, Created, Returning, Freeing
<1>18. TdEnds(t)'
  BY <1>1, <1>3, <1>4 DEF TdRecords, ModRecords, TdStage, TdUnbuilt, TdKeyed, TdEnds, Building,
     Created, Returning, Freeing
<1>19. TdGivesPages(t)
  BY <1>1, <1>3, <1>4 DEF TdGivesPages, TdRecords, ModRecords, TdStage, TdUnbuilt, TdBuilt,
     TdGiven, TdKeyed, TdEnds, TdNothingElse, IsGiven, IsHost, NonNull, HeldByTd, NoTd, Keyed,
     Building, Created, Returning, Freeing
<1>20. KeyidsOwned'
  <2>1. \A u \in Tds : u # t => td'[u].hkid = td[u].hkid
    BY <1>2 DEF LifeInv, LifeRecords
  <2>2. td'[t].hkid = 0 /\ td[t].hkid # 0
    BY <1>1, <1>3, <1>4 DEF TdRecords, TdStage, TdUnbuilt, Building
  <2>3. QED
    BY <1>4, <2>1, <2>2, KeyidGivenBack
<1>21. \A v \in VcpusOf(t) : VcpuPlace(v)'
  <2>1. SUFFICES ASSUME NEW v \in VcpusOf(t) PROVE VcpuPlace(v)'
    OBVIOUS
  <2>2. /\ v \in TdVcpus /\ TdOf[v] = t /\ tdVcpu'[v] = tdVcpu[v]
        /\ VcpuStage(v) /\ tdVcpu[v] \in VcpuRecords
    BY <1>2, RecordsOf DEF VcpusOf
  <2>3. QED
    BY <1>1, <1>3, <1>4, <2>2 DEF TdRecords, TdPcs, VcpuRecords, VcpuStage, VcpuPlace, TdStage,
       TdEnds, TdKeyed, Building, Created, Returning, Freeing, VpBuilding, VpCreated
<1>22. \A v \in VcpusOf(t) : VcpuKeyed(v)'
  <2>1. SUFFICES ASSUME NEW v \in VcpusOf(t) PROVE VcpuKeyed(v)'
    OBVIOUS
  <2>2. /\ v \in TdVcpus /\ TdOf[v] = t /\ tdVcpu'[v] = tdVcpu[v]
        /\ VcpuStage(v) /\ tdVcpu[v] \in VcpuRecords
    BY <1>2, RecordsOf DEF VcpusOf
  <2>3. QED
    BY <1>1, <1>3, <1>4, <2>2 DEF TdRecords, ModRecords, NoTd, VcpuRecords, VcpuStage,
       VcpuPages, VcpuPlace, VcpuKeyed, TdStage, TdKeyed, Building, Created, Returning, Freeing
<1>23. QED
  BY <1>8, <1>9, <1>12, <1>13, <1>14, <1>15, <1>16, <1>17, <1>18, <1>19, <1>20, <1>21, <1>22,
     TdStepKeeps, TdGivesElse DEF TdStage

\* The pages not added yet are given back, those added stay in kvm_tdx.
LEMMA TeardownKeeps == ASSUME LifeInv, NEW t \in Tds, Teardown(t) PROVE LifeInv'
<1> DEFINE unadded == {p \in td[t].new_tdcs : pamt[p] = "host"}
<1>1. /\ td[t] \in TdRecords /\ mod[t] \in ModRecords /\ TdStage(t)
      /\ NullPa \notin KernelPages /\ Keyids \subseteq Nat \ {0}
      /\ free \subseteq KernelPages /\ pamt \in [KernelPages -> PageKinds]
  BY RecordsOf
<1>2. /\ td' = [td EXCEPT ![t] = td'[t]] /\ mod' = [mod EXCEPT ![t] = mod'[t]]
      /\ tdVcpu' = tdVcpu
      /\ pool' = pool /\ nr_configured_hkid' = nr_configured_hkid
  BY <1>1 DEF LifeInv, LifeRecords, Teardown, SetTd, InTd, NotAdded
<1>3. td[t].pc = "teardown"
  BY <1>1 DEF Teardown, SetTd, InTd, TdRecords
<1>4. /\ td'[t] = [td[t] EXCEPT !.pc = "release", !.tdcs = td[t].tdcs \ unadded,
                                !.new_tdr = NullPa, !.new_tdcs = {}]
      /\ mod'[t] = mod[t]
      /\ pamt' = pamt
      /\ free' = free \cup unadded
  BY <1>1, <1>3 DEF LifeInv, LifeRecords, TdRecords, TdStage, TdKeyed, TdGiven, IsGiven,
     Teardown, SetTd, InTd, NotAdded
<1>5. td'[t] \in TdRecords
  BY <1>1, <1>3, <1>4, ZenonT(60) DEF TdRecords, TdPcs, Building, Created, Returning, Freeing,
     PageOr0
<1>6. mod'[t] \in ModRecords
  BY <1>1, <1>3, <1>4 DEF TdRecords, ModRecords, NoTd
<1>7. pamt' \in [KernelPages -> PageKinds] /\ free' \subseteq KernelPages
  BY <1>1, <1>3, <1>4 DEF PageKinds, TdRecords, PageOr0, TdStage, TdUnbuilt
<1>8. LifeRecords'
  BY <1>2, <1>5, <1>6, <1>7, TdRecordsKept DEF LifeInv, LifeRecords
<1>9. FreePagesAreHost'
  BY <1>1, <1>3, <1>4 DEF LifeInv, FreePagesAreHost, PagesApart, HeldByTd, PageOr0, TdStage,
     TdUnbuilt, IsHost, NonNull, Building, TdRecords
<1>10. \A p \in KernelPages : p \notin HeldByTd(t) => pamt'[p] = pamt[p]
  BY <1>1, <1>3, <1>4 DEF HeldByTd, NonNull, TdRecords, PageOr0
<1>11. mod[t].kept => mod'[t].kept
  BY <1>1, <1>3, <1>4 DEF ModRecords, NoTd
<1>12. OnlyTd(t)
  <2>1. \A u \in Tds : u # t => td'[u] = td[u] /\ mod'[u] = mod[u]
    BY <1>2 DEF LifeInv, LifeRecords
  <2>2. QED
    BY <1>2, <1>10, <1>11, <2>1 DEF OnlyTd
<1>13. TdHandsOver(t)
  BY <1>1, <1>3, <1>4, <1>2 DEF LifeInv, TdHandsOver, HeldByTd, NonNull, PagesApart, TdRecords,
     PageOr0, TdStage, TdUnbuilt, TdBuilt, TdGiven, TdEnds, IsGiven, IsHost, Building, Created,
     Returning, Freeing
<1>14. TdUnbuilt(t)'
  BY <1>1, <1>3, <1>4 DEF TdRecords, ModRecords, LifeInv, FreePagesAreHost, TdStage, TdUnbuilt,
     TdBuilt, TdKeyed, TdEnds, TdNothingElse, NoTd, Keyed, IsHost, NonNull, Building, Created,
     Returning, Freeing
<1>15. TdBuilt(t)'
  BY <1>1, <1>3, <1>4 DEF TdRecords, TdStage, TdUnbuilt, TdBuilt, TdGiven, IsHost, IsGiven,
     NonNull, Building, Created, Returning, Freeing
<1>16. TdGiven(t)'
  BY <1>1, <1>3, <1>4 DEF TdRecords, ModRecords, LifeInv, PagesApart, HeldByTd, TdStage,
     TdUnbuilt, TdBuilt, TdGiven, IsHost, IsGiven, NonNull, Building, Created, Returning,
     Freeing
<1>17. TdKeyed(t)'
  BY <1>1, <1>3, <1>4 DEF TdRecords, ModRecords, TdStage, TdUnbuilt, TdKeyed, TdEnds, Keyed,
     NoTd, Building, Created, Returning, Freeing
<1>18. TdEnds(t)'
  BY <1>1, <1>3, <1>4 DEF TdRecords, ModRecords, TdStage, TdUnbuilt, TdKeyed, TdEnds, Building,
     Created, Returning, Freeing
<1>19. TdGivesPages(t)
  BY <1>1, <1>3, <1>4 DEF TdGivesPages, TdRecords, ModRecords, TdStage, TdUnbuilt, TdBuilt,
     TdGiven, TdKeyed, TdEnds, TdNothingElse, IsGiven, IsHost, NonNull, HeldByTd, NoTd, Keyed,
     Building, Created, Returning, Freeing
<1>20. KeyidsOwned'
  <2>1. td'[t].hkid = td[t].hkid
    BY <1>1, <1>4 DEF TdRecords, NoTd
  <2>2. \A u \in Tds : u # t => td'[u] = td[u]
    BY <1>2 DEF LifeInv, LifeRecords
  <2>3. QED
    BY <1>2, <2>1, <2>2, KeyidsFrame
<1>21. \A v \in VcpusOf(t) : VcpuPlace(v)'
  <2>1. SUFFICES ASSUME NEW v \in VcpusOf(t) PROVE VcpuPlace(v)'
    OBVIOUS
  <2>2. /\ v \in TdVcpus /\ TdOf[v] = t /\ tdVcpu'[v] = tdVcpu[v]
        /\ VcpuStage(v) /\ tdVcpu[v] \in VcpuRecords
    BY <1>2, RecordsOf DEF VcpusOf
  <2>3. QED
    BY <1>1, <1>3, <1>4, <2>2 DEF TdRecords, TdPcs, VcpuRecords, VcpuStage, VcpuPlace, TdStage,
       TdEnds, TdKeyed, Building, Created, Returning, Freeing, VpBuilding, VpCreated
<1>22. \A v \in VcpusOf(t) : VcpuKeyed(v)'
  <2>1. SUFFICES ASSUME NEW v \in VcpusOf(t) PROVE VcpuKeyed(v)'
    OBVIOUS
  <2>2. /\ v \in TdVcpus /\ TdOf[v] = t /\ tdVcpu'[v] = tdVcpu[v]
        /\ VcpuStage(v) /\ tdVcpu[v] \in VcpuRecords
    BY <1>2, RecordsOf DEF VcpusOf
  <2>3. QED
    BY <1>1, <1>3, <1>4, <2>2 DEF TdRecords, ModRecords, NoTd, VcpuRecords, VcpuStage,
       VcpuPages, VcpuPlace, VcpuKeyed, TdStage, TdKeyed, Building, Created, Returning, Freeing
<1>23. QED
  BY <1>8, <1>9, <1>12, <1>13, <1>14, <1>15, <1>16, <1>17, <1>18, <1>19, <1>20, <1>21, <1>22,
     TdStepKeeps, TdGivesElse DEF TdStage

\* TDH.MR.FINALIZE touches neither pages nor the key id.
LEMMA FinalizeKeeps == ASSUME LifeInv, NEW t \in Tds, Finalize(t) PROVE LifeInv'
<1>1. /\ td[t] \in TdRecords /\ mod[t] \in ModRecords /\ TdStage(t)
      /\ NullPa \notin KernelPages /\ Keyids \subseteq Nat \ {0}
      /\ free \subseteq KernelPages /\ pamt \in [KernelPages -> PageKinds]
  BY RecordsOf
<1>2. /\ td' = [td EXCEPT ![t] = td'[t]] /\ mod' = [mod EXCEPT ![t] = mod'[t]]
      /\ tdVcpu' = tdVcpu
      /\ pool' = pool /\ nr_configured_hkid' = nr_configured_hkid
  BY <1>1 DEF LifeInv, LifeRecords, Finalize, SetTd, GoTd, InTd, HkidAssigned
<1>3. /\ td[t].pc = "idle"
      /\ td[t].hkid # 0
  BY <1>1 DEF Finalize, SetTd, GoTd, InTd, HkidAssigned, TdRecords
<1>4. /\ td'[t] = [td[t] EXCEPT !.pc = "finalized"]
      /\ mod'[t] = [mod[t] EXCEPT !.finalized = TRUE]
      /\ pamt' = pamt
      /\ free' = free
  BY <1>1, <1>3 DEF LifeInv, LifeRecords, TdRecords, TdStage, TdKeyed, TdGiven, IsGiven,
     Finalize, SetTd, GoTd, InTd, HkidAssigned
<1>5. td'[t] \in TdRecords
  BY <1>1, <1>3, <1>4 DEF TdRecords, TdPcs, Building, Created, Returning, Freeing, PageOr0
<1>6. mod'[t] \in ModRecords
  BY <1>1, <1>3, <1>4 DEF TdRecords, ModRecords, NoTd
<1>7. pamt' \in [KernelPages -> PageKinds] /\ free' \subseteq KernelPages
  BY <1>1, <1>3, <1>4 DEF PageKinds, TdRecords, PageOr0, TdStage, TdUnbuilt
<1>8. LifeRecords'
  BY <1>2, <1>5, <1>6, <1>7, TdRecordsKept DEF LifeInv, LifeRecords
<1>9. FreePagesAreHost'
  BY <1>1, <1>3, <1>4 DEF LifeInv, FreePagesAreHost, PagesApart, HeldByTd, PageOr0, TdStage,
     TdUnbuilt, IsHost, NonNull, Building, TdRecords
<1>10. \A p \in KernelPages : p \notin HeldByTd(t) => pamt'[p] = pamt[p]
  BY <1>1, <1>3, <1>4 DEF HeldByTd, NonNull, TdRecords, PageOr0
<1>11. mod[t].kept => mod'[t].kept
  BY <1>1, <1>3, <1>4 DEF ModRecords, NoTd
<1>12. OnlyTd(t)
  <2>1. \A u \in Tds : u # t => td'[u] = td[u] /\ mod'[u] = mod[u]
    BY <1>2 DEF LifeInv, LifeRecords
  <2>2. QED
    BY <1>2, <1>10, <1>11, <2>1 DEF OnlyTd
<1>13. TdHandsOver(t)
  BY <1>1, <1>3, <1>4, <1>2 DEF LifeInv, TdHandsOver, HeldByTd, NonNull, PagesApart, TdRecords,
     PageOr0, TdStage, TdUnbuilt, TdBuilt, TdGiven, TdEnds, IsGiven, IsHost, Building, Created,
     Returning, Freeing
<1>14. TdUnbuilt(t)'
  BY <1>1, <1>3, <1>4 DEF TdRecords, ModRecords, LifeInv, FreePagesAreHost, TdStage, TdUnbuilt,
     TdBuilt, TdKeyed, TdEnds, TdNothingElse, NoTd, Keyed, IsHost, NonNull, Building, Created,
     Returning, Freeing
<1>15. TdBuilt(t)'
  BY <1>1, <1>3, <1>4 DEF TdRecords, TdStage, TdUnbuilt, TdBuilt, TdGiven, IsHost, IsGiven,
     NonNull, Building, Created, Returning, Freeing
<1>16. TdGiven(t)'
  BY <1>1, <1>3, <1>4 DEF TdRecords, ModRecords, LifeInv, PagesApart, HeldByTd, TdStage,
     TdUnbuilt, TdBuilt, TdGiven, IsHost, IsGiven, NonNull, Building, Created, Returning,
     Freeing
<1>17. TdKeyed(t)'
  BY <1>1, <1>3, <1>4 DEF TdRecords, ModRecords, TdStage, TdUnbuilt, TdKeyed, TdEnds, Keyed,
     NoTd, Building, Created, Returning, Freeing
<1>18. TdEnds(t)'
  BY <1>1, <1>3, <1>4 DEF TdRecords, ModRecords, TdStage, TdUnbuilt, TdKeyed, TdEnds, Building,
     Created, Returning, Freeing
<1>19. TdGivesPages(t)
  BY <1>1, <1>3, <1>4 DEF TdGivesPages, TdRecords, ModRecords, TdStage, TdUnbuilt, TdBuilt,
     TdGiven, TdKeyed, TdEnds, TdNothingElse, IsGiven, IsHost, NonNull, HeldByTd, NoTd, Keyed,
     Building, Created, Returning, Freeing
<1>20. KeyidsOwned'
  <2>1. td'[t].hkid = td[t].hkid
    BY <1>1, <1>4 DEF TdRecords, NoTd
  <2>2. \A u \in Tds : u # t => td'[u] = td[u]
    BY <1>2 DEF LifeInv, LifeRecords
  <2>3. QED
    BY <1>2, <2>1, <2>2, KeyidsFrame
<1>21. \A v \in VcpusOf(t) : VcpuPlace(v)'
  <2>1. SUFFICES ASSUME NEW v \in VcpusOf(t) PROVE VcpuPlace(v)'
    OBVIOUS
  <2>2. /\ v \in TdVcpus /\ TdOf[v] = t /\ tdVcpu'[v] = tdVcpu[v]
        /\ VcpuStage(v) /\ tdVcpu[v] \in VcpuRecords
    BY <1>2, RecordsOf DEF VcpusOf
  <2>3. QED
    BY <1>1, <1>3, <1>4, <2>2 DEF TdRecords, TdPcs, VcpuRecords, VcpuStage, VcpuPlace, TdStage,
       TdEnds, TdKeyed, Building, Created, Returning, Freeing, VpBuilding, VpCreated
<1>22. \A v \in VcpusOf(t) : VcpuKeyed(v)'
  <2>1. SUFFICES ASSUME NEW v \in VcpusOf(t) PROVE VcpuKeyed(v)'
    OBVIOUS
  <2>2. /\ v \in TdVcpus /\ TdOf[v] = t /\ tdVcpu'[v] = tdVcpu[v]
        /\ VcpuStage(v) /\ tdVcpu[v] \in VcpuRecords
    BY <1>2, RecordsOf DEF VcpusOf
  <2>3. QED
    BY <1>1, <1>3, <1>4, <2>2 DEF TdRecords, ModRecords, NoTd, VcpuRecords, VcpuStage,
       VcpuPages, VcpuPlace, VcpuKeyed, TdStage, TdKeyed, Building, Created, Returning, Freeing
<1>23. QED
  BY <1>8, <1>9, <1>12, <1>13, <1>14, <1>15, <1>16, <1>17, <1>18, <1>19, <1>20, <1>21, <1>22,
     TdStepKeeps, TdGivesElse DEF TdStage

\* The flag of kvm_tdx is set after TDH.MR.FINALIZE.
LEMMA FinalizedKeeps == ASSUME LifeInv, NEW t \in Tds, Finalized(t) PROVE LifeInv'
<1>1. /\ td[t] \in TdRecords /\ mod[t] \in ModRecords /\ TdStage(t)
      /\ NullPa \notin KernelPages /\ Keyids \subseteq Nat \ {0}
      /\ free \subseteq KernelPages /\ pamt \in [KernelPages -> PageKinds]
  BY RecordsOf
<1>2. /\ td' = [td EXCEPT ![t] = td'[t]] /\ mod' = [mod EXCEPT ![t] = mod'[t]]
      /\ tdVcpu' = tdVcpu
      /\ pool' = pool /\ nr_configured_hkid' = nr_configured_hkid
  BY <1>1 DEF LifeInv, LifeRecords, Finalized, SetTd, InTd
<1>3. td[t].pc = "finalized"
  BY <1>1 DEF Finalized, SetTd, InTd, TdRecords
<1>4. /\ td'[t] = [td[t] EXCEPT !.pc = "idle", !.finalized = TRUE]
      /\ mod'[t] = mod[t]
      /\ pamt' = pamt
      /\ free' = free
  BY <1>1, <1>3 DEF LifeInv, LifeRecords, TdRecords, TdStage, TdKeyed, TdGiven, IsGiven,
     Finalized, SetTd, InTd
<1>5. td'[t] \in TdRecords
  BY <1>1, <1>3, <1>4 DEF TdRecords, TdPcs, Building, Created, Returning, Freeing, PageOr0
<1>6. mod'[t] \in ModRecords
  BY <1>1, <1>3, <1>4 DEF TdRecords, ModRecords, NoTd
<1>7. pamt' \in [KernelPages -> PageKinds] /\ free' \subseteq KernelPages
  BY <1>1, <1>3, <1>4 DEF PageKinds, TdRecords, PageOr0, TdStage, TdUnbuilt
<1>8. LifeRecords'
  BY <1>2, <1>5, <1>6, <1>7, TdRecordsKept DEF LifeInv, LifeRecords
<1>9. FreePagesAreHost'
  BY <1>1, <1>3, <1>4 DEF LifeInv, FreePagesAreHost, PagesApart, HeldByTd, PageOr0, TdStage,
     TdUnbuilt, IsHost, NonNull, Building, TdRecords
<1>10. \A p \in KernelPages : p \notin HeldByTd(t) => pamt'[p] = pamt[p]
  BY <1>1, <1>3, <1>4 DEF HeldByTd, NonNull, TdRecords, PageOr0
<1>11. mod[t].kept => mod'[t].kept
  BY <1>1, <1>3, <1>4 DEF ModRecords, NoTd
<1>12. OnlyTd(t)
  <2>1. \A u \in Tds : u # t => td'[u] = td[u] /\ mod'[u] = mod[u]
    BY <1>2 DEF LifeInv, LifeRecords
  <2>2. QED
    BY <1>2, <1>10, <1>11, <2>1 DEF OnlyTd
<1>13. TdHandsOver(t)
  BY <1>1, <1>3, <1>4, <1>2 DEF LifeInv, TdHandsOver, HeldByTd, NonNull, PagesApart, TdRecords,
     PageOr0, TdStage, TdUnbuilt, TdBuilt, TdGiven, TdEnds, IsGiven, IsHost, Building, Created,
     Returning, Freeing
<1>14. TdUnbuilt(t)'
  BY <1>1, <1>3, <1>4 DEF TdRecords, ModRecords, LifeInv, FreePagesAreHost, TdStage, TdUnbuilt,
     TdBuilt, TdKeyed, TdEnds, TdNothingElse, NoTd, Keyed, IsHost, NonNull, Building, Created,
     Returning, Freeing
<1>15. TdBuilt(t)'
  BY <1>1, <1>3, <1>4 DEF TdRecords, TdStage, TdUnbuilt, TdBuilt, TdGiven, IsHost, IsGiven,
     NonNull, Building, Created, Returning, Freeing
<1>16. TdGiven(t)'
  BY <1>1, <1>3, <1>4 DEF TdRecords, ModRecords, LifeInv, PagesApart, HeldByTd, TdStage,
     TdUnbuilt, TdBuilt, TdGiven, IsHost, IsGiven, NonNull, Building, Created, Returning,
     Freeing
<1>17. TdKeyed(t)'
  BY <1>1, <1>3, <1>4 DEF TdRecords, ModRecords, TdStage, TdUnbuilt, TdKeyed, TdEnds, Keyed,
     NoTd, Building, Created, Returning, Freeing
<1>18. TdEnds(t)'
  BY <1>1, <1>3, <1>4 DEF TdRecords, ModRecords, TdStage, TdUnbuilt, TdKeyed, TdEnds, Building,
     Created, Returning, Freeing
<1>19. TdGivesPages(t)
  BY <1>1, <1>3, <1>4 DEF TdGivesPages, TdRecords, ModRecords, TdStage, TdUnbuilt, TdBuilt,
     TdGiven, TdKeyed, TdEnds, TdNothingElse, IsGiven, IsHost, NonNull, HeldByTd, NoTd, Keyed,
     Building, Created, Returning, Freeing
<1>20. KeyidsOwned'
  <2>1. td'[t].hkid = td[t].hkid
    BY <1>1, <1>4 DEF TdRecords, NoTd
  <2>2. \A u \in Tds : u # t => td'[u] = td[u]
    BY <1>2 DEF LifeInv, LifeRecords
  <2>3. QED
    BY <1>2, <2>1, <2>2, KeyidsFrame
<1>21. \A v \in VcpusOf(t) : VcpuPlace(v)'
  <2>1. SUFFICES ASSUME NEW v \in VcpusOf(t) PROVE VcpuPlace(v)'
    OBVIOUS
  <2>2. /\ v \in TdVcpus /\ TdOf[v] = t /\ tdVcpu'[v] = tdVcpu[v]
        /\ VcpuStage(v) /\ tdVcpu[v] \in VcpuRecords
    BY <1>2, RecordsOf DEF VcpusOf
  <2>3. QED
    BY <1>1, <1>3, <1>4, <2>2, ZenonT(60) DEF TdRecords, TdPcs, VcpuRecords, VcpuStage,
       VcpuPlace, TdStage,
       TdEnds, TdKeyed, Building, Created, Returning, Freeing, VpBuilding, VpCreated
<1>22. \A v \in VcpusOf(t) : VcpuKeyed(v)'
  <2>1. SUFFICES ASSUME NEW v \in VcpusOf(t) PROVE VcpuKeyed(v)'
    OBVIOUS
  <2>2. /\ v \in TdVcpus /\ TdOf[v] = t /\ tdVcpu'[v] = tdVcpu[v]
        /\ VcpuStage(v) /\ tdVcpu[v] \in VcpuRecords
    BY <1>2, RecordsOf DEF VcpusOf
  <2>3. QED
    BY <1>1, <1>3, <1>4, <2>2 DEF TdRecords, ModRecords, NoTd, VcpuRecords, VcpuStage,
       VcpuPages, VcpuPlace, VcpuKeyed, TdStage, TdKeyed, Building, Created, Returning, Freeing
<1>23. QED
  BY <1>8, <1>9, <1>12, <1>13, <1>14, <1>15, <1>16, <1>17, <1>18, <1>19, <1>20, <1>21, <1>22,
     TdStepKeeps, TdGivesElse DEF TdStage

\* The end of the process finds no VCPU in an ioctl.
LEMMA EndVmKeeps == ASSUME LifeInv, NEW t \in Tds, EndVm(t) PROVE LifeInv'
<1>1. /\ td[t] \in TdRecords /\ mod[t] \in ModRecords /\ TdStage(t)
      /\ NullPa \notin KernelPages /\ Keyids \subseteq Nat \ {0}
      /\ free \subseteq KernelPages /\ pamt \in [KernelPages -> PageKinds]
  BY RecordsOf
<1>2. /\ td' = [td EXCEPT ![t] = td'[t]] /\ mod' = [mod EXCEPT ![t] = mod'[t]]
      /\ tdVcpu' = tdVcpu
      /\ pool' = pool /\ nr_configured_hkid' = nr_configured_hkid
  BY <1>1 DEF LifeInv, LifeRecords, EndVm, SetTd, InTd
<1>3. /\ td[t].pc = "idle"
      /\ \A v \in VcpusOf(t) : tdVcpu[v].pc \in {"none", "idle"}
  BY <1>1 DEF EndVm, SetTd, InTd, TdRecords
<1>4. /\ td'[t] = [td[t] EXCEPT !.pc = "release", !.ending = TRUE]
      /\ mod'[t] = mod[t]
      /\ pamt' = pamt
      /\ free' = free
  BY <1>1, <1>3 DEF LifeInv, LifeRecords, TdRecords, TdStage, TdKeyed, TdGiven, IsGiven, EndVm,
     SetTd, InTd
<1>5. td'[t] \in TdRecords
  BY <1>1, <1>3, <1>4 DEF TdRecords, TdPcs, Building, Created, Returning, Freeing, PageOr0
<1>6. mod'[t] \in ModRecords
  BY <1>1, <1>3, <1>4 DEF TdRecords, ModRecords, NoTd
<1>7. pamt' \in [KernelPages -> PageKinds] /\ free' \subseteq KernelPages
  BY <1>1, <1>3, <1>4 DEF PageKinds, TdRecords, PageOr0, TdStage, TdUnbuilt
<1>8. LifeRecords'
  BY <1>2, <1>5, <1>6, <1>7, TdRecordsKept DEF LifeInv, LifeRecords
<1>9. FreePagesAreHost'
  BY <1>1, <1>3, <1>4 DEF LifeInv, FreePagesAreHost, PagesApart, HeldByTd, PageOr0, TdStage,
     TdUnbuilt, IsHost, NonNull, Building, TdRecords
<1>10. \A p \in KernelPages : p \notin HeldByTd(t) => pamt'[p] = pamt[p]
  BY <1>1, <1>3, <1>4 DEF HeldByTd, NonNull, TdRecords, PageOr0
<1>11. mod[t].kept => mod'[t].kept
  BY <1>1, <1>3, <1>4 DEF ModRecords, NoTd
<1>12. OnlyTd(t)
  <2>1. \A u \in Tds : u # t => td'[u] = td[u] /\ mod'[u] = mod[u]
    BY <1>2 DEF LifeInv, LifeRecords
  <2>2. QED
    BY <1>2, <1>10, <1>11, <2>1 DEF OnlyTd
<1>13. TdHandsOver(t)
  BY <1>1, <1>3, <1>4, <1>2 DEF LifeInv, TdHandsOver, HeldByTd, NonNull, PagesApart, TdRecords,
     PageOr0, TdStage, TdUnbuilt, TdBuilt, TdGiven, TdEnds, IsGiven, IsHost, Building, Created,
     Returning, Freeing
<1>14. TdUnbuilt(t)'
  BY <1>1, <1>3, <1>4 DEF TdRecords, ModRecords, LifeInv, FreePagesAreHost, TdStage, TdUnbuilt,
     TdBuilt, TdKeyed, TdEnds, TdNothingElse, NoTd, Keyed, IsHost, NonNull, Building, Created,
     Returning, Freeing
<1>15. TdBuilt(t)'
  BY <1>1, <1>3, <1>4 DEF TdRecords, TdStage, TdUnbuilt, TdBuilt, TdGiven, IsHost, IsGiven,
     NonNull, Building, Created, Returning, Freeing
<1>16. TdGiven(t)'
  BY <1>1, <1>3, <1>4 DEF TdRecords, ModRecords, LifeInv, PagesApart, HeldByTd, TdStage,
     TdUnbuilt, TdBuilt, TdGiven, IsHost, IsGiven, NonNull, Building, Created, Returning,
     Freeing
<1>17. TdKeyed(t)'
  BY <1>1, <1>3, <1>4 DEF TdRecords, ModRecords, TdStage, TdUnbuilt, TdKeyed, TdEnds, Keyed,
     NoTd, Building, Created, Returning, Freeing
<1>18. TdEnds(t)'
  BY <1>1, <1>3, <1>4 DEF TdRecords, ModRecords, TdStage, TdUnbuilt, TdKeyed, TdEnds, Building,
     Created, Returning, Freeing
<1>19. TdGivesPages(t)
  BY <1>1, <1>3, <1>4 DEF TdGivesPages, TdRecords, ModRecords, TdStage, TdUnbuilt, TdBuilt,
     TdGiven, TdKeyed, TdEnds, TdNothingElse, IsGiven, IsHost, NonNull, HeldByTd, NoTd, Keyed,
     Building, Created, Returning, Freeing
<1>20. KeyidsOwned'
  <2>1. td'[t].hkid = td[t].hkid
    BY <1>1, <1>4 DEF TdRecords, NoTd
  <2>2. \A u \in Tds : u # t => td'[u] = td[u]
    BY <1>2 DEF LifeInv, LifeRecords
  <2>3. QED
    BY <1>2, <2>1, <2>2, KeyidsFrame
<1>21. \A v \in VcpusOf(t) : VcpuPlace(v)'
  <2>1. SUFFICES ASSUME NEW v \in VcpusOf(t) PROVE VcpuPlace(v)'
    OBVIOUS
  <2>2. /\ v \in TdVcpus /\ TdOf[v] = t /\ tdVcpu'[v] = tdVcpu[v]
        /\ VcpuStage(v) /\ tdVcpu[v] \in VcpuRecords
    BY <1>2, RecordsOf DEF VcpusOf
  <2>3. tdVcpu[v].pc \in {"none", "idle"}
    BY <2>1, <1>3
  <2>4. QED
    BY <1>1, <1>3, <1>4, <2>2, <2>3, ZenonT(60) DEF TdRecords, TdPcs, VcpuRecords, VcpuStage,
       VcpuPlace,
       TdStage, TdEnds, TdKeyed, Building, Created, Returning, Freeing, VpBuilding, VpCreated
<1>22. \A v \in VcpusOf(t) : VcpuKeyed(v)'
  <2>1. SUFFICES ASSUME NEW v \in VcpusOf(t) PROVE VcpuKeyed(v)'
    OBVIOUS
  <2>2. /\ v \in TdVcpus /\ TdOf[v] = t /\ tdVcpu'[v] = tdVcpu[v]
        /\ VcpuStage(v) /\ tdVcpu[v] \in VcpuRecords
    BY <1>2, RecordsOf DEF VcpusOf
  <2>3. tdVcpu[v].pc \in {"none", "idle"}
    BY <2>1, <1>3
  <2>4. QED
    BY <1>1, <1>3, <1>4, <2>2, <2>3 DEF TdRecords, ModRecords, NoTd, VcpuRecords, VcpuStage,
       VcpuPages, VcpuPlace, VcpuKeyed, TdStage, TdKeyed, Building, Created, Returning, Freeing
<1>23. QED
  BY <1>8, <1>9, <1>12, <1>13, <1>14, <1>15, <1>16, <1>17, <1>18, <1>19, <1>20, <1>21, <1>22,
     TdStepKeeps, TdGivesElse DEF TdStage

\* TDH.MNG.VPFLUSHDONE, without a key id nothing, or the TDX module keeps something.
LEMMA MngVpFlushDoneKeeps == ASSUME LifeInv, NEW t \in Tds, MngVpFlushDone(t) PROVE LifeInv'
<1> DEFINE done ==
      /\ td'[t] = [td[t] EXCEPT !.pc = "key_free"]
      /\ mod'[t] = [mod[t] EXCEPT !.key = "flushed"]
      /\ pamt' = pamt
      /\ free' = free
      /\ td[t].hkid # 0
<1> DEFINE kept ==
      /\ td'[t] = [td[t] EXCEPT !.pc = IF td[t].ending THEN "free_vcpus" ELSE "vm_free"]
      /\ mod'[t] = [mod[t] EXCEPT !.kept = TRUE]
      /\ pamt' = pamt
      /\ free' = free
      /\ td[t].hkid # 0
<1> DEFINE without ==
      /\ td'[t] = [td[t] EXCEPT !.pc = IF td[t].ending THEN "free_vcpus" ELSE "vm_free"]
      /\ mod'[t] = mod[t]
      /\ pamt' = pamt
      /\ free' = free
      /\ td[t].hkid = 0
<1>1. /\ td[t] \in TdRecords /\ mod[t] \in ModRecords /\ TdStage(t)
      /\ NullPa \notin KernelPages /\ Keyids \subseteq Nat \ {0}
      /\ free \subseteq KernelPages /\ pamt \in [KernelPages -> PageKinds]
  BY RecordsOf
<1>2. /\ td' = [td EXCEPT ![t] = td'[t]] /\ mod' = [mod EXCEPT ![t] = mod'[t]]
      /\ tdVcpu' = tdVcpu
      /\ pool' = pool /\ nr_configured_hkid' = nr_configured_hkid
  BY <1>1 DEF LifeInv, LifeRecords, MngVpFlushDone, SetTd, GoTd, InTd, HkidAssigned,
     AfterRelease, Keeps
<1>3. td[t].pc = "release"
  BY <1>1 DEF MngVpFlushDone, SetTd, GoTd, InTd, HkidAssigned, TdRecords
<1>4. done \/ kept \/ without
  <2>1. mod \in [Tds -> ModRecords] /\ td \in [Tds -> TdRecords]
    BY DEF LifeInv, LifeRecords
  <2>2. td[t].hkid = 0 \/ td[t].hkid > 0
    BY HkidOrNone
  <2>3. CASE HkidAssigned(t) /\ GoTd(t, "key_free") /\ mod' = [mod EXCEPT ![t].key = "flushed"]
    BY <2>1, <2>3 DEF MngVpFlushDone, GoTd, SetTd, HkidAssigned
  <2>4. CASE HkidAssigned(t) /\ GoTd(t, AfterRelease(t)) /\ Keeps(t)
    BY <2>1, <2>4 DEF MngVpFlushDone, GoTd, SetTd, HkidAssigned, Keeps, AfterRelease
  <2>5. CASE ~HkidAssigned(t) /\ GoTd(t, AfterRelease(t)) /\ UNCHANGED mod
    BY <2>1, <2>2, <2>5 DEF MngVpFlushDone, GoTd, SetTd, HkidAssigned, AfterRelease
  <2>6. QED
    BY <2>3, <2>4, <2>5 DEF MngVpFlushDone
<1>5. td'[t] \in TdRecords
  BY <1>1, <1>3, <1>4 DEF TdRecords, TdPcs, Building, Created, Returning, Freeing, PageOr0
<1>6. mod'[t] \in ModRecords
  BY <1>1, <1>3, <1>4 DEF TdRecords, ModRecords, NoTd
<1>7. pamt' \in [KernelPages -> PageKinds] /\ free' \subseteq KernelPages
  BY <1>1, <1>3, <1>4 DEF PageKinds, TdRecords, PageOr0, TdStage, TdUnbuilt
<1>8. LifeRecords'
  BY <1>2, <1>5, <1>6, <1>7, TdRecordsKept DEF LifeInv, LifeRecords
<1>9. FreePagesAreHost'
  BY <1>1, <1>3, <1>4 DEF LifeInv, FreePagesAreHost, PagesApart, HeldByTd, PageOr0, TdStage,
     TdUnbuilt, IsHost, NonNull, Building, TdRecords
<1>10. \A p \in KernelPages : p \notin HeldByTd(t) => pamt'[p] = pamt[p]
  BY <1>1, <1>3, <1>4 DEF HeldByTd, NonNull, TdRecords, PageOr0
<1>11. mod[t].kept => mod'[t].kept
  BY <1>1, <1>3, <1>4 DEF ModRecords, NoTd
<1>12. OnlyTd(t)
  <2>1. \A u \in Tds : u # t => td'[u] = td[u] /\ mod'[u] = mod[u]
    BY <1>2 DEF LifeInv, LifeRecords
  <2>2. QED
    BY <1>2, <1>10, <1>11, <2>1 DEF OnlyTd
<1>13. TdHandsOver(t)
  BY <1>1, <1>3, <1>4, <1>2 DEF LifeInv, TdHandsOver, HeldByTd, NonNull, PagesApart, TdRecords,
     PageOr0, TdStage, TdUnbuilt, TdBuilt, TdGiven, TdEnds, IsGiven, IsHost, Building, Created,
     Returning, Freeing
<1>14. TdUnbuilt(t)'
  BY <1>1, <1>3, <1>4 DEF TdRecords, ModRecords, LifeInv, FreePagesAreHost, TdStage, TdUnbuilt,
     TdBuilt, TdKeyed, TdEnds, TdNothingElse, NoTd, Keyed, IsHost, NonNull, Building, Created,
     Returning, Freeing
<1>15. TdBuilt(t)'
  BY <1>1, <1>3, <1>4 DEF TdRecords, TdStage, TdUnbuilt, TdBuilt, TdGiven, IsHost, IsGiven,
     NonNull, Building, Created, Returning, Freeing
<1>16. TdGiven(t)'
  BY <1>1, <1>3, <1>4 DEF TdRecords, ModRecords, LifeInv, PagesApart, HeldByTd, TdStage,
     TdUnbuilt, TdBuilt, TdGiven, IsHost, IsGiven, NonNull, Building, Created, Returning,
     Freeing
<1>17. TdKeyed(t)'
  BY <1>1, <1>3, <1>4 DEF TdRecords, ModRecords, TdStage, TdUnbuilt, TdKeyed, TdEnds, Keyed,
     NoTd, Building, Created, Returning, Freeing
<1>18. TdEnds(t)'
  BY <1>1, <1>3, <1>4 DEF TdRecords, ModRecords, TdStage, TdUnbuilt, TdKeyed, TdEnds, Building,
     Created, Returning, Freeing
<1>19. TdGivesPages(t)
  BY <1>1, <1>3, <1>4 DEF TdGivesPages, TdRecords, ModRecords, TdStage, TdUnbuilt, TdBuilt,
     TdGiven, TdKeyed, TdEnds, TdNothingElse, IsGiven, IsHost, NonNull, HeldByTd, NoTd, Keyed,
     Building, Created, Returning, Freeing
<1>20. KeyidsOwned'
  <2>1. td'[t].hkid = td[t].hkid
    BY <1>1, <1>4 DEF TdRecords, NoTd
  <2>2. \A u \in Tds : u # t => td'[u] = td[u]
    BY <1>2 DEF LifeInv, LifeRecords
  <2>3. QED
    BY <1>2, <2>1, <2>2, KeyidsFrame
<1>21. \A v \in VcpusOf(t) : VcpuPlace(v)'
  <2>1. SUFFICES ASSUME NEW v \in VcpusOf(t) PROVE VcpuPlace(v)'
    OBVIOUS
  <2>2. /\ v \in TdVcpus /\ TdOf[v] = t /\ tdVcpu'[v] = tdVcpu[v]
        /\ VcpuStage(v) /\ tdVcpu[v] \in VcpuRecords
    BY <1>2, RecordsOf DEF VcpusOf
  <2>3. QED
    BY <1>1, <1>3, <1>4, <2>2 DEF TdRecords, TdPcs, VcpuRecords, VcpuStage, VcpuPlace, TdStage,
       TdEnds, TdKeyed, Building, Created, Returning, Freeing, VpBuilding, VpCreated
<1>22. \A v \in VcpusOf(t) : VcpuKeyed(v)'
  <2>1. SUFFICES ASSUME NEW v \in VcpusOf(t) PROVE VcpuKeyed(v)'
    OBVIOUS
  <2>2. /\ v \in TdVcpus /\ TdOf[v] = t /\ tdVcpu'[v] = tdVcpu[v]
        /\ VcpuStage(v) /\ tdVcpu[v] \in VcpuRecords
    BY <1>2, RecordsOf DEF VcpusOf
  <2>3. QED
    BY <1>1, <1>3, <1>4, <2>2 DEF TdRecords, ModRecords, NoTd, VcpuRecords, VcpuStage,
       VcpuPages, VcpuPlace, VcpuKeyed, TdStage, TdKeyed, Building, Created, Returning, Freeing
<1>23. QED
  BY <1>8, <1>9, <1>12, <1>13, <1>14, <1>15, <1>16, <1>17, <1>18, <1>19, <1>20, <1>21, <1>22,
     TdStepKeeps, TdGivesElse DEF TdStage

\* The key id returns to the pool with TDH.MNG.KEY.FREEID, and not without it.
LEMMA KeyFreeKeeps == ASSUME LifeInv, NEW t \in Tds, KeyFree(t) PROVE LifeInv'
<1> DEFINE done ==
      /\ td'[t] = [td[t] EXCEPT !.pc = IF td[t].ending THEN "free_vcpus" ELSE "vm_free",
                                !.hkid = 0]
      /\ mod'[t] = [mod[t] EXCEPT !.key = "freed"]
      /\ pamt' = pamt
      /\ free' = free
      /\ pool' = pool \ {td[t].hkid}
      /\ nr_configured_hkid' = nr_configured_hkid - 1
<1> DEFINE kept ==
      /\ td'[t] = [td[t] EXCEPT !.pc = IF td[t].ending THEN "free_vcpus" ELSE "vm_free"]
      /\ mod'[t] = [mod[t] EXCEPT !.kept = TRUE]
      /\ pamt' = pamt
      /\ free' = free
      /\ pool' = pool
      /\ nr_configured_hkid' = nr_configured_hkid
<1>1. /\ td[t] \in TdRecords /\ mod[t] \in ModRecords /\ TdStage(t)
      /\ NullPa \notin KernelPages /\ Keyids \subseteq Nat \ {0}
      /\ free \subseteq KernelPages /\ pamt \in [KernelPages -> PageKinds]
  BY RecordsOf
<1>2. /\ td' = [td EXCEPT ![t] = td'[t]] /\ mod' = [mod EXCEPT ![t] = mod'[t]]
      /\ tdVcpu' = tdVcpu
  BY <1>1 DEF LifeInv, LifeRecords, KeyFree, SetTd, GoTd, InTd, AfterRelease, Keeps, FreeHkid
<1>3. td[t].pc = "key_free"
  BY <1>1 DEF KeyFree, SetTd, GoTd, InTd, TdRecords
<1>4. done \/ kept
  BY <1>1, <1>3 DEF LifeInv, LifeRecords, TdRecords, TdStage, TdKeyed, TdGiven, IsGiven,
     KeyFree, SetTd, GoTd, InTd, AfterRelease, Keeps, FreeHkid
<1>5. td'[t] \in TdRecords
  <2>1. CASE done
    BY <1>1, <1>3, <2>1 DEF TdRecords, TdPcs, Building, Created, Returning, Freeing, PageOr0
  <2>2. CASE kept
    BY <1>1, <1>3, <2>2 DEF TdRecords, TdPcs, Building, Created, Returning, Freeing, PageOr0
  <2>3. QED
    BY <1>4, <2>1, <2>2
<1>6. mod'[t] \in ModRecords
  <2>1. CASE done
    BY <1>1, <1>3, <2>1 DEF TdRecords, ModRecords, NoTd
  <2>2. CASE kept
    BY <1>1, <1>3, <2>2 DEF TdRecords, ModRecords, NoTd
  <2>3. QED
    BY <1>4, <2>1, <2>2
<1>7. pamt' \in [KernelPages -> PageKinds] /\ free' \subseteq KernelPages
  <2>1. CASE done
    BY <1>1, <1>3, <2>1 DEF PageKinds, TdRecords, PageOr0, TdStage, TdUnbuilt
  <2>2. CASE kept
    BY <1>1, <1>3, <2>2 DEF PageKinds, TdRecords, PageOr0, TdStage, TdUnbuilt
  <2>3. QED
    BY <1>4, <2>1, <2>2
<1>8. LifeRecords'
  BY <1>1, <1>2, <1>5, <1>6, <1>7, <1>4, TdRecordsKept DEF LifeInv, LifeRecords
<1>9. FreePagesAreHost'
  <2>1. CASE done
    BY <1>1, <1>3, <2>1 DEF LifeInv, FreePagesAreHost, PagesApart, HeldByTd, PageOr0, TdStage,
       TdUnbuilt, IsHost, NonNull, Building, TdRecords
  <2>2. CASE kept
    BY <1>1, <1>3, <2>2 DEF LifeInv, FreePagesAreHost, PagesApart, HeldByTd, PageOr0, TdStage,
       TdUnbuilt, IsHost, NonNull, Building, TdRecords
  <2>3. QED
    BY <1>4, <2>1, <2>2
<1>10. \A p \in KernelPages : p \notin HeldByTd(t) => pamt'[p] = pamt[p]
  <2>1. CASE done
    BY <1>1, <1>3, <2>1 DEF HeldByTd, NonNull, TdRecords, PageOr0
  <2>2. CASE kept
    BY <1>1, <1>3, <2>2 DEF HeldByTd, NonNull, TdRecords, PageOr0
  <2>3. QED
    BY <1>4, <2>1, <2>2
<1>11. mod[t].kept => mod'[t].kept
  <2>1. CASE done
    BY <1>1, <1>3, <2>1 DEF ModRecords, NoTd
  <2>2. CASE kept
    BY <1>1, <1>3, <2>2 DEF ModRecords, NoTd
  <2>3. QED
    BY <1>4, <2>1, <2>2
<1>12. OnlyTd(t)
  <2>1. \A u \in Tds : u # t => td'[u] = td[u] /\ mod'[u] = mod[u]
    BY <1>2 DEF LifeInv, LifeRecords
  <2>2. QED
    BY <1>2, <1>10, <1>11, <2>1 DEF OnlyTd
<1>13. TdHandsOver(t)
  <2>1. CASE done
    BY <1>1, <1>3, <2>1, <1>2 DEF LifeInv, TdHandsOver, HeldByTd, NonNull, PagesApart,
       TdRecords, PageOr0, TdStage, TdUnbuilt, TdBuilt, TdGiven, TdEnds, IsGiven, IsHost,
       Building, Created, Returning, Freeing
  <2>2. CASE kept
    BY <1>1, <1>3, <2>2, <1>2 DEF LifeInv, TdHandsOver, HeldByTd, NonNull, PagesApart,
       TdRecords, PageOr0, TdStage, TdUnbuilt, TdBuilt, TdGiven, TdEnds, IsGiven, IsHost,
       Building, Created, Returning, Freeing
  <2>3. QED
    BY <1>4, <2>1, <2>2
<1>14. TdUnbuilt(t)'
  <2>1. CASE done
    BY <1>1, <1>3, <2>1 DEF TdRecords, ModRecords, LifeInv, FreePagesAreHost, TdStage,
       TdUnbuilt, TdBuilt, TdKeyed, TdEnds, TdNothingElse, NoTd, Keyed, IsHost, NonNull,
       Building, Created, Returning, Freeing
  <2>2. CASE kept
    BY <1>1, <1>3, <2>2 DEF TdRecords, ModRecords, LifeInv, FreePagesAreHost, TdStage,
       TdUnbuilt, TdBuilt, TdKeyed, TdEnds, TdNothingElse, NoTd, Keyed, IsHost, NonNull,
       Building, Created, Returning, Freeing
  <2>3. QED
    BY <1>4, <2>1, <2>2
<1>15. TdBuilt(t)'
  <2>1. CASE done
    BY <1>1, <1>3, <2>1 DEF TdRecords, TdStage, TdUnbuilt, TdBuilt, TdGiven, IsHost, IsGiven,
       NonNull, Building, Created, Returning, Freeing
  <2>2. CASE kept
    BY <1>1, <1>3, <2>2 DEF TdRecords, TdStage, TdUnbuilt, TdBuilt, TdGiven, IsHost, IsGiven,
       NonNull, Building, Created, Returning, Freeing
  <2>3. QED
    BY <1>4, <2>1, <2>2
<1>16. TdGiven(t)'
  <2>1. CASE done
    BY <1>1, <1>3, <2>1 DEF TdRecords, ModRecords, LifeInv, PagesApart, HeldByTd, TdStage,
       TdUnbuilt, TdBuilt, TdGiven, IsHost, IsGiven, NonNull, Building, Created, Returning,
       Freeing
  <2>2. CASE kept
    BY <1>1, <1>3, <2>2 DEF TdRecords, ModRecords, LifeInv, PagesApart, HeldByTd, TdStage,
       TdUnbuilt, TdBuilt, TdGiven, IsHost, IsGiven, NonNull, Building, Created, Returning,
       Freeing
  <2>3. QED
    BY <1>4, <2>1, <2>2
<1>17. TdKeyed(t)'
  <2>1. CASE done
    BY <1>1, <1>3, <2>1 DEF TdRecords, ModRecords, TdStage, TdUnbuilt, TdKeyed, TdEnds, Keyed,
       NoTd, Building, Created, Returning, Freeing
  <2>2. CASE kept
    BY <1>1, <1>3, <2>2 DEF TdRecords, ModRecords, TdStage, TdUnbuilt, TdKeyed, TdEnds, Keyed,
       NoTd, Building, Created, Returning, Freeing
  <2>3. QED
    BY <1>4, <2>1, <2>2
<1>18. TdEnds(t)'
  <2>1. CASE done
    BY <1>1, <1>3, <2>1 DEF TdRecords, ModRecords, TdStage, TdUnbuilt, TdKeyed, TdEnds,
       Building, Created, Returning, Freeing
  <2>2. CASE kept
    BY <1>1, <1>3, <2>2 DEF TdRecords, ModRecords, TdStage, TdUnbuilt, TdKeyed, TdEnds,
       Building, Created, Returning, Freeing
  <2>3. QED
    BY <1>4, <2>1, <2>2
<1>19. TdGivesPages(t)
  <2>1. CASE done
    BY <1>1, <1>3, <2>1 DEF TdGivesPages, TdRecords, ModRecords, TdStage, TdUnbuilt, TdBuilt,
       TdGiven, TdKeyed, TdEnds, TdNothingElse, IsGiven, IsHost, NonNull, HeldByTd, NoTd, Keyed,
       Building, Created, Returning, Freeing
  <2>2. CASE kept
    BY <1>1, <1>3, <2>2 DEF TdGivesPages, TdRecords, ModRecords, TdStage, TdUnbuilt, TdBuilt,
       TdGiven, TdKeyed, TdEnds, TdNothingElse, IsGiven, IsHost, NonNull, HeldByTd, NoTd, Keyed,
       Building, Created, Returning, Freeing
  <2>3. QED
    BY <1>4, <2>1, <2>2
<1>20. KeyidsOwned'
  <2>1. \A u \in Tds : u # t => td'[u].hkid = td[u].hkid
    BY <1>2 DEF LifeInv, LifeRecords
  <2>2. CASE done
    <3>1. td'[t].hkid = 0 /\ td[t].hkid # 0
      BY <1>1, <1>3, <2>2 DEF TdRecords, TdStage, TdKeyed
    <3>2. QED
      BY <2>1, <2>2, <3>1, KeyidGivenBack
  <2>3. CASE kept
    <3>1. td'[t].hkid = td[t].hkid
      BY <1>1, <2>3 DEF TdRecords
    <3>2. QED
      BY <2>1, <2>3, <3>1, KeyidsFrame
  <2>4. QED
    BY <1>4, <2>2, <2>3
<1>21. \A v \in VcpusOf(t) : VcpuPlace(v)'
  <2>1. SUFFICES ASSUME NEW v \in VcpusOf(t) PROVE VcpuPlace(v)'
    OBVIOUS
  <2>2. /\ v \in TdVcpus /\ TdOf[v] = t /\ tdVcpu'[v] = tdVcpu[v]
        /\ VcpuStage(v) /\ tdVcpu[v] \in VcpuRecords
    BY <1>2, RecordsOf DEF VcpusOf
  <2>3. CASE done
    BY <1>1, <1>3, <2>2, <2>3 DEF TdRecords, TdPcs, VcpuRecords, VcpuStage, VcpuPlace, TdStage,
       TdEnds, TdKeyed, Building, Created, Returning, Freeing, VpBuilding, VpCreated
  <2>4. CASE kept
    BY <1>1, <1>3, <2>2, <2>4 DEF TdRecords, TdPcs, VcpuRecords, VcpuStage, VcpuPlace, TdStage,
       TdEnds, TdKeyed, Building, Created, Returning, Freeing, VpBuilding, VpCreated
  <2>5. QED
    BY <1>4, <2>3, <2>4
<1>22. \A v \in VcpusOf(t) : VcpuKeyed(v)'
  <2>1. SUFFICES ASSUME NEW v \in VcpusOf(t) PROVE VcpuKeyed(v)'
    OBVIOUS
  <2>2. /\ v \in TdVcpus /\ TdOf[v] = t /\ tdVcpu'[v] = tdVcpu[v]
        /\ VcpuStage(v) /\ tdVcpu[v] \in VcpuRecords
    BY <1>2, RecordsOf DEF VcpusOf
  <2>3. CASE done
    BY <1>1, <1>3, <2>2, <2>3 DEF TdRecords, ModRecords, NoTd, VcpuRecords, VcpuStage,
       VcpuPages, VcpuPlace, VcpuKeyed, TdStage, TdKeyed, Building, Created, Returning, Freeing
  <2>4. CASE kept
    BY <1>1, <1>3, <2>2, <2>4 DEF TdRecords, ModRecords, NoTd, VcpuRecords, VcpuStage,
       VcpuPages, VcpuPlace, VcpuKeyed, TdStage, TdKeyed, Building, Created, Returning, Freeing
  <2>5. QED
    BY <1>4, <2>3, <2>4
<1>23. QED
  BY <1>8, <1>9, <1>12, <1>13, <1>14, <1>15, <1>16, <1>17, <1>18, <1>19, <1>20, <1>21, <1>22,
     TdStepKeeps, TdGivesElse DEF TdStage

\* tdx_vm_free comes when every VCPU is freed.
LEMMA VcpusFreedKeeps == ASSUME LifeInv, NEW t \in Tds, VcpusFreed(t) PROVE LifeInv'
<1>1. /\ td[t] \in TdRecords /\ mod[t] \in ModRecords /\ TdStage(t)
      /\ NullPa \notin KernelPages /\ Keyids \subseteq Nat \ {0}
      /\ free \subseteq KernelPages /\ pamt \in [KernelPages -> PageKinds]
  BY RecordsOf
<1>2. /\ td' = [td EXCEPT ![t] = td'[t]] /\ mod' = [mod EXCEPT ![t] = mod'[t]]
      /\ tdVcpu' = tdVcpu
      /\ pool' = pool /\ nr_configured_hkid' = nr_configured_hkid
  BY <1>1 DEF LifeInv, LifeRecords, VcpusFreed, SetTd, GoTd, InTd
<1>3. /\ td[t].pc = "free_vcpus"
      /\ \A v \in VcpusOf(t) : tdVcpu[v].pc \in {"none", "gone"}
  BY <1>1 DEF VcpusFreed, SetTd, GoTd, InTd, TdRecords
<1>4. /\ td'[t] = [td[t] EXCEPT !.pc = "vm_free"]
      /\ mod'[t] = mod[t]
      /\ pamt' = pamt
      /\ free' = free
  BY <1>1, <1>3 DEF LifeInv, LifeRecords, TdRecords, TdStage, TdKeyed, TdGiven, IsGiven,
     VcpusFreed, SetTd, GoTd, InTd
<1>5. td'[t] \in TdRecords
  BY <1>1, <1>3, <1>4 DEF TdRecords, TdPcs, Building, Created, Returning, Freeing, PageOr0
<1>6. mod'[t] \in ModRecords
  BY <1>1, <1>3, <1>4 DEF TdRecords, ModRecords, NoTd
<1>7. pamt' \in [KernelPages -> PageKinds] /\ free' \subseteq KernelPages
  BY <1>1, <1>3, <1>4 DEF PageKinds, TdRecords, PageOr0, TdStage, TdUnbuilt
<1>8. LifeRecords'
  BY <1>2, <1>5, <1>6, <1>7, TdRecordsKept DEF LifeInv, LifeRecords
<1>9. FreePagesAreHost'
  BY <1>1, <1>3, <1>4 DEF LifeInv, FreePagesAreHost, PagesApart, HeldByTd, PageOr0, TdStage,
     TdUnbuilt, IsHost, NonNull, Building, TdRecords
<1>10. \A p \in KernelPages : p \notin HeldByTd(t) => pamt'[p] = pamt[p]
  BY <1>1, <1>3, <1>4 DEF HeldByTd, NonNull, TdRecords, PageOr0
<1>11. mod[t].kept => mod'[t].kept
  BY <1>1, <1>3, <1>4 DEF ModRecords, NoTd
<1>12. OnlyTd(t)
  <2>1. \A u \in Tds : u # t => td'[u] = td[u] /\ mod'[u] = mod[u]
    BY <1>2 DEF LifeInv, LifeRecords
  <2>2. QED
    BY <1>2, <1>10, <1>11, <2>1 DEF OnlyTd
<1>13. TdHandsOver(t)
  BY <1>1, <1>3, <1>4, <1>2 DEF LifeInv, TdHandsOver, HeldByTd, NonNull, PagesApart, TdRecords,
     PageOr0, TdStage, TdUnbuilt, TdBuilt, TdGiven, TdEnds, IsGiven, IsHost, Building, Created,
     Returning, Freeing
<1>14. TdUnbuilt(t)'
  BY <1>1, <1>3, <1>4 DEF TdRecords, ModRecords, LifeInv, FreePagesAreHost, TdStage, TdUnbuilt,
     TdBuilt, TdKeyed, TdEnds, TdNothingElse, NoTd, Keyed, IsHost, NonNull, Building, Created,
     Returning, Freeing
<1>15. TdBuilt(t)'
  BY <1>1, <1>3, <1>4 DEF TdRecords, TdStage, TdUnbuilt, TdBuilt, TdGiven, IsHost, IsGiven,
     NonNull, Building, Created, Returning, Freeing
<1>16. TdGiven(t)'
  BY <1>1, <1>3, <1>4 DEF TdRecords, ModRecords, LifeInv, PagesApart, HeldByTd, TdStage,
     TdUnbuilt, TdBuilt, TdGiven, IsHost, IsGiven, NonNull, Building, Created, Returning,
     Freeing
<1>17. TdKeyed(t)'
  BY <1>1, <1>3, <1>4 DEF TdRecords, ModRecords, TdStage, TdUnbuilt, TdKeyed, TdEnds, Keyed,
     NoTd, Building, Created, Returning, Freeing
<1>18. TdEnds(t)'
  BY <1>1, <1>3, <1>4 DEF TdRecords, ModRecords, TdStage, TdUnbuilt, TdKeyed, TdEnds, Building,
     Created, Returning, Freeing
<1>19. TdGivesPages(t)
  BY <1>1, <1>3, <1>4 DEF TdGivesPages, TdRecords, ModRecords, TdStage, TdUnbuilt, TdBuilt,
     TdGiven, TdKeyed, TdEnds, TdNothingElse, IsGiven, IsHost, NonNull, HeldByTd, NoTd, Keyed,
     Building, Created, Returning, Freeing
<1>20. KeyidsOwned'
  <2>1. td'[t].hkid = td[t].hkid
    BY <1>1, <1>4 DEF TdRecords, NoTd
  <2>2. \A u \in Tds : u # t => td'[u] = td[u]
    BY <1>2 DEF LifeInv, LifeRecords
  <2>3. QED
    BY <1>2, <2>1, <2>2, KeyidsFrame
<1>21. \A v \in VcpusOf(t) : VcpuPlace(v)'
  <2>1. SUFFICES ASSUME NEW v \in VcpusOf(t) PROVE VcpuPlace(v)'
    OBVIOUS
  <2>2. /\ v \in TdVcpus /\ TdOf[v] = t /\ tdVcpu'[v] = tdVcpu[v]
        /\ VcpuStage(v) /\ tdVcpu[v] \in VcpuRecords
    BY <1>2, RecordsOf DEF VcpusOf
  <2>3. tdVcpu[v].pc \in {"none", "gone"}
    BY <2>1, <1>3
  <2>4. QED
    BY <1>1, <1>3, <1>4, <2>2, <2>3 DEF TdRecords, TdPcs, VcpuRecords, VcpuStage, VcpuPlace,
       TdStage, TdEnds, TdKeyed, Building, Created, Returning, Freeing, VpBuilding, VpCreated
<1>22. \A v \in VcpusOf(t) : VcpuKeyed(v)'
  <2>1. SUFFICES ASSUME NEW v \in VcpusOf(t) PROVE VcpuKeyed(v)'
    OBVIOUS
  <2>2. /\ v \in TdVcpus /\ TdOf[v] = t /\ tdVcpu'[v] = tdVcpu[v]
        /\ VcpuStage(v) /\ tdVcpu[v] \in VcpuRecords
    BY <1>2, RecordsOf DEF VcpusOf
  <2>3. tdVcpu[v].pc \in {"none", "gone"}
    BY <2>1, <1>3
  <2>4. QED
    BY <1>1, <1>3, <1>4, <2>2, <2>3 DEF TdRecords, ModRecords, NoTd, VcpuRecords, VcpuStage,
       VcpuPages, VcpuPlace, VcpuKeyed, TdStage, TdKeyed, Building, Created, Returning, Freeing
<1>23. QED
  BY <1>8, <1>9, <1>12, <1>13, <1>14, <1>15, <1>16, <1>17, <1>18, <1>19, <1>20, <1>21, <1>22,
     TdStepKeeps, TdGivesElse DEF TdStage

\* A page of the TDCS comes back clean, or the TDX module keeps it.
LEMMA VmFreeTdcsKeeps == ASSUME LifeInv, NEW t \in Tds, VmFreeTdcs(t) PROVE LifeInv'
<1> DEFINE page == Least(td[t].tdcs)
<1> DEFINE gives_up ==
      /\ td'[t] = [td[t] EXCEPT !.pc = IF td[t].ending THEN "gone" ELSE "idle"]
      /\ mod'[t] = mod[t]
      /\ pamt' = pamt
      /\ free' = free
      /\ td[t].hkid # 0
<1> DEFINE returned ==
      /\ td'[t] = [td[t] EXCEPT !.tdcs = td[t].tdcs \ {page}]
      /\ mod'[t] = [mod[t] EXCEPT !.pages = mod[t].pages \ {page}]
      /\ pamt' = [pamt EXCEPT ![page] = "host"]
      /\ free' = free \cup {page}
      /\ td[t].hkid = 0
      /\ page \in td[t].tdcs
<1> DEFINE kept ==
      /\ td'[t] = [td[t] EXCEPT !.tdcs = td[t].tdcs \ {page}]
      /\ mod'[t] = [mod[t] EXCEPT !.kept = TRUE]
      /\ pamt' = pamt
      /\ free' = free
      /\ td[t].hkid = 0
      /\ page \in td[t].tdcs
<1> DEFINE over ==
      /\ td'[t] = [td[t] EXCEPT !.pc = IF td[t].tdr = NullPa
            THEN (IF td[t].ending THEN "gone" ELSE "idle") ELSE "free_tdr"]
      /\ mod'[t] = mod[t]
      /\ pamt' = pamt
      /\ free' = free
      /\ td[t].hkid = 0
      /\ td[t].tdcs = {}
<1>1. /\ td[t] \in TdRecords /\ mod[t] \in ModRecords /\ TdStage(t)
      /\ NullPa \notin KernelPages /\ Keyids \subseteq Nat \ {0}
      /\ free \subseteq KernelPages /\ pamt \in [KernelPages -> PageKinds]
  BY RecordsOf
<1>2. td[t].tdcs # {} => page \in td[t].tdcs
  BY <1>1, LeastIsIn, TdxLifeAssumption DEF TdRecords
<1> HIDE DEF page
<1>3. /\ td' = [td EXCEPT ![t] = td'[t]] /\ mod' = [mod EXCEPT ![t] = mod'[t]]
      /\ tdVcpu' = tdVcpu
      /\ pool' = pool /\ nr_configured_hkid' = nr_configured_hkid
  BY <1>1, <1>2 DEF LifeInv, LifeRecords, VmFreeTdcs, SetTd, GoTd, InTd, HkidAssigned,
     AfterFree, ReclaimControlPage, ReclaimOk, Cleared, Given, Keeps, TdcsLeft
<1>4. td[t].pc = "vm_free"
  BY <1>1, <1>2 DEF VmFreeTdcs, SetTd, GoTd, InTd, HkidAssigned, TdRecords
<1>5. gives_up \/ returned \/ kept \/ over
  <2>1. mod \in [Tds -> ModRecords] /\ td \in [Tds -> TdRecords]
    BY DEF LifeInv, LifeRecords
  <2>2. td[t].hkid = 0 \/ td[t].hkid > 0
    BY HkidOrNone
  <2>3. CASE HkidAssigned(t)
    BY <2>1, <2>3 DEF VmFreeTdcs, GoTd, SetTd, HkidAssigned, AfterFree
  <2>4. CASE ~HkidAssigned(t) /\ td[t].tdcs # {}
    <3>1. /\ ReclaimControlPage(t, page)
          /\ td' = [td EXCEPT ![t] = [td[t] EXCEPT !.tdcs = td[t].tdcs \ {page}]]
      BY <2>4 DEF VmFreeTdcs, SetTd, TdcsLeft, page
    <3>2. ReclaimOk(t, page)
      BY <1>1, <1>2, <2>2, <2>4 DEF HkidAssigned, ReclaimOk, TdStage, TdKeyed, TdGiven
    <3>3. td'[t] = [td[t] EXCEPT !.tdcs = td[t].tdcs \ {page}]
      BY <2>1, <3>1
    <3>4. QED
      BY <1>2, <2>2, <2>4, <3>1, <3>2, <3>3, ReclaimEffect DEF HkidAssigned
  <2>5. CASE ~HkidAssigned(t) /\ td[t].tdcs = {}
    BY <2>1, <2>2, <2>5 DEF VmFreeTdcs, GoTd, SetTd, HkidAssigned, AfterFree
  <2>6. QED
    BY <2>3, <2>4, <2>5
<1>6. td'[t] \in TdRecords
  <2>1. CASE gives_up
    BY <1>1, <1>4, <2>1 DEF TdRecords, TdPcs, Building, Created, Returning, Freeing, PageOr0
  <2>2. CASE returned
    BY <1>1, <1>4, <2>2 DEF TdRecords, TdPcs, Building, Created, Returning, Freeing, PageOr0
  <2>3. CASE kept
    BY <1>1, <1>4, <2>3 DEF TdRecords, TdPcs, Building, Created, Returning, Freeing, PageOr0
  <2>4. CASE over
    BY <1>1, <1>4, <2>4 DEF TdRecords, TdPcs, Building, Created, Returning, Freeing, PageOr0
  <2>5. QED
    BY <1>5, <2>1, <2>2, <2>3, <2>4
<1>7. mod'[t] \in ModRecords
  <2>1. CASE gives_up
    BY <1>1, <1>4, <2>1 DEF TdRecords, ModRecords, NoTd
  <2>2. CASE returned
    BY <1>1, <1>4, <2>2 DEF TdRecords, ModRecords, NoTd
  <2>3. CASE kept
    BY <1>1, <1>4, <2>3 DEF TdRecords, ModRecords, NoTd
  <2>4. CASE over
    BY <1>1, <1>4, <2>4 DEF TdRecords, ModRecords, NoTd
  <2>5. QED
    BY <1>5, <2>1, <2>2, <2>3, <2>4
<1>8. pamt' \in [KernelPages -> PageKinds] /\ free' \subseteq KernelPages
  <2>1. CASE gives_up
    BY <1>1, <1>4, <2>1 DEF PageKinds, TdRecords, PageOr0, TdStage, TdUnbuilt
  <2>2. CASE returned
    BY <1>1, <1>4, <2>2 DEF PageKinds, TdRecords, PageOr0, TdStage, TdUnbuilt
  <2>3. CASE kept
    BY <1>1, <1>4, <2>3 DEF PageKinds, TdRecords, PageOr0, TdStage, TdUnbuilt
  <2>4. CASE over
    BY <1>1, <1>4, <2>4 DEF PageKinds, TdRecords, PageOr0, TdStage, TdUnbuilt
  <2>5. QED
    BY <1>5, <2>1, <2>2, <2>3, <2>4
<1>9. LifeRecords'
  BY <1>3, <1>6, <1>7, <1>8, TdRecordsKept DEF LifeInv, LifeRecords
<1>10. FreePagesAreHost'
  <2>1. CASE gives_up
    BY <1>1, <1>4, <2>1 DEF LifeInv, FreePagesAreHost, PagesApart, HeldByTd, PageOr0, TdStage,
       TdUnbuilt, IsHost, NonNull, Building, TdRecords
  <2>2. CASE returned
    BY <1>1, <1>4, <2>2 DEF LifeInv, FreePagesAreHost, PagesApart, HeldByTd, PageOr0, TdStage,
       TdUnbuilt, IsHost, NonNull, Building, TdRecords
  <2>3. CASE kept
    BY <1>1, <1>4, <2>3 DEF LifeInv, FreePagesAreHost, PagesApart, HeldByTd, PageOr0, TdStage,
       TdUnbuilt, IsHost, NonNull, Building, TdRecords
  <2>4. CASE over
    BY <1>1, <1>4, <2>4 DEF LifeInv, FreePagesAreHost, PagesApart, HeldByTd, PageOr0, TdStage,
       TdUnbuilt, IsHost, NonNull, Building, TdRecords
  <2>5. QED
    BY <1>5, <2>1, <2>2, <2>3, <2>4
<1>11. \A p \in KernelPages : p \notin HeldByTd(t) => pamt'[p] = pamt[p]
  <2>1. CASE gives_up
    BY <1>1, <1>4, <2>1 DEF HeldByTd, NonNull, TdRecords, PageOr0
  <2>2. CASE returned
    BY <1>1, <1>4, <2>2 DEF HeldByTd, NonNull, TdRecords, PageOr0
  <2>3. CASE kept
    BY <1>1, <1>4, <2>3 DEF HeldByTd, NonNull, TdRecords, PageOr0
  <2>4. CASE over
    BY <1>1, <1>4, <2>4 DEF HeldByTd, NonNull, TdRecords, PageOr0
  <2>5. QED
    BY <1>5, <2>1, <2>2, <2>3, <2>4
<1>12. mod[t].kept => mod'[t].kept
  <2>1. CASE gives_up
    BY <1>1, <1>4, <2>1 DEF ModRecords, NoTd
  <2>2. CASE returned
    BY <1>1, <1>4, <2>2 DEF ModRecords, NoTd
  <2>3. CASE kept
    BY <1>1, <1>4, <2>3 DEF ModRecords, NoTd
  <2>4. CASE over
    BY <1>1, <1>4, <2>4 DEF ModRecords, NoTd
  <2>5. QED
    BY <1>5, <2>1, <2>2, <2>3, <2>4
<1>13. OnlyTd(t)
  <2>1. \A u \in Tds : u # t => td'[u] = td[u] /\ mod'[u] = mod[u]
    BY <1>3 DEF LifeInv, LifeRecords
  <2>2. QED
    BY <1>3, <1>11, <1>12, <2>1 DEF OnlyTd
<1>14. TdHandsOver(t)
  <2>1. CASE gives_up
    BY <1>1, <1>4, <2>1, <1>3 DEF LifeInv, TdHandsOver, HeldByTd, NonNull, PagesApart,
       TdRecords, PageOr0, TdStage, TdUnbuilt, TdBuilt, TdGiven, TdEnds, IsGiven, IsHost,
       Building, Created, Returning, Freeing
  <2>2. CASE returned
    BY <1>1, <1>4, <2>2, <1>3 DEF LifeInv, TdHandsOver, HeldByTd, NonNull, PagesApart,
       TdRecords, PageOr0, TdStage, TdUnbuilt, TdBuilt, TdGiven, TdEnds, IsGiven, IsHost,
       Building, Created, Returning, Freeing
  <2>3. CASE kept
    BY <1>1, <1>4, <2>3, <1>3 DEF LifeInv, TdHandsOver, HeldByTd, NonNull, PagesApart,
       TdRecords, PageOr0, TdStage, TdUnbuilt, TdBuilt, TdGiven, TdEnds, IsGiven, IsHost,
       Building, Created, Returning, Freeing
  <2>4. CASE over
    BY <1>1, <1>4, <2>4, <1>3 DEF LifeInv, TdHandsOver, HeldByTd, NonNull, PagesApart,
       TdRecords, PageOr0, TdStage, TdUnbuilt, TdBuilt, TdGiven, TdEnds, IsGiven, IsHost,
       Building, Created, Returning, Freeing
  <2>5. QED
    BY <1>5, <2>1, <2>2, <2>3, <2>4
<1>15. TdUnbuilt(t)'
  <2>1. CASE gives_up
    BY <1>1, <1>4, <2>1 DEF TdRecords, ModRecords, LifeInv, FreePagesAreHost, TdStage,
       TdUnbuilt, TdBuilt, TdKeyed, TdEnds, TdNothingElse, NoTd, Keyed, IsHost, NonNull,
       Building, Created, Returning, Freeing
  <2>2. CASE returned
    BY <1>1, <1>4, <2>2 DEF TdRecords, ModRecords, LifeInv, FreePagesAreHost, TdStage,
       TdUnbuilt, TdBuilt, TdKeyed, TdEnds, TdNothingElse, NoTd, Keyed, IsHost, NonNull,
       Building, Created, Returning, Freeing
  <2>3. CASE kept
    BY <1>1, <1>4, <2>3 DEF TdRecords, ModRecords, LifeInv, FreePagesAreHost, TdStage,
       TdUnbuilt, TdBuilt, TdKeyed, TdEnds, TdNothingElse, NoTd, Keyed, IsHost, NonNull,
       Building, Created, Returning, Freeing
  <2>4. CASE over
    BY <1>1, <1>4, <2>4 DEF TdRecords, ModRecords, LifeInv, FreePagesAreHost, TdStage,
       TdUnbuilt, TdBuilt, TdKeyed, TdEnds, TdNothingElse, NoTd, Keyed, IsHost, NonNull,
       Building, Created, Returning, Freeing
  <2>5. QED
    BY <1>5, <2>1, <2>2, <2>3, <2>4
<1>16. TdBuilt(t)'
  <2>1. CASE gives_up
    BY <1>1, <1>4, <2>1 DEF TdRecords, TdStage, TdUnbuilt, TdBuilt, TdGiven, IsHost, IsGiven,
       NonNull, Building, Created, Returning, Freeing
  <2>2. CASE returned
    BY <1>1, <1>4, <2>2 DEF TdRecords, TdStage, TdUnbuilt, TdBuilt, TdGiven, IsHost, IsGiven,
       NonNull, Building, Created, Returning, Freeing
  <2>3. CASE kept
    BY <1>1, <1>4, <2>3 DEF TdRecords, TdStage, TdUnbuilt, TdBuilt, TdGiven, IsHost, IsGiven,
       NonNull, Building, Created, Returning, Freeing
  <2>4. CASE over
    BY <1>1, <1>4, <2>4 DEF TdRecords, TdStage, TdUnbuilt, TdBuilt, TdGiven, IsHost, IsGiven,
       NonNull, Building, Created, Returning, Freeing
  <2>5. QED
    BY <1>5, <2>1, <2>2, <2>3, <2>4
<1>17. TdGiven(t)'
  <2>1. CASE gives_up
    BY <1>1, <1>4, <2>1 DEF TdRecords, ModRecords, LifeInv, PagesApart, HeldByTd, TdStage,
       TdUnbuilt, TdBuilt, TdGiven, IsHost, IsGiven, NonNull, Building, Created, Returning,
       Freeing
  <2>2. CASE returned
    BY <1>1, <1>4, <2>2 DEF TdRecords, ModRecords, LifeInv, PagesApart, HeldByTd, TdStage,
       TdUnbuilt, TdBuilt, TdGiven, IsHost, IsGiven, NonNull, Building, Created, Returning,
       Freeing
  <2>3. CASE kept
    BY <1>1, <1>4, <2>3 DEF TdRecords, ModRecords, LifeInv, PagesApart, HeldByTd, TdStage,
       TdUnbuilt, TdBuilt, TdGiven, IsHost, IsGiven, NonNull, Building, Created, Returning,
       Freeing
  <2>4. CASE over
    BY <1>1, <1>4, <2>4 DEF TdRecords, ModRecords, LifeInv, PagesApart, HeldByTd, TdStage,
       TdUnbuilt, TdBuilt, TdGiven, IsHost, IsGiven, NonNull, Building, Created, Returning,
       Freeing
  <2>5. QED
    BY <1>5, <2>1, <2>2, <2>3, <2>4
<1>18. TdKeyed(t)'
  <2>1. CASE gives_up
    BY <1>1, <1>4, <2>1 DEF TdRecords, ModRecords, TdStage, TdUnbuilt, TdKeyed, TdEnds, Keyed,
       NoTd, Building, Created, Returning, Freeing
  <2>2. CASE returned
    BY <1>1, <1>4, <2>2 DEF TdRecords, ModRecords, TdStage, TdUnbuilt, TdKeyed, TdEnds, Keyed,
       NoTd, Building, Created, Returning, Freeing
  <2>3. CASE kept
    BY <1>1, <1>4, <2>3 DEF TdRecords, ModRecords, TdStage, TdUnbuilt, TdKeyed, TdEnds, Keyed,
       NoTd, Building, Created, Returning, Freeing
  <2>4. CASE over
    BY <1>1, <1>4, <2>4 DEF TdRecords, ModRecords, TdStage, TdUnbuilt, TdKeyed, TdEnds, Keyed,
       NoTd, Building, Created, Returning, Freeing
  <2>5. QED
    BY <1>5, <2>1, <2>2, <2>3, <2>4
<1>19. TdEnds(t)'
  <2>1. CASE gives_up
    BY <1>1, <1>4, <2>1 DEF TdRecords, ModRecords, TdStage, TdUnbuilt, TdKeyed, TdEnds,
       Building, Created, Returning, Freeing
  <2>2. CASE returned
    BY <1>1, <1>4, <2>2 DEF TdRecords, ModRecords, TdStage, TdUnbuilt, TdKeyed, TdEnds,
       Building, Created, Returning, Freeing
  <2>3. CASE kept
    BY <1>1, <1>4, <2>3 DEF TdRecords, ModRecords, TdStage, TdUnbuilt, TdKeyed, TdEnds,
       Building, Created, Returning, Freeing
  <2>4. CASE over
    BY <1>1, <1>4, <2>4 DEF TdRecords, ModRecords, TdStage, TdUnbuilt, TdKeyed, TdEnds,
       Building, Created, Returning, Freeing
  <2>5. QED
    BY <1>5, <2>1, <2>2, <2>3, <2>4
<1>20. TdGivesPages(t)
  <2>1. CASE gives_up
    BY <1>1, <1>4, <2>1 DEF TdGivesPages, TdRecords, ModRecords, TdStage, TdUnbuilt, TdBuilt,
       TdGiven, TdKeyed, TdEnds, TdNothingElse, IsGiven, IsHost, NonNull, HeldByTd, NoTd, Keyed,
       Building, Created, Returning, Freeing
  <2>2. CASE returned
    BY <1>1, <1>4, <2>2 DEF TdGivesPages, TdRecords, ModRecords, TdStage, TdUnbuilt, TdBuilt,
       TdGiven, TdKeyed, TdEnds, TdNothingElse, IsGiven, IsHost, NonNull, HeldByTd, NoTd, Keyed,
       Building, Created, Returning, Freeing
  <2>3. CASE kept
    BY <1>1, <1>4, <2>3 DEF TdGivesPages, TdRecords, ModRecords, TdStage, TdUnbuilt, TdBuilt,
       TdGiven, TdKeyed, TdEnds, TdNothingElse, IsGiven, IsHost, NonNull, HeldByTd, NoTd, Keyed,
       Building, Created, Returning, Freeing
  <2>4. CASE over
    BY <1>1, <1>4, <2>4 DEF TdGivesPages, TdRecords, ModRecords, TdStage, TdUnbuilt, TdBuilt,
       TdGiven, TdKeyed, TdEnds, TdNothingElse, IsGiven, IsHost, NonNull, HeldByTd, NoTd, Keyed,
       Building, Created, Returning, Freeing
  <2>5. QED
    BY <1>5, <2>1, <2>2, <2>3, <2>4
<1>21. KeyidsOwned'
  <2>1. td'[t].hkid = td[t].hkid
    BY <1>1, <1>5 DEF TdRecords, NoTd
  <2>2. \A u \in Tds : u # t => td'[u] = td[u]
    BY <1>3 DEF LifeInv, LifeRecords
  <2>3. QED
    BY <1>3, <2>1, <2>2, KeyidsFrame
<1>22. \A v \in VcpusOf(t) : VcpuPlace(v)'
  <2>1. SUFFICES ASSUME NEW v \in VcpusOf(t) PROVE VcpuPlace(v)'
    OBVIOUS
  <2>2. /\ v \in TdVcpus /\ TdOf[v] = t /\ tdVcpu'[v] = tdVcpu[v]
        /\ VcpuStage(v) /\ tdVcpu[v] \in VcpuRecords
    BY <1>3, RecordsOf DEF VcpusOf
  <2>3. CASE gives_up
    BY <1>1, <1>4, <2>2, <2>3 DEF TdRecords, TdPcs, VcpuRecords, VcpuStage, VcpuPlace, TdStage,
       TdEnds, TdKeyed, Building, Created, Returning, Freeing, VpBuilding, VpCreated
  <2>4. CASE returned
    BY <1>1, <1>4, <2>2, <2>4 DEF TdRecords, TdPcs, VcpuRecords, VcpuStage, VcpuPlace, TdStage,
       TdEnds, TdKeyed, Building, Created, Returning, Freeing, VpBuilding, VpCreated
  <2>5. CASE kept
    BY <1>1, <1>4, <2>2, <2>5 DEF TdRecords, TdPcs, VcpuRecords, VcpuStage, VcpuPlace, TdStage,
       TdEnds, TdKeyed, Building, Created, Returning, Freeing, VpBuilding, VpCreated
  <2>6. CASE over
    BY <1>1, <1>4, <2>2, <2>6 DEF TdRecords, TdPcs, VcpuRecords, VcpuStage, VcpuPlace, TdStage,
       TdEnds, TdKeyed, Building, Created, Returning, Freeing, VpBuilding, VpCreated
  <2>7. QED
    BY <1>5, <2>3, <2>4, <2>5, <2>6
<1>23. \A v \in VcpusOf(t) : VcpuKeyed(v)'
  <2>1. SUFFICES ASSUME NEW v \in VcpusOf(t) PROVE VcpuKeyed(v)'
    OBVIOUS
  <2>2. /\ v \in TdVcpus /\ TdOf[v] = t /\ tdVcpu'[v] = tdVcpu[v]
        /\ VcpuStage(v) /\ tdVcpu[v] \in VcpuRecords
    BY <1>3, RecordsOf DEF VcpusOf
  <2>3. CASE gives_up
    BY <1>1, <1>4, <2>2, <2>3 DEF TdRecords, ModRecords, NoTd, VcpuRecords, VcpuStage,
       VcpuPages, VcpuPlace, VcpuKeyed, TdStage, TdKeyed, Building, Created, Returning, Freeing
  <2>4. CASE returned
    BY <1>1, <1>4, <2>2, <2>4 DEF TdRecords, ModRecords, NoTd, VcpuRecords, VcpuStage,
       VcpuPages, VcpuPlace, VcpuKeyed, TdStage, TdKeyed, Building, Created, Returning, Freeing
  <2>5. CASE kept
    BY <1>1, <1>4, <2>2, <2>5 DEF TdRecords, ModRecords, NoTd, VcpuRecords, VcpuStage,
       VcpuPages, VcpuPlace, VcpuKeyed, TdStage, TdKeyed, Building, Created, Returning, Freeing
  <2>6. CASE over
    BY <1>1, <1>4, <2>2, <2>6 DEF TdRecords, ModRecords, NoTd, VcpuRecords, VcpuStage,
       VcpuPages, VcpuPlace, VcpuKeyed, TdStage, TdKeyed, Building, Created, Returning, Freeing
  <2>7. QED
    BY <1>5, <2>3, <2>4, <2>5, <2>6
<1>24. QED
  BY <1>9, <1>10, <1>13, <1>14, <1>15, <1>16, <1>17, <1>18, <1>19, <1>20, <1>21, <1>22, <1>23,
     TdStepKeeps, TdGivesElse DEF TdStage

\* The TDR comes back last: the TDX module allows it, it has no other page of the TD.
LEMMA VmFreeTdrKeeps == ASSUME LifeInv, NEW t \in Tds, VmFreeTdr(t) PROVE LifeInv'
<1> DEFINE returned ==
      /\ td'[t] = [td[t] EXCEPT !.pc = IF td[t].ending THEN "gone" ELSE "idle", !.tdr = NullPa]
      /\ mod'[t] = [NoTd EXCEPT !.kept = mod[t].kept]
      /\ pamt' = [pamt EXCEPT ![td[t].tdr] = "host"]
      /\ free' = free \cup {td[t].tdr}
<1> DEFINE kept ==
      /\ td'[t] = [td[t] EXCEPT !.pc = IF td[t].ending THEN "gone" ELSE "idle"]
      /\ mod'[t] = [mod[t] EXCEPT !.kept = TRUE]
      /\ pamt' = pamt
      /\ free' = free
<1> DEFINE gives_up ==
      /\ td'[t] = [td[t] EXCEPT !.pc = IF td[t].ending THEN "gone" ELSE "idle"]
      /\ mod'[t] = mod[t]
      /\ pamt' = pamt
      /\ free' = free
      /\ mod[t].kept
<1>1. /\ td[t] \in TdRecords /\ mod[t] \in ModRecords /\ TdStage(t)
      /\ NullPa \notin KernelPages /\ Keyids \subseteq Nat \ {0}
      /\ free \subseteq KernelPages /\ pamt \in [KernelPages -> PageKinds]
  BY RecordsOf
<1>2. /\ td' = [td EXCEPT ![t] = td'[t]] /\ mod' = [mod EXCEPT ![t] = mod'[t]]
      /\ tdVcpu' = tdVcpu
      /\ pool' = pool /\ nr_configured_hkid' = nr_configured_hkid
  BY <1>1 DEF LifeInv, LifeRecords, VmFreeTdr, SetTd, GoTd, InTd, AfterFree, ReclaimOk, Cleared,
     Given, Keeps, NoTd
<1>3. td[t].pc = "free_tdr"
  BY <1>1 DEF VmFreeTdr, SetTd, GoTd, InTd, TdRecords
<1>4. returned \/ kept \/ gives_up
  <2>1. mod \in [Tds -> ModRecords] /\ td \in [Tds -> TdRecords]
    BY DEF LifeInv, LifeRecords
  <2>2. /\ td[t].hkid = 0 /\ td[t].tdcs = {} /\ td[t].tdr # NullPa
        /\ mod[t].key = "freed" /\ td[t].tdr \in mod[t].pages
        /\ td[t].new_tdr = NullPa /\ td[t].new_tdcs = {}
    BY <1>1, <1>3 DEF TdStage, TdEnds, TdKeyed, TdGiven, TdUnbuilt, Building, Created
  <2>3. \A v \in VcpusOf(t) : HeldByVcpu(v) = {}
    <3>1. SUFFICES ASSUME NEW v \in VcpusOf(t) PROVE HeldByVcpu(v) = {}
      OBVIOUS
    <3>2. TdOf[v] = t /\ VcpuStage(v)
      BY RecordsOf DEF VcpusOf
    <3>3. tdVcpu[v].pc \in {"none", "gone"}
      BY <1>3, <3>2 DEF VcpuStage, VcpuPlace, Freeing
    <3>4. QED
      BY <2>2, <3>2, <3>3 DEF VcpuStage, VcpuPages, VcpuKeyed, HeldByVcpu, NonNull
  <2>4. ~mod[t].kept => ReclaimOk(t, td[t].tdr)
    BY <1>1, <2>2, <2>3 DEF ReclaimOk, TdStage, TdNothingElse, HeldByTd, NonNull
  <2>5. CASE /\ pamt' = Cleared(td[t].tdr) /\ free' = free \cup {td[t].tdr}
             /\ mod' = [mod EXCEPT ![t] = [NoTd EXCEPT !.kept = mod[t].kept]]
             /\ SetTd(t, [td[t] EXCEPT !.pc = AfterFree(t), !.tdr = NullPa])
    BY <2>1, <2>5 DEF SetTd, AfterFree, Cleared, Given
  <2>6. CASE GoTd(t, AfterFree(t)) /\ Keeps(t) /\ UNCHANGED <<free, pamt>>
    BY <2>1, <2>6 DEF GoTd, SetTd, AfterFree, Keeps
  <2>7. CASE ~ReclaimOk(t, td[t].tdr) /\ GoTd(t, AfterFree(t)) /\ UNCHANGED <<free, pamt, mod>>
    BY <2>1, <2>4, <2>7 DEF GoTd, SetTd, AfterFree
  <2>8. QED
    BY <2>5, <2>6, <2>7 DEF VmFreeTdr
<1>5. /\ td[t].tdr \in KernelPages /\ td[t].tdcs = {} /\ td[t].hkid = 0
      /\ mod[t].key = "freed"
  BY <1>1, <1>3 DEF TdRecords, PageOr0, TdStage, TdEnds, TdKeyed
<1>6. td'[t] \in TdRecords
  <2>1. CASE returned
    BY <1>1, <1>3, <2>1, <1>5 DEF TdRecords, TdPcs, Building, Created, Returning, Freeing,
       PageOr0
  <2>2. CASE kept
    BY <1>1, <1>3, <2>2, <1>5 DEF TdRecords, TdPcs, Building, Created, Returning, Freeing,
       PageOr0
  <2>3. CASE gives_up
    BY <1>1, <1>3, <2>3, <1>5 DEF TdRecords, TdPcs, Building, Created, Returning, Freeing,
       PageOr0
  <2>4. QED
    BY <1>4, <2>1, <2>2, <2>3
<1>7. mod'[t] \in ModRecords
  <2>1. CASE returned
    BY <1>1, <1>3, <2>1, <1>5 DEF TdRecords, ModRecords, NoTd
  <2>2. CASE kept
    BY <1>1, <1>3, <2>2, <1>5 DEF TdRecords, ModRecords, NoTd
  <2>3. CASE gives_up
    BY <1>1, <1>3, <2>3, <1>5 DEF TdRecords, ModRecords, NoTd
  <2>4. QED
    BY <1>4, <2>1, <2>2, <2>3
<1>8. pamt' \in [KernelPages -> PageKinds] /\ free' \subseteq KernelPages
  <2>1. CASE returned
    BY <1>1, <1>3, <2>1, <1>5 DEF PageKinds, TdRecords, PageOr0, TdStage, TdUnbuilt
  <2>2. CASE kept
    BY <1>1, <1>3, <2>2, <1>5 DEF PageKinds, TdRecords, PageOr0, TdStage, TdUnbuilt
  <2>3. CASE gives_up
    BY <1>1, <1>3, <2>3, <1>5 DEF PageKinds, TdRecords, PageOr0, TdStage, TdUnbuilt
  <2>4. QED
    BY <1>4, <2>1, <2>2, <2>3
<1>9. LifeRecords'
  BY <1>2, <1>6, <1>7, <1>8, TdRecordsKept DEF LifeInv, LifeRecords
<1>10. FreePagesAreHost'
  <2>1. CASE returned
    BY <1>1, <1>3, <2>1, <1>5 DEF LifeInv, FreePagesAreHost, PagesApart, HeldByTd, PageOr0,
       TdStage, TdUnbuilt, IsHost, NonNull, Building, TdRecords
  <2>2. CASE kept
    BY <1>1, <1>3, <2>2, <1>5 DEF LifeInv, FreePagesAreHost, PagesApart, HeldByTd, PageOr0,
       TdStage, TdUnbuilt, IsHost, NonNull, Building, TdRecords
  <2>3. CASE gives_up
    BY <1>1, <1>3, <2>3, <1>5 DEF LifeInv, FreePagesAreHost, PagesApart, HeldByTd, PageOr0,
       TdStage, TdUnbuilt, IsHost, NonNull, Building, TdRecords
  <2>4. QED
    BY <1>4, <2>1, <2>2, <2>3
<1>11. \A p \in KernelPages : p \notin HeldByTd(t) => pamt'[p] = pamt[p]
  <2>1. CASE returned
    BY <1>1, <1>3, <2>1, <1>5 DEF HeldByTd, NonNull, TdRecords, PageOr0
  <2>2. CASE kept
    BY <1>1, <1>3, <2>2, <1>5 DEF HeldByTd, NonNull, TdRecords, PageOr0
  <2>3. CASE gives_up
    BY <1>1, <1>3, <2>3, <1>5 DEF HeldByTd, NonNull, TdRecords, PageOr0
  <2>4. QED
    BY <1>4, <2>1, <2>2, <2>3
<1>12. mod[t].kept => mod'[t].kept
  <2>1. CASE returned
    BY <1>1, <1>3, <2>1, <1>5 DEF ModRecords, NoTd
  <2>2. CASE kept
    BY <1>1, <1>3, <2>2, <1>5 DEF ModRecords, NoTd
  <2>3. CASE gives_up
    BY <1>1, <1>3, <2>3, <1>5 DEF ModRecords, NoTd
  <2>4. QED
    BY <1>4, <2>1, <2>2, <2>3
<1>13. OnlyTd(t)
  <2>1. \A u \in Tds : u # t => td'[u] = td[u] /\ mod'[u] = mod[u]
    BY <1>2 DEF LifeInv, LifeRecords
  <2>2. QED
    BY <1>2, <1>11, <1>12, <2>1 DEF OnlyTd
<1>14. TdHandsOver(t)
  <2>1. CASE returned
    BY <1>1, <1>3, <2>1, <1>5, <1>2 DEF LifeInv, TdHandsOver, HeldByTd, NonNull, PagesApart,
       TdRecords, PageOr0, TdStage, TdUnbuilt, TdBuilt, TdGiven, TdEnds, IsGiven, IsHost,
       Building, Created, Returning, Freeing
  <2>2. CASE kept
    BY <1>1, <1>3, <2>2, <1>5, <1>2 DEF LifeInv, TdHandsOver, HeldByTd, NonNull, PagesApart,
       TdRecords, PageOr0, TdStage, TdUnbuilt, TdBuilt, TdGiven, TdEnds, IsGiven, IsHost,
       Building, Created, Returning, Freeing
  <2>3. CASE gives_up
    BY <1>1, <1>3, <2>3, <1>5, <1>2 DEF LifeInv, TdHandsOver, HeldByTd, NonNull, PagesApart,
       TdRecords, PageOr0, TdStage, TdUnbuilt, TdBuilt, TdGiven, TdEnds, IsGiven, IsHost,
       Building, Created, Returning, Freeing
  <2>4. QED
    BY <1>4, <2>1, <2>2, <2>3
<1>15. TdUnbuilt(t)'
  <2>1. CASE returned
    BY <1>1, <1>3, <2>1, <1>5 DEF TdRecords, ModRecords, LifeInv, FreePagesAreHost, TdStage,
       TdUnbuilt, TdBuilt, TdKeyed, TdEnds, TdNothingElse, NoTd, Keyed, IsHost, NonNull,
       Building, Created, Returning, Freeing
  <2>2. CASE kept
    BY <1>1, <1>3, <2>2, <1>5 DEF TdRecords, ModRecords, LifeInv, FreePagesAreHost, TdStage,
       TdUnbuilt, TdBuilt, TdKeyed, TdEnds, TdNothingElse, NoTd, Keyed, IsHost, NonNull,
       Building, Created, Returning, Freeing
  <2>3. CASE gives_up
    BY <1>1, <1>3, <2>3, <1>5 DEF TdRecords, ModRecords, LifeInv, FreePagesAreHost, TdStage,
       TdUnbuilt, TdBuilt, TdKeyed, TdEnds, TdNothingElse, NoTd, Keyed, IsHost, NonNull,
       Building, Created, Returning, Freeing
  <2>4. QED
    BY <1>4, <2>1, <2>2, <2>3
<1>16. TdBuilt(t)'
  <2>1. CASE returned
    BY <1>1, <1>3, <2>1, <1>5 DEF TdRecords, TdStage, TdUnbuilt, TdBuilt, TdGiven, IsHost,
       IsGiven, NonNull, Building, Created, Returning, Freeing
  <2>2. CASE kept
    BY <1>1, <1>3, <2>2, <1>5 DEF TdRecords, TdStage, TdUnbuilt, TdBuilt, TdGiven, IsHost,
       IsGiven, NonNull, Building, Created, Returning, Freeing
  <2>3. CASE gives_up
    BY <1>1, <1>3, <2>3, <1>5 DEF TdRecords, TdStage, TdUnbuilt, TdBuilt, TdGiven, IsHost,
       IsGiven, NonNull, Building, Created, Returning, Freeing
  <2>4. QED
    BY <1>4, <2>1, <2>2, <2>3
<1>17. TdGiven(t)'
  <2>1. CASE returned
    BY <1>1, <1>3, <2>1, <1>5 DEF TdRecords, ModRecords, LifeInv, PagesApart, HeldByTd, TdStage,
       TdUnbuilt, TdBuilt, TdGiven, IsHost, IsGiven, NonNull, Building, Created, Returning,
       Freeing
  <2>2. CASE kept
    BY <1>1, <1>3, <2>2, <1>5 DEF TdRecords, ModRecords, LifeInv, PagesApart, HeldByTd, TdStage,
       TdUnbuilt, TdBuilt, TdGiven, IsHost, IsGiven, NonNull, Building, Created, Returning,
       Freeing
  <2>3. CASE gives_up
    BY <1>1, <1>3, <2>3, <1>5 DEF TdRecords, ModRecords, LifeInv, PagesApart, HeldByTd, TdStage,
       TdUnbuilt, TdBuilt, TdGiven, IsHost, IsGiven, NonNull, Building, Created, Returning,
       Freeing
  <2>4. QED
    BY <1>4, <2>1, <2>2, <2>3
<1>18. TdKeyed(t)'
  <2>1. CASE returned
    BY <1>1, <1>3, <2>1, <1>5 DEF TdRecords, ModRecords, TdStage, TdUnbuilt, TdKeyed, TdEnds,
       Keyed, NoTd, Building, Created, Returning, Freeing
  <2>2. CASE kept
    BY <1>1, <1>3, <2>2, <1>5 DEF TdRecords, ModRecords, TdStage, TdUnbuilt, TdKeyed, TdEnds,
       Keyed, NoTd, Building, Created, Returning, Freeing
  <2>3. CASE gives_up
    BY <1>1, <1>3, <2>3, <1>5 DEF TdRecords, ModRecords, TdStage, TdUnbuilt, TdKeyed, TdEnds,
       Keyed, NoTd, Building, Created, Returning, Freeing
  <2>4. QED
    BY <1>4, <2>1, <2>2, <2>3
<1>19. TdEnds(t)'
  <2>1. CASE returned
    BY <1>1, <1>3, <2>1, <1>5 DEF TdRecords, ModRecords, TdStage, TdUnbuilt, TdKeyed, TdEnds,
       Building, Created, Returning, Freeing
  <2>2. CASE kept
    BY <1>1, <1>3, <2>2, <1>5 DEF TdRecords, ModRecords, TdStage, TdUnbuilt, TdKeyed, TdEnds,
       Building, Created, Returning, Freeing
  <2>3. CASE gives_up
    BY <1>1, <1>3, <2>3, <1>5 DEF TdRecords, ModRecords, TdStage, TdUnbuilt, TdKeyed, TdEnds,
       Building, Created, Returning, Freeing
  <2>4. QED
    BY <1>4, <2>1, <2>2, <2>3
<1>20. TdGivesPages(t)
  <2>1. CASE returned
    BY <1>1, <1>3, <2>1, <1>5 DEF TdGivesPages, TdRecords, ModRecords, TdStage, TdUnbuilt,
       TdBuilt, TdGiven, TdKeyed, TdEnds, TdNothingElse, IsGiven, IsHost, NonNull, HeldByTd,
       NoTd, Keyed, Building, Created, Returning, Freeing
  <2>2. CASE kept
    BY <1>1, <1>3, <2>2, <1>5 DEF TdGivesPages, TdRecords, ModRecords, TdStage, TdUnbuilt,
       TdBuilt, TdGiven, TdKeyed, TdEnds, TdNothingElse, IsGiven, IsHost, NonNull, HeldByTd,
       NoTd, Keyed, Building, Created, Returning, Freeing
  <2>3. CASE gives_up
    BY <1>1, <1>3, <2>3, <1>5 DEF TdGivesPages, TdRecords, ModRecords, TdStage, TdUnbuilt,
       TdBuilt, TdGiven, TdKeyed, TdEnds, TdNothingElse, IsGiven, IsHost, NonNull, HeldByTd,
       NoTd, Keyed, Building, Created, Returning, Freeing
  <2>4. QED
    BY <1>4, <2>1, <2>2, <2>3
<1>21. KeyidsOwned'
  <2>1. td'[t].hkid = td[t].hkid
    BY <1>1, <1>4 DEF TdRecords, NoTd
  <2>2. \A u \in Tds : u # t => td'[u] = td[u]
    BY <1>2 DEF LifeInv, LifeRecords
  <2>3. QED
    BY <1>2, <2>1, <2>2, KeyidsFrame
<1>22. \A v \in VcpusOf(t) : VcpuPlace(v)'
  <2>1. SUFFICES ASSUME NEW v \in VcpusOf(t) PROVE VcpuPlace(v)'
    OBVIOUS
  <2>2. /\ v \in TdVcpus /\ TdOf[v] = t /\ tdVcpu'[v] = tdVcpu[v]
        /\ VcpuStage(v) /\ tdVcpu[v] \in VcpuRecords
    BY <1>2, RecordsOf DEF VcpusOf
  <2>3. CASE returned
    BY <1>1, <1>3, <2>2, <2>3, <1>5 DEF TdRecords, TdPcs, VcpuRecords, VcpuStage, VcpuPlace,
       TdStage, TdEnds, TdKeyed, Building, Created, Returning, Freeing, VpBuilding, VpCreated
  <2>4. CASE kept
    BY <1>1, <1>3, <2>2, <2>4, <1>5 DEF TdRecords, TdPcs, VcpuRecords, VcpuStage, VcpuPlace,
       TdStage, TdEnds, TdKeyed, Building, Created, Returning, Freeing, VpBuilding, VpCreated
  <2>5. CASE gives_up
    BY <1>1, <1>3, <2>2, <2>5, <1>5 DEF TdRecords, TdPcs, VcpuRecords, VcpuStage, VcpuPlace,
       TdStage, TdEnds, TdKeyed, Building, Created, Returning, Freeing, VpBuilding, VpCreated
  <2>6. QED
    BY <1>4, <2>3, <2>4, <2>5
<1>23. \A v \in VcpusOf(t) : VcpuKeyed(v)'
  <2>1. SUFFICES ASSUME NEW v \in VcpusOf(t) PROVE VcpuKeyed(v)'
    OBVIOUS
  <2>2. /\ v \in TdVcpus /\ TdOf[v] = t /\ tdVcpu'[v] = tdVcpu[v]
        /\ VcpuStage(v) /\ tdVcpu[v] \in VcpuRecords
    BY <1>2, RecordsOf DEF VcpusOf
  <2>3. CASE returned
    BY <1>1, <1>3, <2>2, <2>3, <1>5 DEF TdRecords, ModRecords, NoTd, VcpuRecords, VcpuStage,
       VcpuPages, VcpuPlace, VcpuKeyed, TdStage, TdKeyed, Building, Created, Returning, Freeing
  <2>4. CASE kept
    BY <1>1, <1>3, <2>2, <2>4, <1>5 DEF TdRecords, ModRecords, NoTd, VcpuRecords, VcpuStage,
       VcpuPages, VcpuPlace, VcpuKeyed, TdStage, TdKeyed, Building, Created, Returning, Freeing
  <2>5. CASE gives_up
    BY <1>1, <1>3, <2>2, <2>5, <1>5 DEF TdRecords, ModRecords, NoTd, VcpuRecords, VcpuStage,
       VcpuPages, VcpuPlace, VcpuKeyed, TdStage, TdKeyed, Building, Created, Returning, Freeing
  <2>6. QED
    BY <1>4, <2>3, <2>4, <2>5
<1>24. QED
  BY <1>9, <1>10, <1>13, <1>14, <1>15, <1>16, <1>17, <1>18, <1>19, <1>20, <1>21, <1>22, <1>23,
     TdStepKeeps, TdGivesElse DEF TdStage

\* A VCPU begins without pages.
LEMMA CreateVcpuKeeps == ASSUME LifeInv, NEW v \in TdVcpus, CreateVcpu(v) PROVE LifeInv'
<1> DEFINE t == TdOf[v]
<1>1. /\ td[t] \in TdRecords /\ mod[t] \in ModRecords /\ TdStage(t)
      /\ tdVcpu[v] \in VcpuRecords /\ VcpuStage(v) /\ t \in Tds
      /\ NullPa \notin KernelPages
      /\ free \subseteq KernelPages /\ pamt \in [KernelPages -> PageKinds]
  BY RecordsOf
<1>2. /\ tdVcpu' = [tdVcpu EXCEPT ![v] = tdVcpu'[v]] /\ td' = [td EXCEPT ![t] = td'[t]]
      /\ mod' = [mod EXCEPT ![t] = mod'[t]]
      /\ pool' = pool /\ nr_configured_hkid' = nr_configured_hkid
  BY <1>1 DEF LifeInv, LifeRecords, CreateVcpu, InTd, SetVcpu, GoVcpu, InVcpu
<1>3. td' = td \/ td' = [td EXCEPT ![t].bugged = TRUE]
  BY DEF CreateVcpu, InTd, SetVcpu, GoVcpu, InVcpu
<1>4. /\ tdVcpu[v].pc = "none"
      /\ td[t].pc = "idle"
  BY <1>1 DEF CreateVcpu, InTd, SetVcpu, GoVcpu, InVcpu, TdRecords
<1>5. /\ tdVcpu'[v] = [tdVcpu[v] EXCEPT !.pc = "idle"]
      /\ td'[t] = td[t]
      /\ mod'[t] = mod[t]
      /\ pamt' = pamt
      /\ free' = free
  BY <1>1, <1>4 DEF LifeInv, LifeRecords, TdRecords, TdStage, TdKeyed, TdGiven, IsGiven,
     CreateVcpu, InTd, SetVcpu, GoVcpu, InVcpu
<1>6. tdVcpu'[v] \in VcpuRecords
  BY <1>1, <1>4, <1>5 DEF VcpuRecords, VcpuStage, VcpuPages, LifeVcpuPcs, VpBuilding, VpCreated,
     PageOr0
<1>7. td'[t] \in TdRecords
  BY <1>1, <1>4, <1>5 DEF TdRecords
<1>8. mod'[t] \in ModRecords
  BY <1>1, <1>4, <1>5 DEF ModRecords, VcpuRecords
<1>9. pamt' \in [KernelPages -> PageKinds] /\ free' \subseteq KernelPages
  BY <1>1, <1>4, <1>5 DEF PageKinds, VcpuRecords, PageOr0, VcpuStage, VcpuPages, VpBuilding,
     VpCreated
<1>10. LifeRecords'
  BY <1>1, <1>2, <1>6, <1>7, <1>8, <1>9 DEF LifeInv, LifeRecords
<1>11. FreePagesAreHost'
  BY <1>1, <1>4, <1>5 DEF LifeInv, FreePagesAreHost, VcpuStage, VcpuPages, IsHost, VcpuRecords,
     PageOr0, VpBuilding, VpCreated
<1>12. \A p \in KernelPages : p \notin HeldByVcpu(v) => pamt'[p] = pamt[p]
  BY <1>1, <1>4, <1>5 DEF HeldByVcpu, NonNull, VcpuRecords, VcpuStage, VcpuPages, VpBuilding,
     VpCreated
<1>13. /\ mod[t].kept => mod'[t].kept
       /\ mod'[t].key = mod[t].key /\ mod'[t].hkid = mod[t].hkid
  BY <1>1, <1>4, <1>5 DEF ModRecords
<1>14. OnlyVcpu(v)
  <2>1. \A w \in TdVcpus : w # v => tdVcpu'[w] = tdVcpu[w]
    BY <1>2 DEF LifeInv, LifeRecords
  <2>2. \A u \in Tds : u # t => td'[u] = td[u] /\ mod'[u] = mod[u]
    BY <1>2 DEF LifeInv, LifeRecords
  <2>3. QED
    BY <1>2, <1>3, <1>12, <1>13, <2>1, <2>2 DEF OnlyVcpu
<1>15. VcpuHandsOver(v)
  BY <1>1, <1>4, <1>5, <1>2 DEF LifeInv, VcpuHandsOver, HeldByVcpu, NonNull, PagesApart,
     VcpuRecords, PageOr0, VcpuStage, VcpuPages, VcpuKeyed, IsGiven, IsHost, VpBuilding,
     VpCreated
<1>16. TdrStays(TdOf[v])
  BY <1>1, <1>4, <1>5 DEF LifeInv, ModRecords, TdrStays, TdStage, TdGiven, PagesApart, HeldByTd,
     HeldByVcpu, NonNull
<1>17. VcpuPages(v)'
  BY <1>1, <1>4, <1>5 DEF VcpuRecords, LifeInv, FreePagesAreHost, PagesApart, HeldByVcpu,
     VcpuStage, VcpuPages, VcpuKeyed, IsHost, IsGiven, NonNull, VpBuilding, VpCreated
<1>18. VcpuPlace(v)'
  BY <1>1, <1>4, <1>5, <1>2 DEF TdRecords, TdPcs, VcpuRecords, VcpuStage, VcpuPlace, TdStage,
     TdEnds, TdKeyed, Building, Created, Returning, Freeing, VpBuilding, VpCreated
<1>19. VcpuKeyed(v)'
  BY <1>1, <1>4, <1>5 DEF TdRecords, ModRecords, VcpuRecords, VcpuStage, VcpuPages, VcpuPlace,
     VcpuKeyed, TdStage, TdKeyed, Building, Created, Returning, Freeing, VpBuilding, VpCreated
<1>20. VcpuGivesPages(v)
  BY <1>1, <1>4, <1>5 DEF TdRecords, ModRecords, VcpuRecords, LifeInv, PagesApart, HeldByVcpu,
     NonNull, TdStage, TdGiven, TdKeyed, TdNothingElse, IsGiven, IsHost, Keyed, VcpuStage,
     VcpuPages, VcpuPlace, VcpuKeyed, VcpuGivesPages, NoTd, Building, Created, Returning,
     Freeing, VpBuilding, VpCreated
<1>21. QED
  BY <1>1, <1>10, <1>11, <1>14, <1>15, <1>16, <1>17, <1>18, <1>19, <1>20, VcpuStepKeeps
     DEF VcpuStage

\* KVM_TDX_INIT_VCPU takes a page for the TDVPR.
LEMMA InitVcpuKeeps == ASSUME LifeInv, NEW v \in TdVcpus, InitVcpu(v) PROVE LifeInv'
<1> DEFINE t == TdOf[v]
<1>1. /\ td[t] \in TdRecords /\ mod[t] \in ModRecords /\ TdStage(t)
      /\ tdVcpu[v] \in VcpuRecords /\ VcpuStage(v) /\ t \in Tds
      /\ NullPa \notin KernelPages
      /\ free \subseteq KernelPages /\ pamt \in [KernelPages -> PageKinds]
  BY RecordsOf
<1>2. /\ tdVcpu' = [tdVcpu EXCEPT ![v] = tdVcpu'[v]] /\ td' = [td EXCEPT ![t] = td'[t]]
      /\ mod' = [mod EXCEPT ![t] = mod'[t]]
      /\ pool' = pool /\ nr_configured_hkid' = nr_configured_hkid
  BY <1>1, AllocIsFree DEF LifeInv, LifeRecords, InitVcpu, SetVcpu, InVcpu, HkidAssigned
<1>3. td' = td \/ td' = [td EXCEPT ![t].bugged = TRUE]
  BY DEF InitVcpu, SetVcpu, InVcpu, HkidAssigned
<1>4. /\ tdVcpu[v].pc = "idle"
      /\ ~tdVcpu[v].created
      /\ ~td[t].bugged
      /\ td[t].hkid # 0
      /\ ~td[t].ending
      /\ Alloc \in free
  BY <1>1, AllocIsFree DEF InitVcpu, SetVcpu, InVcpu, HkidAssigned, TdRecords
<1>5. /\ tdVcpu'[v] = [tdVcpu[v] EXCEPT !.pc = "alloc_tdvpx", !.new_tdvpr = Alloc]
      /\ td'[t] = td[t]
      /\ mod'[t] = mod[t]
      /\ pamt' = pamt
      /\ free' = free \ {Alloc}
  BY <1>1, <1>4, AllocIsFree DEF LifeInv, LifeRecords, TdRecords, TdStage, TdKeyed, TdGiven,
     IsGiven, InitVcpu, SetVcpu, InVcpu, HkidAssigned
<1>6. tdVcpu'[v] \in VcpuRecords
  BY <1>1, <1>4, <1>5 DEF VcpuRecords, VcpuStage, VcpuPages, LifeVcpuPcs, VpBuilding, VpCreated,
     PageOr0
<1>7. td'[t] \in TdRecords
  BY <1>1, <1>4, <1>5 DEF TdRecords
<1>8. mod'[t] \in ModRecords
  BY <1>1, <1>4, <1>5 DEF ModRecords, VcpuRecords
<1>9. pamt' \in [KernelPages -> PageKinds] /\ free' \subseteq KernelPages
  BY <1>1, <1>4, <1>5 DEF PageKinds, VcpuRecords, PageOr0, VcpuStage, VcpuPages, VpBuilding,
     VpCreated
<1>10. LifeRecords'
  BY <1>1, <1>2, <1>6, <1>7, <1>8, <1>9 DEF LifeInv, LifeRecords
<1>11. FreePagesAreHost'
  BY <1>1, <1>4, <1>5 DEF LifeInv, FreePagesAreHost, VcpuStage, VcpuPages, IsHost, VcpuRecords,
     PageOr0, VpBuilding, VpCreated
<1>12. \A p \in KernelPages : p \notin HeldByVcpu(v) => pamt'[p] = pamt[p]
  BY <1>1, <1>4, <1>5 DEF HeldByVcpu, NonNull, VcpuRecords, VcpuStage, VcpuPages, VpBuilding,
     VpCreated
<1>13. /\ mod[t].kept => mod'[t].kept
       /\ mod'[t].key = mod[t].key /\ mod'[t].hkid = mod[t].hkid
  BY <1>1, <1>4, <1>5 DEF ModRecords
<1>14. OnlyVcpu(v)
  <2>1. \A w \in TdVcpus : w # v => tdVcpu'[w] = tdVcpu[w]
    BY <1>2 DEF LifeInv, LifeRecords
  <2>2. \A u \in Tds : u # t => td'[u] = td[u] /\ mod'[u] = mod[u]
    BY <1>2 DEF LifeInv, LifeRecords
  <2>3. QED
    BY <1>2, <1>3, <1>12, <1>13, <2>1, <2>2 DEF OnlyVcpu
<1>15. VcpuHandsOver(v)
  BY <1>1, <1>4, <1>5, <1>2 DEF LifeInv, VcpuHandsOver, HeldByVcpu, NonNull, PagesApart,
     VcpuRecords, PageOr0, VcpuStage, VcpuPages, VcpuKeyed, IsGiven, IsHost, VpBuilding,
     VpCreated
<1>16. TdrStays(TdOf[v])
  BY <1>1, <1>4, <1>5 DEF LifeInv, ModRecords, TdrStays, TdStage, TdGiven, PagesApart, HeldByTd,
     HeldByVcpu, NonNull
<1>17. VcpuPages(v)'
  BY <1>1, <1>4, <1>5 DEF VcpuRecords, LifeInv, FreePagesAreHost, PagesApart, HeldByVcpu,
     VcpuStage, VcpuPages, VcpuKeyed, IsHost, IsGiven, NonNull, VpBuilding, VpCreated
<1>18. VcpuPlace(v)'
  BY <1>1, <1>4, <1>5, <1>2 DEF TdRecords, TdPcs, VcpuRecords, VcpuStage, VcpuPlace, TdStage,
     TdEnds, TdKeyed, Building, Created, Returning, Freeing, VpBuilding, VpCreated
<1>19. VcpuKeyed(v)'
  BY <1>1, <1>4, <1>5 DEF TdRecords, ModRecords, VcpuRecords, VcpuStage, VcpuPages, VcpuPlace,
     VcpuKeyed, TdStage, TdKeyed, Building, Created, Returning, Freeing, VpBuilding, VpCreated
<1>20. VcpuGivesPages(v)
  BY <1>1, <1>4, <1>5 DEF TdRecords, ModRecords, VcpuRecords, LifeInv, PagesApart, HeldByVcpu,
     NonNull, TdStage, TdGiven, TdKeyed, TdNothingElse, IsGiven, IsHost, Keyed, VcpuStage,
     VcpuPages, VcpuPlace, VcpuKeyed, VcpuGivesPages, NoTd, Building, Created, Returning,
     Freeing, VpBuilding, VpCreated
<1>21. QED
  BY <1>1, <1>10, <1>11, <1>14, <1>15, <1>16, <1>17, <1>18, <1>19, <1>20, VcpuStepKeeps
     DEF VcpuStage

\* A page for the TDVPX is taken from the free ones, until all are there.
LEMMA AllocTdvpxKeeps == ASSUME LifeInv, NEW v \in TdVcpus, AllocTdvpx(v) PROVE LifeInv'
<1> DEFINE t == TdOf[v]
<1>1. /\ td[t] \in TdRecords /\ mod[t] \in ModRecords /\ TdStage(t)
      /\ tdVcpu[v] \in VcpuRecords /\ VcpuStage(v) /\ t \in Tds
      /\ NullPa \notin KernelPages
      /\ free \subseteq KernelPages /\ pamt \in [KernelPages -> PageKinds]
  BY RecordsOf
<1>2. /\ tdVcpu' = [tdVcpu EXCEPT ![v] = tdVcpu'[v]] /\ td' = [td EXCEPT ![t] = td'[t]]
      /\ mod' = [mod EXCEPT ![t] = mod'[t]]
      /\ pool' = pool /\ nr_configured_hkid' = nr_configured_hkid
  BY <1>1, AllocIsFree DEF LifeInv, LifeRecords, AllocTdvpx, SetVcpu, GoVcpu, InVcpu
<1>3. td' = td \/ td' = [td EXCEPT ![t].bugged = TRUE]
  BY DEF AllocTdvpx, SetVcpu, GoVcpu, InVcpu
<1>4. tdVcpu[v].pc = "alloc_tdvpx"
  BY <1>1, AllocIsFree DEF AllocTdvpx, SetVcpu, GoVcpu, InVcpu, TdRecords
<1>5. \/ /\ tdVcpu'[v] = [tdVcpu[v] EXCEPT !.pc = "free_tdvpx"]
         /\ td'[t] = td[t]
         /\ mod'[t] = mod[t]
         /\ pamt' = pamt
         /\ free' = free
      \/ /\ tdVcpu'[v] = [tdVcpu[v] EXCEPT !.new_tdvpx = tdVcpu[v].new_tdvpx \cup {Alloc}]
         /\ td'[t] = td[t]
         /\ mod'[t] = mod[t]
         /\ pamt' = pamt
         /\ free' = free \ {Alloc}
         /\ Alloc \in free
      \/ /\ tdVcpu'[v] = [tdVcpu[v] EXCEPT !.pc = "vp_create"]
         /\ td'[t] = td[t]
         /\ mod'[t] = mod[t]
         /\ pamt' = pamt
         /\ free' = free
  BY <1>1, <1>4, AllocIsFree, ZenonT(60) DEF LifeInv, LifeRecords, TdRecords, TdStage, TdKeyed,
     TdGiven,
     IsGiven, AllocTdvpx, SetVcpu, GoVcpu, InVcpu
<1>6. tdVcpu'[v] \in VcpuRecords
  BY <1>1, <1>4, <1>5 DEF VcpuRecords, VcpuStage, VcpuPages, LifeVcpuPcs, VpBuilding, VpCreated,
     PageOr0
<1>7. td'[t] \in TdRecords
  BY <1>1, <1>4, <1>5 DEF TdRecords
<1>8. mod'[t] \in ModRecords
  BY <1>1, <1>4, <1>5 DEF ModRecords, VcpuRecords
<1>9. pamt' \in [KernelPages -> PageKinds] /\ free' \subseteq KernelPages
  BY <1>1, <1>4, <1>5 DEF PageKinds, VcpuRecords, PageOr0, VcpuStage, VcpuPages, VpBuilding,
     VpCreated
<1>10. LifeRecords'
  BY <1>1, <1>2, <1>6, <1>7, <1>8, <1>9 DEF LifeInv, LifeRecords
<1>11. FreePagesAreHost'
  BY <1>1, <1>4, <1>5 DEF LifeInv, FreePagesAreHost, VcpuStage, VcpuPages, IsHost, VcpuRecords,
     PageOr0, VpBuilding, VpCreated
<1>12. \A p \in KernelPages : p \notin HeldByVcpu(v) => pamt'[p] = pamt[p]
  BY <1>1, <1>4, <1>5 DEF HeldByVcpu, NonNull, VcpuRecords, VcpuStage, VcpuPages, VpBuilding,
     VpCreated
<1>13. /\ mod[t].kept => mod'[t].kept
       /\ mod'[t].key = mod[t].key /\ mod'[t].hkid = mod[t].hkid
  BY <1>1, <1>4, <1>5 DEF ModRecords
<1>14. OnlyVcpu(v)
  <2>1. \A w \in TdVcpus : w # v => tdVcpu'[w] = tdVcpu[w]
    BY <1>2 DEF LifeInv, LifeRecords
  <2>2. \A u \in Tds : u # t => td'[u] = td[u] /\ mod'[u] = mod[u]
    BY <1>2 DEF LifeInv, LifeRecords
  <2>3. QED
    BY <1>2, <1>3, <1>12, <1>13, <2>1, <2>2 DEF OnlyVcpu
<1>15. VcpuHandsOver(v)
  BY <1>1, <1>4, <1>5, <1>2 DEF LifeInv, VcpuHandsOver, HeldByVcpu, NonNull, PagesApart,
     VcpuRecords, PageOr0, VcpuStage, VcpuPages, VcpuKeyed, IsGiven, IsHost, VpBuilding,
     VpCreated
<1>16. TdrStays(TdOf[v])
  BY <1>1, <1>4, <1>5 DEF LifeInv, ModRecords, TdrStays, TdStage, TdGiven, PagesApart, HeldByTd,
     HeldByVcpu, NonNull
<1>17. VcpuPages(v)'
  BY <1>1, <1>4, <1>5 DEF VcpuRecords, LifeInv, FreePagesAreHost, PagesApart, HeldByVcpu,
     VcpuStage, VcpuPages, VcpuKeyed, IsHost, IsGiven, NonNull, VpBuilding, VpCreated
<1>18. VcpuPlace(v)'
  BY <1>1, <1>4, <1>5, <1>2 DEF TdRecords, TdPcs, VcpuRecords, VcpuStage, VcpuPlace, TdStage,
     TdEnds, TdKeyed, Building, Created, Returning, Freeing, VpBuilding, VpCreated
<1>19. VcpuKeyed(v)'
  BY <1>1, <1>4, <1>5 DEF TdRecords, ModRecords, VcpuRecords, VcpuStage, VcpuPages, VcpuPlace,
     VcpuKeyed, TdStage, TdKeyed, Building, Created, Returning, Freeing, VpBuilding, VpCreated
<1>20. VcpuGivesPages(v)
  BY <1>1, <1>4, <1>5, SMTT(30) DEF TdRecords, ModRecords, VcpuRecords, LifeInv, PagesApart,
     HeldByVcpu,
     NonNull, TdStage, TdGiven, TdKeyed, TdNothingElse, IsGiven, IsHost, Keyed, VcpuStage,
     VcpuPages, VcpuPlace, VcpuKeyed, VcpuGivesPages, NoTd, Building, Created, Returning,
     Freeing, VpBuilding, VpCreated
<1>21. QED
  BY <1>1, <1>10, <1>11, <1>14, <1>15, <1>16, <1>17, <1>18, <1>19, <1>20, VcpuStepKeeps
     DEF VcpuStage

\* TDH.VP.CREATE makes the page the TDVPR, or the VM is dead.
LEMMA VpCreateKeeps == ASSUME LifeInv, NEW v \in TdVcpus, VpCreate(v) PROVE LifeInv'
<1> DEFINE t == TdOf[v]
<1> DEFINE done ==
      /\ tdVcpu'[v] = [tdVcpu[v] EXCEPT !.pc = "vp_addcx", !.tdvpr = tdVcpu[v].new_tdvpr,
                                        !.tdvpx = tdVcpu[v].new_tdvpx]
      /\ td'[t] = td[t]
      /\ mod'[t] = [mod[t] EXCEPT !.pages = mod[t].pages \cup {tdVcpu[v].new_tdvpr}]
      /\ pamt' = [pamt EXCEPT ![tdVcpu[v].new_tdvpr] = "TDVPR"]
      /\ free' = free
<1> DEFINE bugs ==
      /\ tdVcpu'[v] = [tdVcpu[v] EXCEPT !.pc = "free_tdvpx"]
      /\ td'[t] = [td[t] EXCEPT !.bugged = TRUE]
      /\ mod'[t] = mod[t]
      /\ pamt' = pamt
      /\ free' = free
<1>1. /\ td[t] \in TdRecords /\ mod[t] \in ModRecords /\ TdStage(t)
      /\ tdVcpu[v] \in VcpuRecords /\ VcpuStage(v) /\ t \in Tds
      /\ NullPa \notin KernelPages
      /\ free \subseteq KernelPages /\ pamt \in [KernelPages -> PageKinds]
  BY RecordsOf
<1>2. /\ tdVcpu' = [tdVcpu EXCEPT ![v] = tdVcpu'[v]] /\ td' = [td EXCEPT ![t] = td'[t]]
      /\ mod' = [mod EXCEPT ![t] = mod'[t]]
      /\ pool' = pool /\ nr_configured_hkid' = nr_configured_hkid
  BY <1>1 DEF LifeInv, LifeRecords, VpCreate, SetVcpu, GoVcpu, InVcpu, Given, Bugged
<1>3. td' = td \/ td' = [td EXCEPT ![t].bugged = TRUE]
  BY DEF VpCreate, SetVcpu, GoVcpu, InVcpu, Given, Bugged
<1>4. tdVcpu[v].pc = "vp_create"
  BY <1>1 DEF VpCreate, SetVcpu, GoVcpu, InVcpu, TdRecords
<1>5. done \/ bugs
  BY <1>1, <1>4 DEF LifeInv, LifeRecords, TdRecords, TdStage, TdKeyed, TdGiven, IsGiven,
     VpCreate, SetVcpu, GoVcpu, InVcpu, Given, Bugged
<1>6. /\ tdVcpu[v].new_tdvpr \in HeldByVcpu(v) /\ tdVcpu[v].new_tdvpr \in KernelPages
      /\ tdVcpu[v].new_tdvpr \notin free /\ td[t].tdr # NullPa
  BY <1>1, <1>4 DEF VcpuRecords, PageOr0, LifeInv, PagesApart, HeldByVcpu, NonNull, VcpuStage,
     VcpuPages, VcpuPlace, TdStage, TdKeyed, Building, Created, VpBuilding
<1>7. tdVcpu'[v] \in VcpuRecords
  <2>1. CASE done
    BY <1>1, <1>4, <2>1, <1>6 DEF VcpuRecords, VcpuStage, VcpuPages, LifeVcpuPcs, VpBuilding,
       VpCreated, PageOr0
  <2>2. CASE bugs
    BY <1>1, <1>4, <2>2, <1>6 DEF VcpuRecords, VcpuStage, VcpuPages, LifeVcpuPcs, VpBuilding,
       VpCreated, PageOr0
  <2>3. QED
    BY <1>5, <2>1, <2>2
<1>8. td'[t] \in TdRecords
  <2>1. CASE done
    BY <1>1, <1>4, <2>1, <1>6 DEF TdRecords
  <2>2. CASE bugs
    BY <1>1, <1>4, <2>2, <1>6 DEF TdRecords
  <2>3. QED
    BY <1>5, <2>1, <2>2
<1>9. mod'[t] \in ModRecords
  <2>1. CASE done
    BY <1>1, <1>4, <2>1, <1>6 DEF ModRecords, VcpuRecords
  <2>2. CASE bugs
    BY <1>1, <1>4, <2>2, <1>6 DEF ModRecords, VcpuRecords
  <2>3. QED
    BY <1>5, <2>1, <2>2
<1>10. pamt' \in [KernelPages -> PageKinds] /\ free' \subseteq KernelPages
  BY <1>1, <1>4, <1>5, <1>6 DEF PageKinds, VcpuRecords, PageOr0, VcpuStage, VcpuPages,
     VpBuilding, VpCreated
<1>11. LifeRecords'
  BY <1>1, <1>2, <1>7, <1>8, <1>9, <1>10 DEF LifeInv, LifeRecords
<1>12. FreePagesAreHost'
  <2>1. CASE done
    BY <1>1, <1>4, <2>1, <1>6 DEF LifeInv, FreePagesAreHost, VcpuStage, VcpuPages, IsHost,
       VcpuRecords, PageOr0, VpBuilding, VpCreated
  <2>2. CASE bugs
    BY <1>1, <1>4, <2>2, <1>6 DEF LifeInv, FreePagesAreHost, VcpuStage, VcpuPages, IsHost,
       VcpuRecords, PageOr0, VpBuilding, VpCreated
  <2>3. QED
    BY <1>5, <2>1, <2>2
<1>13. \A p \in KernelPages : p \notin HeldByVcpu(v) => pamt'[p] = pamt[p]
  BY <1>1, <1>4, <1>5, <1>6 DEF HeldByVcpu, NonNull, VcpuRecords, VcpuStage, VcpuPages,
     VpBuilding, VpCreated
<1>14. /\ mod[t].kept => mod'[t].kept
       /\ mod'[t].key = mod[t].key /\ mod'[t].hkid = mod[t].hkid
  BY <1>1, <1>4, <1>5, <1>6 DEF ModRecords
<1>15. OnlyVcpu(v)
  <2>1. \A w \in TdVcpus : w # v => tdVcpu'[w] = tdVcpu[w]
    BY <1>2 DEF LifeInv, LifeRecords
  <2>2. \A u \in Tds : u # t => td'[u] = td[u] /\ mod'[u] = mod[u]
    BY <1>2 DEF LifeInv, LifeRecords
  <2>3. QED
    BY <1>2, <1>3, <1>13, <1>14, <2>1, <2>2 DEF OnlyVcpu
<1>16. VcpuHandsOver(v)
  <2>1. CASE done
    BY <1>1, <1>4, <2>1, <1>6, <1>2 DEF LifeInv, VcpuHandsOver, HeldByVcpu, NonNull, PagesApart,
       VcpuRecords, PageOr0, VcpuStage, VcpuPages, VcpuKeyed, IsGiven, IsHost, VpBuilding,
       VpCreated
  <2>2. CASE bugs
    BY <1>1, <1>4, <2>2, <1>6, <1>2 DEF LifeInv, VcpuHandsOver, HeldByVcpu, NonNull, PagesApart,
       VcpuRecords, PageOr0, VcpuStage, VcpuPages, VcpuKeyed, IsGiven, IsHost, VpBuilding,
       VpCreated
  <2>3. QED
    BY <1>5, <2>1, <2>2
<1>17. TdrStays(TdOf[v])
  BY <1>1, <1>4, <1>5, <1>6 DEF LifeInv, ModRecords, TdrStays, TdStage, TdGiven, PagesApart,
     HeldByTd, HeldByVcpu, NonNull
<1>18. VcpuPages(v)'
  <2>1. CASE done
    BY <1>1, <1>4, <2>1, <1>6 DEF VcpuRecords, LifeInv, FreePagesAreHost, PagesApart,
       HeldByVcpu, VcpuStage, VcpuPages, VcpuKeyed, IsHost, IsGiven, NonNull, VpBuilding,
       VpCreated
  <2>2. CASE bugs
    BY <1>1, <1>4, <2>2, <1>6 DEF VcpuRecords, LifeInv, FreePagesAreHost, PagesApart,
       HeldByVcpu, VcpuStage, VcpuPages, VcpuKeyed, IsHost, IsGiven, NonNull, VpBuilding,
       VpCreated
  <2>3. QED
    BY <1>5, <2>1, <2>2
<1>19. VcpuPlace(v)'
  BY <1>1, <1>4, <1>5, <1>6, <1>2, ZenonT(60) DEF TdRecords, TdPcs, VcpuRecords, VcpuStage,
     VcpuPlace,
     TdStage, TdEnds, TdKeyed, Building, Created, Returning, Freeing, VpBuilding, VpCreated
<1>20. VcpuKeyed(v)'
  BY <1>1, <1>4, <1>5, <1>6 DEF TdRecords, ModRecords, VcpuRecords, VcpuStage, VcpuPages,
     VcpuPlace, VcpuKeyed, TdStage, TdKeyed, Building, Created, Returning, Freeing, VpBuilding,
     VpCreated
<1>21. VcpuGivesPages(v)
  <2>1. CASE done
    BY <1>1, <1>4, <2>1, <1>6, SMTT(30) DEF TdRecords, ModRecords, VcpuRecords, LifeInv,
       PagesApart,
       HeldByVcpu, NonNull, TdStage, TdGiven, TdKeyed, TdNothingElse, IsGiven, IsHost, Keyed,
       VcpuStage, VcpuPages, VcpuPlace, VcpuKeyed, VcpuGivesPages, NoTd, Building, Created,
       Returning, Freeing, VpBuilding, VpCreated
  <2>2. CASE bugs
    BY <1>1, <1>4, <2>2, <1>6, SMTT(30) DEF TdRecords, ModRecords, VcpuRecords, LifeInv,
       PagesApart,
       HeldByVcpu, NonNull, TdStage, TdGiven, TdKeyed, TdNothingElse, IsGiven, IsHost, Keyed,
       VcpuStage, VcpuPages, VcpuPlace, VcpuKeyed, VcpuGivesPages, NoTd, Building, Created,
       Returning, Freeing, VpBuilding, VpCreated
  <2>3. QED
    BY <1>5, <2>1, <2>2
<1>22. QED
  BY <1>1, <1>11, <1>12, <1>15, <1>16, <1>17, <1>18, <1>19, <1>20, <1>21, VcpuStepKeeps
     DEF VcpuStage

\* TDH.VP.ADDCX makes a page one of the TDVPX; what it refuses is given back.
LEMMA VpAddCxKeeps == ASSUME LifeInv, NEW v \in TdVcpus, VpAddCx(v) PROVE LifeInv'
<1> DEFINE t == TdOf[v]
<1> DEFINE unadded == {p \in tdVcpu[v].tdvpx : pamt[p] = "host"}
<1> DEFINE page == Least(unadded)
<1> DEFINE adds ==
      /\ tdVcpu'[v] = tdVcpu[v]
      /\ td'[t] = td[t]
      /\ mod'[t] = [mod[t] EXCEPT !.pages = mod[t].pages \cup {page}]
      /\ pamt' = [pamt EXCEPT ![page] = "TDVPX"]
      /\ free' = free
      /\ page \in tdVcpu[v].tdvpx
      /\ pamt[page] = "host"
<1> DEFINE bugs ==
      /\ tdVcpu'[v] = [tdVcpu[v] EXCEPT !.pc = "idle", !.tdvpx = tdVcpu[v].tdvpx \ unadded,
                                        !.new_tdvpr = NullPa, !.new_tdvpx = {}]
      /\ td'[t] = [td[t] EXCEPT !.bugged = TRUE]
      /\ mod'[t] = mod[t]
      /\ pamt' = pamt
      /\ free' = free \cup unadded
<1> DEFINE over ==
      /\ tdVcpu'[v] = [tdVcpu[v] EXCEPT !.pc = "vp_init"]
      /\ td'[t] = td[t]
      /\ mod'[t] = mod[t]
      /\ pamt' = pamt
      /\ free' = free
      /\ IsGiven(tdVcpu[v].tdvpx)
<1>1. /\ td[t] \in TdRecords /\ mod[t] \in ModRecords /\ TdStage(t)
      /\ tdVcpu[v] \in VcpuRecords /\ VcpuStage(v) /\ t \in Tds
      /\ NullPa \notin KernelPages
      /\ free \subseteq KernelPages /\ pamt \in [KernelPages -> PageKinds]
  BY RecordsOf
<1>2. unadded # {} => page \in unadded
  BY <1>1, LeastIsIn, TdxLifeAssumption DEF VcpuRecords
<1> HIDE DEF page
<1>3. /\ tdVcpu' = [tdVcpu EXCEPT ![v] = tdVcpu'[v]] /\ td' = [td EXCEPT ![t] = td'[t]]
      /\ mod' = [mod EXCEPT ![t] = mod'[t]]
      /\ pool' = pool /\ nr_configured_hkid' = nr_configured_hkid
  BY <1>1, <1>2 DEF LifeInv, LifeRecords, VpAddCx, SetVcpu, GoVcpu, InVcpu, Given, Bugged
<1>4. td' = td \/ td' = [td EXCEPT ![t].bugged = TRUE]
  BY DEF VpAddCx, SetVcpu, GoVcpu, InVcpu, Given, Bugged
<1>5. tdVcpu[v].pc = "vp_addcx"
  BY <1>1, <1>2 DEF VpAddCx, SetVcpu, GoVcpu, InVcpu, TdRecords
<1>6. adds \/ bugs \/ over
  BY <1>1, <1>2, <1>5 DEF LifeInv, LifeRecords, TdRecords, TdStage, TdKeyed, TdGiven, IsGiven,
     VpAddCx, SetVcpu, GoVcpu, InVcpu, Given, Bugged, page
<1>7. /\ tdVcpu[v].tdvpx \subseteq HeldByVcpu(v) /\ tdVcpu[v].tdvpx \cap free = {}
      /\ td[t].tdr # NullPa
  BY <1>1, <1>5 DEF LifeInv, PagesApart, HeldByVcpu, VcpuStage, VcpuPlace, TdStage, TdKeyed,
     Building, VpCreated
<1>8. tdVcpu'[v] \in VcpuRecords
  <2>1. CASE adds
    BY <1>1, <1>5, <2>1, <1>7 DEF VcpuRecords, VcpuStage, VcpuPages, LifeVcpuPcs, VpBuilding,
       VpCreated, PageOr0
  <2>2. CASE bugs
    <3>1. tdVcpu[v].tdvpx \ unadded \in SUBSET KernelPages
      BY <1>1 DEF VcpuRecords
    <3> HIDE DEF unadded
    <3>2. QED
      BY <1>1, <2>2, <3>1 DEF VcpuRecords, LifeVcpuPcs, PageOr0
  <2>3. CASE over
    BY <1>1, <1>5, <2>3, <1>7 DEF VcpuRecords, VcpuStage, VcpuPages, LifeVcpuPcs, VpBuilding,
       VpCreated, PageOr0
  <2>4. QED
    BY <1>6, <2>1, <2>2, <2>3
<1>9. td'[t] \in TdRecords
  <2>1. CASE adds
    BY <1>1, <1>5, <2>1, <1>7 DEF TdRecords
  <2>2. CASE bugs
    BY <1>1, <1>5, <2>2, <1>7 DEF TdRecords
  <2>3. CASE over
    BY <1>1, <1>5, <2>3, <1>7 DEF TdRecords
  <2>4. QED
    BY <1>6, <2>1, <2>2, <2>3
<1>10. mod'[t] \in ModRecords
  <2>1. CASE adds
    BY <1>1, <1>5, <2>1, <1>7 DEF ModRecords, VcpuRecords
  <2>2. CASE bugs
    BY <1>1, <1>5, <2>2, <1>7 DEF ModRecords, VcpuRecords
  <2>3. CASE over
    BY <1>1, <1>5, <2>3, <1>7 DEF ModRecords, VcpuRecords
  <2>4. QED
    BY <1>6, <2>1, <2>2, <2>3
<1>11. pamt' \in [KernelPages -> PageKinds] /\ free' \subseteq KernelPages
  BY <1>1, <1>5, <1>6, <1>7 DEF PageKinds, VcpuRecords, PageOr0, VcpuStage, VcpuPages,
     VpBuilding, VpCreated
<1>12. LifeRecords'
  BY <1>1, <1>3, <1>8, <1>9, <1>10, <1>11 DEF LifeInv, LifeRecords
<1>13. FreePagesAreHost'
  <2>1. CASE adds
    BY <1>1, <1>5, <2>1, <1>7 DEF LifeInv, FreePagesAreHost, VcpuStage, VcpuPages, IsHost,
       VcpuRecords, PageOr0, VpBuilding, VpCreated
  <2>2. CASE bugs
    BY <1>1, <1>5, <2>2, <1>7 DEF LifeInv, FreePagesAreHost, VcpuStage, VcpuPages, IsHost,
       VcpuRecords, PageOr0, VpBuilding, VpCreated
  <2>3. CASE over
    BY <1>1, <1>5, <2>3, <1>7 DEF LifeInv, FreePagesAreHost, VcpuStage, VcpuPages, IsHost,
       VcpuRecords, PageOr0, VpBuilding, VpCreated
  <2>4. QED
    BY <1>6, <2>1, <2>2, <2>3
<1>14. \A p \in KernelPages : p \notin HeldByVcpu(v) => pamt'[p] = pamt[p]
  BY <1>1, <1>5, <1>6, <1>7 DEF HeldByVcpu, NonNull, VcpuRecords, VcpuStage, VcpuPages,
     VpBuilding, VpCreated
<1>15. /\ mod[t].kept => mod'[t].kept
       /\ mod'[t].key = mod[t].key /\ mod'[t].hkid = mod[t].hkid
  BY <1>1, <1>5, <1>6, <1>7 DEF ModRecords
<1>16. OnlyVcpu(v)
  <2>1. \A w \in TdVcpus : w # v => tdVcpu'[w] = tdVcpu[w]
    BY <1>3 DEF LifeInv, LifeRecords
  <2>2. \A u \in Tds : u # t => td'[u] = td[u] /\ mod'[u] = mod[u]
    BY <1>3 DEF LifeInv, LifeRecords
  <2>3. QED
    BY <1>3, <1>4, <1>14, <1>15, <2>1, <2>2 DEF OnlyVcpu
<1>17. VcpuHandsOver(v)
  <2>1. CASE adds
    BY <1>1, <1>5, <2>1, <1>7, <1>3 DEF LifeInv, VcpuHandsOver, HeldByVcpu, NonNull, PagesApart,
       VcpuRecords, PageOr0, VcpuStage, VcpuPages, VcpuKeyed, IsGiven, IsHost, VpBuilding,
       VpCreated
  <2>2. CASE bugs
    BY <1>1, <1>5, <2>2, <1>7, <1>3 DEF LifeInv, VcpuHandsOver, HeldByVcpu, NonNull, PagesApart,
       VcpuRecords, PageOr0, VcpuStage, VcpuPages, VcpuKeyed, IsGiven, IsHost, VpBuilding,
       VpCreated
  <2>3. CASE over
    BY <1>1, <1>5, <2>3, <1>7, <1>3 DEF LifeInv, VcpuHandsOver, HeldByVcpu, NonNull, PagesApart,
       VcpuRecords, PageOr0, VcpuStage, VcpuPages, VcpuKeyed, IsGiven, IsHost, VpBuilding,
       VpCreated
  <2>4. QED
    BY <1>6, <2>1, <2>2, <2>3
<1>18. TdrStays(TdOf[v])
  BY <1>1, <1>5, <1>6, <1>7 DEF LifeInv, ModRecords, TdrStays, TdStage, TdGiven, PagesApart,
     HeldByTd, HeldByVcpu, NonNull
<1>19. VcpuPages(v)'
  <2>1. CASE adds
    BY <1>1, <1>5, <2>1, <1>7 DEF VcpuRecords, LifeInv, FreePagesAreHost, PagesApart,
       HeldByVcpu, VcpuStage, VcpuPages, VcpuKeyed, IsHost, IsGiven, NonNull, VpBuilding,
       VpCreated
  <2>2. CASE bugs
    BY <1>1, <1>5, <2>2, <1>7 DEF VcpuRecords, LifeInv, FreePagesAreHost, PagesApart,
       HeldByVcpu, VcpuStage, VcpuPages, VcpuKeyed, IsHost, IsGiven, NonNull, VpBuilding,
       VpCreated
  <2>3. CASE over
    BY <1>1, <1>5, <2>3, <1>7 DEF VcpuRecords, LifeInv, FreePagesAreHost, PagesApart,
       HeldByVcpu, VcpuStage, VcpuPages, VcpuKeyed, IsHost, IsGiven, NonNull, VpBuilding,
       VpCreated
  <2>4. QED
    BY <1>6, <2>1, <2>2, <2>3
<1>20. VcpuPlace(v)'
  BY <1>1, <1>5, <1>6, <1>7, <1>3, ZenonT(60) DEF TdRecords, TdPcs, VcpuRecords, VcpuStage,
     VcpuPlace,
     TdStage, TdEnds, TdKeyed, Building, Created, Returning, Freeing, VpBuilding, VpCreated
<1>21. VcpuKeyed(v)'
  BY <1>1, <1>5, <1>6, <1>7 DEF TdRecords, ModRecords, VcpuRecords, VcpuStage, VcpuPages,
     VcpuPlace, VcpuKeyed, TdStage, TdKeyed, Building, Created, Returning, Freeing, VpBuilding,
     VpCreated
<1>22. VcpuGivesPages(v)
  <2>1. CASE adds
    BY <1>1, <1>5, <2>1, <1>7, SMTT(30) DEF TdRecords, ModRecords, VcpuRecords, LifeInv,
       PagesApart,
       HeldByVcpu, NonNull, TdStage, TdGiven, TdKeyed, TdNothingElse, IsGiven, IsHost, Keyed,
       VcpuStage, VcpuPages, VcpuPlace, VcpuKeyed, VcpuGivesPages, NoTd, Building, Created,
       Returning, Freeing, VpBuilding, VpCreated
  <2>2. CASE bugs
    BY <1>1, <1>5, <2>2, <1>7, SMTT(30) DEF TdRecords, ModRecords, VcpuRecords, LifeInv,
       PagesApart,
       HeldByVcpu, NonNull, TdStage, TdGiven, TdKeyed, TdNothingElse, IsGiven, IsHost, Keyed,
       VcpuStage, VcpuPages, VcpuPlace, VcpuKeyed, VcpuGivesPages, NoTd, Building, Created,
       Returning, Freeing, VpBuilding, VpCreated
  <2>3. CASE over
    BY <1>1, <1>5, <2>3, <1>7, SMTT(30) DEF TdRecords, ModRecords, VcpuRecords, LifeInv,
       PagesApart,
       HeldByVcpu, NonNull, TdStage, TdGiven, TdKeyed, TdNothingElse, IsGiven, IsHost, Keyed,
       VcpuStage, VcpuPages, VcpuPlace, VcpuKeyed, VcpuGivesPages, NoTd, Building, Created,
       Returning, Freeing, VpBuilding, VpCreated
  <2>4. QED
    BY <1>6, <2>1, <2>2, <2>3
<1>23. QED
  BY <1>1, <1>12, <1>13, <1>16, <1>17, <1>18, <1>19, <1>20, <1>21, <1>22, VcpuStepKeeps
     DEF VcpuStage

\* TDH.VP.INIT ends the ioctl, the pages stay with the VCPU.
LEMMA VpInitKeeps == ASSUME LifeInv, NEW v \in TdVcpus, VpInit(v) PROVE LifeInv'
<1> DEFINE t == TdOf[v]
<1> DEFINE done ==
      /\ tdVcpu'[v] = [tdVcpu[v] EXCEPT !.pc = "idle", !.new_tdvpr = NullPa, !.new_tdvpx = {},
                                        !.created = TRUE]
      /\ td'[t] = td[t]
      /\ mod'[t] = mod[t]
      /\ pamt' = pamt
      /\ free' = free
<1> DEFINE bugs ==
      /\ tdVcpu'[v] = [tdVcpu[v] EXCEPT !.pc = "idle", !.new_tdvpr = NullPa, !.new_tdvpx = {}]
      /\ td'[t] = [td[t] EXCEPT !.bugged = TRUE]
      /\ mod'[t] = mod[t]
      /\ pamt' = pamt
      /\ free' = free
<1>1. /\ td[t] \in TdRecords /\ mod[t] \in ModRecords /\ TdStage(t)
      /\ tdVcpu[v] \in VcpuRecords /\ VcpuStage(v) /\ t \in Tds
      /\ NullPa \notin KernelPages
      /\ free \subseteq KernelPages /\ pamt \in [KernelPages -> PageKinds]
  BY RecordsOf
<1>2. /\ tdVcpu' = [tdVcpu EXCEPT ![v] = tdVcpu'[v]] /\ td' = [td EXCEPT ![t] = td'[t]]
      /\ mod' = [mod EXCEPT ![t] = mod'[t]]
      /\ pool' = pool /\ nr_configured_hkid' = nr_configured_hkid
  BY <1>1 DEF LifeInv, LifeRecords, VpInit, SetVcpu, InVcpu, Bugged
<1>3. td' = td \/ td' = [td EXCEPT ![t].bugged = TRUE]
  BY DEF VpInit, SetVcpu, InVcpu, Bugged
<1>4. tdVcpu[v].pc = "vp_init"
  BY <1>1 DEF VpInit, SetVcpu, InVcpu, TdRecords
<1>5. done \/ bugs
  BY <1>1, <1>4 DEF LifeInv, LifeRecords, TdRecords, TdStage, TdKeyed, TdGiven, IsGiven, VpInit,
     SetVcpu, InVcpu, Bugged
<1>6. tdVcpu'[v] \in VcpuRecords
  <2>1. CASE done
    BY <1>1, <1>4, <2>1 DEF VcpuRecords, VcpuStage, VcpuPages, LifeVcpuPcs, VpBuilding,
       VpCreated, PageOr0
  <2>2. CASE bugs
    BY <1>1, <1>4, <2>2 DEF VcpuRecords, VcpuStage, VcpuPages, LifeVcpuPcs, VpBuilding,
       VpCreated, PageOr0
  <2>3. QED
    BY <1>5, <2>1, <2>2
<1>7. td'[t] \in TdRecords
  <2>1. CASE done
    BY <1>1, <1>4, <2>1 DEF TdRecords
  <2>2. CASE bugs
    BY <1>1, <1>4, <2>2 DEF TdRecords
  <2>3. QED
    BY <1>5, <2>1, <2>2
<1>8. mod'[t] \in ModRecords
  BY <1>1, <1>4, <1>5 DEF ModRecords, VcpuRecords
<1>9. pamt' \in [KernelPages -> PageKinds] /\ free' \subseteq KernelPages
  BY <1>1, <1>4, <1>5 DEF PageKinds, VcpuRecords, PageOr0, VcpuStage, VcpuPages, VpBuilding,
     VpCreated
<1>10. LifeRecords'
  BY <1>1, <1>2, <1>6, <1>7, <1>8, <1>9 DEF LifeInv, LifeRecords
<1>11. FreePagesAreHost'
  BY <1>1, <1>4, <1>5 DEF LifeInv, FreePagesAreHost, VcpuStage, VcpuPages, IsHost, VcpuRecords,
     PageOr0, VpBuilding, VpCreated
<1>12. \A p \in KernelPages : p \notin HeldByVcpu(v) => pamt'[p] = pamt[p]
  BY <1>1, <1>4, <1>5 DEF HeldByVcpu, NonNull, VcpuRecords, VcpuStage, VcpuPages, VpBuilding,
     VpCreated
<1>13. /\ mod[t].kept => mod'[t].kept
       /\ mod'[t].key = mod[t].key /\ mod'[t].hkid = mod[t].hkid
  BY <1>1, <1>4, <1>5 DEF ModRecords
<1>14. OnlyVcpu(v)
  <2>1. \A w \in TdVcpus : w # v => tdVcpu'[w] = tdVcpu[w]
    BY <1>2 DEF LifeInv, LifeRecords
  <2>2. \A u \in Tds : u # t => td'[u] = td[u] /\ mod'[u] = mod[u]
    BY <1>2 DEF LifeInv, LifeRecords
  <2>3. QED
    BY <1>2, <1>3, <1>12, <1>13, <2>1, <2>2 DEF OnlyVcpu
<1>15. VcpuHandsOver(v)
  <2>1. CASE done
    BY <1>1, <1>4, <2>1, <1>2 DEF LifeInv, VcpuHandsOver, HeldByVcpu, NonNull, PagesApart,
       VcpuRecords, PageOr0, VcpuStage, VcpuPages, VcpuKeyed, IsGiven, IsHost, VpBuilding,
       VpCreated
  <2>2. CASE bugs
    BY <1>1, <1>4, <2>2, <1>2 DEF LifeInv, VcpuHandsOver, HeldByVcpu, NonNull, PagesApart,
       VcpuRecords, PageOr0, VcpuStage, VcpuPages, VcpuKeyed, IsGiven, IsHost, VpBuilding,
       VpCreated
  <2>3. QED
    BY <1>5, <2>1, <2>2
<1>16. TdrStays(TdOf[v])
  BY <1>1, <1>4, <1>5 DEF LifeInv, ModRecords, TdrStays, TdStage, TdGiven, PagesApart, HeldByTd,
     HeldByVcpu, NonNull
<1>17. VcpuPages(v)'
  <2>1. CASE done
    BY <1>1, <1>4, <2>1 DEF VcpuRecords, LifeInv, FreePagesAreHost, PagesApart, HeldByVcpu,
       VcpuStage, VcpuPages, VcpuKeyed, IsHost, IsGiven, NonNull, VpBuilding, VpCreated
  <2>2. CASE bugs
    BY <1>1, <1>4, <2>2 DEF VcpuRecords, LifeInv, FreePagesAreHost, PagesApart, HeldByVcpu,
       VcpuStage, VcpuPages, VcpuKeyed, IsHost, IsGiven, NonNull, VpBuilding, VpCreated
  <2>3. QED
    BY <1>5, <2>1, <2>2
<1>18. VcpuPlace(v)'
  BY <1>1, <1>4, <1>5, <1>2, ZenonT(60) DEF TdRecords, TdPcs, VcpuRecords, VcpuStage, VcpuPlace,
     TdStage,
     TdEnds, TdKeyed, Building, Created, Returning, Freeing, VpBuilding, VpCreated
<1>19. VcpuKeyed(v)'
  BY <1>1, <1>4, <1>5 DEF TdRecords, ModRecords, VcpuRecords, VcpuStage, VcpuPages, VcpuPlace,
     VcpuKeyed, TdStage, TdKeyed, Building, Created, Returning, Freeing, VpBuilding, VpCreated
<1>20. VcpuGivesPages(v)
  <2>1. CASE done
    BY <1>1, <1>4, <2>1, SMTT(30) DEF TdRecords, ModRecords, VcpuRecords, LifeInv, PagesApart,
       HeldByVcpu,
       NonNull, TdStage, TdGiven, TdKeyed, TdNothingElse, IsGiven, IsHost, Keyed, VcpuStage,
       VcpuPages, VcpuPlace, VcpuKeyed, VcpuGivesPages, NoTd, Building, Created, Returning,
       Freeing, VpBuilding, VpCreated
  <2>2. CASE bugs
    BY <1>1, <1>4, <2>2, SMTT(30) DEF TdRecords, ModRecords, VcpuRecords, LifeInv, PagesApart,
       HeldByVcpu,
       NonNull, TdStage, TdGiven, TdKeyed, TdNothingElse, IsGiven, IsHost, Keyed, VcpuStage,
       VcpuPages, VcpuPlace, VcpuKeyed, VcpuGivesPages, NoTd, Building, Created, Returning,
       Freeing, VpBuilding, VpCreated
  <2>3. QED
    BY <1>5, <2>1, <2>2
<1>21. QED
  BY <1>1, <1>10, <1>11, <1>14, <1>15, <1>16, <1>17, <1>18, <1>19, <1>20, VcpuStepKeeps
     DEF VcpuStage

\* What TDH.VP.CREATE did not take is given back.
LEMMA FreeTdvpxKeeps == ASSUME LifeInv, NEW v \in TdVcpus, FreeTdvpx(v) PROVE LifeInv'
<1> DEFINE t == TdOf[v]
<1>1. /\ td[t] \in TdRecords /\ mod[t] \in ModRecords /\ TdStage(t)
      /\ tdVcpu[v] \in VcpuRecords /\ VcpuStage(v) /\ t \in Tds
      /\ NullPa \notin KernelPages
      /\ free \subseteq KernelPages /\ pamt \in [KernelPages -> PageKinds]
  BY RecordsOf
<1>2. /\ tdVcpu' = [tdVcpu EXCEPT ![v] = tdVcpu'[v]] /\ td' = [td EXCEPT ![t] = td'[t]]
      /\ mod' = [mod EXCEPT ![t] = mod'[t]]
      /\ pool' = pool /\ nr_configured_hkid' = nr_configured_hkid
  BY <1>1 DEF LifeInv, LifeRecords, FreeTdvpx, SetVcpu, InVcpu
<1>3. td' = td \/ td' = [td EXCEPT ![t].bugged = TRUE]
  BY DEF FreeTdvpx, SetVcpu, InVcpu
<1>4. tdVcpu[v].pc = "free_tdvpx"
  BY <1>1 DEF FreeTdvpx, SetVcpu, InVcpu, TdRecords
<1>5. /\ tdVcpu'[v] = [tdVcpu[v] EXCEPT !.pc = "idle", !.tdvpr = NullPa, !.tdvpx = {},
                                        !.new_tdvpr = NullPa, !.new_tdvpx = {}]
      /\ td'[t] = td[t]
      /\ mod'[t] = mod[t]
      /\ pamt' = pamt
      /\ free' = free \cup {tdVcpu[v].new_tdvpr} \cup tdVcpu[v].new_tdvpx
  BY <1>1, <1>4 DEF LifeInv, LifeRecords, TdRecords, TdStage, TdKeyed, TdGiven, IsGiven,
     FreeTdvpx, SetVcpu, InVcpu
<1>6. tdVcpu'[v] \in VcpuRecords
  BY <1>1, <1>4, <1>5 DEF VcpuRecords, VcpuStage, VcpuPages, LifeVcpuPcs, VpBuilding, VpCreated,
     PageOr0
<1>7. td'[t] \in TdRecords
  BY <1>1, <1>4, <1>5 DEF TdRecords
<1>8. mod'[t] \in ModRecords
  BY <1>1, <1>4, <1>5 DEF ModRecords, VcpuRecords
<1>9. pamt' \in [KernelPages -> PageKinds] /\ free' \subseteq KernelPages
  BY <1>1, <1>4, <1>5 DEF PageKinds, VcpuRecords, PageOr0, VcpuStage, VcpuPages, VpBuilding,
     VpCreated
<1>10. LifeRecords'
  BY <1>1, <1>2, <1>6, <1>7, <1>8, <1>9 DEF LifeInv, LifeRecords
<1>11. FreePagesAreHost'
  BY <1>1, <1>4, <1>5 DEF LifeInv, FreePagesAreHost, VcpuStage, VcpuPages, IsHost, VcpuRecords,
     PageOr0, VpBuilding, VpCreated
<1>12. \A p \in KernelPages : p \notin HeldByVcpu(v) => pamt'[p] = pamt[p]
  BY <1>1, <1>4, <1>5 DEF HeldByVcpu, NonNull, VcpuRecords, VcpuStage, VcpuPages, VpBuilding,
     VpCreated
<1>13. /\ mod[t].kept => mod'[t].kept
       /\ mod'[t].key = mod[t].key /\ mod'[t].hkid = mod[t].hkid
  BY <1>1, <1>4, <1>5 DEF ModRecords
<1>14. OnlyVcpu(v)
  <2>1. \A w \in TdVcpus : w # v => tdVcpu'[w] = tdVcpu[w]
    BY <1>2 DEF LifeInv, LifeRecords
  <2>2. \A u \in Tds : u # t => td'[u] = td[u] /\ mod'[u] = mod[u]
    BY <1>2 DEF LifeInv, LifeRecords
  <2>3. QED
    BY <1>2, <1>3, <1>12, <1>13, <2>1, <2>2 DEF OnlyVcpu
<1>15. VcpuHandsOver(v)
  BY <1>1, <1>4, <1>5, <1>2 DEF LifeInv, VcpuHandsOver, HeldByVcpu, NonNull, PagesApart,
     VcpuRecords, PageOr0, VcpuStage, VcpuPages, VcpuKeyed, IsGiven, IsHost, VpBuilding,
     VpCreated
<1>16. TdrStays(TdOf[v])
  BY <1>1, <1>4, <1>5 DEF LifeInv, ModRecords, TdrStays, TdStage, TdGiven, PagesApart, HeldByTd,
     HeldByVcpu, NonNull
<1>17. VcpuPages(v)'
  BY <1>1, <1>4, <1>5 DEF VcpuRecords, LifeInv, FreePagesAreHost, PagesApart, HeldByVcpu,
     VcpuStage, VcpuPages, VcpuKeyed, IsHost, IsGiven, NonNull, VpBuilding, VpCreated
<1>18. VcpuPlace(v)'
  BY <1>1, <1>4, <1>5, <1>2 DEF TdRecords, TdPcs, VcpuRecords, VcpuStage, VcpuPlace, TdStage,
     TdEnds, TdKeyed, Building, Created, Returning, Freeing, VpBuilding, VpCreated
<1>19. VcpuKeyed(v)'
  BY <1>1, <1>4, <1>5 DEF TdRecords, ModRecords, VcpuRecords, VcpuStage, VcpuPages, VcpuPlace,
     VcpuKeyed, TdStage, TdKeyed, Building, Created, Returning, Freeing, VpBuilding, VpCreated
<1>20. VcpuGivesPages(v)
  BY <1>1, <1>4, <1>5, SMTT(30) DEF TdRecords, ModRecords, VcpuRecords, LifeInv, PagesApart,
     HeldByVcpu,
     NonNull, TdStage, TdGiven, TdKeyed, TdNothingElse, IsGiven, IsHost, Keyed, VcpuStage,
     VcpuPages, VcpuPlace, VcpuKeyed, VcpuGivesPages, NoTd, Building, Created, Returning,
     Freeing, VpBuilding, VpCreated
<1>21. QED
  BY <1>1, <1>10, <1>11, <1>14, <1>15, <1>16, <1>17, <1>18, <1>19, <1>20, VcpuStepKeeps
     DEF VcpuStage

\* tdx_vcpu_free asks for each page, once the key id is freed; the TDR is not one.
LEMMA VcpuFreeKeeps == ASSUME LifeInv, NEW v \in TdVcpus, VcpuFree(v) PROVE LifeInv'
<1> DEFINE t == TdOf[v]
<1> DEFINE page == Least(tdVcpu[v].tdvpx)
<1> DEFINE ends ==
      /\ tdVcpu'[v] = [tdVcpu[v] EXCEPT !.pc = "gone"]
      /\ td'[t] = td[t]
      /\ mod'[t] = mod[t]
      /\ pamt' = pamt
      /\ free' = free
      /\ td[t].hkid # 0 \/ (tdVcpu[v].tdvpx = {} /\ tdVcpu[v].tdvpr = NullPa)
<1> DEFINE page_back ==
      /\ tdVcpu'[v] = [tdVcpu[v] EXCEPT !.tdvpx = tdVcpu[v].tdvpx \ {page}]
      /\ td'[t] = td[t]
      /\ mod'[t] = [mod[t] EXCEPT !.pages = mod[t].pages \ {page}]
      /\ pamt' = [pamt EXCEPT ![page] = "host"]
      /\ free' = free \cup {page}
      /\ page \in tdVcpu[v].tdvpx
<1> DEFINE page_kept ==
      /\ tdVcpu'[v] = [tdVcpu[v] EXCEPT !.tdvpx = tdVcpu[v].tdvpx \ {page}]
      /\ td'[t] = td[t]
      /\ mod'[t] = [mod[t] EXCEPT !.kept = TRUE]
      /\ pamt' = pamt
      /\ free' = free
      /\ page \in tdVcpu[v].tdvpx
<1> DEFINE root_back ==
      /\ tdVcpu'[v] = [tdVcpu[v] EXCEPT !.tdvpr = NullPa]
      /\ td'[t] = td[t]
      /\ mod'[t] = [mod[t] EXCEPT !.pages = mod[t].pages \ {tdVcpu[v].tdvpr}]
      /\ pamt' = [pamt EXCEPT ![tdVcpu[v].tdvpr] = "host"]
      /\ free' = free \cup {tdVcpu[v].tdvpr}
      /\ tdVcpu[v].tdvpx = {}
      /\ tdVcpu[v].tdvpr # NullPa
<1> DEFINE root_kept ==
      /\ tdVcpu'[v] = [tdVcpu[v] EXCEPT !.tdvpr = NullPa]
      /\ td'[t] = td[t]
      /\ mod'[t] = [mod[t] EXCEPT !.kept = TRUE]
      /\ pamt' = pamt
      /\ free' = free
      /\ tdVcpu[v].tdvpx = {}
      /\ tdVcpu[v].tdvpr # NullPa
<1>1. /\ td[t] \in TdRecords /\ mod[t] \in ModRecords /\ TdStage(t)
      /\ tdVcpu[v] \in VcpuRecords /\ VcpuStage(v) /\ t \in Tds
      /\ NullPa \notin KernelPages
      /\ free \subseteq KernelPages /\ pamt \in [KernelPages -> PageKinds]
  BY RecordsOf
<1>2. tdVcpu[v].tdvpx # {} => page \in tdVcpu[v].tdvpx
  BY <1>1, LeastIsIn, TdxLifeAssumption DEF VcpuRecords
<1> HIDE DEF page
<1>3. /\ tdVcpu' = [tdVcpu EXCEPT ![v] = tdVcpu'[v]] /\ td' = [td EXCEPT ![t] = td'[t]]
      /\ mod' = [mod EXCEPT ![t] = mod'[t]]
      /\ pool' = pool /\ nr_configured_hkid' = nr_configured_hkid
  BY <1>1, <1>2 DEF LifeInv, LifeRecords, VcpuFree, InTd, SetVcpu, GoVcpu, InVcpu, HkidAssigned,
     VcpuGivesUp, ReclaimControlPage, ReclaimOk, Cleared, Given, Keeps
<1>4. td' = td \/ td' = [td EXCEPT ![t].bugged = TRUE]
  BY DEF VcpuFree, InTd, SetVcpu, GoVcpu, InVcpu, HkidAssigned, VcpuGivesUp, ReclaimControlPage,
     ReclaimOk, Cleared, Given, Keeps
<1>5. /\ tdVcpu[v].pc = "idle"
      /\ td[t].pc = "free_vcpus"
  BY <1>1, <1>2 DEF VcpuFree, InTd, SetVcpu, GoVcpu, InVcpu, HkidAssigned, TdRecords
<1>6. ends \/ page_back \/ page_kept \/ root_back \/ root_kept
  <2>1. ASSUME td[t].hkid = 0, NEW p \in HeldByVcpu(v) PROVE ReclaimOk(t, p)
    <3>1. mod[t].key = "freed"
      BY <1>1, <1>5, <2>1 DEF VcpuStage, VcpuPages, VcpuKeyed, HeldByVcpu, NonNull
    <3>2. p # td[t].tdr
      BY <1>1, <2>1, TdxLifeAssumption DEF LifeInv, PagesApart, HeldByTd, HeldByVcpu, NonNull,
         VcpuRecords
    <3>3. QED
      BY <3>1, <3>2 DEF ReclaimOk
  <2>2. td'[t] = td[t] /\ (td[t].hkid = 0 \/ td[t].hkid > 0)
    BY <1>1, HkidOrNone DEF VcpuFree
  <2>3. CASE VcpuGivesUp(v) \/ (tdVcpu[v].tdvpx = {} /\ tdVcpu[v].tdvpr = NullPa)
    <3>1. CASE GoVcpu(v, "gone") /\ UNCHANGED <<free, pamt, mod>>
      BY <1>1, <2>2, <2>3, <3>1 DEF LifeInv, LifeRecords, GoVcpu, SetVcpu, VcpuGivesUp,
         HkidAssigned
    <3>2. QED
      BY <2>3, <3>1 DEF VcpuFree
  <2>4. CASE ~VcpuGivesUp(v) /\ tdVcpu[v].tdvpx # {}
    <3>1. /\ ReclaimControlPage(t, page)
          /\ SetVcpu(v, [tdVcpu[v] EXCEPT !.tdvpx = tdVcpu[v].tdvpx \ {page}])
      BY <2>4 DEF VcpuFree, page
    <3>2. page \in tdVcpu[v].tdvpx /\ ReclaimOk(t, page)
      BY <1>2, <2>1, <2>2, <2>4 DEF VcpuGivesUp, HkidAssigned, HeldByVcpu
    <3>3. tdVcpu'[v] = [tdVcpu[v] EXCEPT !.tdvpx = tdVcpu[v].tdvpx \ {page}]
      BY <3>1 DEF SetVcpu, LifeInv, LifeRecords
    <3>4. QED
      BY <1>1, <2>2, <3>1, <3>2, <3>3, ReclaimEffect
  <2>5. CASE ~VcpuGivesUp(v) /\ tdVcpu[v].tdvpx = {} /\ tdVcpu[v].tdvpr # NullPa
    <3>1. /\ ReclaimControlPage(t, tdVcpu[v].tdvpr)
          /\ SetVcpu(v, [tdVcpu[v] EXCEPT !.tdvpr = NullPa])
      BY <2>5 DEF VcpuFree
    <3>2. ReclaimOk(t, tdVcpu[v].tdvpr)
      BY <2>1, <2>2, <2>5 DEF VcpuGivesUp, HkidAssigned, HeldByVcpu, NonNull
    <3>3. tdVcpu'[v] = [tdVcpu[v] EXCEPT !.tdvpr = NullPa]
      BY <3>1 DEF SetVcpu, LifeInv, LifeRecords
    <3>4. QED
      BY <1>1, <2>2, <2>5, <3>1, <3>2, <3>3, ReclaimEffect
  <2>6. QED
    BY <2>3, <2>4, <2>5
<1>7. /\ tdVcpu[v].tdvpx \subseteq HeldByVcpu(v)
      /\ NonNull(tdVcpu[v].tdvpr) \subseteq HeldByVcpu(v)
      /\ HeldByVcpu(v) \cap free = {}
  BY DEF LifeInv, PagesApart, HeldByVcpu
<1>8. tdVcpu'[v] \in VcpuRecords
  <2>1. CASE ends
    BY <1>1, <1>5, <2>1, <1>7 DEF VcpuRecords, VcpuStage, VcpuPages, LifeVcpuPcs, VpBuilding,
       VpCreated, PageOr0
  <2>2. CASE page_back
    BY <1>1, <1>5, <2>2, <1>7 DEF VcpuRecords, VcpuStage, VcpuPages, LifeVcpuPcs, VpBuilding,
       VpCreated, PageOr0
  <2>3. CASE page_kept
    BY <1>1, <1>5, <2>3, <1>7 DEF VcpuRecords, VcpuStage, VcpuPages, LifeVcpuPcs, VpBuilding,
       VpCreated, PageOr0
  <2>4. CASE root_back
    BY <1>1, <1>5, <2>4, <1>7 DEF VcpuRecords, VcpuStage, VcpuPages, LifeVcpuPcs, VpBuilding,
       VpCreated, PageOr0
  <2>5. CASE root_kept
    BY <1>1, <1>5, <2>5, <1>7 DEF VcpuRecords, VcpuStage, VcpuPages, LifeVcpuPcs, VpBuilding,
       VpCreated, PageOr0
  <2>6. QED
    BY <1>6, <2>1, <2>2, <2>3, <2>4, <2>5
<1>9. td'[t] \in TdRecords
  <2>1. CASE ends
    BY <1>1, <1>5, <2>1, <1>7 DEF TdRecords
  <2>2. CASE page_back
    BY <1>1, <1>5, <2>2, <1>7 DEF TdRecords
  <2>3. CASE page_kept
    BY <1>1, <1>5, <2>3, <1>7 DEF TdRecords
  <2>4. CASE root_back
    BY <1>1, <1>5, <2>4, <1>7 DEF TdRecords
  <2>5. CASE root_kept
    BY <1>1, <1>5, <2>5, <1>7 DEF TdRecords
  <2>6. QED
    BY <1>6, <2>1, <2>2, <2>3, <2>4, <2>5
<1>10. mod'[t] \in ModRecords
  <2>1. CASE ends
    BY <1>1, <1>5, <2>1, <1>7 DEF ModRecords, VcpuRecords
  <2>2. CASE page_back
    BY <1>1, <1>5, <2>2, <1>7 DEF ModRecords, VcpuRecords
  <2>3. CASE page_kept
    BY <1>1, <1>5, <2>3, <1>7 DEF ModRecords, VcpuRecords
  <2>4. CASE root_back
    BY <1>1, <1>5, <2>4, <1>7 DEF ModRecords, VcpuRecords
  <2>5. CASE root_kept
    BY <1>1, <1>5, <2>5, <1>7 DEF ModRecords, VcpuRecords
  <2>6. QED
    BY <1>6, <2>1, <2>2, <2>3, <2>4, <2>5
<1>11. pamt' \in [KernelPages -> PageKinds] /\ free' \subseteq KernelPages
  <2>1. CASE ends
    BY <1>1, <1>5, <2>1, <1>7 DEF PageKinds, VcpuRecords, PageOr0, VcpuStage, VcpuPages,
       VpBuilding, VpCreated
  <2>2. CASE page_back
    BY <1>1, <1>5, <2>2, <1>7 DEF PageKinds, VcpuRecords, PageOr0, VcpuStage, VcpuPages,
       VpBuilding, VpCreated
  <2>3. CASE page_kept
    BY <1>1, <1>5, <2>3, <1>7 DEF PageKinds, VcpuRecords, PageOr0, VcpuStage, VcpuPages,
       VpBuilding, VpCreated
  <2>4. CASE root_back
    BY <1>1, <1>5, <2>4, <1>7 DEF PageKinds, VcpuRecords, PageOr0, VcpuStage, VcpuPages,
       VpBuilding, VpCreated
  <2>5. CASE root_kept
    BY <1>1, <1>5, <2>5, <1>7 DEF PageKinds, VcpuRecords, PageOr0, VcpuStage, VcpuPages,
       VpBuilding, VpCreated
  <2>6. QED
    BY <1>6, <2>1, <2>2, <2>3, <2>4, <2>5
<1>12. LifeRecords'
  BY <1>1, <1>3, <1>8, <1>9, <1>10, <1>11 DEF LifeInv, LifeRecords
<1>13. FreePagesAreHost'
  <2>1. CASE ends
    BY <1>1, <1>5, <2>1, <1>7 DEF LifeInv, FreePagesAreHost, VcpuStage, VcpuPages, IsHost,
       VcpuRecords, PageOr0, VpBuilding, VpCreated
  <2>2. CASE page_back
    BY <1>1, <1>5, <2>2, <1>7 DEF LifeInv, FreePagesAreHost, VcpuStage, VcpuPages, IsHost,
       VcpuRecords, PageOr0, VpBuilding, VpCreated
  <2>3. CASE page_kept
    BY <1>1, <1>5, <2>3, <1>7 DEF LifeInv, FreePagesAreHost, VcpuStage, VcpuPages, IsHost,
       VcpuRecords, PageOr0, VpBuilding, VpCreated
  <2>4. CASE root_back
    BY <1>1, <1>5, <2>4, <1>7 DEF LifeInv, FreePagesAreHost, VcpuStage, VcpuPages, IsHost,
       VcpuRecords, PageOr0, VpBuilding, VpCreated
  <2>5. CASE root_kept
    BY <1>1, <1>5, <2>5, <1>7 DEF LifeInv, FreePagesAreHost, VcpuStage, VcpuPages, IsHost,
       VcpuRecords, PageOr0, VpBuilding, VpCreated
  <2>6. QED
    BY <1>6, <2>1, <2>2, <2>3, <2>4, <2>5
<1>14. \A p \in KernelPages : p \notin HeldByVcpu(v) => pamt'[p] = pamt[p]
  <2>1. CASE ends
    BY <1>1, <1>5, <2>1, <1>7 DEF HeldByVcpu, NonNull, VcpuRecords, VcpuStage, VcpuPages,
       VpBuilding, VpCreated
  <2>2. CASE page_back
    BY <1>1, <1>5, <2>2, <1>7 DEF HeldByVcpu, NonNull, VcpuRecords, VcpuStage, VcpuPages,
       VpBuilding, VpCreated
  <2>3. CASE page_kept
    BY <1>1, <1>5, <2>3, <1>7 DEF HeldByVcpu, NonNull, VcpuRecords, VcpuStage, VcpuPages,
       VpBuilding, VpCreated
  <2>4. CASE root_back
    BY <1>1, <1>5, <2>4, <1>7 DEF HeldByVcpu, NonNull, VcpuRecords, VcpuStage, VcpuPages,
       VpBuilding, VpCreated
  <2>5. CASE root_kept
    BY <1>1, <1>5, <2>5, <1>7 DEF HeldByVcpu, NonNull, VcpuRecords, VcpuStage, VcpuPages,
       VpBuilding, VpCreated
  <2>6. QED
    BY <1>6, <2>1, <2>2, <2>3, <2>4, <2>5
<1>15. /\ mod[t].kept => mod'[t].kept
       /\ mod'[t].key = mod[t].key /\ mod'[t].hkid = mod[t].hkid
  <2>1. CASE ends
    BY <1>1, <1>5, <2>1, <1>7 DEF ModRecords
  <2>2. CASE page_back
    BY <1>1, <1>5, <2>2, <1>7 DEF ModRecords
  <2>3. CASE page_kept
    BY <1>1, <1>5, <2>3, <1>7 DEF ModRecords
  <2>4. CASE root_back
    BY <1>1, <1>5, <2>4, <1>7 DEF ModRecords
  <2>5. CASE root_kept
    BY <1>1, <1>5, <2>5, <1>7 DEF ModRecords
  <2>6. QED
    BY <1>6, <2>1, <2>2, <2>3, <2>4, <2>5
<1>16. OnlyVcpu(v)
  <2>1. \A w \in TdVcpus : w # v => tdVcpu'[w] = tdVcpu[w]
    BY <1>3 DEF LifeInv, LifeRecords
  <2>2. \A u \in Tds : u # t => td'[u] = td[u] /\ mod'[u] = mod[u]
    BY <1>3 DEF LifeInv, LifeRecords
  <2>3. QED
    BY <1>3, <1>4, <1>14, <1>15, <2>1, <2>2 DEF OnlyVcpu
<1>17. VcpuHandsOver(v)
  <2>1. CASE ends
    BY <1>1, <1>5, <2>1, <1>7, <1>3 DEF LifeInv, VcpuHandsOver, HeldByVcpu, NonNull, PagesApart,
       VcpuRecords, PageOr0, VcpuStage, VcpuPages, VcpuKeyed, IsGiven, IsHost, VpBuilding,
       VpCreated
  <2>2. CASE page_back
    BY <1>1, <1>5, <2>2, <1>7, <1>3 DEF LifeInv, VcpuHandsOver, HeldByVcpu, NonNull, PagesApart,
       VcpuRecords, PageOr0, VcpuStage, VcpuPages, VcpuKeyed, IsGiven, IsHost, VpBuilding,
       VpCreated
  <2>3. CASE page_kept
    BY <1>1, <1>5, <2>3, <1>7, <1>3 DEF LifeInv, VcpuHandsOver, HeldByVcpu, NonNull, PagesApart,
       VcpuRecords, PageOr0, VcpuStage, VcpuPages, VcpuKeyed, IsGiven, IsHost, VpBuilding,
       VpCreated
  <2>4. CASE root_back
    BY <1>1, <1>5, <2>4, <1>7, <1>3 DEF LifeInv, VcpuHandsOver, HeldByVcpu, NonNull, PagesApart,
       VcpuRecords, PageOr0, VcpuStage, VcpuPages, VcpuKeyed, IsGiven, IsHost, VpBuilding,
       VpCreated
  <2>5. CASE root_kept
    BY <1>1, <1>5, <2>5, <1>7, <1>3 DEF LifeInv, VcpuHandsOver, HeldByVcpu, NonNull, PagesApart,
       VcpuRecords, PageOr0, VcpuStage, VcpuPages, VcpuKeyed, IsGiven, IsHost, VpBuilding,
       VpCreated
  <2>6. QED
    BY <1>6, <2>1, <2>2, <2>3, <2>4, <2>5
<1>18. TdrStays(TdOf[v])
  <2>1. CASE ends
    BY <1>1, <1>5, <2>1, <1>7 DEF LifeInv, ModRecords, TdrStays, TdStage, TdGiven, PagesApart,
       HeldByTd, HeldByVcpu, NonNull
  <2>2. CASE page_back
    BY <1>1, <1>5, <2>2, <1>7 DEF LifeInv, ModRecords, TdrStays, TdStage, TdGiven, PagesApart,
       HeldByTd, HeldByVcpu, NonNull
  <2>3. CASE page_kept
    BY <1>1, <1>5, <2>3, <1>7 DEF LifeInv, ModRecords, TdrStays, TdStage, TdGiven, PagesApart,
       HeldByTd, HeldByVcpu, NonNull
  <2>4. CASE root_back
    BY <1>1, <1>5, <2>4, <1>7 DEF LifeInv, ModRecords, TdrStays, TdStage, TdGiven, PagesApart,
       HeldByTd, HeldByVcpu, NonNull
  <2>5. CASE root_kept
    BY <1>1, <1>5, <2>5, <1>7 DEF LifeInv, ModRecords, TdrStays, TdStage, TdGiven, PagesApart,
       HeldByTd, HeldByVcpu, NonNull
  <2>6. QED
    BY <1>6, <2>1, <2>2, <2>3, <2>4, <2>5
<1>19. VcpuPages(v)'
  <2>1. CASE ends
    BY <1>1, <1>5, <2>1, <1>7 DEF VcpuRecords, LifeInv, FreePagesAreHost, PagesApart,
       HeldByVcpu, VcpuStage, VcpuPages, VcpuKeyed, IsHost, IsGiven, NonNull, VpBuilding,
       VpCreated
  <2>2. CASE page_back
    BY <1>1, <1>5, <2>2, <1>7 DEF VcpuRecords, LifeInv, FreePagesAreHost, PagesApart,
       HeldByVcpu, VcpuStage, VcpuPages, VcpuKeyed, IsHost, IsGiven, NonNull, VpBuilding,
       VpCreated
  <2>3. CASE page_kept
    BY <1>1, <1>5, <2>3, <1>7 DEF VcpuRecords, LifeInv, FreePagesAreHost, PagesApart,
       HeldByVcpu, VcpuStage, VcpuPages, VcpuKeyed, IsHost, IsGiven, NonNull, VpBuilding,
       VpCreated
  <2>4. CASE root_back
    BY <1>1, <1>5, <2>4, <1>7 DEF VcpuRecords, LifeInv, FreePagesAreHost, PagesApart,
       HeldByVcpu, VcpuStage, VcpuPages, VcpuKeyed, IsHost, IsGiven, NonNull, VpBuilding,
       VpCreated
  <2>5. CASE root_kept
    BY <1>1, <1>5, <2>5, <1>7 DEF VcpuRecords, LifeInv, FreePagesAreHost, PagesApart,
       HeldByVcpu, VcpuStage, VcpuPages, VcpuKeyed, IsHost, IsGiven, NonNull, VpBuilding,
       VpCreated
  <2>6. QED
    BY <1>6, <2>1, <2>2, <2>3, <2>4, <2>5
<1>20. VcpuPlace(v)'
  <2>1. CASE ends
    BY <1>1, <1>5, <2>1, <1>7, <1>3 DEF TdRecords, TdPcs, VcpuRecords, VcpuStage, VcpuPlace,
       TdStage, TdEnds, TdKeyed, Building, Created, Returning, Freeing, VpBuilding, VpCreated
  <2>2. CASE page_back
    BY <1>1, <1>5, <2>2, <1>7, <1>3 DEF TdRecords, TdPcs, VcpuRecords, VcpuStage, VcpuPlace,
       TdStage, TdEnds, TdKeyed, Building, Created, Returning, Freeing, VpBuilding, VpCreated
  <2>3. CASE page_kept
    BY <1>1, <1>5, <2>3, <1>7, <1>3 DEF TdRecords, TdPcs, VcpuRecords, VcpuStage, VcpuPlace,
       TdStage, TdEnds, TdKeyed, Building, Created, Returning, Freeing, VpBuilding, VpCreated
  <2>4. CASE root_back
    BY <1>1, <1>5, <2>4, <1>7, <1>3 DEF TdRecords, TdPcs, VcpuRecords, VcpuStage, VcpuPlace,
       TdStage, TdEnds, TdKeyed, Building, Created, Returning, Freeing, VpBuilding, VpCreated
  <2>5. CASE root_kept
    BY <1>1, <1>5, <2>5, <1>7, <1>3 DEF TdRecords, TdPcs, VcpuRecords, VcpuStage, VcpuPlace,
       TdStage, TdEnds, TdKeyed, Building, Created, Returning, Freeing, VpBuilding, VpCreated
  <2>6. QED
    BY <1>6, <2>1, <2>2, <2>3, <2>4, <2>5
<1>21. VcpuKeyed(v)'
  <2>1. CASE ends
    BY <1>1, <1>5, <2>1, <1>7 DEF TdRecords, ModRecords, VcpuRecords, VcpuStage, VcpuPages,
       VcpuPlace, VcpuKeyed, TdStage, TdKeyed, Building, Created, Returning, Freeing,
       VpBuilding, VpCreated
  <2>2. CASE page_back
    BY <1>1, <1>5, <2>2, <1>7 DEF TdRecords, ModRecords, VcpuRecords, VcpuStage, VcpuPages,
       VcpuPlace, VcpuKeyed, TdStage, TdKeyed, Building, Created, Returning, Freeing,
       VpBuilding, VpCreated
  <2>3. CASE page_kept
    BY <1>1, <1>5, <2>3, <1>7 DEF TdRecords, ModRecords, VcpuRecords, VcpuStage, VcpuPages,
       VcpuPlace, VcpuKeyed, TdStage, TdKeyed, Building, Created, Returning, Freeing,
       VpBuilding, VpCreated
  <2>4. CASE root_back
    BY <1>1, <1>5, <2>4, <1>7 DEF TdRecords, ModRecords, VcpuRecords, VcpuStage, VcpuPages,
       VcpuPlace, VcpuKeyed, TdStage, TdKeyed, Building, Created, Returning, Freeing,
       VpBuilding, VpCreated
  <2>5. CASE root_kept
    BY <1>1, <1>5, <2>5, <1>7 DEF TdRecords, ModRecords, VcpuRecords, VcpuStage, VcpuPages,
       VcpuPlace, VcpuKeyed, TdStage, TdKeyed, Building, Created, Returning, Freeing,
       VpBuilding, VpCreated
  <2>6. QED
    BY <1>6, <2>1, <2>2, <2>3, <2>4, <2>5
<1>22. VcpuGivesPages(v)
  <2>1. CASE ends
    BY <1>1, <1>5, <2>1, <1>7, SMTT(30) DEF TdRecords, ModRecords, VcpuRecords, LifeInv,
       PagesApart,
       HeldByVcpu, NonNull, TdStage, TdGiven, TdKeyed, TdNothingElse, IsGiven, IsHost, Keyed,
       VcpuStage, VcpuPages, VcpuPlace, VcpuKeyed, VcpuGivesPages, NoTd, Building, Created,
       Returning, Freeing, VpBuilding, VpCreated
  <2>2. CASE page_back
    BY <1>1, <1>5, <2>2, <1>7, SMTT(30) DEF TdRecords, ModRecords, VcpuRecords, LifeInv,
       PagesApart,
       HeldByVcpu, NonNull, TdStage, TdGiven, TdKeyed, TdNothingElse, IsGiven, IsHost, Keyed,
       VcpuStage, VcpuPages, VcpuPlace, VcpuKeyed, VcpuGivesPages, NoTd, Building, Created,
       Returning, Freeing, VpBuilding, VpCreated
  <2>3. CASE page_kept
    BY <1>1, <1>5, <2>3, <1>7, SMTT(30) DEF TdRecords, ModRecords, VcpuRecords, LifeInv,
       PagesApart,
       HeldByVcpu, NonNull, TdStage, TdGiven, TdKeyed, TdNothingElse, IsGiven, IsHost, Keyed,
       VcpuStage, VcpuPages, VcpuPlace, VcpuKeyed, VcpuGivesPages, NoTd, Building, Created,
       Returning, Freeing, VpBuilding, VpCreated
  <2>4. CASE root_back
    BY <1>1, <1>5, <2>4, <1>7, SMTT(30) DEF TdRecords, ModRecords, VcpuRecords, LifeInv,
       PagesApart,
       HeldByVcpu, NonNull, TdStage, TdGiven, TdKeyed, TdNothingElse, IsGiven, IsHost, Keyed,
       VcpuStage, VcpuPages, VcpuPlace, VcpuKeyed, VcpuGivesPages, NoTd, Building, Created,
       Returning, Freeing, VpBuilding, VpCreated
  <2>5. CASE root_kept
    BY <1>1, <1>5, <2>5, <1>7 DEF TdRecords, ModRecords, VcpuRecords, LifeInv, PagesApart,
       HeldByVcpu, NonNull, TdStage, TdGiven, TdKeyed, TdNothingElse, IsGiven, IsHost, Keyed,
       VcpuStage, VcpuPages, VcpuPlace, VcpuKeyed, VcpuGivesPages, NoTd, Building, Created,
       Returning, Freeing, VpBuilding, VpCreated
  <2>6. QED
    BY <1>6, <2>1, <2>2, <2>3, <2>4, <2>5
<1>23. QED
  BY <1>1, <1>12, <1>13, <1>16, <1>17, <1>18, <1>19, <1>20, <1>21, <1>22, VcpuStepKeeps
     DEF VcpuStage

-----------------------------------------------------------------------------
(* The life of TDs: the theorems.                                          *)

\* At first every page is free and no key id reserved.
LEMMA LifeInvInit == ASSUME LifeInit PROVE LifeInv
<1>1. LifeRecords
  BY TdxLifeAssumption DEF LifeInit, LifeRecords, TdRecords, VcpuRecords, ModRecords, NoTd,
     TdPcs, LifeVcpuPcs, PageKinds, PageOr0
<1>2. FreePagesAreHost
  BY DEF LifeInit, FreePagesAreHost
<1>3. ASSUME NEW t \in Tds PROVE TdStage(t) /\ HeldByTd(t) = {}
  <2>1. /\ td[t] = [pc |-> "idle", hkid |-> 0, tdr |-> NullPa, tdcs |-> {}, new_tdr |-> NullPa,
                    new_tdcs |-> {}, finalized |-> FALSE, bugged |-> FALSE, ending |-> FALSE]
        /\ mod[t] = NoTd
    BY DEF LifeInit
  <2>2. TdUnbuilt(t) /\ TdBuilt(t) /\ TdGiven(t)
    BY <2>1 DEF TdUnbuilt, TdBuilt, TdGiven, IsGiven, Building, Created
  <2>3. TdKeyed(t) /\ TdEnds(t)
    BY <2>1 DEF TdKeyed, TdEnds, Keyed, NoTd, Building, Created, Returning, Freeing
  <2>4. TdNothingElse(t)
    BY <2>1 DEF TdNothingElse, IsGiven, NoTd
  <2>5. HeldByTd(t) = {}
    BY <2>1 DEF HeldByTd, NonNull
  <2>6. QED
    BY <2>2, <2>3, <2>4, <2>5 DEF TdStage
<1>4. ASSUME NEW v \in TdVcpus PROVE VcpuStage(v) /\ HeldByVcpu(v) = {}
  <2>1. /\ tdVcpu[v] = [pc |-> "none", tdvpr |-> NullPa, tdvpx |-> {},
                        new_tdvpr |-> NullPa, new_tdvpx |-> {}, created |-> FALSE]
        /\ td[TdOf[v]].pc = "idle" /\ td[TdOf[v]].ending = FALSE
    BY TdxLifeAssumption DEF LifeInit
  <2>2. VcpuPages(v)
    BY <2>1 DEF VcpuPages, IsGiven, VpBuilding, VpCreated
  <2>3. VcpuPlace(v) /\ VcpuKeyed(v)
    BY <2>1 DEF VcpuPlace, VcpuKeyed, VpBuilding, VpCreated, Building, Created, Returning,
       Freeing
  <2>4. HeldByVcpu(v) = {}
    BY <2>1 DEF HeldByVcpu, NonNull
  <2>5. QED
    BY <2>2, <2>3, <2>4 DEF VcpuStage
<1>5. PagesApart
  BY <1>3, <1>4 DEF PagesApart
<1>6. NoneLost
  BY DEF NoneLost, LifeInit
<1>7. KeyidsOwned
  <2>1. pool = {} /\ nr_configured_hkid = 0 /\ \A t \in Tds : td[t].hkid = 0
    BY DEF LifeInit
  <2>2. {t \in Tds : HkidAssigned(t)} = {}
    BY <2>1 DEF HkidAssigned
  <2>3. QED
    BY <2>1, <2>2, FS_EmptySet DEF KeyidsOwned, ConfiguredCounted
<1>8. QED
  BY <1>1, <1>2, <1>3, <1>4, <1>5, <1>6, <1>7 DEF LifeInv

\* A step that changes nothing.
LEMMA LifeStutter == ASSUME LifeInv, UNCHANGED lifeVars PROVE LifeInv'
<1>1. LifeRecords' /\ FreePagesAreHost'
  BY DEF LifeInv, lifeVars, LifeRecords, FreePagesAreHost
<1>2. \A t \in Tds : TdStage(t)' /\ HeldByTd(t)' = HeldByTd(t)
  BY DEF LifeInv, lifeVars, TdStage, TdUnbuilt, TdBuilt, TdGiven, TdKeyed, TdEnds,
     TdNothingElse,
     IsHost, IsGiven, Keyed, HeldByTd, HeldByVcpu
<1>3. \A v \in TdVcpus : VcpuStage(v)' /\ HeldByVcpu(v)' = HeldByVcpu(v)
  BY DEF LifeInv, lifeVars, VcpuStage, VcpuPages, VcpuPlace, VcpuKeyed, IsHost, IsGiven,
     HeldByVcpu
<1>4. PagesApart' /\ NoneLost'
  BY <1>2, <1>3 DEF LifeInv, lifeVars, PagesApart, NoneLost
<1>5. KeyidsOwned'
  BY KeyidsFrame DEF lifeVars
<1>6. QED
  BY <1>1, <1>2, <1>3, <1>4, <1>5 DEF LifeInv

\* The inductive invariant of TDs, their VCPUs, key ids and control pages.
THEOREM LifeInvariance == LifeSpec => []LifeInv
<1>1. LifeInit => LifeInv
  BY LifeInvInit
<1>2. LifeInv /\ [LifeNext]_lifeVars => LifeInv'
  <2>1. SUFFICES ASSUME LifeInv, [LifeNext]_lifeVars PROVE LifeInv'
    OBVIOUS
  <2>2. ASSUME NEW t \in Tds, KeyidAlloc(t) \/ Finalize(t) \/ EndVm(t) PROVE LifeInv'
    BY <2>1, <2>2, KeyidAllocKeeps, FinalizeKeeps, EndVmKeeps
  <2>3. ASSUME NEW t \in Tds, InitGoesOn(t) PROVE LifeInv'
    BY <2>1, <2>3, AllocTdrKeeps, AllocTdcsKeeps, MngCreateKeeps, KeyConfigKeeps, AddCxKeeps,
       MngInitKeeps, FreeAllKeeps, TeardownKeeps, FinalizedKeeps DEF InitGoesOn
  <2>4. ASSUME NEW t \in Tds, EndGoesOn(t) PROVE LifeInv'
    BY <2>1, <2>4, MngVpFlushDoneKeeps, KeyFreeKeeps, VcpusFreedKeeps, VmFreeTdcsKeeps,
       VmFreeTdrKeeps DEF EndGoesOn
  <2>5. ASSUME NEW v \in TdVcpus, CreateVcpu(v) \/ InitVcpu(v) PROVE LifeInv'
    BY <2>1, <2>5, CreateVcpuKeeps, InitVcpuKeeps
  <2>6. ASSUME NEW v \in TdVcpus, VcpuGoesOn(v) PROVE LifeInv'
    BY <2>1, <2>6, AllocTdvpxKeeps, VpCreateKeeps, VpAddCxKeeps, VpInitKeeps, FreeTdvpxKeeps,
       VcpuFreeKeeps DEF VcpuGoesOn
  <2>7. CASE UNCHANGED lifeVars
    BY <2>1, <2>7, LifeStutter
  <2>8. QED
    BY <2>1, <2>2, <2>3, <2>4, <2>5, <2>6, <2>7 DEF LifeNext, Finished
<1>3. QED
  BY <1>1, <1>2, PTL DEF LifeSpec

\* A TD that still has a key id in the TDX module is the one whose key id it is.
LEMMA KeyedOwnsKeyid ==
  ASSUME LifeInv, NEW t \in Tds, Keyed(t)
  PROVE  td[t].hkid # 0 /\ mod[t].hkid = td[t].hkid /\ mod[t].hkid \in pool
BY DEF LifeInv, TdStage, TdKeyed, KeyidsOwned

\* What is asked back is the TDX module's to give.
LEMMA ReclaimsAreAllowed == ASSUME LifeInv PROVE ReclaimsAllowed
<1>1. SUFFICES ASSUME NEW t \in Tds, NEW p \in Reclaims(t)
               PROVE  /\ mod[t].key = "freed"
                      /\ p = td[t].tdr =>
                           td[t].tdcs = {} /\ \A v \in VcpusOf(t) : tdVcpu[v].tdvpr = NullPa
  BY DEF ReclaimsAllowed
<1>2. TdStage(t) /\ (td[t].hkid = 0 \/ HkidAssigned(t))
  BY HkidOrNone DEF LifeInv, HkidAssigned
<1>3. CASE td[t].pc = "vm_free" /\ ~HkidAssigned(t) /\ p \in td[t].tdcs
  BY <1>2, <1>3 DEF TdStage, TdKeyed, TdGiven
<1>4. CASE td[t].pc = "free_tdr" /\ p = td[t].tdr
  <2>1. td[t].hkid = 0 /\ td[t].tdcs = {} /\ mod[t].key = "freed"
    BY <1>2, <1>4 DEF TdStage, TdEnds, TdKeyed
  <2>2. ASSUME NEW v \in VcpusOf(t) PROVE tdVcpu[v].tdvpr = NullPa
    <3>1. v \in TdVcpus /\ TdOf[v] = t /\ VcpuStage(v)
      BY RecordsOf DEF VcpusOf
    <3>2. QED
      BY <1>4, <2>1, <3>1 DEF VcpuStage, VcpuPages, VcpuPlace, VcpuKeyed, Freeing
  <2>3. QED
    BY <2>1, <2>2
<1>5. ASSUME NEW v \in VcpusOf(t), ~VcpuGivesUp(v),
             p \in tdVcpu[v].tdvpx \cup ({tdVcpu[v].tdvpr} \ {NullPa})
      PROVE  mod[t].key = "freed" /\ p # td[t].tdr
  <2>1. v \in TdVcpus /\ TdOf[v] = t /\ VcpuStage(v) /\ p \in HeldByVcpu(v)
    BY <1>5, RecordsOf DEF VcpusOf, HeldByVcpu, NonNull
  <2>2. td[t].hkid = 0
    BY <1>2, <1>5, <2>1 DEF VcpuGivesUp
  <2>3. mod[t].key = "freed"
    BY <1>5, <2>1, <2>2 DEF VcpuStage, VcpuKeyed
  <2>4. p \notin HeldByTd(t) /\ p # NullPa
    BY <2>1, RecordsOf DEF LifeInv, PagesApart, VcpuRecords, HeldByVcpu, NonNull
  <2>5. QED
    BY <2>3, <2>4 DEF HeldByTd, NonNull
<1>6. QED
  BY <1>1, <1>3, <1>4, <1>5 DEF Reclaims

\* Key ids and pages of TDs, the kernel and the TDX module stay apart: the kernel's free
\* pages are clean, a key id in use is reserved for one TD and counted, and a page is
\* asked back only when the TDX module will give it.
THEOREM TdsStayApart == LifeSpec => []TdsKeepApart
<1>1. LifeInv => TdsKeepApart
  <2>1. SUFFICES ASSUME LifeInv PROVE TdsKeepApart
    OBVIOUS
  <2>2. LifeTypeOK
    <3>1. nr_configured_hkid \in 0 .. Cardinality(Keyids)
      <4>1. pool \subseteq Keyids /\ nr_configured_hkid = Cardinality(pool)
        BY <2>1 DEF LifeInv, LifeRecords, KeyidsOwned
      <4>2. /\ IsFiniteSet(pool) /\ Cardinality(pool) <= Cardinality(Keyids)
            /\ Cardinality(pool) \in Nat /\ Cardinality(Keyids) \in Nat
        BY <4>1, TdxLifeAssumption, FS_Subset, FS_CardinalityType
      <4>3. QED
        BY <4>1, <4>2
    <3>2. /\ free \subseteq KernelPages /\ pool \subseteq Keyids
          /\ pamt \in [KernelPages -> {"host", "TDR", "TDCX", "TDVPR", "TDVPX"}]
      BY <2>1 DEF LifeInv, LifeRecords, PageKinds
    <3>3. \A t \in Tds :
            /\ td[t].hkid \in Keyids \cup {0} /\ td[t].tdr \in PageOr0
            /\ td[t].tdcs \subseteq KernelPages /\ mod[t].pages \subseteq KernelPages
            /\ mod[t].key \in {"none", "assigned", "configured", "flushed", "freed"}
      BY <2>1, RecordsOf DEF TdRecords, ModRecords
    <3>4. \A v \in TdVcpus :
            tdVcpu[v].tdvpr \in PageOr0 /\ tdVcpu[v].tdvpx \subseteq KernelPages
      BY <2>1, RecordsOf DEF VcpuRecords
    <3>5. QED
      BY <3>1, <3>2, <3>3, <3>4 DEF LifeTypeOK
  <2>3. KeyidExclusive
    BY <2>1, KeyedOwnsKeyid DEF KeyidExclusive, LifeInv, KeyidsOwned
  <2>4. FreePagesAreHost /\ ConfiguredCounted
    BY <2>1 DEF LifeInv, KeyidsOwned
  <2>5. QED
    BY <2>1, <2>2, <2>3, <2>4, ReclaimsAreAllowed DEF TdsKeepApart
<1>2. QED
  BY <1>1, LifeInvariance, PTL

\* What a TD without a key id still holds, before it is built or at its end, is the TDX
\* module's; and that is nothing, unless the TDX module kept something.
LEMMA HeldWithoutKeyid ==
  ASSUME LifeInv, NEW t \in Tds, InTd(t, "gone") \/ Unassigned(t)
  PROVE  /\ IsGiven(HeldByTd(t)) /\ \A v \in VcpusOf(t) : IsGiven(HeldByVcpu(v))
         /\ ~mod[t].kept =>
              /\ td[t].hkid = 0 /\ mod[t] = NoTd
              /\ HeldByTd(t) = {} /\ \A v \in VcpusOf(t) : HeldByVcpu(v) = {}
<1>1. /\ TdStage(t) /\ td[t].pc \in {"idle", "gone"}
      /\ td[t].hkid = 0 \/ td[t].pc = "gone"
  BY HkidOrNone DEF LifeInv, InTd, Unassigned, HkidAssigned
<1>2. td[t].new_tdr = NullPa /\ td[t].new_tdcs = {}
  BY <1>1 DEF TdStage, TdUnbuilt, Building, Created
<1>3. ~mod[t].kept => td[t].hkid = 0
  BY <1>1 DEF TdStage, TdEnds
<1>4. ~mod[t].kept => td[t].tdr = NullPa /\ td[t].tdcs = {}
  BY <1>1, <1>3 DEF TdStage, TdEnds
<1>5. ~mod[t].kept => mod[t] = NoTd /\ mod[t].key = "none"
  BY <1>1, <1>4 DEF TdStage, TdNothingElse, NoTd
<1>6. IsGiven(HeldByTd(t))
  BY <1>1, <1>2 DEF TdStage, TdGiven, HeldByTd, NonNull, IsGiven
<1>7. ASSUME NEW v \in VcpusOf(t)
      PROVE  IsGiven(HeldByVcpu(v)) /\ (~mod[t].kept => HeldByVcpu(v) = {})
  <2>1. TdOf[v] = t /\ VcpuStage(v) /\ tdVcpu[v] \in VcpuRecords
    BY RecordsOf DEF VcpusOf
  <2>2. tdVcpu[v].pc \in {"none", "idle", "gone"}
    BY <1>1, <2>1 DEF VcpuStage, VcpuPlace, VcpuRecords, LifeVcpuPcs, VpBuilding, VpCreated,
       Freeing
  <2>3. tdVcpu[v].new_tdvpr = NullPa /\ tdVcpu[v].new_tdvpx = {}
    BY <2>1, <2>2 DEF VcpuStage, VcpuPages
  <2>4. IsGiven(HeldByVcpu(v))
    BY <2>1, <2>2, <2>3 DEF VcpuStage, VcpuPages, HeldByVcpu, NonNull, IsGiven
  <2>5. ~mod[t].kept => tdVcpu[v].tdvpr = NullPa /\ tdVcpu[v].tdvpx = {}
    BY <1>3, <1>5, <2>1 DEF VcpuStage, VcpuKeyed
  <2>6. QED
    BY <2>3, <2>4, <2>5 DEF HeldByVcpu, NonNull
<1>8. ~mod[t].kept => HeldByTd(t) = {}
  BY <1>2, <1>4 DEF HeldByTd, NonNull
<1>9. QED
  BY <1>3, <1>5, <1>6, <1>7, <1>8

\* Pages and key ids come back: at once when KVM_TDX_INIT_VM fails, else when no TD has
\* or will have a key id, but for what the TDX module kept.
THEOREM EverythingComesBack == LifeSpec => []EverythingBack
<1>1. LifeInv => EverythingBack
  <2>1. SUFFICES ASSUME LifeInv PROVE FailedInitUndone /\ AllGivenBack
    BY DEF EverythingBack
  <2>2. ASSUME NEW t \in Tds, Unassigned(t), ~mod[t].kept
        PROVE  td[t].tdr = NullPa /\ td[t].tdcs = {} /\ mod[t] = NoTd
    BY <2>1, <2>2, HeldWithoutKeyid DEF HeldByTd, NonNull
  <2>3. ASSUME \A t \in Tds : InTd(t, "gone") \/ Unassigned(t)
        PROVE  /\ free = {p \in KernelPages : pamt[p] = "host"}
               /\ (\A t \in Tds : ~mod[t].kept) => free = KernelPages /\ pool = {}
    <3>1. \A v \in TdVcpus : TdOf[v] \in Tds /\ v \in VcpusOf(TdOf[v])
      BY TdxLifeAssumption DEF VcpusOf
    <3>2. /\ \A t \in Tds : IsGiven(HeldByTd(t))
          /\ \A v \in TdVcpus : IsGiven(HeldByVcpu(v))
      BY <2>1, <2>3, <3>1, HeldWithoutKeyid
    <3>3. ASSUME NEW p \in KernelPages, pamt[p] = "host" PROVE p \in free
      BY <2>1, <3>2, <3>3 DEF LifeInv, NoneLost, IsGiven
    <3>4. free = {p \in KernelPages : pamt[p] = "host"}
      BY <2>1, <3>3 DEF LifeInv, LifeRecords, FreePagesAreHost
    <3>5. ASSUME \A t \in Tds : ~mod[t].kept PROVE free = KernelPages /\ pool = {}
      <4>1. /\ \A t \in Tds : td[t].hkid = 0 /\ HeldByTd(t) = {}
            /\ \A v \in TdVcpus : HeldByVcpu(v) = {}
        BY <2>1, <2>3, <3>1, <3>5, HeldWithoutKeyid
      <4>2. free = KernelPages
        BY <2>1, <3>5, <4>1 DEF LifeInv, LifeRecords, NoneLost
      <4>3. pool = {}
        BY <2>1, <4>1, TdxLifeAssumption DEF LifeInv, LifeRecords, KeyidsOwned
      <4>4. QED
        BY <4>2, <4>3
    <3>6. QED
      BY <3>4, <3>5
  <2>4. QED
    BY <2>2, <2>3 DEF FailedInitUndone, AllGivenBack
<1>2. QED
  BY <1>1, LifeInvariance, PTL

=============================================================================
