------------------------- MODULE RttLocking_proofs -------------------------
(***************************************************************************)
(* Theorems about RttLocking.tla, for any number of CPUs and any commands. *)
(*                                                                         *)
(* LInv is inductive.  Its centre is View!Inv, the invariant of the tables *)
(* as the commands see them, which includes what they have decided and not *)
(* yet done to a data granule.  Around it: where the locks are (LocksOK),  *)
(* that a granule a handler has been given stays delegated (Reserved),     *)
(* that a walk is where a walk from the root would be now (OnWay), that    *)
(* what was checked under a lock still holds (StillPermitted), and that a  *)
(* page on its way out is a data granule (Freeing).                        *)
(***************************************************************************)
EXTENDS RttLocking, TLAPS, WellFoundedInduction

\* The lemmas about tables and walks, of the state the other CPUs see.
View == INSTANCE RmmRtt_proofs WITH gstate <- GstateView, secret <- SecretView

USE ConstantsAssumption, EvenTable DEF RTT_MIN_BLOCK_LEVEL, View!RTT_MIN_BLOCK_LEVEL

-----------------------------------------------------------------------------
(* The words of RmmRtt that do not depend on who looks.                    *)

\* Sizes and addresses are the same numbers for both.
LEMMA SameNumbers ==
  /\ View!RTT_PAGE_LEVEL = RTT_PAGE_LEVEL
  /\ View!Idx = Idx /\ View!Levels = Levels /\ View!IpaSize = IpaSize /\ View!Ipas = Ipas
  /\ View!Par = Par
  /\ \A l : View!MapSize(l) = MapSize(l)
  /\ \A a, l : View!Index(a, l) = Index(a, l)
BY DEF View!Idx, View!Levels, View!Ipas, View!Par, View!Index, View!IpaSize, View!MapSize,
       View!RTT_PAGE_LEVEL, View!RTT_MIN_BLOCK_LEVEL, RTT_PAGE_LEVEL, RTT_MIN_BLOCK_LEVEL,
       Idx, Levels, Ipas, Par, Index, IpaSize, MapSize

\* So is the number of elements of a set.
LEMMA SameSizes == \A S : View!Cardinality(S) = Cardinality(S)
BY DEF View!Cardinality, Cardinality

\* What an entry is, and the entry of a HIPAS, a RIPAS and a granule.
LEMMA SameEntries ==
  /\ \A e : /\ View!IsTable(e) <=> IsTable(e)
            /\ View!HoldsData(e) <=> HoldsData(e)
            /\ View!IsUnassigned(e) <=> IsUnassigned(e)
            /\ View!IsAssignedRam(e) <=> IsAssignedRam(e)
            /\ View!IsValid(e) <=> IsValid(e)
  /\ \A h, r, p : View!MkEntry(h, r, p) = MkEntry(h, r, p)
BY DEF View!IsTable, View!HoldsData, View!IsUnassigned, View!IsAssignedRam, View!IsValid, View!MkEntry,
       IsTable, HoldsData, IsUnassigned, IsAssignedRam, IsValid, MkEntry

\* A walk reads the same tables, so it stops in the same place.
LEMMA SameWalks ==
  /\ \A w, a : View!EntryAt(w, a) = EntryAt(w, a)
  /\ \A w, a, t : View!WalkStep(w, a, t) = WalkStep(w, a, t)
  /\ \A rd, a, t : View!Walk(rd, a, t) = Walk(rd, a, t)
<1>1. \A w, a : View!EntryAt(w, a) = EntryAt(w, a)
  BY SameNumbers DEF View!EntryAt, EntryAt
<1>2. \A w, a, t : View!WalkStep(w, a, t) = WalkStep(w, a, t)
  BY <1>1, SameEntries DEF View!WalkStep, WalkStep
<1>3. QED
  BY <1>1, <1>2 DEF View!Walk, Walk

\* The checks of a command's arguments.
LEMMA SameChecks ==
  /\ \A a, l : View!ValidStructureCmd(a, l) <=> ValidStructureCmd(a, l)
  /\ \A a, l : View!ValidMapCmd(a, l) <=> ValidMapCmd(a, l)
  /\ \A a, l : View!Aligned(a, l) <=> Aligned(a, l)
BY SameNumbers DEF View!ValidStructureCmd, View!ValidMapCmd, View!ValidMapAddr, View!Aligned,
   View!RTT_MIN_BLOCK_LEVEL,
   ValidStructureCmd, ValidMapCmd, ValidMapAddr, Aligned, RTT_MIN_BLOCK_LEVEL

-----------------------------------------------------------------------------
(* The inductive invariant.                                                *)

CpuState ==
    [pc : {"idle", "named", "root", "walk", "mapped", "free", "unlock_rd"},
     cmd : CommandType \cup {NoCommand}, todo : SUBSET Nat, w : [g : Nat, level : Int]]

\* What a handler works on in each of its places.  In "free" the command also names
\* the granule it found.
Placed(s) ==
    /\ s.pc \in {"named", "root", "walk", "mapped", "unlock_rd"} => s.cmd \in Commands
    /\ s.pc = "named" => s.todo # {} /\ s.todo \subseteq Named(s.cmd)
    /\ s.pc = "mapped" => s.cmd.op \in {"data_create", "data_create_unknown"}
    /\ s.pc = "free" => /\ s.cmd \in CommandType /\ s.cmd.pa \in Granules
                        /\ s.w \in [g : Granules, level : Levels]
    /\ s.pc = "unlock_rd" => UnlocksTwice(s.cmd)

PlacesOK == cpu \in [Cpus -> CpuState] /\ \A c \in Cpus : Placed(cpu[c])

\* LockedByOne, lock by lock.
LocksOK ==
    /\ locked \subseteq Granules \cup Descriptors
    /\ \A x \in SoundLocks : x \in locked <=> \E c \in Cpus : x \in Held(cpu[c])
    /\ \A c, d \in Cpus : c # d => Held(cpu[c]) \cap Held(cpu[d]) \cap SoundLocks = {}

\* A granule whose lock a handler got as delegated stays delegated until the handler
\* itself changes that.
Given(s) ==
    /\ s.pc \in {"named", "root", "walk", "mapped"}
    /\ TakesGranule(s.cmd)
    /\ s.pc = "named" => s.cmd.pa \notin s.todo
Reserved == \A c \in Cpus : Given(cpu[c]) => gstate[cpu[c].cmd.pa] = "DELEGATED"

\* Whatever other commands did meanwhile, a walk has come to where it would come if
\* it started from the root now.
Walking(s) ==
    s.pc = "walk" =>
        /\ s.w.level \in Levels /\ s.w.level <= WalkLevel(s.cmd)
        /\ View!On(s2tt, s.cmd.rd, s.cmd.addr, s.w.g, s.w.level)
OnWay == \A c \in Cpus : Walking(cpu[c])

\* What Permitted checked is still true, as far as the lock that protects it is sound.
Allowed(s) ==
    s.pc \in {"root", "walk"} =>
        /\ s.cmd.op = "set_ripas" => /\ s.cmd.addr = setRipas[s.cmd.rd].addr
                                     /\ s.cmd.top <= setRipas[s.cmd.rd].top
        /\ s.cmd.op \in {"data_create", "init_ripas"} /\ RdAddr[s.cmd.rd] \in SoundLocks
             => rdState[s.cmd.rd] = "NEW"
StillPermitted == \A c \in Cpus : Allowed(cpu[c])

\* A granule that an entry led to is a data granule when its lock is free, and only
\* one CPU is taking it out.
Freeing ==
    /\ \A c \in Cpus : cpu[c].pc = "free" =>
         gstate[cpu[c].cmd.pa] = "DATA" \/ cpu[c].cmd.pa \in Mapped
    /\ \A c, d \in Cpus : c # d /\ cpu[c].pc = "free" /\ cpu[d].pc = "free"
                            => cpu[c].cmd.pa # cpu[d].cmd.pa

Meaning ==
    /\ gstate \in [Granules -> GranuleStates]
    /\ setRipas \in [Rds -> Requests]
    /\ View!Inv

LInv ==
    /\ PlacesOK
    /\ LocksOK
    /\ Reserved
    /\ OnWay
    /\ StillPermitted
    /\ Freeing
    /\ Meaning

-----------------------------------------------------------------------------
(* Commands and the locks they name.                                       *)

\* Descriptors and granules are different addresses.
LEMMA Addresses ==
  /\ Granules \subseteq Nat /\ Descriptors \subseteq Nat /\ Granules \cap Descriptors = {}
  /\ \A rd \in Rds : /\ RootOf[rd] \in Granules
                     /\ RdAddr[rd] \in Descriptors /\ RecAddr[rd] \in Descriptors
                     /\ RdAddr[rd] # RecAddr[rd] /\ RecAddr[rd] \in SoundLocks
  /\ Granules \subseteq SoundLocks /\ SoundLocks \subseteq Granules \cup Descriptors
<1>1. \A cmd \in Commands : cmd.rd \in Rds
  BY LockingAssumption DEF CommandType
<1>2. \A rd \in Rds : RdAddr[rd] \in Nat \ Granules /\ RecAddr[rd] \in Nat \ Granules
  BY LockingAssumption
<1>3. \A r1, r2 \in Rds : RdAddr[r1] # RecAddr[r2]
  BY LockingAssumption
<1>4. QED
  BY <1>1, <1>2, <1>3 DEF Descriptors, SoundLocks

\* What the argument checks leave.
LEMMA Arguments ==
  ASSUME NEW cmd \in Commands
  PROVE  /\ cmd \in CommandType
         /\ cmd.rd \in Rds /\ cmd.addr \in Ipas /\ cmd.addr \in Nat /\ cmd.level \in Levels
         /\ cmd.pa \in Nat /\ cmd.top \in Nat /\ cmd.op \in Operations
         /\ TakesGranule(cmd) => cmd.pa \in Granules
         /\ WalkLevel(cmd) \in Levels
<1>1. cmd \in CommandType /\ ValidArguments(cmd)
  BY LockingAssumption
<1>2. /\ cmd.rd \in Rds /\ cmd.addr \in Ipas /\ cmd.level \in Levels
      /\ cmd.pa \in Nat /\ cmd.top \in Nat /\ cmd.op \in Operations
  BY <1>1 DEF CommandType
<1>3. cmd.addr \in Nat
  BY <1>2 DEF Ipas
<1>4. TakesGranule(cmd) => cmd.pa \in Granules
  BY <1>1 DEF ValidArguments, TakesGranule
<1>5. StartLevel \in 0 .. 2 /\ Levels = StartLevel .. 3
  BY DEF Levels, RTT_PAGE_LEVEL
<1>6. cmd.op \in {"rtt_create", "rtt_fold", "rtt_destroy"} => cmd.level \in StartLevel + 1 .. 3
  BY <1>1 DEF ValidArguments, ValidStructureCmd, RTT_PAGE_LEVEL
<1>7. WalkLevel(cmd) \in Levels
  BY <1>2, <1>5, <1>6 DEF WalkLevel, RTT_PAGE_LEVEL
<1>8. QED
  BY <1>1, <1>2, <1>3, <1>4, <1>7

\* A command names at most two addresses: its realm's descriptor, and a granule or a REC.
LEMMA NamedAddresses ==
  ASSUME NEW cmd \in Commands
  PROVE  /\ Named(cmd) \subseteq Granules \cup Descriptors /\ Named(cmd) \subseteq Nat
         /\ RdAddr[cmd.rd] \in Named(cmd)
         /\ Named(cmd) \cap Granules = IF TakesGranule(cmd) THEN {cmd.pa} ELSE {}
         /\ \E x \in Nat : Named(cmd) \subseteq {RdAddr[cmd.rd], x}
         /\ cmd.op = "set_ripas" => RecAddr[cmd.rd] \in Named(cmd)
<1>1. /\ cmd.rd \in Rds /\ cmd.pa \in Nat
      /\ TakesGranule(cmd) => cmd.pa \in Granules
  BY Arguments
<1>2. RdAddr[cmd.rd] \in Descriptors /\ RecAddr[cmd.rd] \in Descriptors
  BY <1>1, Addresses
<1>3. ~(TakesGranule(cmd) /\ cmd.op = "set_ripas")
  BY DEF TakesGranule
<1>4. /\ Named(cmd) \subseteq Granules \cup Descriptors
      /\ RdAddr[cmd.rd] \in Named(cmd)
      /\ cmd.op = "set_ripas" => RecAddr[cmd.rd] \in Named(cmd)
  BY <1>1, <1>2 DEF Named
<1>5. Named(cmd) \cap Granules = IF TakesGranule(cmd) THEN {cmd.pa} ELSE {}
  <2>1. RdAddr[cmd.rd] \notin Granules /\ RecAddr[cmd.rd] \notin Granules
    BY <1>2, Addresses
  <2>2. CASE TakesGranule(cmd)
    BY <1>1, <2>1, <2>2 DEF Named
  <2>3. CASE ~TakesGranule(cmd)
    BY <2>1, <2>3 DEF Named
  <2>4. QED
    BY <2>2, <2>3
<1>6. \E x \in Nat : Named(cmd) \subseteq {RdAddr[cmd.rd], x}
  BY <1>1, <1>2, <1>3, Addresses DEF Named
<1>7. QED
  BY <1>4, <1>5, <1>6, Addresses

\* The lower of two addresses is there to be taken next.
LEMMA NextLockIsLowest ==
  ASSUME NEW cmd \in Commands, NEW todo \in SUBSET Named(cmd), todo # {}
  PROVE  NextLock(todo) \in todo /\ \A y \in todo : NextLock(todo) <= y
<1>1. PICK x \in Nat : Named(cmd) \subseteq {RdAddr[cmd.rd], x}
  BY NamedAddresses
<1>2. RdAddr[cmd.rd] \in Nat
  BY Arguments, Addresses
<1>3. \E z \in todo : \A y \in todo : z <= y
  <2>1. todo \subseteq {RdAddr[cmd.rd], x}
    BY <1>1
  <2>2. PICK z \in todo : TRUE
    OBVIOUS
  <2>3. CASE todo = {z}
    BY <1>2, <2>1, <2>2, <2>3
  <2>4. CASE todo # {z}
    <3>1. todo = {RdAddr[cmd.rd], x}
      BY <2>1, <2>2, <2>4
    <3>2. QED
      BY <1>2, <3>1
  <2>5. QED
    BY <2>3, <2>4
<1>4. QED
  BY <1>3 DEF NextLock

\* KeptNamed is part of what was named, and all of it for the data and RIPAS commands.
LEMMA KeptIsNamed ==
  ASSUME NEW cmd
  PROVE  /\ KeptNamed(cmd) \subseteq Named(cmd)
         /\ KeepsRd(cmd) => KeptNamed(cmd) = Named(cmd)
         /\ KeptNamed(cmd) = Named(cmd) \ (IF KeepsRd(cmd) THEN {} ELSE {RdAddr[cmd.rd]})
BY DEF KeptNamed

-----------------------------------------------------------------------------
(* The locks.                                                              *)

\* A sound lock is taken exactly when somebody holds it.
LEMMA TakenIsHeld ==
  ASSUME LocksOK, NEW x \in SoundLocks
  PROVE  x \in locked <=> \E d \in Cpus : x \in Held(cpu[d])
BY DEF LocksOK

\* Of what it takes a step gives up the locks drop, and then holds what its next
\* place says: so nothing is lost and nothing is given up that is not held.
LEMMA MoveKeepsLocks ==
  ASSUME PlacesOK, LocksOK, NEW c \in Cpus, NEW drop, NEW next, Move(c, drop, next),
         Wanted(cpu[c]) \subseteq Granules \cup Descriptors,
         drop \cap SoundLocks \subseteq All(cpu[c]),
         Held(next) \cap SoundLocks = (All(cpu[c]) \ drop) \cap SoundLocks
  PROVE  LocksOK'
<1> DEFINE s == cpu[c]
           want == Wanted(s)
<1>1. /\ want \cap locked = {} /\ locked' = (locked \cup want) \ drop
      /\ cpu'[c] = next /\ \A d \in Cpus \ {c} : cpu'[d] = cpu[d]
  BY DEF Move, PlacesOK
<1>2. /\ Held(cpu'[c]) \cap SoundLocks = ((Held(s) \cup want) \ drop) \cap SoundLocks
      /\ \A d \in Cpus \ {c} : Held(cpu'[d]) = Held(cpu[d])
  BY <1>1 DEF All
<1> HIDE DEF want, s
<1>3. \A d \in Cpus : Held(cpu[d]) \cap SoundLocks \subseteq locked
  BY TakenIsHeld
<1>4. \A d \in Cpus \ {c} : Held(cpu[d]) \cap (Held(s) \cup want) \cap SoundLocks = {}
  BY <1>1, <1>3 DEF LocksOK, s
<1>5. locked' \subseteq Granules \cup Descriptors
  BY <1>1 DEF LocksOK, want, s
<1>6. ASSUME NEW x \in SoundLocks
      PROVE  x \in locked' <=> \E d \in Cpus : x \in Held(cpu'[d])
  <2>1. x \in locked <=> \E d \in Cpus : x \in Held(cpu[d])
    BY TakenIsHeld
  <2>2. x \in drop => x \in Held(s) \cup want
    BY DEF All, s, want
  <2>3. x \in Held(cpu'[c]) <=> (x \in Held(s) \/ x \in want) /\ x \notin drop
    BY <1>2
  <2>4. x \in drop => \A d \in Cpus \ {c} : x \notin Held(cpu[d])
    BY <1>4, <2>2
  <2>5. x \in locked' <=> (x \in locked \/ x \in want) /\ x \notin drop
    BY <1>1
  <2>6. (\E d \in Cpus : x \in Held(cpu'[d])) <=>
           x \in Held(cpu'[c]) \/ \E d \in Cpus \ {c} : x \in Held(cpu[d])
    BY <1>2
  <2>7. (\E d \in Cpus : x \in Held(cpu[d])) <=>
           x \in Held(s) \/ \E d \in Cpus \ {c} : x \in Held(cpu[d])
    BY DEF s
  <2>8. QED
    BY <2>1, <2>2, <2>3, <2>4, <2>5, <2>6, <2>7
<1>7. \A d, e \in Cpus : d # e => Held(cpu'[d]) \cap Held(cpu'[e]) \cap SoundLocks = {}
  <2> SUFFICES ASSUME NEW d \in Cpus, NEW e \in Cpus, d # e
               PROVE  Held(cpu'[d]) \cap Held(cpu'[e]) \cap SoundLocks = {}
    OBVIOUS
  <2>1. CASE d # c /\ e # c
    BY <1>2, <2>1 DEF LocksOK
  <2>2. CASE d = c
    BY <1>2, <1>4, <2>2
  <2>3. CASE e = c
    BY <1>2, <1>4, <2>3
  <2>4. QED
    BY <2>1, <2>2, <2>3
<1>8. QED
  BY <1>5, <1>6, <1>7 DEF LocksOK

\* A lock that can be had is held by nobody, unless it is unlocked twice somewhere.
LEMMA FreeLock ==
  ASSUME LocksOK, NEW x \in SoundLocks, x \notin locked, NEW d \in Cpus
  PROVE  x \notin Held(cpu[d])
BY TakenIsHeld

-----------------------------------------------------------------------------
(* What the commands see.                                                  *)

\* A table is a table to everybody; a data granule may be about to become one.
LEMMA ViewStates ==
  ASSUME NEW g \in Granules
  PROVE  /\ g \in View!Rtts <=> GstateView[g] = "RTT"
         /\ GstateView[g] = "RTT" <=> gstate[g] = "RTT" /\ g \notin Mapped /\ g \notin Unmapped
         /\ GstateView[g] = "DATA" <=> g \notin Unmapped /\ (g \in Mapped \/ gstate[g] = "DATA")
         /\ GstateView[g] = "DELEGATED" <=>
              g \in Unmapped \/ (g \notin Mapped /\ gstate[g] = "DELEGATED")
<1>1. GstateView[g] = IF g \in Unmapped THEN "DELEGATED"
                      ELSE IF g \in Mapped THEN "DATA" ELSE gstate[g]
  BY DEF GstateView
<1>2. QED
  BY <1>1 DEF View!Rtts

\* A page somebody has mapped is locked until its granule says so.
LEMMA MappedIsLocked ==
  ASSUME PlacesOK, LocksOK, Reserved, NEW x \in Mapped
  PROVE  /\ x \in Granules /\ x \in locked /\ gstate[x] = "DELEGATED"
         /\ \E d \in Cpus : cpu[d].pc = "mapped" /\ cpu[d].cmd.pa = x /\ x \in Held(cpu[d])
<1>1. PICK d \in Cpus : cpu[d].pc = "mapped" /\ x = cpu[d].cmd.pa
  BY DEF Mapped
<1>2. /\ cpu[d].cmd \in Commands /\ TakesGranule(cpu[d].cmd)
      /\ Given(cpu[d])
  BY <1>1 DEF PlacesOK, Placed, TakesGranule, Given
<1>3. x \in Granules
  BY <1>1, <1>2, Arguments
<1>4. x \in Held(cpu[d])
  BY <1>1 DEF Held, StillLocked
<1>5. QED
  BY <1>1, <1>2, <1>3, <1>4, Addresses, TakenIsHeld DEF Reserved

\* A granule that is given to a handler is locked by it, so it is given to one only.
LEMMA GivenIsHeld ==
  ASSUME PlacesOK, NEW c \in Cpus, Given(cpu[c])
  PROVE  /\ cpu[c].cmd \in Commands /\ cpu[c].cmd.pa \in Granules
         /\ cpu[c].cmd.pa \in SoundLocks /\ cpu[c].cmd.pa \in Held(cpu[c])
<1> DEFINE s == cpu[c]
           g == s.cmd.pa
<1>1. s.cmd \in Commands /\ g \in Granules
  BY Arguments DEF PlacesOK, Placed, Given
<1>2. g \in Named(s.cmd)
  BY DEF Named, Given
<1>3. s.pc = "named" => Held(s) = Named(s.cmd) \ s.todo
  BY DEF Held
<1>4. s.pc = "root" => Held(s) = Named(s.cmd)
  BY DEF Held
<1>5. s.pc = "walk" => KeptNamed(s.cmd) \subseteq Held(s)
  BY DEF Held
<1>6. s.pc = "mapped" => Held(s) = {g}
  BY DEF Held, StillLocked
<1>7. g # RdAddr[s.cmd.rd]
  BY <1>1, Arguments, Addresses
<1>8. g \in KeptNamed(s.cmd)
  BY <1>2, <1>7, KeptIsNamed
<1>9. QED
  BY <1>1, <1>2, <1>3, <1>4, <1>5, <1>6, <1>8, Addresses DEF Given

\* No granule is given to two handlers.
LEMMA GivenApart ==
  ASSUME LInv, NEW c \in Cpus, NEW d \in Cpus, c # d, Given(cpu[c]), Given(cpu[d])
  PROVE  cpu[c].cmd.pa # cpu[d].cmd.pa
BY GivenIsHeld DEF LInv, LocksOK

\* What is given to a handler is not on its way out of another realm's table.
LEMMA GivenIsOurs ==
  ASSUME LInv, NEW c \in Cpus, Given(cpu[c]), cpu[c].pc # "mapped"
  PROVE  LET g == cpu[c].cmd.pa IN
         /\ g \in Granules /\ gstate[g] = "DELEGATED"
         /\ g \notin Mapped /\ g \notin Unmapped
         /\ GstateView[g] = "DELEGATED"
<1> DEFINE g == cpu[c].cmd.pa
<1>1. g \in Granules /\ g \in SoundLocks /\ g \in Held(cpu[c])
  BY GivenIsHeld DEF LInv
<1>2. gstate[g] = "DELEGATED"
  BY DEF LInv, Reserved
<1>3. g \notin Mapped
  <2>1. SUFFICES ASSUME g \in Mapped PROVE FALSE
    OBVIOUS
  <2>2. PICK d \in Cpus : cpu[d].pc = "mapped" /\ g \in Held(cpu[d])
    BY <2>1, MappedIsLocked DEF LInv
  <2>3. QED
    BY <1>1, <2>2 DEF LInv, LocksOK
<1>4. g \notin Unmapped
  BY <1>2, <1>3 DEF LInv, Freeing, Unmapped
<1>5. QED
  BY <1>1, <1>2, <1>3, <1>4, ViewStates

\* Where a walk is, and where the entry for its address leads.
LEMMA WalkIsOnTable ==
  ASSUME LInv, NEW c \in Cpus, cpu[c].pc = "walk"
  PROVE  LET s == cpu[c]
             e == Entered(s)
         IN  /\ s.cmd \in Commands /\ s.w = [g |-> s.w.g, level |-> s.w.level]
             /\ s.w.level \in Levels /\ s.w.level <= WalkLevel(s.cmd)
             /\ View!On(s2tt, s.cmd.rd, s.cmd.addr, s.w.g, s.w.level)
             /\ s.w.g \in View!Rtts /\ s.w.g \in Granules /\ gstate[s.w.g] = "RTT"
             /\ lvl[s.w.g] = s.w.level
             /\ s.w.g \notin Named(s.cmd)
             /\ Index(s.cmd.addr, s.w.level) \in Idx
             /\ e = s2tt[s.w.g][Index(s.cmd.addr, s.w.level)] /\ e \in View!Entry
             /\ IsTable(e) => /\ e.pa \in View!Rtts /\ e.pa \in Granules /\ gstate[e.pa] = "RTT"
                              /\ e.pa \notin View!Roots /\ e.pa \notin Named(s.cmd)
                              /\ e.pa # s.w.g /\ lvl[e.pa] = s.w.level + 1
<1> DEFINE s == cpu[c]
           e == Entered(s)
<1>1. s.cmd \in Commands /\ s \in CpuState
  BY DEF LInv, PlacesOK, Placed
<1>2. /\ s.w.level \in Levels /\ s.w.level <= WalkLevel(s.cmd)
      /\ View!On(s2tt, s.cmd.rd, s.cmd.addr, s.w.g, s.w.level)
  BY DEF LInv, OnWay, Walking
<1>3. /\ s.cmd.rd \in Rds /\ s.cmd.addr \in Nat
  BY <1>1, Arguments
<1>4. View!Inv /\ s.w.level \in View!Levels
  BY <1>2, SameNumbers DEF LInv, Meaning
<1>5. /\ s.w.g \in View!Rtts /\ s.w.g \in Granules /\ lvl[s.w.g] = s.w.level
      /\ View!Index(s.cmd.addr, s.w.level) \in View!Idx
      /\ s2tt[s.w.g][View!Index(s.cmd.addr, s.w.level)] \in View!Entry
  BY <1>2, <1>3, <1>4, View!OnTable
<1>6. e = s2tt[s.w.g][View!Index(s.cmd.addr, s.w.level)]
  BY SameNumbers DEF Entered, EntryAt
<1>7. gstate[s.w.g] = "RTT"
  BY <1>5, ViewStates
<1>8. ASSUME NEW g \in Granules, gstate[g] = "RTT"
      PROVE  g \notin Named(s.cmd)
  <2>1. SUFFICES ASSUME g \in Named(s.cmd) PROVE FALSE
    OBVIOUS
  <2>2. TakesGranule(s.cmd) /\ g = s.cmd.pa
    BY <1>1, <1>8, <2>1, NamedAddresses
  <2>3. Given(s)
    BY <2>2 DEF Given
  <2>4. QED
    BY <1>8, <2>2, <2>3 DEF LInv, Reserved
<1>9. ASSUME IsTable(e)
      PROVE  /\ e.pa \in View!Rtts /\ e.pa \in Granules /\ gstate[e.pa] = "RTT"
             /\ e.pa \notin View!Roots
             /\ lvl[e.pa] = s.w.level + 1 /\ e.pa # s.w.g
  <2>1. View!IsTable(s2tt[s.w.g][View!Index(s.cmd.addr, s.w.level)])
    BY <1>6, <1>9, SameEntries
  <2>2. e.pa \in View!Rtts /\ e.pa \notin View!Roots /\ lvl[e.pa] = lvl[s.w.g] + 1
    BY <1>4, <1>5, <1>6, <2>1, ZenonT(60) DEF View!Inv, View!PointsToOwned
  <2>3. e.pa \in Granules
    BY <2>2 DEF View!Rtts
  <2>4. s.w.level \in Int /\ e.pa # s.w.g
    BY <1>2, <1>5, <2>2 DEF Levels, RTT_PAGE_LEVEL
  <2>5. QED
    BY <1>5, <2>2, <2>3, <2>4, ViewStates
<1>10. s.w = [g |-> s.w.g, level |-> s.w.level]
  BY <1>1 DEF CpuState
<1>11. QED
  BY <1>1, <1>2, <1>5, <1>6, <1>7, <1>8, <1>9, <1>10, SameNumbers

\* A walk that goes no further is where the whole walk ends.
LEMMA WalkDone ==
  ASSUME LInv, NEW c \in Cpus, cpu[c].pc = "walk", ~GoesDown(cpu[c])
  PROVE  View!Walk(cpu[c].cmd.rd, cpu[c].cmd.addr, WalkLevel(cpu[c].cmd)) = cpu[c].w
<1> DEFINE s == cpu[c]
           t == WalkLevel(s.cmd)
<1>1. /\ s.cmd \in Commands /\ s.w = [g |-> s.w.g, level |-> s.w.level]
      /\ s.w.level \in Levels /\ s.w.level <= t
      /\ View!On(s2tt, s.cmd.rd, s.cmd.addr, s.w.g, s.w.level)
      /\ Entered(s) = s2tt[s.w.g][Index(s.cmd.addr, s.w.level)]
  BY WalkIsOnTable
<1>2. t \in View!Levels /\ s.w.level \in View!Levels
  BY <1>1, Arguments, SameNumbers
<1>3. s.w.level < t => ~View!IsTable(s2tt[s.w.g][View!Index(s.cmd.addr, s.w.level)])
  BY <1>1, SameNumbers, SameEntries DEF GoesDown
<1>4. View!Walk(s.cmd.rd, s.cmd.addr, t) = View!At(s.w.g, s.w.level)
  <2> HIDE DEF t
  <2>1. QED
    BY <1>1, <1>2, <1>3, View!WalkEndsAt
<1>5. QED
  BY <1>1, <1>4 DEF View!At

-----------------------------------------------------------------------------
(* Steps that change no table and no granule.                              *)

Quiet == {"idle", "named", "root", "walk", "unlock_rd"}

\* A step from one quiet place to another maps and unmaps nothing.
LEMMA MappedKept ==
  ASSUME NEW c \in Cpus, cpu[c].pc \in Quiet, cpu'[c].pc \in Quiet,
         \A d \in Cpus \ {c} : cpu'[d] = cpu[d]
  PROVE  Mapped' = Mapped /\ Unmapped' = Unmapped
<1>1. {d \in Cpus : cpu'[d].pc = "mapped"} = {d \in Cpus : cpu[d].pc = "mapped"}
  BY DEF Quiet
<1>2. {d \in Cpus : cpu'[d].pc = "free"} = {d \in Cpus : cpu[d].pc = "free"}
  BY DEF Quiet
<1>3. \A d \in Cpus : cpu[d].pc \in {"mapped", "free"} => cpu'[d] = cpu[d]
  BY DEF Quiet
<1>4. \A x : x \in Mapped' <=> x \in Mapped
  BY <1>1, <1>3 DEF Mapped
<1>5. \A x : x \in Unmapped' <=> x \in Unmapped
  BY <1>2, <1>3 DEF Unmapped
<1>6. QED
  BY <1>4, <1>5

\* What a step writes for CPU c.
LEMMA MoveWrites ==
  ASSUME PlacesOK, NEW c \in Cpus, NEW drop, NEW next, Move(c, drop, next)
  PROVE  /\ cpu' = [cpu EXCEPT ![c] = next]
         /\ cpu'[c] = next /\ \A d \in Cpus \ {c} : cpu'[d] = cpu[d]
         /\ Wanted(cpu[c]) \cap locked = {}
BY DEF Move, PlacesOK

\* A handler that moves on without an effect keeps the invariant.
LEMMA QuietStep ==
  ASSUME LInv, NEW c \in Cpus, NEW drop, NEW next, Move(c, drop, next), UNCHANGED vars,
         cpu[c].pc \in Quiet, next.pc \in Quiet, next \in CpuState, Placed(next),
         Wanted(cpu[c]) \subseteq Granules \cup Descriptors,
         drop \cap SoundLocks \subseteq All(cpu[c]),
         Held(next) \cap SoundLocks = (All(cpu[c]) \ drop) \cap SoundLocks,
         Given(next) => gstate[next.cmd.pa] = "DELEGATED",
         Walking(next), Allowed(next)
  PROVE  LInv' /\ UNCHANGED View!vars
<1>1. /\ cpu' = [cpu EXCEPT ![c] = next]
      /\ cpu'[c] = next /\ \A d \in Cpus \ {c} : cpu'[d] = cpu[d]
  BY MoveWrites DEF LInv
<1>2. /\ gstate' = gstate /\ s2tt' = s2tt /\ setRipas' = setRipas /\ rdState' = rdState
      /\ refcount' = refcount /\ secret' = secret /\ lvl' = lvl
      /\ measured' = measured /\ tlb' = tlb
  BY DEF vars
<1>3. Mapped' = Mapped /\ Unmapped' = Unmapped
  BY <1>1, MappedKept
<1>4. GstateView' = GstateView /\ SecretView' = SecretView
  BY <1>2, <1>3 DEF GstateView, SecretView
<1>5. PlacesOK'
  BY <1>1 DEF LInv, PlacesOK
<1>6. LocksOK'
  BY MoveKeepsLocks DEF LInv
<1>7. Reserved'
  BY <1>1, <1>2 DEF LInv, Reserved
<1>8. OnWay'
  <2>1. \A d \in Cpus : Walking(cpu'[d])
    BY <1>1 DEF LInv, OnWay
  <2>2. QED
    BY <1>2, <2>1 DEF OnWay, Walking
<1>9. StillPermitted'
  <2>1. \A d \in Cpus : Allowed(cpu'[d])
    BY <1>1 DEF LInv, StillPermitted
  <2>2. QED
    BY <1>2, <2>1 DEF StillPermitted, Allowed
<1>10. Freeing'
  <2>1. \A d \in Cpus : cpu'[d].pc = "free" => cpu'[d] = cpu[d]
    BY <1>1 DEF Quiet
  <2>2. QED
    BY <1>2, <1>3, <2>1 DEF LInv, Freeing
<1>11. Meaning'
  <2>1. View!Inv'
    BY <1>2, <1>4, View!UnchangedKeepsInv DEF LInv, Meaning
  <2>2. QED
    BY <1>2, <2>1 DEF LInv, Meaning
<1>12. QED
  BY <1>2, <1>4, <1>5, <1>6, <1>7, <1>8, <1>9, <1>10, <1>11 DEF LInv, View!vars

\* A command begins with nothing locked.
LEMMA StartQuiet ==
  ASSUME LInv, NEW c \in Cpus, Start(c)
  PROVE  LInv' /\ UNCHANGED View!vars
<1>1. PICK cmd \in Commands :
        Move(c, {}, [Idle EXCEPT !.pc = "named", !.cmd = cmd, !.todo = Named(cmd)])
  BY DEF Start
<1> DEFINE next == [Idle EXCEPT !.pc = "named", !.cmd = cmd, !.todo = Named(cmd)]
<1>2. Move(c, {}, next)
  BY <1>1
<1>3. next \in CpuState
  <2>1. Idle \in CpuState /\ cmd \in CommandType /\ Named(cmd) \in SUBSET Nat
    BY Arguments, NamedAddresses DEF CpuState, Idle, NoWalk
  <2>2. QED
    BY <2>1 DEF CpuState
<1>4. next.pc = "named" /\ next.cmd = cmd /\ next.todo = Named(cmd)
  BY DEF Idle
<1> HIDE DEF next
<1>5. /\ Placed(next) /\ Held(next) = {} /\ ~Given(next)
      /\ Walking(next) /\ Allowed(next)
  <2>1. TakesGranule(cmd) => cmd.pa \in Named(cmd)
    BY DEF Named
  <2>2. QED
    BY <1>4, <2>1, NamedAddresses DEF Placed, Held, Given, Walking, Allowed
<1>6. cpu[c].pc = "idle" /\ UNCHANGED vars
  BY DEF Start
<1>7. Held(cpu[c]) = {} /\ Wanted(cpu[c]) = {}
  BY <1>6 DEF Held, Wanted
<1>8. QED
  BY <1>2, <1>3, <1>4, <1>5, <1>6, <1>7, QuietStep DEF Quiet, All

\* A handler that has returned holds and expects nothing.
LEMMA IdlePlace ==
  /\ Idle \in CpuState /\ Placed(Idle) /\ Held(Idle) = {} /\ Idle.pc = "idle"
  /\ ~Given(Idle) /\ Walking(Idle) /\ Allowed(Idle)
BY DEF Idle, CpuState, NoCommand, NoWalk, Placed, Held, Given, Walking, Allowed

\* Locking what the command names, in the order of the addresses.
LEMMA LockNamedQuiet ==
  ASSUME LInv, NEW c \in Cpus, LockNamed(c)
  PROVE  LInv' /\ UNCHANGED View!vars
<1> DEFINE s == cpu[c]
           rest == s.todo \ Wanted(s)
           ok == /\ \A x \in Wanted(s) \ Descriptors : Usable(x)
                 /\ rest = {} => Permitted(s.cmd)
<1>1. s.pc = "named" /\ UNCHANGED vars
  BY DEF LockNamed
<1>2. /\ s \in CpuState /\ s.cmd \in Commands
      /\ s.todo # {} /\ s.todo \subseteq Named(s.cmd)
  BY <1>1 DEF LInv, PlacesOK, Placed
<1>3. Wanted(s) = {NextLock(s.todo)} /\ Held(s) = Named(s.cmd) \ s.todo
  BY <1>1 DEF Wanted, Held
<1>4. NextLock(s.todo) \in s.todo
  BY <1>2, NextLockIsLowest
<1>5. Wanted(s) \subseteq Granules \cup Descriptors /\ rest \subseteq Nat
  BY <1>2, <1>3, <1>4, NamedAddresses
<1>6. ASSUME ok, TakesGranule(s.cmd), s.cmd.pa \notin rest
      PROVE  gstate[s.cmd.pa] = "DELEGATED"
  <2>1. CASE s.cmd.pa \in s.todo
    <3>1. s.cmd.pa \in Wanted(s) /\ s.cmd.pa \notin Descriptors
      BY <1>2, <1>6, <2>1, Arguments, Addresses
    <3>2. QED
      BY <1>6, <3>1 DEF Usable
  <2>2. CASE s.cmd.pa \notin s.todo
    BY <1>1, <1>6, <2>2 DEF LInv, Reserved, Given
  <2>3. QED
    BY <2>1, <2>2
<1>7. CASE ok /\ rest # {} /\ Move(c, {}, [s EXCEPT !.todo = rest])
  <2> DEFINE next == [s EXCEPT !.todo = rest]
  <2>1. next \in CpuState /\ next.pc = "named" /\ next.cmd = s.cmd /\ next.todo = rest
    BY <1>1, <1>2, <1>5 DEF CpuState
  <2>2. Placed(next)
    BY <1>2, <1>7, <2>1 DEF Placed
  <2>3. Held(next) = Named(s.cmd) \ rest
    BY <2>1 DEF Held
  <2>4. Held(next) = All(s) \ {}
    BY <1>2, <1>3, <1>4, <2>3 DEF All
  <2>5. Given(next) => gstate[next.cmd.pa] = "DELEGATED"
    BY <1>6, <1>7, <2>1 DEF Given
  <2>6. Walking(next) /\ Allowed(next)
    BY <2>1 DEF Walking, Allowed
  <2> HIDE DEF next, ok, rest
  <2>7. Move(c, {}, next)
    BY <1>7 DEF next
  <2>8. QED
    BY <1>1, <1>5, <2>1, <2>2, <2>4, <2>5, <2>6, <2>7, QuietStep DEF Quiet
<1>8. CASE ok /\ rest = {} /\ Move(c, {}, [s EXCEPT !.todo = {}, !.pc = "root"])
  <2> DEFINE next == [s EXCEPT !.todo = {}, !.pc = "root"]
  <2>1. next \in CpuState /\ next.pc = "root" /\ next.cmd = s.cmd
    BY <1>1, <1>2, <1>5 DEF CpuState
  <2>2. Placed(next)
    BY <1>2, <1>8, <2>1 DEF Placed
  <2>3. Held(next) = Named(s.cmd)
    BY <2>1 DEF Held
  <2>4. Held(next) = All(s) \ {}
    BY <1>2, <1>3, <1>4, <1>8, <2>3 DEF All
  <2>5. Given(next) => gstate[next.cmd.pa] = "DELEGATED"
    BY <1>6, <1>8, <2>1 DEF Given
  <2>6. Permitted(s.cmd)
    BY <1>8
  <2>7. Walking(next) /\ Allowed(next)
    BY <2>1, <2>6 DEF Walking, Allowed, Permitted
  <2> HIDE DEF next, ok, rest
  <2>8. Move(c, {}, next)
    BY <1>8 DEF next
  <2>9. QED
    BY <1>1, <1>5, <2>1, <2>2, <2>4, <2>5, <2>7, <2>8, QuietStep DEF Quiet
<1>9. CASE Move(c, All(s), Idle)
  BY <1>1, <1>5, <1>9, IdlePlace, QuietStep DEF Quiet
<1>10. QED
  BY <1>7, <1>8, <1>9 DEF LockNamed

\* The root table: the walk begins, and most commands let the descriptor go.
LEMMA LockRootQuiet ==
  ASSUME LInv, NEW c \in Cpus, LockRoot(c)
  PROVE  LInv' /\ UNCHANGED View!vars
<1> DEFINE s == cpu[c]
           root == RootOf[s.cmd.rd]
           drop == IF KeepsRd(s.cmd) THEN {} ELSE {RdAddr[s.cmd.rd]}
           next == [s EXCEPT !.pc = "walk", !.w = [g |-> root, level |-> StartLevel]]
<1>1. s.pc = "root" /\ UNCHANGED vars /\ Move(c, drop, next)
  BY DEF LockRoot
<1>2. s \in CpuState /\ s.cmd \in Commands
  BY <1>1 DEF LInv, PlacesOK, Placed
<1>3. s.cmd.rd \in Rds /\ root \in Granules /\ root \in Nat /\ StartLevel \in Int
  <2>1. s.cmd.rd \in Rds
    BY <1>2, Arguments
  <2>2. root \in Granules /\ root \in Nat
    BY <2>1, Addresses
  <2>3. StartLevel \in Int
    OBVIOUS
  <2>4. QED
    BY <2>1, <2>2, <2>3
<1>4. Wanted(s) = {root} /\ Held(s) = Named(s.cmd)
  BY <1>1 DEF Wanted, Held
<1>5. /\ next \in CpuState /\ next.pc = "walk" /\ next.cmd = s.cmd
      /\ next.w.g = root /\ next.w.level = StartLevel
  BY <1>2, <1>3 DEF CpuState
<1>6. Placed(next)
  BY <1>2, <1>5 DEF Placed
<1>7. Held(next) = All(s) \ drop
  <2>1. Held(next) = {root} \cup KeptNamed(s.cmd)
    BY <1>5 DEF Held
  <2>2. root \notin drop
    BY <1>3, Addresses
  <2>3. QED
    BY <1>4, <2>1, <2>2, KeptIsNamed DEF All
<1>8. drop \subseteq All(s)
  BY <1>2, <1>4, NamedAddresses DEF All
<1>9. Given(next) => gstate[next.cmd.pa] = "DELEGATED"
  BY <1>1, <1>5 DEF LInv, Reserved, Given
<1>10. Walking(next)
  <2>1. StartLevel \in Levels /\ StartLevel <= WalkLevel(s.cmd)
    BY <1>2, Arguments DEF Levels, RTT_PAGE_LEVEL
  <2>2. View!On(s2tt, s.cmd.rd, s.cmd.addr, root, StartLevel)
    BY View!OnRoot
  <2>3. QED
    BY <1>5, <2>1, <2>2 DEF Walking
<1>11. Allowed(next)
  BY <1>1, <1>5 DEF LInv, StillPermitted, Allowed
<1> HIDE DEF next, drop
<1>12. QED
  BY <1>1, <1>3, <1>4, <1>5, <1>6, <1>7, <1>8, <1>9, <1>10, <1>11, QuietStep DEF Quiet

\* Down one level: the child table is locked before its parent is let go.
LEMMA WalkDownQuiet ==
  ASSUME LInv, NEW c \in Cpus, WalkDown(c)
  PROVE  LInv' /\ UNCHANGED View!vars
<1> DEFINE s == cpu[c]
           e == Entered(s)
           down == [g |-> e.pa, level |-> s.w.level + 1]
           next == [s EXCEPT !.w = down]
<1>1. s.pc = "walk" /\ UNCHANGED vars /\ GoesDown(s) /\ s \in CpuState
  BY DEF WalkDown, LInv, PlacesOK
<1>2. /\ s.cmd \in Commands
      /\ s.w.level \in Levels /\ s.w.level <= WalkLevel(s.cmd)
      /\ View!On(s2tt, s.cmd.rd, s.cmd.addr, s.w.g, s.w.level)
      /\ s.w.g \in Granules /\ s.w.g \notin Named(s.cmd)
      /\ e = s2tt[s.w.g][Index(s.cmd.addr, s.w.level)]
  BY <1>1, WalkIsOnTable
<1>3. IsTable(e) /\ s.w.level < WalkLevel(s.cmd)
  BY <1>1 DEF GoesDown
<1>4. e.pa \in Granules /\ e.pa \notin Named(s.cmd) /\ e.pa # s.w.g
  BY <1>1, <1>3, WalkIsOnTable
<1>5. s.w.level + 1 \in Levels /\ s.w.level + 1 <= WalkLevel(s.cmd) /\ s.w.level + 1 \in Int
  <2> DEFINE l == s.w.level
             m == WalkLevel(s.cmd)
  <2>1. l \in Levels /\ l <= m /\ l < m /\ m \in Levels
    BY <1>2, <1>3, Arguments, Zenon
  <2> HIDE DEF l, m
  <2>2. l + 1 \in Levels /\ l + 1 <= m /\ l + 1 \in Int
    BY <2>1, ConstantsAssumption DEF Levels, RTT_PAGE_LEVEL, RTT_MIN_BLOCK_LEVEL
  <2>3. QED
    BY <2>2, Zenon DEF l, m
<1>6. WalkStep(s.w, s.cmd.addr, WalkLevel(s.cmd)) = down
  BY <1>3 DEF WalkStep, Entered
<1>7. Move(c, {s.w.g}, next)
  BY <1>6 DEF WalkDown
<1>8. /\ next \in CpuState /\ next.pc = "walk" /\ next.cmd = s.cmd
      /\ next.w.g = e.pa /\ next.w.level = s.w.level + 1
  BY <1>1, <1>4, <1>5, Addresses DEF CpuState
<1>9. Placed(next)
  BY <1>2, <1>8 DEF Placed
<1>10. Wanted(s) = {e.pa} /\ Held(s) = {s.w.g} \cup KeptNamed(s.cmd)
  BY <1>1 DEF Wanted, Held
<1>11. Held(next) = All(s) \ {s.w.g}
  <2>1. Held(next) = {e.pa} \cup KeptNamed(s.cmd)
    BY <1>8 DEF Held
  <2>2. QED
    BY ZenonT(60), <1>2, <1>4, <1>10, <2>1, KeptIsNamed DEF All
<1>12. Given(next) => gstate[next.cmd.pa] = "DELEGATED"
  BY <1>1, <1>8 DEF LInv, Reserved, Given
<1>13. Walking(next)
  <2>1. s.w.level \in View!Levels /\ s.w.level + 1 \in View!Levels
    BY <1>2, <1>5, SameNumbers
  <2>2. /\ View!IsTable(s2tt[s.w.g][View!Index(s.cmd.addr, s.w.level)])
        /\ e.pa = s2tt[s.w.g][View!Index(s.cmd.addr, s.w.level)].pa
    BY <1>2, <1>3, SameNumbers, SameEntries
  <2>3. View!On(s2tt, s.cmd.rd, s.cmd.addr, e.pa, s.w.level + 1)
    <3> HIDE DEF e
    <3>1. QED
      BY <1>2, <2>1, <2>2, View!OnBelow
  <2>4. QED
    BY <1>5, <1>8, <2>3 DEF Walking
<1>14. Allowed(next)
  BY <1>1, <1>8 DEF LInv, StillPermitted, Allowed
<1>15. {s.w.g} \cap SoundLocks \subseteq All(s)
  BY <1>10 DEF All
<1> HIDE DEF next
<1>16. QED
  BY <1>1, <1>4, <1>7, <1>8, <1>9, <1>10, <1>11, <1>12, <1>13, <1>14, <1>15, QuietStep DEF Quiet

\* What a handler has locked at the end of the walk.
LEMMA WantedAtEnd ==
  ASSUME LInv, NEW c \in Cpus, cpu[c].pc = "walk"
  PROVE  /\ Wanted(cpu[c]) \subseteq Granules
         /\ Wanted(cpu[c]) \subseteq Granules \cup Descriptors
         /\ Wanted(cpu[c]) \subseteq {Entered(cpu[c]).pa}
<1>1. Wanted(cpu[c]) \subseteq {Entered(cpu[c]).pa}
  BY DEF Wanted
<1>2. Wanted(cpu[c]) # {} => IsTable(Entered(cpu[c]))
  BY DEF Wanted, GoesDown
<1>3. QED
  BY <1>1, <1>2, WalkIsOnTable

\* A handler that returns, some by way of another unlock.
LEMMA ReturnPlace ==
  ASSUME NEW s \in CpuState, s.cmd \in Commands
  PROVE  /\ Returns(s) \in CpuState /\ Placed(Returns(s)) /\ Held(Returns(s)) = {}
         /\ Returns(s).pc \in {"idle", "unlock_rd"} /\ ~Given(Returns(s))
         /\ Walking(Returns(s)) /\ Allowed(Returns(s))
<1>1. CASE UnlocksTwice(s.cmd)
  <2> DEFINE next == [pc |-> "unlock_rd", cmd |-> s.cmd, todo |-> {}, w |-> NoWalk]
  <2>1. Returns(s) = next
    BY <1>1 DEF Returns, Idle
  <2>2. next \in CpuState
    BY DEF CpuState, NoWalk
  <2>3. /\ Placed(next) /\ Held(next) = {} /\ ~Given(next) /\ Walking(next) /\ Allowed(next)
        /\ next.pc \in {"idle", "unlock_rd"}
    BY <1>1 DEF Placed, Held, Given, Walking, Allowed
  <2> HIDE DEF next
  <2>4. QED
    BY <2>1, <2>2, <2>3
<1>2. CASE ~UnlocksTwice(s.cmd)
  BY <1>2, IdlePlace DEF Returns
<1>3. QED
  BY <1>1, <1>2

\* A command the tables refuse.
LEMMA FailsQuiet ==
  ASSUME LInv, NEW c \in Cpus, cpu[c].pc = "walk",
         Move(c, All(cpu[c]), Returns(cpu[c])), UNCHANGED vars
  PROVE  LInv' /\ UNCHANGED View!vars
<1>1. cpu[c] \in CpuState /\ cpu[c].cmd \in Commands
  BY DEF LInv, PlacesOK, Placed
<1>2. QED
  BY <1>1, ReturnPlace, WantedAtEnd, QuietStep DEF Quiet

\* The second unlock of the realm descriptor.
LEMMA UnlockRdAgainQuiet ==
  ASSUME LInv, NEW c \in Cpus, UnlockRdAgain(c)
  PROVE  LInv' /\ UNCHANGED View!vars
<1>1. /\ cpu[c].pc = "unlock_rd" /\ UNCHANGED vars
      /\ Move(c, {RdAddr[cpu[c].cmd.rd]}, Idle)
  BY DEF UnlockRdAgain
<1>2. cpu[c].cmd \in Commands /\ UnlocksTwice(cpu[c].cmd)
  BY <1>1 DEF LInv, PlacesOK, Placed
<1>3. RdAddr[cpu[c].cmd.rd] \notin SoundLocks
  BY <1>2 DEF SoundLocks
<1>4. Held(cpu[c]) = {} /\ Wanted(cpu[c]) = {}
  BY <1>1 DEF Held, Wanted
<1>5. QED
  BY <1>1, <1>3, <1>4, IdlePlace, QuietStep DEF Quiet, All

-----------------------------------------------------------------------------
(* Steps that change a table, seen as steps of RmmRtt.                     *)

\* The other words of RmmRtt that these steps use.
LEMMA SameParts ==
  /\ \A e : View!HasOutput(e) <=> HasOutput(e)
  /\ \A r : View!Unassigned(r) = Unassigned(r)
  /\ View!UnassignedNs = UnassignedNs /\ View!ZeroTable = ZeroTable
  /\ \A t, a : View!Covers(t, a) <=> Covers(t, a)
  /\ \A rd, as : View!InvalidateAt(rd, as) = InvalidateAt(rd, as)
  /\ \A rd, a, l : View!InvalidateRange(rd, a, l) = InvalidateRange(rd, a, l)
  /\ \A tbl : View!FoldedEntry(tbl) = FoldedEntry(tbl)
  /\ \A tbl, rc, l : View!Foldable(tbl, rc, l) <=> Foldable(tbl, rc, l)
<1>1. \A e : View!HasOutput(e) <=> HasOutput(e)
  BY DEF View!HasOutput, HasOutput
<1>2. \A r : View!Unassigned(r) = Unassigned(r)
  BY SameEntries DEF View!Unassigned, Unassigned
<1>3. View!UnassignedNs = UnassignedNs /\ View!ZeroTable = ZeroTable
  BY <1>2, SameNumbers, SameEntries DEF View!UnassignedNs, UnassignedNs, View!ZeroTable, ZeroTable
<1>4. \A t, a : View!Covers(t, a) <=> Covers(t, a)
  BY SameNumbers DEF View!Covers, Covers
<1>5. \A rd, as : View!InvalidateAt(rd, as) = InvalidateAt(rd, as)
  BY <1>4 DEF View!InvalidateAt, InvalidateAt
<1>6. \A rd, a, l : View!InvalidateRange(rd, a, l) = InvalidateRange(rd, a, l)
  BY SameNumbers DEF View!InvalidateRange, InvalidateRange
<1>7. \A tbl : View!FoldedEntry(tbl) = FoldedEntry(tbl)
  BY SameEntries DEF View!FoldedEntry, FoldedEntry
<1>8. \A tbl, rc, l : View!Foldable(tbl, rc, l) <=> Foldable(tbl, rc, l)
  <2>1. \A tbl : View!Homogeneous(tbl) <=> Homogeneous(tbl)
    BY SameNumbers DEF View!Homogeneous, Homogeneous
  <2>2. \A tbl, l : View!MapsBlock(tbl, l) <=> MapsBlock(tbl, l)
    BY SameNumbers, SameChecks DEF View!MapsBlock, MapsBlock
  <2>3. QED
    BY <2>1, <2>2, SameEntries
    DEF View!Foldable, Foldable, View!RTT_MIN_BLOCK_LEVEL, RTT_MIN_BLOCK_LEVEL
<1>9. QED
  BY <1>1, <1>2, <1>3, <1>4, <1>5, <1>6, <1>7, <1>8

\* RMI_RTT_CREATE.
LEMMA SeenRttCreateAt ==
  ASSUME NEW w, NEW rd, NEW g, NEW a, NEW l,
         RttCreateAt(w, rd, g, a, l),
         GstateView' = [GstateView EXCEPT ![g] = "RTT"], SecretView' = SecretView
  PROVE  View!RttCreateAt(w, rd, g, a, l)
BY SameNumbers, SameEntries, SameWalks, SameChecks, SameParts
DEF View!RttCreateAt, View!UnfoldEntry, View!TableEntry, View!RefcountAfterCreate,
   RttCreateAt, UnfoldEntry, TableEntry, RefcountAfterCreate

\* RMI_RTT_FOLD.
LEMMA SeenRttFoldAt ==
  ASSUME NEW w, NEW rd, NEW a, NEW l,
         RttFoldAt(w, rd, a, l),
         GstateView' = [GstateView EXCEPT ![s2tt[w.g][Index(a, l - 1)].pa] = "DELEGATED"],
         SecretView' = SecretView
  PROVE  View!RttFoldAt(w, rd, a, l)
BY SameNumbers, SameEntries, SameWalks, SameChecks, SameParts
DEF View!RttFoldAt, RttFoldAt

\* RMI_RTT_DESTROY.
LEMMA SeenRttDestroyAt ==
  ASSUME NEW w, NEW rd, NEW a, NEW l,
         RttDestroyAt(w, rd, a, l),
         GstateView' = [GstateView EXCEPT ![s2tt[w.g][Index(a, l - 1)].pa] = "DELEGATED"],
         SecretView' = SecretView
  PROVE  View!RttDestroyAt(w, rd, a, l)
BY SameNumbers, SameEntries, SameWalks, SameChecks, SameParts
DEF View!RttDestroyAt, View!Destroyable, View!DestroyFlush, RttDestroyAt, Destroyable,
   DestroyFlush

\* RMI_RTT_MAP_UNPROTECTED.
LEMMA SeenRttMapUnprotectedAt ==
  ASSUME NEW w, NEW rd, NEW a, NEW l, NEW p,
         RttMapUnprotectedAt(w, rd, a, l, p),
         GstateView' = GstateView, SecretView' = SecretView
  PROVE  View!RttMapUnprotectedAt(w, rd, a, l, p)
BY SameNumbers, SameEntries, SameWalks, SameChecks, SameParts
DEF View!RttMapUnprotectedAt, View!AssignedNs, RttMapUnprotectedAt, AssignedNs

\* RMI_RTT_UNMAP_UNPROTECTED.
LEMMA SeenRttUnmapUnprotectedAt ==
  ASSUME NEW w, NEW rd, NEW a, NEW l,
         RttUnmapUnprotectedAt(w, rd, a, l),
         GstateView' = GstateView, SecretView' = SecretView
  PROVE  View!RttUnmapUnprotectedAt(w, rd, a, l)
BY SameNumbers, SameEntries, SameWalks, SameChecks, SameParts
DEF View!RttUnmapUnprotectedAt, RttUnmapUnprotectedAt

\* RMI_RTT_INIT_RIPAS.
LEMMA SeenRttInitRipasAt ==
  ASSUME NEW w, NEW rd, NEW a, NEW p,
         RttInitRipasAt(w, rd, a, p),
         GstateView' = GstateView, SecretView' = SecretView
  PROVE  View!RttInitRipasAt(w, rd, a, p)
BY ZenonT(60), SameNumbers, SameEntries, SameWalks, SameChecks, SameParts
DEF View!RttInitRipasAt, View!Run, View!PagesOf, RttInitRipasAt, Run, PagesOf

\* RMI_RTT_SET_RIPAS.
LEMMA SeenRttSetRipasAt ==
  ASSUME NEW w, NEW rd, NEW p,
         RttSetRipasAt(w, rd, p),
         GstateView' = GstateView, SecretView' = SecretView
  PROVE  View!RttSetRipasAt(w, rd, p)
<1> DEFINE req == setRipas[rd]
           CanUpdate(e) == CanUpdateRipas(e, req.change)
           ks == Run(w, req.addr, p, CanUpdate)
           SeenCanUpdate(e) == View!CanUpdateRipas(e, req.change)
           seenKs == View!Run(w, req.addr, p, SeenCanUpdate)
<1>1. \A e, ch : View!CanUpdateRipas(e, ch) <=> CanUpdateRipas(e, ch)
  BY DEF View!CanUpdateRipas, View!HasRipas, CanUpdateRipas, HasRipas
<1>2. seenKs = ks
  BY <1>1, SameNumbers DEF View!Run, Run
<1>3. \A e, r : View!UpdateRipas(e, r) = UpdateRipas(e, r)
  BY SameEntries DEF View!UpdateRipas, UpdateRipas
<1>4. \A e, r : View!NeedsTlbi(e, r) <=> NeedsTlbi(e, r)
  BY SameEntries DEF View!NeedsTlbi, NeedsTlbi
<1> HIDE DEF ks, seenKs
<1>5. /\ Aligned(req.addr, w.level)
      /\ ks # {}
      /\ s2tt' = [s2tt EXCEPT ![w.g] =
                   [k \in Idx |-> IF k \in ks THEN UpdateRipas(@[k], req.ripas) ELSE @[k]]]
      /\ tlb' = InvalidateAt(rd, {req.addr + (k - Index(req.addr, w.level)) * MapSize(w.level) :
                       k \in {j \in ks : NeedsTlbi(s2tt[w.g][j], req.ripas)}})
      /\ setRipas' = [setRipas EXCEPT ![rd].addr =
                       req.addr + Cardinality(ks) * MapSize(w.level)]
      /\ UNCHANGED <<refcount, rdState, measured, lvl>>
  BY DEF RttSetRipasAt, ks
<1>6. /\ View!Aligned(req.addr, w.level)
      /\ seenKs # {}
      /\ s2tt' = [s2tt EXCEPT ![w.g] =
                   [k \in View!Idx |-> IF k \in seenKs THEN View!UpdateRipas(@[k], req.ripas) ELSE @[k]]]
      /\ tlb' = View!InvalidateAt(rd, {req.addr + (k - View!Index(req.addr, w.level)) * View!MapSize(w.level) :
                       k \in {j \in seenKs : View!NeedsTlbi(s2tt[w.g][j], req.ripas)}})
      /\ setRipas' = [setRipas EXCEPT ![rd].addr =
                       req.addr + View!Cardinality(seenKs) * View!MapSize(w.level)]
      /\ UNCHANGED <<GstateView, refcount, SecretView, rdState, measured, lvl>>
  BY <1>2, <1>3, <1>4, <1>5, SameNumbers, SameSizes, SameChecks, SameParts
<1>7. QED
  BY <1>6 DEF View!RttSetRipasAt, seenKs

\* RMI_IPA_BLOCK and RMI_IPA_UNBLOCK.
LEMMA SeenSetBlockedAt ==
  ASSUME NEW w, NEW rd, NEW a, NEW p,
         SetBlockedAt(w, rd, a, p),
         GstateView' = GstateView, SecretView' = SecretView
  PROVE  View!SetBlockedAt(w, rd, a, p)
BY SameNumbers, SameEntries, SameWalks, SameChecks, SameParts
DEF View!SetBlockedAt, SetBlockedAt

\* What data_create does to the table.
LEMMA SeenMapData ==
  ASSUME NEW w, NEW g, NEW a, NEW p,
         MapData(w, g, a, p),
         SecretView' = SecretView \cup {g}
  PROVE  View!MapData(w, g, a, p)
BY SameNumbers, SameEntries, SameWalks, SameChecks, SameParts
DEF View!MapData, View!Assigned, MapData, Assigned

\* What smc_data_destroy does to the table.
LEMMA SeenUnmapData ==
  ASSUME NEW w, NEW rd, NEW a,
         UnmapData(w, rd, a),
         UNCHANGED <<gstate, secret>>
  PROVE  View!UnmapData(w, rd, a)
BY SameNumbers, SameEntries, SameWalks, SameChecks, SameParts
DEF View!UnmapData, View!RipasAfterDestroy, UnmapData, RipasAfterDestroy

-----------------------------------------------------------------------------
(* Steps that change a table or a granule.                                 *)

\* The tables D go, the other tables keep their links to tables that stay.
TablesKept(D) ==
    /\ View!Roots \cap D = {}
    /\ \A g \in View!Rtts \ D, k \in View!Idx :
         View!IsTable(s2tt[g][k]) /\ s2tt[g][k].pa \notin D => s2tt'[g][k] = s2tt[g][k]
    /\ \A g \in View!Rtts \cap D, k \in View!Idx : ~View!IsTable(s2tt[g][k])

\* What a step has to show about the CPUs d that do not take it.
OtherKept(d) ==
    /\ Given(cpu[d]) => gstate'[cpu[d].cmd.pa] = "DELEGATED"
    /\ cpu[d].pc \in {"root", "walk"} /\ cpu[d].cmd.op = "set_ripas"
         => setRipas'[cpu[d].cmd.rd] = setRipas[cpu[d].cmd.rd]

\* A handler that works on what it has locked keeps the invariant.
LEMMA ActStep ==
  ASSUME LInv, NEW c \in Cpus, NEW drop, NEW next, Move(c, drop, next),
         next.pc \in {"idle", "mapped", "free", "unlock_rd"}, next \in CpuState, Placed(next),
         Wanted(cpu[c]) \subseteq Granules \cup Descriptors,
         drop \cap SoundLocks \subseteq All(cpu[c]),
         Held(next) \cap SoundLocks = (All(cpu[c]) \ drop) \cap SoundLocks,
         Given(next) => gstate'[next.cmd.pa] = "DELEGATED",
         NEW D, TablesKept(D),
         \A d \in Cpus \ {c} : cpu[d].pc = "walk" => cpu[d].w.g \notin D,
         \A d \in Cpus \ {c} : OtherKept(d),
         rdState' = rdState, Freeing', Meaning'
  PROVE  LInv'
<1>1. cpu'[c] = next /\ \A d \in Cpus \ {c} : cpu'[d] = cpu[d]
  BY MoveWrites DEF LInv
<1>2. PlacesOK'
  <2>1. cpu' = [cpu EXCEPT ![c] = next]
    BY MoveWrites DEF LInv
  <2>2. QED
    BY <1>1, <2>1 DEF LInv, PlacesOK
<1>3. LocksOK'
  BY MoveKeepsLocks DEF LInv
<1>4. Reserved'
  BY <1>1 DEF Reserved, OtherKept
<1>5. OnWay'
  <2> SUFFICES ASSUME NEW d \in Cpus, cpu'[d].pc = "walk"
               PROVE  Walking(cpu[d])'
    BY DEF OnWay, Walking
  <2>1. d # c /\ cpu'[d] = cpu[d] /\ cpu[d].pc = "walk"
    BY <1>1
  <2>2. /\ cpu[d].w.level \in Levels /\ cpu[d].w.level <= WalkLevel(cpu[d].cmd)
        /\ View!On(s2tt, cpu[d].cmd.rd, cpu[d].cmd.addr, cpu[d].w.g, cpu[d].w.level)
    BY <2>1 DEF LInv, OnWay, Walking
  <2>3. cpu[d].cmd.rd \in Rds /\ cpu[d].cmd.addr \in Nat
    BY <2>1, Arguments DEF LInv, PlacesOK, Placed
  <2>4. cpu[d].w.level \in View!Levels /\ cpu[d].w.g \notin D
    BY <2>1, <2>2, SameNumbers
  <2>5. View!On(s2tt', cpu[d].cmd.rd, cpu[d].cmd.addr, cpu[d].w.g, cpu[d].w.level)
    BY <2>2, <2>3, <2>4, View!OnKept DEF TablesKept, LInv, Meaning
  <2>6. QED
    BY <2>1, <2>2, <2>5 DEF Walking
<1>6. StillPermitted'
  <2> SUFFICES ASSUME NEW d \in Cpus, cpu'[d].pc \in {"root", "walk"}
               PROVE  Allowed(cpu[d])'
    BY DEF StillPermitted, Allowed
  <2>1. d # c /\ cpu'[d] = cpu[d]
    BY <1>1
  <2>2. Allowed(cpu[d]) /\ OtherKept(d)
    BY <2>1 DEF LInv, StillPermitted
  <2>3. QED
    BY <2>1, <2>2 DEF Allowed, OtherKept
<1>7. QED
  BY <1>2, <1>3, <1>4, <1>5, <1>6 DEF LInv

\* A table that no entry links has nobody working on it.
LEMMA NothingDropped ==
  ASSUME \A g \in View!Rtts, k \in View!Idx : View!IsTable(s2tt[g][k]) => s2tt'[g][k] = s2tt[g][k]
  PROVE  TablesKept({})
BY DEF TablesKept

\* data_create, at last: the granule becomes what the entry says it is.
LEMMA BecomeDataStep ==
  ASSUME LInv, NEW c \in Cpus, BecomeData(c)
  PROVE  LInv' /\ UNCHANGED View!vars
<1> DEFINE s == cpu[c]
           g == s.cmd.pa
<1>1. /\ s.pc = "mapped" /\ gstate' = [gstate EXCEPT ![g] = "DATA"] /\ Move(c, All(s), Idle)
      /\ UNCHANGED <<refcount, s2tt, secret, rdState, measured, setRipas, tlb, lvl>>
  BY DEF BecomeData, BecomesData
<1>2. s \in CpuState /\ s.cmd \in Commands /\ Given(s)
  BY <1>1 DEF LInv, PlacesOK, Placed, Given, TakesGranule
<1>3. g \in Granules
  BY <1>2, GivenIsHeld DEF LInv
<1>4. cpu'[c] = Idle /\ \A d \in Cpus \ {c} : cpu'[d] = cpu[d]
  BY <1>1, MoveWrites DEF LInv
<1>5. Wanted(s) = {} /\ Held(s) = {g}
  BY <1>1 DEF Wanted, Held, StillLocked
<1>6. Unmapped' = Unmapped
  <2>1. {d \in Cpus : cpu'[d].pc = "free"} = {d \in Cpus : cpu[d].pc = "free"}
    BY <1>1, <1>4, IdlePlace
  <2>2. \A d \in Cpus : cpu[d].pc = "free" => cpu'[d] = cpu[d]
    BY <1>1, <1>4
  <2>3. \A x : x \in Unmapped' <=> x \in Unmapped
    BY <2>1, <2>2 DEF Unmapped
  <2>4. QED
    BY <2>3
<1>7. \A x : x \in Mapped' <=> x \in Mapped /\ x # g
  <2>1. ASSUME NEW d \in Cpus \ {c}, cpu[d].pc = "mapped"
        PROVE  cpu[d].cmd.pa # g
    <3>1. Given(cpu[d])
      BY <2>1 DEF LInv, PlacesOK, Placed, Given, TakesGranule
    <3>2. QED
      BY <1>2, <2>1, <3>1, GivenApart
  <2>2. QED
    BY <1>1, <1>4, <2>1, IdlePlace DEF Mapped
<1>8. g \in Mapped
  BY <1>1 DEF Mapped
<1>9. gstate'[g] = "DATA" /\ \A x \in Granules \ {g} : gstate'[x] = gstate[x]
  BY <1>1, <1>3 DEF LInv, Meaning
<1>10. GstateView' = GstateView
  <2>1. \A x \in Granules :
          (IF x \in Unmapped' THEN "DELEGATED" ELSE IF x \in Mapped' THEN "DATA" ELSE gstate'[x])
          = (IF x \in Unmapped THEN "DELEGATED" ELSE IF x \in Mapped THEN "DATA" ELSE gstate[x])
    BY <1>6, <1>7, <1>8, <1>9
  <2>2. QED
    BY <2>1 DEF GstateView
<1>11. SecretView' = SecretView
  BY <1>1, <1>6 DEF SecretView
<1>12. Meaning'
  <2>1. View!Inv'
    BY <1>1, <1>10, View!UnchangedKeepsInv DEF LInv, Meaning
  <2>2. gstate' \in [Granules -> GranuleStates]
    BY <1>1, <1>3 DEF LInv, Meaning, GranuleStates
  <2>3. QED
    BY <1>1, <2>1, <2>2 DEF LInv, Meaning
<1>13. Freeing'
  <2>1. \A d \in Cpus : cpu'[d].pc = "free" => cpu'[d] = cpu[d] /\ d # c
    BY <1>4, IdlePlace
  <2>2. ASSUME NEW d \in Cpus, cpu'[d].pc = "free"
        PROVE  gstate'[cpu'[d].cmd.pa] = "DATA" \/ cpu'[d].cmd.pa \in Mapped'
    <3>1. cpu'[d] = cpu[d] /\ cpu[d].cmd.pa \in Granules
      BY <2>1, <2>2 DEF LInv, PlacesOK, Placed
    <3>2. gstate[cpu[d].cmd.pa] = "DATA" \/ cpu[d].cmd.pa \in Mapped
      BY <2>2, <3>1 DEF LInv, Freeing
    <3>3. QED
      BY <1>7, <1>9, <3>1, <3>2
  <2>3. QED
    BY <2>1, <2>2 DEF LInv, Freeing
<1>14. \A d \in Cpus \ {c} : OtherKept(d)
  <2> SUFFICES ASSUME NEW d \in Cpus \ {c}, Given(cpu[d])
               PROVE  gstate'[cpu[d].cmd.pa] = "DELEGATED"
    BY <1>1 DEF OtherKept
  <2>1. cpu[d].cmd.pa # g /\ cpu[d].cmd.pa \in Granules
    BY <1>2, GivenApart, GivenIsHeld DEF LInv
  <2>2. QED
    BY <1>9, <2>1 DEF LInv, Reserved
<1>15. TablesKept({})
  BY <1>1, NothingDropped
<1>16. LInv'
  BY <1>1, <1>5, <1>12, <1>13, <1>14, <1>15, IdlePlace, ActStep DEF All
<1>17. QED
  BY <1>1, <1>10, <1>11, <1>16 DEF View!vars

\* smc_data_destroy, at last: the granule is wiped and is what the tables say.
LEMMA FreeGranuleStep ==
  ASSUME LInv, NEW c \in Cpus, FreeGranule(c)
  PROVE  LInv' /\ UNCHANGED View!vars
<1> DEFINE s == cpu[c]
           g == s.cmd.pa
<1>1. /\ s.pc = "free" /\ gstate' = [gstate EXCEPT ![g] = "DELEGATED"] /\ secret' = secret \ {g}
      /\ Move(c, All(s), Idle)
      /\ UNCHANGED <<refcount, s2tt, rdState, measured, setRipas, tlb, lvl>>
  BY DEF FreeGranule, FreeData, Wipe
<1>2. g \in Granules
  BY <1>1 DEF LInv, PlacesOK, Placed
<1>3. /\ cpu'[c] = Idle /\ \A d \in Cpus \ {c} : cpu'[d] = cpu[d]
      /\ Wanted(s) \cap locked = {}
  BY <1>1, MoveWrites DEF LInv
<1>4. Wanted(s) = {g}
  BY <1>1 DEF Wanted
<1>5. g \notin Mapped
  BY <1>3, <1>4, MappedIsLocked DEF LInv
<1>6. Mapped' = Mapped
  <2>1. {d \in Cpus : cpu'[d].pc = "mapped"} = {d \in Cpus : cpu[d].pc = "mapped"}
    BY <1>1, <1>3, IdlePlace
  <2>2. \A d \in Cpus : cpu[d].pc = "mapped" => cpu'[d] = cpu[d]
    BY <1>1, <1>3
  <2>3. \A x : x \in Mapped' <=> x \in Mapped
    BY <2>1, <2>2 DEF Mapped
  <2>4. QED
    BY <2>3
<1>7. \A x : x \in Unmapped' <=> x \in Unmapped /\ x # g
  <2>1. \A d \in Cpus \ {c} : cpu[d].pc = "free" => cpu[d].cmd.pa # g
    BY <1>1 DEF LInv, Freeing
  <2>2. QED
    BY <1>1, <1>3, <2>1, IdlePlace DEF Unmapped
<1>8. g \in Unmapped
  BY <1>1 DEF Unmapped
<1>9. gstate'[g] = "DELEGATED" /\ \A x \in Granules \ {g} : gstate'[x] = gstate[x]
  BY <1>1, <1>2 DEF LInv, Meaning
<1>10. GstateView' = GstateView
  <2>1. \A x \in Granules :
          (IF x \in Unmapped' THEN "DELEGATED" ELSE IF x \in Mapped' THEN "DATA" ELSE gstate'[x])
          = (IF x \in Unmapped THEN "DELEGATED" ELSE IF x \in Mapped THEN "DATA" ELSE gstate[x])
    BY <1>5, <1>6, <1>7, <1>8, <1>9
  <2>2. QED
    BY <2>1 DEF GstateView
<1>11. SecretView' = SecretView
  BY <1>1, <1>7, <1>8 DEF SecretView
<1>12. Meaning'
  <2>1. View!Inv'
    BY <1>1, <1>10, View!UnchangedKeepsInv DEF LInv, Meaning
  <2>2. gstate' \in [Granules -> GranuleStates]
    BY <1>1, <1>2 DEF LInv, Meaning, GranuleStates
  <2>3. QED
    BY <1>1, <2>1, <2>2 DEF LInv, Meaning
<1>13. Freeing'
  <2>1. \A d \in Cpus : cpu'[d].pc = "free" => cpu'[d] = cpu[d] /\ d # c
    BY <1>3, IdlePlace
  <2>2. ASSUME NEW d \in Cpus, cpu'[d].pc = "free"
        PROVE  gstate'[cpu'[d].cmd.pa] = "DATA" \/ cpu'[d].cmd.pa \in Mapped'
    <3>1. cpu'[d] = cpu[d] /\ d # c /\ cpu[d].cmd.pa \in Granules
      BY <2>1, <2>2 DEF LInv, PlacesOK, Placed
    <3>2. gstate[cpu[d].cmd.pa] = "DATA" \/ cpu[d].cmd.pa \in Mapped
      BY <2>2, <3>1 DEF LInv, Freeing
    <3>3. cpu[d].cmd.pa # g
      BY <1>1, <2>2, <3>1 DEF LInv, Freeing
    <3>4. QED
      BY <1>6, <1>9, <3>1, <3>2, <3>3
  <2>3. QED
    BY <2>1, <2>2 DEF LInv, Freeing
<1>14. \A d \in Cpus \ {c} : OtherKept(d)
  <2> SUFFICES ASSUME NEW d \in Cpus \ {c}, Given(cpu[d])
               PROVE  gstate'[cpu[d].cmd.pa] = "DELEGATED"
    BY <1>1 DEF OtherKept
  <2>1. cpu[d].cmd.pa \in Granules
    BY GivenIsHeld DEF LInv
  <2>2. QED
    BY <1>9, <2>1 DEF LInv, Reserved
<1>15. TablesKept({})
  BY <1>1, NothingDropped
<1>16. LInv'
  BY <1>1, <1>2, <1>4, <1>12, <1>13, <1>14, <1>15, IdlePlace, ActStep
<1>17. QED
  BY <1>1, <1>10, <1>11, <1>16 DEF View!vars

-----------------------------------------------------------------------------
(* The commands that return with what they did.                            *)

\* A command that returns maps and unmaps no data granule later.
LEMMA ReturnViews ==
  ASSUME LInv, NEW c \in Cpus, cpu[c].pc = "walk", Move(c, All(cpu[c]), Returns(cpu[c]))
  PROVE  /\ Mapped' = Mapped /\ Unmapped' = Unmapped
         /\ \A d \in Cpus : cpu'[d].pc = "free" => d # c /\ cpu'[d] = cpu[d]
         /\ gstate' = gstate => GstateView' = GstateView
         /\ secret' = secret => SecretView' = SecretView
<1>1. cpu'[c] = Returns(cpu[c]) /\ \A d \in Cpus \ {c} : cpu'[d] = cpu[d]
  BY MoveWrites DEF LInv
<1>2. cpu[c] \in CpuState /\ cpu[c].cmd \in Commands
  BY DEF LInv, PlacesOK, Placed
<1>3. cpu'[c].pc \in {"idle", "unlock_rd"}
  BY <1>1, <1>2, ReturnPlace
<1>4. Mapped' = Mapped /\ Unmapped' = Unmapped
  BY <1>1, <1>3, MappedKept DEF Quiet
<1>5. QED
  BY <1>1, <1>3, <1>4 DEF GstateView, SecretView

\* A command that keeps data granules what they are and drops the tables D.
LEMMA ReturnStep ==
  ASSUME LInv, NEW c \in Cpus, cpu[c].pc = "walk", Move(c, All(cpu[c]), Returns(cpu[c])),
         NEW D, TablesKept(D),
         \A d \in Cpus \ {c} : cpu[d].pc = "walk" => cpu[d].w.g \notin D,
         \A d \in Cpus \ {c} : OtherKept(d),
         rdState' = rdState, setRipas' \in [Rds -> Requests],
         gstate' \in [Granules -> GranuleStates],
         \A x \in Granules : gstate[x] = "DATA" => gstate'[x] = "DATA",
         View!Inv'
  PROVE  LInv'
<1>1. cpu[c] \in CpuState /\ cpu[c].cmd \in Commands
  BY DEF LInv, PlacesOK, Placed
<1>2. Meaning'
  BY DEF Meaning
<1>3. Freeing'
  <2>1. /\ Mapped' = Mapped
        /\ \A d \in Cpus : cpu'[d].pc = "free" => d # c /\ cpu'[d] = cpu[d]
    BY ReturnViews
  <2>2. ASSUME NEW d \in Cpus, cpu'[d].pc = "free"
        PROVE  gstate'[cpu'[d].cmd.pa] = "DATA" \/ cpu'[d].cmd.pa \in Mapped'
    <3>1. cpu'[d] = cpu[d] /\ cpu[d].cmd.pa \in Granules
      BY <2>1, <2>2 DEF LInv, PlacesOK, Placed
    <3>2. gstate[cpu[d].cmd.pa] = "DATA" \/ cpu[d].cmd.pa \in Mapped
      BY <2>2, <3>1 DEF LInv, Freeing
    <3>3. QED
      BY <2>1, <3>1, <3>2
  <2>3. QED
    BY <2>1, <2>2 DEF LInv, Freeing
<1>4. /\ All(cpu[c]) \cap SoundLocks \subseteq All(cpu[c])
      /\ Held(Returns(cpu[c])) \cap SoundLocks = (All(cpu[c]) \ All(cpu[c])) \cap SoundLocks
  BY <1>1, ReturnPlace
<1> DEFINE next == Returns(cpu[c])
<1>5. /\ next.pc \in {"idle", "mapped", "free", "unlock_rd"} /\ next \in CpuState /\ Placed(next)
      /\ Given(next) => gstate'[next.cmd.pa] = "DELEGATED"
  BY <1>1, ReturnPlace
<1>6. QED
  BY <1>2, <1>3, <1>4, <1>5, WantedAtEnd, ActStep

\* A command that writes entries and nothing else.
LEMMA EditStep ==
  ASSUME LInv, NEW c \in Cpus, cpu[c].pc = "walk", Move(c, All(cpu[c]), Returns(cpu[c])),
         UNCHANGED <<gstate, rdState, setRipas>>, TablesKept({}), View!Inv'
  PROVE  LInv'
<1>1. \A d \in Cpus \ {c} : OtherKept(d)
  BY DEF OtherKept, LInv, Reserved
<1>2. QED
  BY <1>1, ReturnStep DEF LInv, Meaning

\* Writing an entry that is not a table keeps the walks of the others.
LEMMA EntryEditKeepsTables ==
  ASSUME View!Inv, NEW t \in Granules, NEW i, NEW new,
         s2tt' = [s2tt EXCEPT ![t] = [@ EXCEPT ![i] = new]], ~IsTable(s2tt[t][i])
  PROVE  TablesKept({})
<1>1. s2tt \in [Granules -> [View!Idx -> View!Entry]]
  BY DEF View!Inv, View!MemoryTypeOK
<1>2. \A h : h # t => s2tt'[h] = s2tt[h]
  BY <1>1
<1>3. \A k \in View!Idx : k # i => s2tt'[t][k] = s2tt[t][k]
  BY <1>1
<1>4. QED
  BY <1>2, <1>3, SameEntries, NothingDropped

\* RMI_RTT_MAP_UNPROTECTED.
LEMMA MapUnprotectedStep ==
  ASSUME LInv, NEW c \in Cpus, cpu[c].pc = "walk", ~GoesDown(cpu[c]),
         cpu[c].cmd.op = "map_unprotected",
         LET cmd == cpu[c].cmd IN
           RttMapUnprotectedAt(cpu[c].w, cmd.rd, cmd.addr, cmd.level, cmd.pa),
         Move(c, All(cpu[c]), Returns(cpu[c]))
  PROVE  LInv' /\ View!Next
<1> DEFINE s == cpu[c]
           cmd == s.cmd
           i == Index(cmd.addr, cmd.level)
<1>1. /\ cmd \in Commands /\ s.w.g \in Granules
      /\ cmd.rd \in Rds /\ cmd.addr \in Ipas /\ cmd.addr \in Nat /\ cmd.level \in Levels
      /\ cmd.pa \in Nat
  BY WalkIsOnTable, Arguments
<1>2. /\ s2tt[s.w.g][i].hipas = "unassigned_ns"
      /\ s2tt' = [s2tt EXCEPT ![s.w.g] = [@ EXCEPT ![i] = AssignedNs(cmd.pa)]]
      /\ UNCHANGED <<gstate, refcount, secret, rdState, measured, setRipas, tlb, lvl>>
  BY DEF RttMapUnprotectedAt
<1>3. GstateView' = GstateView /\ SecretView' = SecretView
  BY <1>2, ReturnViews
<1>4. View!RttMapUnprotectedAt(s.w, cmd.rd, cmd.addr, cmd.level, cmd.pa)
  BY <1>3, SeenRttMapUnprotectedAt
<1>5. s.w = View!Walk(cmd.rd, cmd.addr, cmd.level)
  BY WalkDone DEF WalkLevel
<1>6. /\ ValidMapCmd(cmd.addr, cmd.level) /\ cmd.addr \notin Par
      /\ cmd.pa \in HostPas /\ Aligned(cmd.pa, cmd.level)
  BY <1>1, LockingAssumption DEF ValidArguments
<1>7. View!RttMapUnprotected(cmd.rd, cmd.addr, cmd.level, cmd.pa)
  BY <1>4, <1>5, <1>6, SameNumbers, SameChecks DEF View!RttMapUnprotected
<1>8. View!Next
  BY <1>1, <1>6, <1>7, SameNumbers DEF View!Next, View!RttCommand
<1>9. View!Inv'
  <2>1. cmd.level \in Int
    BY <1>1 DEF Levels
  <2> HIDE DEF cmd
  <2>2. QED
    BY <1>1, <1>7, <2>1, View!MapUnprotectedKeepsInv DEF LInv, Meaning
<1>10. TablesKept({})
  <2>1. ~IsTable(s2tt[s.w.g][i])
    BY <1>2 DEF IsTable
  <2>2. QED
    BY <1>1, <1>2, <2>1, EntryEditKeepsTables DEF LInv, Meaning
<1>11. QED
  BY <1>2, <1>8, <1>9, <1>10, EditStep

\* RMI_RTT_UNMAP_UNPROTECTED.
LEMMA UnmapUnprotectedStep ==
  ASSUME LInv, NEW c \in Cpus, cpu[c].pc = "walk", ~GoesDown(cpu[c]),
         cpu[c].cmd.op = "unmap_unprotected",
         LET cmd == cpu[c].cmd IN
           RttUnmapUnprotectedAt(cpu[c].w, cmd.rd, cmd.addr, cmd.level),
         Move(c, All(cpu[c]), Returns(cpu[c]))
  PROVE  LInv' /\ View!Next
<1> DEFINE s == cpu[c]
           cmd == s.cmd
           i == Index(cmd.addr, cmd.level)
<1>1. /\ cmd \in Commands /\ s.w.g \in Granules
      /\ cmd.rd \in Rds /\ cmd.addr \in Ipas /\ cmd.addr \in Nat /\ cmd.level \in Levels
      /\ cmd.pa \in Nat
  BY WalkIsOnTable, Arguments
<1>2. /\ s2tt[s.w.g][i].hipas = "assigned_ns"
      /\ s2tt' = [s2tt EXCEPT ![s.w.g] = [@ EXCEPT ![i] = UnassignedNs]]
      /\ UNCHANGED <<gstate, refcount, secret, rdState, measured, setRipas, lvl>>
  BY DEF RttUnmapUnprotectedAt
<1>3. GstateView' = GstateView /\ SecretView' = SecretView
  BY <1>2, ReturnViews
<1>4. View!RttUnmapUnprotectedAt(s.w, cmd.rd, cmd.addr, cmd.level)
  BY <1>3, SeenRttUnmapUnprotectedAt
<1>5. s.w = View!Walk(cmd.rd, cmd.addr, cmd.level)
  BY WalkDone DEF WalkLevel
<1>6. ValidMapCmd(cmd.addr, cmd.level) /\ cmd.addr \notin Par
  BY <1>1, LockingAssumption DEF ValidArguments
<1>7. View!RttUnmapUnprotected(cmd.rd, cmd.addr, cmd.level)
  BY <1>4, <1>5, <1>6, SameNumbers, SameChecks DEF View!RttUnmapUnprotected
<1>8. View!Next
  BY <1>1, <1>7, SameNumbers DEF View!Next, View!RttCommand
<1>9. View!Inv'
  <2>1. cmd.level \in Int
    BY <1>1 DEF Levels
  <2> HIDE DEF cmd
  <2>2. QED
    BY <1>1, <1>7, <2>1, View!MapUnprotectedKeepsInv DEF LInv, Meaning
<1>10. TablesKept({})
  <2>1. ~IsTable(s2tt[s.w.g][i])
    BY <1>2 DEF IsTable
  <2>2. QED
    BY <1>1, <1>2, <2>1, EntryEditKeepsTables DEF LInv, Meaning
<1>11. QED
  BY <1>2, <1>8, <1>9, <1>10, EditStep

\* RMI_IPA_BLOCK and RMI_IPA_UNBLOCK.
LEMMA SetBlockedStep ==
  ASSUME LInv, NEW c \in Cpus, cpu[c].pc = "walk", ~GoesDown(cpu[c]),
         cpu[c].cmd.op \in {"ipa_block", "ipa_unblock"}, NEW blocked \in BOOLEAN,
         LET cmd == cpu[c].cmd IN SetBlockedAt(cpu[c].w, cmd.rd, cmd.addr, blocked),
         Move(c, All(cpu[c]), Returns(cpu[c]))
  PROVE  LInv' /\ View!Next
<1> DEFINE s == cpu[c]
           cmd == s.cmd
           i == Index(cmd.addr, RTT_PAGE_LEVEL)
           e == s2tt[s.w.g][i]
<1>1. /\ cmd \in Commands /\ s.w.g \in Granules
      /\ cmd.rd \in Rds /\ cmd.addr \in Ipas /\ cmd.addr \in Nat
  BY WalkIsOnTable, Arguments
<1>2. /\ IsAssignedRam(e)
      /\ s2tt' = [s2tt EXCEPT ![s.w.g] = [@ EXCEPT ![i] = [e EXCEPT !.blocked = blocked]]]
      /\ UNCHANGED <<gstate, refcount, secret, rdState, measured, setRipas, lvl>>
  BY DEF SetBlockedAt
<1>3. GstateView' = GstateView /\ SecretView' = SecretView
  BY <1>2, ReturnViews
<1>4. View!SetBlockedAt(s.w, cmd.rd, cmd.addr, blocked)
  BY <1>3, SeenSetBlockedAt
<1>5. s.w = View!Walk(cmd.rd, cmd.addr, View!RTT_PAGE_LEVEL)
  BY WalkDone, SameNumbers DEF WalkLevel
<1>6. View!SetBlocked(cmd.rd, cmd.addr, blocked)
  BY <1>4, <1>5 DEF View!SetBlocked
<1>7. View!IpaBlock(cmd.rd, cmd.addr) \/ View!IpaUnblock(cmd.rd, cmd.addr)
  BY <1>6 DEF View!IpaBlock, View!IpaUnblock
<1>8. View!Next
  BY <1>1, <1>7, SameNumbers DEF View!Next, View!DataCommand
<1>9. View!Inv'
  <2> HIDE DEF cmd
  <2>2. QED
    BY <1>1, <1>6, View!SetBlockedKeepsInv DEF LInv, Meaning
<1>10. TablesKept({})
  <2>1. ~IsTable(e)
    BY <1>2 DEF IsTable, IsAssignedRam, HoldsData
  <2>2. QED
    BY <1>1, <1>2, <2>1, EntryEditKeepsTables DEF LInv, Meaning
<1>11. QED
  BY <1>2, <1>8, <1>9, <1>10, EditStep

\* Without RMI_IPA_BLOCK and RMI_IPA_UNBLOCK.
NoneUnlocksTwice == \A cmd \in Commands : ~UnlocksTwice(cmd)

\* RMI_RTT_INIT_RIPAS, which keeps the realm descriptor so that the realm stays new.
LEMMA InitRipasStep ==
  ASSUME LInv, NEW c \in Cpus, cpu[c].pc = "walk", ~GoesDown(cpu[c]),
         cpu[c].cmd.op = "init_ripas",
         LET cmd == cpu[c].cmd IN RttInitRipasAt(cpu[c].w, cmd.rd, cmd.addr, cmd.top),
         Move(c, All(cpu[c]), Returns(cpu[c]))
  PROVE  LInv' /\ (NoneUnlocksTwice => View!Next)
<1> DEFINE s == cpu[c]
           cmd == s.cmd
           Initial(e) == e.hipas = "unassigned" /\ e.ripas \in {"empty", "ram"}
           ks == Run(s.w, cmd.addr, cmd.top, Initial)
<1>1. /\ cmd \in Commands /\ s.w.g \in Granules /\ s.w.level \in Levels
      /\ cmd.rd \in Rds /\ cmd.addr \in Ipas /\ cmd.addr \in Nat /\ cmd.top \in Nat
  BY WalkIsOnTable, Arguments
<1>2. /\ s2tt' = [s2tt EXCEPT ![s.w.g] =
                    [k \in Idx |-> IF k \in ks THEN Unassigned("ram") ELSE @[k]]]
      /\ UNCHANGED <<gstate, refcount, secret, rdState, setRipas, tlb, lvl>>
  BY DEF RttInitRipasAt
<1>3. GstateView' = GstateView /\ SecretView' = SecretView
  BY <1>2, ReturnViews
<1>4. View!RttInitRipasAt(s.w, cmd.rd, cmd.addr, cmd.top)
  BY <1>3, SeenRttInitRipasAt
<1>5. s.w = View!Walk(cmd.rd, cmd.addr, View!RTT_PAGE_LEVEL)
  BY WalkDone, SameNumbers DEF WalkLevel
<1>6. cmd.addr < cmd.top /\ cmd.addr \in Par /\ cmd.top - 1 \in Par
  BY <1>1, LockingAssumption DEF ValidArguments
<1>7. NoneUnlocksTwice => View!Next
  <2> SUFFICES ASSUME NoneUnlocksTwice PROVE View!Next
    OBVIOUS
  <2>1. RdAddr[cmd.rd] \in SoundLocks
    BY <1>1, Addresses DEF NoneUnlocksTwice, SoundLocks
  <2>2. rdState[cmd.rd] = "NEW"
    BY <2>1 DEF LInv, StillPermitted, Allowed
  <2>3. View!RttInitRipas(cmd.rd, cmd.addr, cmd.top)
    BY <1>4, <1>5, <1>6, <2>2, SameNumbers DEF View!RttInitRipas
  <2>4. cmd.top - 1 \in View!Ipas /\ (cmd.top - 1) + 1 = cmd.top
    BY <1>1, <1>6, SameNumbers DEF Par
  <2>5. View!RipasCommand(cmd.rd)
    BY <1>1, <2>3, <2>4, SameNumbers DEF View!RipasCommand
  <2>6. QED
    BY <1>1, <2>5 DEF View!Next
<1>8. View!Inv'
  <2> HIDE DEF cmd
  <2>1. View!RttInitRipasAt(View!Walk(cmd.rd, cmd.addr, View!RTT_PAGE_LEVEL), cmd.rd, cmd.addr, cmd.top)
    BY <1>4, <1>5
  <2>2. QED
    BY <1>1, <2>1, View!InitRipasKeepsInv DEF LInv, Meaning
<1>9. TablesKept({})
  <2>1. s2tt \in [Granules -> [Idx -> View!Entry]]
    BY SameNumbers DEF LInv, Meaning, View!Inv, View!MemoryTypeOK
  <2>2. \A h : h # s.w.g => s2tt'[h] = s2tt[h]
    BY <1>2, <2>1
  <2>3. \A k \in ks : Initial(s2tt[s.w.g][k])
    <3>1. SUFFICES ASSUME NEW k \in ks  PROVE Initial(s2tt[s.w.g][k])
      OBVIOUS
    <3>2. Index(cmd.addr, s.w.level) \in Idx
      BY WalkIsOnTable
    <3>3. k \in Idx /\ k >= Index(cmd.addr, s.w.level)
      BY Zenon DEF Run
    <3>4. k \in Index(cmd.addr, s.w.level) .. k
      BY <3>2, <3>3 DEF Idx
    <3>5. QED
      BY <3>4, Zenon DEF Run
  <2>4. \A k \in ks : ~IsTable(s2tt[s.w.g][k])
    BY <2>3 DEF IsTable
  <2> HIDE DEF ks
  <2>5. \A k \in Idx \ ks : s2tt'[s.w.g][k] = s2tt[s.w.g][k]
    BY <1>1, <1>2, <2>1
  <2>6. QED
    BY <2>2, <2>4, <2>5, SameEntries, SameNumbers, NothingDropped
<1>10. QED
  BY <1>2, <1>7, <1>8, <1>9, EditStep

\* RMI_RTT_SET_RIPAS, which keeps the REC so that the request stays what it was.
LEMMA SetRipasStep ==
  ASSUME LInv, NEW c \in Cpus, cpu[c].pc = "walk", ~GoesDown(cpu[c]),
         cpu[c].cmd.op = "set_ripas", RttSetRipasAt(cpu[c].w, cpu[c].cmd.rd, cpu[c].cmd.top),
         Move(c, All(cpu[c]), Returns(cpu[c]))
  PROVE  LInv' /\ View!Next
<1> DEFINE s == cpu[c]
           cmd == s.cmd
           req == setRipas[cmd.rd]
           CanUpdate(e) == CanUpdateRipas(e, req.change)
           ks == Run(s.w, req.addr, cmd.top, CanUpdate)
<1>1. /\ cmd \in Commands /\ s.w.g \in Granules /\ s.w.level \in Levels
      /\ cmd.rd \in Rds /\ cmd.addr \in Ipas /\ cmd.addr \in Nat /\ cmd.top \in Nat
      /\ Index(cmd.addr, s.w.level) \in Idx
  BY WalkIsOnTable, Arguments
<1>2. req.addr = cmd.addr /\ cmd.top <= req.top
  BY DEF LInv, StillPermitted, Allowed
<1>3. /\ s2tt' = [s2tt EXCEPT ![s.w.g] =
                    [k \in Idx |-> IF k \in ks THEN UpdateRipas(@[k], req.ripas) ELSE @[k]]]
      /\ setRipas' = [setRipas EXCEPT ![cmd.rd].addr =
                        req.addr + Cardinality(ks) * MapSize(s.w.level)]
      /\ UNCHANGED <<gstate, refcount, secret, rdState, measured, lvl>>
  BY DEF RttSetRipasAt
<1>4. GstateView' = GstateView /\ SecretView' = SecretView
  BY <1>3, ReturnViews
<1>5. View!RttSetRipasAt(s.w, cmd.rd, cmd.top)
  BY <1>4, SeenRttSetRipasAt
<1>6. s.w = View!Walk(cmd.rd, cmd.addr, View!RTT_PAGE_LEVEL)
  BY WalkDone, SameNumbers DEF WalkLevel
<1>7. cmd.addr < cmd.top /\ cmd.top - 1 \in Ipas
  BY <1>1, LockingAssumption DEF ValidArguments
<1>8. View!RttSetRipas(cmd.rd, cmd.top)
  BY <1>2, <1>5, <1>6, <1>7 DEF View!RttSetRipas
<1>9. View!Next
  <2>1. cmd.top - 1 \in View!Ipas /\ (cmd.top - 1) + 1 = cmd.top
    BY <1>1, <1>7, SameNumbers
  <2>2. View!RipasCommand(cmd.rd)
    BY <1>8, <2>1 DEF View!RipasCommand
  <2>3. QED
    BY <1>1, <2>2 DEF View!Next
<1>10. View!Requests = Requests
  BY DEF View!Requests, Requests
<1>11. View!Inv' /\ setRipas' \in [Rds -> Requests]
  <2> HIDE DEF cmd
  <2>1. View!Inv /\ setRipas \in [Rds -> View!Requests]
    BY <1>10 DEF LInv, Meaning
  <2>2. View!Inv'
    BY <1>1, <1>8, <2>1, View!SetRipasKeepsInv
  <2>3. setRipas' \in [Rds -> View!Requests]
    BY <1>1, <1>8, <2>1, View!SetRipasTypes
  <2>4. QED
    BY <1>10, <2>2, <2>3
<1>12. TablesKept({})
  <2>1. s2tt \in [Granules -> [Idx -> View!Entry]]
    BY SameNumbers DEF LInv, Meaning, View!Inv, View!MemoryTypeOK
  <2>2. \A h : h # s.w.g => s2tt'[h] = s2tt[h]
    BY <1>3, <2>1, SMTT(30)
  <2>3. \A k \in ks : CanUpdate(s2tt[s.w.g][k])
    BY <1>1, <1>2 DEF Run, Idx
  <2>4. \A k \in ks : ~IsTable(s2tt[s.w.g][k])
    BY <2>3 DEF IsTable, CanUpdateRipas, HasRipas
  <2> HIDE DEF ks
  <2>5. \A k \in Idx \ ks : s2tt'[s.w.g][k] = s2tt[s.w.g][k]
    BY <1>1, <1>3, <2>1
  <2>6. QED
    BY <2>2, <2>4, <2>5, SameEntries, SameNumbers, NothingDropped
<1>13. ASSUME NEW d \in Cpus \ {c}
       PROVE  OtherKept(d)
  <2>1. ASSUME cpu[d].pc \in {"root", "walk"}, cpu[d].cmd.op = "set_ripas",
               cpu[d].cmd.rd = cmd.rd
        PROVE  FALSE
    <3>1. cpu[d].cmd \in Commands
      BY <2>1 DEF LInv, PlacesOK, Placed
    <3>2. RecAddr[cmd.rd] \in Named(cpu[d].cmd) /\ RecAddr[cmd.rd] \in Named(cmd)
      BY <2>1, <3>1, <1>1, NamedAddresses
    <3>3. KeptNamed(cpu[d].cmd) = Named(cpu[d].cmd) /\ KeptNamed(cmd) = Named(cmd)
      BY <2>1 DEF KeptNamed, KeepsRd
    <3>4. RecAddr[cmd.rd] \in Held(cpu[d]) /\ RecAddr[cmd.rd] \in Held(s)
      BY <2>1, <3>2, <3>3 DEF Held
    <3>5. RecAddr[cmd.rd] \in SoundLocks
      BY <1>1, Addresses
    <3>6. QED
      BY <3>4, <3>5 DEF LInv, LocksOK
  <2>2. \A rd \in Rds \ {cmd.rd} : setRipas'[rd] = setRipas[rd]
    BY <1>3 DEF LInv, Meaning
  <2>3. cpu[d].pc \in {"root", "walk"} => cpu[d].cmd.rd \in Rds
    BY Arguments DEF LInv, PlacesOK, Placed
  <2>4. cpu[d].pc \in {"root", "walk"} /\ cpu[d].cmd.op = "set_ripas"
          => setRipas'[cpu[d].cmd.rd] = setRipas[cpu[d].cmd.rd]
    BY <2>1, <2>2, <2>3
  <2>5. Given(cpu[d]) => gstate'[cpu[d].cmd.pa] = "DELEGATED"
    BY <1>3 DEF LInv, Reserved
  <2>6. QED
    BY <2>4, <2>5 DEF OtherKept
<1>14. gstate' = gstate /\ rdState' = rdState
  BY <1>3
<1>15. QED
  BY <1>9, <1>11, <1>12, <1>13, <1>14, ReturnStep DEF LInv, Meaning

\* RMI_RTT_CREATE: the granule it was given becomes a table.
LEMMA RttCreateStep ==
  ASSUME LInv, NEW c \in Cpus, cpu[c].pc = "walk", ~GoesDown(cpu[c]),
         cpu[c].cmd.op = "rtt_create",
         LET cmd == cpu[c].cmd IN
           RttCreateAt(cpu[c].w, cmd.rd, cmd.pa, cmd.addr, cmd.level),
         Move(c, All(cpu[c]), Returns(cpu[c]))
  PROVE  LInv' /\ View!Next
<1> DEFINE s == cpu[c]
           cmd == s.cmd
           g == cmd.pa
           i == Index(cmd.addr, cmd.level - 1)
           e == s2tt[s.w.g][i]
<1>1. /\ cmd \in Commands /\ s.w.g \in Granules
      /\ cmd.rd \in Rds /\ cmd.addr \in Ipas /\ cmd.addr \in Nat /\ cmd.level \in Levels
  BY WalkIsOnTable, Arguments
<1>2. Given(s)
  BY DEF Given, TakesGranule
<1>3. /\ g \in Granules /\ gstate[g] = "DELEGATED" /\ GstateView[g] = "DELEGATED"
      /\ g \notin Mapped /\ g \notin Unmapped
  BY <1>2, GivenIsOurs
<1>4. /\ ~IsTable(e) /\ gstate' = [gstate EXCEPT ![g] = "RTT"]
      /\ s2tt' = [s2tt EXCEPT ![g] = UnfoldEntry(e, cmd.level),
                              ![s.w.g] = [@ EXCEPT ![i] = TableEntry(g)]]
      /\ UNCHANGED <<secret, rdState, measured, setRipas>>
  BY DEF RttCreateAt
<1>5. Mapped' = Mapped /\ Unmapped' = Unmapped /\ SecretView' = SecretView
  BY <1>4, ReturnViews
<1>6. gstate'[g] = "RTT" /\ \A x \in Granules \ {g} : gstate'[x] = gstate[x]
  BY <1>3, <1>4 DEF LInv, Meaning
<1>7. GstateView' = [GstateView EXCEPT ![g] = "RTT"]
  BY <1>3, <1>5, <1>6 DEF GstateView
<1>8. View!RttCreateAt(s.w, cmd.rd, g, cmd.addr, cmd.level)
  BY <1>5, <1>7, SeenRttCreateAt
<1>9. s.w = View!Walk(cmd.rd, cmd.addr, cmd.level - 1)
  BY WalkDone DEF WalkLevel
<1>10. ValidStructureCmd(cmd.addr, cmd.level)
  BY <1>1, LockingAssumption DEF ValidArguments
<1>11. View!RttCreate(cmd.rd, g, cmd.addr, cmd.level)
  BY <1>3, <1>8, <1>9, <1>10, SameChecks DEF View!RttCreate
<1>12. View!Next
  BY <1>1, <1>3, <1>11, SameNumbers DEF View!Next, View!RttCommand
<1>13. View!Inv'
  <2>1. cmd.level \in Int
    BY <1>1 DEF Levels
  <2> HIDE DEF cmd
  <2>2. QED
    BY <1>1, <1>3, <1>11, <2>1, View!RttCreateKeepsInv DEF LInv, Meaning
<1>14. TablesKept({})
  <2>1. s2tt \in [Granules -> [View!Idx -> View!Entry]]
    BY DEF LInv, Meaning, View!Inv, View!MemoryTypeOK
  <2>2. g \notin View!Rtts
    BY <1>3, ViewStates
  <2>3. \A h \in Granules : h # g /\ h # s.w.g => s2tt'[h] = s2tt[h]
    BY <1>4, <2>1
  <2>4. s.w.g # g
    BY <2>2, WalkIsOnTable
  <2>5. \A k \in View!Idx : k # i => s2tt'[s.w.g][k] = s2tt[s.w.g][k]
    BY <1>1, <1>4, <2>1, <2>4
  <2>6. \A h \in View!Rtts : h \in Granules
    BY DEF View!Rtts
  <2>7. QED
    BY <1>4, <2>2, <2>3, <2>4, <2>5, <2>6, SameEntries, NothingDropped
<1>15. ASSUME NEW d \in Cpus \ {c}
       PROVE  OtherKept(d)
  <2>1. Given(cpu[d]) => cpu[d].cmd.pa \in Granules /\ cpu[d].cmd.pa # g
    BY <1>2, GivenApart, GivenIsHeld DEF LInv
  <2>2. QED
    BY <1>4, <1>6, <2>1 DEF OtherKept, LInv, Reserved
<1>16. /\ gstate' \in [Granules -> GranuleStates]
       /\ \A x \in Granules : gstate[x] = "DATA" => gstate'[x] = "DATA"
  BY <1>3, <1>4, <1>6 DEF LInv, Meaning, GranuleStates
<1>17. rdState' = rdState /\ setRipas' \in [Rds -> Requests]
  BY <1>4 DEF LInv, Meaning
<1>18. QED
  BY <1>12, <1>13, <1>14, <1>15, <1>16, <1>17, ReturnStep

\* A table without references has no tables below it.
LEMMA EmptyTable ==
  ASSUME View!Inv, NEW g \in View!Rtts, refcount[g] = 0
  PROVE  \A k \in View!Idx : ~View!IsTable(s2tt[g][k])
<1>1. g \in Granules /\ GstateView[g] = "RTT"
  BY DEF View!Rtts
<1>2. View!IsFiniteSet(View!LiveIn(g)) /\ View!Cardinality(View!LiveIn(g)) = 0
  BY <1>1, View!LiveInFinite DEF View!Inv, View!RefcountCountsLive
<1>3. View!LiveIn(g) = {}
  BY <1>2, View!FS_EmptySet
<1>4. QED
  BY <1>3 DEF View!LiveIn, View!IsLive

\* RTT_FOLD and RTT_DESTROY return the table they have locked last.
Drops(s, ch, new) ==
    /\ s2tt' = [s2tt EXCEPT ![s.w.g] = [@ EXCEPT ![Index(s.cmd.addr, s.w.level)] = new],
                            ![ch] = ZeroTable]
    /\ gstate' = [gstate EXCEPT ![ch] = "DELEGATED"]
    /\ UNCHANGED <<secret, rdState, setRipas>>
    /\ s.w.level = WalkLevel(s.cmd) /\ IsTable(Entered(s)) /\ ch = Entered(s).pa

\* Nobody else is on the table that goes.
LEMMA ChildIsOurs ==
  ASSUME LInv, NEW c \in Cpus, cpu[c].pc = "walk", LocksChild(cpu[c].cmd),
         NEW ch, NEW new, Drops(cpu[c], ch, new), NEW next, NEW drop, Move(c, drop, next)
  PROVE  /\ ch \in Granules /\ ch \in View!Rtts /\ gstate[ch] = "RTT" /\ ch # cpu[c].w.g
         /\ ch \notin View!Roots /\ ch \notin Mapped /\ ch \notin Unmapped
         /\ \A d \in Cpus : cpu[d].pc = "walk" => cpu[d].w.g # ch
<1> DEFINE s == cpu[c]
<1>1. /\ IsTable(Entered(s)) /\ ch = Entered(s).pa /\ s.w.level = WalkLevel(s.cmd)
  BY DEF Drops
<1>2. /\ ch \in Granules /\ ch \in View!Rtts /\ gstate[ch] = "RTT" /\ ch # s.w.g
      /\ ch \notin View!Roots
  BY <1>1, WalkIsOnTable
<1>3. ~GoesDown(s) /\ ch \in Wanted(s)
  <2>1. ~GoesDown(s)
    <3>1. s.w.level \in Levels
      BY WalkIsOnTable
    <3>2. s.w.level \in Int
      BY <3>1 DEF Levels
    <3>3. QED
      BY <1>1, <3>2 DEF GoesDown
  <2>2. QED
    BY <1>1, <2>1 DEF Wanted
<1>4. ch \notin locked
  BY <1>3, MoveWrites DEF LInv
<1>5. ASSUME NEW d \in Cpus, cpu[d].pc = "walk"
      PROVE  cpu[d].w.g # ch
  <2>1. cpu[d].w.g \in Held(cpu[d])
    BY <1>5 DEF Held
  <2>2. QED
    BY <1>2, <1>4, <2>1, Addresses, FreeLock DEF LInv
<1>6. QED
  BY <1>2, <1>5, ViewStates

\* What the others see of a table that goes.
LEMMA DropViews ==
  ASSUME LInv, NEW c \in Cpus, cpu[c].pc = "walk", LocksChild(cpu[c].cmd),
         NEW ch, NEW new, Drops(cpu[c], ch, new),
         Move(c, All(cpu[c]), Returns(cpu[c]))
  PROVE  GstateView' = [GstateView EXCEPT ![ch] = "DELEGATED"] /\ SecretView' = SecretView
<1>1. ch \in Granules /\ ch \notin Mapped /\ ch \notin Unmapped
  BY ChildIsOurs
<1>2. gstate' = [gstate EXCEPT ![ch] = "DELEGATED"] /\ secret' = secret
  BY DEF Drops
<1>3. Mapped' = Mapped /\ Unmapped' = Unmapped /\ SecretView' = SecretView
  BY <1>2, ReturnViews
<1>4. gstate'[ch] = "DELEGATED" /\ \A x \in Granules \ {ch} : gstate'[x] = gstate[x]
  BY <1>1, <1>2 DEF LInv, Meaning
<1>5. QED
  BY <1>1, <1>3, <1>4 DEF GstateView

\* RTT_FOLD and RTT_DESTROY keep the invariant if they keep what it says of the tables.
LEMMA DropStep ==
  ASSUME LInv, NEW c \in Cpus, cpu[c].pc = "walk", LocksChild(cpu[c].cmd),
         NEW ch, NEW new, Drops(cpu[c], ch, new),
         \A k \in View!Idx : ~View!IsTable(s2tt[ch][k]), View!Inv',
         Move(c, All(cpu[c]), Returns(cpu[c]))
  PROVE  LInv'
<1> DEFINE s == cpu[c]
           i == Index(s.cmd.addr, s.w.level)
<1>1. /\ ch \in Granules /\ ch \in View!Rtts /\ gstate[ch] = "RTT" /\ ch # s.w.g
      /\ ch \notin View!Roots /\ \A d \in Cpus : cpu[d].pc = "walk" => cpu[d].w.g # ch
  BY ChildIsOurs
<1>2. /\ s2tt' = [s2tt EXCEPT ![s.w.g] = [@ EXCEPT ![i] = new], ![ch] = ZeroTable]
      /\ gstate' = [gstate EXCEPT ![ch] = "DELEGATED"] /\ UNCHANGED <<rdState, setRipas>>
      /\ ch = Entered(s).pa
  BY DEF Drops
<1>3. gstate'[ch] = "DELEGATED" /\ \A x \in Granules \ {ch} : gstate'[x] = gstate[x]
  BY <1>1, <1>2 DEF LInv, Meaning
<1>4. TablesKept({ch})
  <2>1. s2tt \in [Granules -> [View!Idx -> View!Entry]] /\ s.w.g \in Granules
    BY WalkIsOnTable DEF LInv, Meaning, View!Inv, View!MemoryTypeOK
  <2>2. \A h \in Granules : h # ch /\ h # s.w.g => s2tt'[h] = s2tt[h]
    BY <1>2, <2>1
  <2>3. \A k \in View!Idx : k # i => s2tt'[s.w.g][k] = s2tt[s.w.g][k]
    BY <1>1, <1>2, <2>1
  <2>4. s2tt[s.w.g][i].pa = ch
    BY <1>2, WalkIsOnTable
  <2>5. \A h \in View!Rtts : h \in Granules
    BY DEF View!Rtts
  <2>6. QED
    BY <1>1, <2>2, <2>3, <2>4, <2>5 DEF TablesKept
<1>5. ASSUME NEW d \in Cpus \ {c}
      PROVE  OtherKept(d)
  <2>1. Given(cpu[d]) => cpu[d].cmd.pa \in Granules
    BY GivenIsHeld DEF LInv
  <2>2. QED
    BY <1>2, <1>3, <2>1 DEF OtherKept, LInv, Reserved
<1>6. /\ gstate' \in [Granules -> GranuleStates]
      /\ \A x \in Granules : gstate[x] = "DATA" => gstate'[x] = "DATA"
  BY <1>1, <1>2, <1>3 DEF LInv, Meaning, GranuleStates
<1>7. rdState' = rdState /\ setRipas' \in [Rds -> Requests]
  BY <1>2 DEF LInv, Meaning
<1>8. \A d \in Cpus \ {c} : cpu[d].pc = "walk" => cpu[d].w.g \notin {ch}
  BY <1>1
<1>9. QED
  BY <1>4, <1>5, <1>6, <1>7, <1>8, ReturnStep

\* RMI_RTT_FOLD.
LEMMA RttFoldStep ==
  ASSUME LInv, NEW c \in Cpus, cpu[c].pc = "walk", ~GoesDown(cpu[c]),
         cpu[c].cmd.op = "rtt_fold",
         LET cmd == cpu[c].cmd IN RttFoldAt(cpu[c].w, cmd.rd, cmd.addr, cmd.level),
         Move(c, All(cpu[c]), Returns(cpu[c]))
  PROVE  LInv' /\ View!Next
<1> DEFINE s == cpu[c]
           cmd == s.cmd
           i == Index(cmd.addr, cmd.level - 1)
           ch == s2tt[s.w.g][i].pa
           new == FoldedEntry(s2tt[ch])
<1>1. /\ cmd \in Commands /\ s.w.g \in Granules /\ LocksChild(cmd)
      /\ cmd.rd \in Rds /\ cmd.addr \in Ipas /\ cmd.addr \in Nat /\ cmd.level \in Levels
      /\ Entered(s) = s2tt[s.w.g][Index(cmd.addr, s.w.level)]
  BY WalkIsOnTable, Arguments DEF LocksChild
<1>2. /\ s.w.level = cmd.level - 1 /\ IsTable(s2tt[s.w.g][i])
      /\ Foldable(s2tt[ch], refcount[ch], cmd.level)
      /\ s2tt' = [s2tt EXCEPT ![s.w.g] = [@ EXCEPT ![i] = new], ![ch] = ZeroTable]
      /\ gstate' = [gstate EXCEPT ![ch] = "DELEGATED"]
      /\ UNCHANGED <<secret, rdState, measured, setRipas, lvl>>
  BY DEF RttFoldAt
<1>3. Drops(s, ch, new)
  <2>1. WalkLevel(cmd) = cmd.level - 1
    BY DEF WalkLevel
  <2>2. QED
    BY <1>1, <1>2, <2>1 DEF Drops
<1>4. GstateView' = [GstateView EXCEPT ![ch] = "DELEGATED"] /\ SecretView' = SecretView
  <2> HIDE DEF ch, new
  <2>1. QED
    BY <1>1, <1>3, DropViews
<1>5. View!RttFoldAt(s.w, cmd.rd, cmd.addr, cmd.level)
  BY <1>4, SeenRttFoldAt
<1>6. s.w = View!Walk(cmd.rd, cmd.addr, cmd.level - 1)
  BY WalkDone DEF WalkLevel
<1>7. ValidStructureCmd(cmd.addr, cmd.level)
  BY <1>1, LockingAssumption DEF ValidArguments
<1>8. View!RttFold(cmd.rd, cmd.addr, cmd.level)
  BY <1>5, <1>6, <1>7, SameChecks DEF View!RttFold
<1>9. View!Next
  BY <1>1, <1>8, SameNumbers DEF View!Next, View!RttCommand
<1>10. View!Inv'
  <2>1. cmd.level \in Int
    BY <1>1 DEF Levels
  <2> HIDE DEF cmd
  <2>2. QED
    BY <1>1, <1>8, <2>1, View!RttFoldKeepsInv DEF LInv, Meaning
<1>11. \A k \in View!Idx : ~View!IsTable(s2tt[ch][k])
  <2>1. \A k \in Idx : s2tt[ch][k].hipas = s2tt[ch][0].hipas
    BY <1>2 DEF Foldable, Homogeneous
  <2>2. ~IsTable(s2tt[ch][0])
    BY <1>2 DEF Foldable, IsTable, IsUnassigned, HoldsData
  <2>3. QED
    BY <2>1, <2>2, SameNumbers, SameEntries DEF IsTable
<1> HIDE DEF ch, new
<1>12. QED
  BY <1>1, <1>3, <1>9, <1>10, <1>11, DropStep

\* RMI_RTT_DESTROY.
LEMMA RttDestroyStep ==
  ASSUME LInv, NEW c \in Cpus, cpu[c].pc = "walk", ~GoesDown(cpu[c]),
         cpu[c].cmd.op = "rtt_destroy",
         LET cmd == cpu[c].cmd IN RttDestroyAt(cpu[c].w, cmd.rd, cmd.addr, cmd.level),
         Move(c, All(cpu[c]), Returns(cpu[c]))
  PROVE  LInv' /\ View!Next
<1> DEFINE s == cpu[c]
           cmd == s.cmd
           i == Index(cmd.addr, cmd.level - 1)
           ch == s2tt[s.w.g][i].pa
           new == IF cmd.addr \in Par THEN Unassigned("destroyed") ELSE UnassignedNs
<1>1. /\ cmd \in Commands /\ s.w.g \in Granules /\ LocksChild(cmd)
      /\ cmd.rd \in Rds /\ cmd.addr \in Ipas /\ cmd.addr \in Nat /\ cmd.level \in Levels
      /\ Entered(s) = s2tt[s.w.g][Index(cmd.addr, s.w.level)]
  BY WalkIsOnTable, Arguments DEF LocksChild
<1>2. /\ s.w.level = cmd.level - 1 /\ IsTable(s2tt[s.w.g][i])
      /\ refcount[ch] = 0
      /\ s2tt' = [s2tt EXCEPT ![s.w.g] = [@ EXCEPT ![i] = new], ![ch] = ZeroTable]
      /\ gstate' = [gstate EXCEPT ![ch] = "DELEGATED"]
      /\ UNCHANGED <<secret, rdState, measured, setRipas, lvl>>
  BY DEF RttDestroyAt, Destroyable
<1>3. Drops(s, ch, new)
  <2>1. WalkLevel(cmd) = cmd.level - 1
    BY DEF WalkLevel
  <2>2. QED
    BY <1>1, <1>2, <2>1 DEF Drops
<1>4. GstateView' = [GstateView EXCEPT ![ch] = "DELEGATED"] /\ SecretView' = SecretView
  <2> HIDE DEF ch, new
  <2>1. QED
    BY <1>1, <1>3, DropViews
<1>5. View!RttDestroyAt(s.w, cmd.rd, cmd.addr, cmd.level)
  BY <1>4, SeenRttDestroyAt
<1>6. s.w = View!Walk(cmd.rd, cmd.addr, cmd.level - 1)
  BY WalkDone DEF WalkLevel
<1>7. ValidStructureCmd(cmd.addr, cmd.level)
  BY <1>1, LockingAssumption DEF ValidArguments
<1>8. View!RttDestroy(cmd.rd, cmd.addr, cmd.level)
  BY <1>5, <1>6, <1>7, SameChecks DEF View!RttDestroy
<1>9. View!Next
  BY <1>1, <1>8, SameNumbers DEF View!Next, View!RttCommand
<1>10. View!Inv'
  <2>1. cmd.level \in Int
    BY <1>1 DEF Levels
  <2> HIDE DEF cmd
  <2>2. QED
    BY <1>1, <1>8, <2>1, View!RttDestroyKeepsInv DEF LInv, Meaning
<1> HIDE DEF ch, new
<1>11. \A k \in View!Idx : ~View!IsTable(s2tt[ch][k])
  BY <1>1, <1>2, <1>3, ChildIsOurs, EmptyTable DEF LInv, Meaning
<1>12. QED
  BY <1>1, <1>3, <1>9, <1>10, <1>11, DropStep

-----------------------------------------------------------------------------
(* The data commands, up to the moment the entry is written.               *)

\* data_create writes the entry; to the others the granule is data from now on.
LEMMA MapViews ==
  ASSUME LInv, NEW c \in Cpus, cpu[c].pc = "walk", NEW g, g \notin Unmapped, NEW next, NEW drop,
         Move(c, drop, next), next.pc = "mapped", next.cmd.pa = g,
         gstate' = gstate, secret' = secret \cup {g}
  PROVE  /\ \A x : x \in Mapped' <=> x \in Mapped \/ x = g
         /\ \A d \in Cpus : cpu'[d].pc = "free" => cpu'[d] = cpu[d]
         /\ GstateView' = [GstateView EXCEPT ![g] = "DATA"]
         /\ SecretView' = SecretView \cup {g}
<1>1. cpu'[c] = next /\ \A d \in Cpus \ {c} : cpu'[d] = cpu[d]
  BY MoveWrites DEF LInv
<1>2. \A d \in Cpus : cpu'[d].pc = "free" => cpu'[d] = cpu[d]
  BY <1>1
<1>3. \A x : x \in Unmapped' <=> x \in Unmapped
  <2>1. {d \in Cpus : cpu'[d].pc = "free"} = {d \in Cpus : cpu[d].pc = "free"}
    BY <1>1
  <2>2. QED
    BY <1>2, <2>1 DEF Unmapped
<1>4. \A x : x \in Mapped' <=> x \in Mapped \/ x = g
  BY <1>1 DEF Mapped
<1>5. GstateView' = [GstateView EXCEPT ![g] = "DATA"]
  <2>1. \A x \in Granules :
          (IF x \in Unmapped' THEN "DELEGATED" ELSE IF x \in Mapped' THEN "DATA" ELSE gstate'[x])
          = IF x = g THEN "DATA"
            ELSE (IF x \in Unmapped THEN "DELEGATED" ELSE IF x \in Mapped THEN "DATA" ELSE gstate[x])
    BY <1>3, <1>4
  <2>2. QED
    BY <2>1 DEF GstateView
<1>6. SecretView' = SecretView \cup {g}
  BY <1>3 DEF SecretView
<1>7. QED
  BY <1>2, <1>4, <1>5, <1>6

\* RMI_DATA_CREATE and RMI_DATA_CREATE_UNKNOWN, with the granule locked until it is data.
LEMMA MapStep ==
  ASSUME LInv, NEW c \in Cpus, cpu[c].pc = "walk", ~GoesDown(cpu[c]),
         MapEffect(cpu[c].cmd, cpu[c].w),
         Move(c, All(cpu[c]) \ StillLocked(cpu[c].cmd),
                 [Idle EXCEPT !.pc = "mapped", !.cmd = cpu[c].cmd])
  PROVE  LInv' /\ (NoneUnlocksTwice => View!Next)
<1> DEFINE s == cpu[c]
           cmd == s.cmd
           g == cmd.pa
           i == Index(cmd.addr, RTT_PAGE_LEVEL)
           ripas == IF cmd.op = "data_create" THEN "ram" ELSE EntryAt(s.w, cmd.addr).ripas
           drop == All(s) \ StillLocked(cmd)
           next == [Idle EXCEPT !.pc = "mapped", !.cmd = cmd]
<1>1. /\ cmd \in Commands /\ s \in CpuState /\ s.w.g \in Granules
      /\ cmd.rd \in Rds /\ cmd.addr \in Ipas /\ cmd.addr \in Nat
      /\ EntryAt(s.w, cmd.addr) \in View!Entry
  BY WalkIsOnTable, Arguments DEF LInv, PlacesOK, EntryAt
<1>2. cmd.op \in {"data_create", "data_create_unknown"}
  BY DEF MapEffect
<1>3. Given(s)
  BY <1>2 DEF Given, TakesGranule
<1>4. /\ g \in Granules /\ gstate[g] = "DELEGATED" /\ GstateView[g] = "DELEGATED"
      /\ g \notin Mapped /\ g \notin Unmapped /\ g \in Held(s)
  BY <1>3, GivenIsOurs, GivenIsHeld DEF LInv
<1>5. /\ MapData(s.w, g, cmd.addr, ripas)
      /\ gstate' = gstate /\ UNCHANGED <<rdState, setRipas, tlb, lvl>>
      /\ cmd.op = "data_create" => measured' = [measured EXCEPT ![cmd.rd] = @ \cup {cmd.addr}]
      /\ cmd.op # "data_create" => measured' = measured
  BY DEF MapEffect, DataCreateAt, DataCreateUnknownAt
<1>6. /\ IsUnassigned(s2tt[s.w.g][i])
      /\ s2tt' = [s2tt EXCEPT ![s.w.g] = [@ EXCEPT ![i] = Assigned(ripas, g)]]
      /\ secret' = secret \cup {g}
  BY <1>5 DEF MapData
<1>7. /\ next \in CpuState /\ next.pc = "mapped" /\ next.cmd = cmd /\ Placed(next)
      /\ Held(next) = {g} /\ Move(c, drop, next)
  <2>1. Idle \in CpuState /\ cmd \in CommandType
    BY <1>1, IdlePlace, Arguments
  <2>2. next \in CpuState /\ next.pc = "mapped" /\ next.cmd = cmd
    BY <2>1 DEF CpuState
  <2>3. QED
    BY <1>1, <1>2, <2>2 DEF Placed, Held, StillLocked
<1> HIDE DEF next, drop
<1>8. /\ \A x : x \in Mapped' <=> x \in Mapped \/ x = g
      /\ \A d \in Cpus : cpu'[d].pc = "free" => cpu'[d] = cpu[d]
      /\ GstateView' = [GstateView EXCEPT ![g] = "DATA"]
      /\ SecretView' = SecretView \cup {g}
  BY <1>4, <1>5, <1>6, <1>7, MapViews
<1>9. View!MapData(s.w, g, cmd.addr, ripas) /\ View!BecomesData(g) /\ View!DataGranule(g)
  <2> HIDE DEF ripas
  <2>1. View!MapData(s.w, g, cmd.addr, ripas)
    BY <1>5, <1>8, SeenMapData
  <2>2. QED
    BY <1>4, <1>8, <2>1 DEF View!BecomesData, View!DataGranule
<1>10. s.w = View!Walk(cmd.rd, cmd.addr, View!RTT_PAGE_LEVEL)
  BY <1>2, WalkDone, SameNumbers DEF WalkLevel
<1>11. cmd.addr \in View!Par
  BY <1>1, <1>2, LockingAssumption, SameNumbers DEF ValidArguments
<1>12. NoneUnlocksTwice => View!Next
  <2> SUFFICES ASSUME NoneUnlocksTwice PROVE View!Next
    OBVIOUS
  <2>1. CASE cmd.op = "data_create"
    <3>1. RdAddr[cmd.rd] \in SoundLocks
      BY <1>1, Addresses DEF NoneUnlocksTwice, SoundLocks
    <3>2. rdState[cmd.rd] = "NEW"
      BY <2>1, <3>1 DEF LInv, StillPermitted, Allowed
    <3>3. View!DataCreateAt(s.w, cmd.rd, g, cmd.addr)
      BY <1>5, <1>9, <2>1 DEF View!DataCreateAt
    <3>4. View!DataCreate(cmd.rd, g, cmd.addr)
      BY <1>9, <1>10, <1>11, <3>2, <3>3 DEF View!DataCreate
    <3>5. QED
      BY <1>1, <1>4, <3>4, SameNumbers DEF View!Next, View!DataCommand
  <2>2. CASE cmd.op # "data_create"
    <3>1. View!DataCreateUnknownAt(s.w, cmd.rd, g, cmd.addr)
      BY <1>5, <1>9, <2>2, SameWalks DEF View!DataCreateUnknownAt
    <3>2. View!DataCreateUnknown(cmd.rd, g, cmd.addr)
      BY <1>9, <1>10, <1>11, <3>1 DEF View!DataCreateUnknown
    <3>3. QED
      BY <1>1, <1>4, <3>2, SameNumbers DEF View!Next, View!DataCommand
  <2>3. QED
    BY <2>1, <2>2
<1>13. Meaning'
  <2>1. ripas \in View!Ripas
    BY <1>1 DEF View!Ripas, View!Entry
  <2>2. View!MapData(View!Walk(cmd.rd, cmd.addr, View!RTT_PAGE_LEVEL), g, cmd.addr, ripas)
    BY <1>9, <1>10
  <2> HIDE DEF ripas, cmd
  <2>3. View!Inv'
    BY <1>1, <1>4, <1>5, <1>9, <2>1, <2>2, View!MapDataKeepsInv DEF LInv, Meaning
  <2>4. QED
    BY <1>5, <2>3 DEF LInv, Meaning
<1>14. TablesKept({})
  <2>1. ~IsTable(s2tt[s.w.g][i])
    BY <1>6 DEF IsTable, IsUnassigned
  <2>2. QED
    BY <1>1, <1>6, <2>1, EntryEditKeepsTables DEF LInv, Meaning
<1>15. \A d \in Cpus \ {c} : OtherKept(d)
  BY <1>5 DEF OtherKept, LInv, Reserved
<1>16. Freeing'
  BY <1>5, <1>8 DEF LInv, Freeing
<1>17. Wanted(s) \subseteq Granules \cup Descriptors
  BY WantedAtEnd
<1>18. /\ drop \cap SoundLocks \subseteq All(s)
       /\ Held(next) \cap SoundLocks = (All(s) \ drop) \cap SoundLocks
  BY <1>4, <1>7 DEF drop, All, StillLocked
<1>19. Given(next) => gstate'[next.cmd.pa] = "DELEGATED"
  BY <1>4, <1>5, <1>7
<1>20. LInv'
  BY <1>5, <1>7, <1>13, <1>14, <1>15, <1>16, <1>17, <1>18, <1>19, ActStep
<1>21. QED
  BY <1>12, <1>20

\* smc_data_destroy takes the entry out; to the others the granule is free from now on.
LEMMA UnmapViews ==
  ASSUME LInv, NEW c \in Cpus, cpu[c].pc = "walk", NEW g, NEW next, NEW drop,
         Move(c, drop, next), next.pc = "free", next.cmd.pa = g,
         gstate' = gstate, secret' = secret
  PROVE  /\ Mapped' = Mapped
         /\ \A d \in Cpus \ {c} : cpu'[d] = cpu[d]
         /\ GstateView' = [GstateView EXCEPT ![g] = "DELEGATED"]
         /\ SecretView' = SecretView \ {g}
<1>1. cpu'[c] = next /\ \A d \in Cpus \ {c} : cpu'[d] = cpu[d]
  BY MoveWrites DEF LInv
<1>2. \A x : x \in Mapped' <=> x \in Mapped
  <2>1. {d \in Cpus : cpu'[d].pc = "mapped"} = {d \in Cpus : cpu[d].pc = "mapped"}
    BY <1>1
  <2>2. \A d \in Cpus : cpu'[d].pc = "mapped" => cpu'[d] = cpu[d]
    BY <1>1
  <2>3. QED
    BY <2>1, <2>2 DEF Mapped
<1>3. \A x : x \in Unmapped' <=> x \in Unmapped \/ x = g
  BY <1>1 DEF Unmapped
<1>4. GstateView' = [GstateView EXCEPT ![g] = "DELEGATED"]
  <2>1. \A x \in Granules :
          (IF x \in Unmapped' THEN "DELEGATED" ELSE IF x \in Mapped' THEN "DATA" ELSE gstate'[x])
          = IF x = g THEN "DELEGATED"
            ELSE (IF x \in Unmapped THEN "DELEGATED" ELSE IF x \in Mapped THEN "DATA" ELSE gstate[x])
    BY <1>2, <1>3
  <2>2. QED
    BY <2>1 DEF GstateView
<1>5. SecretView' = SecretView \ {g}
  BY <1>3 DEF SecretView
<1>6. QED
  BY <1>1, <1>2, <1>4, <1>5

\* RMI_DATA_DESTROY, with the table locked until the granule is free.
LEMMA UnmapStep ==
  ASSUME LInv, NEW c \in Cpus, cpu[c].pc = "walk", ~GoesDown(cpu[c]),
         UnmapEffect(cpu[c].cmd, cpu[c].w),
         Move(c, {}, [cpu[c] EXCEPT !.pc = "free", !.cmd.pa = Entered(cpu[c]).pa])
  PROVE  LInv' /\ View!Next
<1> DEFINE s == cpu[c]
           cmd == s.cmd
           i == Index(cmd.addr, RTT_PAGE_LEVEL)
           e == s2tt[s.w.g][i]
           g == e.pa
           next == [s EXCEPT !.pc = "free", !.cmd.pa = g]
<1>1. /\ cmd \in Commands /\ s \in CpuState /\ s.w.g \in Granules
      /\ cmd.rd \in Rds /\ cmd.addr \in Ipas /\ cmd.addr \in Nat /\ cmd \in CommandType
      /\ s.w.level \in Levels /\ s.w.g \in View!Rtts /\ lvl[s.w.g] = s.w.level
      /\ Entered(s) = s2tt[s.w.g][Index(cmd.addr, s.w.level)]
      /\ Index(cmd.addr, s.w.level) \in Idx /\ Entered(s) \in View!Entry
      /\ s.w = [g |-> s.w.g, level |-> s.w.level]
  BY WalkIsOnTable, Arguments DEF LInv, PlacesOK
<1>2. /\ cmd.op = "data_destroy" /\ UnmapData(s.w, cmd.rd, cmd.addr)
      /\ gstate' = gstate /\ secret' = secret /\ UNCHANGED <<gstate, secret>>
  BY DEF UnmapEffect
<1>3. /\ s.w.level = RTT_PAGE_LEVEL /\ HoldsData(e)
      /\ s2tt' = [s2tt EXCEPT ![s.w.g] = [@ EXCEPT ![i] = Unassigned(RipasAfterDestroy(e))]]
      /\ UNCHANGED <<rdState, measured, setRipas, lvl>>
  BY <1>2 DEF UnmapData
<1>4. Entered(s).pa = g
  BY <1>1, <1>3
<1>5. g \in Granules /\ GstateView[g] = "DATA"
  <2>1. View!Inv /\ i \in View!Idx /\ View!HoldsData(e)
    BY <1>1, <1>3, SameNumbers, SameEntries DEF LInv, Meaning
  <2>2. \A x \in g .. g + View!MapSize(lvl[s.w.g]) - 1 : x \in Granules /\ GstateView[x] = "DATA"
    BY <1>1, <2>1 DEF View!Inv, View!PointsToOwned
  <2>3. View!MapSize(lvl[s.w.g]) = 1
    <3>1. lvl[s.w.g] = 3
      BY <1>1, <1>3 DEF RTT_PAGE_LEVEL
    <3>2. MapSize(3) = 1
      BY DEF MapSize
    <3>3. QED
      BY <3>1, <3>2, SameNumbers
  <2>4. g \in Nat
    BY <1>1, <1>4 DEF View!Entry
  <2>5. \A x \in Nat : x \in x .. x + 1 - 1
    OBVIOUS
  <2>6. g \in g .. g + View!MapSize(lvl[s.w.g]) - 1
    BY <2>3, <2>4, <2>5
  <2>7. QED
    BY <2>2, <2>6
<1>6. g \notin Unmapped /\ (g \in Mapped \/ gstate[g] = "DATA")
  BY <1>5, ViewStates
<1>7. next \in CpuState /\ next.pc = "free" /\ next.cmd.pa = g /\ next.w = s.w /\ next.cmd \in CommandType
  BY <1>1, <1>5, Addresses DEF CpuState, CommandType
<1>8. Placed(next) /\ Held(next) = {s.w.g} /\ ~Given(next) /\ Move(c, {}, next)
  <2>1. s.w \in [g : Granules, level : Levels]
    BY <1>1
  <2>2. QED
    BY <1>4, <1>5, <1>7, <2>1 DEF Placed, Held, Given
<1>9. View!UnmapData(s.w, cmd.rd, cmd.addr)
  BY <1>2, SeenUnmapData
<1> HIDE DEF next
<1>10. /\ Mapped' = Mapped /\ \A d \in Cpus \ {c} : cpu'[d] = cpu[d]
       /\ GstateView' = [GstateView EXCEPT ![g] = "DELEGATED"]
       /\ SecretView' = SecretView \ {g}
  BY <1>2, <1>7, <1>8, UnmapViews
<1>11. s.w = View!Walk(cmd.rd, cmd.addr, View!RTT_PAGE_LEVEL)
  BY <1>2, WalkDone, SameNumbers DEF WalkLevel
<1>12. View!DataDestroy(cmd.rd, cmd.addr)
  <2>1. cmd.addr \in View!Par
    BY <1>1, <1>2, LockingAssumption, SameNumbers DEF ValidArguments
  <2>2. View!Leaf(cmd.rd, cmd.addr) = e
    BY <1>3, <1>11, SameNumbers DEF View!Leaf, View!EntryAt
  <2>3. View!FreeData(g)
    BY <1>10 DEF View!FreeData, View!Wipe
  <2>4. QED
    BY <1>9, <1>11, <2>1, <2>2, <2>3 DEF View!DataDestroy
<1>13. View!Next
  BY <1>1, <1>12, SameNumbers DEF View!Next, View!DataCommand
<1>14. Meaning'
  <2> HIDE DEF cmd
  <2>1. View!Inv'
    BY <1>1, <1>12, View!DataDestroyKeepsInv DEF LInv, Meaning
  <2>2. QED
    BY <1>2, <1>3, <2>1 DEF LInv, Meaning
<1>15. TablesKept({})
  <2>1. ~IsTable(e)
    BY <1>3 DEF IsTable, HoldsData
  <2>2. QED
    BY <1>1, <1>3, <2>1, EntryEditKeepsTables DEF LInv, Meaning
<1>16. \A d \in Cpus \ {c} : OtherKept(d)
  BY <1>2, <1>3 DEF OtherKept, LInv, Reserved
<1>17. Freeing'
  <2>1. cpu'[c] = next
    BY <1>8, MoveWrites DEF LInv
  <2>2. \A d \in Cpus \ {c} : cpu[d].pc = "free" => cpu[d].cmd.pa # g
    BY <1>6 DEF Unmapped
  <2>3. ASSUME NEW d \in Cpus, cpu'[d].pc = "free"
        PROVE  gstate'[cpu'[d].cmd.pa] = "DATA" \/ cpu'[d].cmd.pa \in Mapped'
    <3>1. CASE d = c
      BY <1>2, <1>6, <1>7, <1>10, <2>1, <3>1
    <3>2. CASE d # c
      BY <1>2, <1>10, <2>3, <3>2 DEF LInv, Freeing
    <3>3. QED
      BY <3>1, <3>2
  <2>4. ASSUME NEW d \in Cpus, NEW b \in Cpus, d # b, cpu'[d].pc = "free", cpu'[b].pc = "free"
        PROVE  cpu'[d].cmd.pa # cpu'[b].cmd.pa
    <3>1. CASE d = c
      <4>1. cpu'[b] = cpu[b] /\ cpu[b].pc = "free" /\ b \in Cpus \ {c}
        BY <1>10, <2>4, <3>1
      <4>2. cpu[b].cmd.pa # g
        BY <2>2, <4>1
      <4>3. QED
        BY <1>7, <2>1, <3>1, <4>1, <4>2
    <3>2. CASE b = c
      <4>1. cpu'[d] = cpu[d] /\ cpu[d].pc = "free" /\ d \in Cpus \ {c}
        BY <1>10, <2>4, <3>2
      <4>2. cpu[d].cmd.pa # g
        BY <2>2, <4>1
      <4>3. QED
        BY <1>7, <2>1, <3>2, <4>1, <4>2
    <3>3. CASE d # c /\ b # c
      <4>1. cpu'[d] = cpu[d] /\ cpu'[b] = cpu[b]
        BY <1>10, <3>3
      <4>2. QED
        BY <2>4, <4>1 DEF LInv, Freeing
    <3>4. QED
      BY <3>1, <3>2, <3>3
  <2>5. QED
    BY <2>3, <2>4 DEF Freeing
<1>18. Wanted(s) = {} /\ Held(s) = {s.w.g}
  <2>1. Wanted(s) = {}
    BY <1>2 DEF Wanted, LocksChild
  <2>2. KeptNamed(cmd) = {}
    BY <1>2 DEF KeptNamed, KeepsRd, Named, TakesGranule
  <2>3. QED
    BY <2>1, <2>2 DEF Held
<1>19. /\ {} \cap SoundLocks \subseteq All(s) /\ Wanted(s) \subseteq Granules \cup Descriptors
       /\ Held(next) \cap SoundLocks = (All(s) \ {}) \cap SoundLocks
  BY <1>8, <1>18 DEF All
<1>20. LInv'
  BY <1>3, <1>7, <1>8, <1>14, <1>15, <1>16, <1>17, <1>19, ActStep
<1>21. QED
  BY <1>13, <1>20

-----------------------------------------------------------------------------
(* Handlers outside rtt.c.                                                 *)

\* A handler that changes neither locks nor tables keeps what is said about them.
LEMMA OutsideStep ==
  ASSUME LInv, UNCHANGED <<locked, cpu, s2tt>>,
         Reserved', StillPermitted', Freeing', Meaning'
  PROVE  LInv'
<1>1. PlacesOK' /\ LocksOK'
  BY DEF LInv, PlacesOK, LocksOK
<1>2. OnWay'
  BY DEF LInv, OnWay, Walking
<1>3. QED
  BY <1>1, <1>2 DEF LInv

\* The commands that keep the descriptors they named have them locked all the way.
LEMMA DescriptorsHeld ==
  ASSUME NEW s, s.pc \in {"root", "walk"}, KeepsRd(s.cmd)
  PROVE  Named(s.cmd) \subseteq Held(s)
<1>1. CASE s.pc = "root"
  BY <1>1 DEF Held
<1>2. CASE s.pc = "walk"
  BY <1>2 DEF Held, KeptNamed
<1>3. QED
  BY <1>1, <1>2

\* Granules change hands while nobody works on them.
LEMMA HandOverStep ==
  ASSUME LInv, NEW g \in Granules, UnderLock(g), GranuleDelegate(g) \/ GranuleUndelegate(g)
  PROVE  LInv' /\ View!Next
<1> DEFINE new == IF gstate[g] = "NS" THEN "DELEGATED" ELSE "NS"
<1>1. /\ g \notin locked /\ UNCHANGED <<locked, cpu>> /\ g \in SoundLocks
      /\ gstate[g] \in {"NS", "DELEGATED"} /\ gstate' = [gstate EXCEPT ![g] = new]
      /\ UNCHANGED <<refcount, s2tt, rdState, measured, setRipas, tlb, lvl>>
  BY Addresses DEF UnderLock, GranuleDelegate, GranuleUndelegate
<1>2. Mapped' = Mapped /\ Unmapped' = Unmapped
  BY <1>1 DEF Mapped, Unmapped
<1>3. g \notin Mapped
  BY <1>1, MappedIsLocked DEF LInv
<1>4. g \notin Unmapped
  BY <1>1, <1>3 DEF LInv, Freeing, Unmapped
<1>5. new \in {"NS", "DELEGATED"}
  OBVIOUS
<1>6. gstate'[g] = new /\ \A x \in Granules \ {g} : gstate'[x] = gstate[x]
  BY <1>1 DEF LInv, Meaning
<1>7. GstateView[g] = gstate[g] /\ GstateView' = [GstateView EXCEPT ![g] = new]
  <2> HIDE DEF new
  <2>1. QED
    BY <1>2, <1>3, <1>4, <1>6 DEF GstateView
<1>8. View!GranuleDelegate(g) \/ View!GranuleUndelegate(g)
  <2>1. CASE GranuleDelegate(g)
    <3>1. gstate[g] = "NS" /\ secret' = secret \ {g}
      BY <2>1 DEF GranuleDelegate
    <3>2. SecretView' = SecretView \ {g}
      BY <1>2, <3>1 DEF SecretView
    <3>3. QED
      BY <1>1, <1>7, <3>1, <3>2 DEF View!GranuleDelegate
  <2>2. CASE GranuleUndelegate(g)
    <3>1. gstate[g] = "DELEGATED" /\ secret' = secret
      BY <2>2 DEF GranuleUndelegate
    <3>2. SecretView' = SecretView
      BY <1>2, <3>1 DEF SecretView
    <3>3. QED
      BY <1>1, <1>7, <3>1, <3>2 DEF View!GranuleUndelegate
  <2>3. QED
    BY <2>1, <2>2
<1> HIDE DEF new
<1>9. Meaning'
  <2>1. View!Inv'
    BY <1>8, View!HandOverKeepsInv DEF LInv, Meaning
  <2>2. gstate' \in [Granules -> GranuleStates]
    BY <1>1, <1>5 DEF LInv, Meaning, GranuleStates
  <2>3. QED
    BY <1>1, <2>1, <2>2 DEF LInv, Meaning
<1>10. Reserved'
  <2>1. ASSUME NEW d \in Cpus, Given(cpu'[d])
        PROVE  gstate'[cpu'[d].cmd.pa] = "DELEGATED"
    <3>1. cpu'[d] = cpu[d]
      BY <1>1
    <3>2. cpu[d].cmd.pa \in Granules /\ cpu[d].cmd.pa \in Held(cpu[d])
      BY <2>1, <3>1, GivenIsHeld DEF LInv
    <3>3. cpu[d].cmd.pa # g
      BY <1>1, <3>2, FreeLock DEF LInv
    <3>4. QED
      BY <1>6, <2>1, <3>1, <3>2, <3>3 DEF LInv, Reserved
  <2>2. QED
    BY <2>1 DEF Reserved
<1>11. Freeing'
  <2>1. ASSUME NEW d \in Cpus, cpu'[d].pc = "free"
        PROVE  gstate'[cpu'[d].cmd.pa] = "DATA" \/ cpu'[d].cmd.pa \in Mapped'
    <3>1. cpu'[d] = cpu[d] /\ cpu[d].cmd.pa \in Granules
      BY <1>1, <2>1 DEF LInv, PlacesOK, Placed
    <3>2. gstate[cpu[d].cmd.pa] = "DATA" \/ cpu[d].cmd.pa \in Mapped
      BY <2>1, <3>1 DEF LInv, Freeing
    <3>3. QED
      BY <1>1, <1>2, <1>6, <3>1, <3>2
  <2>2. QED
    BY <1>1, <2>1 DEF LInv, Freeing
<1>12. StillPermitted'
  BY <1>1 DEF LInv, StillPermitted, Allowed
<1>13. LInv'
  BY <1>1, <1>9, <1>10, <1>11, <1>12, OutsideStep
<1>14. View!Next
  BY <1>8 DEF View!Next
<1>15. QED
  BY <1>13, <1>14

\* A step that changes the realm or its REC: the granules and the tables stay.
LEMMA RealmFrame ==
  ASSUME LInv, UNCHANGED <<locked, cpu, gstate, refcount, s2tt, secret, lvl>>,
         setRipas' \in [Rds -> Requests], StillPermitted'
  PROVE  LInv' /\ GstateView' = GstateView /\ SecretView' = SecretView
<1>1. Mapped' = Mapped /\ Unmapped' = Unmapped
  BY DEF Mapped, Unmapped
<1>2. GstateView' = GstateView /\ SecretView' = SecretView
  BY <1>1 DEF GstateView, SecretView
<1>3. Meaning'
  BY <1>2, View!UnchangedKeepsInv DEF LInv, Meaning
<1>4. Reserved'
  BY DEF LInv, Reserved
<1>5. Freeing'
  BY <1>1 DEF LInv, Freeing
<1>6. QED
  BY <1>2, <1>3, <1>4, <1>5, OutsideStep

\* RMI_REALM_ACTIVATE waits for those who have checked that the realm is new.
LEMMA ActivateStep ==
  ASSUME LInv, NEW rd \in Rds, UnderLock(RdAddr[rd]), RealmActivate(rd)
  PROVE  LInv' /\ View!Next
<1>1. /\ RdAddr[rd] \notin locked /\ UNCHANGED <<locked, cpu>>
      /\ rdState[rd] = "NEW" /\ rdState' = [rdState EXCEPT ![rd] = "ACTIVE"]
      /\ UNCHANGED <<gstate, refcount, s2tt, secret, measured, setRipas, tlb, lvl>>
  BY DEF UnderLock, RealmActivate
<1>2. StillPermitted'
  <2>1. \A x : x # rd => rdState'[x] = rdState[x]
    BY <1>1
  <2>2. ASSUME NEW d \in Cpus, cpu[d].pc \in {"root", "walk"},
               cpu[d].cmd.op \in {"data_create", "init_ripas"},
               RdAddr[cpu[d].cmd.rd] \in SoundLocks
        PROVE  cpu[d].cmd.rd # rd
    <3>1. cpu[d].cmd \in Commands
      BY <2>2 DEF LInv, PlacesOK, Placed
    <3>2. RdAddr[cpu[d].cmd.rd] \in Held(cpu[d])
      BY <2>2, <3>1, NamedAddresses, DescriptorsHeld DEF KeepsRd
    <3>3. QED
      BY <1>1, <2>2, <3>2, FreeLock DEF LInv
  <2>3. QED
    BY <1>1, <2>1, <2>2 DEF LInv, StillPermitted, Allowed
<1>3. LInv' /\ GstateView' = GstateView /\ SecretView' = SecretView
  BY <1>1, <1>2, RealmFrame DEF LInv, Meaning
<1>4. View!RealmActivate(rd)
  BY <1>1, <1>3 DEF View!RealmActivate
<1>5. View!Next
  BY <1>4 DEF View!Next, View!RealmStep
<1>6. QED
  BY <1>3, <1>5

\* The realm and RMI_REC_ENTER change a request while no command carries it out.
LEMMA RequestStep ==
  ASSUME LInv, NEW rd \in Rds, UnderLock(RecAddr[rd]),
         (\E req \in RipasRequests : RsiIpaStateSet(rd, req)) \/ RecEnter(rd)
  PROVE  LInv' /\ View!Next
<1>1. PICK req \in Requests :
        /\ setRipas' = [setRipas EXCEPT ![rd] = req]
        /\ UNCHANGED <<gstate, refcount, s2tt, secret, rdState, measured, tlb, lvl>>
  <2>1. RipasRequests \subseteq Requests /\ NoRequest \in Requests
    BY DEF Requests, NoRequest, ConstantsAssumption
  <2>2. QED
    BY <2>1 DEF RsiIpaStateSet, RecEnter
<1>2. RecAddr[rd] \notin locked /\ UNCHANGED <<locked, cpu>>
  BY DEF UnderLock
<1>3. StillPermitted'
  <2>1. \A x : x # rd => setRipas'[x] = setRipas[x]
    BY <1>1 DEF LInv, Meaning
  <2>2. ASSUME NEW d \in Cpus, cpu[d].pc \in {"root", "walk"}, cpu[d].cmd.op = "set_ripas"
        PROVE  cpu[d].cmd.rd # rd
    <3>1. cpu[d].cmd \in Commands
      BY <2>2 DEF LInv, PlacesOK, Placed
    <3>2. RecAddr[cpu[d].cmd.rd] \in Held(cpu[d])
      BY <2>2, <3>1, NamedAddresses, DescriptorsHeld DEF KeepsRd
    <3>3. QED
      BY <1>2, <3>2, Addresses, FreeLock DEF LInv
  <2>3. QED
    BY <1>1, <1>2, <2>1, <2>2 DEF LInv, StillPermitted, Allowed
<1>4. LInv' /\ GstateView' = GstateView /\ SecretView' = SecretView
  BY <1>1, <1>2, <1>3, RealmFrame DEF LInv, Meaning
<1>5. View!NoRequest = NoRequest
  BY DEF View!NoRequest, NoRequest
<1>6. (\E r \in RipasRequests : View!RsiIpaStateSet(rd, r)) \/ View!RecEnter(rd)
  BY <1>4, <1>5, SameNumbers DEF View!RsiIpaStateSet, View!RecEnter, RsiIpaStateSet, RecEnter
<1>7. View!Next
  BY <1>6 DEF View!Next, View!RealmStep
<1>8. QED
  BY <1>4, <1>7

-----------------------------------------------------------------------------
(* Every step.                                                             *)

\* What a handler does at the end of its walk.
LEMMA FinishStep ==
  ASSUME LInv, NEW c \in Cpus, Finish(c)
  PROVE  LInv' /\ (NoneUnlocksTwice => View!Next \/ UNCHANGED View!vars)
<1> DEFINE s == cpu[c]
           cmd == s.cmd
<1>1. s.pc = "walk" /\ ~GoesDown(s)
  BY DEF Finish
<1>2. CASE Effect(cmd, s.w) /\ Move(c, All(s), Returns(s))
  <2>1. CASE cmd.op = "rtt_create" /\ RttCreateAt(s.w, cmd.rd, cmd.pa, cmd.addr, cmd.level)
    BY <1>1, <1>2, <2>1, RttCreateStep
  <2>2. CASE cmd.op = "rtt_fold" /\ RttFoldAt(s.w, cmd.rd, cmd.addr, cmd.level)
    BY <1>1, <1>2, <2>2, RttFoldStep
  <2>3. CASE cmd.op = "rtt_destroy" /\ RttDestroyAt(s.w, cmd.rd, cmd.addr, cmd.level)
    BY <1>1, <1>2, <2>3, RttDestroyStep
  <2>4. CASE /\ cmd.op = "map_unprotected"
             /\ RttMapUnprotectedAt(s.w, cmd.rd, cmd.addr, cmd.level, cmd.pa)
    BY <1>1, <1>2, <2>4, MapUnprotectedStep
  <2>5. CASE /\ cmd.op = "unmap_unprotected"
             /\ RttUnmapUnprotectedAt(s.w, cmd.rd, cmd.addr, cmd.level)
    BY <1>1, <1>2, <2>5, UnmapUnprotectedStep
  <2>6. CASE cmd.op = "init_ripas" /\ RttInitRipasAt(s.w, cmd.rd, cmd.addr, cmd.top)
    BY <1>1, <1>2, <2>6, InitRipasStep
  <2>7. CASE cmd.op = "set_ripas" /\ RttSetRipasAt(s.w, cmd.rd, cmd.top)
    BY <1>1, <1>2, <2>7, SetRipasStep
  <2>8. CASE cmd.op = "ipa_block" /\ SetBlockedAt(s.w, cmd.rd, cmd.addr, TRUE)
    BY <1>1, <1>2, <2>8, SetBlockedStep
  <2>9. CASE cmd.op = "ipa_unblock" /\ SetBlockedAt(s.w, cmd.rd, cmd.addr, FALSE)
    BY <1>1, <1>2, <2>9, SetBlockedStep
  <2>10. QED
    BY <1>2, <2>1, <2>2, <2>3, <2>4, <2>5, <2>6, <2>7, <2>8, <2>9 DEF Effect
<1>3. CASE Move(c, All(s), Returns(s)) /\ UNCHANGED vars
  BY <1>1, <1>3, FailsQuiet
<1>4. CASE /\ MapEffect(cmd, s.w)
           /\ Move(c, All(s) \ StillLocked(cmd), [Idle EXCEPT !.pc = "mapped", !.cmd = cmd])
  BY <1>1, <1>4, MapStep
<1>5. CASE /\ UnmapEffect(cmd, s.w)
           /\ Move(c, {}, [s EXCEPT !.pc = "free", !.cmd.pa = Entered(s).pa])
  BY <1>1, <1>5, UnmapStep
<1>6. QED
  BY <1>2, <1>3, <1>4, <1>5 DEF Finish

\* What is outside rtt.c.
LEMMA ElsewhereStep ==
  ASSUME LInv, Elsewhere
  PROVE  LInv' /\ View!Next
BY HandOverStep, ActivateStep, RequestStep DEF Elsewhere

\* The inductive step; and every step is one of RmmRtt, or none to those who look.
LEMMA StepKeepsLInv ==
  ASSUME LInv, [LNext]_lvars
  PROVE  LInv' /\ (NoneUnlocksTwice => View!Next \/ UNCHANGED View!vars)
<1>1. CASE Elsewhere
  BY <1>1, ElsewhereStep
<1>2. CASE \E c \in Cpus : Start(c) \/ Advance(c)
  <2> SUFFICES ASSUME NEW c \in Cpus, Start(c) \/ Advance(c)
               PROVE  LInv' /\ (NoneUnlocksTwice => View!Next \/ UNCHANGED View!vars)
    BY <1>2
  <2>1. CASE Start(c)
    BY <2>1, StartQuiet
  <2>2. CASE LockNamed(c)
    BY <2>2, LockNamedQuiet
  <2>3. CASE LockRoot(c)
    BY <2>3, LockRootQuiet
  <2>4. CASE WalkDown(c)
    BY <2>4, WalkDownQuiet
  <2>5. CASE Finish(c)
    BY <2>5, FinishStep
  <2>6. CASE BecomeData(c)
    BY <2>6, BecomeDataStep
  <2>7. CASE FreeGranule(c)
    BY <2>7, FreeGranuleStep
  <2>8. CASE UnlockRdAgain(c)
    BY <2>8, UnlockRdAgainQuiet
  <2>9. QED
    BY <2>1, <2>2, <2>3, <2>4, <2>5, <2>6, <2>7, <2>8 DEF Advance
<1>3. CASE UNCHANGED lvars
  <2>1. /\ UNCHANGED <<locked, cpu, gstate, refcount, s2tt, secret, lvl>>
        /\ UNCHANGED <<rdState, measured, setRipas, tlb>>
    BY <1>3 DEF lvars, vars
  <2>2. StillPermitted' /\ setRipas' \in [Rds -> Requests]
    BY <2>1 DEF LInv, Meaning, StillPermitted, Allowed
  <2>3. LInv' /\ GstateView' = GstateView /\ SecretView' = SecretView
    BY <2>1, <2>2, RealmFrame
  <2>4. QED
    BY <2>1, <2>3 DEF View!vars
<1>4. QED
  BY <1>1, <1>2, <1>3 DEF LNext

\* In the beginning nobody holds anything and everybody sees the same.
LEMMA InitLInv == LInit => LInv /\ View!Init
<1> SUFFICES ASSUME LInit PROVE LInv /\ View!Init
  OBVIOUS
<1>1. locked = {} /\ cpu = [c \in Cpus |-> Idle] /\ Init
  BY DEF LInit
<1>2. \A c \in Cpus : cpu[c] = Idle
  BY <1>1
<1>3. Mapped = {} /\ Unmapped = {}
  BY <1>2, IdlePlace DEF Mapped, Unmapped
<1>4. gstate = [g \in Granules |-> IF g \in Roots THEN "RTT" ELSE "DELEGATED"]
  BY <1>1 DEF Init
<1>5. GstateView = gstate /\ SecretView = secret
  BY <1>3, <1>4 DEF GstateView, SecretView
<1>6. View!Init
  <2>1. View!Roots = Roots /\ View!NoRequest = NoRequest
    BY DEF View!Roots, Roots, View!NoRequest, NoRequest
  <2>2. View!RootTable = RootTable
    BY SameNumbers, SameParts DEF View!RootTable, RootTable
  <2>3. QED
    BY <1>1, <1>5, <2>1, <2>2, SameParts DEF View!Init, Init
<1>7. View!Inv
  BY <1>6, View!InitInv
<1>8. Meaning
  <2>1. gstate \in [Granules -> GranuleStates]
    BY <1>4 DEF GranuleStates
  <2>2. setRipas \in [Rds -> Requests]
    BY <1>1 DEF Init, NoRequest, Requests
  <2>3. QED
    BY <1>7, <2>1, <2>2 DEF Meaning
<1>9. PlacesOK
  BY <1>1, <1>2, IdlePlace DEF PlacesOK
<1>10. LocksOK
  BY <1>1, <1>2, IdlePlace DEF LocksOK
<1>11. Reserved /\ OnWay /\ StillPermitted /\ Freeing
  BY <1>2, IdlePlace DEF Reserved, OnWay, StillPermitted, Freeing
<1>12. QED
  BY <1>6, <1>8, <1>9, <1>10, <1>11 DEF LInv

\* LInv, always.
THEOREM LockingInvariance == LSpec => []LInv
<1>1. LInit => LInv
  BY InitLInv
<1>2. LInv /\ [LNext]_lvars => LInv'
  BY StepKeepsLInv
<1>3. QED
  BY <1>1, <1>2, PTL DEF LSpec

\* What one gets with a lock: LockedAsAsserted follows.
LEMMA LocksAsAsserted == LInv => LockedAsAsserted
<1> SUFFICES ASSUME LInv PROVE LockedByOne /\ AssertsHold
  BY DEF LockedAsAsserted
<1>1. LTypeOK
  <2>1. locked \subseteq Granules \cup Descriptors
    BY DEF LInv, LocksOK
  <2>2. ASSUME NEW c \in Cpus
        PROVE  /\ cpu[c].pc \in {"idle", "named", "root", "walk", "mapped", "free", "unlock_rd"}
               /\ cpu[c].pc # "idle" => cpu[c].cmd \in CommandType
               /\ cpu[c].pc \in {"walk", "free"} => cpu[c].w \in [g : Granules, level : Levels]
    <3>1. cpu[c] \in CpuState /\ Placed(cpu[c])
      BY DEF LInv, PlacesOK
    <3>2. cpu[c].pc # "idle" => cpu[c].cmd \in CommandType
      BY <3>1, Arguments DEF CpuState, Placed
    <3>3. cpu[c].pc = "walk" => cpu[c].w \in [g : Granules, level : Levels]
      <4>1. SUFFICES ASSUME cpu[c].pc = "walk" PROVE cpu[c].w \in [g : Granules, level : Levels]
        OBVIOUS
      <4>2. /\ cpu[c].w = [g |-> cpu[c].w.g, level |-> cpu[c].w.level]
            /\ cpu[c].w.g \in Granules /\ cpu[c].w.level \in Levels
        BY <4>1, WalkIsOnTable
      <4>3. QED
        BY <4>2
    <3>4. QED
      BY <3>1, <3>2, <3>3 DEF CpuState, Placed
  <2>3. QED
    BY <2>1, <2>2 DEF LTypeOK
<1>2. LockedByOne
  <2>1. locked \cap SoundLocks = (UNION {Held(cpu[c]) : c \in Cpus}) \cap SoundLocks
    <3> DEFINE all == UNION {Held(cpu[c]) : c \in Cpus}
    <3>1. \A x : x \in all <=> \E c \in Cpus : x \in Held(cpu[c])
      OBVIOUS
    <3> HIDE DEF all
    <3>2. \A x \in SoundLocks : x \in locked <=> x \in all
      BY <3>1, TakenIsHeld DEF LInv
    <3>3. locked \cap SoundLocks = all \cap SoundLocks
      BY <3>2
    <3>4. QED
      BY <3>3 DEF all
  <2>2. QED
    BY <1>1, <2>1 DEF LockedByOne, LInv, LocksOK
<1>3. ASSUME NEW c \in Cpus, cpu[c].pc \in {"root", "walk", "free"},
             NEW x \in Wanted(cpu[c]) \ locked
      PROVE  gstate[x] = AssertedState(cpu[c])
  <2>1. CASE cpu[c].pc = "root"
    <3>1. x = RootOf[cpu[c].cmd.rd] /\ cpu[c].cmd.rd \in Rds
      BY <1>3, <2>1, Arguments DEF Wanted, LInv, PlacesOK, Placed
    <3>2. x \in View!Rtts /\ x \in Granules
      BY <3>1, Addresses DEF LInv, Meaning, View!Inv, View!RootsAreTables
    <3>3. gstate[x] = "RTT"
      BY <3>2, ViewStates
    <3>4. QED
      BY <2>1, <3>3 DEF AssertedState
  <2>2. CASE cpu[c].pc = "walk"
    <3>1. x = Entered(cpu[c]).pa /\ IsTable(Entered(cpu[c]))
      BY <1>3, <2>2 DEF Wanted, GoesDown
    <3>2. gstate[x] = "RTT"
      BY <2>2, <3>1, WalkIsOnTable
    <3>3. QED
      BY <2>2, <3>2 DEF AssertedState
  <2>3. CASE cpu[c].pc = "free"
    <3>1. x = cpu[c].cmd.pa /\ x \notin Mapped
      BY <1>3, <2>3, MappedIsLocked DEF Wanted, LInv
    <3>2. gstate[x] = "DATA"
      BY <2>3, <3>1 DEF LInv, Freeing
    <3>3. QED
      BY <2>3, <3>2 DEF AssertedState
  <2>4. QED
    BY <1>3, <2>1, <2>2, <2>3
<1>4. QED
  BY <1>2, <1>3 DEF AssertsHold

\* Every spinlock has one holder, nobody unlocks what it does not hold, and whoever
\* gets the lock of a table or of a data granule finds it in the state that the
\* handlers assert (find_lock_granule, granule_lock).
THEOREM HandlersFindWhatTheyAssert == LSpec => []LockedAsAsserted
BY LockingInvariance, LocksAsAsserted, PTL

-----------------------------------------------------------------------------
(* Deadlock: every CPU that spins waits for a later lock than it holds.    *)

\* Of the addresses a command names, the lower is taken first.
Ordered(s) == s.pc = "named" => \A x \in Named(s.cmd) \ s.todo, y \in s.todo : x < y

\* The table of a page on its way out stays one as long as it is locked.
OnTable(s) == s.pc = "free" => gstate[s.w.g] = "RTT"

WaitInv == \A c \in Cpus : Ordered(cpu[c]) /\ OnTable(cpu[c])

\* Tables are made of delegated granules, and taken apart by the holder of their lock.
LEMMA LockedTablesStay ==
  ASSUME LInv, LNext, NEW g \in Granules, gstate[g] = "RTT", g \in locked
  PROVE  gstate'[g] = "RTT"
<1>1. gstate \in [Granules -> GranuleStates]
  BY DEF LInv, Meaning
<1>2. ASSUME NEW ch, ch # g, NEW new, gstate' = [gstate EXCEPT ![ch] = new]
      PROVE  gstate'[g] = "RTT"
  BY <1>1, <1>2
<1>3. CASE Elsewhere
  <2>1. CASE \E x \in Granules : UnderLock(x) /\ (GranuleDelegate(x) \/ GranuleUndelegate(x))
    <3>1. PICK x \in Granules : UnderLock(x) /\ (GranuleDelegate(x) \/ GranuleUndelegate(x))
      BY <2>1
    <3>2. x # g
      BY <3>1 DEF UnderLock
    <3>3. QED
      BY <1>2, <3>1, <3>2 DEF GranuleDelegate, GranuleUndelegate
  <2>2. CASE \E rd \in Rds : RealmActivate(rd)
    BY <2>2 DEF RealmActivate
  <2>3. CASE \E rd \in Rds : (\E req \in RipasRequests : RsiIpaStateSet(rd, req)) \/ RecEnter(rd)
    BY <2>3 DEF RsiIpaStateSet, RecEnter
  <2>4. QED
    BY <1>3, <2>1, <2>2, <2>3 DEF Elsewhere
<1>4. CASE \E c \in Cpus : Start(c) \/ Advance(c)
  <2> SUFFICES ASSUME NEW c \in Cpus, Start(c) \/ Advance(c)
               PROVE  gstate'[g] = "RTT"
    BY <1>4
  <2> DEFINE s == cpu[c]
             cmd == s.cmd
  <2>1. CASE Start(c) \/ LockNamed(c) \/ LockRoot(c) \/ WalkDown(c) \/ UnlockRdAgain(c)
    <3>1. UNCHANGED vars
      BY <2>1 DEF Start, LockNamed, LockRoot, WalkDown, UnlockRdAgain
    <3>2. QED
      BY <3>1 DEF vars
  <2>2. CASE BecomeData(c)
    <3>1. Given(s) /\ gstate' = [gstate EXCEPT ![cmd.pa] = "DATA"]
      BY <2>2 DEF BecomeData, BecomesData, LInv, PlacesOK, Placed, Given, TakesGranule
    <3>2. gstate[cmd.pa] = "DELEGATED"
      BY <3>1 DEF LInv, Reserved
    <3>3. QED
      BY <1>2, <3>1, <3>2
  <2>3. CASE FreeGranule(c)
    <3>1. /\ Wanted(s) = {cmd.pa} /\ gstate' = [gstate EXCEPT ![cmd.pa] = "DELEGATED"]
          /\ Move(c, All(s), Idle)
      BY <2>3 DEF FreeGranule, FreeData, Wanted
    <3>2. cmd.pa \notin locked
      BY <3>1, MoveWrites DEF LInv
    <3>3. QED
      BY <1>2, <3>1, <3>2
  <2>4. CASE Finish(c)
    <3>1. s.pc = "walk" /\ ~GoesDown(s) /\ Wanted(s) \cap locked = {}
      BY <2>4 DEF Finish, Move
    <3>2. s.cmd \in Commands /\ s.w.g \in Granules
      BY <3>1, WalkIsOnTable
    <3>3. CASE cmd.op = "rtt_create" /\ RttCreateAt(s.w, cmd.rd, cmd.pa, cmd.addr, cmd.level)
      <4>1. Given(s)
        BY <3>1, <3>3 DEF Given, TakesGranule
      <4>2. gstate[cmd.pa] = "DELEGATED"
        BY <4>1 DEF LInv, Reserved
      <4>3. QED
        BY <1>2, <3>3, <4>2 DEF RttCreateAt
    <3>4. CASE \/ cmd.op = "rtt_fold" /\ RttFoldAt(s.w, cmd.rd, cmd.addr, cmd.level)
               \/ cmd.op = "rtt_destroy" /\ RttDestroyAt(s.w, cmd.rd, cmd.addr, cmd.level)
      <4> DEFINE ch == s2tt[s.w.g][Index(cmd.addr, cmd.level - 1)].pa
      <4>1. /\ s.w.level = cmd.level - 1 /\ gstate' = [gstate EXCEPT ![ch] = "DELEGATED"]
            /\ IsTable(s2tt[s.w.g][Index(cmd.addr, cmd.level - 1)])
        BY <3>4 DEF RttFoldAt, RttDestroyAt
      <4>2. WalkLevel(cmd) = cmd.level - 1 /\ LocksChild(cmd)
        BY <3>4 DEF WalkLevel, LocksChild
      <4>3. ch = Entered(s).pa /\ IsTable(Entered(s))
        BY <4>1 DEF Entered, EntryAt
      <4>4. ch \in Wanted(s)
        BY <3>1, <4>1, <4>2, <4>3 DEF Wanted
      <4>5. ch # g
        BY <3>1, <4>4
      <4>6. QED
        BY <1>2, <4>1, <4>5
    <3>5. CASE UNCHANGED gstate
      BY <3>5
    <3>6. CASE Effect(cmd, s.w)
      <4>1. CASE \/ cmd.op = "map_unprotected"
                    /\ RttMapUnprotectedAt(s.w, cmd.rd, cmd.addr, cmd.level, cmd.pa)
                 \/ cmd.op = "unmap_unprotected"
                    /\ RttUnmapUnprotectedAt(s.w, cmd.rd, cmd.addr, cmd.level)
        BY <3>5, <4>1 DEF RttMapUnprotectedAt, RttUnmapUnprotectedAt
      <4>2. CASE \/ cmd.op = "init_ripas" /\ RttInitRipasAt(s.w, cmd.rd, cmd.addr, cmd.top)
                 \/ cmd.op = "set_ripas" /\ RttSetRipasAt(s.w, cmd.rd, cmd.top)
        BY <3>5, <4>2 DEF RttInitRipasAt, RttSetRipasAt
      <4>3. CASE SetBlockedAt(s.w, cmd.rd, cmd.addr, TRUE) \/ SetBlockedAt(s.w, cmd.rd, cmd.addr, FALSE)
        BY <3>5, <4>3 DEF SetBlockedAt
      <4>4. QED
        BY <3>3, <3>4, <3>6, <4>1, <4>2, <4>3 DEF Effect
    <3>7. CASE UNCHANGED vars \/ MapEffect(cmd, s.w) \/ UnmapEffect(cmd, s.w)
      BY <3>5, <3>7 DEF vars, MapEffect, UnmapEffect
    <3>8. QED
      BY <2>4, <3>6, <3>7 DEF Finish
  <2>5. QED
    BY <2>1, <2>2, <2>3, <2>4 DEF Advance
<1>5. QED
  BY <1>3, <1>4 DEF LNext

\* What a CPU does next is again in order.
LEMMA MoverWaits ==
  ASSUME LInv, WaitInv, NEW c \in Cpus, Start(c) \/ Advance(c)
  PROVE  Ordered(cpu'[c]) /\ (cpu'[c].pc = "free" => gstate'[cpu'[c].w.g] = "RTT")
<1> DEFINE s == cpu[c]
           t == cpu'[c]
<1>1. s \in CpuState /\ cpu \in [Cpus -> CpuState] /\ Placed(s) /\ Ordered(s)
  BY DEF LInv, PlacesOK, WaitInv
<1>2. Idle.pc = "idle"
  BY DEF Idle
<1>3. CASE t.pc \notin {"named", "free"}
  BY <1>3 DEF Ordered
<1>4. CASE Start(c)
  <2>1. PICK cmd \in Commands : t = [Idle EXCEPT !.pc = "named", !.cmd = cmd, !.todo = Named(cmd)]
    BY <1>1, <1>4 DEF Start, Move
  <2>2. t.pc = "named" /\ t.todo = Named(t.cmd)
    BY <2>1 DEF Idle
  <2>3. QED
    BY <2>2 DEF Ordered
<1>5. CASE LockNamed(c)
  <2> DEFINE rest == s.todo \ Wanted(s)
  <2>1. /\ s.pc = "named" /\ s.cmd \in Commands /\ s.todo # {} /\ s.todo \subseteq Named(s.cmd)
    BY <1>1, <1>5 DEF LockNamed, Placed
  <2>2. \/ t = [s EXCEPT !.todo = rest]
        \/ t = [s EXCEPT !.todo = {}, !.pc = "root"]
        \/ t = Idle
    BY <1>1, <1>5 DEF LockNamed, Move
  <2>3. CASE t = [s EXCEPT !.todo = rest]
    <3>1. t.pc = "named" /\ t.cmd = s.cmd /\ t.todo = rest
      BY <1>1, <2>1, <2>3 DEF CpuState
    <3>2. Wanted(s) = {NextLock(s.todo)}
      BY <2>1 DEF Wanted
    <3>3. \A y \in s.todo : NextLock(s.todo) <= y
      BY <2>1, NextLockIsLowest
    <3>4. NextLock(s.todo) \in s.todo /\ Named(s.cmd) \subseteq Nat
      BY <2>1, NextLockIsLowest, NamedAddresses
    <3>5. ASSUME NEW x \in Named(s.cmd) \ rest, NEW y \in rest
          PROVE  x < y
      <4>1. y \in s.todo /\ y # NextLock(s.todo) /\ y \in Nat
        BY <2>1, <3>2, <3>4
      <4>2. CASE x \in s.todo
        BY <3>2, <3>3, <3>4, <4>1, <4>2
      <4>3. CASE x \notin s.todo
        BY <1>1, <2>1, <4>1, <4>3 DEF Ordered
      <4>4. QED
        BY <4>2, <4>3
    <3>6. QED
      BY <3>1, <3>5 DEF Ordered
  <2>4. CASE t = [s EXCEPT !.todo = {}, !.pc = "root"]
    <3>1. t.pc = "root"
      BY <1>1, <2>4 DEF CpuState
    <3>2. QED
      BY <1>3, <3>1
  <2>5. QED
    BY <1>2, <1>3, <2>2, <2>3, <2>4
<1>6. CASE LockRoot(c) \/ WalkDown(c)
  <2>1. \/ t = [s EXCEPT !.pc = "walk", !.w = [g |-> RootOf[s.cmd.rd], level |-> StartLevel]]
        \/ s.pc = "walk" /\ t = [s EXCEPT !.w = WalkStep(@, s.cmd.addr, WalkLevel(s.cmd))]
    BY <1>1, <1>6 DEF LockRoot, WalkDown, Move
  <2>2. t.pc = "walk"
    BY <1>1, <2>1 DEF CpuState
  <2>3. QED
    BY <1>3, <2>2
<1>7. CASE Finish(c)
  <2>1. s.pc = "walk"
    BY <1>7 DEF Finish
  <2>2. CASE t = Returns(s)
    <3>1. s.cmd \in Commands
      BY <1>1, <2>1 DEF Placed
    <3>2. t.pc \in {"idle", "unlock_rd"}
      BY <1>1, <2>2, <3>1, ReturnPlace
    <3>3. QED
      BY <1>3, <3>2
  <2>3. CASE t = [Idle EXCEPT !.pc = "mapped", !.cmd = s.cmd]
    <3>1. t.pc = "mapped"
      BY <2>3 DEF Idle
    <3>2. QED
      BY <1>3, <3>1
  <2>4. CASE UnmapEffect(s.cmd, s.w) /\ t = [s EXCEPT !.pc = "free", !.cmd.pa = Entered(s).pa]
    <3>1. t.pc = "free" /\ t.w = s.w
      BY <1>1, <2>4 DEF CpuState
    <3>2. gstate[s.w.g] = "RTT"
      BY <2>1, WalkIsOnTable
    <3>3. gstate' = gstate
      BY <2>4 DEF UnmapEffect
    <3>4. QED
      BY <3>1, <3>2, <3>3 DEF Ordered
  <2>5. QED
    BY <1>1, <1>7, <2>2, <2>3, <2>4 DEF Finish, Move
<1>8. CASE BecomeData(c) \/ FreeGranule(c) \/ UnlockRdAgain(c)
  <2>1. t = Idle
    BY <1>1, <1>8 DEF BecomeData, FreeGranule, UnlockRdAgain, Move
  <2>2. QED
    BY <1>2, <1>3, <2>1
<1>9. QED
  BY <1>4, <1>5, <1>6, <1>7, <1>8 DEF Advance

\* The others wait as they did.
LEMMA StepKeepsWaitInv ==
  ASSUME LInv, WaitInv, [LNext]_lvars
  PROVE  WaitInv'
<1>1. CASE UNCHANGED lvars
  BY <1>1 DEF lvars, vars, WaitInv, Ordered, OnTable
<1>2. CASE LNext
  <2>1. ASSUME NEW d \in Cpus, cpu'[d] = cpu[d]
        PROVE  Ordered(cpu'[d]) /\ (cpu'[d].pc = "free" => gstate'[cpu'[d].w.g] = "RTT")
    <3>1. Ordered(cpu[d]) /\ OnTable(cpu[d])
      BY DEF WaitInv
    <3>2. CASE cpu[d].pc = "free"
      <4>1. cpu[d].w.g \in Granules /\ cpu[d].w.g \in Held(cpu[d])
        BY <3>2 DEF LInv, PlacesOK, Placed, Held
      <4>2. cpu[d].w.g \in locked
        BY <4>1, Addresses, TakenIsHeld DEF LInv
      <4>3. gstate[cpu[d].w.g] = "RTT"
        BY <3>1, <3>2 DEF OnTable
      <4>4. gstate'[cpu[d].w.g] = "RTT"
        BY <1>2, <4>1, <4>2, <4>3, LockedTablesStay
      <4>5. QED
        BY <2>1, <3>1, <4>4
    <3>3. CASE cpu[d].pc # "free"
      BY <2>1, <3>1, <3>3
    <3>4. QED
      BY <3>2, <3>3
  <2>2. CASE Elsewhere
    <3>1. cpu' = cpu
      BY <2>2 DEF Elsewhere, UnderLock
    <3>2. QED
      BY <2>1, <3>1 DEF WaitInv, Ordered, OnTable
  <2>3. ASSUME NEW c \in Cpus, Start(c) \/ Advance(c), NEW d \in Cpus
        PROVE  Ordered(cpu'[d]) /\ (cpu'[d].pc = "free" => gstate'[cpu'[d].w.g] = "RTT")
    <3>1. CASE d = c
      BY <2>3, <3>1, MoverWaits
    <3>2. CASE d # c
      <4>1. \E drop, next : Move(c, drop, next)
        BY <2>3 DEF Start, Advance, LockNamed, LockRoot, WalkDown, Finish, BecomeData, FreeGranule,
                    UnlockRdAgain
      <4>2. cpu'[d] = cpu[d]
        BY <3>2, <4>1, MoveWrites DEF LInv
      <4>3. QED
        BY <2>1, <4>2
    <3>3. QED
      BY <3>1, <3>2
  <2>4. QED
    BY <1>2, <2>2, <2>3 DEF LNext, WaitInv, Ordered, OnTable
<1>3. QED
  BY <1>1, <1>2

\* The order of all locks: descriptors and granules that are named by address, then the
\* root, then the tables by level, and last the data granule under a table.
Rank(s, n) ==
    CASE s.pc = "named" -> NextLock(s.todo)
      [] s.pc = "root"  -> n + 1
      [] s.pc = "walk"  -> n + 2 + s.w.level
      [] s.pc = "free"  -> n + 6

\* A rank is a number.
LEMMA RankIsBounded ==
  ASSUME LInv, NEW n \in Nat, Granules \cup Descriptors \subseteq 0 .. n,
         NEW c \in Cpus, Wanted(cpu[c]) # {}
  PROVE  Rank(cpu[c], n) \in 0 .. n + 6
<1> DEFINE s == cpu[c]
<1>1. Placed(s)
  BY DEF LInv, PlacesOK
<1>2. s.pc \in {"named", "root", "walk", "free"}
  BY DEF Wanted
<1>3. CASE s.pc = "named"
  <2>1. s.cmd \in Commands /\ s.todo # {} /\ s.todo \in SUBSET Named(s.cmd)
    BY <1>1, <1>3 DEF Placed
  <2>2. NextLock(s.todo) \in Named(s.cmd)
    BY <2>1, NextLockIsLowest
  <2>3. NextLock(s.todo) \in 0 .. n
    BY <2>1, <2>2, NamedAddresses
  <2>4. QED
    BY <1>3, <2>3 DEF Rank
<1>4. CASE s.pc = "walk"
  <2>1. s.w.level \in Levels
    BY <1>4, WalkIsOnTable
  <2>2. s.w.level \in 0 .. 3
    BY <2>1 DEF Levels, RTT_PAGE_LEVEL
  <2>3. QED
    BY <1>4, <2>2 DEF Rank
<1>5. QED
  BY <1>2, <1>3, <1>4 DEF Rank

\* Whoever has a lock that is waited for waits, if at all, for a later one.
LEMMA WaitsUpwards ==
  ASSUME LInv, WaitInv, NEW n \in Nat, Granules \cup Descriptors \subseteq 0 .. n,
         NEW c \in Cpus, NEW d \in Cpus, NEW x, x \in Wanted(cpu[c]), x \in Held(cpu[d]),
         Wanted(cpu[d]) # {}
  PROVE  Rank(cpu[c], n) < Rank(cpu[d], n)
<1> DEFINE s == cpu[c]
           t == cpu[d]
<1>1. /\ Placed(s) /\ Placed(t) /\ Ordered(t) /\ OnTable(t)
      /\ s.pc \in {"named", "root", "walk", "free"} /\ t.pc \in {"named", "root", "walk", "free"}
  BY DEF LInv, PlacesOK, WaitInv, Wanted
<1>2. t.pc \in {"named", "root", "walk"} => t.cmd \in Commands
  BY <1>1 DEF Placed
<1>3. t.pc = "walk" => t.w.level \in 0 .. 3
  <2>1. t.pc = "walk" => t.w.level \in Levels
    BY WalkIsOnTable
  <2>2. QED
    BY <2>1 DEF Levels, RTT_PAGE_LEVEL
\* Of a granule, t has either been given it as delegated, or it is a table t works on.
<1>4. ASSUME x \in Granules
      PROVE  \/ gstate[x] = "DELEGATED" /\ Given(t)
             \/ t.pc = "walk" /\ x = t.w.g /\ gstate[x] = "RTT" /\ lvl[x] = t.w.level
             \/ t.pc = "free" /\ gstate[x] = "RTT"
  <2>1. CASE t.pc = "free"
    BY <1>1, <2>1 DEF Held, OnTable
  <2>2. CASE t.pc = "walk" /\ x = t.w.g
    BY <2>2, WalkIsOnTable
  <2>3. CASE x \in Named(t.cmd) /\ t.pc \in {"named", "root", "walk"} /\ (t.pc = "named" => x \notin t.todo)
    <3>1. TakesGranule(t.cmd) /\ x = t.cmd.pa
      BY <1>2, <1>4, <2>3, NamedAddresses
    <3>2. Given(t)
      BY <2>3, <3>1 DEF Given
    <3>3. QED
      BY <3>1, <3>2 DEF LInv, Reserved
  <2>4. QED
    BY <1>1, <2>1, <2>2, <2>3, KeptIsNamed DEF Held
<1>5. CASE s.pc = "named"
  <2>1. s.cmd \in Commands /\ s.todo # {} /\ s.todo \in SUBSET Named(s.cmd) /\ x = NextLock(s.todo)
    BY <1>1, <1>5 DEF Placed, Wanted
  <2>2. x \in 0 .. n /\ Rank(s, n) = x
    <3>1. x \in Named(s.cmd)
      BY <2>1, NextLockIsLowest
    <3>2. QED
      BY <1>5, <2>1, <3>1, NamedAddresses DEF Rank
  <2>3. CASE t.pc = "named"
    <3>1. t.cmd \in Commands /\ t.todo # {} /\ t.todo \in SUBSET Named(t.cmd)
      BY <1>1, <2>3 DEF Placed
    <3>2. NextLock(t.todo) \in t.todo /\ x \in Named(t.cmd) \ t.todo
      BY <2>3, <3>1, NextLockIsLowest DEF Held
    <3>3. QED
      BY <1>1, <2>2, <2>3, <3>2 DEF Ordered, Rank
  <2>4. QED
    BY <1>1, <1>3, <2>2, <2>3 DEF Rank
<1>6. CASE s.pc = "root"
  <2>1. x = RootOf[s.cmd.rd] /\ s.cmd.rd \in Rds
    BY <1>1, <1>6, Arguments DEF Wanted, Placed
  <2>2. x \in View!Rtts /\ x \in Granules
    BY <2>1, Addresses DEF LInv, Meaning, View!Inv, View!RootsAreTables
  <2>3. gstate[x] = "RTT"
    BY <2>2, ViewStates
  <2>4. t.pc \in {"walk", "free"}
    BY <1>4, <2>2, <2>3
  <2>5. QED
    BY <1>3, <1>6, <2>4 DEF Rank
<1>7. CASE s.pc = "walk"
  <2>1. x = Entered(s).pa /\ IsTable(Entered(s))
    BY <1>7 DEF Wanted, GoesDown
  <2>2. /\ x \in Granules /\ gstate[x] = "RTT" /\ lvl[x] = s.w.level + 1 /\ s.w.level \in Levels
    BY <1>7, <2>1, WalkIsOnTable
  <2>3. s.w.level \in 0 .. 3
    BY <2>2 DEF Levels, RTT_PAGE_LEVEL
  <2>4. \/ t.pc = "walk" /\ t.w.level = s.w.level + 1
        \/ t.pc = "free"
    BY <1>4, <2>2
  <2>5. QED
    BY <1>3, <1>7, <2>3, <2>4 DEF Rank
\* A page that is being mapped is locked by a CPU that waits for nothing.
<1>8. CASE s.pc = "free"
  <2>1. x = s.cmd.pa /\ x \in Granules
    BY <1>1, <1>8 DEF Wanted, Placed
  <2>2. gstate[x] = "DATA" \/ x \in Mapped
    BY <1>8, <2>1 DEF LInv, Freeing
  <2>3. gstate[x] # "DATA"
    BY <1>4, <2>1
  <2>4. PICK e \in Cpus : cpu[e].pc = "mapped" /\ x \in Held(cpu[e])
    BY <2>2, <2>3, MappedIsLocked DEF LInv
  <2>5. e = d
    BY <2>1, <2>4, Addresses DEF LInv, LocksOK
  <2>6. QED
    BY <1>1, <2>4, <2>5
<1>9. QED
  BY <1>1, <1>5, <1>6, <1>7, <1>8

\* So there is a last one.
LEMMA OrderedLocksAreFree ==
  ASSUME LInv, WaitInv, NEW n \in Nat, Granules \cup Descriptors \subseteq 0 .. n
  PROVE  NoWaitCycle
<1> SUFFICES ASSUME NEW stuck \in SUBSET Cpus, stuck # {},
                    \A c \in stuck : \E d \in stuck : Wanted(cpu[c]) \cap Held(cpu[d]) # {}
             PROVE  FALSE
  BY DEF NoWaitCycle
<1> DEFINE Left(c) == n + 6 - Rank(cpu[c], n)
           lefts == {Left(c) : c \in stuck}
           less == OpToRel(<, Nat)
<1>1. \A c \in stuck : Wanted(cpu[c]) # {}
  OBVIOUS
<1>2. \A c \in stuck : Rank(cpu[c], n) \in 0 .. n + 6
  BY <1>1, RankIsBounded
<1>3. \A c \in stuck : Left(c) \in Nat
  BY <1>2
<1>4. lefts \subseteq Nat /\ lefts # {}
  BY <1>3
<1>5. \A a, b \in Nat : <<a, b>> \in less <=> a < b
  BY DEF OpToRel
<1> HIDE DEF less, Left
<1>6. PICK m \in lefts : \A a \in lefts : <<a, m>> \notin less
  <2>1. IsWellFoundedOn(less, Nat)
    BY NatLessThanWellFounded DEF less
  <2> HIDE DEF lefts
  <2>2. QED
    BY <1>4, <2>1, WFMin
<1>7. PICK c \in stuck : m = Left(c)
  OBVIOUS
<1>8. PICK d \in stuck : Wanted(cpu[c]) \cap Held(cpu[d]) # {}
  OBVIOUS
<1>9. Rank(cpu[c], n) < Rank(cpu[d], n)
  BY <1>1, <1>8, WaitsUpwards
<1>10. Left(d) < Left(c)
  BY <1>2, <1>9 DEF Left
<1>11. Left(d) \in lefts /\ Left(d) \in Nat /\ Left(c) \in Nat
  BY <1>3
<1>12. QED
  BY <1>5, <1>6, <1>7, <1>10, <1>11

\* On any number of CPUs, with any commands, no CPUs wait for each other's locks: also
\* where a granule that is named turns out to be a table of some realm, and for the data
\* granule that is locked under its table.  Addresses are numbers of some width.
THEOREM NobodyWaitsInACircle ==
  ASSUME NEW n \in Nat, Granules \cup Descriptors \subseteq 0 .. n
  PROVE  LSpec => []NoWaitCycle
<1>1. LInit => WaitInv
  <2> SUFFICES ASSUME LInit PROVE WaitInv
    OBVIOUS
  <2>1. \A c \in Cpus : cpu[c].pc = "idle"
    BY DEF LInit, Idle
  <2>2. QED
    BY <2>1 DEF WaitInv, Ordered, OnTable
<1>2. LInv /\ WaitInv /\ [LNext]_lvars => WaitInv'
  BY StepKeepsWaitInv
<1>3. LInv /\ WaitInv => NoWaitCycle
  BY OrderedLocksAreFree
<1>4. QED
  BY <1>1, <1>2, <1>3, LockingInvariance, PTL DEF LSpec

-----------------------------------------------------------------------------
(* Refinement: Atomic and View speak of RmmRtt with the same variables.    *)

\* Numbers and entries.
LEMMA AtomicNumbers ==
  /\ Atomic!RTT_PAGE_LEVEL = View!RTT_PAGE_LEVEL
  /\ Atomic!Idx = View!Idx /\ Atomic!Levels = View!Levels /\ Atomic!Ipas = View!Ipas
  /\ Atomic!Par = View!Par
  /\ \A l : Atomic!MapSize(l) = View!MapSize(l)
  /\ \A a, l : Atomic!Index(a, l) = View!Index(a, l)
  /\ \A a, l : Atomic!Aligned(a, l) <=> View!Aligned(a, l)
  /\ \A a, l : Atomic!ValidStructureCmd(a, l) <=> View!ValidStructureCmd(a, l)
  /\ \A a, l : Atomic!ValidMapCmd(a, l) <=> View!ValidMapCmd(a, l)
  /\ \A S : Atomic!Cardinality(S) = View!Cardinality(S)
<1>1. /\ Atomic!RTT_PAGE_LEVEL = View!RTT_PAGE_LEVEL
      /\ Atomic!Idx = View!Idx /\ Atomic!Levels = View!Levels /\ Atomic!IpaSize = View!IpaSize
      /\ \A l : Atomic!MapSize(l) = View!MapSize(l)
      /\ \A S : Atomic!Cardinality(S) = View!Cardinality(S)
  BY DEF Atomic!RTT_PAGE_LEVEL, Atomic!RTT_MIN_BLOCK_LEVEL, Atomic!Idx, Atomic!Levels,
         Atomic!IpaSize, Atomic!MapSize, Atomic!Cardinality, View!RTT_PAGE_LEVEL, View!Idx,
         View!Levels, View!IpaSize, View!MapSize, View!Cardinality
<1>2. /\ Atomic!Ipas = View!Ipas /\ Atomic!Par = View!Par
      /\ \A a, l : Atomic!Index(a, l) = View!Index(a, l)
      /\ \A a, l : Atomic!Aligned(a, l) <=> View!Aligned(a, l)
  BY <1>1 DEF Atomic!Ipas, Atomic!Par, Atomic!Index, Atomic!Aligned,
              View!Ipas, View!Par, View!Index, View!Aligned
<1>3. /\ \A a, l : Atomic!ValidStructureCmd(a, l) <=> View!ValidStructureCmd(a, l)
      /\ \A a, l : Atomic!ValidMapCmd(a, l) <=> View!ValidMapCmd(a, l)
  BY <1>1, <1>2 DEF Atomic!ValidStructureCmd, Atomic!ValidMapCmd, Atomic!ValidMapAddr,
     Atomic!RTT_MIN_BLOCK_LEVEL, View!ValidStructureCmd, View!ValidMapCmd, View!ValidMapAddr
<1>4. QED
  BY <1>1, <1>2, <1>3

\* Entries and walks.
LEMMA AtomicEntries ==
  /\ \A e : /\ Atomic!IsTable(e) <=> View!IsTable(e)
            /\ Atomic!HoldsData(e) <=> View!HoldsData(e)
            /\ Atomic!IsUnassigned(e) <=> View!IsUnassigned(e)
            /\ Atomic!IsAssignedRam(e) <=> View!IsAssignedRam(e)
            /\ Atomic!IsValid(e) <=> View!IsValid(e)
            /\ Atomic!HasOutput(e) <=> View!HasOutput(e)
  /\ \A h, r, p : Atomic!MkEntry(h, r, p) = View!MkEntry(h, r, p)
  /\ \A r : Atomic!Unassigned(r) = View!Unassigned(r)
  /\ Atomic!UnassignedNs = View!UnassignedNs /\ Atomic!ZeroTable = View!ZeroTable
  /\ \A w, a : Atomic!EntryAt(w, a) = View!EntryAt(w, a)
  /\ \A rd, a, t : Atomic!Walk(rd, a, t) = View!Walk(rd, a, t)
  /\ \A rd, a : Atomic!Leaf(rd, a) = View!Leaf(rd, a)
  /\ \A rd, as : Atomic!InvalidateAt(rd, as) = View!InvalidateAt(rd, as)
  /\ \A rd, a, l : Atomic!InvalidateRange(rd, a, l) = View!InvalidateRange(rd, a, l)
<1>1. /\ \A e : /\ Atomic!IsTable(e) <=> View!IsTable(e)
                /\ Atomic!HoldsData(e) <=> View!HoldsData(e)
                /\ Atomic!IsUnassigned(e) <=> View!IsUnassigned(e)
                /\ Atomic!IsAssignedRam(e) <=> View!IsAssignedRam(e)
                /\ Atomic!IsValid(e) <=> View!IsValid(e)
                /\ Atomic!HasOutput(e) <=> View!HasOutput(e)
      /\ \A h, r, p : Atomic!MkEntry(h, r, p) = View!MkEntry(h, r, p)
  BY DEF Atomic!IsTable, Atomic!HoldsData, Atomic!IsUnassigned, Atomic!IsAssignedRam,
         Atomic!IsValid, Atomic!HasOutput, Atomic!MkEntry, View!IsTable, View!HoldsData,
         View!IsUnassigned, View!IsAssignedRam, View!IsValid, View!HasOutput, View!MkEntry
<1>2. \A r : Atomic!Unassigned(r) = View!Unassigned(r)
  BY <1>1 DEF Atomic!Unassigned, View!Unassigned
<1>3. Atomic!UnassignedNs = View!UnassignedNs /\ Atomic!ZeroTable = View!ZeroTable
  BY <1>1, <1>2, AtomicNumbers
  DEF Atomic!UnassignedNs, Atomic!ZeroTable, View!UnassignedNs, View!ZeroTable
<1>4. \A w, a : Atomic!EntryAt(w, a) = View!EntryAt(w, a)
  BY AtomicNumbers DEF Atomic!EntryAt, View!EntryAt
<1>5. \A rd, a, t : Atomic!Walk(rd, a, t) = View!Walk(rd, a, t)
  <2>1. \A w, a, t : Atomic!WalkStep(w, a, t) = View!WalkStep(w, a, t)
    BY <1>1, <1>4 DEF Atomic!WalkStep, View!WalkStep
  <2>2. QED
    BY <2>1 DEF Atomic!Walk, View!Walk
<1>6. \A rd, a : Atomic!Leaf(rd, a) = View!Leaf(rd, a)
  BY <1>4, <1>5, AtomicNumbers DEF Atomic!Leaf, View!Leaf
<1>7. \A rd, as : Atomic!InvalidateAt(rd, as) = View!InvalidateAt(rd, as)
  BY AtomicNumbers DEF Atomic!InvalidateAt, Atomic!Covers, View!InvalidateAt, View!Covers
<1>8. \A rd, a, l : Atomic!InvalidateRange(rd, a, l) = View!InvalidateRange(rd, a, l)
  BY AtomicNumbers DEF Atomic!InvalidateRange, View!InvalidateRange
<1>9. QED
  BY <1>1, <1>2, <1>3, <1>4, <1>5, <1>6, <1>7, <1>8

\* The commands that change the tables.
LEMMA AtomicRttCommand ==
  ASSUME NEW rd, View!RttCommand(rd)
  PROVE  Atomic!RttCommand(rd)
<1>1. ASSUME NEW g, NEW a, NEW l, View!RttCreate(rd, g, a, l)
      PROVE  Atomic!RttCreate(rd, g, a, l)
  <2> DEFINE w == View!Walk(rd, a, l - 1)
  <2>1. View!RttCreateAt(w, rd, g, a, l)
    BY <1>1 DEF View!RttCreate
  <2>2. Atomic!Walk(rd, a, l - 1) = w
    BY AtomicEntries
  <2> HIDE DEF w
  <2>3. Atomic!RttCreateAt(w, rd, g, a, l)
    BY <2>1, AtomicNumbers, AtomicEntries
    DEF Atomic!RttCreateAt, Atomic!UnfoldEntry, Atomic!TableEntry, Atomic!RefcountAfterCreate,
        View!RttCreateAt, View!UnfoldEntry, View!TableEntry, View!RefcountAfterCreate
  <2>4. QED
    BY <1>1, <2>2, <2>3, AtomicNumbers DEF Atomic!RttCreate, View!RttCreate
<1>2. ASSUME NEW a, NEW l, View!RttFold(rd, a, l)
      PROVE  Atomic!RttFold(rd, a, l)
  <2> DEFINE w == View!Walk(rd, a, l - 1)
  <2>1. View!RttFoldAt(w, rd, a, l)
    BY <1>2 DEF View!RttFold
  <2>2. Atomic!Walk(rd, a, l - 1) = w
    BY AtomicEntries
  <2> HIDE DEF w
  <2>3. \A tbl : Atomic!FoldedEntry(tbl) = View!FoldedEntry(tbl)
    BY AtomicEntries DEF Atomic!FoldedEntry, View!FoldedEntry
  <2>4. \A tbl, rc, k : Atomic!Foldable(tbl, rc, k) <=> View!Foldable(tbl, rc, k)
    BY AtomicNumbers, AtomicEntries
    DEF Atomic!Foldable, Atomic!Homogeneous, Atomic!MapsBlock, Atomic!RTT_MIN_BLOCK_LEVEL,
        View!Foldable, View!Homogeneous, View!MapsBlock
  <2>5. Atomic!RttFoldAt(w, rd, a, l)
    BY <2>1, <2>3, <2>4, AtomicNumbers, AtomicEntries
    DEF Atomic!RttFoldAt, View!RttFoldAt
  <2>6. QED
    BY <1>2, <2>2, <2>5, AtomicNumbers DEF Atomic!RttFold, View!RttFold
<1>3. ASSUME NEW a, NEW l, View!RttDestroy(rd, a, l)
      PROVE  Atomic!RttDestroy(rd, a, l)
  <2> DEFINE w == View!Walk(rd, a, l - 1)
  <2>1. View!RttDestroyAt(w, rd, a, l)
    BY <1>3 DEF View!RttDestroy
  <2>2. Atomic!Walk(rd, a, l - 1) = w
    BY AtomicEntries
  <2> HIDE DEF w
  <2>3. Atomic!RttDestroyAt(w, rd, a, l)
    BY <2>1, AtomicNumbers, AtomicEntries
    DEF Atomic!RttDestroyAt, Atomic!Destroyable, Atomic!DestroyFlush,
        View!RttDestroyAt, View!Destroyable, View!DestroyFlush
  <2>4. QED
    BY <1>3, <2>2, <2>3, AtomicNumbers DEF Atomic!RttDestroy, View!RttDestroy
<1>4. \A a, l, p : View!RttMapUnprotected(rd, a, l, p) => Atomic!RttMapUnprotected(rd, a, l, p)
  BY ZenonT(60), AtomicNumbers, AtomicEntries
  DEF Atomic!RttMapUnprotected, Atomic!RttMapUnprotectedAt, Atomic!AssignedNs,
      View!RttMapUnprotected, View!RttMapUnprotectedAt, View!AssignedNs
<1>5. \A a, l : View!RttUnmapUnprotected(rd, a, l) => Atomic!RttUnmapUnprotected(rd, a, l)
  BY AtomicNumbers, AtomicEntries
  DEF Atomic!RttUnmapUnprotected, Atomic!RttUnmapUnprotectedAt,
      View!RttUnmapUnprotected, View!RttUnmapUnprotectedAt
<1>6. QED
  BY <1>1, <1>2, <1>3, <1>4, <1>5, AtomicNumbers DEF Atomic!RttCommand, View!RttCommand

\* The data commands.
LEMMA AtomicDataCommand ==
  ASSUME NEW rd, View!DataCommand(rd)
  PROVE  Atomic!DataCommand(rd)
<1>1. \A w, g, a, r : View!MapData(w, g, a, r) => Atomic!MapData(w, g, a, r)
  BY AtomicNumbers, AtomicEntries
  DEF Atomic!MapData, Atomic!Assigned, View!MapData, View!Assigned
<1>2. \A g : /\ View!DataGranule(g) <=> Atomic!DataGranule(g)
             /\ View!BecomesData(g) <=> Atomic!BecomesData(g)
             /\ View!FreeData(g) <=> Atomic!FreeData(g)
  BY DEF Atomic!DataGranule, Atomic!BecomesData, Atomic!FreeData, Atomic!Wipe,
         View!DataGranule, View!BecomesData, View!FreeData, View!Wipe
<1>3. \A g, a : View!DataCreate(rd, g, a) => Atomic!DataCreate(rd, g, a)
  BY <1>1, <1>2, AtomicNumbers, AtomicEntries
  DEF Atomic!DataCreate, Atomic!DataCreateAt, View!DataCreate, View!DataCreateAt
<1>4. \A g, a : View!DataCreateFault(rd, g, a) => Atomic!DataCreateFault(rd, g, a)
  BY <1>2, AtomicNumbers, AtomicEntries
  DEF Atomic!DataCreateFault, Atomic!Wipe, View!DataCreateFault, View!Wipe
<1>5. \A g, a : View!DataCreateUnknown(rd, g, a) => Atomic!DataCreateUnknown(rd, g, a)
  BY <1>1, <1>2, AtomicNumbers, AtomicEntries
  DEF Atomic!DataCreateUnknown, Atomic!DataCreateUnknownAt, View!DataCreateUnknown,
      View!DataCreateUnknownAt
<1>6. \A a : View!DataDestroy(rd, a) => Atomic!DataDestroy(rd, a)
  <2>1. \A w, a : View!UnmapData(w, rd, a) => Atomic!UnmapData(w, rd, a)
    BY AtomicNumbers, AtomicEntries
    DEF Atomic!UnmapData, Atomic!RipasAfterDestroy, View!UnmapData, View!RipasAfterDestroy
  <2>2. QED
    BY <1>2, <2>1, AtomicNumbers, AtomicEntries DEF Atomic!DataDestroy, View!DataDestroy
<1>7. \A a : /\ View!IpaBlock(rd, a) => Atomic!IpaBlock(rd, a)
             /\ View!IpaUnblock(rd, a) => Atomic!IpaUnblock(rd, a)
  <2>1. \A w, a, b : View!SetBlockedAt(w, rd, a, b) => Atomic!SetBlockedAt(w, rd, a, b)
    BY AtomicNumbers, AtomicEntries DEF Atomic!SetBlockedAt, View!SetBlockedAt
  <2>2. QED
    BY <2>1, AtomicNumbers, AtomicEntries
    DEF Atomic!IpaBlock, Atomic!IpaUnblock, Atomic!SetBlocked,
        View!IpaBlock, View!IpaUnblock, View!SetBlocked
<1>8. QED
  BY <1>3, <1>4, <1>5, <1>6, <1>7, AtomicNumbers DEF Atomic!DataCommand, View!DataCommand

\* The RIPAS commands.
LEMMA AtomicRipasCommand ==
  ASSUME NEW rd, View!RipasCommand(rd)
  PROVE  Atomic!RipasCommand(rd)
<1>1. ASSUME NEW w, NEW base, NEW top, View!RttInitRipasAt(w, rd, base, top)
      PROVE  Atomic!RttInitRipasAt(w, rd, base, top)
  BY ZenonT(60), <1>1, AtomicNumbers, AtomicEntries
  DEF Atomic!RttInitRipasAt, Atomic!Run, Atomic!PagesOf,
      View!RttInitRipasAt, View!Run, View!PagesOf
<1>2. ASSUME NEW w, NEW top, View!RttSetRipasAt(w, rd, top)
      PROVE  Atomic!RttSetRipasAt(w, rd, top)
  <2> DEFINE req == setRipas[rd]
             SeenCanUpdate(e) == View!CanUpdateRipas(e, req.change)
             seenKs == View!Run(w, req.addr, top, SeenCanUpdate)
             CanUpdate(e) == Atomic!CanUpdateRipas(e, req.change)
             ks == Atomic!Run(w, req.addr, top, CanUpdate)
  <2>1. \A e, ch : Atomic!CanUpdateRipas(e, ch) <=> View!CanUpdateRipas(e, ch)
    BY DEF Atomic!CanUpdateRipas, Atomic!HasRipas, View!CanUpdateRipas, View!HasRipas
  <2>2. ks = seenKs
    BY <2>1, AtomicNumbers DEF Atomic!Run, View!Run
  <2>3. \A e, r : Atomic!UpdateRipas(e, r) = View!UpdateRipas(e, r)
    BY AtomicEntries DEF Atomic!UpdateRipas, View!UpdateRipas
  <2>4. \A e, r : Atomic!NeedsTlbi(e, r) <=> View!NeedsTlbi(e, r)
    BY AtomicEntries DEF Atomic!NeedsTlbi, View!NeedsTlbi
  <2> HIDE DEF ks, seenKs
  <2>5. /\ View!Aligned(req.addr, w.level)
        /\ seenKs # {}
        /\ s2tt' = [s2tt EXCEPT ![w.g] =
                     [k \in View!Idx |-> IF k \in seenKs THEN View!UpdateRipas(@[k], req.ripas) ELSE @[k]]]
        /\ tlb' = View!InvalidateAt(rd, {req.addr + (k - View!Index(req.addr, w.level)) * View!MapSize(w.level) :
                         k \in {j \in seenKs : View!NeedsTlbi(s2tt[w.g][j], req.ripas)}})
        /\ setRipas' = [setRipas EXCEPT ![rd].addr =
                         req.addr + View!Cardinality(seenKs) * View!MapSize(w.level)]
        /\ UNCHANGED <<GstateView, refcount, SecretView, rdState, measured, lvl>>
    BY <1>2 DEF View!RttSetRipasAt, seenKs
  <2>6. /\ Atomic!Aligned(req.addr, w.level)
        /\ ks # {}
        /\ s2tt' = [s2tt EXCEPT ![w.g] =
                     [k \in Atomic!Idx |-> IF k \in ks THEN Atomic!UpdateRipas(@[k], req.ripas) ELSE @[k]]]
        /\ tlb' = Atomic!InvalidateAt(rd, {req.addr + (k - Atomic!Index(req.addr, w.level)) * Atomic!MapSize(w.level) :
                         k \in {j \in ks : Atomic!NeedsTlbi(s2tt[w.g][j], req.ripas)}})
        /\ setRipas' = [setRipas EXCEPT ![rd].addr =
                         req.addr + Atomic!Cardinality(ks) * Atomic!MapSize(w.level)]
        /\ UNCHANGED <<GstateView, refcount, SecretView, rdState, measured, lvl>>
    BY <2>2, <2>3, <2>4, <2>5, AtomicNumbers, AtomicEntries
  <2>7. QED
    BY <2>6 DEF Atomic!RttSetRipasAt, ks
<1>3. \A base, top : View!RttInitRipas(rd, base, top) => Atomic!RttInitRipas(rd, base, top)
  BY <1>1, AtomicNumbers, AtomicEntries DEF Atomic!RttInitRipas, View!RttInitRipas
<1>4. \A top : View!RttSetRipas(rd, top) => Atomic!RttSetRipas(rd, top)
  BY <1>2, AtomicNumbers, AtomicEntries DEF Atomic!RttSetRipas, View!RttSetRipas
<1>5. QED
  BY <1>3, <1>4, AtomicNumbers DEF Atomic!RipasCommand, View!RipasCommand

\* The realm, its REC and its accesses.
LEMMA AtomicRealmStep ==
  ASSUME NEW rd, View!RealmStep(rd)
  PROVE  Atomic!RealmStep(rd)
<1>1. View!RealmActivate(rd) => Atomic!RealmActivate(rd)
  BY DEF Atomic!RealmActivate, View!RealmActivate
<1>2. ASSUME NEW a, View!RealmAccess(rd, a)
      PROVE  Atomic!RealmAccess(rd, a)
  <2> DEFINE w == View!Walk(rd, a, View!RTT_PAGE_LEVEL)
             e == View!Leaf(rd, a)
  <2>1. w = Atomic!Walk(rd, a, Atomic!RTT_PAGE_LEVEL) /\ e = Atomic!Leaf(rd, a)
    BY AtomicNumbers, AtomicEntries
  <2> HIDE DEF w, e
  <2>2. QED
    BY <1>2, <2>1, AtomicNumbers, AtomicEntries DEF Atomic!RealmAccess, View!RealmAccess, w, e
<1>3. \A r : View!RsiIpaStateSet(rd, r) => Atomic!RsiIpaStateSet(rd, r)
  BY AtomicNumbers
  DEF Atomic!RsiIpaStateSet, Atomic!NoRequest, View!RsiIpaStateSet, View!NoRequest
<1>4. View!RecEnter(rd) => Atomic!RecEnter(rd)
  BY DEF Atomic!RecEnter, Atomic!NoRequest, View!RecEnter, View!NoRequest
<1>5. QED
  BY <1>1, <1>2, <1>3, <1>4, AtomicNumbers DEF Atomic!RealmStep, View!RealmStep

\* Every step.
LEMMA AtomicNext == View!Next => Atomic!Next
<1>1. \A g : /\ View!GranuleDelegate(g) => Atomic!GranuleDelegate(g)
             /\ View!GranuleUndelegate(g) => Atomic!GranuleUndelegate(g)
  BY DEF Atomic!GranuleDelegate, Atomic!GranuleUndelegate, View!GranuleDelegate,
         View!GranuleUndelegate
<1>2. QED
  BY <1>1, AtomicRttCommand, AtomicDataCommand, AtomicRipasCommand, AtomicRealmStep
  DEF Atomic!Next, View!Next

\* The beginning.
LEMMA AtomicInit == View!Init => Atomic!Init
BY AtomicNumbers, AtomicEntries
DEF Atomic!Init, Atomic!Roots, Atomic!RootTable, Atomic!NoRequest,
    View!Init, View!Roots, View!RootTable, View!NoRequest

\* On any number of CPUs, with any commands but the two that unlock the realm
\* descriptor twice, the commands do what the same commands of RmmRtt do one at a time,
\* each in one step: the hand-over-hand locks of the tables, with the descriptor, the
\* granule or the REC kept where it is still needed, make every command atomic.
THEOREM CommandsTakeEffectAtOnce ==
  ASSUME NoneUnlocksTwice
  PROVE  LSpec => ImplementsAtomicCommands
<1>1. LInit => Atomic!Init
  BY InitLInv, AtomicInit
<1>2. LInv /\ [LNext]_lvars => [Atomic!Next]_(Atomic!vars)
  <2>1. View!vars = Atomic!vars
    BY DEF View!vars, Atomic!vars
  <2>2. UNCHANGED View!vars => UNCHANGED Atomic!vars
    BY DEF View!vars, Atomic!vars
  <2>3. QED
    BY <2>2, StepKeepsLInv, AtomicNext
<1>3. QED
  BY <1>1, <1>2, LockingInvariance, PTL DEF LSpec, ImplementsAtomicCommands, Atomic!Spec
=============================================================================
