----------------------------- MODULE RttLocking -----------------------------
(***************************************************************************)
(* The RTT commands of rtt.c on several CPUs, lock by lock.                *)
(*                                                                         *)
(* A command locks the granules its caller names, in address order; then   *)
(* the root table; then it walks down, locking a child before it unlocks   *)
(* its parent; and it works on the table at the end of the walk, where it  *)
(* may need one more lock.  Most commands give up the realm descriptor's   *)
(* lock as soon as they hold the root.  What they do to the state is the   *)
(* ...At part of the command in RmmRtt.tla.                                *)
(*                                                                         *)
(* The steps between two waits for a lock are merged when they only touch  *)
(* what the CPU has locked.  Command arguments are valid (ValidArguments); *)
(* a command that fails the argument checks returns without a change.      *)
(***************************************************************************)
EXTENDS RmmRtt

CONSTANTS
    Cpus,
    RdAddr,    \* RdAddr[rd]: the granule of rd's realm descriptor
    RecAddr,   \* RecAddr[rd]: the granule of its REC
    Commands   \* bound: the commands the host issues

Descriptors == {RdAddr[rd] : rd \in Rds} \cup {RecAddr[rd] : rd \in Rds}

Operations == {"rtt_create", "rtt_fold", "rtt_destroy", "map_unprotected",
               "unmap_unprotected", "data_create", "data_create_unknown",
               "data_destroy", "init_ripas", "set_ripas", "ipa_block", "ipa_unblock"}

\* pa is the granule or the host memory a command names, addr the IPA it is for
\* or the start of its range, top the end of the range.
CommandType ==
    [op : Operations, rd : Rds, pa : Nat, addr : Ipas, level : Levels, top : Nat]

\* The argument checks every handler begins with.
ValidArguments(cmd) ==
    CASE cmd.op = "rtt_create" -> cmd.pa \in Granules /\ ValidStructureCmd(cmd.addr, cmd.level)
      [] cmd.op \in {"rtt_fold", "rtt_destroy"} -> ValidStructureCmd(cmd.addr, cmd.level)
      [] cmd.op \in {"map_unprotected", "unmap_unprotected"} ->
           /\ ValidMapCmd(cmd.addr, cmd.level) /\ cmd.addr \notin Par
           /\ cmd.op = "map_unprotected" => cmd.pa \in HostPas /\ Aligned(cmd.pa, cmd.level)
      [] cmd.op \in {"data_create", "data_create_unknown"} ->
           cmd.pa \in Granules /\ cmd.addr \in Par
      [] cmd.op = "data_destroy" -> cmd.addr \in Par
      [] cmd.op = "init_ripas" -> cmd.addr < cmd.top /\ cmd.addr \in Par /\ cmd.top - 1 \in Par
      [] cmd.op = "set_ripas" -> cmd.addr < cmd.top /\ cmd.top - 1 \in Ipas
      [] OTHER -> TRUE

ASSUME LockingAssumption ==
    /\ RdAddr \in [Rds -> Nat \ Granules]
    /\ RecAddr \in [Rds -> Nat \ Granules]
    /\ \A r1, r2 \in Rds :
         /\ RdAddr[r1] # RecAddr[r2]
         /\ r1 # r2 => RdAddr[r1] # RdAddr[r2] /\ RecAddr[r1] # RecAddr[r2]
    /\ Commands \subseteq {cmd \in CommandType : ValidArguments(cmd)}

VARIABLES
    locked,   \* the granules whose spinlock is taken
    cpu       \* CPU -> where its command has got to

lvars == <<vars, locked, cpu>>

NoCommand == [op |-> "none"]
NoWalk == [g |-> 0, level |-> 0]
Idle == [pc |-> "idle", cmd |-> NoCommand, todo |-> {}, w |-> NoWalk]

-----------------------------------------------------------------------------
(* What each command locks, and for how long.                              *)

TakesGranule(cmd) == cmd.op \in {"rtt_create", "data_create", "data_create_unknown"}

\* The granules find_lock_granule and find_lock_two_granules are called with.
Named(cmd) ==
    {RdAddr[cmd.rd]} \cup (IF TakesGranule(cmd) THEN {cmd.pa} ELSE {})
                     \cup (IF cmd.op = "set_ripas" THEN {RecAddr[cmd.rd]} ELSE {})

\* find_lock_two_granules takes the lower address first.
NextLock(todo) == CHOOSE x \in todo : \A y \in todo : x <= y

\* Mutant: data_create gives up the realm descriptor like the others.
KeepsRd_NotDataCreate(cmd) == cmd.op \in {"init_ripas", "set_ripas"}

\* The commands that go on reading or writing the realm descriptor or the REC.
KeepsRd(cmd) ==
    cmd.op \in {"data_create", "data_create_unknown", "init_ripas", "set_ripas"}

\* Mutant: smc_rtt_create returns without unlocking g_tbl.
KeptNamed_OnlyIfRd(cmd) == IF KeepsRd(cmd) THEN Named(cmd) ELSE {}

\* What stays locked during the walk, to be unlocked at the end.
KeptNamed(cmd) == IF KeepsRd(cmd) THEN Named(cmd) ELSE Named(cmd) \ {RdAddr[cmd.rd]}

\* The level the walk is for.
WalkLevel(cmd) ==
    CASE cmd.op \in {"rtt_create", "rtt_fold", "rtt_destroy"} -> cmd.level - 1
      [] cmd.op \in {"map_unprotected", "unmap_unprotected"} -> cmd.level
      [] OTHER -> RTT_PAGE_LEVEL

\* Mutant: RTT_FOLD and RTT_DESTROY use the child table without locking it.
LocksChild_Never(cmd) == FALSE

LocksChild(cmd) == cmd.op \in {"rtt_fold", "rtt_destroy"}

\* Mutant: data_create drops all its locks before the granule's new state is set.
StillLocked_Nothing(cmd) == {}

\* What data_create still has locked once the new entry is visible.
StillLocked(cmd) == {cmd.pa}

Entered(s) == EntryAt(s.w, s.cmd.addr)
GoesDown(s) == s.w.level < WalkLevel(s.cmd) /\ IsTable(Entered(s))

\* The locks a CPU in state s has taken and not given up ...
Held(s) ==
    CASE s.pc = "named"  -> Named(s.cmd) \ s.todo
      [] s.pc = "root"   -> Named(s.cmd)
      [] s.pc = "walk"   -> {s.w.g} \cup KeptNamed(s.cmd)
      [] s.pc = "mapped" -> StillLocked(s.cmd)
      [] s.pc = "free"   -> {s.w.g}
      [] OTHER           -> {}

\* ... and the one it spins on now, if any.
Wanted(s) ==
    CASE s.pc = "named" -> {NextLock(s.todo)}
      [] s.pc = "root"  -> {RootOf[s.cmd.rd]}
      [] s.pc = "walk" /\ GoesDown(s) -> {Entered(s).pa}
      [] s.pc = "walk" /\ ~GoesDown(s) /\ LocksChild(s.cmd)
           -> IF s.w.level = WalkLevel(s.cmd) /\ IsTable(Entered(s))
              THEN {Entered(s).pa} ELSE {}
      [] s.pc = "free" -> {s.cmd.pa}
      [] OTHER -> {}

-----------------------------------------------------------------------------
(* The steps of a command.                                                 *)

\* CPU c gets the lock it waits for, gives up others and moves on.
Move(c, drop, next) ==
    /\ Wanted(cpu[c]) \cap locked = {}
    /\ locked' = (locked \cup Wanted(cpu[c])) \ drop
    /\ cpu' = [cpu EXCEPT ![c] = next]

\* Everything taken, the lock just got included.
All(s) == Held(s) \cup Wanted(s)

Start(c) ==
    /\ cpu[c].pc = "idle"
    /\ \E cmd \in Commands :
         Move(c, {}, [Idle EXCEPT !.pc = "named", !.cmd = cmd, !.todo = Named(cmd)])
    /\ UNCHANGED vars

\* Mutant: a granule that is in use as data passes.
Usable_Data(g) == gstate[g] \in {"DELEGATED", "DATA"}

\* The state find_lock_two_granules expects of the granule a command is given.
Usable(g) == gstate[g] = "DELEGATED"

\* What is checked under the locks: the state of the realm, the request of the REC.
Permitted(cmd) ==
    CASE cmd.op \in {"data_create", "init_ripas"} -> rdState[cmd.rd] = "NEW"
      [] cmd.op = "set_ripas" -> /\ cmd.addr = setRipas[cmd.rd].addr
                                 /\ cmd.top <= setRipas[cmd.rd].top
      [] OTHER -> TRUE

LockNamed(c) ==
    LET s == cpu[c]
        rest == s.todo \ Wanted(s)
        ok == /\ \A x \in Wanted(s) \ Descriptors : Usable(x)
              /\ rest = {} => Permitted(s.cmd)
    IN /\ s.pc = "named"
       /\ \/ ok /\ rest # {} /\ Move(c, {}, [s EXCEPT !.todo = rest])
          \/ ok /\ rest = {} /\ Move(c, {}, [s EXCEPT !.todo = {}, !.pc = "root"])
          \/ ~ok /\ Move(c, All(s), Idle)
       /\ UNCHANGED vars

LockRoot(c) ==
    LET s == cpu[c] IN
    /\ s.pc = "root"
    /\ Move(c, IF KeepsRd(s.cmd) THEN {} ELSE {RdAddr[s.cmd.rd]},
               [s EXCEPT !.pc = "walk", !.w = [g |-> RootOf[s.cmd.rd], level |-> StartLevel]])
    /\ UNCHANGED vars

WalkDown(c) ==
    LET s == cpu[c] IN
    /\ s.pc = "walk"
    /\ GoesDown(s)
    /\ Move(c, {s.w.g}, [s EXCEPT !.w = WalkStep(@, s.cmd.addr, WalkLevel(s.cmd))])
    /\ UNCHANGED vars

\* What the command does at the end of the walk, when it does it all at once.
Effect(cmd, w) ==
    \/ cmd.op = "rtt_create" /\ RttCreateAt(w, cmd.rd, cmd.pa, cmd.addr, cmd.level)
    \/ cmd.op = "rtt_fold" /\ RttFoldAt(w, cmd.rd, cmd.addr, cmd.level)
    \/ cmd.op = "rtt_destroy" /\ RttDestroyAt(w, cmd.rd, cmd.addr, cmd.level)
    \/ /\ cmd.op = "map_unprotected"
       /\ RttMapUnprotectedAt(w, cmd.rd, cmd.addr, cmd.level, cmd.pa)
    \/ /\ cmd.op = "unmap_unprotected"
       /\ RttUnmapUnprotectedAt(w, cmd.rd, cmd.addr, cmd.level)
    \/ cmd.op = "init_ripas" /\ RttInitRipasAt(w, cmd.rd, cmd.addr, cmd.top)
    \/ cmd.op = "set_ripas" /\ RttSetRipasAt(w, cmd.rd, cmd.top)
    \/ cmd.op = "ipa_block" /\ SetBlockedAt(w, cmd.rd, cmd.addr, TRUE)
    \/ cmd.op = "ipa_unblock" /\ SetBlockedAt(w, cmd.rd, cmd.addr, FALSE)

\* What the data commands do while they hold the table: the granule comes later.
MapEffect(cmd, w) ==
    /\ \/ cmd.op = "data_create" /\ DataCreateAt(w, cmd.rd, cmd.pa, cmd.addr)
       \/ cmd.op = "data_create_unknown" /\ DataCreateUnknownAt(w, cmd.rd, cmd.pa, cmd.addr)
    /\ UNCHANGED gstate

UnmapEffect(cmd, w) ==
    /\ cmd.op = "data_destroy"
    /\ UnmapData(w, cmd.rd, cmd.addr)
    /\ UNCHANGED <<gstate, secret>>

\* The tables refuse the command, or the copy in data_create faults and is wiped.
Fails(cmd, w) ==
    \/ cmd.op = "data_create"
    \/ ~ENABLED (Effect(cmd, w) \/ MapEffect(cmd, w) \/ UnmapEffect(cmd, w))

\* Mutant: every command unlocks the realm descriptor a second time.
Returns_UnlockTwice(s) == [Idle EXCEPT !.pc = "unlock_rd", !.cmd = s.cmd]

\* smc_ipa_block and smc_ipa_unblock unlock the realm descriptor a second time.
UnlocksTwice(cmd) == cmd.op \in {"ipa_block", "ipa_unblock"}

Returns(s) ==
    IF UnlocksTwice(s.cmd)
    THEN [Idle EXCEPT !.pc = "unlock_rd", !.cmd = s.cmd] ELSE Idle

Finish(c) ==
    LET s == cpu[c] IN
    /\ s.pc = "walk"
    /\ ~GoesDown(s)
    /\ \/ Effect(s.cmd, s.w) /\ Move(c, All(s), Returns(s))
       \/ Fails(s.cmd, s.w) /\ Move(c, All(s), Returns(s)) /\ UNCHANGED vars
       \/ /\ MapEffect(s.cmd, s.w)
          /\ Move(c, All(s) \ StillLocked(s.cmd), [Idle EXCEPT !.pc = "mapped", !.cmd = s.cmd])
       \/ /\ UnmapEffect(s.cmd, s.w)
          /\ Move(c, {}, [s EXCEPT !.pc = "free", !.cmd.pa = Entered(s).pa])

\* granule_unlock_transition(g_data, GRANULE_STATE_DATA).
BecomeData(c) ==
    LET s == cpu[c] IN
    /\ s.pc = "mapped"
    /\ BecomesData(s.cmd.pa)
    /\ Move(c, All(s), Idle)
    /\ UNCHANGED <<refcount, s2tt, secret, rdState, measured, setRipas, tlb, lvl>>

\* find_lock_granule(data_addr, GRANULE_STATE_DATA), then wiped and given back.
FreeGranule(c) ==
    LET s == cpu[c] IN
    /\ s.pc = "free"
    /\ FreeData(s.cmd.pa)
    /\ Move(c, All(s), Idle)
    /\ UNCHANGED <<refcount, s2tt, rdState, measured, setRipas, tlb, lvl>>

\* granule_unlock clears the lock, whoever has it.
UnlockRdAgain(c) ==
    /\ cpu[c].pc = "unlock_rd"
    /\ Move(c, {RdAddr[cpu[c].cmd.rd]}, Idle)
    /\ UNCHANGED vars

-----------------------------------------------------------------------------
(* Handlers outside rtt.c take the lock of what they change for all of     *)
(* their work.                                                             *)

UnderLock(x) == x \notin locked /\ UNCHANGED <<locked, cpu>>

Elsewhere ==
    \/ \E g \in Granules : UnderLock(g) /\ (GranuleDelegate(g) \/ GranuleUndelegate(g))
    \/ \E rd \in Rds : UnderLock(RdAddr[rd]) /\ RealmActivate(rd)
    \/ \E rd \in Rds : /\ UnderLock(RecAddr[rd])
                       /\ \/ \E req \in RipasRequests : RsiIpaStateSet(rd, req)
                          \/ RecEnter(rd)

LInit == Init /\ locked = {} /\ cpu = [c \in Cpus |-> Idle]

Advance(c) ==
    \/ LockNamed(c)
    \/ LockRoot(c)
    \/ WalkDown(c)
    \/ Finish(c)
    \/ BecomeData(c)
    \/ FreeGranule(c)
    \/ UnlockRdAgain(c)

LNext == Elsewhere \/ \E c \in Cpus : Start(c) \/ Advance(c)

LSpec == LInit /\ [][LNext]_lvars

\* The CPUs keep running, and a spinlock that is free is taken by one of those
\* that spin on it: not necessarily by all of them in turn.
FairLSpec == LSpec /\ WF_lvars(\E c \in Cpus : Advance(c))

-----------------------------------------------------------------------------
(* Properties.                                                             *)

\* The types of the locks and of the places a handler can be in.
LTypeOK ==
    /\ locked \subseteq Granules \cup Descriptors
    /\ \A c \in Cpus :
         /\ cpu[c].pc \in {"idle", "named", "root", "walk", "mapped", "free", "unlock_rd"}
         /\ cpu[c].pc # "idle" => cpu[c].cmd \in CommandType
         /\ cpu[c].pc \in {"walk", "free"} => cpu[c].w \in [g : Granules, level : Levels]

\* The granules whose lock nobody gives up twice.
SoundLocks == (Granules \cup Descriptors) \ {RdAddr[cmd.rd] : cmd \in {x \in Commands : UnlocksTwice(x)}}

\* A spinlock is taken exactly while one CPU holds the granule: no path through a
\* handler, error returns included, forgets a lock or gives up one it does not
\* hold, and no two CPUs work on one granule.
LockedByOne ==
    /\ LTypeOK
    /\ locked \cap SoundLocks = (UNION {Held(cpu[c]) : c \in Cpus}) \cap SoundLocks
    /\ \A c, d \in Cpus : c # d => Held(cpu[c]) \cap Held(cpu[d]) \cap SoundLocks = {}

\* A page is mapped from the moment its entry is written, and unmapped from the
\* moment it is cleared, though the granule's own state follows later.
Mapped == {cpu[c].cmd.pa : c \in {d \in Cpus : cpu[d].pc = "mapped"}}
Unmapped == {cpu[c].cmd.pa : c \in {d \in Cpus : cpu[d].pc = "free"}}

GstateView ==
    [g \in Granules |-> IF g \in Unmapped THEN "DELEGATED"
                        ELSE IF g \in Mapped THEN "DATA" ELSE gstate[g]]
SecretView == secret \ Unmapped

Atomic == INSTANCE RmmRtt WITH gstate <- GstateView, secret <- SecretView

\* Commands on several CPUs do what the same commands do one at a time: the
\* locks make each of them atomic, although most let go of the realm descriptor
\* and of the upper tables long before they are done.
ImplementsAtomicCommands == Atomic!Spec

\* The state that is asserted of the granule a CPU waits for.
AssertedState(s) ==
    CASE s.pc \in {"root", "walk"} -> "RTT"
      [] s.pc = "free" -> "DATA"

\* granule_lock(.., state) and assert(g_tbl != NULL), assert(g_data != NULL):
\* "A table descriptor S2TTE always points to a TABLE granule", and a data
\* granule is in state DATA whenever its lock can be had and an entry leads to it.
AssertsHold ==
    \A c \in Cpus : cpu[c].pc \in {"root", "walk", "free"} =>
        \A x \in Wanted(cpu[c]) \ locked : gstate[x] = AssertedState(cpu[c])

\* Both together: what a handler gets when it gets a lock.
LockedAsAsserted == LockedByOne /\ AssertsHold

\* "Enforcing locking order RD->RTT is enough to ensure deadlock free locking":
\* no CPUs wait for each other's locks, the locks of data granules and of tables
\* in the making included.
NoWaitCycle ==
    ~ \E stuck \in (SUBSET Cpus) \ {{}} : \A c \in stuck :
        \E d \in stuck : Wanted(cpu[c]) \cap Held(cpu[d]) # {}

\* The tables have locks of their own: whatever happens to the lock of the realm
\* descriptor, entries lead to granules that are theirs alone and the reference
\* counts stay exact ("the table is always accessed locked").
TablesConsistent == Atomic!PointsToOwned /\ Atomic!NoSharing /\ Atomic!RefcountCountsLive

\* A command is under way; when every CPU has one, one of them has to return.
Busy(c) == cpu[c].pc # "idle"

\* "Pages may no longer be populated with rmi_data_create()" once the realm has
\* been activated (enum realm_state, kvm_rme.h): nothing is measured any more.
PopulatedOnlyNew ==
    [][\A rd \in Rds : measured'[rd] # measured[rd] => rdState[rd] = "NEW"]_lvars
=============================================================================
