-------------------------- MODULE ModuleLoader --------------------------
(***************************************************************************)
(* The kernel's module loader as the repository patches it                 *)
(* (tetd_view/log_test/kernel/main.c): init_module and finit_module with   *)
(* the idempotent wrapper, load_module with every unwinding label, the     *)
(* repository's log page in its middle, do_init_module, delete_module and  *)
(* the reference counts that hold a module in place.                       *)
(*                                                                         *)
(* Processes load and unload modules by name; every load allocates its own *)
(* struct module.  A region under module_mutex is one action, except where *)
(* a reference count changes beside it.  Sleepers on module_wq are put to  *)
(* sleep and woken explicitly.  Users are holders of try_module_get        *)
(* references (an open device); they take them on live modules only.       *)
(***************************************************************************)
EXTENDS Naturals, FiniteSets

CONSTANTS Procs, Users, Objs, Names, None,
          Needs,         \* Needs[n]: modules whose symbols n imports
          MaxCalls,      \* bound: system calls made
          PageFails,     \* may __get_free_page for the log page fail?
          RoFails        \* may module_enable_rodata_ro fail after init?

ASSUME LoaderAssumption ==
    /\ None \notin Procs \cup Objs \cup Names
    /\ Needs \in [Names -> SUBSET Names]
    /\ MaxCalls \in Nat /\ IsFiniteSet(Objs) /\ IsFiniteSet(Users)
    /\ PageFails \in BOOLEAN /\ RoFails \in BOOLEAN

VARIABLES
    pc, name,   \* a process, and the module name it was called with
    mine,       \* the struct module it works on
    file,       \* called through finit_module?
    asleep,     \* sleeping on module_wq
    ret,        \* what the call will return
    idem,       \* idem_hash: processes on it
    mutex,      \* module_mutex, where it is held over two actions
    mod,        \* struct module: name, state, refcnt, modules used
    listed,     \* the list modules
    holds,      \* the module a user holds a reference to
    logPage,    \* log_page2 is allocated
    calls

vars == <<pc, name, mine, file, asleep, ret, idem, mutex, mod, listed, holds,
          logPage, calls>>

procVars == <<name, mine, file, ret>>
modVars == <<mod, listed>>

LoadPcs == {"early", "early_wait", "alloc", "add", "add_wait", "setup",
            "resolve", "form", "coming", "log", "init", "putinit", "failed",
            "undo_going", "undo_uses", "undo_list", "dealloc"}
FreePcs == {"unform", "unuse", "unlink", "wake"}
Pcs == LoadPcs \cup FreePcs
           \cup {"idle", "idem_wait", "complete", "delete", "readd"}
States == {"FREE", "NEW", "UNFORMED", "COMING", "LIVE", "GOING"}

Blank == [name |-> None, state |-> "FREE", ref |-> 0, uses |-> {}]

Init ==
    /\ pc = [p \in Procs |-> "idle"]
    /\ name = [p \in Procs |-> None]
    /\ mine = [p \in Procs |-> None]
    /\ file = [p \in Procs |-> FALSE]
    /\ asleep = {}
    /\ ret = [p \in Procs |-> "err"]
    /\ idem = {}
    /\ mutex = None
    /\ mod = [o \in Objs |-> Blank]
    /\ listed = {}
    /\ holds = [u \in Users |-> None]
    /\ logPage = FALSE
    /\ calls = 0

Goto(p, label) == pc' = [pc EXCEPT ![p] = label]
Wake == asleep' = {}

\* find_module_all(name, len, true).
Found(n) == {o \in listed : mod[o].name = n}
Finished(n) == \A o \in Found(n) : mod[o].state \in {"LIVE", "GOING"}

\* A call is over with result r; finit_module has waiters to complete.
Return(p, r) ==
    /\ ret' = [ret EXCEPT ![p] = r]
    /\ mine' = [mine EXCEPT ![p] = None]
    /\ Goto(p, IF file[p] THEN "complete" ELSE "idle")

---------------------------------------------------------------------------
\* System calls.

InitModule(p, n) ==
    /\ pc[p] = "idle" /\ calls < MaxCalls
    /\ calls' = calls + 1
    /\ name' = [name EXCEPT ![p] = n]
    /\ file' = [file EXCEPT ![p] = FALSE]
    /\ Goto(p, "early")
    /\ UNCHANGED <<mine, asleep, ret, idem, mutex, modVars, holds, logPage>>

\* idempotent(): the first with this cookie loads, the others wait.
FinitModule(p, n) ==
    /\ pc[p] = "idle" /\ calls < MaxCalls
    /\ calls' = calls + 1
    /\ name' = [name EXCEPT ![p] = n]
    /\ file' = [file EXCEPT ![p] = TRUE]
    /\ idem' = idem \cup {p}
    /\ Goto(p, IF \E q \in idem : name[q] = n THEN "idem_wait" ELSE "early")
    /\ UNCHANGED <<mine, asleep, ret, mutex, modVars, holds, logPage>>

DeleteModule(p, n) ==
    /\ pc[p] = "idle" /\ calls < MaxCalls
    /\ calls' = calls + 1
    /\ name' = [name EXCEPT ![p] = n]
    /\ file' = [file EXCEPT ![p] = FALSE]
    /\ Goto(p, "delete")
    /\ UNCHANGED <<mine, asleep, ret, idem, mutex, modVars, holds, logPage>>

\* Mutant: the winner takes only itself off the list.
X_IdempotentComplete(p) ==
    /\ pc[p] = "complete"
    /\ idem' = idem \ {p}
    /\ Goto(p, "idle")
    /\ UNCHANGED <<procVars, asleep, mutex, modVars, holds, logPage, calls>>

IdempotentComplete(p) ==
    LET same == {q \in idem : name[q] = name[p]} IN
    /\ pc[p] = "complete"
    /\ idem' = idem \ same
    /\ pc' = [q \in Procs |-> IF q \in same THEN "idle" ELSE pc[q]]
    /\ ret' = [q \in Procs |-> IF q \in same THEN ret[p] ELSE ret[q]]
    /\ UNCHANGED <<name, mine, file, asleep, mutex, modVars, holds, logPage, calls>>

\* A signal: the waiter leaves the list; its result stays -EINTR.
IdempotentInterrupted(p) ==
    /\ pc[p] = "idem_wait"
    /\ idem' = idem \ {p}
    /\ ret' = [ret EXCEPT ![p] = "err"]
    /\ Goto(p, "idle")
    /\ UNCHANGED <<name, mine, file, asleep, mutex, modVars, holds, logPage, calls>>

---------------------------------------------------------------------------
\* load_module up to the list: module_patient_check_exists, twice.

EarlyModCheck(p) ==
    /\ pc[p] = "early" /\ mutex = None
    /\ \/ Found(name[p]) = {} /\ Goto(p, "alloc") /\ UNCHANGED <<mine, ret>>
       \/ ~Finished(name[p]) /\ Goto(p, "early_wait") /\ UNCHANGED <<mine, ret>>
       \/ Found(name[p]) # {} /\ Finished(name[p]) /\ Return(p, "err")
    /\ UNCHANGED <<name, file, asleep, idem, mutex, modVars, holds, logPage, calls>>

\* layout_and_allocate.
Allocate(p) ==
    /\ pc[p] = "alloc"
    /\ \E o \in Objs :
          /\ mod[o].state = "FREE"
          /\ mod' = [mod EXCEPT ![o] = [Blank EXCEPT !.name = name[p], !.state = "NEW"]]
          /\ mine' = [mine EXCEPT ![p] = o]
    /\ Goto(p, "add")
    /\ UNCHANGED <<name, file, asleep, ret, idem, mutex, listed, holds, logPage, calls>>

AllocateFails(p) ==
    /\ pc[p] = "alloc"
    /\ Return(p, "err")
    /\ UNCHANGED <<name, file, asleep, idem, mutex, modVars, holds, logPage, calls>>

\* Mutant: uniqueness is checked only before the allocation.
X_AddUnformedModule(p) ==
    LET o == mine[p] IN
    /\ pc[p] = "add" /\ mutex = None
    /\ listed' = listed \cup {o}
    /\ mod' = [mod EXCEPT ![o].state = "UNFORMED"]
    /\ Goto(p, "setup")
    /\ UNCHANGED <<procVars, asleep, idem, mutex, holds, logPage, calls>>

AddUnformedModule(p) ==
    LET o == mine[p] IN
    /\ pc[p] = "add" /\ mutex = None
    /\ \/ /\ Found(name[p]) = {}
          /\ listed' = listed \cup {o}
          /\ mod' = [mod EXCEPT ![o].state = "UNFORMED"]
          /\ Goto(p, "setup")
       \/ ~Finished(name[p]) /\ Goto(p, "add_wait") /\ UNCHANGED modVars
       \/ Found(name[p]) # {} /\ Finished(name[p]) /\ Goto(p, "dealloc") /\ UNCHANGED modVars
    /\ UNCHANGED <<procVars, asleep, idem, mutex, holds, logPage, calls>>

\* wait_event_interruptible(module_wq, finished_loading(name)); whoever
\* waited gives up afterwards, even if the module has gone.
WaitFinished(p) ==
    /\ pc[p] \in {"early_wait", "add_wait"} /\ p \notin asleep /\ mutex = None
    /\ IF ~Finished(name[p])
       THEN asleep' = asleep \cup {p} /\ UNCHANGED <<pc, ret, mine>>
       ELSE /\ UNCHANGED asleep
            /\ IF pc[p] = "early_wait"
               THEN Return(p, "err")
               ELSE Goto(p, "dealloc") /\ UNCHANGED <<ret, mine>>
    /\ UNCHANGED <<name, file, idem, mutex, modVars, holds, logPage, calls>>

WaitInterrupted(p) ==
    /\ pc[p] \in {"early_wait", "add_wait"}
    /\ asleep' = asleep \ {p}
    /\ IF pc[p] = "early_wait"
       THEN Return(p, "err")
       ELSE Goto(p, "dealloc") /\ UNCHANGED <<ret, mine>>
    /\ UNCHANGED <<name, file, idem, mutex, modVars, holds, logPage, calls>>

---------------------------------------------------------------------------
\* load_module from the list to do_init_module.

\* module_unload_init: MODULE_REF_BASE and the initial reference.
UnloadInit(p) ==
    /\ pc[p] = "setup"
    /\ mod' = [mod EXCEPT ![mine[p]].ref = 2]
    /\ Goto(p, "resolve")
    /\ UNCHANGED <<procVars, asleep, idem, mutex, listed, holds, logPage, calls>>

Unresolved(p) == Needs[name[p]] \ {mod[o].name : o \in mod[mine[p]].uses}

\* find_symbol does not look into unformed modules.
Exporter(n) == {o \in listed : mod[o].name = n /\ mod[o].state # "UNFORMED"}

\* Mutant: try_module_get instead of strong_try_module_get: a module whose
\* init still runs may be used.
X_ResolveSymbol(p, o) ==
    /\ pc[p] = "resolve" /\ mutex = None
    /\ mod[o].name \in Unresolved(p) /\ o \in Exporter(mod[o].name)
    /\ mod[o].state # "GOING" /\ mod[o].ref > 0
    /\ mod' = [mod EXCEPT ![o].ref = @ + 1, ![mine[p]].uses = @ \cup {o}]
    /\ UNCHANGED <<pc, procVars, asleep, idem, mutex, listed, holds, logPage, calls>>

\* Mutant: no reference is taken for a recorded use.
Y_ResolveSymbol(p, o) ==
    /\ pc[p] = "resolve" /\ mutex = None
    /\ mod[o].name \in Unresolved(p) /\ o \in Exporter(mod[o].name)
    /\ mod[o].state = "LIVE" /\ mod[o].ref > 0
    /\ mod' = [mod EXCEPT ![mine[p]].uses = @ \cup {o}]
    /\ UNCHANGED <<pc, procVars, asleep, idem, mutex, listed, holds, logPage, calls>>

\* resolve_symbol and ref_module: the exporter is live and gets a reference.
ResolveSymbol(p, o) ==
    /\ pc[p] = "resolve" /\ mutex = None
    /\ mod[o].name \in Unresolved(p) /\ o \in Exporter(mod[o].name)
    /\ mod[o].state = "LIVE" /\ mod[o].ref > 0
    /\ mod' = [mod EXCEPT ![o].ref = @ + 1, ![mine[p]].uses = @ \cup {o}]
    /\ UNCHANGED <<pc, procVars, asleep, idem, mutex, listed, holds, logPage, calls>>

\* strong_try_module_get says -EBUSY while the exporter is coming: wait.
ResolveWait(p, o) ==
    /\ pc[p] = "resolve" /\ mutex = None /\ p \notin asleep
    /\ mod[o].name \in Unresolved(p) /\ o \in Exporter(mod[o].name)
    /\ mod[o].state = "COMING"
    /\ asleep' = asleep \cup {p}
    /\ UNCHANGED <<pc, procVars, idem, mutex, modVars, holds, logPage, calls>>

\* No exporter, an exporter that goes, or 30 seconds without an answer.
ResolveFails(p) ==
    /\ pc[p] = "resolve" /\ mutex = None
    /\ \E n \in Unresolved(p) :
          \/ p \in asleep
          \/ \A o \in Exporter(n) : mod[o].state = "GOING" \/ mod[o].ref = 0
    /\ asleep' = asleep \ {p}
    /\ Goto(p, "undo_uses")
    /\ UNCHANGED <<procVars, idem, mutex, modVars, holds, logPage, calls>>

Resolved(p) ==
    /\ pc[p] = "resolve" /\ Unresolved(p) = {}
    /\ Goto(p, "form")
    /\ UNCHANGED <<procVars, asleep, idem, mutex, modVars, holds, logPage, calls>>

\* complete_formation.
CompleteFormation(p) ==
    /\ pc[p] = "form" /\ mutex = None
    /\ mod' = [mod EXCEPT ![mine[p]].state = "COMING"]
    /\ Goto(p, "coming")
    /\ UNCHANGED <<procVars, asleep, idem, mutex, listed, holds, logPage, calls>>

\* prepare_coming_module, parse_args, mod_sysfs_setup, copy_module_elf.
PrepareComing(p) ==
    /\ pc[p] = "coming"
    /\ Goto(p, "log")
    /\ UNCHANGED <<procVars, asleep, idem, mutex, modVars, holds, logPage, calls>>

\* A failure of any of these steps goes to the label that undoes it.
LoadFails(p) ==
    /\ pc[p] \in {"setup", "form", "coming"}
    /\ Goto(p, CASE pc[p] = "setup" -> "undo_list"
                 [] pc[p] = "form" -> "undo_uses"
                 [] pc[p] = "coming" -> "undo_going")
    /\ UNCHANGED <<procVars, asleep, idem, mutex, modVars, holds, logPage, calls>>

\* The repository's log page, allocated by the first load.
LogModule(p) ==
    /\ pc[p] = "log"
    /\ logPage' = TRUE
    /\ Goto(p, "init")
    /\ UNCHANGED <<procVars, asleep, idem, mutex, modVars, holds, calls>>

\* ... whose failure returns 0 and leaves the module as it is.
LogPageFails(p) ==
    /\ PageFails
    /\ pc[p] = "log" /\ ~logPage
    /\ Return(p, "ok")
    /\ UNCHANGED <<name, file, asleep, idem, mutex, modVars, holds, logPage, calls>>

---------------------------------------------------------------------------
\* do_init_module.

InitSucceeds(p) ==
    /\ pc[p] = "init"
    /\ mod' = [mod EXCEPT ![mine[p]].state = "LIVE"]
    /\ Goto(p, "putinit")
    /\ UNCHANGED <<procVars, asleep, idem, mutex, listed, holds, logPage, calls>>

\* Mutant: the error path of the init function forgets the module.
X_InitFails(p) ==
    /\ pc[p] = "init"
    /\ Return(p, "err")
    /\ UNCHANGED <<name, file, asleep, idem, mutex, modVars, holds, logPage, calls>>

InitFails(p) ==
    /\ pc[p] = "init"
    /\ Goto(p, "failed")
    /\ UNCHANGED <<procVars, asleep, idem, mutex, modVars, holds, logPage, calls>>

\* Mutant: the initial reference is kept.
X_DropInitialRef(p) ==
    /\ pc[p] = "putinit" /\ mutex = None
    /\ ret' = [ret EXCEPT ![p] = "ok"]
    /\ Goto(p, "wake")
    /\ UNCHANGED <<name, mine, file, asleep, idem, mutex, modVars, holds, logPage, calls>>

\* "Drop initial reference"; making the read-only data read-only may fail.
DropInitialRef(p) ==
    /\ pc[p] = "putinit" /\ mutex = None
    /\ mod' = [mod EXCEPT ![mine[p]].ref = @ - 1]
    /\ \/ Goto(p, "wake") /\ ret' = [ret EXCEPT ![p] = "ok"]
       \/ RoFails /\ Goto(p, "failed") /\ UNCHANGED ret
    /\ UNCHANGED <<name, mine, file, asleep, idem, mutex, listed, holds, logPage, calls>>

\* The label fail: MODULE_STATE_GOING, module_put, then free_module.
InitUndo(p) ==
    /\ pc[p] = "failed"
    /\ mod' = [mod EXCEPT ![mine[p]].state = "GOING",
                 ![mine[p]].ref = IF @ > 0 THEN @ - 1 ELSE 0]
    /\ ret' = [ret EXCEPT ![p] = "err"]
    /\ Goto(p, "unform")
    /\ UNCHANGED <<name, mine, file, asleep, idem, mutex, listed, holds, logPage, calls>>

---------------------------------------------------------------------------
\* The unwinding labels of load_module.

UndoGoing(p) ==
    /\ pc[p] = "undo_going"
    /\ mod' = [mod EXCEPT ![mine[p]].state = "GOING"]
    /\ Goto(p, "undo_uses")
    /\ UNCHANGED <<procVars, asleep, idem, mutex, listed, holds, logPage, calls>>

\* module_unload_free: put every module this one uses.
Unused(o) ==
    mod' = [x \in Objs |->
              IF x = o THEN [mod[x] EXCEPT !.uses = {}]
              ELSE IF x \in mod[o].uses THEN [mod[x] EXCEPT !.ref = @ - 1]
              ELSE mod[x]]

\* Mutant: a failed load keeps its references to other modules.
X_UndoUses(p) ==
    /\ pc[p] = "undo_uses" /\ mutex = None
    /\ mod' = [mod EXCEPT ![mine[p]].uses = {}]
    /\ Goto(p, "undo_list")
    /\ UNCHANGED <<procVars, asleep, idem, mutex, listed, holds, logPage, calls>>

UndoUses(p) ==
    /\ pc[p] = "undo_uses" /\ mutex = None
    /\ Unused(mine[p])
    /\ Goto(p, "undo_list")
    /\ UNCHANGED <<procVars, asleep, idem, mutex, listed, holds, logPage, calls>>

\* Mutant: whoever waits for this name is not woken.
X_UndoList(p) ==
    /\ pc[p] = "undo_list" /\ mutex = None
    /\ listed' = listed \ {mine[p]}
    /\ Goto(p, "dealloc")
    /\ UNCHANGED <<procVars, asleep, idem, mutex, mod, holds, logPage, calls>>

\* unlink_mod: list_del_rcu and wake_up_all under the mutex.
UndoList(p) ==
    /\ pc[p] = "undo_list" /\ mutex = None
    /\ listed' = listed \ {mine[p]}
    /\ Wake
    /\ Goto(p, "dealloc")
    /\ UNCHANGED <<procVars, idem, mutex, mod, holds, logPage, calls>>

\* module_deallocate.
Deallocate(p) ==
    /\ pc[p] = "dealloc"
    /\ mod' = [mod EXCEPT ![mine[p]] = Blank]
    /\ Return(p, "err")
    /\ UNCHANGED <<name, file, asleep, idem, mutex, listed, holds, logPage, calls>>

---------------------------------------------------------------------------
\* delete_module and free_module.

DeleteRefused(p) ==
    /\ pc[p] = "delete" /\ mutex = None
    /\ \A o \in Exporter(name[p]) :
          mod[o].state # "LIVE" \/ \E x \in Objs : o \in mod[x].uses
    /\ Return(p, "err")
    /\ UNCHANGED <<name, file, asleep, idem, mutex, modVars, holds, logPage, calls>>

\* try_release_module_ref: MODULE_REF_BASE is subtracted; with nothing left
\* the module goes.
ReleaseRef(p) ==
    /\ pc[p] = "delete" /\ mutex = None
    /\ \E o \in Exporter(name[p]) :
          /\ mod[o].state = "LIVE" /\ \A x \in Objs : o \notin mod[x].uses
          /\ mine' = [mine EXCEPT ![p] = o]
          /\ IF mod[o].ref = 1
             THEN /\ mod' = [mod EXCEPT ![o].ref = 0, ![o].state = "GOING"]
                  /\ Goto(p, "unform") /\ UNCHANGED mutex
             ELSE /\ mod' = [mod EXCEPT ![o].ref = @ - 1]
                  /\ Goto(p, "readd") /\ mutex' = p
    /\ ret' = [ret EXCEPT ![p] = "ok"]
    /\ UNCHANGED <<name, file, asleep, idem, listed, holds, logPage, calls>>

\* "Someone can put this right now, recover with checking".
ReaddRef(p) ==
    LET o == mine[p] IN
    /\ pc[p] = "readd"
    /\ mutex' = None
    /\ IF mod[o].ref = 0
       THEN /\ mod' = [mod EXCEPT ![o].state = "GOING"]
            /\ Goto(p, "unform") /\ UNCHANGED <<ret, mine>>
       ELSE /\ mod' = [mod EXCEPT ![o].ref = @ + 1]
            /\ Return(p, "err")
    /\ UNCHANGED <<name, file, asleep, idem, listed, holds, logPage, calls>>

\* free_module leaves the module in the list while it is taken apart.
FreeUnform(p) ==
    /\ pc[p] = "unform" /\ mutex = None
    /\ mod' = [mod EXCEPT ![mine[p]].state = "UNFORMED"]
    /\ Goto(p, "unuse")
    /\ UNCHANGED <<procVars, asleep, idem, mutex, listed, holds, logPage, calls>>

FreeUnuse(p) ==
    /\ pc[p] = "unuse" /\ mutex = None
    /\ Unused(mine[p])
    /\ Goto(p, "unlink")
    /\ UNCHANGED <<procVars, asleep, idem, mutex, listed, holds, logPage, calls>>

FreeUnlink(p) ==
    /\ pc[p] = "unlink" /\ mutex = None
    /\ listed' = listed \ {mine[p]}
    /\ mod' = [mod EXCEPT ![mine[p]] = Blank]
    /\ mine' = [mine EXCEPT ![p] = None]
    /\ Goto(p, "wake")
    /\ UNCHANGED <<name, file, ret, asleep, idem, mutex, holds, logPage, calls>>

WakeAll(p) ==
    /\ pc[p] = "wake"
    /\ Wake
    /\ Return(p, ret[p])
    /\ UNCHANGED <<name, file, idem, mutex, modVars, holds, logPage, calls>>

---------------------------------------------------------------------------
\* try_module_get and module_put by users of a live module.

UserGet(u, o) ==
    /\ holds[u] = None
    /\ mod[o].state = "LIVE" /\ mod[o].ref > 0
    /\ mod' = [mod EXCEPT ![o].ref = @ + 1]
    /\ holds' = [holds EXCEPT ![u] = o]
    /\ UNCHANGED <<pc, procVars, asleep, idem, mutex, listed, logPage, calls>>

UserPut(u) ==
    /\ holds[u] # None
    /\ mod' = [mod EXCEPT ![holds[u]].ref = IF @ > 0 THEN @ - 1 ELSE 0]
    /\ holds' = [holds EXCEPT ![u] = None]
    /\ UNCHANGED <<pc, procVars, asleep, idem, mutex, listed, logPage, calls>>

---------------------------------------------------------------------------
Call(p) == \E n \in Names : InitModule(p, n) \/ FinitModule(p, n) \/ DeleteModule(p, n)

Signal(p) == IdempotentInterrupted(p) \/ WaitInterrupted(p)

LoadStep(p) ==
    \/ EarlyModCheck(p) \/ Allocate(p) \/ AllocateFails(p) \/ AddUnformedModule(p)
    \/ WaitFinished(p) \/ UnloadInit(p) \/ Resolved(p) \/ CompleteFormation(p)
    \/ PrepareComing(p) \/ LoadFails(p) \/ LogModule(p) \/ LogPageFails(p)
    \/ \E o \in Objs : ResolveSymbol(p, o) \/ ResolveWait(p, o)
    \/ ResolveFails(p)

InitStep(p) ==
    \/ InitSucceeds(p) \/ InitFails(p) \/ DropInitialRef(p) \/ InitUndo(p)
    \/ UndoGoing(p) \/ UndoUses(p) \/ UndoList(p) \/ Deallocate(p)
    \/ DeleteRefused(p) \/ ReleaseRef(p) \/ ReaddRef(p) \/ IdempotentComplete(p)
    \/ FreeUnform(p) \/ FreeUnuse(p) \/ FreeUnlink(p) \/ WakeAll(p)

UserStep(u) == UserPut(u) \/ \E o \in Objs : UserGet(u, o)

\* The processes have made all the calls there are to make.
Rest ==
    /\ calls = MaxCalls /\ \A p \in Procs : pc[p] = "idle"
    /\ UNCHANGED vars

Next ==
    \/ \E p \in Procs : Call(p) \/ Signal(p) \/ LoadStep(p) \/ InitStep(p)
    \/ \E u \in Users : UserStep(u)
    \/ Rest

Spec == Init /\ [][Next]_vars

\* A process in the kernel runs on; nothing is assumed of signals, of users
\* and of the calls made.
FairSpec == Spec /\ \A p \in Procs : WF_vars(LoadStep(p) \/ InitStep(p))

---------------------------------------------------------------------------
\* Type invariant of the loader's state.
TypeOK ==
    /\ pc \in [Procs -> Pcs]
    /\ name \in [Procs -> Names \cup {None}]
    /\ mine \in [Procs -> Objs \cup {None}]
    /\ file \in [Procs -> BOOLEAN]
    /\ ret \in [Procs -> {"ok", "err"}]
    /\ asleep \subseteq Procs /\ idem \subseteq Procs
    /\ mutex \in Procs \cup {None}
    /\ \A o \in Objs :
          /\ mod[o].state \in States /\ mod[o].name \in Names \cup {None}
          /\ mod[o].ref \in 0..(2 + Cardinality(Users) + Cardinality(Objs))
          /\ mod[o].uses \subseteq Objs
    /\ listed \subseteq Objs
    /\ holds \in [Users -> Objs \cup {None}]
    /\ logPage \in BOOLEAN /\ calls \in 0..MaxCalls

\* Two loads of one name never both reach the list: "make sure it's unique"
\* (add_unformed_module).
UniqueNames ==
    \A o, x \in listed : mod[o].name = mod[x].name => o = x

\* A module another module links to, or a user holds, is live: it is not
\* being taken apart, and has not been freed.
UsedIsLive ==
    /\ \A x \in Objs : \A o \in mod[x].uses : mod[o].state = "LIVE"
    /\ \A u \in Users : holds[u] # None => mod[holds[u]].state = "LIVE"

Loading(o) == \E p \in Procs : pc[p] = "putinit" /\ mine[p] = o
Releasing(o) == \E p \in Procs : pc[p] = "readd" /\ mine[p] = o

\* The reference count of a live module is the base, the loader's initial
\* reference, one per module that links to it and one per user: nothing is
\* put twice, and a failed load leaves none behind.
RefcountExact ==
    \A o \in Objs : mod[o].state = "LIVE" =>
        mod[o].ref = (IF Releasing(o) THEN 0 ELSE 1) + (IF Loading(o) THEN 1 ELSE 0)
                     + Cardinality({x \in Objs : o \in mod[x].uses})
                     + Cardinality({u \in Users : holds[u] = o})

\* A module on the list that is not live is some process's business: it
\* will become live or go, so "wait in case it fails to load" ends.
NoAbandonedModule ==
    \A o \in listed :
        mod[o].state # "LIVE" => \E p \in Procs : mine[p] = o

\* Every waiter in idem_hash has a winner that will complete it.
IdempotentHasWinner ==
    \A p \in idem : \E q \in idem : name[q] = name[p] /\ pc[q] # "idem_wait"

\* A name stands for one module at most, a module in use stays, and its count is that of
\* its users.  Nobody waits for ever: a listed module that is not live is some process's,
\* and who waits for another's load of the same file has a winner that completes it.
ModulesInUseStay ==
    /\ TypeOK /\ UniqueNames /\ UsedIsLive /\ RefcountExact
    /\ NoAbandonedModule /\ IdempotentHasWinner

\* A system call is under way; it has to come back, without signals: no wake-up of
\* module_wq is lost.
InCall(p) == pc[p] # "idle"
=============================================================================
