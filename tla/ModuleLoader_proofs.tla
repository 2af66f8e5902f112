------------------------ MODULE ModuleLoader_proofs ------------------------
(***************************************************************************)
(* Theorems about ModuleLoader.tla, for any number of processes, users and *)
(* modules.                                                                *)
(*                                                                         *)
(* Safe is inductive.  A struct module that is neither free nor live       *)
(* belongs to one process (OneOwner), whose place in the code says in      *)
(* which state it is, whether it is on the list, and what its reference    *)
(* count is (Placed).  A live one belongs to nobody, and its reference     *)
(* count is what keeps it live: delete_module takes it apart only when the *)
(* count says that nobody uses it.                                         *)
(***************************************************************************)
EXTENDS ModuleLoader, FiniteSetTheorems, TLAPS

USE LoaderAssumption

ModuleType == [name : Names \cup {None}, state : States, ref : Nat, uses : SUBSET Objs]

ProcTypes ==
    /\ pc \in [Procs -> Pcs]
    /\ name \in [Procs -> Names \cup {None}]
    /\ mine \in [Procs -> Objs \cup {None}]
    /\ file \in [Procs -> BOOLEAN]
    /\ ret \in [Procs -> {"ok", "err"}]
    /\ asleep \subseteq Procs /\ idem \subseteq Procs
    /\ mutex \in Procs \cup {None}
    /\ logPage \in BOOLEAN /\ calls \in 0 .. MaxCalls

ModuleTypes ==
    /\ mod \in [Objs -> ModuleType]
    /\ listed \subseteq Objs
    /\ holds \in [Users -> Objs \cup {None}]

\* Where a process has no struct module, and where the one it has is not its own.
NoModule == {"idle", "idem_wait", "complete", "delete", "early", "early_wait", "alloc"}
Sharing == {"wake", "readd"}
OwnPcs == Pcs \ (NoModule \cup Sharing)
Unlinked == {"add", "add_wait", "dealloc"}

\* The states of the module that a process has at label l.
StatesAt(l) ==
    CASE l \in {"add", "add_wait"} -> {"NEW"}
      [] l \in {"setup", "resolve", "form", "unuse", "unlink"} -> {"UNFORMED"}
      [] l \in {"coming", "log", "init", "failed", "undo_going"} -> {"COMING"}
      [] l = "putinit" -> {"LIVE"}
      [] l = "unform" -> {"GOING"}
      [] l \in {"undo_uses", "undo_list"} -> {"UNFORMED", "GOING"}
      [] l = "dealloc" -> {"NEW", "UNFORMED", "GOING"}

\* It uses no other module, or not any more.
Bare == {"add", "add_wait", "setup", "undo_list", "unlink", "dealloc"}

\* Its count is as module_unload_init set it.
Counting == {"resolve", "form", "coming", "log", "init", "failed"}

Placed(p) ==
    /\ pc[p] \in NoModule => mine[p] = None
    /\ pc[p] \in OwnPcs =>
         /\ mine[p] \in Objs
         /\ mine[p] \in listed <=> pc[p] \notin Unlinked
         /\ mod[mine[p]].state \in StatesAt(pc[p])
    /\ pc[p] \in Bare => mod[mine[p]].uses = {}
    /\ pc[p] \in Counting => mod[mine[p]].ref = 2
    /\ pc[p] \in {"add", "add_wait"} => mod[mine[p]].name = name[p]
    /\ pc[p] = "readd" => mine[p] \in Objs /\ mod[mine[p]].state = "LIVE"
    /\ pc[p] = "readd" <=> mutex = p

AllPlaced == \A p \in Procs : Placed(p)

OneOwner ==
    \A p, q \in Procs :
        p # q /\ pc[p] \in OwnPcs /\ pc[q] \in OwnPcs => mine[p] # mine[q]

Owned(o) == \E p \in Procs : pc[p] \in OwnPcs /\ mine[p] = o

\* Only the failure of the log page's allocation abandons a module.
ModuleOK(o) ==
    /\ mod[o].state = "FREE" => mod[o] = Blank
    /\ o \in listed => mod[o].state \notin {"FREE", "NEW"}
    /\ mod[o].state = "LIVE" => o \in listed
    /\ o \in listed /\ mod[o].state # "LIVE" /\ ~PageFails => Owned(o)
    /\ mod[o].state # "LIVE" => mod[o].ref \in 0 .. 2

ModulesOK == \A o \in Objs : ModuleOK(o)

Safe ==
    /\ ModuleTypes /\ AllPlaced /\ OneOwner /\ ModulesOK
    /\ UniqueNames /\ UsedIsLive /\ RefcountExact

\* Who is in idem_hash, and that one of each name is not waiting for another.
IdemOK ==
    /\ \A p \in Procs : p \in idem <=> file[p] /\ pc[p] # "idle"
    /\ \A p \in Procs : pc[p] = "idem_wait" => p \in idem
    /\ \A p \in Procs : pc[p] = "complete" => file[p]
    /\ \A p, q \in idem :
         name[p] = name[q] /\ pc[p] # "idem_wait" /\ pc[q] # "idem_wait" => p = q

IInv == ProcTypes /\ Safe /\ IdemOK /\ IdempotentHasWinner

-----------------------------------------------------------------------------
(* What follows from it.                                                   *)

Linked(o) == {x \in Objs : o \in mod[x].uses}
Holders(o) == {u \in Users : holds[u] = o}

\* The number of links to a module and of its holders.
LEMMA Counts ==
  ASSUME NEW o
  PROVE  /\ IsFiniteSet(Linked(o)) /\ Cardinality(Linked(o)) \in 0 .. Cardinality(Objs)
         /\ IsFiniteSet(Holders(o)) /\ Cardinality(Holders(o)) \in 0 .. Cardinality(Users)
         /\ Cardinality(Objs) \in Nat /\ Cardinality(Users) \in Nat
         /\ Cardinality(Linked(o)) = 0 => Linked(o) = {}
         /\ Cardinality(Holders(o)) = 0 => Holders(o) = {}
<1>1. Linked(o) \subseteq Objs /\ Holders(o) \subseteq Users
  BY DEF Linked, Holders
<1>2. /\ IsFiniteSet(Linked(o)) /\ Cardinality(Linked(o)) <= Cardinality(Objs)
      /\ IsFiniteSet(Holders(o)) /\ Cardinality(Holders(o)) <= Cardinality(Users)
  BY <1>1, FS_Subset
<1>3. /\ Cardinality(Linked(o)) \in Nat /\ Cardinality(Holders(o)) \in Nat
      /\ Cardinality(Objs) \in Nat /\ Cardinality(Users) \in Nat
  BY <1>2, FS_CardinalityType
<1>4. /\ Cardinality(Linked(o)) = 0 => Linked(o) = {}
      /\ Cardinality(Holders(o)) = 0 => Holders(o) = {}
  BY <1>2, FS_EmptySet
<1>5. QED
  BY <1>2, <1>3, <1>4

\* The count of a live module, in words of Linked and Holders.
Counted(o) ==
    mod[o].state = "LIVE" =>
        mod[o].ref = (IF Releasing(o) THEN 0 ELSE 1) + (IF Loading(o) THEN 1 ELSE 0)
                     + Cardinality(Linked(o)) + Cardinality(Holders(o))

\* RefcountExact, module by module.
LEMMA CountedExact == RefcountExact <=> \A o \in Objs : Counted(o)
BY DEF RefcountExact, Counted, Linked, Holders

\* What a module is used by or held by.
LEMMA LinkedIsLive ==
  ASSUME UsedIsLive, ModuleTypes, NEW o \in Objs, mod[o].state # "LIVE"
  PROVE  Linked(o) = {} /\ Holders(o) = {}
<1>1. \A x \in Objs : o \notin mod[x].uses
  BY DEF UsedIsLive
<1>2. \A u \in Users : holds[u] # o
  BY DEF UsedIsLive
<1>3. QED
  BY <1>1, <1>2 DEF Linked, Holders

\* The label of a process says which kind of place it is.
LEMMA Labels ==
  /\ OwnPcs = {"add", "add_wait", "setup", "resolve", "form", "coming", "log", "init", "putinit",
               "failed", "undo_going", "undo_uses", "undo_list", "dealloc",
               "unform", "unuse", "unlink"}
  /\ Pcs = NoModule \cup Sharing \cup OwnPcs
BY DEF OwnPcs, NoModule, Sharing, Pcs, LoadPcs, FreePcs

\* The owner of a live module is the process that has just initialised it.
LEMMA OwnedStates ==
  ASSUME NEW p \in Procs, Placed(p), pc[p] \in OwnPcs
  PROVE  /\ mine[p] \in Objs /\ mod[mine[p]].state # "FREE"
         /\ mod[mine[p]].state = "LIVE" <=> pc[p] = "putinit"
BY Labels DEF Placed, StatesAt

\* What Placed says of a process that is not involved in a step.
LEMMA OtherPlaced ==
  ASSUME NEW q \in Procs, Placed(q), pc'[q] = pc[q], mine'[q] = mine[q], name'[q] = name[q],
         mutex' = q <=> mutex = q,
         pc[q] \in OwnPcs =>
            LET o == mine[q] IN
            /\ o \in listed' <=> o \in listed
            /\ mod'[o].state = mod[o].state /\ mod'[o].uses = mod[o].uses
            /\ mod'[o].name = mod[o].name /\ (pc[q] # "putinit" => mod'[o].ref = mod[o].ref),
         pc[q] = "readd" => mod'[mine[q]].state = "LIVE"
  PROVE  Placed(q)'
<1>1. pc[q] \in Bare \cup Counting \cup {"add", "add_wait"} => pc[q] \in OwnPcs /\ pc[q] # "putinit"
  BY Labels DEF Bare, Counting
<1>2. QED
  BY <1>1 DEF Placed

\* Links, holders and the processes at putinit and readd decide about the count.
LEMMA CountFrame ==
  ASSUME NEW o \in Objs, Counted(o), mod[o].state = "LIVE", mod'[o].ref = mod[o].ref,
         Linked(o)' = Linked(o), Holders(o)' = Holders(o),
         Loading(o)' <=> Loading(o), Releasing(o)' <=> Releasing(o)
  PROVE  Counted(o)'
BY DEF Counted

\* A process that is at neither of them does not matter.
LEMMA LoadersKept ==
  ASSUME NEW o,
         \A q \in Procs : \/ pc'[q] = pc[q] /\ mine'[q] = mine[q]
                          \/ pc[q] \notin {"putinit", "readd"} /\ pc'[q] \notin {"putinit", "readd"}
  PROVE  (Loading(o)' <=> Loading(o)) /\ (Releasing(o)' <=> Releasing(o))
BY DEF Loading, Releasing

\* Goto and Return.
LEMMA GotoFacts ==
  ASSUME ProcTypes, NEW p \in Procs, NEW l, Goto(p, l)
  PROVE  /\ pc'[p] = l /\ \A q \in Procs \ {p} : pc'[q] = pc[q]
         /\ l \in Pcs => pc' \in [Procs -> Pcs]
BY DEF ProcTypes, Goto

LEMMA ReturnFacts ==
  ASSUME ProcTypes, NEW p \in Procs, NEW r \in {"ok", "err"}, Return(p, r)
  PROVE  /\ pc'[p] = (IF file[p] THEN "complete" ELSE "idle") /\ mine'[p] = None
         /\ pc'[p] \in {"complete", "idle"}
         /\ \A q \in Procs \ {p} : pc'[q] = pc[q] /\ mine'[q] = mine[q]
         /\ pc' \in [Procs -> Pcs] /\ mine' \in [Procs -> Objs \cup {None}]
         /\ ret' \in [Procs -> {"ok", "err"}]
<1>1. Goto(p, IF file[p] THEN "complete" ELSE "idle")
  BY DEF Return
<1>2. (IF file[p] THEN "complete" ELSE "idle") \in Pcs
  BY DEF Pcs
<1>3. /\ mine' = [mine EXCEPT ![p] = None] /\ ret' = [ret EXCEPT ![p] = r]
  BY DEF Return
<1>4. QED
  BY <1>1, <1>2, <1>3, GotoFacts DEF ProcTypes

-----------------------------------------------------------------------------
(* Steps that change no module.                                            *)

\* From one label to another with the same module.
OwnMoves ==
    {<<"add", "add_wait">>, <<"add", "dealloc">>, <<"add_wait", "dealloc">>,
     <<"resolve", "undo_uses">>, <<"resolve", "form">>, <<"setup", "undo_list">>,
     <<"form", "undo_uses">>, <<"coming", "log">>, <<"coming", "undo_going">>,
     <<"log", "init">>, <<"init", "failed">>}

\* A process stays where it is, ends up without a module, or goes on with its own.
QuietMove(q) ==
    \/ pc'[q] = pc[q] /\ mine'[q] = mine[q] /\ name'[q] = name[q]
    \/ /\ pc[q] \notin {"putinit", "readd"} /\ (pc[q] \in OwnPcs => PageFails)
       /\ pc'[q] \in NoModule /\ mine'[q] = None
    \/ /\ <<pc[q], pc'[q]>> \in OwnMoves
       /\ mine'[q] = mine[q] /\ name'[q] = name[q]

LEMMA QuietPlaced ==
  ASSUME Safe, UNCHANGED <<mod, listed, holds, mutex>>, NEW q \in Procs, QuietMove(q)
  PROVE  /\ Placed(q)'
         /\ pc'[q] \in OwnPcs => pc[q] \in OwnPcs /\ mine'[q] = mine[q]
         /\ pc[q] \in OwnPcs /\ ~PageFails => pc'[q] \in OwnPcs /\ mine'[q] = mine[q]
         /\ \/ pc'[q] = pc[q] /\ mine'[q] = mine[q]
            \/ pc[q] \notin {"putinit", "readd"} /\ pc'[q] \notin {"putinit", "readd"}
<1>1. Placed(q)
  BY DEF Safe, AllPlaced
<1>2. CASE pc'[q] = pc[q] /\ mine'[q] = mine[q] /\ name'[q] = name[q]
  BY <1>1, <1>2, OtherPlaced DEF Placed
<1>3. CASE /\ pc[q] \notin {"putinit", "readd"} /\ (pc[q] \in OwnPcs => PageFails)
           /\ pc'[q] \in NoModule /\ mine'[q] = None
  <2>1. /\ pc'[q] \notin OwnPcs /\ pc'[q] \notin Bare /\ pc'[q] \notin Counting
        /\ pc'[q] \notin {"add", "add_wait", "putinit", "readd"}
    BY <1>3 DEF NoModule, OwnPcs, Bare, Counting
  <2>2. Placed(q)'
    BY <1>1, <1>3, <2>1 DEF Placed
  <2>3. QED
    BY <1>3, <2>1, <2>2
<1>4. CASE /\ <<pc[q], pc'[q]>> \in OwnMoves
           /\ mine'[q] = mine[q] /\ name'[q] = name[q]
  <2>1. /\ pc[q] \in OwnPcs /\ pc'[q] \in OwnPcs
        /\ pc[q] \notin {"putinit", "readd"} /\ pc'[q] \notin {"putinit", "readd"}
    BY <1>4, Labels DEF OwnMoves
  <2>2. /\ pc'[q] \in Bare => pc[q] \in Bare
        /\ pc'[q] \in Counting => pc[q] \in Counting
        /\ pc'[q] \in {"add", "add_wait"} => pc[q] \in {"add", "add_wait"}
        /\ pc[q] \in Unlinked <=> pc'[q] \in Unlinked
        /\ StatesAt(pc[q]) \subseteq StatesAt(pc'[q])
    BY <1>4 DEF OwnMoves, Bare, Counting, Unlinked, StatesAt
  <2>3. Placed(q)'
    <3>1. pc'[q] \notin NoModule
      BY <2>1, Labels DEF NoModule
    <3>2. QED
      BY <1>1, <1>4, <2>1, <2>2, <3>1 DEF Placed
  <2>4. QED
    BY <1>4, <2>1, <2>3
<1>5. QED
  BY <1>2, <1>3, <1>4 DEF QuietMove

\* Whatever moves while the modules stay, Safe stays.
LEMMA QuietStep ==
  ASSUME Safe, UNCHANGED <<mod, listed, holds, mutex>>, \A q \in Procs : QuietMove(q)
  PROVE  Safe'
<1>1. ModuleTypes' /\ UniqueNames' /\ UsedIsLive'
  BY DEF Safe, ModuleTypes, UniqueNames, UsedIsLive
<1>2. AllPlaced'
  BY QuietPlaced DEF AllPlaced
<1>3. OneOwner'
  BY QuietPlaced DEF Safe, OneOwner
<1>4. ASSUME NEW o \in Objs
      PROVE  ModuleOK(o)'
  <2>1. ModuleOK(o)
    BY DEF Safe, ModulesOK
  <2>2. Owned(o) /\ ~PageFails => Owned(o)'
    BY QuietPlaced DEF Owned
  <2>3. QED
    BY <2>1, <2>2 DEF ModuleOK
<1>5. ASSUME NEW o \in Objs
      PROVE  Counted(o)'
  <2>1. (Loading(o)' <=> Loading(o)) /\ (Releasing(o)' <=> Releasing(o))
    BY QuietPlaced, LoadersKept
  <2>2. Linked(o)' = Linked(o) /\ Holders(o)' = Holders(o) /\ Counted(o)
    BY CountedExact DEF Linked, Holders, Safe
  <2>3. QED
    BY <2>1, <2>2 DEF Counted
<1>6. RefcountExact'
  BY <1>5 DEF RefcountExact, Counted, Linked, Holders
<1>7. QED
  BY <1>1, <1>2, <1>3, <1>4, <1>6 DEF Safe, ModulesOK

\* Of one process, in the form that the actions give.
LEMMA OneQuietStep ==
  ASSUME Safe, UNCHANGED <<mod, listed, holds, mutex>>, NEW p \in Procs, QuietMove(p),
         \A q \in Procs \ {p} : pc'[q] = pc[q] /\ mine'[q] = mine[q] /\ name'[q] = name[q]
  PROVE  Safe'
<1>1. \A q \in Procs : QuietMove(q)
  BY DEF QuietMove
<1>2. QED
  BY <1>1, QuietStep

-----------------------------------------------------------------------------
(* Steps that change one module, which is not live before or after.        *)

\* Process p changes o, which nobody else owns.
LEMMA OwnStep ==
  ASSUME Safe, NEW p \in Procs, NEW o \in Objs,
         UNCHANGED <<holds, mutex>>,
         pc[p] \notin {"putinit", "readd"}, pc'[p] \notin {"putinit", "readd"},
         \A q \in Procs \ {p} :
            /\ pc'[q] = pc[q] /\ mine'[q] = mine[q] /\ name'[q] = name[q]
            /\ pc[q] \in OwnPcs => mine[q] # o,
         pc[p] \in OwnPcs => mine[p] = o,
         pc'[p] \in OwnPcs => mine'[p] = o,
         pc'[p] \in OwnPcs \/ o \notin listed',
         Placed(p)',
         mod' \in [Objs -> ModuleType], listed' \subseteq Objs,
         \A x \in Objs \ {o} : mod'[x] = mod[x] /\ (x \in listed' <=> x \in listed),
         mod[o].state # "LIVE", mod'[o].state # "LIVE", mod'[o].uses = mod[o].uses,
         mod'[o].state = "FREE" => mod'[o] = Blank,
         o \in listed' => mod'[o].state \notin {"FREE", "NEW"},
         mod'[o].ref \in 0 .. 2,
         o \in listed' => (o \in listed /\ mod'[o].name = mod[o].name)
                          \/ \A x \in listed : mod[x].name # mod'[o].name
  PROVE  Safe'
<1>1. /\ ModuleTypes /\ AllPlaced /\ OneOwner /\ ModulesOK
      /\ UniqueNames /\ UsedIsLive /\ RefcountExact
  BY DEF Safe
<1>2. ModuleTypes'
  BY <1>1 DEF ModuleTypes
<1>3. \A x \in Objs : mod'[x].uses = mod[x].uses /\ (mod[x].state = "LIVE" <=> mod'[x].state = "LIVE")
  OBVIOUS
<1>4. AllPlaced'
  <2>1. ASSUME NEW q \in Procs \ {p}
        PROVE  Placed(q)'
    <3>1. Placed(q) /\ (pc[q] \in OwnPcs => mine[q] \in Objs \ {o})
      BY <1>1 DEF AllPlaced, Placed
    <3>2. pc[q] = "readd" => mod'[mine[q]].state = "LIVE"
      BY <1>3, <3>1 DEF Placed
    <3>3. QED
      BY <3>1, <3>2, OtherPlaced
  <2>2. QED
    BY <2>1 DEF AllPlaced
<1>5. OneOwner'
  <2>1. ASSUME NEW a \in Procs, NEW b \in Procs, a # b, pc'[a] \in OwnPcs, pc'[b] \in OwnPcs
        PROVE  mine'[a] # mine'[b]
    <3>1. CASE a = p
      BY <2>1, <3>1
    <3>2. CASE b = p
      BY <2>1, <3>2
    <3>3. CASE a # p /\ b # p
      BY <1>1, <2>1, <3>3 DEF OneOwner
    <3>4. QED
      BY <3>1, <3>2, <3>3
  <2>2. QED
    BY <2>1 DEF OneOwner
<1>6. ModulesOK'
  <2>1. ASSUME NEW x \in Objs \ {o}
        PROVE  ModuleOK(x)'
    <3>1. ModuleOK(x)
      BY <1>1 DEF ModulesOK
    <3>2. Owned(x) => Owned(x)'
      BY DEF Owned
    <3>3. QED
      BY <3>1, <3>2 DEF ModuleOK
  <2>2. ModuleOK(o)'
    BY DEF ModuleOK, Owned
  <2>3. QED
    BY <2>1, <2>2 DEF ModulesOK
<1>7. UniqueNames'
  <2>1. ASSUME NEW x \in listed', NEW y \in listed', mod'[x].name = mod'[y].name
        PROVE  x = y
    <3>1. CASE x # o /\ y # o
      BY <1>1, <2>1, <3>1 DEF UniqueNames
    <3>2. CASE o \in listed /\ mod'[o].name = mod[o].name
      BY <1>1, <2>1, <3>2 DEF UniqueNames
    <3>3. CASE \A z \in listed : mod[z].name # mod'[o].name
      BY <2>1, <3>1, <3>3
    <3>4. QED
      BY <3>1, <3>2, <3>3
  <2>2. QED
    BY <2>1 DEF UniqueNames
<1>8. UsedIsLive'
  <2>1. ASSUME NEW x \in Objs, NEW y \in mod'[x].uses
        PROVE  mod'[y].state = "LIVE"
    <3>1. y \in Objs /\ mod[y].state = "LIVE"
      BY <1>1, <1>3, <2>1 DEF UsedIsLive, ModuleTypes, ModuleType
    <3>2. QED
      BY <1>3, <3>1
  <2>2. ASSUME NEW u \in Users, holds'[u] # None
        PROVE  mod'[holds'[u]].state = "LIVE"
    <3>1. holds[u] \in Objs /\ mod[holds[u]].state = "LIVE"
      BY <1>1, <2>2 DEF UsedIsLive, ModuleTypes
    <3>2. QED
      BY <1>3, <3>1
  <2>3. QED
    BY <2>1, <2>2 DEF UsedIsLive
<1>9. RefcountExact'
  <2>1. ASSUME NEW x \in Objs
        PROVE  Counted(x)'
    <3>1. (Loading(x)' <=> Loading(x)) /\ (Releasing(x)' <=> Releasing(x))
      <4>1. \A q \in Procs :
              \/ pc'[q] = pc[q] /\ mine'[q] = mine[q]
              \/ pc[q] \notin {"putinit", "readd"} /\ pc'[q] \notin {"putinit", "readd"}
        OBVIOUS
      <4>2. QED
        BY <4>1, LoadersKept
    <3>2. Linked(x)' = Linked(x) /\ Holders(x)' = Holders(x)
      BY <1>3 DEF Linked, Holders
    <3>3. Counted(x) /\ (mod[x].state = "LIVE" => mod'[x].ref = mod[x].ref)
      BY <1>1, CountedExact
    <3>4. QED
      BY <1>3, <3>1, <3>2, <3>3 DEF Counted
  <2>2. QED
    BY <2>1 DEF RefcountExact, Counted, Linked, Holders
<1>10. QED
  BY <1>2, <1>4, <1>5, <1>6, <1>7, <1>8, <1>9 DEF Safe

-----------------------------------------------------------------------------
(* The actions that change no module.                                      *)

\* The actions of load_module, delete_module and the wrapper that change the process alone.
QuietAction(p) ==
    \/ Call(p) \/ Signal(p) \/ EarlyModCheck(p) \/ AllocateFails(p) \/ WaitFinished(p)
    \/ Resolved(p) \/ PrepareComing(p) \/ LoadFails(p) \/ LogModule(p) \/ LogPageFails(p)
    \/ (\E o \in Objs : ResolveWait(p, o)) \/ ResolveFails(p) \/ InitFails(p)
    \/ DeleteRefused(p) \/ WakeAll(p)
    \/ AddUnformedModule(p) /\ UNCHANGED modVars

\* To a label of a process that has no module.
LEMMA ToNoModule ==
  ASSUME ProcTypes, Safe, NEW p \in Procs, NEW l \in NoModule, Goto(p, l),
         pc[p] \in NoModule, UNCHANGED mine
  PROVE  /\ QuietMove(p)
         /\ \A q \in Procs \ {p} : pc'[q] = pc[q] /\ mine'[q] = mine[q]
<1>1. mine[p] = None /\ pc[p] \notin OwnPcs /\ pc[p] \notin {"putinit", "readd"}
  BY DEF Safe, AllPlaced, Placed, NoModule, OwnPcs
<1>2. QED
  BY <1>1, GotoFacts DEF QuietMove

\* Out of the call.
LEMMA ToReturn ==
  ASSUME ProcTypes, NEW p \in Procs, NEW r \in {"ok", "err"}, Return(p, r),
         pc[p] \notin {"putinit", "readd"}, pc[p] \in OwnPcs => PageFails
  PROVE  /\ QuietMove(p)
         /\ \A q \in Procs \ {p} : pc'[q] = pc[q] /\ mine'[q] = mine[q]
<1>1. {"complete", "idle"} \subseteq NoModule
  BY DEF NoModule
<1>2. QED
  BY <1>1, ReturnFacts DEF QuietMove

\* From one place of a load to the next.
LEMMA ToOwn ==
  ASSUME ProcTypes, NEW p \in Procs, NEW l, Goto(p, l), <<pc[p], l>> \in OwnMoves,
         UNCHANGED <<mine, name>>
  PROVE  /\ QuietMove(p)
         /\ \A q \in Procs \ {p} : pc'[q] = pc[q] /\ mine'[q] = mine[q]
BY GotoFacts DEF QuietMove

LEMMA QuietActions ==
  ASSUME ProcTypes, Safe, NEW p \in Procs, QuietAction(p)
  PROVE  Safe'
<1> DEFINE Step == /\ QuietMove(p)
                   /\ \A q \in Procs \ {p} : pc'[q] = pc[q] /\ mine'[q] = mine[q]
<1> DEFINE Rest0 == /\ UNCHANGED <<mod, listed, holds, mutex>>
                    /\ \A q \in Procs \ {p} : name'[q] = name[q]
<1>a. ASSUME Step, Rest0 PROVE Safe'
  BY <1>a, OneQuietStep
<1>1. CASE \E n \in Names : InitModule(p, n)
  <2>1. PICK n \in Names : InitModule(p, n)
    BY <1>1
  <2>2. Rest0
    BY <2>1 DEF InitModule, ProcTypes, modVars
  <2>3. Goto(p, "early") /\ UNCHANGED mine /\ pc[p] \in NoModule /\ "early" \in NoModule
    BY <2>1 DEF InitModule, NoModule
  <2>4. Step
    BY <2>3, ToNoModule
  <2>5. QED
    BY <2>2, <2>4, <1>a
<1>2. CASE \E n \in Names : DeleteModule(p, n)
  <2>1. PICK n \in Names : DeleteModule(p, n)
    BY <1>2
  <2>2. Rest0
    BY <2>1 DEF DeleteModule, ProcTypes, modVars
  <2>3. Goto(p, "delete") /\ UNCHANGED mine /\ pc[p] \in NoModule /\ "delete" \in NoModule
    BY <2>1 DEF DeleteModule, NoModule
  <2>4. Step
    BY <2>3, ToNoModule
  <2>5. QED
    BY <2>2, <2>4, <1>a
<1>3. CASE \E n \in Names : FinitModule(p, n)
  <2>1. PICK n \in Names : FinitModule(p, n)
    BY <1>3
  <2>2. Rest0
    BY <2>1 DEF FinitModule, ProcTypes, modVars
  <2>3. /\ Goto(p, "idem_wait") \/ Goto(p, "early")
        /\ UNCHANGED mine /\ pc[p] \in NoModule /\ "early" \in NoModule /\ "idem_wait" \in NoModule
    BY <2>1 DEF FinitModule, NoModule
  <2>4. Step
    BY <2>3, ToNoModule
  <2>5. QED
    BY <2>2, <2>4, <1>a
<1>4. CASE IdempotentInterrupted(p)
  <2>2. Rest0
    BY <1>4 DEF IdempotentInterrupted, modVars
  <2>3. Goto(p, "idle") /\ UNCHANGED mine /\ pc[p] \in NoModule /\ "idle" \in NoModule
    BY <1>4 DEF IdempotentInterrupted, NoModule
  <2>4. Step
    BY <2>3, ToNoModule
  <2>5. QED
    BY <2>2, <2>4, <1>a
<1>5. CASE WaitInterrupted(p)
  <2>2. Rest0
    BY <1>5 DEF WaitInterrupted, modVars
  <2>3. CASE pc[p] = "early_wait"
    <3>1. Return(p, "err") /\ pc[p] \notin OwnPcs /\ pc[p] \notin {"putinit", "readd"}
      BY <1>5, <2>3 DEF WaitInterrupted, OwnPcs, NoModule
    <3>2. Step
      BY <3>1, ToReturn
    <3>3. QED
      BY <2>2, <3>2, <1>a
  <2>4. CASE pc[p] = "add_wait"
    <3>1. Goto(p, "dealloc") /\ UNCHANGED <<mine, name>> /\ <<pc[p], "dealloc">> \in OwnMoves
      BY <1>5, <2>4 DEF WaitInterrupted, OwnMoves
    <3>2. Step
      BY <3>1, ToOwn
    <3>3. QED
      BY <2>2, <3>2, <1>a
  <2>5. QED
    BY <1>5, <2>3, <2>4 DEF WaitInterrupted
<1>6. CASE WaitFinished(p)
  <2>2. Rest0
    BY <1>6 DEF WaitFinished, modVars
  <2>0. CASE UNCHANGED <<pc, mine, name>>
    BY <2>0, <2>2, <1>a DEF QuietMove
  <2>3. CASE pc[p] = "early_wait" /\ Return(p, "err")
    <3>1. pc[p] \notin OwnPcs /\ pc[p] \notin {"putinit", "readd"}
      BY <2>3 DEF OwnPcs, NoModule
    <3>2. Step
      BY <2>3, <3>1, ToReturn
    <3>3. QED
      BY <2>2, <3>2, <1>a
  <2>4. CASE pc[p] = "add_wait" /\ Goto(p, "dealloc") /\ UNCHANGED <<mine, name>>
    <3>1. <<pc[p], "dealloc">> \in OwnMoves
      BY <2>4 DEF OwnMoves
    <3>2. Step
      BY <2>4, <3>1, ToOwn
    <3>3. QED
      BY <2>2, <3>2, <1>a
  <2>5. QED
    BY <1>6, <2>0, <2>3, <2>4 DEF WaitFinished
<1>7. CASE EarlyModCheck(p)
  <2>2. Rest0
    BY <1>7 DEF EarlyModCheck, modVars
  <2>3. pc[p] = "early" /\ pc[p] \in NoModule /\ pc[p] \notin OwnPcs
        /\ "alloc" \in NoModule /\ "early_wait" \in NoModule
    BY <1>7 DEF EarlyModCheck, NoModule, OwnPcs
  <2>4. CASE Goto(p, "alloc") /\ UNCHANGED mine
    BY <2>2, <2>3, <2>4, <1>a, ToNoModule
  <2>5. CASE Goto(p, "early_wait") /\ UNCHANGED mine
    BY <2>2, <2>3, <2>5, <1>a, ToNoModule
  <2>6. CASE Return(p, "err")
    BY <2>2, <2>3, <2>6, <1>a, ToReturn
  <2>7. QED
    BY <1>7, <2>4, <2>5, <2>6 DEF EarlyModCheck
<1>8. CASE AllocateFails(p) \/ DeleteRefused(p)
  <2>1. Return(p, "err") /\ pc[p] \notin OwnPcs /\ pc[p] \notin {"putinit", "readd"}
    BY <1>8 DEF AllocateFails, DeleteRefused, OwnPcs, NoModule
  <2>2. Rest0
    BY <1>8 DEF AllocateFails, DeleteRefused, modVars
  <2>3. QED
    BY <2>1, <2>2, <1>a, ToReturn
<1>9. CASE WakeAll(p)
  <2>1. Return(p, ret[p]) /\ pc[p] \notin OwnPcs /\ pc[p] \notin {"putinit", "readd"}
    BY <1>9 DEF WakeAll, OwnPcs, Sharing
  <2>2. Rest0
    BY <1>9 DEF WakeAll, modVars
  <2>3. ret[p] \in {"ok", "err"}
    BY DEF ProcTypes
  <2>4. QED
    BY <2>1, <2>2, <2>3, <1>a, ToReturn
<1>10. CASE LogPageFails(p)
  <2>1. Return(p, "ok") /\ PageFails /\ pc[p] \notin {"putinit", "readd"}
    BY <1>10 DEF LogPageFails
  <2>2. Rest0
    BY <1>10 DEF LogPageFails, modVars
  <2>3. QED
    BY <2>1, <2>2, <1>a, ToReturn
<1>11. CASE \E o \in Objs : ResolveWait(p, o)
  <2>1. UNCHANGED <<pc, mine, name, mod, listed, holds, mutex>>
    BY <1>11 DEF ResolveWait, procVars, modVars
  <2>2. QED
    BY <2>1, <1>a DEF QuietMove
<1>12. CASE \/ Resolved(p) \/ PrepareComing(p) \/ LogModule(p) \/ InitFails(p) \/ ResolveFails(p)
            \/ LoadFails(p)
  <2>1. /\ \E l \in Pcs : Goto(p, l) /\ <<pc[p], l>> \in OwnMoves
        /\ UNCHANGED <<mine, name>>
    <3>1. CASE LoadFails(p)
      BY <3>1 DEF LoadFails, OwnMoves, procVars, Pcs, LoadPcs
    <3>2. QED
      BY <1>12, <3>1 DEF Resolved, PrepareComing, LogModule, InitFails, ResolveFails,
                         OwnMoves, procVars, Pcs, LoadPcs
  <2>2. Rest0
    BY <1>12 DEF Resolved, PrepareComing, LogModule, InitFails, ResolveFails, LoadFails,
                 procVars, modVars
  <2>3. QED
    BY <2>1, <2>2, <1>a, ToOwn
<1>13. CASE AddUnformedModule(p) /\ UNCHANGED modVars
  <2>2. Rest0
    BY <1>13 DEF AddUnformedModule, procVars, modVars
  <2>3. CASE Goto(p, "add_wait") \/ Goto(p, "dealloc")
    <3>1. /\ <<pc[p], "add_wait">> \in OwnMoves /\ <<pc[p], "dealloc">> \in OwnMoves
          /\ UNCHANGED <<mine, name>>
      BY <1>13 DEF AddUnformedModule, OwnMoves, procVars
    <3>2. QED
      BY <2>2, <2>3, <3>1, <1>a, ToOwn
  <2>4. ~ (listed' = listed \cup {mine[p]})
    <3>1. pc[p] = "add"
      BY <1>13 DEF AddUnformedModule
    <3>2. mine[p] \notin listed
      BY <3>1, Labels DEF Safe, AllPlaced, Placed, Unlinked
    <3>3. QED
      BY <1>13, <3>2 DEF modVars
  <2>5. QED
    BY <1>13, <2>3, <2>4 DEF AddUnformedModule
<1>14. QED
  BY <1>1, <1>2, <1>3, <1>4, <1>5, <1>6, <1>7, <1>8, <1>9, <1>10, <1>11, <1>12, <1>13
     DEF QuietAction, Call, Signal

\* The winner and those that wait for it all leave idem_hash; none of them has a module.
LEMMA CompleteQuiet ==
  ASSUME ProcTypes, Safe, IdemOK, NEW p \in Procs, IdempotentComplete(p)
  PROVE  Safe'
<1> DEFINE same == {q \in idem : name[q] = name[p]}
<1>1. /\ pc[p] = "complete" /\ p \in same
      /\ \A q \in Procs : pc'[q] = IF q \in same THEN "idle" ELSE pc[q]
      /\ UNCHANGED <<mod, listed, holds, mutex, name, mine>>
  BY DEF IdempotentComplete, IdemOK, modVars
<1>2. ASSUME NEW q \in Procs
      PROVE  QuietMove(q)
  <2>1. CASE q \in same
    <3>1. pc[q] \in {"idem_wait", "complete"}
      BY <1>1, <2>1 DEF IdemOK
    <3>2. mine[q] = None /\ pc[q] \notin OwnPcs /\ "idle" \in NoModule
      BY <3>1 DEF Safe, AllPlaced, Placed, NoModule, OwnPcs
    <3>3. QED
      BY <1>1, <2>1, <3>1, <3>2 DEF QuietMove
  <2>2. CASE q \notin same
    BY <1>1, <2>2 DEF QuietMove
  <2>3. QED
    BY <2>1, <2>2
<1>3. UNCHANGED <<mod, listed, holds, mutex>>
  BY <1>1
<1>4. QED
  BY <1>2, <1>3, QuietStep

-----------------------------------------------------------------------------
(* The actions that change the module of the process alone.                *)

\* What is known of it.
LEMMA OwnFacts ==
  ASSUME ProcTypes, Safe, NEW p \in Procs, pc[p] \in OwnPcs \ {"putinit"}
  PROVE  LET o == mine[p] IN
         /\ o \in Objs /\ mod[o] \in ModuleType
         /\ mod[o].state \in StatesAt(pc[p]) /\ mod[o].state \notin {"FREE", "LIVE"}
         /\ mod[o].ref \in 0 .. 2 /\ o # None
         /\ pc[p] # "readd" /\ mutex # p /\ Placed(p)
         /\ \A q \in Procs \ {p} : pc[q] \in OwnPcs => mine[q] # o
<1>1. Placed(p) /\ OneOwner /\ ModulesOK /\ ModuleTypes
  BY DEF Safe, AllPlaced
<1>2. mine[p] \in Objs /\ mod[mine[p]].state \notin {"FREE", "LIVE"}
  BY <1>1, OwnedStates
<1>3. mod[mine[p]].ref \in 0 .. 2
  BY <1>1, <1>2 DEF ModulesOK, ModuleOK
<1>4. pc[p] # "readd"
  BY Labels
<1>5. mutex # p
  BY <1>1, <1>4 DEF Placed
<1>6. \A q \in Procs \ {p} : pc[q] \in OwnPcs => mine[q] # mine[p]
  BY <1>1 DEF OneOwner
<1>7. mod[mine[p]].state \in StatesAt(pc[p]) /\ mod[mine[p]] \in ModuleType /\ mine[p] # None
  BY <1>1, <1>2 DEF Placed, ModuleTypes
<1>8. QED
  BY <1>1, <1>2, <1>3, <1>4, <1>5, <1>6, <1>7

LEMMA AllocateSafe ==
  ASSUME ProcTypes, Safe, NEW p \in Procs, Allocate(p)
  PROVE  Safe'
<1>1. PICK o \in Objs :
        /\ mod[o].state = "FREE"
        /\ mod' = [mod EXCEPT ![o] = [Blank EXCEPT !.name = name[p], !.state = "NEW"]]
        /\ mine' = [mine EXCEPT ![p] = o]
  BY DEF Allocate
<1>2. /\ pc[p] = "alloc" /\ pc'[p] = "add" /\ mine'[p] = o
      /\ UNCHANGED <<name, listed, holds, mutex>>
      /\ \A q \in Procs \ {p} : pc'[q] = pc[q] /\ mine'[q] = mine[q] /\ name'[q] = name[q]
  BY <1>1, GotoFacts DEF Allocate, ProcTypes
<1>3. /\ pc[p] \notin OwnPcs /\ pc'[p] \in OwnPcs /\ pc'[p] \notin Sharing
      /\ pc[p] \notin {"putinit", "readd"} /\ pc'[p] \notin {"putinit", "readd"}
  BY <1>2, Labels DEF NoModule, OwnPcs, Sharing
<1>4. ModuleTypes /\ AllPlaced /\ ModulesOK
  BY DEF Safe
<1>5. \A q \in Procs : pc[q] \in OwnPcs => mine[q] # o
  BY <1>1, <1>4, OwnedStates DEF AllPlaced
<1>6. /\ mod[o] = Blank /\ o \notin listed /\ mod[o].uses = {}
  <2>1. mod[o] = Blank /\ o \notin listed
    BY <1>1, <1>4 DEF ModulesOK, ModuleOK
  <2>2. QED
    BY <2>1 DEF Blank
<1>7. mod'[o] = [name |-> name[p], state |-> "NEW", ref |-> 0, uses |-> {}]
  BY <1>1, <1>4 DEF Blank, ModuleTypes
<1>8. mod' \in [Objs -> ModuleType] /\ \A x \in Objs \ {o} : mod'[x] = mod[x]
  <2>1. [name |-> name[p], state |-> "NEW", ref |-> 0, uses |-> {}] \in ModuleType
    <3>1. name[p] \in Names \cup {None} /\ "NEW" \in States
      BY DEF ProcTypes, States
    <3>2. QED
      BY <3>1 DEF ModuleType
  <2>2. mod'[o] \in ModuleType /\ \A x \in Objs \ {o} : mod'[x] = mod[x]
    BY <2>1, <1>1, <1>4, <1>7 DEF ModuleTypes
  <2>3. QED
    BY <2>2, <1>1, <1>4 DEF ModuleTypes
<1>9. Placed(p)'
  <2>1. /\ "add" \notin NoModule /\ "add" \in Unlinked /\ "add" \notin Counting
        /\ StatesAt("add") = {"NEW"}
    BY DEF NoModule, Unlinked, Counting, StatesAt
  <2>2. mutex # p
    BY <1>2, <1>4 DEF AllPlaced, Placed
  <2>3. QED
    BY <1>2, <1>6, <1>7, <2>1, <2>2 DEF Placed
<1>10. /\ UNCHANGED <<holds, mutex>> /\ listed' \subseteq Objs /\ o \notin listed'
       /\ mod[o].state # "LIVE"
       /\ mod'[o].state = "NEW" /\ mod'[o].uses = mod[o].uses /\ mod'[o].ref \in 0 .. 2
       /\ \A x \in Objs \ {o} : mod'[x] = mod[x] /\ (x \in listed' <=> x \in listed)
       /\ \A q \in Procs \ {p} :
            /\ pc'[q] = pc[q] /\ mine'[q] = mine[q] /\ name'[q] = name[q]
            /\ pc[q] \in OwnPcs => mine[q] # o
  <2>1. listed' \subseteq Objs /\ UNCHANGED <<holds, mutex>> /\ o \notin listed'
    BY <1>2, <1>4, <1>6 DEF ModuleTypes
  <2>0. mod[o].state # "LIVE"
    BY <1>1
  <2>2. /\ mod'[o].state = "NEW" /\ mod'[o].uses = {}
        /\ mod'[o].ref = 0
    BY <1>7
  <2>3. QED
    BY <2>0, <2>1, <2>2, <1>2, <1>5, <1>6, <1>8
<1>11. QED
  BY <1>2, <1>3, <1>8, <1>9, <1>10, OwnStep

\* Only o changes, to state s with count k; what it uses and its name stay.
Becomes(o, s, k) ==
    /\ mod'[o].state = s /\ mod'[o].ref = k
    /\ mod'[o].uses = mod[o].uses /\ mod'[o].name = mod[o].name
    /\ \A x \in Objs \ {o} : mod'[x] = mod[x]
    /\ mod' \in [Objs -> ModuleType]

LEMMA BothSet ==
  ASSUME ModuleTypes, NEW o \in Objs, NEW s \in States, NEW k \in Nat,
         \/ mod' = [mod EXCEPT ![o].state = s, ![o].ref = k]
         \/ mod' = [mod EXCEPT ![o].ref = k, ![o].state = s]
  PROVE  Becomes(o, s, k)
<1>1. mod \in [Objs -> ModuleType]
  BY DEF ModuleTypes
<1>2. /\ \/ mod'[o] = [mod[o] EXCEPT !.state = s, !.ref = k]
         \/ mod'[o] = [mod[o] EXCEPT !.ref = k, !.state = s]
      /\ \A x \in Objs \ {o} : mod'[x] = mod[x]
      /\ DOMAIN mod' = Objs
  BY <1>1
<1>3. mod[o] \in ModuleType
  BY <1>1
<1>4. /\ mod'[o].state = s /\ mod'[o].ref = k
      /\ mod'[o].uses = mod[o].uses /\ mod'[o].name = mod[o].name
  BY <1>2, <1>3 DEF ModuleType
<1>5. QED
  BY <1>1, <1>2, <1>3, <1>4 DEF ModuleType, Becomes

LEMMA StateSet ==
  ASSUME ModuleTypes, NEW o \in Objs, NEW s \in States,
         mod' = [mod EXCEPT ![o].state = s]
  PROVE  Becomes(o, s, mod[o].ref)
<1>1. mod \in [Objs -> ModuleType]
  BY DEF ModuleTypes
<1>2. /\ mod'[o] = [mod[o] EXCEPT !.state = s]
      /\ \A x \in Objs \ {o} : mod'[x] = mod[x]
      /\ DOMAIN mod' = Objs
  BY <1>1
<1>3. mod[o] \in ModuleType
  BY <1>1
<1>4. /\ mod'[o].state = s /\ mod'[o].ref = mod[o].ref
      /\ mod'[o].uses = mod[o].uses /\ mod'[o].name = mod[o].name
  BY <1>2, <1>3 DEF ModuleType
<1>5. QED
  BY <1>1, <1>2, <1>3, <1>4 DEF ModuleType, Becomes

LEMMA RefSet ==
  ASSUME ModuleTypes, NEW o \in Objs, NEW k \in Nat,
         mod' = [mod EXCEPT ![o].ref = k]
  PROVE  Becomes(o, mod[o].state, k)
<1>1. mod \in [Objs -> ModuleType]
  BY DEF ModuleTypes
<1>2. /\ mod'[o] = [mod[o] EXCEPT !.ref = k]
      /\ \A x \in Objs \ {o} : mod'[x] = mod[x]
      /\ DOMAIN mod' = Objs
  BY <1>1
<1>3. mod[o] \in ModuleType
  BY <1>1
<1>4. /\ mod'[o].state = mod[o].state /\ mod'[o].ref = k
      /\ mod'[o].uses = mod[o].uses /\ mod'[o].name = mod[o].name
  BY <1>2, <1>3 DEF ModuleType
<1>5. QED
  BY <1>1, <1>2, <1>3, <1>4 DEF ModuleType, Becomes

\* From one own label to the next with another state or count, the links as they were.
LEMMA Proceeds ==
  ASSUME ProcTypes, Safe, NEW p \in Procs, NEW l \in OwnPcs \ {"putinit"},
         pc[p] \in OwnPcs \ {"putinit"}, Goto(p, l),
         UNCHANGED <<mine, name, holds, mutex>>,
         NEW s \in States \ {"FREE", "LIVE"}, NEW k \in 0 .. 2,
         Becomes(mine[p], s, k),
         listed' \subseteq Objs,
         \A x \in Objs \ {mine[p]} : x \in listed' <=> x \in listed,
         mine[p] \in listed' => s # "NEW",
         mine[p] \in listed' => mine[p] \in listed \/ \A x \in listed : mod[x].name # mod[mine[p]].name,
         s \in StatesAt(l), mine[p] \in listed' <=> l \notin Unlinked,
         l \in Bare => mod[mine[p]].uses = {},
         l \in Counting => k = 2,
         l \notin {"add", "add_wait"}
  PROVE  Safe'
<1> DEFINE o == mine[p]
<1>1. /\ o \in Objs /\ mod[o] \in ModuleType
      /\ mod[o].state \notin {"FREE", "LIVE"}
      /\ pc[p] # "readd" /\ mutex # p
      /\ \A q \in Procs \ {p} : pc[q] \in OwnPcs => mine[q] # o
  BY OwnFacts
<1>2. /\ pc'[p] = l /\ \A q \in Procs \ {p} : pc'[q] = pc[q] /\ mine'[q] = mine[q] /\ name'[q] = name[q]
  BY GotoFacts
<1>3. l \notin {"putinit", "readd"} /\ l \notin NoModule /\ pc[p] \notin {"putinit", "readd"}
  BY Labels DEF OwnPcs, Sharing
<1>4. mod \in [Objs -> ModuleType]
  BY DEF Safe, ModuleTypes
<1>6. /\ mod'[o].state = s /\ mod'[o].ref = k
      /\ mod'[o].uses = mod[o].uses /\ mod'[o].name = mod[o].name
      /\ \A x \in Objs \ {o} : mod'[x] = mod[x]
      /\ mod' \in [Objs -> ModuleType]
  BY DEF Becomes
<1>8. Placed(p)'
  BY <1>1, <1>2, <1>3, <1>6 DEF Placed
<1>9. /\ pc'[p] \in OwnPcs /\ mine'[p] = o
  BY <1>2
<1> HIDE DEF o
<1>10. QED
  BY <1>1, <1>2, <1>3, <1>6, <1>8, <1>9, OwnStep DEF o

\* AddUnformedModule puts the module on the list when no other has its name.
LEMMA AddSafe ==
  ASSUME ProcTypes, Safe, NEW p \in Procs, AddUnformedModule(p), ~UNCHANGED modVars
  PROVE  Safe'
<1> DEFINE o == mine[p]
<1>1. /\ pc[p] = "add" /\ Goto(p, "setup") /\ UNCHANGED <<mine, name, holds, mutex>>
      /\ Found(name[p]) = {} /\ listed' = listed \cup {o}
      /\ mod' = [mod EXCEPT ![o].state = "UNFORMED"]
  BY DEF AddUnformedModule, procVars
<1>2. pc[p] \in OwnPcs \ {"putinit"} /\ "setup" \in OwnPcs \ {"putinit"}
  BY <1>1, Labels
<1>3. /\ o \in Objs /\ mod[o] \in ModuleType /\ mod[o].ref \in 0 .. 2 /\ Placed(p)
  BY <1>2, OwnFacts
<1>4. /\ mod[o].name = name[p] /\ mod[o].uses = {} /\ listed \subseteq Objs /\ ModuleTypes
  BY <1>1, <1>3 DEF Placed, Bare, Safe, ModuleTypes
<1>5. \A x \in listed : mod[x].name # mod[o].name
  BY <1>1, <1>4 DEF Found
<1>6. /\ "setup" \notin Unlinked /\ "setup" \notin Counting /\ StatesAt("setup") = {"UNFORMED"}
      /\ "UNFORMED" \in States \ {"FREE", "LIVE"}
  BY DEF Unlinked, Counting, StatesAt, States
<1>7. /\ listed' \subseteq Objs /\ o \in listed'
      /\ \A x \in Objs \ {o} : x \in listed' <=> x \in listed
  BY <1>1, <1>3, <1>4
<1>8. Becomes(o, "UNFORMED", mod[o].ref)
  BY <1>1, <1>3, <1>4, <1>6, StateSet
<1> HIDE DEF o
<1>9. QED
  BY <1>1, <1>2, <1>3, <1>4, <1>5, <1>6, <1>7, <1>8, Proceeds DEF o

\* The steps of an owner, with the state and the count its module gets.
OwnAction(p) ==
    \/ UnloadInit(p) \/ CompleteFormation(p) \/ InitUndo(p) \/ UndoGoing(p) \/ UndoList(p)
    \/ FreeUnform(p)

\* What they leave alone.
LEMMA OwnListed ==
  ASSUME ProcTypes, Safe, NEW p \in Procs, NEW l \in OwnPcs \ {"putinit"},
         pc[p] \in OwnPcs \ {"putinit"}, Goto(p, l),
         UNCHANGED <<mine, name, holds, mutex, listed>>,
         NEW s \in States \ {"FREE", "LIVE", "NEW"}, NEW k \in 0 .. 2,
         Becomes(mine[p], s, k), s \in StatesAt(l),
         l \notin Unlinked, pc[p] \notin Unlinked,
         l \in Bare => pc[p] \in Bare, l \in Counting => k = 2
  PROVE  Safe'
<1>1. Placed(p) /\ listed \subseteq Objs
  BY DEF Safe, AllPlaced, ModuleTypes
<1>2. mine[p] \in listed /\ l \notin {"add", "add_wait"}
  BY <1>1 DEF Placed, Unlinked
<1>3. l \in Bare => mod[mine[p]].uses = {}
  BY <1>1 DEF Placed
<1>4. QED
  BY <1>1, <1>2, <1>3, Proceeds

LEMMA OwnActions ==
  ASSUME ProcTypes, Safe, NEW p \in Procs, OwnAction(p)
  PROVE  Safe'
<1> DEFINE o == mine[p]
<1>0. ModuleTypes
  BY DEF Safe
<1>1. CASE UnloadInit(p)
  <2>1. /\ pc[p] = "setup" /\ Goto(p, "resolve") /\ UNCHANGED <<mine, name, holds, mutex, listed>>
        /\ mod' = [mod EXCEPT ![o].ref = 2]
    BY <1>1 DEF UnloadInit, procVars
  <2>2. pc[p] \in OwnPcs \ {"putinit"} /\ "resolve" \in OwnPcs \ {"putinit"}
    BY <2>1, Labels
  <2>3. o \in Objs /\ mod[o].state \in StatesAt("setup")
    BY <2>1, <2>2, OwnFacts
  <2>4. /\ mod[o].state = "UNFORMED" /\ "UNFORMED" \in StatesAt("resolve")
        /\ "UNFORMED" \in States \ {"FREE", "LIVE", "NEW"}
    BY <2>3 DEF StatesAt, States
  <2>5. Becomes(o, "UNFORMED", 2)
    <3>1. Becomes(o, mod[o].state, 2)
      BY <1>0, <2>1, <2>3, RefSet
    <3>2. QED
      BY <2>4, <3>1, Zenon
  <2>6. "resolve" \notin Unlinked /\ pc[p] \notin Unlinked /\ "resolve" \notin Bare
    BY <2>1 DEF Unlinked, Bare
  <2>7. QED
    BY <2>1, <2>2, <2>4, <2>5, <2>6, OwnListed
<1>2. CASE CompleteFormation(p)
  <2>1. /\ pc[p] = "form" /\ Goto(p, "coming") /\ UNCHANGED <<mine, name, holds, mutex, listed>>
        /\ mod' = [mod EXCEPT ![o].state = "COMING"]
    BY <1>2 DEF CompleteFormation, procVars
  <2>2. pc[p] \in OwnPcs \ {"putinit"} /\ "coming" \in OwnPcs \ {"putinit"}
    BY <2>1, Labels
  <2>3. o \in Objs /\ mod[o].ref = 2
    BY <2>1, <2>2, OwnFacts DEF Placed, Counting
  <2>4. /\ "COMING" \in StatesAt("coming") /\ "COMING" \in States \ {"FREE", "LIVE", "NEW"}
    BY DEF StatesAt, States
  <2>5. Becomes(o, "COMING", 2)
    BY <1>0, <2>1, <2>3, <2>4, StateSet
  <2>6. "coming" \notin Unlinked /\ pc[p] \notin Unlinked /\ "coming" \notin Bare
    BY <2>1 DEF Unlinked, Bare
  <2>7. QED
    BY <2>1, <2>2, <2>4, <2>5, <2>6, OwnListed
<1>3. CASE InitUndo(p)
  <2>1. /\ pc[p] = "failed" /\ Goto(p, "unform") /\ UNCHANGED <<mine, name, holds, mutex, listed>>
        /\ mod' = [mod EXCEPT ![o].state = "GOING", ![o].ref = IF mod[o].ref > 0 THEN mod[o].ref - 1 ELSE 0]
    BY <1>3 DEF InitUndo
  <2>2. pc[p] \in OwnPcs \ {"putinit"} /\ "unform" \in OwnPcs \ {"putinit"}
    BY <2>1, Labels
  <2>3. o \in Objs /\ mod[o].ref = 2
    BY <2>1, <2>2, OwnFacts DEF Placed, Counting
  <2>4. /\ "GOING" \in StatesAt("unform") /\ "GOING" \in States \ {"FREE", "LIVE", "NEW"}
    BY DEF StatesAt, States
  <2>5. Becomes(o, "GOING", 1)
    <3>1. (IF mod[o].ref > 0 THEN mod[o].ref - 1 ELSE 0) = 1
      BY <2>3
    <3>2. mod' = [mod EXCEPT ![o].state = "GOING", ![o].ref = 1]
      BY <2>1, <3>1, Zenon
    <3>3. QED
      BY <1>0, <2>3, <2>4, <3>2, BothSet
  <2>6. "unform" \notin Unlinked /\ pc[p] \notin Unlinked /\ "unform" \notin Bare /\ "unform" \notin Counting
    BY <2>1 DEF Unlinked, Bare, Counting
  <2>7. QED
    BY <2>1, <2>2, <2>4, <2>5, <2>6, OwnListed
<1>4. CASE UndoGoing(p)
  <2>1. /\ pc[p] = "undo_going" /\ Goto(p, "undo_uses") /\ UNCHANGED <<mine, name, holds, mutex, listed>>
        /\ mod' = [mod EXCEPT ![o].state = "GOING"]
    BY <1>4 DEF UndoGoing, procVars
  <2>2. pc[p] \in OwnPcs \ {"putinit"} /\ "undo_uses" \in OwnPcs \ {"putinit"}
    BY <2>1, Labels
  <2>3. o \in Objs /\ mod[o].ref \in 0 .. 2
    BY <2>1, <2>2, OwnFacts
  <2>4. /\ "GOING" \in StatesAt("undo_uses") /\ "GOING" \in States \ {"FREE", "LIVE", "NEW"}
    BY DEF StatesAt, States
  <2>5. Becomes(o, "GOING", mod[o].ref)
    BY <1>0, <2>1, <2>3, <2>4, StateSet
  <2>6. /\ "undo_uses" \notin Unlinked /\ pc[p] \notin Unlinked
        /\ "undo_uses" \notin Bare /\ "undo_uses" \notin Counting
    BY <2>1 DEF Unlinked, Bare, Counting
  <2>7. QED
    BY <2>1, <2>2, <2>3, <2>4, <2>5, <2>6, OwnListed
<1>5. CASE FreeUnform(p)
  <2>1. /\ pc[p] = "unform" /\ Goto(p, "unuse") /\ UNCHANGED <<mine, name, holds, mutex, listed>>
        /\ mod' = [mod EXCEPT ![o].state = "UNFORMED"]
    BY <1>5 DEF FreeUnform, procVars
  <2>2. pc[p] \in OwnPcs \ {"putinit"} /\ "unuse" \in OwnPcs \ {"putinit"}
    BY <2>1, Labels
  <2>3. o \in Objs /\ mod[o].ref \in 0 .. 2
    BY <2>1, <2>2, OwnFacts
  <2>4. /\ "UNFORMED" \in StatesAt("unuse") /\ "UNFORMED" \in States \ {"FREE", "LIVE", "NEW"}
    BY DEF StatesAt, States
  <2>5. Becomes(o, "UNFORMED", mod[o].ref)
    BY <1>0, <2>1, <2>3, <2>4, StateSet
  <2>6. /\ "unuse" \notin Unlinked /\ pc[p] \notin Unlinked
        /\ "unuse" \notin Bare /\ "unuse" \notin Counting
    BY <2>1 DEF Unlinked, Bare, Counting
  <2>7. QED
    BY <2>1, <2>2, <2>3, <2>4, <2>5, <2>6, OwnListed
<1>6. CASE UndoList(p)
  <2>1. /\ pc[p] = "undo_list" /\ Goto(p, "dealloc") /\ UNCHANGED <<mine, name, holds, mutex, mod>>
        /\ listed' = listed \ {o}
    BY <1>6 DEF UndoList, procVars
  <2>2. pc[p] \in OwnPcs \ {"putinit"} /\ "dealloc" \in OwnPcs \ {"putinit"}
    BY <2>1, Labels
  <2>3. /\ o \in Objs /\ mod[o].ref \in 0 .. 2 /\ mod[o].state \in StatesAt("undo_list") /\ Placed(p)
    BY <2>1, <2>2, OwnFacts
  <2>4. /\ mod[o].state \in StatesAt("dealloc") /\ mod[o].state \in States \ {"FREE", "LIVE"}
    BY <2>3 DEF StatesAt, States
  <2>5. Becomes(o, mod[o].state, mod[o].ref)
    BY <1>0, <2>1 DEF Becomes, ModuleTypes
  <2>6. /\ "dealloc" \in Unlinked /\ "dealloc" \notin Counting /\ mod[o].uses = {}
        /\ o \notin listed' /\ listed' \subseteq Objs
        /\ \A x \in Objs \ {o} : x \in listed' <=> x \in listed
    BY <1>0, <2>1, <2>3 DEF Unlinked, Bare, Counting, Placed, ModuleTypes
  <2>7. QED
    BY <2>1, <2>2, <2>3, <2>4, <2>5, <2>6, Proceeds
<1>7. QED
  BY <1>1, <1>2, <1>3, <1>4, <1>5, <1>6 DEF OwnAction

LEMMA DeallocateSafe ==
  ASSUME ProcTypes, Safe, NEW p \in Procs, Deallocate(p)
  PROVE  Safe'
<1> DEFINE o == mine[p]
<1>1. /\ pc[p] = "dealloc" /\ Return(p, "err") /\ UNCHANGED <<name, holds, mutex, listed>>
      /\ mod' = [mod EXCEPT ![o] = Blank]
  BY DEF Deallocate
<1>2. pc[p] \in OwnPcs \ {"putinit"}
  BY <1>1, Labels
<1>3. /\ o \in Objs /\ mod[o].state # "LIVE" /\ Placed(p) /\ mutex # p /\ ModuleTypes
      /\ \A q \in Procs \ {p} : pc[q] \in OwnPcs => mine[q] # o
  BY <1>2, OwnFacts DEF Safe
<1>4. mod[o].uses = {} /\ o \notin listed
  BY <1>1, <1>2, <1>3 DEF Placed, Bare, Unlinked
<1>5. /\ mod'[o] = Blank /\ \A x \in Objs \ {o} : mod'[x] = mod[x]
      /\ mod' \in [Objs -> ModuleType]
  <2>1. Blank \in ModuleType
    BY DEF Blank, ModuleType, States
  <2>2. QED
    BY <2>1, <1>1, <1>3 DEF ModuleTypes
<1>6. /\ mod'[o].state = "FREE" /\ mod'[o].uses = {} /\ mod'[o].ref = 0
  BY <1>5 DEF Blank
<1>7. /\ pc'[p] \in {"complete", "idle"} /\ mine'[p] = None
      /\ \A q \in Procs \ {p} : pc'[q] = pc[q] /\ mine'[q] = mine[q]
  BY <1>1, ReturnFacts
<1>8. pc'[p] \notin OwnPcs /\ Placed(p)'
  BY <1>1, <1>3, <1>7, Labels DEF Placed, NoModule, Bare, Counting
<1>9. /\ pc[p] \notin {"putinit", "readd"} /\ pc'[p] \notin {"putinit", "readd"}
      /\ listed' \subseteq Objs /\ o \notin listed' /\ UNCHANGED <<holds, mutex>>
      /\ \A x \in Objs \ {o} : mod'[x] = mod[x] /\ (x \in listed' <=> x \in listed)
      /\ \A q \in Procs \ {p} :
            /\ pc'[q] = pc[q] /\ mine'[q] = mine[q] /\ name'[q] = name[q]
            /\ pc[q] \in OwnPcs => mine[q] # o
  BY <1>1, <1>3, <1>4, <1>5, <1>7 DEF ModuleTypes
<1>10. /\ mod[o].state # "LIVE" /\ mod'[o].state # "LIVE" /\ mod'[o].uses = mod[o].uses
       /\ mod'[o].ref \in 0 .. 2 /\ o \in Objs /\ mine[p] = o
  BY <1>3, <1>4, <1>6
<1> HIDE DEF o
<1>11. QED
  BY <1>5, <1>8, <1>9, <1>10, OwnStep

LEMMA FreeUnlinkSafe ==
  ASSUME ProcTypes, Safe, NEW p \in Procs, FreeUnlink(p)
  PROVE  Safe'
<1> DEFINE o == mine[p]
<1>1. /\ pc[p] = "unlink" /\ Goto(p, "wake") /\ UNCHANGED <<name, holds, mutex>>
      /\ mod' = [mod EXCEPT ![o] = Blank]
      /\ listed' = listed \ {o} /\ mine' = [mine EXCEPT ![p] = None]
  BY DEF FreeUnlink
<1>2. pc[p] \in OwnPcs \ {"putinit"}
  BY <1>1, Labels
<1>3. /\ o \in Objs /\ mod[o].state # "LIVE" /\ Placed(p) /\ mutex # p /\ ModuleTypes
      /\ \A q \in Procs \ {p} : pc[q] \in OwnPcs => mine[q] # o
  BY <1>2, OwnFacts DEF Safe
<1>4. mod[o].uses = {}
  BY <1>1, <1>3 DEF Placed, Bare
<1>5. /\ mod'[o] = Blank /\ \A x \in Objs \ {o} : mod'[x] = mod[x]
      /\ mod' \in [Objs -> ModuleType]
  <2>1. Blank \in ModuleType
    BY DEF Blank, ModuleType, States
  <2>2. QED
    BY <2>1, <1>1, <1>3 DEF ModuleTypes
<1>6. /\ mod'[o].state = "FREE" /\ mod'[o].uses = {} /\ mod'[o].ref = 0
  BY <1>5 DEF Blank
<1>7. /\ pc'[p] = "wake" /\ mine'[p] = None
      /\ \A q \in Procs \ {p} : pc'[q] = pc[q] /\ mine'[q] = mine[q]
  BY <1>1, GotoFacts DEF ProcTypes
<1>8. pc'[p] \notin OwnPcs /\ Placed(p)'
  BY <1>1, <1>3, <1>7, Labels DEF Placed, NoModule, Bare, Counting
<1>9. /\ pc[p] \notin {"putinit", "readd"} /\ pc'[p] \notin {"putinit", "readd"}
      /\ listed' \subseteq Objs /\ o \notin listed' /\ UNCHANGED <<holds, mutex>>
      /\ \A x \in Objs \ {o} : mod'[x] = mod[x] /\ (x \in listed' <=> x \in listed)
      /\ \A q \in Procs \ {p} :
            /\ pc'[q] = pc[q] /\ mine'[q] = mine[q] /\ name'[q] = name[q]
            /\ pc[q] \in OwnPcs => mine[q] # o
  BY <1>1, <1>3, <1>5, <1>7 DEF ModuleTypes
<1>10. /\ mod[o].state # "LIVE" /\ mod'[o].state # "LIVE" /\ mod'[o].uses = mod[o].uses
       /\ mod'[o].ref \in 0 .. 2 /\ o \in Objs /\ mine[p] = o
  BY <1>3, <1>4, <1>6
<1> HIDE DEF o
<1>11. QED
  BY <1>5, <1>8, <1>9, <1>10, OwnStep

-----------------------------------------------------------------------------
(* The actions that make a module live or go, and those that count.        *)

\* Process p acts (or no process, for a user): the list and the names stay.  It remains
\* to show for each action that used modules are live and that the counts are exact.
LEMMA LiveStep ==
  ASSUME Safe, NEW p, listed' = listed, ModuleTypes',
         \A q \in Procs \ {p} :
            /\ pc'[q] = pc[q] /\ mine'[q] = mine[q] /\ name'[q] = name[q]
            /\ mutex' = q <=> mutex = q
            /\ pc[q] = "readd" => mod'[mine[q]].state = "LIVE"
            /\ pc[q] \in OwnPcs =>
                  LET o == mine[q] IN
                  /\ mod'[o].state = mod[o].state /\ mod'[o].uses = mod[o].uses
                  /\ pc[q] # "putinit" => mod'[o].ref = mod[o].ref,
         p \in Procs => Placed(p)',
         p \in Procs /\ pc'[p] \in OwnPcs =>
            \A q \in Procs \ {p} : pc[q] \in OwnPcs => mine[q] # mine'[p],
         p \in Procs /\ pc[p] \in OwnPcs =>
            \/ pc'[p] \in OwnPcs /\ mine'[p] = mine[p]
            \/ mod'[mine[p]].state = "LIVE",
         \A x \in Objs : mod'[x].name = mod[x].name,
         \A x \in Objs :
            \/ mod'[x].state = mod[x].state
               /\ (mod[x].state # "LIVE" => mod'[x].ref = mod[x].ref)
               /\ (mod[x].state = "FREE" => mod'[x] = mod[x])
            \/ mod'[x].state = "LIVE" /\ x \in listed
            \/ /\ mod'[x].state = "GOING" /\ x \in listed /\ mod'[x].ref \in 0 .. 2
               /\ p \in Procs /\ pc'[p] \in OwnPcs /\ mine'[p] = x,
         UsedIsLive', \A x \in Objs : Counted(x)'
  PROVE  Safe'
<1>1. /\ ModuleTypes /\ AllPlaced /\ OneOwner /\ ModulesOK /\ UniqueNames
  BY DEF Safe
<1>2. AllPlaced'
  <2>1. ASSUME NEW q \in Procs \ {p}
        PROVE  Placed(q)'
    <3>1. Placed(q) /\ (pc[q] \in OwnPcs => mine[q] \in Objs)
      BY <1>1 DEF AllPlaced, Placed
    <3>2. QED
      BY <3>1, OtherPlaced
  <2>2. QED
    BY <2>1 DEF AllPlaced
<1>3. OneOwner'
  <2>1. ASSUME NEW a \in Procs, NEW b \in Procs, a # b, pc'[a] \in OwnPcs, pc'[b] \in OwnPcs
        PROVE  mine'[a] # mine'[b]
    <3>1. CASE a = p
      BY <2>1, <3>1
    <3>2. CASE b = p
      BY <2>1, <3>2
    <3>3. CASE a # p /\ b # p
      BY <1>1, <2>1, <3>3 DEF OneOwner
    <3>4. QED
      BY <3>1, <3>2, <3>3
  <2>2. QED
    BY <2>1 DEF OneOwner
<1>4. ASSUME NEW x \in Objs
      PROVE  ModuleOK(x)'
  <2>1. ModuleOK(x)
    BY <1>1 DEF ModulesOK
  <2>2. Owned(x) => Owned(x)' \/ mod'[x].state = "LIVE"
    BY DEF Owned
  <2>3. CASE /\ mod'[x].state = mod[x].state
             /\ mod[x].state # "LIVE" => mod'[x].ref = mod[x].ref
             /\ mod[x].state = "FREE" => mod'[x] = mod[x]
    BY <2>1, <2>2, <2>3 DEF ModuleOK
  <2>4. CASE mod'[x].state = "LIVE" /\ x \in listed
    BY <2>4 DEF ModuleOK
  <2>5. CASE /\ mod'[x].state = "GOING" /\ x \in listed /\ mod'[x].ref \in 0 .. 2
             /\ p \in Procs /\ pc'[p] \in OwnPcs /\ mine'[p] = x
    <3>1. Owned(x)'
      BY <2>5 DEF Owned
    <3>2. QED
      BY <2>5, <3>1 DEF ModuleOK
  <2>6. QED
    BY <2>3, <2>4, <2>5
<1>5. UniqueNames'
  BY <1>1 DEF UniqueNames, ModuleTypes
<1>6. RefcountExact'
  BY DEF RefcountExact, Counted, Linked, Holders
<1>7. QED
  BY <1>2, <1>3, <1>4, <1>5, <1>6 DEF Safe, ModulesOK

\* The links and the holders stay, and who has any stays live.
LEMMA UsesKept ==
  ASSUME Safe, UNCHANGED holds, \A x \in Objs : mod'[x].uses = mod[x].uses,
         \A x \in Objs : mod[x].state = "LIVE" /\ (Linked(x) # {} \/ Holders(x) # {})
                            => mod'[x].state = "LIVE"
  PROVE  UsedIsLive' /\ \A x : Linked(x)' = Linked(x) /\ Holders(x)' = Holders(x)
<1>1. UsedIsLive /\ ModuleTypes
  BY DEF Safe
<1>2. ASSUME NEW x \in Objs, NEW y \in mod'[x].uses
      PROVE  mod'[y].state = "LIVE"
  <2>1. y \in Objs /\ mod[y].state = "LIVE" /\ y \in mod[x].uses
    BY <1>1, <1>2 DEF UsedIsLive, ModuleTypes, ModuleType
  <2>2. x \in Linked(y)
    BY <2>1 DEF Linked
  <2>3. QED
    BY <2>1, <2>2
<1>3. ASSUME NEW u \in Users, holds'[u] # None
      PROVE  mod'[holds'[u]].state = "LIVE"
  <2>1. holds[u] \in Objs /\ mod[holds[u]].state = "LIVE"
    BY <1>1, <1>3 DEF UsedIsLive, ModuleTypes
  <2>2. u \in Holders(holds[u])
    BY DEF Holders
  <2>3. QED
    BY <2>1, <2>2
<1>4. QED
  BY <1>2, <1>3 DEF UsedIsLive, Linked, Holders

\* Only the process that acts, on module o, may come to or leave putinit and readd.
LEMMA LoadersElsewhere ==
  ASSUME NEW p, NEW o, NEW x, x # o,
         \A q \in Procs \ {p} : pc'[q] = pc[q] /\ mine'[q] = mine[q],
         pc[p] \in {"putinit", "readd"} => mine[p] = o,
         pc'[p] \in {"putinit", "readd"} => mine'[p] = o
  PROVE  (Loading(x)' <=> Loading(x)) /\ (Releasing(x)' <=> Releasing(x))
BY DEF Loading, Releasing

\* Process p changes the state or the count of one listed module, as nobody else releases
\* or owns it; another process may be at putinit if the module stays live.
LEMMA LiveChange ==
  ASSUME Safe, NEW p \in Procs, NEW o \in Objs, o \in listed,
         NEW s \in {"LIVE", "GOING"}, NEW k \in Nat,
         Becomes(o, s, k), UNCHANGED <<listed, holds>>,
         \A q \in Procs \ {p} :
            /\ pc'[q] = pc[q] /\ mine'[q] = mine[q] /\ name'[q] = name[q]
            /\ mutex' = q <=> mutex = q
            /\ pc[q] = "readd" => mine[q] # o
            /\ pc[q] \in OwnPcs /\ mine[q] = o =>
                  pc[q] = "putinit" /\ s = "LIVE" /\ mod[o].state = "LIVE" /\ pc'[p] \notin OwnPcs,
         Placed(p)', pc'[p] \in OwnPcs => mine'[p] = o,
         pc[p] \in OwnPcs => mine[p] = o /\ (pc'[p] \in OwnPcs \/ s = "LIVE"),
         pc[p] = "readd" => mine[p] = o, pc'[p] = "readd" => mine'[p] = o,
         s = "GOING" => k \in 0 .. 2 /\ pc'[p] \in OwnPcs,
         mod[o].state = "LIVE" /\ (Linked(o) # {} \/ Holders(o) # {}) => s = "LIVE",
         s = "LIVE" =>
            k = (IF pc'[p] = "readd" THEN 0 ELSE 1) + (IF Loading(o)' THEN 1 ELSE 0)
                + Cardinality(Linked(o)) + Cardinality(Holders(o))
  PROVE  Safe'
<1>1. /\ ModuleTypes /\ UsedIsLive /\ AllPlaced /\ \A x \in Objs : Counted(x)
  BY CountedExact DEF Safe
<1>2. /\ mod'[o].state = s /\ mod'[o].ref = k /\ mod'[o].name = mod[o].name
      /\ mod'[o].uses = mod[o].uses
      /\ \A x \in Objs \ {o} : mod'[x] = mod[x]
      /\ \A x \in Objs : mod'[x].uses = mod[x].uses /\ mod'[x].name = mod[x].name
  BY DEF Becomes
<1>3. ModuleTypes' /\ UNCHANGED holds /\ listed' = listed
  BY <1>1 DEF Becomes, ModuleTypes
<1>4. "putinit" \in OwnPcs
  BY Labels
<1>5. /\ UsedIsLive' /\ \A x : Linked(x)' = Linked(x) /\ Holders(x)' = Holders(x)
  BY <1>2, <1>3, UsesKept
<1>6. ASSUME NEW x \in Objs
      PROVE  Counted(x)'
  <2>1. CASE x # o
    <3>1. (Loading(x)' <=> Loading(x)) /\ (Releasing(x)' <=> Releasing(x))
      BY <1>4, <2>1, LoadersElsewhere
    <3>2. QED
      BY <1>1, <1>2, <1>5, <2>1, <3>1 DEF Counted
  <2>2. CASE x = o
    <3>2. Releasing(o)' <=> pc'[p] = "readd"
      BY DEF Releasing
    <3>3. QED
      BY <1>2, <1>5, <2>2, <3>2 DEF Counted
  <2>3. QED
    BY <2>1, <2>2
<1>7. \A q \in Procs \ {p} :
            /\ pc'[q] = pc[q] /\ mine'[q] = mine[q] /\ name'[q] = name[q]
            /\ mutex' = q <=> mutex = q
            /\ pc[q] = "readd" => mod'[mine[q]].state = "LIVE"
            /\ pc[q] \in OwnPcs =>
                  LET z == mine[q] IN
                  /\ mod'[z].state = mod[z].state /\ mod'[z].uses = mod[z].uses
                  /\ pc[q] # "putinit" => mod'[z].ref = mod[z].ref
  <2>1. ASSUME NEW q \in Procs \ {p}
        PROVE  pc[q] = "readd" => mod'[mine[q]].state = "LIVE"
    BY <1>1, <1>2 DEF AllPlaced, Placed
  <2>2. ASSUME NEW q \in Procs \ {p}, pc[q] \in OwnPcs
        PROVE  LET z == mine[q] IN
               /\ mod'[z].state = mod[z].state /\ mod'[z].uses = mod[z].uses
               /\ pc[q] # "putinit" => mod'[z].ref = mod[z].ref
    <3>1. mine[q] \in Objs
      BY <1>1, <2>2 DEF AllPlaced, Placed
    <3>2. QED
      BY <1>2, <2>2, <3>1
  <2>3. QED
    BY <2>1, <2>2, <1>2
<1>8. \A x \in Objs :
          \/ mod'[x].state = mod[x].state
             /\ (mod[x].state # "LIVE" => mod'[x].ref = mod[x].ref)
             /\ (mod[x].state = "FREE" => mod'[x] = mod[x])
          \/ mod'[x].state = "LIVE" /\ x \in listed
          \/ /\ mod'[x].state = "GOING" /\ x \in listed /\ mod'[x].ref \in 0 .. 2
             /\ p \in Procs /\ pc'[p] \in OwnPcs /\ mine'[p] = x
  BY <1>2
<1>9. pc[p] \in OwnPcs => \/ pc'[p] \in OwnPcs /\ mine'[p] = mine[p]
                          \/ mod'[mine[p]].state = "LIVE"
  BY <1>2
<1>10. QED
  BY <1>2, <1>3, <1>5, <1>6, <1>7, <1>8, <1>9, LiveStep

\* The init function succeeds: the module has the base and the initial reference.
LEMMA InitSucceedsSafe ==
  ASSUME ProcTypes, Safe, NEW p \in Procs, InitSucceeds(p)
  PROVE  Safe'
<1>1. pc[p] = "init" /\ pc[p] \in OwnPcs \ {"putinit"} /\ "putinit" \in OwnPcs
  BY Labels DEF InitSucceeds
<1>2. PICK o \in Objs : o = mine[p]
  BY <1>1, OwnFacts
<1>3. /\ Goto(p, "putinit") /\ UNCHANGED <<mine, name, holds, mutex, listed>>
      /\ mod' = [mod EXCEPT ![o].state = "LIVE"]
  BY <1>2 DEF InitSucceeds, procVars
<1>4. /\ mod[o].state \notin {"LIVE", "FREE"} /\ Placed(p) /\ mutex # p
      /\ \A q \in Procs \ {p} : pc[q] \in OwnPcs => mine[q] # o
  BY <1>1, <1>2, OwnFacts
<1>5. ModuleTypes /\ UsedIsLive /\ AllPlaced
  BY DEF Safe
<1>6. mod[o].ref = 2 /\ o \in listed
  BY <1>1, <1>2, <1>4 DEF Placed, Counting, Unlinked
<1>7. Becomes(o, "LIVE", 2)
  <2>1. "LIVE" \in States
    BY DEF States
  <2>2. QED
    BY <1>3, <1>5, <1>6, <2>1, StateSet
<1>8. /\ pc'[p] = "putinit" /\ mine'[p] = o
      /\ \A q \in Procs \ {p} : pc'[q] = pc[q] /\ mine'[q] = mine[q] /\ name'[q] = name[q]
  BY <1>2, <1>3, GotoFacts
<1>9. Placed(p)'
  <2>1. /\ "putinit" \notin NoModule /\ "putinit" \notin Unlinked /\ "putinit" \notin Bare
        /\ "putinit" \notin Counting /\ StatesAt("putinit") = {"LIVE"}
    BY DEF NoModule, Unlinked, Bare, Counting, StatesAt
  <2>2. mod'[o].state = "LIVE"
    BY <1>7 DEF Becomes
  <2>3. QED
    BY <2>1, <2>2, <1>3, <1>4, <1>6, <1>8 DEF Placed
<1>10. Cardinality(Linked(o)) = 0 /\ Cardinality(Holders(o)) = 0
  BY <1>4, <1>5, LinkedIsLive, FS_EmptySet
<1>11. \A q \in Procs \ {p} :
            /\ pc'[q] = pc[q] /\ mine'[q] = mine[q] /\ name'[q] = name[q]
            /\ mutex' = q <=> mutex = q
            /\ pc[q] \in OwnPcs \/ pc[q] = "readd" => mine[q] # o
  BY <1>3, <1>4, <1>5, <1>8 DEF AllPlaced, Placed
<1>12. Loading(o)'
  BY <1>8 DEF Loading
<1>13. QED
  BY <1>1, <1>2, <1>3, <1>4, <1>6, <1>7, <1>8, <1>9, <1>10, <1>11, <1>12, LiveChange

\* The initial reference is dropped: the base is left, and who has taken a reference.
LEMMA DropInitialRefSafe ==
  ASSUME ~RoFails, ProcTypes, Safe, NEW p \in Procs, DropInitialRef(p)
  PROVE  Safe'
<1>1. pc[p] = "putinit" /\ mutex = None /\ pc[p] \in OwnPcs
  BY Labels DEF DropInitialRef
<1>2. /\ ModuleTypes /\ UsedIsLive /\ AllPlaced /\ OneOwner /\ \A x \in Objs : Counted(x)
  BY CountedExact DEF Safe
<1>3. PICK o \in Objs : o = mine[p]
  BY <1>1, <1>2 DEF AllPlaced, Placed
<1>4. /\ Goto(p, "wake") /\ UNCHANGED <<mine, name, holds, mutex, listed>>
      /\ mod' = [mod EXCEPT ![o].ref = mod[o].ref - 1]
  BY <1>3 DEF DropInitialRef
<1>5. mod[o].state = "LIVE" /\ o \in listed
  BY <1>1, <1>2, <1>3 DEF AllPlaced, Placed, StatesAt, Unlinked
<1>6. \A q \in Procs \ {p} : pc[q] \in OwnPcs \/ pc[q] = "readd" => mine[q] # o
  BY <1>1, <1>2, <1>3 DEF OneOwner, AllPlaced, Placed
<1>7. /\ pc'[p] = "wake" /\ mine'[p] = o
      /\ \A q \in Procs \ {p} : pc'[q] = pc[q] /\ mine'[q] = mine[q] /\ name'[q] = name[q]
  BY <1>3, <1>4, GotoFacts
<1>8. mod[o].ref = 2 + Cardinality(Linked(o)) + Cardinality(Holders(o))
  <2>1. Loading(o) /\ ~Releasing(o)
    BY <1>1, <1>3, <1>6 DEF Loading, Releasing
  <2>2. QED
    BY <1>2, <1>5, <2>1, Counts DEF Counted
<1>9. /\ mod[o].ref - 1 \in Nat
      /\ mod[o].ref - 1 = 1 + 0 + Cardinality(Linked(o)) + Cardinality(Holders(o))
  BY <1>8, Counts
<1>10. Becomes(o, "LIVE", mod[o].ref - 1)
  BY <1>2, <1>4, <1>5, <1>9, RefSet
<1>11. pc'[p] \notin OwnPcs /\ pc'[p] \notin {"readd", "putinit"} /\ Placed(p)'
  <2>1. /\ "wake" \notin NoModule /\ "wake" \notin OwnPcs /\ "wake" \notin Bare
        /\ "wake" \notin Counting
    BY DEF NoModule, OwnPcs, Sharing, Bare, Counting
  <2>2. mutex # p /\ mutex' = mutex
    BY <1>1, <1>4
  <2>3. QED
    BY <2>1, <2>2, <1>7 DEF Placed
<1>12. \A q \in Procs \ {p} :
            /\ pc'[q] = pc[q] /\ mine'[q] = mine[q] /\ name'[q] = name[q]
            /\ mutex' = q <=> mutex = q
            /\ pc[q] \in OwnPcs \/ pc[q] = "readd" => mine[q] # o
  BY <1>4, <1>6, <1>7
<1>13. ~Loading(o)'
  BY <1>11, <1>12, Labels DEF Loading
<1>14. QED
  BY <1>1, <1>3, <1>4, <1>5, <1>9, <1>10, <1>11, <1>12, <1>13, LiveChange

\* delete_module: the module goes if nobody is left, and otherwise gets its base back.
LEMMA ReleaseRefSafe ==
  ASSUME ProcTypes, Safe, NEW p \in Procs, ReleaseRef(p)
  PROVE  Safe'
<1>1. /\ pc[p] = "delete" /\ mutex = None /\ pc[p] \notin OwnPcs /\ pc[p] \in NoModule
      /\ mutex # p
      /\ UNCHANGED <<name, listed, holds>>
  BY DEF ReleaseRef, OwnPcs, NoModule
<1>2. PICK o \in Exporter(name[p]) :
          /\ mod[o].state = "LIVE" /\ \A x \in Objs : o \notin mod[x].uses
          /\ mine' = [mine EXCEPT ![p] = o]
          /\ IF mod[o].ref = 1
             THEN /\ mod' = [mod EXCEPT ![o].ref = 0, ![o].state = "GOING"]
                  /\ Goto(p, "unform") /\ UNCHANGED mutex
             ELSE /\ mod' = [mod EXCEPT ![o].ref = @ - 1]
                  /\ Goto(p, "readd") /\ mutex' = p
  BY DEF ReleaseRef
<1>3. /\ ModuleTypes /\ UsedIsLive /\ AllPlaced /\ OneOwner /\ \A x \in Objs : Counted(x)
  BY CountedExact DEF Safe
<1>4. o \in Objs /\ o \in listed
  BY <1>2, <1>3 DEF Exporter, ModuleTypes
<1>5. mine'[p] = o /\ \A q \in Procs \ {p} : mine'[q] = mine[q] /\ name'[q] = name[q]
  BY <1>1, <1>2 DEF ProcTypes
<1>6. ~Releasing(o) /\ \A q \in Procs : pc[q] # "readd"
  BY <1>1, <1>3 DEF Releasing, AllPlaced, Placed
<1>7. Linked(o) = {} /\ Cardinality(Linked(o)) = 0
  <2>1. Linked(o) = {}
    BY <1>2 DEF Linked
  <2>2. QED
    BY <2>1, FS_EmptySet
<1>8. mod[o].ref = 1 + (IF Loading(o) THEN 1 ELSE 0) + Cardinality(Holders(o))
  <2>1. Counted(o) /\ mod[o].state = "LIVE"
    BY <1>2, <1>3, <1>4
  <2>2. mod[o].ref = 1 + (IF Loading(o) THEN 1 ELSE 0) + 0 + Cardinality(Holders(o))
    BY <2>1, <1>6, <1>7 DEF Counted
  <2>3. QED
    BY <2>2, Counts
<1>9. CASE mod[o].ref = 1
  <2>1. /\ mod' = [mod EXCEPT ![o].ref = 0, ![o].state = "GOING"]
        /\ Goto(p, "unform") /\ UNCHANGED mutex
    BY <1>2, <1>9
  <2>2. ~Loading(o) /\ Holders(o) = {}
    BY <1>8, <1>9, Counts
  <2>3. Becomes(o, "GOING", 0)
    <3>1. "GOING" \in States
      BY DEF States
    <3>2. QED
      BY <1>3, <1>4, <2>1, <3>1, BothSet
  <2>4. pc'[p] = "unform" /\ \A q \in Procs \ {p} : pc'[q] = pc[q]
    BY <2>1, GotoFacts
  <2>5. pc'[p] \in OwnPcs /\ Placed(p)'
    <3>1. /\ "unform" \in OwnPcs /\ "unform" \notin NoModule /\ "unform" \notin Unlinked
          /\ "unform" \notin Bare /\ "unform" \notin Counting /\ StatesAt("unform") = {"GOING"}
      BY Labels DEF NoModule, Unlinked, Bare, Counting, StatesAt
    <3>2. mod'[o].state = "GOING"
      BY <2>3 DEF Becomes
    <3>3. QED
      BY <3>1, <3>2, <1>1, <1>4, <1>5, <2>1, <2>4 DEF Placed
  <2>6. \A q \in Procs \ {p} : pc[q] \in OwnPcs \/ pc[q] = "readd" => mine[q] # o
    BY <1>2, <1>3, <1>6, <2>2, OwnedStates DEF AllPlaced, Loading
  <2>7. \A q \in Procs \ {p} :
            /\ pc'[q] = pc[q] /\ mine'[q] = mine[q] /\ name'[q] = name[q]
            /\ mutex' = q <=> mutex = q
            /\ pc[q] \in OwnPcs \/ pc[q] = "readd" => mine[q] # o
    BY <1>5, <2>1, <2>4, <2>6
  <2>8. QED
    BY <1>1, <1>4, <1>5, <1>7, <2>2, <2>3, <2>4, <2>5, <2>7, LiveChange
<1>10. CASE mod[o].ref # 1
  <2>1. /\ mod' = [mod EXCEPT ![o].ref = mod[o].ref - 1]
        /\ Goto(p, "readd") /\ mutex' = p
    BY <1>2, <1>10
  <2>2. pc'[p] = "readd" /\ \A q \in Procs \ {p} : pc'[q] = pc[q]
    BY <2>1, GotoFacts
  <2>3. Loading(o)' <=> Loading(o)
    BY <1>1, <1>5, <2>2 DEF Loading
  <2>4. /\ mod[o].ref - 1 \in Nat
        /\ mod[o].ref - 1 = 0 + (IF Loading(o)' THEN 1 ELSE 0) + Cardinality(Linked(o))
                            + Cardinality(Holders(o))
    BY <1>7, <1>8, <2>3, Counts
  <2>5. Becomes(o, "LIVE", mod[o].ref - 1)
    <3>1. mod[o].state = "LIVE" /\ ModuleTypes
      BY <1>2, <1>3
    <3>2. mod' = [mod EXCEPT ![o].ref = mod[o].ref - 1]
      BY <2>1
    <3>3. mod[o].ref - 1 \in Nat
      BY <2>4
    <3>4. Becomes(o, mod[o].state, mod[o].ref - 1)
      BY <1>4, <3>1, <3>2, <3>3, RefSet
    <3>5. QED
      BY <3>1, <3>4, Zenon
  <2>6. pc'[p] \notin OwnPcs /\ Placed(p)'
    <3>1. /\ "readd" \notin OwnPcs /\ "readd" \notin NoModule /\ "readd" \notin Bare
          /\ "readd" \notin Counting
      BY Labels DEF NoModule, Bare, Counting
    <3>2. mod'[o].state = "LIVE"
      BY <2>5 DEF Becomes
    <3>3. QED
      BY <3>1, <3>2, <1>4, <1>5, <2>1, <2>2 DEF Placed
  <2>7. \A q \in Procs \ {p} :
            /\ pc'[q] = pc[q] /\ mine'[q] = mine[q] /\ name'[q] = name[q]
            /\ mutex' = q <=> mutex = q
            /\ pc[q] = "readd" => mine[q] # o
            /\ pc[q] \in OwnPcs /\ mine[q] = o => pc[q] = "putinit" /\ mod[o].state = "LIVE"
    BY <1>1, <1>2, <1>3, <1>5, <1>6, <2>1, <2>2, OwnedStates DEF AllPlaced
  <2>8. QED
    BY <1>1, <1>4, <1>5, <2>2, <2>4, <2>5, <2>6, <2>7, LiveChange
<1>11. QED
  BY <1>9, <1>10

\* The second look of delete_module, with the mutex held since the first.
LEMMA ReaddRefSafe ==
  ASSUME ProcTypes, Safe, NEW p \in Procs, ReaddRef(p)
  PROVE  Safe'
<1>1. /\ pc[p] = "readd" /\ pc[p] \notin OwnPcs /\ mutex' = None /\ p # None
      /\ UNCHANGED <<name, listed, holds>>
  BY Labels DEF ReaddRef
<1>2. /\ ModuleTypes /\ UsedIsLive /\ AllPlaced /\ OneOwner /\ ModulesOK /\ \A x \in Objs : Counted(x)
  BY CountedExact DEF Safe
<1>3. mine[p] \in Objs /\ mod[mine[p]].state = "LIVE" /\ mutex = p
  BY <1>1, <1>2 DEF AllPlaced, Placed
<1>4. PICK o \in Objs : o = mine[p]
  BY <1>3
<1>5. IF mod[o].ref = 0
      THEN /\ mod' = [mod EXCEPT ![o].state = "GOING"]
           /\ Goto(p, "unform") /\ UNCHANGED <<ret, mine>>
      ELSE /\ mod' = [mod EXCEPT ![o].ref = @ + 1]
           /\ Return(p, "err")
  BY <1>4 DEF ReaddRef
<1>6. mod[o].state = "LIVE" /\ o \in listed /\ mod[o].ref \in Nat
  BY <1>2, <1>3, <1>4 DEF ModulesOK, ModuleOK, ModuleTypes, ModuleType
<1>7. \A q \in Procs \ {p} : pc[q] # "readd" /\ (mutex' = q <=> mutex = q)
  BY <1>1, <1>2, <1>3 DEF AllPlaced, Placed
<1>8. mod[o].ref = (IF Loading(o) THEN 1 ELSE 0) + Cardinality(Linked(o)) + Cardinality(Holders(o))
  <2>1. Releasing(o)
    BY <1>1, <1>4 DEF Releasing
  <2>2. mod[o].ref = 0 + (IF Loading(o) THEN 1 ELSE 0) + Cardinality(Linked(o)) + Cardinality(Holders(o))
    BY <1>2, <1>6, <2>1 DEF Counted
  <2>3. QED
    BY <2>2, Counts
<1>9. CASE mod[o].ref = 0
  <2>1. /\ mod' = [mod EXCEPT ![o].state = "GOING"]
        /\ Goto(p, "unform") /\ UNCHANGED mine
    BY <1>5, <1>9
  <2>2. ~Loading(o) /\ Linked(o) = {} /\ Holders(o) = {}
    BY <1>8, <1>9, Counts
  <2>3. Becomes(o, "GOING", 0)
    <3>1. "GOING" \in States
      BY DEF States
    <3>2. QED
      BY <1>2, <1>9, <2>1, <3>1, StateSet
  <2>4. pc'[p] = "unform" /\ mine'[p] = o /\ \A q \in Procs \ {p} : pc'[q] = pc[q] /\ mine'[q] = mine[q]
    BY <1>4, <2>1, GotoFacts
  <2>5. pc'[p] \in OwnPcs /\ Placed(p)'
    <3>1. /\ "unform" \in OwnPcs /\ "unform" \notin NoModule /\ "unform" \notin Unlinked
          /\ "unform" \notin Bare /\ "unform" \notin Counting /\ StatesAt("unform") = {"GOING"}
      BY Labels DEF NoModule, Unlinked, Bare, Counting, StatesAt
    <3>2. mod'[o].state = "GOING"
      BY <2>3 DEF Becomes
    <3>3. QED
      BY <3>1, <3>2, <1>1, <1>6, <2>4 DEF Placed
  <2>6. \A q \in Procs \ {p} : pc[q] \in OwnPcs => mine[q] # o
    BY <1>2, <1>6, <2>2, OwnedStates DEF AllPlaced, Loading
  <2>7. \A q \in Procs \ {p} :
            /\ pc'[q] = pc[q] /\ mine'[q] = mine[q] /\ name'[q] = name[q]
            /\ mutex' = q <=> mutex = q
            /\ pc[q] = "readd" => mine[q] # o
            /\ ~(pc[q] \in OwnPcs /\ mine[q] = o)
    BY <1>1, <1>7, <2>4, <2>6
  <2>8. QED
    BY <1>1, <1>4, <1>6, <2>2, <2>3, <2>4, <2>5, <2>7, LiveChange
<1>10. CASE mod[o].ref # 0
  <2>1. mod' = [mod EXCEPT ![o].ref = mod[o].ref + 1] /\ Return(p, "err")
    BY <1>5, <1>10
  <2>2. /\ pc'[p] \in {"complete", "idle"} /\ mine'[p] = None
        /\ \A q \in Procs \ {p} : pc'[q] = pc[q] /\ mine'[q] = mine[q]
    BY <2>1, ReturnFacts
  <2>3. Loading(o)' <=> Loading(o)
    BY <1>1, <2>2 DEF Loading
  <2>4. /\ mod[o].ref + 1 \in Nat
        /\ mod[o].ref + 1 = 1 + (IF Loading(o)' THEN 1 ELSE 0) + Cardinality(Linked(o))
                            + Cardinality(Holders(o))
    BY <1>6, <1>8, <2>3, Counts
  <2>5. Becomes(o, "LIVE", mod[o].ref + 1)
    BY <1>2, <1>6, <2>1, <2>4, RefSet
  <2>6. pc'[p] \notin OwnPcs /\ pc'[p] # "readd" /\ Placed(p)'
    <3>1. /\ pc'[p] \notin OwnPcs /\ pc'[p] \notin Bare /\ pc'[p] \notin Counting
          /\ pc'[p] \notin {"add", "add_wait", "readd"}
      BY <2>2 DEF OwnPcs, NoModule, Bare, Counting
    <3>2. QED
      BY <3>1, <1>1, <2>2 DEF Placed
  <2>7. \A q \in Procs \ {p} :
            /\ pc'[q] = pc[q] /\ mine'[q] = mine[q] /\ name'[q] = name[q]
            /\ mutex' = q <=> mutex = q
            /\ pc[q] = "readd" => mine[q] # o
            /\ pc[q] \in OwnPcs /\ mine[q] = o => pc[q] = "putinit" /\ mod[o].state = "LIVE"
    BY <1>1, <1>2, <1>6, <1>7, <2>2, OwnedStates DEF AllPlaced
  <2>8. QED
    BY <1>1, <1>4, <1>6, <2>2, <2>4, <2>5, <2>6, <2>7, LiveChange
<1>11. QED
  BY <1>9, <1>10

-----------------------------------------------------------------------------
(* The actions that use a module or stop using it.                         *)

\* resolve_symbol: one more link and one more reference.
LEMMA ResolveSymbolSafe ==
  ASSUME ProcTypes, Safe, NEW p \in Procs, NEW o \in Objs, ResolveSymbol(p, o)
  PROVE  Safe'
<1>1. pc[p] = "resolve" /\ pc[p] \in OwnPcs \ {"putinit"}
  BY Labels DEF ResolveSymbol
<1>2. PICK m \in Objs : m = mine[p]
  BY <1>1, OwnFacts
<1>3. /\ mod[o].name \in Needs[name[p]] \ {mod[x].name : x \in mod[m].uses}
      /\ mod[o].state = "LIVE"
      /\ mod' = [mod EXCEPT ![o].ref = @ + 1, ![m].uses = @ \cup {o}]
      /\ UNCHANGED <<pc, mine, name, listed, holds, mutex>>
  BY <1>2 DEF ResolveSymbol, Unresolved, procVars
<1>4. /\ ModuleTypes /\ UsedIsLive /\ AllPlaced /\ OneOwner /\ \A x \in Objs : Counted(x)
  BY CountedExact DEF Safe
<1>5. /\ mod[m].state # "LIVE" /\ Placed(p)
      /\ \A q \in Procs \ {p} : pc[q] \in OwnPcs => mine[q] # m
  BY <1>1, <1>2, OwnFacts
<1>6. o \notin mod[m].uses /\ m # o
  BY <1>3, <1>5
<1>7. /\ mod'[m].uses = mod[m].uses \cup {o} /\ mod'[m].state = mod[m].state
      /\ mod'[m].ref = mod[m].ref /\ mod'[m].name = mod[m].name
      /\ mod'[o].uses = mod[o].uses /\ mod'[o].state = "LIVE"
      /\ mod'[o].ref = mod[o].ref + 1 /\ mod'[o].name = mod[o].name
      /\ \A x \in Objs \ {m, o} : mod'[x] = mod[x]
      /\ mod' \in [Objs -> ModuleType]
  <2>1. mod \in [Objs -> ModuleType]
    BY <1>4 DEF ModuleTypes
  <2>2. /\ mod'[m] = [mod[m] EXCEPT !.uses = mod[m].uses \cup {o}]
        /\ mod'[o] = [mod[o] EXCEPT !.ref = mod[o].ref + 1]
        /\ \A x \in Objs \ {m, o} : mod'[x] = mod[x]
        /\ DOMAIN mod' = Objs
    BY <1>3, <1>6, <2>1
  <2>3. mod[m] \in ModuleType /\ mod[o] \in ModuleType
    BY <2>1
  <2>4. mod[m].uses \cup {o} \in SUBSET Objs /\ mod[o].ref + 1 \in Nat
    BY <2>3 DEF ModuleType
  <2>5. mod'[m] \in ModuleType /\ mod'[o] \in ModuleType
    BY <2>2, <2>3, <2>4 DEF ModuleType
  <2>6. /\ mod'[m].uses = mod[m].uses \cup {o} /\ mod'[m].state = mod[m].state
        /\ mod'[m].ref = mod[m].ref /\ mod'[m].name = mod[m].name
        /\ mod'[o].uses = mod[o].uses /\ mod'[o].state = mod[o].state
        /\ mod'[o].ref = mod[o].ref + 1 /\ mod'[o].name = mod[o].name
    BY <2>2, <2>3 DEF ModuleType
  <2>7. QED
    BY <1>3, <2>1, <2>2, <2>5, <2>6
<1>8. ModuleTypes' /\ listed' = listed
  BY <1>3, <1>4, <1>7 DEF ModuleTypes
<1>9. /\ \A x \in Objs : mod'[x].state = mod[x].state /\ mod'[x].name = mod[x].name
      /\ \A x \in Objs : mod[x].state # "LIVE" => mod'[x].ref = mod[x].ref
      /\ \A x \in Objs : mod[x].state = "FREE" => mod'[x] = mod[x]
  <2>1. mod[m].state # "FREE"
    BY <1>1, <1>2, OwnFacts
  <2>2. QED
    BY <1>3, <1>7, <2>1
<1>10. UsedIsLive'
  <2>1. ASSUME NEW x \in Objs, NEW y \in mod'[x].uses
        PROVE  mod'[y].state = "LIVE"
    <3>1. y = o \/ y \in mod[x].uses
      BY <1>7, <2>1
    <3>2. y \in Objs /\ mod[y].state = "LIVE"
      BY <1>3, <1>4, <3>1 DEF UsedIsLive, ModuleTypes, ModuleType
    <3>3. QED
      BY <1>9, <3>2
  <2>2. ASSUME NEW u \in Users, holds'[u] # None
        PROVE  mod'[holds'[u]].state = "LIVE"
    BY <1>3, <1>4, <1>9, <2>2 DEF UsedIsLive, ModuleTypes
  <2>3. QED
    BY <2>1, <2>2 DEF UsedIsLive
<1>11. ASSUME NEW x \in Objs
       PROVE  Counted(x)'
  <2>1. (Loading(x)' <=> Loading(x)) /\ (Releasing(x)' <=> Releasing(x))
    BY <1>3 DEF Loading, Releasing
  <2>2. Holders(x)' = Holders(x)
    BY <1>3 DEF Holders
  <2>3. CASE x # o
    <3>1. Linked(x)' = Linked(x)
      BY <1>7, <2>3 DEF Linked
    <3>2. mod[x].state = "LIVE" => mod'[x].ref = mod[x].ref
      BY <1>5, <1>7, <2>3
    <3>3. QED
      BY <1>4, <1>9, <2>1, <2>2, <3>1, <3>2 DEF Counted
  <2>4. CASE x = o
    <3>1. Linked(o)' = Linked(o) \cup {m} /\ m \notin Linked(o)
      BY <1>6, <1>7 DEF Linked
    <3>2. Cardinality(Linked(o)') = Cardinality(Linked(o)) + 1
      <4>1. IsFiniteSet(Linked(o))
        BY Counts
      <4>2. Cardinality(Linked(o) \cup {m}) = Cardinality(Linked(o)) + 1
        BY <3>1, <4>1, FS_AddElement
      <4>3. QED
        BY <3>1, <4>2
    <3>3. mod[o].ref = (IF Releasing(o) THEN 0 ELSE 1) + (IF Loading(o) THEN 1 ELSE 0)
                       + Cardinality(Linked(o)) + Cardinality(Holders(o))
      BY <1>3, <1>4 DEF Counted
    <3>4. mod'[o].ref = (IF Releasing(o) THEN 0 ELSE 1) + (IF Loading(o) THEN 1 ELSE 0)
                       + Cardinality(Linked(o)') + Cardinality(Holders(o))
      BY <1>7, <3>2, <3>3, Counts
    <3>5. QED
      BY <2>1, <2>2, <2>4, <3>4 DEF Counted
  <2>5. QED
    BY <2>3, <2>4
<1>12. ASSUME NEW q \in Procs
       PROVE  /\ pc[q] = "readd" => mine[q] \in Objs /\ mod'[mine[q]].state = "LIVE"
              /\ pc[q] \in OwnPcs =>
                    LET z == mine[q] IN
                    /\ z \in Objs /\ mod'[z].state = mod[z].state
                    /\ q # p => mod'[z].uses = mod[z].uses
                    /\ pc[q] # "putinit" => mod'[z].ref = mod[z].ref
  <2>1. Placed(q)
    BY <1>4 DEF AllPlaced
  <2>2. CASE pc[q] = "readd"
    BY <1>9, <2>1, <2>2, Labels DEF Placed
  <2>3. CASE pc[q] \in OwnPcs
    <3>1. mine[q] \in Objs /\ (pc[q] # "putinit" => mod[mine[q]].state # "LIVE")
      BY <2>1, <2>3, OwnedStates
    <3>2. q # p => mod'[mine[q]].uses = mod[mine[q]].uses
      BY <1>5, <1>7, <2>3, <3>1
    <3>3. QED
      BY <1>9, <2>3, <3>1, <3>2, Labels
  <2>4. QED
    BY <2>2, <2>3
<1>13. Placed(p)'
  <2>1. /\ "resolve" \notin Bare /\ "resolve" \notin NoModule
        /\ "resolve" \notin {"add", "add_wait", "readd"}
    BY DEF Bare, NoModule
  <2>2. /\ pc'[p] = "resolve" /\ mine'[p] = m /\ pc[p] = "resolve"
    BY <1>1, <1>2, <1>3
  <2>3. QED
    BY <1>2, <1>3, <1>5, <1>7, <2>1, <2>2 DEF Placed
<1>14. \A q \in Procs \ {p} :
            /\ pc'[q] = pc[q] /\ mine'[q] = mine[q] /\ name'[q] = name[q]
            /\ mutex' = q <=> mutex = q
            /\ pc[q] = "readd" => mod'[mine[q]].state = "LIVE"
            /\ pc[q] \in OwnPcs =>
                  LET z == mine[q] IN
                  /\ mod'[z].state = mod[z].state /\ mod'[z].uses = mod[z].uses
                  /\ pc[q] # "putinit" => mod'[z].ref = mod[z].ref
  BY <1>3, <1>12
<1>15. /\ pc'[p] \in OwnPcs /\ mine'[p] = mine[p]
       /\ \A q \in Procs \ {p} : pc[q] \in OwnPcs => mine[q] # mine'[p]
  BY <1>1, <1>2, <1>3, <1>5
<1>16. QED
  BY <1>8, <1>9, <1>10, <1>11, <1>13, <1>14, <1>15, LiveStep

\* module_unload_free: what m uses loses a link and a reference, and m uses nothing.
LEMMA UnusedSafe ==
  ASSUME ProcTypes, Safe, NEW p \in Procs, UndoUses(p) \/ FreeUnuse(p)
  PROVE  Safe'
<1>1. /\ \/ pc[p] = "undo_uses" /\ Goto(p, "undo_list")
         \/ pc[p] = "unuse" /\ Goto(p, "unlink")
      /\ UNCHANGED <<mine, name, listed, holds, mutex>> /\ Unused(mine[p])
  BY DEF UndoUses, FreeUnuse, procVars
<1>2. pc[p] \in OwnPcs \ {"putinit"}
  BY <1>1, Labels
<1>3. PICK m \in Objs : m = mine[p]
  BY <1>2, OwnFacts
<1>4. /\ ModuleTypes /\ UsedIsLive /\ AllPlaced /\ OneOwner /\ \A x \in Objs : Counted(x)
  BY CountedExact DEF Safe
<1>5. /\ mod[m].state \notin {"FREE", "LIVE"} /\ Placed(p) /\ mod[m].state \in StatesAt(pc[p])
      /\ \A q \in Procs \ {p} : pc[q] \in OwnPcs => mine[q] # m
  BY <1>2, <1>3, OwnFacts
<1>6. /\ m \notin mod[m].uses /\ mod[m].uses \subseteq Objs
      /\ \A x \in mod[m].uses : mod[x].state = "LIVE"
  BY <1>4, <1>5 DEF UsedIsLive, ModuleTypes, ModuleType
<1>7. ASSUME NEW x \in mod[m].uses
      PROVE  /\ m \in Linked(x) /\ x \in Objs
             /\ mod[x].ref - 1 \in Nat
  <2>1. m \in Linked(x) /\ x \in Objs
    BY <1>6 DEF Linked
  <2>2. Cardinality(Linked(x)) \in Nat /\ Cardinality(Linked(x)) # 0
        /\ Cardinality(Holders(x)) \in Nat
    BY <2>1, Counts
  <2>3. mod[x].ref = (IF Releasing(x) THEN 0 ELSE 1) + (IF Loading(x) THEN 1 ELSE 0)
                     + Cardinality(Linked(x)) + Cardinality(Holders(x))
    BY <1>4, <1>6, <2>1 DEF Counted
  <2>4. QED
    BY <2>1, <2>2, <2>3
<1>8. /\ mod'[m].uses = {} /\ mod'[m].state = mod[m].state /\ mod'[m].ref = mod[m].ref
      /\ mod'[m].name = mod[m].name
      /\ \A x \in mod[m].uses :
            /\ mod'[x].uses = mod[x].uses /\ mod'[x].state = mod[x].state
            /\ mod'[x].ref = mod[x].ref - 1 /\ mod'[x].name = mod[x].name
      /\ \A x \in Objs \ (mod[m].uses \cup {m}) : mod'[x] = mod[x]
      /\ mod' \in [Objs -> ModuleType]
  <2>1. mod \in [Objs -> ModuleType]
    BY <1>4 DEF ModuleTypes
  <2>2. mod' = [x \in Objs |->
              IF x = m THEN [mod[x] EXCEPT !.uses = {}]
              ELSE IF x \in mod[m].uses THEN [mod[x] EXCEPT !.ref = mod[x].ref - 1]
              ELSE mod[x]]
    BY <1>1, <1>3 DEF Unused
  <2>3. /\ mod'[m] = [mod[m] EXCEPT !.uses = {}]
        /\ \A x \in mod[m].uses : mod'[x] = [mod[x] EXCEPT !.ref = mod[x].ref - 1]
        /\ \A x \in Objs \ (mod[m].uses \cup {m}) : mod'[x] = mod[x]
        /\ DOMAIN mod' = Objs
    BY <1>6, <2>2
  <2>4. \A x \in Objs : mod[x] \in ModuleType
    BY <2>1
  <2>5. /\ mod'[m] \in ModuleType
        /\ mod'[m].uses = {} /\ mod'[m].state = mod[m].state /\ mod'[m].ref = mod[m].ref
        /\ mod'[m].name = mod[m].name
    BY <2>3, <2>4 DEF ModuleType
  <2>6. ASSUME NEW x \in mod[m].uses
        PROVE  /\ mod'[x] \in ModuleType
               /\ mod'[x].uses = mod[x].uses /\ mod'[x].state = mod[x].state
               /\ mod'[x].ref = mod[x].ref - 1 /\ mod'[x].name = mod[x].name
    <3>1. mod[x] \in ModuleType /\ mod[x].ref - 1 \in Nat
      BY <1>6, <1>7, <2>4
    <3>2. mod'[x] = [mod[x] EXCEPT !.ref = mod[x].ref - 1]
      BY <2>3
    <3>3. QED
      BY <3>1, <3>2 DEF ModuleType
  <2>7. \A x \in Objs : mod'[x] \in ModuleType
    BY <2>3, <2>4, <2>5, <2>6
  <2>8. mod' \in [Objs -> ModuleType]
    BY <2>2, <2>7
  <2>9. QED
    BY <2>3, <2>5, <2>6, <2>8
<1>9. ModuleTypes' /\ listed' = listed
  BY <1>1, <1>4, <1>8 DEF ModuleTypes
<1>10. /\ \A x \in Objs : mod'[x].state = mod[x].state /\ mod'[x].name = mod[x].name
       /\ \A x \in Objs : mod[x].state # "LIVE" => mod'[x].ref = mod[x].ref
       /\ \A x \in Objs : mod[x].state = "FREE" => mod'[x] = mod[x]
       /\ \A x \in Objs \ {m} : mod'[x].uses = mod[x].uses
  BY <1>5, <1>6, <1>8
<1>11. UsedIsLive'
  <2>1. ASSUME NEW x \in Objs, NEW y \in mod'[x].uses
        PROVE  mod'[y].state = "LIVE"
    <3>1. y \in mod[x].uses
      BY <1>8, <1>10, <2>1
    <3>2. y \in Objs /\ mod[y].state = "LIVE"
      BY <1>4, <3>1 DEF UsedIsLive, ModuleTypes, ModuleType
    <3>3. QED
      BY <1>10, <3>2
  <2>2. ASSUME NEW u \in Users, holds'[u] # None
        PROVE  mod'[holds'[u]].state = "LIVE"
    BY <1>1, <1>4, <1>10, <2>2 DEF UsedIsLive, ModuleTypes
  <2>3. QED
    BY <2>1, <2>2 DEF UsedIsLive
<1>12. /\ pc'[p] \in {"undo_list", "unlink"} /\ pc[p] \in {"undo_uses", "unuse"} /\ mine'[p] = m
       /\ StatesAt(pc'[p]) = StatesAt(pc[p]) \/ pc'[p] = "unlink"
       /\ pc[p] = "unuse" <=> pc'[p] = "unlink"
       /\ \A q \in Procs \ {p} : pc'[q] = pc[q] /\ mine'[q] = mine[q] /\ name'[q] = name[q]
  <2>1. /\ pc'[p] \in {"undo_list", "unlink"} /\ pc[p] \in {"undo_uses", "unuse"} /\ mine'[p] = m
        /\ pc[p] = "unuse" <=> pc'[p] = "unlink"
        /\ \A q \in Procs \ {p} : pc'[q] = pc[q] /\ mine'[q] = mine[q] /\ name'[q] = name[q]
    BY <1>1, <1>3, GotoFacts
  <2>2. StatesAt("undo_list") = StatesAt("undo_uses")
    BY DEF StatesAt
  <2>3. QED
    BY <2>1, <2>2
<1>13. ASSUME NEW x \in Objs
       PROVE  Counted(x)'
  <2>1. (Loading(x)' <=> Loading(x)) /\ (Releasing(x)' <=> Releasing(x))
    BY <1>12, LoadersKept
  <2>2. Holders(x)' = Holders(x)
    BY <1>1 DEF Holders
  <2>3. CASE x \notin mod[m].uses
    <3>1. Linked(x)' = Linked(x)
      BY <1>8, <1>10, <2>3 DEF Linked
    <3>2. mod[x].state = "LIVE" => mod'[x].ref = mod[x].ref
      BY <1>5, <1>8, <2>3
    <3>3. QED
      BY <1>4, <1>10, <2>1, <2>2, <3>1, <3>2 DEF Counted
  <2>4. CASE x \in mod[m].uses
    <3>1. Linked(x)' = Linked(x) \ {m} /\ m \in Linked(x)
      BY <1>7, <1>8, <1>10, <2>4 DEF Linked
    <3>2. Cardinality(Linked(x)') = Cardinality(Linked(x)) - 1
      <4>1. IsFiniteSet(Linked(x))
        BY Counts
      <4>2. Cardinality(Linked(x) \ {m}) = Cardinality(Linked(x)) - 1
        BY <3>1, <4>1, FS_RemoveElement
      <4>3. QED
        BY <3>1, <4>2
    <3>3. mod[x].ref = (IF Releasing(x) THEN 0 ELSE 1) + (IF Loading(x) THEN 1 ELSE 0)
                       + Cardinality(Linked(x)) + Cardinality(Holders(x))
      BY <1>4, <1>6, <2>4 DEF Counted
    <3>4. mod'[x].ref = (IF Releasing(x) THEN 0 ELSE 1) + (IF Loading(x) THEN 1 ELSE 0)
                       + Cardinality(Linked(x)') + Cardinality(Holders(x))
      <4>1. mod'[x].ref = mod[x].ref - 1
        BY <1>8, <2>4
      <4>2. Cardinality(Linked(x)) \in Nat /\ Cardinality(Holders(x)) \in Nat
        BY Counts
      <4>3. QED
        BY <3>2, <3>3, <4>1, <4>2
    <3>5. QED
      BY <2>1, <2>2, <3>4 DEF Counted
  <2>5. QED
    BY <2>3, <2>4
<1>14. ASSUME NEW q \in Procs
       PROVE  /\ pc[q] = "readd" => mine[q] \in Objs /\ mod'[mine[q]].state = "LIVE"
              /\ pc[q] \in OwnPcs =>
                    LET z == mine[q] IN
                    /\ z \in Objs /\ mod'[z].state = mod[z].state
                    /\ q # p => mod'[z].uses = mod[z].uses
                    /\ pc[q] # "putinit" => mod'[z].ref = mod[z].ref
  <2>1. Placed(q)
    BY <1>4 DEF AllPlaced
  <2>2. CASE pc[q] = "readd"
    BY <1>10, <2>1, <2>2, Labels DEF Placed
  <2>3. CASE pc[q] \in OwnPcs
    <3>1. mine[q] \in Objs /\ (pc[q] # "putinit" => mod[mine[q]].state # "LIVE")
      BY <2>1, <2>3, OwnedStates
    <3>2. q # p => mod'[mine[q]].uses = mod[mine[q]].uses
      BY <1>5, <1>10, <2>3, <3>1
    <3>3. QED
      BY <1>10, <2>3, <3>1, <3>2, Labels
  <2>4. QED
    BY <2>2, <2>3
<1>15. Placed(p)'
  <2>1. /\ \A l \in {"undo_list", "unlink"} :
              l \notin NoModule /\ l \notin Counting /\ l \notin {"add", "add_wait", "readd"}
              /\ l \notin Unlinked /\ l \in OwnPcs
        /\ pc[p] \notin Unlinked /\ pc[p] # "readd"
    BY <1>12, Labels DEF NoModule, Counting, Unlinked
  <2>2. m \in listed
    BY <1>2, <1>3, <1>5, <2>1 DEF Placed
  <2>3. mod'[m].state \in StatesAt(pc'[p])
    <3>1. mod[m].state \in StatesAt(pc'[p])
      <4>1. StatesAt("unuse") = StatesAt("unlink")
        BY DEF StatesAt
      <4>2. QED
        BY <1>5, <1>12, <4>1
    <3>2. QED
      BY <1>8, <3>1
  <2>4. mutex' # p
    BY <1>1, <1>5, <2>1 DEF Placed
  <2>5. QED
    BY <1>8, <1>9, <1>12, <2>1, <2>2, <2>3, <2>4 DEF Placed
<1>16. \A q \in Procs \ {p} :
            /\ pc'[q] = pc[q] /\ mine'[q] = mine[q] /\ name'[q] = name[q]
            /\ mutex' = q <=> mutex = q
            /\ pc[q] = "readd" => mod'[mine[q]].state = "LIVE"
            /\ pc[q] \in OwnPcs =>
                  LET z == mine[q] IN
                  /\ mod'[z].state = mod[z].state /\ mod'[z].uses = mod[z].uses
                  /\ pc[q] # "putinit" => mod'[z].ref = mod[z].ref
  BY <1>1, <1>12, <1>14
<1>17. /\ pc'[p] \in OwnPcs /\ mine'[p] = mine[p]
       /\ \A q \in Procs \ {p} : pc[q] \in OwnPcs => mine[q] # mine'[p]
  BY <1>3, <1>5, <1>12, Labels
<1>18. QED
  BY <1>9, <1>10, <1>11, <1>13, <1>15, <1>16, <1>17, LiveStep

\* try_module_get and module_put: a holder more or less.
LEMMA UserSafe ==
  ASSUME ProcTypes, Safe, NEW u \in Users, UserStep(u)
  PROVE  Safe'
<1>1. /\ ModuleTypes /\ UsedIsLive /\ AllPlaced /\ OneOwner /\ \A x \in Objs : Counted(x)
  BY CountedExact DEF Safe
<1>2. UNCHANGED <<pc, mine, name, listed, mutex>>
  BY DEF UserStep, UserPut, UserGet, procVars
<1>3. PICK o \in Objs, k \in Nat, h \in Objs \cup {None} :
        /\ mod[o].state = "LIVE" /\ Becomes(o, "LIVE", k)
        /\ holds' = [holds EXCEPT ![u] = h] /\ h \in {o, None}
        /\ k + Cardinality(Holders(o)) = mod[o].ref + Cardinality(Holders(o)')
        /\ \A x \in Objs \ {o} : Holders(x)' = Holders(x)
  <2>1. CASE UserPut(u)
    <3>1. holds[u] # None
      BY <2>1 DEF UserPut
    <3>2. PICK o \in Objs : o = holds[u]
      BY <3>1, <1>1 DEF ModuleTypes
    <3>3. /\ mod' = [mod EXCEPT ![o].ref = IF mod[o].ref > 0 THEN mod[o].ref - 1 ELSE 0]
          /\ holds' = [holds EXCEPT ![u] = None]
      BY <2>1, <3>2 DEF UserPut
    <3>4. mod[o].state = "LIVE" /\ u \in Holders(o)
      BY <1>1, <3>1, <3>2 DEF UsedIsLive, Holders
    <3>5. /\ Holders(o)' = Holders(o) \ {u}
          /\ \A x \in Objs \ {o} : Holders(x)' = Holders(x)
      BY <1>1, <3>2, <3>3 DEF Holders, ModuleTypes
    <3>6. /\ Cardinality(Holders(o)') = Cardinality(Holders(o)) - 1
          /\ Cardinality(Holders(o)) \in Nat /\ Cardinality(Holders(o)) # 0
      <4>1. IsFiniteSet(Holders(o)) /\ Cardinality(Holders(o)) \in Nat
            /\ Cardinality(Holders(o)) # 0
        BY <3>4, Counts
      <4>2. Cardinality(Holders(o) \ {u}) = Cardinality(Holders(o)) - 1
        BY <3>4, <4>1, FS_RemoveElement
      <4>3. QED
        BY <3>5, <4>1, <4>2
    <3>7. mod[o].ref \in Nat /\ mod[o].ref > 0
      <4>1. mod[o].ref = (IF Releasing(o) THEN 0 ELSE 1) + (IF Loading(o) THEN 1 ELSE 0)
                         + Cardinality(Linked(o)) + Cardinality(Holders(o))
        BY <1>1, <3>4 DEF Counted
      <4>2. Cardinality(Linked(o)) \in Nat
        BY Counts
      <4>3. QED
        BY <3>6, <4>1, <4>2
    <3>8. Becomes(o, "LIVE", mod[o].ref - 1)
      <4>1. (IF mod[o].ref > 0 THEN mod[o].ref - 1 ELSE 0) = mod[o].ref - 1 /\ mod[o].ref - 1 \in Nat
        BY <3>7
      <4>2. mod' = [mod EXCEPT ![o].ref = mod[o].ref - 1]
        BY <3>3, <4>1, Zenon
      <4>3. QED
        BY <1>1, <3>4, <4>1, <4>2, RefSet
    <3>9. /\ mod[o].ref - 1 \in Nat /\ None \in {o, None}
          /\ mod[o].ref - 1 + Cardinality(Holders(o)) = mod[o].ref + Cardinality(Holders(o)')
      BY <3>6, <3>7
    <3>10. QED
      BY <3>3, <3>4, <3>5, <3>8, <3>9
  <2>2. CASE \E o \in Objs : UserGet(u, o)
    <3>1. PICK o \in Objs : UserGet(u, o)
      BY <2>2
    <3>2. /\ holds[u] = None /\ mod[o].state = "LIVE" /\ o # None
          /\ mod' = [mod EXCEPT ![o].ref = mod[o].ref + 1]
          /\ holds' = [holds EXCEPT ![u] = o]
      BY <3>1 DEF UserGet
    <3>3. /\ Holders(o)' = Holders(o) \cup {u} /\ u \notin Holders(o)
          /\ \A x \in Objs \ {o} : Holders(x)' = Holders(x)
      BY <1>1, <3>2 DEF Holders, ModuleTypes
    <3>4. Cardinality(Holders(o)') = Cardinality(Holders(o)) + 1 /\ Cardinality(Holders(o)) \in Nat
      <4>1. IsFiniteSet(Holders(o)) /\ Cardinality(Holders(o)) \in Nat
        BY Counts
      <4>2. Cardinality(Holders(o) \cup {u}) = Cardinality(Holders(o)) + 1
        BY <3>3, <4>1, FS_AddElement
      <4>3. QED
        BY <3>3, <4>1, <4>2
    <3>5. mod[o].ref \in Nat
      BY <1>1 DEF ModuleTypes, ModuleType
    <3>6. /\ mod[o].ref + 1 \in Nat /\ o \in {o, None}
          /\ mod[o].ref + 1 + Cardinality(Holders(o)) = mod[o].ref + Cardinality(Holders(o)')
      BY <3>4, <3>5
    <3>7. Becomes(o, "LIVE", mod[o].ref + 1)
      BY <1>1, <3>2, <3>6, RefSet
    <3>8. QED
      BY <3>2, <3>3, <3>6, <3>7
  <2>3. QED
    BY <2>1, <2>2 DEF UserStep
<1>4. /\ \A x \in Objs : mod'[x].uses = mod[x].uses /\ mod'[x].name = mod[x].name
                         /\ mod'[x].state = mod[x].state
      /\ \A x \in Objs \ {o} : mod'[x] = mod[x]
      /\ mod'[o].ref = k /\ mod' \in [Objs -> ModuleType]
  BY <1>3 DEF Becomes
<1>5. ModuleTypes' /\ listed' = listed
  BY <1>1, <1>2, <1>3, <1>4 DEF ModuleTypes
<1>6. UsedIsLive'
  <2>1. ASSUME NEW x \in Objs, NEW y \in mod'[x].uses
        PROVE  mod'[y].state = "LIVE"
    BY <1>1, <1>4 DEF UsedIsLive, ModuleTypes, ModuleType
  <2>2. ASSUME NEW v \in Users, holds'[v] # None
        PROVE  mod'[holds'[v]].state = "LIVE"
    <3>1. CASE v = u
      BY <1>1, <1>3, <1>4, <2>2, <3>1 DEF ModuleTypes
    <3>2. CASE v # u
      BY <1>1, <1>3, <1>4, <2>2, <3>2 DEF UsedIsLive, ModuleTypes
    <3>3. QED
      BY <3>1, <3>2
  <2>3. QED
    BY <2>1, <2>2 DEF UsedIsLive
<1>7. ASSUME NEW x \in Objs
      PROVE  Counted(x)'
  <2>1. (Loading(x)' <=> Loading(x)) /\ (Releasing(x)' <=> Releasing(x))
    BY <1>2 DEF Loading, Releasing
  <2>2. Linked(x)' = Linked(x)
    BY <1>4 DEF Linked
  <2>3. CASE x # o
    BY <1>1, <1>3, <1>4, <2>1, <2>2, <2>3, CountFrame DEF Counted
  <2>4. CASE x = o
    <3>1. mod[o].ref = (IF Releasing(o) THEN 0 ELSE 1) + (IF Loading(o) THEN 1 ELSE 0)
                       + Cardinality(Linked(o)) + Cardinality(Holders(o))
      BY <1>1, <1>3 DEF Counted
    <3>2. Cardinality(Holders(o)') \in Nat /\ Cardinality(Holders(o)) \in Nat
          /\ Cardinality(Linked(o)) \in Nat
      <4>1. Holders(o)' \subseteq Users
        BY DEF Holders
      <4>2. QED
        BY <4>1, Counts, FS_Subset, FS_CardinalityType
    <3>3. k = (IF Releasing(o) THEN 0 ELSE 1) + (IF Loading(o) THEN 1 ELSE 0)
                       + Cardinality(Linked(o)) + Cardinality(Holders(o)')
      BY <1>3, <3>1, <3>2
    <3>4. QED
      BY <1>4, <2>1, <2>2, <2>4, <3>3 DEF Counted
  <2>5. QED
    BY <2>3, <2>4
<1>8. \A q \in Procs \ {None} :
            /\ pc'[q] = pc[q] /\ mine'[q] = mine[q] /\ name'[q] = name[q]
            /\ mutex' = q <=> mutex = q
            /\ pc[q] = "readd" => mod'[mine[q]].state = "LIVE"
            /\ pc[q] \in OwnPcs =>
                  LET z == mine[q] IN
                  /\ mod'[z].state = mod[z].state /\ mod'[z].uses = mod[z].uses
                  /\ pc[q] # "putinit" => mod'[z].ref = mod[z].ref
  <2>1. ASSUME NEW q \in Procs
        PROVE  /\ pc[q] = "readd" => mod'[mine[q]].state = "LIVE"
               /\ pc[q] \in OwnPcs =>
                  LET z == mine[q] IN
                  /\ mod'[z].state = mod[z].state /\ mod'[z].uses = mod[z].uses
                  /\ pc[q] # "putinit" => mod'[z].ref = mod[z].ref
    <3>1. Placed(q)
      BY <1>1 DEF AllPlaced
    <3>2. CASE pc[q] = "readd"
      BY <1>4, <3>1, <3>2, Labels DEF Placed
    <3>3. CASE pc[q] \in OwnPcs
      <4>1. mine[q] \in Objs /\ (pc[q] # "putinit" => mod[mine[q]].state # "LIVE")
        BY <3>1, <3>3, OwnedStates
      <4>2. QED
        BY <1>3, <1>4, <3>3, <4>1, Labels
    <3>4. QED
      BY <3>2, <3>3
  <2>2. QED
    BY <1>2, <2>1
<1>9. /\ None \notin Procs
      /\ \A x \in Objs : mod'[x].state = mod[x].state
                         /\ (mod[x].state # "LIVE" => mod'[x].ref = mod[x].ref)
                         /\ (mod[x].state = "FREE" => mod'[x] = mod[x])
  BY <1>3, <1>4
<1>10. QED
  BY <1>4, <1>5, <1>6, <1>7, <1>8, <1>9, LiveStep

-----------------------------------------------------------------------------
(* The processes' own variables, and idem_hash.                            *)

\* What a process does in the kernel but for the wrapper of finit_module.
Advance(p) ==
    \/ WaitInterrupted(p) \/ LoadStep(p)
    \/ InitSucceeds(p) \/ InitFails(p) \/ DropInitialRef(p) \/ InitUndo(p)
    \/ UndoGoing(p) \/ UndoUses(p) \/ UndoList(p) \/ Deallocate(p)
    \/ DeleteRefused(p) \/ ReleaseRef(p) \/ ReaddRef(p)
    \/ FreeUnform(p) \/ FreeUnuse(p) \/ FreeUnlink(p) \/ WakeAll(p)

\* The labels inside a call.
Within == Pcs \ {"idle", "idem_wait", "complete"}

Onward(p) ==
    /\ UNCHANGED <<name, file, idem, calls>> /\ pc[p] \in Within
    /\ asleep' \subseteq Procs /\ mutex' \in Procs \cup {None} /\ logPage' \in BOOLEAN
    /\ \/ /\ \E l \in Within : Goto(p, l)
          /\ mine' \in [Procs -> Objs \cup {None}] /\ ret' \in [Procs -> {"ok", "err"}]
       \/ UNCHANGED <<pc, mine, ret>>
       \/ \E r \in {"ok", "err"} : Return(p, r)

LEMMA AllOnward ==
  ASSUME ProcTypes, ModuleTypes, NEW p \in Procs, Advance(p)
  PROVE  Onward(p)
<1> USE DEF Onward, procVars
<1>0. Within = {"early", "early_wait", "alloc", "add", "add_wait", "setup",
            "resolve", "form", "coming", "log", "init", "putinit", "failed",
            "undo_going", "undo_uses", "undo_list", "dealloc",
            "unform", "unuse", "unlink", "wake", "delete", "readd"}
  BY DEF Within, Pcs, LoadPcs, FreePcs
<1>1. CASE EarlyModCheck(p) \/ AllocateFails(p) \/ DeleteRefused(p) \/ LogPageFails(p)
  BY <1>0, <1>1 DEF EarlyModCheck, AllocateFails, DeleteRefused, LogPageFails, ProcTypes
<1>2. CASE Allocate(p)
  BY <1>0, <1>2 DEF Allocate, ProcTypes
<1>3. CASE AddUnformedModule(p) \/ UnloadInit(p) \/ CompleteFormation(p) \/ PrepareComing(p)
  BY <1>0, <1>3 DEF AddUnformedModule, UnloadInit, CompleteFormation, PrepareComing, ProcTypes
<1>4. CASE WaitFinished(p)
  BY <1>0, <1>4 DEF WaitFinished, ProcTypes
<1>5. CASE WaitInterrupted(p)
  BY <1>0, <1>5 DEF WaitInterrupted, ProcTypes
<1>6. CASE Resolved(p) \/ LoadFails(p) \/ LogModule(p)
  BY <1>0, <1>6 DEF Resolved, LoadFails, LogModule, ProcTypes
<1>7. CASE ResolveFails(p) \/ \E o \in Objs : ResolveSymbol(p, o) \/ ResolveWait(p, o)
  BY <1>0, <1>7 DEF ResolveFails, ResolveSymbol, ResolveWait, ProcTypes
<1>8. CASE InitSucceeds(p) \/ InitFails(p) \/ UndoGoing(p) \/ UndoUses(p)
  BY <1>0, <1>8 DEF InitSucceeds, InitFails, UndoGoing, UndoUses, ProcTypes
<1>9. CASE DropInitialRef(p) \/ InitUndo(p)
  BY <1>0, <1>9 DEF DropInitialRef, InitUndo, ProcTypes
<1>10. CASE UndoList(p) \/ Deallocate(p)
  BY <1>0, <1>10 DEF UndoList, Deallocate, Wake, ProcTypes
<1>11. CASE ReleaseRef(p)
  BY <1>0, <1>11 DEF ReleaseRef, Exporter, ProcTypes, ModuleTypes
<1>12. CASE ReaddRef(p)
  BY <1>0, <1>12 DEF ReaddRef, ProcTypes
<1>13. CASE FreeUnform(p) \/ FreeUnuse(p) \/ FreeUnlink(p)
  BY <1>0, <1>13 DEF FreeUnform, FreeUnuse, FreeUnlink, ProcTypes
<1>14. CASE WakeAll(p)
  BY <1>0, <1>14 DEF WakeAll, Wake, ProcTypes
<1>15. QED
  BY <1>1, <1>2, <1>3, <1>4, <1>5, <1>6, <1>7, <1>8, <1>9, <1>10, <1>11, <1>12, <1>13, <1>14
     DEF Advance, LoadStep

\* The wrapper's state, and that no waiter of idem_hash is left without its winner.
Wrapped == IdemOK /\ IdempotentHasWinner

LEMMA OnwardKeeps ==
  ASSUME ProcTypes, Wrapped, NEW p \in Procs, Onward(p)
  PROVE  ProcTypes' /\ Wrapped'
<1>1. /\ UNCHANGED <<name, file, idem, calls>> /\ pc[p] \in Within
      /\ asleep' \subseteq Procs /\ mutex' \in Procs \cup {None} /\ logPage' \in BOOLEAN
  BY DEF Onward
<1>2. /\ \A q \in Procs \ {p} : pc'[q] = pc[q]
      /\ pc'[p] \in Within \/ pc'[p] = (IF file[p] THEN "complete" ELSE "idle")
      /\ pc' \in [Procs -> Pcs] /\ mine' \in [Procs -> Objs \cup {None}]
      /\ ret' \in [Procs -> {"ok", "err"}]
  <2>1. CASE /\ \E l \in Within : Goto(p, l)
             /\ mine' \in [Procs -> Objs \cup {None}] /\ ret' \in [Procs -> {"ok", "err"}]
    <3>1. PICK l \in Within : Goto(p, l)
      BY <2>1
    <3>2. l \in Pcs
      BY DEF Within
    <3>3. QED
      BY <2>1, <3>1, <3>2, GotoFacts
  <2>2. CASE UNCHANGED <<pc, mine, ret>>
    BY <1>1, <2>2 DEF ProcTypes
  <2>3. CASE \E r \in {"ok", "err"} : Return(p, r)
    BY <2>3, ReturnFacts
  <2>4. QED
    BY <2>1, <2>2, <2>3 DEF Onward
<1>3. ProcTypes'
  BY <1>1, <1>2 DEF ProcTypes
<1>4. ASSUME NEW q \in Procs
      PROVE  /\ file[q] => (pc'[q] = "idle" <=> pc[q] = "idle")
             /\ pc'[q] = "idem_wait" <=> pc[q] = "idem_wait"
             /\ pc'[q] = "complete" => file[q]
  BY <1>1, <1>2 DEF Within, Wrapped, IdemOK
<1>5. IdemOK'
  BY <1>1, <1>4 DEF ProcTypes, Wrapped, IdemOK
<1>6. IdempotentHasWinner'
  BY <1>1, <1>4 DEF ProcTypes, Wrapped, IdempotentHasWinner
<1>7. QED
  BY <1>3, <1>5, <1>6 DEF Wrapped

\* init_module and delete_module do not come near idem_hash.
LEMMA PlainCalls ==
  ASSUME ProcTypes, Wrapped, NEW p \in Procs, NEW n \in Names,
         InitModule(p, n) \/ DeleteModule(p, n)
  PROVE  ProcTypes' /\ Wrapped'
<1>1. /\ pc[p] = "idle" /\ calls < MaxCalls /\ calls' = calls + 1
      /\ name' = [name EXCEPT ![p] = n] /\ file' = [file EXCEPT ![p] = FALSE]
      /\ Goto(p, "early") \/ Goto(p, "delete")
      /\ UNCHANGED <<mine, asleep, ret, idem, mutex, logPage>>
  BY DEF InitModule, DeleteModule
<1>2. {"early", "delete"} \subseteq Pcs
  BY DEF Pcs, LoadPcs
<1>3. /\ pc'[p] \in {"early", "delete"} /\ \A q \in Procs \ {p} : pc'[q] = pc[q]
      /\ pc' \in [Procs -> Pcs]
  BY <1>1, <1>2, GotoFacts
<1>4. ProcTypes'
  <2>1. calls' \in 0 .. MaxCalls
    BY <1>1 DEF ProcTypes
  <2>2. name' \in [Procs -> Names \cup {None}]
    BY <1>1 DEF ProcTypes
  <2>3. file' \in [Procs -> BOOLEAN]
    BY <1>1 DEF ProcTypes
  <2>4. idem' \subseteq Procs
    BY <1>1 DEF ProcTypes
  <2>5. QED
    BY <1>1, <1>3, <2>1, <2>2, <2>3, <2>4 DEF ProcTypes
<1>5. /\ p \notin idem /\ ~file'[p]
      /\ \A q \in Procs \ {p} : name'[q] = name[q] /\ file'[q] = file[q]
  BY <1>1 DEF Wrapped, IdemOK, ProcTypes
<1>6. IdemOK'
  BY <1>1, <1>3, <1>5 DEF Wrapped, IdemOK, ProcTypes
<1>7. IdempotentHasWinner'
  BY <1>1, <1>3, <1>5 DEF Wrapped, IdempotentHasWinner, ProcTypes
<1>8. QED
  BY <1>4, <1>6, <1>7 DEF Wrapped

\* finit_module is the winner of its file or waits for the one there is.
LEMMA FinitKeeps ==
  ASSUME ProcTypes, Wrapped, NEW p \in Procs, NEW n \in Names, FinitModule(p, n)
  PROVE  ProcTypes' /\ Wrapped'
<1> DEFINE l == IF \E q \in idem : name[q] = n THEN "idem_wait" ELSE "early"
<1>1. /\ pc[p] = "idle" /\ calls < MaxCalls /\ calls' = calls + 1
      /\ name' = [name EXCEPT ![p] = n] /\ file' = [file EXCEPT ![p] = TRUE]
      /\ idem' = idem \cup {p} /\ Goto(p, l)
      /\ UNCHANGED <<mine, asleep, ret, mutex, logPage>>
  BY DEF FinitModule
<1>2. l \in {"early", "idem_wait"} /\ {"early", "idem_wait"} \subseteq Pcs
  BY DEF Pcs, LoadPcs
<1>3. /\ pc'[p] = l /\ \A q \in Procs \ {p} : pc'[q] = pc[q]
      /\ pc' \in [Procs -> Pcs]
  <2> HIDE DEF l
  <2>1. QED
    BY <1>1, <1>2, GotoFacts
<1>4. ProcTypes'
  <2>1. calls' \in 0 .. MaxCalls
    BY <1>1 DEF ProcTypes
  <2>2. name' \in [Procs -> Names \cup {None}]
    BY <1>1 DEF ProcTypes
  <2>3. file' \in [Procs -> BOOLEAN]
    BY <1>1 DEF ProcTypes
  <2>4. idem' \subseteq Procs
    BY <1>1 DEF ProcTypes
  <2>5. QED
    BY <1>1, <1>3, <2>1, <2>2, <2>3, <2>4 DEF ProcTypes
<1>5. /\ p \notin idem /\ file'[p] /\ name'[p] = n /\ idem \subseteq Procs
      /\ \A q \in Procs \ {p} : name'[q] = name[q] /\ file'[q] = file[q]
  BY <1>1 DEF Wrapped, IdemOK, ProcTypes
<1>6. pc'[p] = "early" => \A q \in idem : name[q] # n
  BY <1>3
<1>7. pc'[p] = "idem_wait" => \E q \in idem : name[q] = n
  BY <1>3
<1>8. pc'[p] \in {"early", "idem_wait"}
  BY <1>2, <1>3
<1> HIDE DEF l
<1>9. IdemOK'
  <2>1. \A q \in Procs : q \in idem' <=> file'[q] /\ pc'[q] # "idle"
    BY <1>1, <1>3, <1>5, <1>8 DEF Wrapped, IdemOK
  <2>2. \A q \in Procs : pc'[q] = "idem_wait" => q \in idem'
    BY <1>1, <1>3, <1>5 DEF Wrapped, IdemOK
  <2>3. \A q \in Procs : pc'[q] = "complete" => file'[q]
    BY <1>3, <1>5 DEF Wrapped, IdemOK
  <2>4. ASSUME NEW a \in idem', NEW b \in idem', name'[a] = name'[b],
               pc'[a] # "idem_wait", pc'[b] # "idem_wait"
        PROVE  a = b
    <3>1. CASE a = p \/ b = p
      BY <1>1, <1>5, <1>6, <1>8, <2>4, <3>1
    <3>2. CASE a # p /\ b # p
      BY <1>1, <1>3, <1>5, <2>4, <3>2 DEF Wrapped, IdemOK
    <3>3. QED
      BY <3>1, <3>2
  <2>5. QED
    BY <2>1, <2>2, <2>3, <2>4 DEF IdemOK
<1>10. IdempotentHasWinner'
  <2>1. ASSUME NEW a \in idem
        PROVE  \E q \in idem' : name'[q] = name'[a] /\ pc'[q] # "idem_wait"
    <3>1. PICK q \in idem : name[q] = name[a] /\ pc[q] # "idem_wait"
      BY DEF Wrapped, IdempotentHasWinner
    <3>2. QED
      BY <1>1, <1>3, <1>5, <3>1
  <2>2. \E q \in idem' : name'[q] = name'[p] /\ pc'[q] # "idem_wait"
    <3>1. CASE pc'[p] = "early"
      BY <1>1, <3>1
    <3>2. CASE pc'[p] = "idem_wait"
      <4>1. PICK a \in idem : name[a] = n
        BY <1>7, <3>2
      <4>2. QED
        BY <1>5, <2>1, <4>1
    <3>3. QED
      BY <1>8, <3>1, <3>2
  <2>3. QED
    BY <1>1, <2>1, <2>2 DEF IdempotentHasWinner
<1>11. QED
  BY <1>4, <1>9, <1>10 DEF Wrapped

\* The winner takes everybody with its file off the list; a signal only the waiter.
LEMMA CompleteKeeps ==
  ASSUME ProcTypes, Wrapped, NEW p \in Procs,
         IdempotentComplete(p) \/ IdempotentInterrupted(p)
  PROVE  ProcTypes' /\ Wrapped'
<1>1. PICK S \in SUBSET idem :
        /\ S = {q \in idem : name[q] = name[p]} \/ (S = {p} /\ pc[p] = "idem_wait")
        /\ idem' = idem \ S
        /\ \A q \in Procs : pc'[q] = IF q \in S THEN "idle" ELSE pc[q]
        /\ pc' \in [Procs -> Pcs] /\ ret' \in [Procs -> {"ok", "err"}]
        /\ UNCHANGED <<name, mine, file, asleep, mutex, logPage, calls>>
  <2>1. CASE IdempotentComplete(p)
    <3> DEFINE S == {q \in idem : name[q] = name[p]}
    <3>1. /\ pc' = [q \in Procs |-> IF q \in S THEN "idle" ELSE pc[q]]
          /\ ret' = [q \in Procs |-> IF q \in S THEN ret[p] ELSE ret[q]]
          /\ idem' = idem \ S
          /\ UNCHANGED <<name, mine, file, asleep, mutex, logPage, calls>>
      BY <2>1 DEF IdempotentComplete
    <3>2. "idle" \in Pcs /\ S \in SUBSET idem
      BY DEF Pcs
    <3>3. /\ \A q \in Procs : pc'[q] = IF q \in S THEN "idle" ELSE pc[q]
          /\ pc' \in [Procs -> Pcs] /\ ret' \in [Procs -> {"ok", "err"}]
      <4> HIDE DEF S
      <4>1. QED
        BY <3>1, <3>2 DEF ProcTypes
    <3>4. QED
      BY <3>1, <3>2, <3>3
  <2>2. CASE IdempotentInterrupted(p)
    <3>1. /\ pc[p] = "idem_wait" /\ idem' = idem \ {p} /\ Goto(p, "idle")
          /\ ret' = [ret EXCEPT ![p] = "err"]
          /\ UNCHANGED <<name, mine, file, asleep, mutex, logPage, calls>>
      BY <2>2 DEF IdempotentInterrupted
    <3>2. {p} \in SUBSET idem
      BY <3>1 DEF Wrapped, IdemOK
    <3>3. /\ \A q \in Procs : pc'[q] = IF q \in {p} THEN "idle" ELSE pc[q]
          /\ pc' \in [Procs -> Pcs]
      <4>1. "idle" \in Pcs
        BY DEF Pcs
      <4>2. QED
        BY <3>1, <4>1, GotoFacts
    <3>4. ret' \in [Procs -> {"ok", "err"}]
      BY <3>1 DEF ProcTypes
    <3>5. QED
      BY <3>1, <3>2, <3>3, <3>4
  <2>3. QED
    BY <2>1, <2>2
<1>2. ProcTypes'
  BY <1>1 DEF ProcTypes
<1>3. IdemOK'
  BY <1>1 DEF Wrapped, IdemOK, ProcTypes
<1>4. IdempotentHasWinner'
  <2>1. ASSUME NEW a \in idem'
        PROVE  \E q \in idem' : name'[q] = name'[a] /\ pc'[q] # "idem_wait"
    <3>1. a \in idem /\ a \notin S
      BY <1>1
    <3>2. PICK q \in idem : name[q] = name[a] /\ pc[q] # "idem_wait"
      BY <3>1 DEF Wrapped, IdempotentHasWinner
    <3>3. q \notin S
      BY <1>1, <3>1, <3>2
    <3>4. q \in Procs
      BY DEF ProcTypes
    <3>5. QED
      BY <1>1, <3>2, <3>3, <3>4
  <2>2. QED
    BY <2>1 DEF IdempotentHasWinner
<1>5. QED
  BY <1>2, <1>3, <1>4 DEF Wrapped

-----------------------------------------------------------------------------
(* The theorems.                                                           *)

\* A step of a process.
LEMMA ProcessStep ==
  ASSUME ~RoFails, IInv, NEW p \in Procs,
         Call(p) \/ Signal(p) \/ LoadStep(p) \/ InitStep(p)
  PROVE  IInv'
<1>1. ProcTypes /\ Safe /\ IdemOK /\ Wrapped /\ ModuleTypes
  BY DEF IInv, Wrapped, Safe
<1>2. Safe'
  <2>1. CASE QuietAction(p)
    BY <1>1, <2>1, QuietActions
  <2>2. CASE Allocate(p)
    BY <1>1, <2>2, AllocateSafe
  <2>3. CASE AddUnformedModule(p)
    <3>1. CASE UNCHANGED modVars
      BY <1>1, <2>3, <3>1, QuietActions DEF QuietAction
    <3>2. CASE ~UNCHANGED modVars
      BY <1>1, <2>3, <3>2, AddSafe
    <3>3. QED
      BY <3>1, <3>2
  <2>4. CASE OwnAction(p)
    BY <1>1, <2>4, OwnActions
  <2>5. CASE Deallocate(p)
    BY <1>1, <2>5, DeallocateSafe
  <2>6. CASE FreeUnlink(p)
    BY <1>1, <2>6, FreeUnlinkSafe
  <2>7. CASE InitSucceeds(p)
    BY <1>1, <2>7, InitSucceedsSafe
  <2>8. CASE DropInitialRef(p)
    BY <1>1, <2>8, DropInitialRefSafe
  <2>9. CASE ReleaseRef(p)
    BY <1>1, <2>9, ReleaseRefSafe
  <2>10. CASE ReaddRef(p)
    BY <1>1, <2>10, ReaddRefSafe
  <2>11. CASE \E o \in Objs : ResolveSymbol(p, o)
    BY <1>1, <2>11, ResolveSymbolSafe
  <2>12. CASE UndoUses(p) \/ FreeUnuse(p)
    BY <1>1, <2>12, UnusedSafe
  <2>13. CASE IdempotentComplete(p)
    BY <1>1, <2>13, CompleteQuiet
  <2>14. QED
    BY <2>1, <2>2, <2>3, <2>4, <2>5, <2>6, <2>7, <2>8, <2>9, <2>10, <2>11, <2>12, <2>13
       DEF QuietAction, OwnAction, Signal, LoadStep, InitStep
<1>3. ProcTypes' /\ Wrapped'
  <2>1. CASE Call(p)
    <3>1. PICK n \in Names : InitModule(p, n) \/ FinitModule(p, n) \/ DeleteModule(p, n)
      BY <2>1 DEF Call
    <3>2. QED
      BY <1>1, <3>1, PlainCalls, FinitKeeps
  <2>2. CASE IdempotentComplete(p) \/ IdempotentInterrupted(p)
    BY <1>1, <2>2, CompleteKeeps
  <2>3. CASE Advance(p)
    BY <1>1, <2>3, AllOnward, OnwardKeeps
  <2>4. QED
    BY <2>1, <2>2, <2>3 DEF Advance, Signal, InitStep
<1>4. QED
  BY <1>2, <1>3 DEF IInv, Wrapped

\* The invariant is inductive if making the data read-only after init does not fail.
LEMMA Inductive ==
  ASSUME ~RoFails
  PROVE  (Init => IInv) /\ (IInv /\ [Next]_vars => IInv')
<1>1. ASSUME Init
      PROVE  IInv
  <2>1. ProcTypes
    <3>1. "idle" \in Pcs
      BY DEF Pcs
    <3>2. /\ pc = [p \in Procs |-> "idle"] /\ name = [p \in Procs |-> None]
          /\ mine = [p \in Procs |-> None] /\ file = [p \in Procs |-> FALSE]
          /\ ret = [p \in Procs |-> "err"] /\ asleep = {} /\ idem = {}
          /\ mutex = None /\ logPage = FALSE /\ calls = 0
      BY <1>1 DEF Init
    <3>3. calls \in 0 .. MaxCalls
      BY <3>2
    <3>4. QED
      BY <3>1, <3>2, <3>3 DEF ProcTypes
  <2>2. Blank \in ModuleType /\ Blank.state = "FREE" /\ Blank.ref = 0 /\ Blank.uses = {}
    BY DEF Blank, ModuleType, States
  <2>3. /\ \A o \in Objs : mod[o] = Blank /\ listed = {} /\ mod \in [Objs -> ModuleType]
        /\ \A u \in Users : holds[u] = None
        /\ \A p \in Procs : pc[p] = "idle" /\ mine[p] = None
        /\ mutex = None
    BY <1>1, <2>2 DEF Init
  <2>4. ModuleTypes
    BY <1>1, <2>2 DEF Init, ModuleTypes
  <2>5. AllPlaced /\ OneOwner
    BY <2>3, Labels DEF AllPlaced, Placed, OneOwner, NoModule, Bare, Counting
  <2>6. /\ ModulesOK /\ UniqueNames /\ UsedIsLive /\ RefcountExact
    <3>1. listed = {}
      BY <1>1 DEF Init
    <3>2. ModulesOK
      BY <2>2, <2>3, <3>1 DEF ModulesOK, ModuleOK
    <3>3. UniqueNames /\ UsedIsLive /\ RefcountExact
      BY <2>2, <2>3, <3>1 DEF UniqueNames, UsedIsLive, RefcountExact
    <3>4. QED
      BY <3>2, <3>3
  <2>7. IdemOK /\ IdempotentHasWinner
    BY <1>1 DEF Init, IdemOK, IdempotentHasWinner
  <2>8. QED
    BY <2>1, <2>4, <2>5, <2>6, <2>7 DEF IInv, Safe
<1>2. ASSUME IInv, [Next]_vars
      PROVE  IInv'
  <2>1. ProcTypes /\ Safe /\ Wrapped
    BY <1>2 DEF IInv, Wrapped
  <2>2. CASE UNCHANGED vars
    <3>1. /\ UNCHANGED <<mod, listed, holds, mutex>> /\ \A q \in Procs : QuietMove(q)
      BY <2>2 DEF vars, QuietMove
    <3>2. Safe'
      BY <2>1, <3>1, QuietStep
    <3>3. ProcTypes' /\ Wrapped'
      BY <2>1, <2>2 DEF vars, ProcTypes, Wrapped, IdemOK, IdempotentHasWinner
    <3>4. QED
      BY <3>2, <3>3 DEF IInv, Wrapped
  <2>3. CASE \E p \in Procs : Call(p) \/ Signal(p) \/ LoadStep(p) \/ InitStep(p)
    BY <1>2, <2>3, ProcessStep
  <2>4. CASE \E u \in Users : UserStep(u)
    <3>1. PICK u \in Users : UserStep(u)
      BY <2>4
    <3>2. Safe'
      BY <2>1, <3>1, UserSafe
    <3>3. UNCHANGED <<pc, name, mine, file, ret, asleep, idem, mutex, logPage, calls>>
      BY <3>1 DEF UserStep, UserPut, UserGet, procVars
    <3>4. ProcTypes' /\ Wrapped'
      BY <2>1, <3>3 DEF ProcTypes, Wrapped, IdemOK, IdempotentHasWinner
    <3>5. QED
      BY <3>2, <3>4 DEF IInv, Wrapped
  <2>5. QED
    BY <1>2, <2>2, <2>3, <2>4 DEF Next, Rest
<1>3. QED
  BY <1>1, <1>2

\* What the invariant says of the types, the bound of the counts included.
LEMMA Typed ==
  ASSUME IInv
  PROVE  TypeOK
<1>1. ProcTypes /\ ModuleTypes /\ ModulesOK /\ \A o \in Objs : Counted(o)
  BY CountedExact DEF IInv, Safe
<1>2. ASSUME NEW o \in Objs
      PROVE  /\ mod[o].state \in States /\ mod[o].name \in Names \cup {None}
             /\ mod[o].ref \in 0..(2 + Cardinality(Users) + Cardinality(Objs))
             /\ mod[o].uses \subseteq Objs
  <2>1. mod[o] \in ModuleType
    BY <1>1 DEF ModuleTypes
  <2>2. mod[o].ref \in 0..(2 + Cardinality(Users) + Cardinality(Objs))
    <3>1. /\ Cardinality(Linked(o)) \in 0 .. Cardinality(Objs)
          /\ Cardinality(Holders(o)) \in 0 .. Cardinality(Users)
          /\ Cardinality(Objs) \in Nat /\ Cardinality(Users) \in Nat
      BY Counts
    <3>2. CASE mod[o].state = "LIVE"
      <4>1. mod[o].ref = (IF Releasing(o) THEN 0 ELSE 1) + (IF Loading(o) THEN 1 ELSE 0)
                     + Cardinality(Linked(o)) + Cardinality(Holders(o))
        BY <1>1, <3>2 DEF Counted
      <4>2. QED
        BY <3>1, <4>1
    <3>3. CASE mod[o].state # "LIVE"
      <4>1. mod[o].ref \in 0 .. 2
        BY <1>1, <3>3 DEF ModulesOK, ModuleOK
      <4>2. QED
        BY <3>1, <4>1
    <3>4. QED
      BY <3>2, <3>3
  <2>3. QED
    BY <2>1, <2>2 DEF ModuleType
<1>3. QED
  BY <1>1, <1>2 DEF TypeOK, ProcTypes, ModuleTypes

\* Through all of init_module, finit_module and delete_module, and whatever users do, each
\* process's module is as the code at its label expects (IInv).
THEOREM LoaderInvariance == ASSUME ~RoFails PROVE Spec => []IInv
BY Inductive, PTL DEF Spec

\* No two modules of one name are on the list, and a module that another links to or that
\* is held stays live with the count of its users, the log page's failure included.
THEOREM UsedModulesStay ==
  ASSUME ~RoFails
  PROVE  Spec => [](TypeOK /\ UniqueNames /\ UsedIsLive /\ RefcountExact)
<1>1. IInv => TypeOK /\ UniqueNames /\ UsedIsLive /\ RefcountExact
  BY Typed DEF IInv, Safe
<1>2. QED
  BY <1>1, LoaderInvariance, PTL

\* Where the log page can be had too, a module on the list that is not live is some
\* process's business, and who waits for a load of the same file has a winner.
THEOREM NoModuleIsAbandoned ==
  ASSUME ~RoFails, ~PageFails
  PROVE  Spec => []ModulesInUseStay
<1>1. IInv => ModulesInUseStay
  <2>1. ASSUME IInv
        PROVE  NoAbandonedModule
    BY <2>1 DEF IInv, Safe, ModulesOK, ModuleOK, ModuleTypes, Owned, NoAbandonedModule
  <2>2. QED
    BY <2>1, Typed DEF IInv, Safe, ModulesInUseStay
<1>2. QED
  BY <1>1, LoaderInvariance, PTL
=============================================================================
