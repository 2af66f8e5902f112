-------------------------- MODULE AuditQueue_proofs --------------------------
(***************************************************************************)
(* Theorems about AuditQueue.tla, for any number of tasks and daemons, any *)
(* limits and any mix of control requests.                                 *)
(*                                                                         *)
(* RecordsAccounted follows from a function that says of every record      *)
(* where it is (Placed): a step moves one record from one place to         *)
(* another, so the places cannot overlap.  The limits follow from counting *)
(* with each queue what threads have tested room for and not yet appended. *)
(* HealthyStays follows from what a kept pointer to a connection says of   *)
(* its daemon.                                                             *)
(***************************************************************************)
EXTENDS AuditQueue, FiniteSetTheorems, SequenceTheorems, TLAPS

-----------------------------------------------------------------------------
(* The inductive invariant.                                                *)

InRequest == {"replace", "decide", "register", "registered", "unregister", "config",
              "unlock"}
Unrecorded == InRequest \ {"unlock"}
Choosing == {"replace", "decide", "register"}
Working == {"loop", "send", "put"}

\* Who is where: requests hold the control mutex, who runs auditd_reset does nothing
\* else, and kauditd's error hook is the one of the queue it empties.
Control ==
    /\ \A d \in Daemons : dpc[d] \in InRequest <=> ctl = d
    /\ \A d \in Daemons : reset[d].pc # "none" => dpc[d] \in {"decide", "unlock"}
    /\ \A d \in Daemons :
           /\ dpc[d] \in {"replace", "decide"} => op[d] \in {"register", "unregister"}
           /\ dpc[d] = "unregister" => op[d] = "unregister"
           /\ dpc[d] = "config" => op[d] \in {"on", "off", "lock"}
           /\ dpc[d] = "register" => conn = Nobody
    /\ reset[Kauditd].pc # "none" => k.pc \in {"peek", "wake"}
    /\ k.pc \in Working => (k.phase = "hold" <=> k.hook = "rehold")
    /\ k.pc = "put" /\ k.hook = "rehold" => k.dest = "hold"
    /\ \A f \in Flushers : reset[f].dest # "retry"
    /\ \A t \in Tasks : serial[t] # 0 <=> tpc[t] = "format"

\* Where a record is: a record is in one place, and what left the main queue by
\* kauditd's hand has been multicast.
Places == {"none", "task", "queue", "retry", "hold", "kauditd", "reset", "got", "gone"}
Putting == {f \in Flushers : reset[f].pc = "put"}
RecordsAt(place) ==
    CASE place = "none" -> {n \in Records : n > issued}
      [] place = "task" -> {serial[t] : t \in Tasks} \ {0}
      [] place = "queue" -> ToSet(queue)
      [] place = "retry" -> ToSet(retry)
      [] place = "hold" -> ToSet(hold)
      [] place = "kauditd" -> IF k.pc \in {"send", "put"} THEN {k.skb} ELSE {}
      [] place = "reset" -> {reset[f].skb : f \in Putting}
      [] place = "got" -> got
      [] place = "gone" -> gone

Placed ==
    \A n \in Records : \E place \in Places : \A p \in Places :
        n \in RecordsAt(p) <=> p = place
Heard ==
    /\ \A p \in {"none", "task", "queue"} : RecordsAt(p) \cap mcast = {}
    /\ \A p \in {"retry", "hold", "kauditd", "reset", "got"} : RecordsAt(p) \subseteq mcast

\* No record is twice in a place that could hold it twice.
NoRepeats(q) == \A i, j \in DOMAIN q : q[i] = q[j] => i = j
OnceEach ==
    /\ NoRepeats(queue) /\ NoRepeats(retry) /\ NoRepeats(hold)
    /\ \A t, u \in Tasks : serial[t] = serial[u] /\ serial[t] # 0 => t = u
    /\ \A f, g \in Flushers :
           reset[f].pc = "put" /\ reset[g].pc = "put" /\ reset[f].skb = reset[g].skb => f = g
    /\ k.pc \in {"send", "put"} => k.skb \in Records
    /\ \A f \in Flushers : reset[f].pc = "put" => reset[f].skb \in Records

\* A request that has not queued its record yet; what a thread will append to a queue it
\* has tested, or taken the record from.
Bit(b) == IF b THEN 1 ELSE 0
Owed == Bit(\E d \in Daemons : dpc[d] \in Unrecorded)
Formatting == {t \in Tasks : tpc[t] = "format"}
WillRetry == k.pc = "put" /\ k.dest = "retry"
WillHold ==
    \/ k.pc = "put" /\ k.dest = "hold"
    \/ k.pc = "send" /\ k.phase = "hold"
    \/ reset[Kauditd].pc = "put" /\ reset[Kauditd].dest = "hold"
DaemonWillHold == \E d \in Daemons : reset[d].pc = "put" /\ reset[d].dest = "hold"
ToRetry == Bit(WillRetry)
ToHold == Bit(WillHold)
DaemonToHold == Bit(DaemonWillHold)

Bounds ==
    /\ issued + Owed <= MaxRecords + requests
    /\ Owed <= requests
    /\ Limit > 0 =>
        /\ Len(queue) + Cardinality(Formatting) + Owed
               <= Limit + Cardinality(Tasks) + requests
        /\ Len(retry) + ToRetry <= Limit
        /\ Len(hold) + ToHold + DaemonToHold <= Limit + 1

AuditInv == AuditTypeOK /\ Control /\ Placed /\ Heard /\ OnceEach /\ Bounds

\* kauditd sends on a connection only, and resets it only after a refusal: its daemon is
\* dead.  A request to break the connection whatever it is unregisters.
Broken(c) == c # Nobody /\ ~alive[c.who]
DeadIsDead ==
    /\ k.lsk \/ k.sk => k.ac # Nobody
    /\ k.pc \in {"start", "wait"} => ~k.lsk /\ ~k.sk
    /\ k.pc = "send" => k.lsk
    /\ k.pc \in Working /\ k.rc # "ok" => Broken(k.ac)
    /\ \A f \in Flushers : reset[f].pc = "clear" =>
           Broken(reset[f].ac) \/ (reset[f].ac = Nobody /\ f \in Daemons /\ op[f] = "unregister")

\* Unless the allocator gives out an address again, an address is one connection's.
Fresh(c) ==
    c # Nobody =>
        /\ c.addr <= requests
        /\ (\E d \in Daemons : dpc[d] \in Choosing) => c.addr < requests
        /\ conn # Nobody /\ conn.addr = c.addr => conn.who = c.who
ConnsApart == Fresh(conn) /\ Fresh(k.ac) /\ \A f \in Flushers : Fresh(reset[f].ac)

ConnInv == AuditInv /\ DeadIsDead /\ ConnsApart
-----------------------------------------------------------------------------
(* Queues: what an append and a removal do to the records in one.          *)

LEMMA AppendRecord ==
    ASSUME NEW q \in Seq(Records), NEW n \in Records
    PROVE  /\ Append(q, n) \in Seq(Records) /\ Len(Append(q, n)) = Len(q) + 1
           /\ ToSet(Append(q, n)) = ToSet(q) \cup {n}
           /\ NoRepeats(q) /\ n \notin ToSet(q) => NoRepeats(Append(q, n))
<1>1. /\ Append(q, n) \in Seq(Records) /\ Len(Append(q, n)) = Len(q) + 1
      /\ \A i \in 1 .. Len(q) : Append(q, n)[i] = q[i]
      /\ Append(q, n)[Len(q) + 1] = n
    BY AppendProperties
<1>2. /\ Len(q) \in Nat /\ DOMAIN q = 1 .. Len(q)
      /\ DOMAIN Append(q, n) = 1 .. Len(q) + 1
    BY <1>1, LenProperties
<1>3. ToSet(Append(q, n)) = ToSet(q) \cup {n}
    <2>1. ASSUME NEW x \in ToSet(Append(q, n))  PROVE x \in ToSet(q) \cup {n}
        BY <1>1, <1>2 DEF ToSet
    <2>2. ASSUME NEW x \in ToSet(q)  PROVE x \in ToSet(Append(q, n))
        <3>1. PICK i \in 1 .. Len(q) : x = q[i]
            BY <1>2 DEF ToSet
        <3>2. i \in DOMAIN Append(q, n) /\ Append(q, n)[i] = x
            BY <1>1, <1>2, <3>1
        <3> QED  BY <3>2 DEF ToSet
    <2>3. Len(q) + 1 \in DOMAIN Append(q, n)
        BY <1>2
    <2>4. n \in ToSet(Append(q, n))
        BY <1>1, <2>3 DEF ToSet
    <2> QED
        BY <2>1, <2>2, <2>4
<1>4. ASSUME NoRepeats(q), n \notin ToSet(q)  PROVE NoRepeats(Append(q, n))
    <2>1. \A i \in 1 .. Len(q) : q[i] # n
        BY <1>2, <1>4 DEF ToSet
    <2>2. ASSUME NEW i \in 1 .. Len(q) + 1, NEW j \in 1 .. Len(q) + 1,
                 Append(q, n)[i] = Append(q, n)[j]
          PROVE  i = j
        <3>1. CASE i \in 1 .. Len(q) /\ j \in 1 .. Len(q)
            BY <1>1, <1>2, <1>4, <2>2, <3>1 DEF NoRepeats
        <3>2. CASE i = Len(q) + 1 \/ j = Len(q) + 1
            BY <1>1, <1>2, <2>1, <2>2, <3>2
        <3> QED  BY <1>2, <3>1, <3>2
    <2> QED
        BY <1>2, <2>2 DEF NoRepeats
<1> QED
    BY <1>1, <1>3, <1>4

LEMMA TakeRecord ==
    ASSUME NEW q \in Seq(Records), q # <<>>
    PROVE  /\ Head(q) \in Records /\ Tail(q) \in Seq(Records) /\ Len(Tail(q)) = Len(q) - 1
           /\ Head(q) \in ToSet(q) /\ Len(q) \in Nat /\ Len(q) > 0
           /\ NoRepeats(q) => NoRepeats(Tail(q)) /\ ToSet(Tail(q)) = ToSet(q) \ {Head(q)}
<1>1. /\ Head(q) \in Records /\ Tail(q) \in Seq(Records) /\ Len(Tail(q)) = Len(q) - 1
      /\ \A i \in 1 .. Len(q) - 1 : Tail(q)[i] = q[i + 1]
    BY HeadTailProperties
<1>2. /\ Len(q) \in Nat /\ Len(q) > 0 /\ DOMAIN q = 1 .. Len(q) /\ Head(q) = q[1]
      /\ DOMAIN Tail(q) = 1 .. Len(q) - 1
    BY <1>1, LenProperties, EmptySeq
<1>3. Head(q) \in ToSet(q)
    BY <1>2 DEF ToSet
<1>4. ASSUME NoRepeats(q)  PROVE NoRepeats(Tail(q)) /\ ToSet(Tail(q)) = ToSet(q) \ {Head(q)}
    <2>1. ASSUME NEW i \in 1 .. Len(q) - 1, NEW j \in 1 .. Len(q) - 1,
                 Tail(q)[i] = Tail(q)[j]
          PROVE  i = j
        <3>1. i + 1 \in 1 .. Len(q) /\ j + 1 \in 1 .. Len(q) /\ q[i + 1] = q[j + 1]
            BY <1>1, <1>2, <2>1
        <3>2. i + 1 = j + 1
            BY <1>2, <1>4, <3>1 DEF NoRepeats
        <3> QED  BY <3>2
    <2>2. ASSUME NEW x \in ToSet(Tail(q))  PROVE x \in ToSet(q) \ {Head(q)}
        <3>1. PICK i \in 1 .. Len(q) - 1 : x = Tail(q)[i]
            BY <1>2 DEF ToSet
        <3>2. i + 1 \in 1 .. Len(q) /\ x = q[i + 1] /\ 1 \in 1 .. Len(q) /\ i + 1 # 1
            BY <1>1, <1>2, <3>1
        <3>3. x # q[1]
            BY <1>2, <1>4, <3>2 DEF NoRepeats
        <3> QED  BY <1>2, <3>2, <3>3 DEF ToSet
    <2>3. ASSUME NEW x \in ToSet(q) \ {Head(q)}  PROVE x \in ToSet(Tail(q))
        <3>1. PICK i \in 1 .. Len(q) : x = q[i]
            BY <1>2, <2>3 DEF ToSet
        <3>2. i # 1
            BY <1>2, <2>3, <3>1
        <3>3. i - 1 \in 1 .. Len(q) - 1 /\ Tail(q)[i - 1] = x
            BY <1>1, <1>2, <3>1, <3>2
        <3> QED  BY <1>2, <3>3 DEF ToSet
    <2> QED
        BY <1>2, <2>1, <2>2, <2>3 DEF NoRepeats
<1> QED
    BY <1>1, <1>2, <1>3, <1>4

\* A sleeper that leaves, from wherever it is in the queue.
LEMMA RemoveWaiter ==
    ASSUME NEW S, NEW q \in Seq(S), NEW i \in DOMAIN q
    PROVE  RemoveAt(q, i) \in Seq(S)
<1>1. /\ Len(q) \in Nat /\ i \in 1 .. Len(q) /\ \A j \in 1 .. Len(q) : q[j] \in S
    BY LenProperties, ElementOfSeq
<1>2. SubSeq(q, 1, i - 1) \in Seq(S) /\ SubSeq(q, i + 1, Len(q)) \in Seq(S)
    BY <1>1, SubSeqProperties
<1> QED
    BY <1>2, ConcatProperties DEF RemoveAt

\* A queue in which nothing is twice has a record once if at all.
LEMMA TimesOnce ==
    ASSUME NEW q \in Seq(Records), NEW n, NoRepeats(q)
    PROVE  Times(n, q) = Bit(n \in ToSet(q))
<1>1. CASE n \notin ToSet(q)
    <2>1. {i \in DOMAIN q : q[i] = n} = {}
        BY <1>1 DEF ToSet
    <2> QED
        BY <1>1, <2>1, FS_EmptySet DEF Times, Bit
<1>2. CASE n \in ToSet(q)
    <2>1. PICK i \in DOMAIN q : q[i] = n
        BY <1>2 DEF ToSet
    <2>2. {j \in DOMAIN q : q[j] = n} = {i}
        BY <2>1 DEF NoRepeats
    <2> QED
        BY <1>2, <2>2, FS_Singleton DEF Times, Bit
<1> QED
    BY <1>1, <1>2

-----------------------------------------------------------------------------
(* Types.                                                                  *)

QueueTypes == queue \in Seq(Records) /\ retry \in Seq(Records) /\ hold \in Seq(Records)
TaskTypes ==
    /\ tpc \in [Tasks -> {"idle", "check", "nap", "asleep", "format"}]
    /\ stime \in [Tasks -> 0..WaitTime] /\ serial \in [Tasks -> Records \cup {0}]
RequestTypes ==
    /\ conn \in Conns /\ enabled \in {"off", "on", "locked"}
    /\ dpc \in [Daemons -> DaemonPcs] /\ op \in [Daemons -> DaemonOps]
    /\ alive \in [Daemons -> BOOLEAN]
    /\ ctl \in Daemons \cup {Nobody} /\ requests \in 0..MaxRequests
ThreadTypes == k \in Locals /\ reset \in [Flushers -> Resets]
FateTypes ==
    /\ issued \in 0..(MaxRecords + MaxRequests)
    /\ mcast \in SUBSET Records /\ got \in SUBSET Records /\ gone \in SUBSET Records

LEMMA TypeParts ==
    AuditTypeOK <=> QueueTypes /\ TaskTypes /\ RequestTypes /\ ThreadTypes /\ FateTypes
                    /\ waitq \in Seq(Tasks \cup Daemons)
BY DEF AuditTypeOK, QueueTypes, TaskTypes, RequestTypes, ThreadTypes, FateTypes

\* The serial number of the next record is one.
LEMMA NextSerial ==
    ASSUME AuditInv
    PROVE  /\ issued \in Nat /\ requests \in Nat /\ MaxRecords \in Nat /\ MaxRequests \in Nat
           /\ issued < MaxRecords => issued + 1 \in Records
           /\ Owed = 1 => issued + 1 \in Records
           /\ \A n \in Records : n \in Nat /\ n # 0
<1>1. issued \in Nat /\ requests \in 0..MaxRequests /\ MaxRecords \in Nat /\ MaxRequests \in Nat
    BY AuditAssumption DEF AuditInv, AuditTypeOK
<1>2. Owed = 1 => issued + 1 <= MaxRecords + requests
    BY <1>1 DEF AuditInv, Bounds
<1> QED
    BY <1>1, <1>2 DEF Records

LEMMA PutTypes ==
    ASSUME AuditInv, NEW n \in Records, NEW dest, Put(n, dest)
    PROVE  /\ retry' \in Seq(Records) /\ hold' \in Seq(Records) /\ gone' \in SUBSET Records
<1>1. retry \in Seq(Records) /\ hold \in Seq(Records) /\ gone \in SUBSET Records
    BY DEF AuditInv, AuditTypeOK
<1>2. Append(retry, n) \in Seq(Records) /\ Append(hold, n) \in Seq(Records)
    BY <1>1, AppendRecord
<1> QED
    BY <1>1, <1>2 DEF Put

LEMMA TaskKeepsTypes ==
    ASSUME AuditInv, NEW t \in Tasks, LogStart(t) \/ TaskStep(t)
    PROVE  AuditTypeOK'
<1>1. /\ QueueTypes /\ TaskTypes /\ RequestTypes /\ ThreadTypes /\ FateTypes
      /\ waitq \in Seq(Tasks \cup Daemons)
    BY TypeParts DEF AuditInv
<1>2. RequestTypes' /\ ThreadTypes'
    BY <1>1 DEF RequestTypes, ThreadTypes, TaskStep, LogStart, CheckBacklog, Sleep, Awake,
        TimeOut, BufferAlloc, BufferAllocFails, LogEnd, RateLimited, daemonVars
<1>3. waitq' \in Seq(Tasks \cup Daemons)
    <2>1. CASE Sleep(t)
        BY <1>1, <2>1, AppendProperties DEF Sleep
    <2>2. CASE TimeOut(t)
        BY <1>1, <2>2, RemoveWaiter DEF TimeOut, LeaveWaitq
    <2> QED
        BY <1>1, <2>1, <2>2 DEF TaskStep, LogStart, CheckBacklog, Awake, BufferAlloc,
            BufferAllocFails, LogEnd, RateLimited
<1>4. QueueTypes'
    <2>1. CASE LogEnd(t)
        <3>1. serial[t] \in Records
            BY <1>1, <2>1 DEF AuditInv, Control, TaskTypes, LogEnd
        <3> QED
            BY <1>1, <2>1, <3>1, AppendRecord DEF QueueTypes, LogEnd
    <2> QED
        BY <1>1, <2>1 DEF QueueTypes, TaskStep, LogStart, CheckBacklog, Sleep, Awake,
            TimeOut, BufferAlloc, BufferAllocFails, RateLimited, queues
<1>5. TaskTypes'
    <2>1. CASE BufferAlloc(t)
        BY <1>1, <2>1, NextSerial DEF TaskTypes, BufferAlloc
    <2>2. CASE Awake(t)
        <3>1. WaitTime \in Nat /\ stime[t] \in 0..WaitTime
            BY <1>1, AuditAssumption DEF TaskTypes
        <3>2. \A left \in 0..stime[t] : left \in 0..WaitTime
            BY <3>1
        <3> QED
            BY <1>1, <2>2, <3>2 DEF TaskTypes, Awake
    <2> QED
        BY <1>1, <2>1, <2>2, AuditAssumption, SMTT(30) DEF TaskTypes, TaskStep, LogStart,
            CheckBacklog, Sleep, TimeOut, BufferAllocFails, LogEnd, RateLimited
<1>6. FateTypes'
    <2>1. CASE BufferAlloc(t)
        BY <1>1, <2>1, NextSerial DEF FateTypes, BufferAlloc, Records, fates
    <2>2. CASE RateLimited(t)
        <3>1. serial[t] \in Records
            BY <1>1, <2>2 DEF AuditInv, Control, TaskTypes, RateLimited
        <3> QED
            BY <1>1, <2>2, <3>1 DEF FateTypes, RateLimited
    <2> QED
        BY <1>1, <2>1, <2>2 DEF FateTypes, TaskStep, LogStart, CheckBacklog, Sleep, Awake,
            TimeOut, BufferAllocFails, LogEnd, fates
<1> QED
    BY <1>2, <1>3, <1>4, <1>5, <1>6 DEF AuditTypeOK, QueueTypes, TaskTypes, RequestTypes,
        ThreadTypes, FateTypes

LEMMA ResetKeepsTypes ==
    ASSUME AuditInv, NEW f \in Flushers, ResetStep(f)
    PROVE  AuditTypeOK'
<1>1. /\ QueueTypes /\ TaskTypes /\ RequestTypes /\ ThreadTypes /\ FateTypes
      /\ waitq \in Seq(Tasks \cup Daemons)
    BY TypeParts DEF AuditInv
<1>2. Quiet \in Resets /\ [Quiet EXCEPT !.pc = "flush"] \in Resets
    BY DEF Quiet, Resets, Conns, Dests
<1>3. reset[f] \in Resets /\ [reset[f] EXCEPT !.pc = "flush"] \in Resets
    BY <1>1 DEF ThreadTypes, Resets
<1>4. TaskTypes' /\ (waitq \in Seq(Tasks \cup Daemons))'
    BY <1>1 DEF TaskTypes, ResetStep, ResetClear, ResetFlush, ResetPut, taskVars
<1>5. RequestTypes'
    BY <1>1 DEF RequestTypes, Conns, ResetStep, ResetClear, ResetFlush, ResetPut, daemonVars
<1>6. ThreadTypes'
    <2>1. CASE ResetClear(f)
        BY <1>1, <1>2, <1>3, <2>1 DEF ThreadTypes, ResetClear
    <2>2. CASE ResetFlush(f)
        <3>1. ASSUME retry # <<>>
              PROVE  [pc |-> "put", ac |-> Nobody, skb |-> Head(retry),
                      dest |-> HoldDest("ECONNREFUSED")] \in Resets
            BY <1>1, <3>1, TakeRecord DEF QueueTypes, Resets, Conns, Dests, HoldDest
        <3> QED
            BY <1>1, <1>2, <2>2, <3>1 DEF ThreadTypes, ResetFlush
    <2>3. CASE ResetPut(f)
        BY <1>1, <1>2, <2>3 DEF ThreadTypes, ResetPut
    <2> QED
        BY <2>1, <2>2, <2>3 DEF ResetStep
<1>7. QueueTypes' /\ FateTypes'
    <2>1. CASE ResetClear(f)
        BY <1>1, <2>1 DEF QueueTypes, FateTypes, ResetClear, queues, fates
    <2>2. CASE ResetFlush(f)
        BY <1>1, <2>2, TakeRecord DEF QueueTypes, FateTypes, ResetFlush, fates
    <2>3. CASE ResetPut(f)
        <3>1. reset[f].skb \in Records
            BY <2>3 DEF AuditInv, OnceEach, ResetPut
        <3> QED
            BY <1>1, <2>3, <3>1, PutTypes DEF QueueTypes, FateTypes, ResetPut
    <2> QED
        BY <2>1, <2>2, <2>3 DEF ResetStep
<1> QED
    BY <1>4, <1>5, <1>6, <1>7 DEF AuditTypeOK, QueueTypes, TaskTypes, RequestTypes,
        ThreadTypes, FateTypes

LEMMA KauditdKeepsTypes ==
    ASSUME AuditInv, KauditdStep
    PROVE  AuditTypeOK'
<1>1. /\ QueueTypes /\ TaskTypes /\ RequestTypes /\ ThreadTypes /\ FateTypes
      /\ waitq \in Seq(Tasks \cup Daemons)
    BY TypeParts DEF AuditInv
<1>2. k \in Locals /\ Kauditd \in Flushers
    BY <1>1 DEF ThreadTypes, Flushers
<1>3. /\ k.phase \in {"hold", "retry", "main"}
      /\ Queue(k.phase) \in Seq(Records)
    BY <1>1, <1>2 DEF Queue, Locals, QueueTypes
<1>4. \A err : HookDest(err) \in Dests
    BY <1>2 DEF HookDest, HoldDest, RetryDest, Dests, Locals
<1>5. TaskTypes' /\ RequestTypes'
    BY <1>1 DEF TaskTypes, RequestTypes, KauditdStep, RoundBegins, SendQueue, Dequeue, Sent,
        Refused, WouldBlock, SendFails, HookPut, QueueDone, WakeBacklog, NextRound,
        notKauditd, taskVars, daemonVars
<1>6. waitq' \in Seq(Tasks \cup Daemons)
    <2>1. CASE WakeBacklog
        BY <1>1, <2>1, HeadTailProperties DEF WakeBacklog
    <2> QED
        BY <1>1, <2>1 DEF KauditdStep, RoundBegins, SendQueue, Dequeue, Sent, Refused,
            WouldBlock, SendFails, HookPut, QueueDone, NextRound
<1>7. QueueTypes' /\ FateTypes'
    <2>1. CASE Dequeue
        <3>1. Queue(k.phase) # <<>>
            BY <2>1 DEF Dequeue
        <3>2. Head(Queue(k.phase)) \in Records
            BY <1>3, <3>1, TakeRecord
        <3>3. /\ k.phase = "hold" => Tail(hold) \in Seq(Records)
              /\ k.phase = "retry" => Tail(retry) \in Seq(Records)
              /\ k.phase = "main" => Tail(queue) \in Seq(Records)
            BY <1>1, <3>1, TakeRecord DEF Queue, QueueTypes
        <3> QED
            BY <1>1, <2>1, <3>2, <3>3 DEF QueueTypes, FateTypes, Dequeue, notKauditd
    <2>2. CASE Sent
        <3>1. k.skb \in Records
            BY <2>2 DEF AuditInv, OnceEach, Sent
        <3> QED
            BY <1>1, <2>2, <3>1 DEF QueueTypes, FateTypes, Sent, queues, notKauditd
    <2>3. CASE HookPut
        <3>1. k.skb \in Records
            BY <2>3 DEF AuditInv, OnceEach, HookPut
        <3> QED
            BY <1>1, <2>3, <3>1, PutTypes DEF QueueTypes, FateTypes, HookPut, notKauditd
    <2> QED
        BY <1>1, <2>1, <2>2, <2>3 DEF QueueTypes, FateTypes, KauditdStep, RoundBegins,
            SendQueue, Refused, WouldBlock, SendFails, QueueDone, WakeBacklog, NextRound,
            notKauditd, queues, fates
<1>8. reset' \in [Flushers -> Resets]
    <2>1. [Quiet EXCEPT !.pc = "clear", !.ac = k.ac] \in Resets
        BY <1>2 DEF Quiet, Resets, Dests, Locals
    <2>2. CASE QueueDone
        BY <1>1, <1>2, <2>1, <2>2 DEF ThreadTypes, QueueDone, BeginReset
    <2> QED
        BY <1>1, <2>2 DEF ThreadTypes, KauditdStep, RoundBegins, SendQueue, Dequeue, Sent,
            Refused, WouldBlock, SendFails, HookPut, WakeBacklog, NextRound
<1>9. k' \in Locals
    <2>1. CASE RoundBegins
        BY <1>1, <1>2, <2>1 DEF RequestTypes, RoundBegins, Locals
    <2>2. CASE SendQueue
        <3>1. Queue(k.phase) # <<>> => Last(Queue(k.phase)) \in Records
            BY <1>3, EmptySeq, ElementOfSeq DEF Last
        <3>2. 0 \in 0..(Retries - 1)
            BY AuditAssumption
        <3> QED
            BY <1>2, <1>3, <2>2, <3>1, <3>2, ZenonT(60) DEF SendQueue, Locals
    <2>3. CASE Dequeue
        <3>1. Head(Queue(k.phase)) \in Records
            BY <1>3, <2>3, TakeRecord DEF Dequeue
        <3> QED
            BY <1>2, <1>4, <2>3, <3>1 DEF Dequeue, Locals
    <2>4. CASE Sent \/ HookPut \/ WakeBacklog \/ NextRound
        <3>1. 0 \in 0..(Retries - 1)
            BY AuditAssumption
        <3>2. CASE Sent
            BY <1>2, <3>1, <3>2 DEF Sent, Locals
        <3>3. CASE HookPut
            BY <1>2, <3>3 DEF HookPut, Locals
        <3>4. CASE WakeBacklog
            BY <1>2, <3>4 DEF WakeBacklog, Locals, Conns
        <3>5. CASE NextRound
            BY <1>2, <3>5 DEF NextRound, Locals
        <3> QED
            BY <2>4, <3>2, <3>3, <3>4, <3>5
    <2>5. ASSUME NEW err \in {"EAGAIN", "ECONNREFUSED"}, SendFails(err)  PROVE k' \in Locals
        <3>1. /\ Retries \in Nat \ {0} /\ k.failed \in 0..(Retries - 1)
              /\ 0 \in 0..(Retries - 1)
            BY <1>2, AuditAssumption DEF Locals
        <3>2. k.failed + 1 >= (IF k.phase = "main" THEN 1 ELSE Retries)
              \/ k.failed + 1 \in 0..(Retries - 1)
            BY <3>1
        <3>3. CASE k' = [k EXCEPT !.failed = @ + 1]
                   /\ ~(k.failed + 1 >= (IF k.phase = "main" THEN 1 ELSE Retries))
            BY <1>2, <3>2, <3>3 DEF Locals
        <3>4. CASE k' = [k EXCEPT !.pc = "put", !.lsk = FALSE, !.dest = HookDest(err),
                             !.failed = 0, !.rc = IF err = "EAGAIN" THEN "ok" ELSE err]
            <4>1. /\ HookDest(err) \in Dests
                  /\ (IF err = "EAGAIN" THEN "ok" ELSE err) \in {"ok", "ECONNREFUSED"}
                BY <1>4, <2>5
            <4> QED
                BY <1>2, <3>1, <3>4, <4>1 DEF Locals
        <3> QED
            BY <2>5, <3>3, <3>4 DEF SendFails
    <2>6. CASE QueueDone
        BY <1>2, <1>3, <2>6, ZenonT(60) DEF QueueDone, Locals
    <2> QED
        BY <2>1, <2>2, <2>3, <2>4, <2>5, <2>6 DEF KauditdStep, Refused, WouldBlock
<1> QED
    BY <1>5, <1>6, <1>7, <1>8, <1>9 DEF AuditTypeOK, QueueTypes, TaskTypes, RequestTypes,
        ThreadTypes, FateTypes

LEMMA DaemonKeepsTypes ==
    ASSUME AuditInv, NEW d \in Daemons,
           DaemonStep(d) \/ Die(d) \/ \E o \in Ops : Request(d, o)
    PROVE  AuditTypeOK'
<1>1. /\ QueueTypes /\ TaskTypes /\ RequestTypes /\ ThreadTypes /\ FateTypes
      /\ waitq \in Seq(Tasks \cup Daemons)
    BY TypeParts DEF AuditInv
<1>2. requests \in Nat /\ MaxRequests \in Nat /\ d \in Flushers
    BY <1>1, AuditAssumption DEF RequestTypes, Flushers
<1>3. TaskTypes'
    BY <1>1 DEF TaskTypes, DaemonStep, Die, Request, TestConnection, Decide, Register,
        Registered, Unregister, SetEnabled, Unlock, Penalty, PenaltyOver, PenaltyTimeOut,
        notRequest, taskVars
<1>4. waitq' \in Seq(Tasks \cup Daemons)
    <2>1. CASE Penalty(d)
        BY <1>1, <2>1, AppendProperties DEF Penalty
    <2>2. CASE PenaltyTimeOut(d)
        BY <1>1, <2>2, RemoveWaiter DEF PenaltyTimeOut, LeaveWaitq
    <2> QED
        BY <1>1, <2>1, <2>2 DEF DaemonStep, Die, Request, TestConnection, Decide, Register,
            Registered, Unregister, SetEnabled, Unlock, PenaltyOver, notRequest
<1>5. ThreadTypes'
    <2>1. \A c \in Conns : [Quiet EXCEPT !.pc = "clear", !.ac = c] \in Resets
        BY DEF Quiet, Resets, Dests
    <2>2. CASE TestConnection(d) \/ Unregister(d)
        <3>1. k' = k /\ (reset' = reset \/ \E c \in Conns : BeginReset(d, c))
            <4>1. conn \in Conns /\ Nobody \in Conns
                BY <1>1 DEF RequestTypes, Conns
            <4> QED
                BY <2>2, <4>1 DEF TestConnection, Unregister, notRequest
        <3> QED
            BY <1>1, <1>2, <2>1, <3>1 DEF ThreadTypes, BeginReset
    <2> QED
        BY <1>1, <2>2 DEF ThreadTypes, DaemonStep, Die, Request, Decide, Register,
            Registered, SetEnabled, Unlock, Penalty, PenaltyOver, PenaltyTimeOut, notRequest
<1>6. RequestTypes'
    <2>1. CASE \E o \in Ops : Request(d, o)
        BY <1>1, <1>2, <2>1, AuditAssumption DEF RequestTypes, Request, GotoD, DaemonPcs,
            DaemonOps
    <2>2. CASE Decide(d)
        <3>1. op[d] \in {"register", "unregister"}
            BY <2>2 DEF AuditInv, Control, Decide
        <3> QED
            BY <1>1, <2>2, <3>1 DEF RequestTypes, Decide, GotoD, DaemonPcs
    <2>3. CASE Register(d)
        <3>1. requests \in 1..MaxRequests /\ requests \in 0..MaxRequests /\ 0 \in 0..MaxRequests
            <4>1. Owed = 1
                BY <2>3 DEF Owed, Bit, Unrecorded, InRequest, Register
            <4> QED
                BY <1>1, <1>2, <4>1 DEF AuditInv, Bounds, RequestTypes
        <3> QED
            BY <1>1, <2>3, <3>1 DEF RequestTypes, Register, GotoD, DaemonPcs, Conns
    <2>4. CASE SetEnabled(d)
        <3>1. op[d] \in {"on", "off", "lock"}
            BY <2>4 DEF AuditInv, Control, SetEnabled
        <3> QED
            BY <1>1, <2>4, <3>1 DEF RequestTypes, SetEnabled, GotoD, DaemonPcs
    <2> QED
        BY <1>1, <2>1, <2>2, <2>3, <2>4 DEF RequestTypes, DaemonStep, Die, TestConnection,
            Registered, Unregister, Unlock, Penalty, PenaltyOver, PenaltyTimeOut, GotoD,
            DaemonPcs
<1>7. QueueTypes' /\ FateTypes'
    <2>1. CASE dpc[d] \in Unrecorded
        <3>1. issued + 1 \in Records /\ issued + 1 \in 0..(MaxRecords + MaxRequests)
            <4>1. Owed = 1
                BY <2>1 DEF Owed, Bit
            <4> QED
                BY <4>1, NextSerial DEF Records
        <3>2. Append(queue, issued + 1) \in Seq(Records)
            BY <1>1, <3>1, AppendRecord DEF QueueTypes
        <3> QED
            BY <1>1, <2>1, <3>1, <3>2 DEF QueueTypes, FateTypes, DaemonStep, Die, Request,
                TestConnection, Decide, Register, Registered, Unregister, SetEnabled,
                Unlock, Penalty, PenaltyOver, PenaltyTimeOut, notRequest, queues, fates,
                RecordIf, ConfigRecord
    <2>2. CASE dpc[d] \notin Unrecorded
        BY <1>1, <2>2 DEF QueueTypes, FateTypes, DaemonStep, Die, Request, TestConnection,
            Decide, Register, Registered, Unregister, SetEnabled, Unlock, Penalty,
            PenaltyOver, PenaltyTimeOut, notRequest, queues, fates, Unrecorded, InRequest
    <2> QED
        BY <2>1, <2>2
<1> QED
    BY <1>3, <1>4, <1>5, <1>6, <1>7 DEF AuditTypeOK, QueueTypes, TaskTypes, RequestTypes,
        ThreadTypes, FateTypes

-----------------------------------------------------------------------------
(* Control.                                                                *)

LEMMA ControlKept ==
    ASSUME AuditInv, [AuditNext]_auditVars
    PROVE  Control'
<1>1. /\ AuditTypeOK /\ Control
      /\ Kauditd \in Flushers /\ Kauditd \notin Daemons /\ Daemons \subseteq Flushers
    BY AuditAssumption DEF AuditInv, Flushers, Kauditd
<1>2. ASSUME NEW t \in Tasks, LogStart(t) \/ TaskStep(t)  PROVE Control'
    <2>1. \A u \in Tasks : (serial[u] # 0)' <=> (tpc[u] = "format")'
        <3>1. CASE BufferAlloc(t)
            BY <1>1, <3>1, NextSerial DEF Control, AuditTypeOK, BufferAlloc
        <3> QED
            BY <1>1, <1>2, <3>1 DEF Control, AuditTypeOK, TaskStep, LogStart, CheckBacklog,
                Sleep, Awake, TimeOut, BufferAllocFails, LogEnd, RateLimited
    <2>2. UNCHANGED <<dpc, op, ctl, conn, reset, k>>
        BY <1>2 DEF TaskStep, LogStart, CheckBacklog, Sleep, Awake, TimeOut, BufferAlloc,
            BufferAllocFails, LogEnd, RateLimited, daemonVars
    <2> QED
        BY <1>1, <2>1, <2>2 DEF Control
<1>3. ASSUME NEW f \in Flushers, ResetStep(f)  PROVE Control'
    <2>1. /\ UNCHANGED <<dpc, op, ctl, k, serial, tpc>>
          /\ conn' \in {conn, Nobody}
        BY <1>3 DEF ResetStep, ResetClear, ResetFlush, ResetPut, daemonVars, taskVars
    <2>2. /\ reset[f].pc # "none"
          /\ \A g \in Flushers : reset'[g] = reset[g] \/ (g = f /\ reset'[g].dest # "retry")
        BY <1>1, <1>3 DEF Control, AuditTypeOK, Resets, ResetStep, ResetClear, ResetFlush,
            ResetPut, Quiet, HoldDest
    <2> QED
        BY <1>1, <2>1, <2>2 DEF Control
<1>4. ASSUME KauditdStep  PROVE Control'
    <2>1. UNCHANGED <<dpc, op, ctl, conn, serial, tpc>> /\ reset[Kauditd].pc = "none"
        BY <1>4 DEF KauditdStep, RoundBegins, SendQueue, Dequeue, Sent, Refused, WouldBlock,
            SendFails, HookPut, QueueDone, WakeBacklog, NextRound, notKauditd, taskVars,
            daemonVars
    <2>2. CASE QueueDone
        <3>1. /\ k'.pc \in {"peek", "wake"}
              /\ reset' = reset \/ BeginReset(Kauditd, k.ac)
            BY <1>1, <2>2 DEF QueueDone, AuditTypeOK, Locals
        <3>2. \A g \in Flushers : reset'[g] = reset[g] \/ (g = Kauditd /\ reset'[g].dest # "retry")
            BY <1>1, <3>1, ZenonT(60) DEF BeginReset, AuditTypeOK, Quiet
        <3> QED
            BY <1>1, <2>1, <3>1, <3>2 DEF Control, Working
    <2>3. CASE SendQueue
        BY <1>1, <2>1, <2>3 DEF Control, AuditTypeOK, Locals, Working, SendQueue
    <2>4. CASE ~QueueDone /\ ~SendQueue
        <3>1. UNCHANGED reset
            BY <1>4, <2>4 DEF KauditdStep, RoundBegins, Dequeue, Sent, Refused, WouldBlock,
                SendFails, HookPut, WakeBacklog, NextRound
        <3>2. k \in Locals /\ (k.pc \in Working => (k.phase = "hold" <=> k.hook = "rehold"))
            BY <1>1 DEF AuditTypeOK, Control
        <3>3. /\ k'.pc \in Working => (k'.phase = "hold" <=> k'.hook = "rehold")
              /\ k'.pc = "put" /\ k'.hook = "rehold" => k'.dest = "hold"
            <4>1. CASE RoundBegins
                BY <3>2, <4>1 DEF Locals, Working, RoundBegins
            <4>2. CASE WakeBacklog
                BY <3>2, <4>2 DEF Locals, Working, WakeBacklog
            <4>3. CASE NextRound
                BY <3>2, <4>3 DEF Locals, Working, NextRound
            <4>4. CASE Sent
                BY <3>2, <4>4 DEF Locals, Working, Sent
            <4>5. CASE HookPut
                BY <3>2, <4>5 DEF Locals, Working, HookPut
            <4>6. CASE Dequeue
                BY <3>2, <4>6 DEF Locals, Working, Dequeue, HookDest
            <4>7. ASSUME NEW err, SendFails(err)
                  PROVE  /\ k'.pc \in Working => (k'.phase = "hold" <=> k'.hook = "rehold")
                         /\ k'.pc = "put" /\ k'.hook = "rehold" => k'.dest = "hold"
                BY <3>2, <4>7 DEF Locals, Working, SendFails, HookDest
            <4> QED
                BY <1>4, <2>4, <4>1, <4>2, <4>3, <4>4, <4>5, <4>6, <4>7 DEF KauditdStep,
                    Refused, WouldBlock
        <3> QED
            BY <1>1, <2>1, <3>1, <3>3 DEF Control
    <2> QED
        BY <2>2, <2>3, <2>4
<1>5. ASSUME NEW d \in Daemons, DaemonStep(d) \/ Die(d) \/ \E o \in Ops : Request(d, o)
      PROVE  Control'
    <2>1. /\ UNCHANGED <<k, serial, tpc>> /\ \A f \in Flushers \ {d} : reset'[f] = reset[f]
          /\ conn' = conn \/ dpc[d] = "register"
          /\ \A e \in Daemons \ {d} : dpc'[e] = dpc[e] /\ op'[e] = op[e]
        BY <1>1, <1>5 DEF AuditTypeOK, DaemonStep, Die, Request, TestConnection, Decide,
            Register, Registered, Unregister, SetEnabled, Unlock, Penalty, PenaltyOver,
            PenaltyTimeOut, notRequest, taskVars, GotoD, BeginReset
    <2>2. \A e \in Daemons : (dpc[e] \in InRequest)' <=> (ctl = e)'
        BY <1>1, <1>5, AuditAssumption DEF Control, AuditTypeOK, DaemonStep, Die, Request,
            TestConnection, Decide, Register, Registered, Unregister, SetEnabled, Unlock,
            Penalty, PenaltyOver, PenaltyTimeOut, GotoD, InRequest
    <2>3. \A e \in Daemons : (reset[e].pc # "none" => dpc[e] \in {"decide", "unlock"})'
        BY <1>1, <1>5, <2>1 DEF Control, AuditTypeOK, DaemonStep, Die, Request,
            TestConnection, Decide, Register, Registered, Unregister, SetEnabled, Unlock,
            Penalty, PenaltyOver, PenaltyTimeOut, GotoD, InRequest
    <2>4. reset'[d].dest # "retry"
        <3>1. reset' = reset \/ \E c : BeginReset(d, c)
            BY <1>5 DEF DaemonStep, Die, Request, TestConnection, Decide, Register,
                Registered, Unregister, SetEnabled, Unlock, Penalty, PenaltyOver,
                PenaltyTimeOut, notRequest
        <3> QED
            BY <1>1, <3>1, ZenonT(60) DEF Control, AuditTypeOK, BeginReset, Quiet
    <2>5. (dpc[d] = "register" => conn = Nobody)'
        BY <1>1, <1>5 DEF Control, AuditTypeOK, DaemonStep, Die, Request, TestConnection,
            Decide, Register, Registered, Unregister, SetEnabled, Unlock, Penalty,
            PenaltyOver, PenaltyTimeOut, GotoD
    <2>6. \A e \in Daemons \ {d} : dpc'[e] = "register" => conn' = Nobody
        BY <1>1, <2>1 DEF Control, InRequest
    <2>7. /\ dpc'[d] \in {"replace", "decide"} => op'[d] \in {"register", "unregister"}
          /\ dpc'[d] = "unregister" => op'[d] = "unregister"
          /\ dpc'[d] = "config" => op'[d] \in {"on", "off", "lock"}
        BY <1>1, <1>5, AuditAssumption DEF Control, AuditTypeOK, DaemonStep, Die, Request,
            TestConnection, Decide, Register, Registered, Unregister, SetEnabled, Unlock,
            Penalty, PenaltyOver, PenaltyTimeOut, GotoD
    <2> QED
        BY <1>1, <2>1, <2>2, <2>3, <2>4, <2>5, <2>6, <2>7 DEF Control
<1>6. CASE UNCHANGED auditVars
    BY <1>1, <1>6 DEF auditVars, taskVars, daemonVars, Control
<1> QED
    BY <1>2, <1>3, <1>4, <1>5, <1>6 DEF AuditNext, AuditRest

-----------------------------------------------------------------------------
(* Records move from place to place.                                       *)

\* What a place other than a is called, unfolded once.
LEMMA PlaceNames ==
    /\ RecordsAt("none") = {n \in Records : n > issued}
    /\ RecordsAt("task") = {serial[t] : t \in Tasks} \ {0}
    /\ RecordsAt("queue") = ToSet(queue)
    /\ RecordsAt("retry") = ToSet(retry)
    /\ RecordsAt("hold") = ToSet(hold)
    /\ RecordsAt("kauditd") = IF k.pc \in {"send", "put"} THEN {k.skb} ELSE {}
    /\ RecordsAt("reset") = {reset[f].skb : f \in Putting}
    /\ RecordsAt("got") = got
    /\ RecordsAt("gone") = gone
BY DEF RecordsAt

MovesTo(n, a, b) ==
    /\ RecordsAt(a)' = RecordsAt(a) \ {n}
    /\ RecordsAt(b)' = RecordsAt(b) \cup {n}
    /\ \A p \in Places \ {a, b} : RecordsAt(p)' = RecordsAt(p)
Unmoved == \A p \in Places : RecordsAt(p)' = RecordsAt(p)

\* A record that moves is in one place again.
LEMMA MoveKeepsPlaced ==
    ASSUME Placed, NEW n \in Records, NEW a \in Places, NEW b \in Places, a # b,
           n \in RecordsAt(a), MovesTo(n, a, b)
    PROVE  Placed'
<1> SUFFICES ASSUME NEW m \in Records
             PROVE  \E place \in Places : \A p \in Places : m \in RecordsAt(p)' <=> p = place
    BY DEF Placed
<1>1. PICK place \in Places : \A p \in Places : m \in RecordsAt(p) <=> p = place
    BY DEF Placed
<1>2. CASE m # n
    BY <1>1, <1>2 DEF MovesTo
<1>3. CASE m = n
    BY <1>1, <1>3 DEF MovesTo
<1> QED
    BY <1>2, <1>3

LEMMA NoMoveKeepsPlaced ==
    ASSUME Placed, Unmoved
    PROVE  Placed'
BY DEF Placed, Unmoved

\* A record is in no second place.
LEMMA OnlyThere ==
    ASSUME Placed, NEW n \in Records, NEW a \in Places, n \in RecordsAt(a)
    PROVE  \A p \in Places \ {a} : n \notin RecordsAt(p)
BY DEF Placed

\* What is moved without being multicast was multicast before, or need not be.
LEMMA MoveKeepsHeard ==
    ASSUME Placed, Heard, NEW n \in Records, NEW a \in Places, NEW b \in Places, a # b,
           n \in RecordsAt(a), MovesTo(n, a, b),
           \/ mcast' = mcast /\ a \in {"none", "task"} /\ b \in {"task", "queue", "gone"}
           \/ mcast' = mcast /\ a \in {"retry", "hold", "kauditd", "reset"}
              /\ b \notin {"none", "task", "queue"}
           \/ mcast' = mcast \cup {n} /\ b \notin {"none", "task", "queue"}
    PROVE  Heard'
<1>1. \A p \in Places \ {a} : n \notin RecordsAt(p)
    BY OnlyThere
<1>2. ASSUME NEW p \in {"none", "task", "queue"}  PROVE (RecordsAt(p) \cap mcast = {})'
    <2>1. p \in Places /\ RecordsAt(p) \cap mcast = {}
        BY DEF Heard, Places
    <2>2. CASE p = b
        <3>1. mcast' = mcast /\ n \notin mcast
            BY <2>2 DEF Heard, Places
        <3> QED
            BY <2>1, <2>2, <3>1 DEF MovesTo
    <2>3. CASE p # b
        <3>1. RecordsAt(p)' \subseteq RecordsAt(p) \ {n}
            BY <1>1, <2>1, <2>3 DEF MovesTo
        <3> QED
            BY <2>1, <3>1
    <2> QED
        BY <2>2, <2>3
<1>3. ASSUME NEW p \in {"retry", "hold", "kauditd", "reset", "got"}
      PROVE  (RecordsAt(p) \subseteq mcast)'
    <2>1. p \in Places /\ RecordsAt(p) \subseteq mcast
        BY DEF Heard, Places
    <2>2. CASE p = b
        BY <2>1, <2>2 DEF MovesTo, Heard
    <2>3. CASE p # b
        BY <2>1, <2>3 DEF MovesTo
    <2> QED
        BY <2>2, <2>3
<1> QED
    BY <1>2, <1>3 DEF Heard

LEMMA NoMoveKeepsHeard ==
    ASSUME Heard, Unmoved, mcast' = mcast
    PROVE  Heard'
BY DEF Heard, Unmoved, Places

\* Where nothing moves.
LEMMA StillThere ==
    ASSUME UNCHANGED <<issued, serial, queues, got, gone>>,
           k'.pc \in {"send", "put"} <=> k.pc \in {"send", "put"},
           k.pc \in {"send", "put"} => k'.skb = k.skb,
           \A f \in Flushers : reset'[f].pc = "put" <=> reset[f].pc = "put",
           \A f \in Flushers : reset[f].pc = "put" => reset'[f].skb = reset[f].skb
    PROVE  Unmoved
<1>1. RecordsAt("reset")' = RecordsAt("reset")
    BY PlaceNames DEF RecordsAt, Putting
<1>2. RecordsAt("kauditd")' = RecordsAt("kauditd")
    BY DEF RecordsAt
<1>3. ASSUME NEW p \in Places \ {"reset", "kauditd"}  PROVE RecordsAt(p)' = RecordsAt(p)
    BY <1>3 DEF Places, RecordsAt, queues
<1> QED
    BY <1>1, <1>2, <1>3 DEF Unmoved, Places

\* An append: the record is behind the others.
LEMMA PutMoves ==
    ASSUME AuditInv, NEW n \in Records, NEW a \in Places \ {"queue", "retry", "hold", "gone"},
           n \in RecordsAt(a), NEW dest \in Dests, Put(n, dest),
           RecordsAt(a)' = RecordsAt(a) \ {n},
           \A p \in Places \ {a, "retry", "hold", "gone"} : RecordsAt(p)' = RecordsAt(p)
    PROVE  /\ \E b \in {"retry", "hold", "gone"} : MovesTo(n, a, b)
           /\ NoRepeats(retry)' /\ NoRepeats(hold)'
<1>1. /\ retry \in Seq(Records) /\ hold \in Seq(Records)
      /\ Placed /\ NoRepeats(retry) /\ NoRepeats(hold)
    BY DEF AuditInv, AuditTypeOK, OnceEach
<1>2. n \notin ToSet(retry) /\ n \notin ToSet(hold)
    BY <1>1, OnlyThere, PlaceNames DEF Places
<1>3. /\ ToSet(Append(retry, n)) = ToSet(retry) \cup {n} /\ NoRepeats(Append(retry, n))
      /\ ToSet(Append(hold, n)) = ToSet(hold) \cup {n} /\ NoRepeats(Append(hold, n))
    BY <1>1, <1>2, AppendRecord
<1>4. CASE dest = "retry"
    <2>1. hold' = hold /\ gone' = gone /\ retry' = Append(retry, n)
        BY <1>4 DEF Put
    <2>2. MovesTo(n, a, "retry")
        <3>1. RecordsAt("retry")' = RecordsAt("retry") \cup {n}
            BY <1>3, <2>1 DEF RecordsAt
        <3>2. RecordsAt("hold")' = RecordsAt("hold") /\ RecordsAt("gone")' = RecordsAt("gone")
            BY <2>1 DEF RecordsAt
        <3> QED
            BY <3>1, <3>2 DEF MovesTo
    <2> QED
        BY <1>1, <1>3, <2>1, <2>2 DEF NoRepeats
<1>5. CASE dest = "hold"
    <2>1. retry' = retry /\ gone' = gone /\ hold' = Append(hold, n)
        BY <1>5 DEF Put
    <2>2. MovesTo(n, a, "hold")
        <3>1. RecordsAt("hold")' = RecordsAt("hold") \cup {n}
            BY <1>3, <2>1 DEF RecordsAt
        <3>2. RecordsAt("retry")' = RecordsAt("retry") /\ RecordsAt("gone")' = RecordsAt("gone")
            BY <2>1 DEF RecordsAt
        <3> QED
            BY <3>1, <3>2 DEF MovesTo
    <2> QED
        BY <1>1, <1>3, <2>1, <2>2 DEF NoRepeats
<1>6. CASE dest \in {"gone", "silent"}
    <2>1. retry' = retry /\ hold' = hold /\ gone' = gone \cup {n}
        BY <1>6 DEF Put
    <2>2. MovesTo(n, a, "gone")
        <3>1. RecordsAt("gone")' = RecordsAt("gone") \cup {n}
            BY <2>1 DEF RecordsAt
        <3>2. RecordsAt("retry")' = RecordsAt("retry") /\ RecordsAt("hold")' = RecordsAt("hold")
            BY <2>1 DEF RecordsAt
        <3> QED
            BY <3>1, <3>2 DEF MovesTo
    <2> QED
        BY <1>1, <2>1, <2>2 DEF NoRepeats
<1> QED
    BY <1>4, <1>5, <1>6 DEF Dests

RecordsKept == Placed' /\ Heard' /\ OnceEach'

\* Steps that leave every record where it is.
LEMMA NoMoveKeepsRecords ==
    ASSUME AuditInv,
           UNCHANGED <<issued, serial, queues, fates>>,
           k'.pc \in {"send", "put"} => k.pc \in {"send", "put"} /\ k'.skb = k.skb,
           k.pc \in {"send", "put"} => k'.pc \in {"send", "put"},
           \A f \in Flushers : reset'[f].pc = "put" <=> reset[f].pc = "put",
           \A f \in Flushers : reset[f].pc = "put" => reset'[f].skb = reset[f].skb
    PROVE  RecordsKept
<1>1. Unmoved
    BY StillThere DEF fates
<1>2. Placed' /\ Heard'
    BY <1>1, NoMoveKeepsPlaced, NoMoveKeepsHeard DEF AuditInv, fates
<1>3. OnceEach'
    BY DEF AuditInv, OnceEach, NoRepeats, queues
<1> QED
    BY <1>2, <1>3 DEF RecordsKept

\* BufferAlloc: the task has the next serial number in its hand.
LEMMA AllocKeepsRecords ==
    ASSUME AuditInv, NEW t \in Tasks, BufferAlloc(t)
    PROVE  RecordsKept
<1> DEFINE n == issued + 1
<1>1. AuditTypeOK /\ Placed /\ Heard /\ OnceEach /\ Control
    BY DEF AuditInv
<1>2. n \in Records /\ n # 0 /\ issued \in Nat
    BY NextSerial DEF BufferAlloc
<1>3. /\ serial' = [serial EXCEPT ![t] = n] /\ issued' = n /\ serial[t] = 0
      /\ UNCHANGED <<queues, k, reset, fates>>
    BY <1>1 DEF BufferAlloc, Control
<1>4. n \in RecordsAt("none") /\ n \notin RecordsAt("task")
    <2>1. n \in RecordsAt("none")
        BY <1>2, PlaceNames
    <2> QED
        BY <1>1, <1>2, <2>1, OnlyThere DEF Places
<1>5. \E m \in Records : m = n /\ MovesTo(m, "none", "task")
    <2>1. PICK m \in Records : m = n
        BY <1>2
    <2>2. RecordsAt("none")' = RecordsAt("none") \ {m}
        BY <1>2, <1>3, <2>1, NextSerial DEF RecordsAt, Records
    <2>3. RecordsAt("task")' = RecordsAt("task") \cup {m}
        <3>1. serial \in [Tasks -> Records \cup {0}]
            BY <1>1 DEF AuditTypeOK
        <3> QED
            BY <1>2, <1>3, <2>1, <3>1 DEF RecordsAt
    <2>4. \A p \in Places \ {"none", "task"} : RecordsAt(p)' = RecordsAt(p)
        BY <1>3 DEF RecordsAt, Places, Putting, queues, fates
    <2> QED
        BY <2>1, <2>2, <2>3, <2>4 DEF MovesTo
<1>6. PICK m \in Records : m = n /\ MovesTo(m, "none", "task")
    BY <1>5
<1>7. Placed' /\ Heard'
    BY <1>1, <1>3, <1>4, <1>6, MoveKeepsPlaced, MoveKeepsHeard DEF Places, fates
<1>8. OnceEach'
    <2>1. \A u \in Tasks : serial[u] # n
        BY <1>2, <1>4, PlaceNames
    <2> QED
        BY <1>1, <1>3, <2>1 DEF OnceEach, NoRepeats, queues, AuditTypeOK
<1> QED
    BY <1>7, <1>8 DEF RecordsKept

\* A task's record leaves its hand.
LEMMA TaskGives ==
    ASSUME AuditInv, NEW t \in Tasks, serial[t] # 0, serial' = [serial EXCEPT ![t] = 0]
    PROVE  /\ serial[t] \in Records /\ serial[t] \in RecordsAt("task")
           /\ RecordsAt("task")' = RecordsAt("task") \ {serial[t]}
           /\ \A u, v \in Tasks : serial'[u] = serial'[v] /\ serial'[u] # 0 => u = v
<1>1. /\ serial \in [Tasks -> Records \cup {0}]
      /\ \A u, v \in Tasks : serial[u] = serial[v] /\ serial[u] # 0 => u = v
    BY DEF AuditInv, AuditTypeOK, OnceEach
<1>2. \A u \in Tasks : serial'[u] = IF u = t THEN 0 ELSE serial[u]
    BY <1>1
<1>3. RecordsAt("task")' = {serial'[u] : u \in Tasks} \ {0}
    BY DEF RecordsAt
<1>4. {serial'[u] : u \in Tasks} \ {0} = ({serial[u] : u \in Tasks} \ {0}) \ {serial[t]}
    <2>1. ASSUME NEW u \in Tasks, serial'[u] # 0
          PROVE  serial'[u] \in ({serial[v] : v \in Tasks} \ {0}) \ {serial[t]}
        BY <1>1, <1>2, <2>1
    <2>2. ASSUME NEW u \in Tasks, serial[u] # 0, serial[u] # serial[t]
          PROVE  serial[u] \in {serial'[v] : v \in Tasks} \ {0}
        BY <1>2, <2>2
    <2> QED
        BY <2>1, <2>2
<1> QED
    BY <1>1, <1>2, <1>3, <1>4, PlaceNames

LEMMA LogEndKeepsRecords ==
    ASSUME AuditInv, NEW t \in Tasks, LogEnd(t)
    PROVE  RecordsKept
<1>1. AuditTypeOK /\ Placed /\ Heard /\ OnceEach /\ Control
    BY DEF AuditInv
<1>2. /\ serial[t] # 0 /\ serial' = [serial EXCEPT ![t] = 0]
      /\ queue' = Append(queue, serial[t])
      /\ UNCHANGED <<retry, hold, issued, k, reset, fates>>
    BY <1>1 DEF LogEnd, Control
<1>3. PICK n \in Records : n = serial[t]
    BY <1>2, TaskGives
<1>4. /\ n \in RecordsAt("task") /\ RecordsAt("task")' = RecordsAt("task") \ {n}
      /\ \A u, v \in Tasks : serial'[u] = serial'[v] /\ serial'[u] # 0 => u = v
    BY <1>2, <1>3, TaskGives
<1>5. n \notin ToSet(queue)
    BY <1>1, <1>4, OnlyThere, PlaceNames DEF Places
<1>6. ToSet(queue)' = ToSet(queue) \cup {n} /\ NoRepeats(queue)'
    BY <1>1, <1>2, <1>3, <1>5, AppendRecord DEF AuditTypeOK, OnceEach
<1>7. MovesTo(n, "task", "queue")
    <2>1. RecordsAt("queue")' = RecordsAt("queue") \cup {n}
        BY <1>6 DEF RecordsAt
    <2>2. \A p \in Places \ {"task", "queue"} : RecordsAt(p)' = RecordsAt(p)
        BY <1>2 DEF RecordsAt, Places, Putting, fates
    <2> QED
        BY <1>4, <2>1, <2>2 DEF MovesTo
<1>8. Placed' /\ Heard'
    BY <1>1, <1>2, <1>4, <1>7, MoveKeepsPlaced, MoveKeepsHeard DEF Places, fates
<1>9. OnceEach'
    BY <1>1, <1>2, <1>4, <1>6 DEF OnceEach, NoRepeats
<1> QED
    BY <1>8, <1>9 DEF RecordsKept

LEMMA RateLimitKeepsRecords ==
    ASSUME AuditInv, NEW t \in Tasks, RateLimited(t)
    PROVE  RecordsKept
<1>1. AuditTypeOK /\ Placed /\ Heard /\ OnceEach /\ Control
    BY DEF AuditInv
<1>2. /\ serial[t] # 0 /\ serial' = [serial EXCEPT ![t] = 0] /\ gone' = gone \cup {serial[t]}
      /\ UNCHANGED <<queues, issued, k, reset, mcast, got>>
    BY <1>1 DEF RateLimited, Control
<1>3. PICK n \in Records : n = serial[t]
    BY <1>2, TaskGives
<1>4. /\ n \in RecordsAt("task") /\ RecordsAt("task")' = RecordsAt("task") \ {n}
      /\ \A u, v \in Tasks : serial'[u] = serial'[v] /\ serial'[u] # 0 => u = v
    BY <1>2, <1>3, TaskGives
<1>5. MovesTo(n, "task", "gone")
    <2>1. RecordsAt("gone")' = RecordsAt("gone") \cup {n}
        BY <1>2, <1>3 DEF RecordsAt
    <2>2. \A p \in Places \ {"task", "gone"} : RecordsAt(p)' = RecordsAt(p)
        BY <1>2 DEF RecordsAt, Places, Putting, queues
    <2> QED
        BY <1>4, <2>1, <2>2 DEF MovesTo
<1>6. Placed' /\ Heard'
    BY <1>1, <1>2, <1>4, <1>5, MoveKeepsPlaced, MoveKeepsHeard DEF Places
<1>7. OnceEach'
    BY <1>1, <1>2, <1>4 DEF OnceEach, NoRepeats, queues
<1> QED
    BY <1>6, <1>7 DEF RecordsKept

\* ResetFlush: the first record of the retry queue is in the hand of who resets.
LEMMA FlushKeepsRecords ==
    ASSUME AuditInv, NEW f \in Flushers, ResetFlush(f)
    PROVE  RecordsKept
<1>1. AuditTypeOK /\ Placed /\ Heard /\ OnceEach
    BY DEF AuditInv
<1>2. reset[f].pc = "flush" /\ UNCHANGED <<queue, hold, k, issued, serial, fates>>
    BY DEF ResetFlush, taskVars
<1>3. CASE retry = <<>>
    <2>1. retry' = retry /\ reset' = [reset EXCEPT ![f] = Quiet]
        BY <1>3 DEF ResetFlush
    <2>2. /\ \A g \in Flushers : reset'[g].pc = "put" <=> reset[g].pc = "put"
          /\ \A g \in Flushers : reset[g].pc = "put" => reset'[g].skb = reset[g].skb
        BY <1>1, <1>2, <2>1 DEF AuditTypeOK, Quiet
    <2> QED
        BY <1>2, <2>1, <2>2, NoMoveKeepsRecords DEF queues
<1>4. CASE retry # <<>>
    <2>1. /\ retry' = Tail(retry)
          /\ reset' = [reset EXCEPT ![f] = [pc |-> "put", ac |-> Nobody, skb |-> Head(retry),
                                            dest |-> HoldDest("ECONNREFUSED")]]
        BY <1>4 DEF ResetFlush
    <2>2. PICK n \in Records : n = Head(retry)
        BY <1>1, <1>4, TakeRecord DEF AuditTypeOK
    <2>3. n \in ToSet(retry) /\ ToSet(retry)' = ToSet(retry) \ {n} /\ NoRepeats(retry)'
        BY <1>1, <1>4, <2>1, <2>2, TakeRecord DEF AuditTypeOK, OnceEach
    <2>4. \A g \in Flushers :
              /\ reset'[g].pc = "put" <=> reset[g].pc = "put" \/ g = f
              /\ reset'[g].pc = "put" => reset'[g].skb = IF g = f THEN n ELSE reset[g].skb
        BY <1>1, <2>1, <2>2 DEF AuditTypeOK
    <2>5. MovesTo(n, "retry", "reset")
        <3>1. RecordsAt("retry")' = RecordsAt("retry") \ {n}
            BY <2>3 DEF RecordsAt
        <3>2. RecordsAt("reset")' = RecordsAt("reset") \cup {n}
            <4>1. ASSUME NEW g \in Flushers, reset'[g].pc = "put"
                  PROVE  reset'[g].skb \in {reset[h].skb : h \in Putting} \cup {n}
                BY <2>4, <4>1 DEF Putting
            <4>2. ASSUME NEW g \in Putting
                  PROVE  g \in Putting' /\ reset'[g].skb = reset[g].skb
                BY <1>2, <2>4 DEF Putting
            <4>3. f \in Putting' /\ reset'[f].skb = n
                BY <2>4 DEF Putting
            <4> QED
                BY <4>1, <4>2, <4>3 DEF RecordsAt, Putting
        <3>3. \A p \in Places \ {"retry", "reset"} : RecordsAt(p)' = RecordsAt(p)
            BY <1>2 DEF RecordsAt, Places, fates
        <3> QED
            BY <3>1, <3>2, <3>3 DEF MovesTo
    <2>6. Placed' /\ Heard'
        BY <1>1, <1>2, <2>3, <2>5, PlaceNames, MoveKeepsPlaced, MoveKeepsHeard DEF Places,
            fates
    <2>7. \A g \in Flushers : reset[g].pc = "put" => reset[g].skb # n
        <3>1. n \notin RecordsAt("reset")
            BY <1>1, <2>3, OnlyThere, PlaceNames DEF Places
        <3> QED
            BY <3>1, PlaceNames DEF Putting
    <2>8. OnceEach'
        BY <1>1, <1>2, <2>3, <2>4, <2>7 DEF OnceEach, NoRepeats
    <2> QED
        BY <2>6, <2>8 DEF RecordsKept
<1> QED
    BY <1>3, <1>4

LEMMA ResetPutKeepsRecords ==
    ASSUME AuditInv, NEW f \in Flushers, ResetPut(f)
    PROVE  RecordsKept
<1>1. AuditTypeOK /\ Placed /\ Heard /\ OnceEach
    BY DEF AuditInv
<1>2. /\ reset[f].pc = "put" /\ reset' = [reset EXCEPT ![f] = [Quiet EXCEPT !.pc = "flush"]]
      /\ Put(reset[f].skb, reset[f].dest)
      /\ UNCHANGED <<queue, k, issued, serial, mcast, got>>
    BY DEF ResetPut, taskVars
<1>3. PICK n \in Records : n = reset[f].skb
    BY <1>1, <1>2 DEF OnceEach
<1>4. \A g \in Flushers :
          /\ reset'[g].pc = "put" <=> reset[g].pc = "put" /\ g # f
          /\ g # f => reset'[g].skb = reset[g].skb
    BY <1>1, <1>2 DEF AuditTypeOK, Quiet
<1>5. n \in RecordsAt("reset")
    BY <1>2, <1>3, PlaceNames DEF Putting
<1>6. RecordsAt("reset")' = RecordsAt("reset") \ {n}
    <2>1. Putting' = Putting \ {f}
        BY <1>4 DEF Putting
    <2>2. \A g \in Putting \ {f} : reset[g].skb # n /\ reset'[g].skb = reset[g].skb
        BY <1>1, <1>2, <1>3, <1>4 DEF OnceEach, Putting
    <2>3. {reset'[g].skb : g \in Putting \ {f}} = {reset[g].skb : g \in Putting} \ {n}
        BY <1>3, <2>2
    <2> QED
        BY <2>1, <2>3 DEF RecordsAt
<1>7. \A p \in Places \ {"reset", "retry", "hold", "gone"} : RecordsAt(p)' = RecordsAt(p)
    BY <1>2 DEF RecordsAt, Places
<1>8. reset[f].dest \in Dests
    BY <1>1 DEF AuditTypeOK, Resets
<1>9. /\ \E b \in {"retry", "hold", "gone"} : MovesTo(n, "reset", b)
      /\ NoRepeats(retry)' /\ NoRepeats(hold)'
    BY <1>2, <1>3, <1>5, <1>6, <1>7, <1>8, PutMoves DEF Places
<1>10. PICK b \in {"retry", "hold", "gone"} : MovesTo(n, "reset", b)
    BY <1>9
<1>11. Placed' /\ Heard'
    BY <1>1, <1>2, <1>5, <1>10, MoveKeepsPlaced, MoveKeepsHeard DEF Places
<1>12. OnceEach'
    BY <1>1, <1>2, <1>4, <1>9 DEF OnceEach, NoRepeats
<1> QED
    BY <1>11, <1>12 DEF RecordsKept

\* Dequeue: the first record of the queue that is emptied is in kauditd's hand, and
\* multicast if it comes from the main queue.
LEMMA DequeueKeepsRecords ==
    ASSUME AuditInv, Dequeue
    PROVE  RecordsKept
<1>1. AuditTypeOK /\ Placed /\ Heard /\ OnceEach
    BY DEF AuditInv
<1>2. /\ k.pc = "loop" /\ k \in Locals /\ k.phase \in {"hold", "retry", "main"}
      /\ UNCHANGED <<reset, issued, serial, got, gone>>
    BY <1>1 DEF AuditTypeOK, Locals, Dequeue, notKauditd, taskVars
<1> DEFINE q == Queue(k.phase)
           from == IF k.phase = "main" THEN "queue" ELSE k.phase
<1>3. /\ q \in Seq(Records) /\ q # <<>> /\ NoRepeats(q)
      /\ from \in {"queue", "retry", "hold"} /\ RecordsAt(from) = ToSet(q)
    BY <1>1, <1>2 DEF AuditTypeOK, OnceEach, Queue, Dequeue, RecordsAt
<1>4. PICK n \in Records : n = Head(q)
    BY <1>3, TakeRecord
<1>5. /\ n \in ToSet(q) /\ ToSet(Tail(q)) = ToSet(q) \ {n} /\ NoRepeats(Tail(q))
    BY <1>3, <1>4, TakeRecord
<1>6. PICK a \in {"queue", "retry", "hold"} : a = from
    BY <1>3
<1>7. /\ k'.pc \in {"send", "put"} /\ k'.skb = n
      /\ mcast' = IF a = "queue" THEN mcast \cup {n} ELSE mcast
    BY <1>2, <1>4, <1>6 DEF Dequeue, Locals
<1>8. /\ RecordsAt(a)' = RecordsAt(a) \ {n}
      /\ \A p \in {"queue", "retry", "hold"} \ {a} : RecordsAt(p)' = RecordsAt(p)
      /\ NoRepeats(queue)' /\ NoRepeats(retry)' /\ NoRepeats(hold)'
    <2>1. CASE k.phase = "main"
        <3>1. a = "queue" /\ q = queue /\ queue' = Tail(queue) /\ UNCHANGED <<retry, hold>>
            BY <1>6, <2>1 DEF Queue, Dequeue
        <3> QED
            BY <1>1, <1>5, <3>1 DEF RecordsAt, OnceEach, NoRepeats
    <2>2. CASE k.phase = "retry"
        <3>1. a = "retry" /\ q = retry /\ retry' = Tail(retry) /\ UNCHANGED <<queue, hold>>
            BY <1>6, <2>2 DEF Queue, Dequeue
        <3> QED
            BY <1>1, <1>5, <3>1 DEF RecordsAt, OnceEach, NoRepeats
    <2>3. CASE k.phase = "hold"
        <3>1. a = "hold" /\ q = hold /\ hold' = Tail(hold) /\ UNCHANGED <<queue, retry>>
            BY <1>6, <2>3 DEF Queue, Dequeue
        <3> QED
            BY <1>1, <1>5, <3>1 DEF RecordsAt, OnceEach, NoRepeats
    <2> QED
        BY <1>2, <2>1, <2>2, <2>3
<1>9. MovesTo(n, a, "kauditd")
    <2>1. RecordsAt("kauditd")' = RecordsAt("kauditd") \cup {n}
        BY <1>2, <1>7 DEF RecordsAt
    <2>2. \A p \in Places \ {"queue", "retry", "hold", "kauditd"} : RecordsAt(p)' = RecordsAt(p)
        BY <1>2 DEF RecordsAt, Places, Putting
    <2> QED
        BY <1>8, <2>1, <2>2 DEF MovesTo
<1>10. Placed' /\ Heard'
    <2>1. n \in RecordsAt(a)
        BY <1>3, <1>5, <1>6
    <2>2. mcast' = mcast \cup {n} \/ (mcast' = mcast /\ a \in {"retry", "hold"})
        BY <1>6, <1>7
    <2> QED
        BY <1>1, <1>9, <2>1, <2>2, MoveKeepsPlaced, MoveKeepsHeard DEF Places
<1>11. OnceEach'
    BY <1>1, <1>2, <1>7, <1>8 DEF OnceEach
<1> QED
    BY <1>10, <1>11 DEF RecordsKept

\* kauditd's record leaves its hand.
LEMMA KauditdGives ==
    ASSUME AuditInv, k.pc \in {"send", "put"}, k'.pc = "loop"
    PROVE  /\ k.skb \in Records /\ k.skb \in RecordsAt("kauditd")
           /\ RecordsAt("kauditd")' = RecordsAt("kauditd") \ {k.skb}
BY DEF AuditInv, OnceEach, RecordsAt

LEMMA SentKeepsRecords ==
    ASSUME AuditInv, Sent
    PROVE  RecordsKept
<1>1. AuditTypeOK /\ Placed /\ Heard /\ OnceEach
    BY DEF AuditInv
<1>2. /\ k.pc = "send" /\ k'.pc = "loop" /\ got' = got \cup {k.skb}
      /\ UNCHANGED <<queues, reset, issued, serial, mcast, gone>>
    BY <1>1 DEF AuditTypeOK, Locals, Sent, notKauditd, taskVars
<1>3. PICK n \in Records : n = k.skb
    BY <1>2, KauditdGives
<1>4. n \in RecordsAt("kauditd") /\ RecordsAt("kauditd")' = RecordsAt("kauditd") \ {n}
    BY <1>2, <1>3, KauditdGives
<1>5. MovesTo(n, "kauditd", "got")
    <2>1. RecordsAt("got")' = RecordsAt("got") \cup {n}
        BY <1>2, <1>3 DEF RecordsAt
    <2>2. \A p \in Places \ {"kauditd", "got"} : RecordsAt(p)' = RecordsAt(p)
        BY <1>2 DEF RecordsAt, Places, Putting, queues
    <2> QED
        BY <1>4, <2>1, <2>2 DEF MovesTo
<1>6. Placed' /\ Heard'
    BY <1>1, <1>2, <1>4, <1>5, MoveKeepsPlaced, MoveKeepsHeard DEF Places
<1>7. OnceEach'
    BY <1>1, <1>2 DEF OnceEach, NoRepeats, queues
<1> QED
    BY <1>6, <1>7 DEF RecordsKept

LEMMA HookPutKeepsRecords ==
    ASSUME AuditInv, HookPut
    PROVE  RecordsKept
<1>1. AuditTypeOK /\ Placed /\ Heard /\ OnceEach
    BY DEF AuditInv
<1>2. /\ k.pc = "put" /\ k'.pc = "loop" /\ Put(k.skb, k.dest) /\ k.dest \in Dests
      /\ UNCHANGED <<queue, reset, issued, serial, mcast, got>>
    BY <1>1 DEF AuditTypeOK, Locals, HookPut, notKauditd, taskVars
<1>3. PICK n \in Records : n = k.skb
    BY <1>2, KauditdGives
<1>4. n \in RecordsAt("kauditd") /\ RecordsAt("kauditd")' = RecordsAt("kauditd") \ {n}
    BY <1>2, <1>3, KauditdGives
<1>5. \A p \in Places \ {"kauditd", "retry", "hold", "gone"} : RecordsAt(p)' = RecordsAt(p)
    BY <1>2 DEF RecordsAt, Places, Putting
<1>6. /\ \E b \in {"retry", "hold", "gone"} : MovesTo(n, "kauditd", b)
      /\ NoRepeats(retry)' /\ NoRepeats(hold)'
    BY <1>2, <1>3, <1>4, <1>5, PutMoves DEF Places
<1>7. PICK b \in {"retry", "hold", "gone"} : MovesTo(n, "kauditd", b)
    BY <1>6
<1>8. Placed' /\ Heard'
    BY <1>1, <1>2, <1>4, <1>7, MoveKeepsPlaced, MoveKeepsHeard DEF Places
<1>9. OnceEach'
    BY <1>1, <1>2, <1>6 DEF OnceEach, NoRepeats
<1> QED
    BY <1>8, <1>9 DEF RecordsKept

\* The record of a request goes into the main queue with the next serial number.
LEMMA ConfigKeepsRecords ==
    ASSUME AuditInv, Owed = 1, ConfigRecord,
           UNCHANGED <<retry, hold, k, serial, fates>>,
           \A f \in Flushers : reset'[f].pc = "put" <=> reset[f].pc = "put",
           \A f \in Flushers : reset[f].pc = "put" => reset'[f].skb = reset[f].skb
    PROVE  RecordsKept
<1>1. AuditTypeOK /\ Placed /\ Heard /\ OnceEach
    BY DEF AuditInv
<1>2. PICK n \in Records : n = issued + 1
    BY NextSerial
<1>3. issued' = n /\ queue' = Append(queue, n) /\ issued \in Nat
    BY <1>2, NextSerial DEF ConfigRecord
<1>4. n \in RecordsAt("none") /\ RecordsAt("none")' = RecordsAt("none") \ {n}
    BY <1>2, <1>3, NextSerial DEF RecordsAt, Records
<1>5. n \notin ToSet(queue)
    BY <1>1, <1>4, OnlyThere, PlaceNames DEF Places
<1>6. ToSet(queue)' = ToSet(queue) \cup {n} /\ NoRepeats(queue)'
    BY <1>1, <1>3, <1>5, AppendRecord DEF AuditTypeOK, OnceEach
<1>7. MovesTo(n, "none", "queue")
    <2>1. RecordsAt("queue")' = RecordsAt("queue") \cup {n}
        BY <1>6 DEF RecordsAt
    <2>2. RecordsAt("reset")' = RecordsAt("reset")
        <3>1. Putting' = Putting /\ \A f \in Putting : reset'[f].skb = reset[f].skb
            BY DEF Putting
        <3> QED
            BY <3>1 DEF RecordsAt
    <2>3. \A p \in Places \ {"none", "queue", "reset"} : RecordsAt(p)' = RecordsAt(p)
        BY DEF RecordsAt, Places, fates
    <2> QED
        BY <1>4, <2>1, <2>2, <2>3 DEF MovesTo
<1>8. Placed' /\ Heard'
    BY <1>1, <1>4, <1>7, MoveKeepsPlaced, MoveKeepsHeard DEF Places, fates
<1>9. OnceEach'
    BY <1>1, <1>6 DEF OnceEach, NoRepeats
<1> QED
    BY <1>8, <1>9 DEF RecordsKept

-----------------------------------------------------------------------------
(* What a step of a daemon does to the records and to the mutex.           *)

LEMMA OneRequest ==
    ASSUME AuditInv, NEW d \in Daemons, dpc[d] \in InRequest
    PROVE  /\ \A e \in Daemons \ {d} : dpc[e] \notin InRequest
           /\ Owed = Bit(dpc[d] \in Unrecorded)
BY DEF AuditInv, Control, Owed, Bit, Unrecorded

LEMMA DaemonEffect ==
    ASSUME AuditInv, NEW d \in Daemons,
           DaemonStep(d) \/ Die(d) \/ \E o \in Ops : Request(d, o)
    PROVE  /\ UNCHANGED <<retry, hold, k, serial, tpc, fates>>
           /\ \A f \in Flushers : reset'[f].pc = "put" <=> reset[f].pc = "put"
           /\ \A f \in Flushers : reset[f].pc = "put" => reset'[f] = reset[f]
           /\ \/ ConfigRecord /\ Owed = 1 /\ Owed' = 0 /\ requests' = requests
              \/ UNCHANGED <<queue, issued>> /\ Owed' <= Owed /\ requests' = requests
              \/ UNCHANGED <<queue, issued>> /\ Owed' <= 1 /\ Owed = 0
                 /\ requests' = requests + 1
<1>1. AuditTypeOK /\ Control /\ d \in Flushers
    BY DEF AuditInv, Flushers
<1>2. UNCHANGED <<retry, hold, k, serial, tpc, fates>>
    BY DEF DaemonStep, Die, Request, TestConnection, Decide, Register, Registered,
        Unregister, SetEnabled, Unlock, Penalty, PenaltyOver, PenaltyTimeOut, notRequest,
        taskVars, queues
<1>3. /\ \A f \in Flushers : reset'[f].pc = "put" <=> reset[f].pc = "put"
      /\ \A f \in Flushers : reset[f].pc = "put" => reset'[f] = reset[f]
    <2>1. reset' = reset
          \/ (dpc[d] \in {"replace", "unregister"} /\ \E c : BeginReset(d, c))
        BY DEF DaemonStep, Die, Request, TestConnection, Decide, Register, Registered,
            Unregister, SetEnabled, Unlock, Penalty, PenaltyOver, PenaltyTimeOut, notRequest
    <2>2. dpc[d] \in {"replace", "unregister"} => reset[d].pc = "none"
        BY <1>1 DEF Control
    <2>3. reset \in [Flushers -> Resets]
        BY <1>1 DEF AuditTypeOK
    <2> QED
        BY <1>1, <2>1, <2>2, <2>3 DEF BeginReset, Quiet
<1>4. Owed \in {0, 1} /\ Owed' \in {0, 1}
    BY DEF Owed, Bit
<1>5. \A e \in Daemons \ {d} : dpc'[e] = dpc[e]
    BY <1>1 DEF AuditTypeOK, DaemonStep, Die, Request, TestConnection, Decide, Register,
        Registered, Unregister, SetEnabled, Unlock, Penalty, PenaltyOver, PenaltyTimeOut,
        GotoD
<1>6. CASE \E o \in Ops : Request(d, o)
    <2>1. ctl = Nobody /\ requests' = requests + 1 /\ UNCHANGED <<queue, issued>>
        BY <1>6 DEF Request
    <2>2. \A e \in Daemons : dpc[e] \notin InRequest
        BY <1>1, <2>1, AuditAssumption DEF Control
    <2>3. Owed = 0
        BY <2>2 DEF Owed, Bit, Unrecorded
    <2> QED
        BY <1>2, <1>3, <1>4, <2>1, <2>3
<1>7. CASE dpc[d] \in InRequest /\ ~\E o \in Ops : Request(d, o)
    <2>1. requests' = requests
        BY <1>7 DEF DaemonStep, Die, TestConnection, Decide, Register, Registered,
            Unregister, SetEnabled, Unlock, Penalty, PenaltyOver, PenaltyTimeOut
    <2>2. \/ ConfigRecord /\ dpc[d] \in Unrecorded /\ dpc'[d] = "unlock"
          \/ UNCHANGED <<queue, issued>> /\ (dpc'[d] \in Unrecorded => dpc[d] \in Unrecorded)
        BY <1>1, <1>7 DEF AuditTypeOK, Control, DaemonStep, Die, TestConnection, Decide,
            Register, Registered, Unregister, SetEnabled, Unlock, Penalty, PenaltyOver,
            PenaltyTimeOut, RecordIf, GotoD, InRequest, Unrecorded
    <2>3. Owed = Bit(dpc[d] \in Unrecorded) /\ \A e \in Daemons \ {d} : dpc[e] \notin InRequest
        BY <1>7, OneRequest
    <2>4. Owed' = Bit(dpc'[d] \in Unrecorded)
        BY <1>5, <2>3 DEF Owed, Bit, Unrecorded
    <2>5. CASE ConfigRecord /\ dpc[d] \in Unrecorded /\ dpc'[d] = "unlock"
        <3>1. Owed = 1 /\ Owed' = 0
            BY <2>3, <2>4, <2>5 DEF Bit, Unrecorded
        <3> QED
            BY <1>2, <1>3, <2>1, <2>5, <3>1
    <2>6. CASE UNCHANGED <<queue, issued>> /\ (dpc'[d] \in Unrecorded => dpc[d] \in Unrecorded)
        <3>1. Owed' <= Owed
            BY <2>3, <2>4, <2>6 DEF Bit
        <3> QED
            BY <1>2, <1>3, <2>1, <2>6, <3>1
    <2> QED
        BY <2>2, <2>5, <2>6
<1>8. CASE dpc[d] \notin InRequest /\ ~\E o \in Ops : Request(d, o)
    <2>1. UNCHANGED <<queue, issued, requests>> /\ dpc'[d] \notin InRequest
        BY <1>1, <1>8 DEF AuditTypeOK, DaemonStep, Die, TestConnection, Decide, Register,
            Registered, Unregister, SetEnabled, Unlock, Penalty, PenaltyOver,
            PenaltyTimeOut, GotoD, InRequest, queues
    <2>2. Owed' = Owed
        BY <1>5, <1>8, <2>1 DEF Owed, Bit, Unrecorded
    <2> QED
        BY <1>2, <1>3, <1>4, <2>1, <2>2
<1> QED
    BY <1>6, <1>7, <1>8

\* Every step leaves each record in one place.
LEMMA RecordsStayPlaced ==
    ASSUME AuditInv, [AuditNext]_auditVars
    PROVE  RecordsKept
<1>1. AuditTypeOK /\ Control /\ Kauditd \in Flushers
    BY DEF AuditInv, Flushers
<1>2. ASSUME NEW t \in Tasks, LogStart(t) \/ TaskStep(t)  PROVE RecordsKept
    <2>1. CASE BufferAlloc(t) \/ LogEnd(t) \/ RateLimited(t)
        BY <2>1, AllocKeepsRecords, LogEndKeepsRecords, RateLimitKeepsRecords
    <2>2. CASE ~(BufferAlloc(t) \/ LogEnd(t) \/ RateLimited(t))
        <3>1. UNCHANGED <<issued, serial, queues, fates, k, reset>>
            BY <1>2, <2>2 DEF TaskStep, LogStart, CheckBacklog, Sleep, Awake, TimeOut,
                BufferAllocFails
        <3> QED
            BY <3>1, NoMoveKeepsRecords
    <2> QED
        BY <2>1, <2>2
<1>3. ASSUME NEW f \in Flushers, ResetStep(f)  PROVE RecordsKept
    <2>1. CASE ResetClear(f)
        <3>1. UNCHANGED <<issued, serial, queues, fates, k>>
            BY <2>1 DEF ResetClear, taskVars
        <3>2. \A g \in Flushers : /\ reset'[g].pc = "put" <=> reset[g].pc = "put"
                                  /\ reset[g].pc = "put" => reset'[g] = reset[g]
            BY <1>1, <2>1 DEF ResetClear, AuditTypeOK, Resets, Quiet
        <3> QED
            BY <3>1, <3>2, NoMoveKeepsRecords
    <2> QED
        BY <1>3, <2>1, FlushKeepsRecords, ResetPutKeepsRecords DEF ResetStep
<1>4. ASSUME KauditdStep  PROVE RecordsKept
    <2>1. CASE Dequeue \/ Sent \/ HookPut
        BY <2>1, DequeueKeepsRecords, SentKeepsRecords, HookPutKeepsRecords
    <2>2. CASE ~(Dequeue \/ Sent \/ HookPut)
        <3>1. UNCHANGED <<issued, serial, queues, fates>> /\ reset[Kauditd].pc = "none"
            BY <1>4, <2>2 DEF KauditdStep, RoundBegins, SendQueue, Refused, WouldBlock,
                SendFails, QueueDone, WakeBacklog, NextRound, notKauditd, taskVars
        <3>2. /\ k'.pc \in {"send", "put"} => k.pc \in {"send", "put"} /\ k'.skb = k.skb
              /\ k.pc \in {"send", "put"} => k'.pc \in {"send", "put"}
            BY <1>1, <1>4, <2>2, ZenonT(60) DEF AuditTypeOK, Locals, KauditdStep, RoundBegins,
                SendQueue, Refused, WouldBlock, SendFails, QueueDone, WakeBacklog, NextRound
        <3>3. reset' = reset \/ BeginReset(Kauditd, k.ac)
            BY <1>4, <2>2 DEF KauditdStep, RoundBegins, SendQueue, Refused, WouldBlock,
                SendFails, QueueDone, WakeBacklog, NextRound
        <3>4. \A g \in Flushers : /\ reset'[g].pc = "put" <=> reset[g].pc = "put"
                                  /\ reset[g].pc = "put" => reset'[g] = reset[g]
            BY <1>1, <3>1, <3>3 DEF BeginReset, AuditTypeOK, Quiet
        <3> QED
            BY <3>1, <3>2, <3>4, NoMoveKeepsRecords
    <2> QED
        BY <2>1, <2>2
<1>5. ASSUME NEW d \in Daemons, DaemonStep(d) \/ Die(d) \/ \E o \in Ops : Request(d, o)
      PROVE  RecordsKept
    <2>1. /\ UNCHANGED <<retry, hold, k, serial, fates>>
          /\ \A f \in Flushers : reset'[f].pc = "put" <=> reset[f].pc = "put"
          /\ \A f \in Flushers : reset[f].pc = "put" => reset'[f] = reset[f]
          /\ (ConfigRecord /\ Owed = 1) \/ UNCHANGED <<queue, issued>>
        BY <1>5, DaemonEffect
    <2>2. CASE ConfigRecord /\ Owed = 1
        BY <2>1, <2>2, ConfigKeepsRecords
    <2>3. CASE UNCHANGED <<queue, issued>>
        BY <2>1, <2>3, NoMoveKeepsRecords DEF queues
    <2> QED
        BY <2>1, <2>2, <2>3
<1>6. CASE UNCHANGED auditVars
    BY <1>6, NoMoveKeepsRecords DEF auditVars, taskVars
<1> QED
    BY <1>2, <1>3, <1>4, <1>5, <1>6 DEF AuditNext, AuditRest

-----------------------------------------------------------------------------
(* The limits.                                                             *)

BoundIssued ==
    /\ issued + Owed <= MaxRecords + requests
    /\ Owed <= requests
BoundQueue ==
    Limit > 0 => Len(queue) + Cardinality(Formatting) + Owed
                     <= Limit + Cardinality(Tasks) + requests
BoundRetry == Limit > 0 => Len(retry) + ToRetry <= Limit
BoundHold == Limit > 0 => Len(hold) + ToHold + DaemonToHold <= Limit + 1

LEMMA BoundParts == Bounds <=> BoundIssued /\ BoundQueue /\ BoundRetry /\ BoundHold
BY DEF Bounds, BoundIssued, BoundQueue, BoundRetry, BoundHold

LEMMA Numbers ==
    ASSUME AuditInv
    PROVE  /\ issued \in Nat /\ requests \in Nat /\ MaxRecords \in Nat /\ Limit \in Nat
           /\ Len(queue) \in Nat /\ Len(retry) \in Nat /\ Len(hold) \in Nat
           /\ IsFiniteSet(Formatting) /\ Cardinality(Formatting) \in Nat
           /\ Cardinality(Tasks) \in Nat /\ Cardinality(Formatting) <= Cardinality(Tasks)
           /\ Owed \in {0, 1} /\ Owed' \in {0, 1}
           /\ \A b \in BOOLEAN : Bit(b) \in {0, 1}
<1>1. queue \in Seq(Records) /\ retry \in Seq(Records) /\ hold \in Seq(Records)
    BY DEF AuditInv, AuditTypeOK
<1>2. Len(queue) \in Nat /\ Len(retry) \in Nat /\ Len(hold) \in Nat
    BY <1>1, LenProperties
<1>3. IsFiniteSet(Tasks) /\ Formatting \in SUBSET Tasks
    BY AuditAssumption DEF Formatting
<1>4. /\ IsFiniteSet(Formatting) /\ Cardinality(Formatting) \in Nat
      /\ Cardinality(Tasks) \in Nat /\ Cardinality(Formatting) <= Cardinality(Tasks)
    BY <1>3, FS_Subset, FS_CardinalityType
<1> QED
    BY <1>2, <1>4, NextSerial, AuditAssumption DEF Owed, Bit

LEMMA Pending ==
    /\ ToRetry \in {0, 1} /\ ToHold \in {0, 1} /\ DaemonToHold \in {0, 1}
    /\ ToRetry' \in {0, 1} /\ ToHold' \in {0, 1} /\ DaemonToHold' \in {0, 1}
    /\ WillRetry <=> ToRetry = 1
    /\ WillHold <=> ToHold = 1
    /\ DaemonWillHold <=> DaemonToHold = 1
    /\ WillRetry' <=> ToRetry' = 1
    /\ WillHold' <=> ToHold' = 1
    /\ DaemonWillHold' <=> DaemonToHold' = 1
<1>1. /\ ToRetry \in {0, 1} /\ (WillRetry <=> ToRetry = 1)
      /\ ToRetry' \in {0, 1} /\ (WillRetry' <=> ToRetry' = 1)
    BY DEF ToRetry, Bit
<1>2. /\ ToHold \in {0, 1} /\ (WillHold <=> ToHold = 1)
      /\ ToHold' \in {0, 1} /\ (WillHold' <=> ToHold' = 1)
    BY DEF ToHold, Bit
<1>3. /\ DaemonToHold \in {0, 1} /\ (DaemonWillHold <=> DaemonToHold = 1)
      /\ DaemonToHold' \in {0, 1} /\ (DaemonWillHold' <=> DaemonToHold' = 1)
    BY DEF DaemonToHold, Bit
<1> QED
    BY <1>1, <1>2, <1>3

LEMMA TaskKeepsBounds ==
    ASSUME AuditInv, NEW t \in Tasks, LogStart(t) \/ TaskStep(t)
    PROVE  Bounds'
<1>1. BoundIssued /\ BoundQueue /\ BoundRetry /\ BoundHold /\ AuditTypeOK
    BY BoundParts DEF AuditInv
<1>2. UNCHANGED <<dpc, requests, retry, hold, k, reset>>
    BY DEF TaskStep, LogStart, CheckBacklog, Sleep, Awake, TimeOut, BufferAlloc,
        BufferAllocFails, LogEnd, RateLimited, daemonVars, queues
<1>3. Owed' = Owed
    BY <1>2 DEF Owed
<1>4. BoundRetry' /\ BoundHold'
    BY <1>1, <1>2 DEF BoundRetry, BoundHold, ToRetry, ToHold, DaemonToHold, WillRetry,
        WillHold, DaemonWillHold
<1>5. CASE BufferAlloc(t)
    <2>1. /\ issued < MaxRecords /\ issued' = issued + 1 /\ queue' = queue
          /\ Limit > 0 => Len(queue) <= Limit
          /\ tpc' = [tpc EXCEPT ![t] = "format"]
        BY <1>5, Numbers DEF BufferAlloc, Backlogged, queues
    <2>2. BoundIssued'
        BY <1>1, <1>2, <1>3, <2>1, Numbers DEF BoundIssued
    <2>3. Cardinality(Formatting') \in Nat /\ Cardinality(Formatting') <= Cardinality(Tasks)
        <3>1. IsFiniteSet(Tasks) /\ Formatting' \in SUBSET Tasks
            BY AuditAssumption DEF Formatting
        <3> QED
            BY <3>1, FS_Subset, FS_CardinalityType
    <2>4. BoundQueue'
        BY <1>1, <1>2, <1>3, <2>1, <2>3, Numbers, SMTT(30) DEF BoundQueue, BoundIssued
    <2> QED
        BY <1>4, <2>2, <2>4 DEF Bounds, BoundIssued, BoundQueue, BoundRetry, BoundHold
<1>6. CASE LogEnd(t) \/ RateLimited(t)
    <2>1. /\ issued' = issued /\ tpc' = [tpc EXCEPT ![t] = "idle"] /\ t \in Formatting
          /\ queue' = queue \/ (queue' = Append(queue, serial[t]) /\ serial[t] \in Records)
        BY <1>1, <1>6 DEF LogEnd, RateLimited, queues, Formatting, AuditInv, Control,
            AuditTypeOK
    <2>2. Formatting' = Formatting \ {t}
        BY <1>1, <2>1 DEF Formatting, AuditTypeOK
    <2>3. Cardinality(Formatting') = Cardinality(Formatting) - 1
        BY <2>1, <2>2, Numbers, FS_RemoveElement
    <2>4. Len(queue') = Len(queue) \/ Len(queue') = Len(queue) + 1
        BY <1>1, <2>1, AppendRecord DEF AuditTypeOK
    <2>5. BoundQueue'
        BY <1>1, <1>2, <1>3, <2>3, <2>4, Numbers, SMTT(30) DEF BoundQueue
    <2> QED
        BY <1>1, <1>2, <1>3, <1>4, <2>1, <2>5 DEF Bounds, BoundIssued, BoundQueue,
            BoundRetry, BoundHold
<1>7. CASE ~(BufferAlloc(t) \/ LogEnd(t) \/ RateLimited(t))
    <2>1. UNCHANGED <<issued, queue>> /\ Formatting' = Formatting
        BY <1>1, <1>7 DEF TaskStep, LogStart, CheckBacklog, Sleep, Awake, TimeOut,
            BufferAllocFails, queues, Formatting, AuditTypeOK
    <2> QED
        BY <1>1, <1>2, <1>3, <1>4, <2>1 DEF Bounds, BoundIssued, BoundQueue, BoundRetry,
            BoundHold
<1> QED
    BY <1>5, <1>6, <1>7

LEMMA ResetKeepsBounds ==
    ASSUME AuditInv, NEW f \in Flushers, ResetStep(f)
    PROVE  Bounds'
<1>1. BoundIssued /\ BoundQueue /\ BoundRetry /\ BoundHold /\ AuditTypeOK /\ Control
    BY BoundParts DEF AuditInv
<1>2. UNCHANGED <<dpc, tpc, requests, issued, queue, k>>
    BY DEF ResetStep, ResetClear, ResetFlush, ResetPut, daemonVars, taskVars, queues
<1>3. BoundIssued' /\ BoundQueue'
    BY <1>1, <1>2 DEF BoundIssued, BoundQueue, Owed, Formatting
<1>4. WillRetry' = WillRetry
    BY <1>2 DEF WillRetry
<1>5. \* Who resets has nothing else to append.
      /\ f = Kauditd => k.pc \notin {"send", "put"}
      /\ f # Kauditd => f \in Daemons /\ \A d \in Daemons \ {f} : reset[d].pc = "none"
      /\ Kauditd \notin Daemons
    <2>1. reset[f].pc # "none"
        BY DEF ResetStep, ResetClear, ResetFlush, ResetPut
    <2> QED
        BY <1>1, <2>1, AuditAssumption DEF Control, Flushers, InRequest, Kauditd
<1>6. \A g \in Flushers \ {f} : reset'[g] = reset[g]
    BY <1>1 DEF ResetStep, ResetClear, ResetFlush, ResetPut, AuditTypeOK
<1>7. CASE ResetClear(f)
    <2>1. UNCHANGED <<retry, hold>> /\ reset[f].pc # "put" /\ reset'[f].pc # "put"
        BY <1>1, <1>7 DEF ResetClear, queues, AuditTypeOK, Resets, Quiet
    <2>2. WillHold' = WillHold /\ DaemonWillHold' = DaemonWillHold
        BY <1>2, <1>6, <2>1 DEF WillHold, DaemonWillHold, Flushers
    <2>3. BoundRetry' /\ BoundHold'
        BY <1>1, <1>4, <2>1, <2>2, Numbers, Pending DEF BoundRetry, BoundHold
    <2> QED
        BY <1>3, <2>3 DEF Bounds, BoundIssued, BoundQueue, BoundRetry, BoundHold
<1>8. CASE ResetFlush(f)
    <2>1. hold' = hold /\ reset[f].pc = "flush"
        BY <1>8 DEF ResetFlush
    <2>2. Len(retry') \in Nat /\ Len(retry') <= Len(retry)
        BY <1>1, <1>8, Numbers, TakeRecord DEF ResetFlush, AuditTypeOK
    <2>3. BoundRetry'
        BY <1>1, <1>4, <2>2, Numbers, Pending DEF BoundRetry
    <2>4. reset'[f].pc = "put" /\ reset'[f].dest = "hold" => Room(hold)
        BY <1>1, <1>8 DEF ResetFlush, AuditTypeOK, HoldDest, Quiet
    <2>5. BoundHold'
        <3>1. CASE f = Kauditd
            <4>1. ~WillHold /\ DaemonWillHold' = DaemonWillHold
                BY <1>5, <1>6, <2>1, <3>1 DEF WillHold, DaemonWillHold, Flushers
            <4>2. WillHold' => Room(hold)
                BY <1>2, <1>5, <2>4, <3>1 DEF WillHold
            <4> QED
                BY <1>1, <2>1, <4>1, <4>2, Numbers, Pending DEF BoundHold, Room
        <3>2. CASE f # Kauditd
            <4>1. ~DaemonWillHold /\ WillHold' = WillHold
                BY <1>2, <1>5, <1>6, <2>1, <3>2 DEF WillHold, DaemonWillHold, Flushers
            <4>2. DaemonWillHold' => Room(hold)
                BY <1>5, <1>6, <2>4, <3>2 DEF DaemonWillHold, Flushers
            <4> QED
                BY <1>1, <2>1, <4>1, <4>2, Numbers, Pending, SMTT(30) DEF BoundHold, Room
        <3> QED
            BY <3>1, <3>2
    <2> QED
        BY <1>3, <2>3, <2>5 DEF Bounds, BoundIssued, BoundQueue, BoundRetry, BoundHold
<1>9. CASE ResetPut(f)
    <2>1. /\ reset[f].pc = "put" /\ reset[f].dest # "retry" /\ reset'[f].pc = "flush"
          /\ reset[f].skb \in Records /\ Put(reset[f].skb, reset[f].dest)
        BY <1>1, <1>9 DEF ResetPut, Control, AuditTypeOK, Quiet, AuditInv, OnceEach
    <2>2. /\ retry' = retry
          /\ hold' = IF reset[f].dest = "hold" THEN Append(hold, reset[f].skb) ELSE hold
        BY <2>1 DEF Put
    <2>3. /\ reset[f].dest = "hold" => Len(hold') = Len(hold) + 1
          /\ reset[f].dest # "hold" => Len(hold') = Len(hold)
        BY <1>1, <2>1, <2>2, AppendRecord, Numbers DEF AuditTypeOK
    <2>5. BoundRetry'
        BY <1>1, <1>4, <2>2, Numbers, Pending DEF BoundRetry
    <2>4. BoundHold'
        <3>1. CASE f = Kauditd
            <4>1. /\ ~WillHold' /\ (reset[f].dest = "hold" => WillHold)
                  /\ DaemonWillHold' = DaemonWillHold
                BY <1>2, <1>5, <1>6, <2>1, <3>1 DEF WillHold, DaemonWillHold, Flushers
            <4> QED
                BY <1>1, <2>3, <4>1, Numbers, Pending DEF BoundHold
        <3>2. CASE f # Kauditd
            <4>1. /\ ~DaemonWillHold' /\ (reset[f].dest = "hold" => DaemonWillHold)
                  /\ WillHold' = WillHold
                BY <1>2, <1>5, <1>6, <2>1, <3>2 DEF WillHold, DaemonWillHold, Flushers
            <4> QED
                BY <1>1, <2>3, <4>1, Numbers, Pending DEF BoundHold
        <3> QED
            BY <3>1, <3>2
    <2> QED
        BY <1>3, <2>4, <2>5 DEF Bounds, BoundIssued, BoundQueue, BoundRetry, BoundHold
<1> QED
    BY <1>7, <1>8, <1>9 DEF ResetStep

LEMMA KauditdKeepsBounds ==
    ASSUME AuditInv, KauditdStep
    PROVE  Bounds'
<1>1. /\ BoundIssued /\ BoundQueue /\ BoundRetry /\ BoundHold /\ AuditTypeOK /\ Control
      /\ k \in Locals
    BY BoundParts DEF AuditInv, AuditTypeOK
<1>2. UNCHANGED <<dpc, tpc, requests, issued>> /\ reset[Kauditd].pc = "none"
    BY DEF KauditdStep, RoundBegins, SendQueue, Dequeue, Sent, Refused, WouldBlock,
        SendFails, HookPut, QueueDone, WakeBacklog, NextRound, notKauditd, taskVars,
        daemonVars
<1>3. /\ reset'[Kauditd].pc # "put"
      /\ \A d \in Daemons : reset'[d] = reset[d]
    <2>1. reset' = reset \/ BeginReset(Kauditd, k.ac)
        BY DEF KauditdStep, RoundBegins, SendQueue, Dequeue, Sent, Refused, WouldBlock,
            SendFails, HookPut, QueueDone, WakeBacklog, NextRound
    <2>2. /\ Kauditd \in Flushers /\ Kauditd \notin Daemons /\ Daemons \subseteq Flushers
          /\ reset \in [Flushers -> Resets]
        BY <1>1, AuditAssumption DEF AuditTypeOK, Flushers, Kauditd
    <2>3. CASE BeginReset(Kauditd, k.ac)
        <3> DEFINE r == [Quiet EXCEPT !.pc = "clear", !.ac = k.ac]
        <3>1. reset' = [reset EXCEPT ![Kauditd] = r] /\ r.pc = "clear"
            BY <2>3 DEF BeginReset, Quiet
        <3> HIDE DEF r
        <3> QED
            BY <2>2, <3>1
    <2>4. CASE reset' = reset
        BY <1>2, <2>4
    <2> QED
        BY <2>1, <2>3, <2>4
<1>4. DaemonToHold' = DaemonToHold
    BY <1>3 DEF DaemonToHold, DaemonWillHold
<1>5. ASSUME UNCHANGED <<retry, hold>>, Len(queue') \in Nat, Len(queue') <= Len(queue),
             WillRetry' => WillRetry \/ Room(retry), WillHold' => WillHold \/ Room(hold)
      PROVE  Bounds'
    <2>1. Owed' = Owed /\ Formatting' = Formatting
        BY <1>2 DEF Owed, Formatting
    <2>3. BoundIssued' /\ BoundQueue'
        BY <1>1, <1>2, <1>5, <2>1, Numbers, SMTT(30) DEF BoundIssued, BoundQueue
    <2>2. BoundRetry' /\ BoundHold'
        <3>1. BoundRetry'
            BY <1>1, <1>4, <1>5, Numbers, Pending DEF BoundRetry, Room
        <3>2. BoundHold'
            BY <1>1, <1>4, <1>5, Numbers, Pending, SMTT(30) DEF BoundHold, Room
        <3> QED
            BY <3>1, <3>2
    <2> QED
        BY <2>2, <2>3 DEF Bounds, BoundIssued, BoundQueue, BoundRetry, BoundHold
<1>6. CASE RoundBegins \/ SendQueue \/ Sent \/ QueueDone \/ WakeBacklog \/ NextRound
    <2>1. UNCHANGED queues /\ k'.pc \notin {"send", "put"}
        BY <1>1, <1>6 DEF Locals, RoundBegins, SendQueue, Sent, QueueDone, WakeBacklog,
            NextRound
    <2> QED
        BY <1>3, <1>5, <2>1, Numbers DEF queues, WillRetry, WillHold
<1>7. ASSUME NEW err \in {"EAGAIN", "ECONNREFUSED"}, SendFails(err)  PROVE Bounds'
    <2>1. /\ UNCHANGED queues /\ k.pc = "send" /\ k'.phase = k.phase
          /\ k.phase = "hold" <=> k.hook = "rehold"
          /\ k'.pc = "send" \/ (k'.pc = "put" /\ k'.dest = HookDest(err))
        BY <1>1, <1>7, ZenonT(60) DEF SendFails, Locals, Control, Working
    <2>2. WillRetry' => Room(retry)
        <3>1. k.hook \in {"rehold", "hold", "retry"}
            BY <1>1 DEF Locals
        <3>2. HookDest(err) = "retry" => Room(retry)
            BY <3>1 DEF HookDest, HoldDest, RetryDest
        <3> QED
            BY <2>1, <3>2 DEF WillRetry
    <2>3. WillHold' => WillHold \/ Room(hold)
        BY <1>1, <1>3, <2>1 DEF WillHold, HookDest, HoldDest, RetryDest, Locals
    <2> QED
        BY <1>5, <2>1, <2>2, <2>3, Numbers DEF queues
<1>8. CASE Dequeue
    <2>1. /\ k.pc = "loop" /\ Queue(k.phase) # <<>> /\ k'.phase = k.phase
          /\ k'.pc = "send" \/ (k'.pc = "put" /\ k'.dest = HookDest("ECONNREFUSED"))
          /\ k.phase = "hold" <=> k.hook = "rehold"
        BY <1>1, <1>8 DEF Dequeue, Locals, Control, Working
    <2>2. WillRetry' => Room(retry)
        <3>1. k.hook \in {"rehold", "hold", "retry"}
            BY <1>1 DEF Locals
        <3>2. HookDest("ECONNREFUSED") = "retry" => Room(retry)
            BY <3>1 DEF HookDest, HoldDest, RetryDest
        <3> QED
            BY <2>1, <3>2 DEF WillRetry
    <2>3. CASE k.phase = "main"
        <3>1. UNCHANGED <<retry, hold>> /\ Len(queue') \in Nat /\ Len(queue') <= Len(queue)
            BY <1>1, <1>8, <2>1, <2>3, TakeRecord, Numbers DEF Dequeue, Queue, AuditTypeOK
        <3>2. WillHold' => Room(hold)
            BY <1>1, <1>3, <2>1, <2>3 DEF WillHold, HookDest, HoldDest, RetryDest, Locals
        <3> QED
            BY <1>5, <2>2, <3>1, <3>2
    <2>4. CASE k.phase = "retry"
        <3>1. UNCHANGED <<queue, hold>> /\ Len(retry') \in Nat /\ Len(retry') <= Len(retry)
            BY <1>1, <1>8, <2>1, <2>4, TakeRecord, Numbers DEF Dequeue, Queue, AuditTypeOK
        <3>2. WillHold' => Room(hold)
            BY <1>1, <1>3, <2>1, <2>4 DEF WillHold, HookDest, HoldDest, RetryDest, Locals
        <3>3. BoundRetry' /\ BoundHold'
            <4>1. BoundRetry'
                BY <1>1, <1>4, <2>2, <3>1, <3>2, Numbers, Pending DEF BoundRetry, Room
            <4>2. BoundHold'
                BY <1>1, <1>4, <2>2, <3>1, <3>2, Numbers, Pending, SMTT(30) DEF BoundHold, Room
            <4> QED
                BY <4>1, <4>2
        <3> QED
            BY <1>1, <1>2, <3>1, <3>3 DEF Bounds, BoundIssued, BoundQueue, BoundRetry,
                BoundHold, Owed, Formatting
    <2>5. CASE k.phase = "hold"
        <3>1. UNCHANGED <<queue, retry>> /\ Len(hold') = Len(hold) - 1
            BY <1>1, <1>8, <2>1, <2>5, TakeRecord, Numbers DEF Dequeue, Queue, AuditTypeOK
        <3>2. BoundRetry' /\ BoundHold'
            <4>1. BoundRetry'
                BY <1>1, <1>4, <2>2, <3>1, Numbers, Pending DEF BoundRetry, Room
            <4>2. BoundHold'
                BY <1>1, <1>4, <2>2, <3>1, Numbers, Pending DEF BoundHold, Room
            <4> QED
                BY <4>1, <4>2
        <3> QED
            BY <1>1, <1>2, <3>1, <3>2 DEF Bounds, BoundIssued, BoundQueue, BoundRetry,
                BoundHold, Owed, Formatting
    <2> QED
        BY <1>1, <2>3, <2>4, <2>5 DEF Locals
<1>9. CASE HookPut
    <2>1. /\ k.pc = "put" /\ k'.pc = "loop" /\ queue' = queue
          /\ k.skb \in Records /\ Put(k.skb, k.dest)
        BY <1>1, <1>9 DEF HookPut, Locals, AuditInv, OnceEach
    <2>2. /\ k.dest = "retry" => Len(retry') = Len(retry) + 1
          /\ k.dest # "retry" => Len(retry') = Len(retry)
          /\ k.dest = "hold" => Len(hold') = Len(hold) + 1
          /\ k.dest # "hold" => Len(hold') = Len(hold)
        BY <1>1, <2>1, AppendRecord, Numbers DEF Put, AuditTypeOK
    <2>3. /\ ~WillRetry' /\ ~WillHold' /\ (k.dest = "retry" => WillRetry)
          /\ k.dest = "hold" => WillHold
        BY <1>3, <2>1 DEF WillRetry, WillHold
    <2>4. BoundRetry' /\ BoundHold'
        <3>1. BoundRetry'
            BY <1>1, <1>4, <2>2, <2>3, Numbers, Pending DEF BoundRetry, Room
        <3>2. BoundHold'
            BY <1>1, <1>4, <2>2, <2>3, Numbers, Pending DEF BoundHold, Room
        <3> QED
            BY <3>1, <3>2
    <2> QED
        BY <1>1, <1>2, <2>1, <2>4 DEF Bounds, BoundIssued, BoundQueue, BoundRetry,
            BoundHold, Owed, Formatting
<1> QED
    BY <1>6, <1>7, <1>8, <1>9 DEF KauditdStep, Refused, WouldBlock

LEMMA DaemonKeepsBounds ==
    ASSUME AuditInv, NEW d \in Daemons,
           DaemonStep(d) \/ Die(d) \/ \E o \in Ops : Request(d, o)
    PROVE  Bounds'
<1>1. BoundIssued /\ BoundQueue /\ BoundRetry /\ BoundHold /\ AuditTypeOK
    BY BoundParts DEF AuditInv
<1>2. /\ UNCHANGED <<retry, hold, k, tpc>>
      /\ \A f \in Flushers : reset'[f].pc = "put" <=> reset[f].pc = "put"
      /\ \A f \in Flushers : reset[f].pc = "put" => reset'[f] = reset[f]
      /\ \/ ConfigRecord /\ Owed = 1 /\ Owed' = 0 /\ requests' = requests
         \/ UNCHANGED <<queue, issued>> /\ Owed' <= Owed /\ requests' = requests
         \/ UNCHANGED <<queue, issued>> /\ Owed' <= 1 /\ Owed = 0 /\ requests' = requests + 1
    BY DaemonEffect
<1>3. BoundRetry' /\ BoundHold'
    BY <1>1, <1>2 DEF BoundRetry, BoundHold, ToRetry, ToHold, DaemonToHold, WillRetry,
        WillHold, DaemonWillHold, Flushers
<1>4. Formatting' = Formatting
    BY <1>2 DEF Formatting
<1>5. ConfigRecord /\ Owed = 1 => issued' = issued + 1 /\ Len(queue') = Len(queue) + 1
    BY <1>1, NextSerial, AppendRecord DEF ConfigRecord, AuditTypeOK
<1>6. BoundIssued' /\ BoundQueue'
    BY <1>1, <1>2, <1>4, <1>5, Numbers, SMTT(30) DEF BoundIssued, BoundQueue
<1> QED
    BY <1>3, <1>6 DEF Bounds, BoundIssued, BoundQueue, BoundRetry, BoundHold

-----------------------------------------------------------------------------
(* Every step keeps the invariant.                                         *)

LEMMA AuditInvInit == AuditInit => AuditInv
<1> SUFFICES ASSUME AuditInit  PROVE AuditInv
    OBVIOUS
<1> USE DEF AuditInit
<1>1. /\ MaxRecords \in Nat /\ MaxRequests \in Nat /\ Limit \in Nat /\ Retries \in Nat \ {0}
      /\ WaitTime \in Nat /\ Default \in BOOLEAN
    BY AuditAssumption
<1>2. AuditTypeOK
    <2>1. k \in Locals
        BY <1>1 DEF Locals, Conns, Records, Dests
    <2>2. reset \in [Flushers -> Resets]
        BY DEF Quiet, Resets, Conns, Records, Dests
    <2>3. TaskTypes /\ RequestTypes /\ QueueTypes /\ waitq \in Seq(Tasks \cup Daemons)
        BY <1>1 DEF TaskTypes, RequestTypes, QueueTypes, Conns, Records, DaemonOps,
            DaemonPcs
    <2> QED
        BY <1>1, <2>1, <2>2, <2>3, TypeParts DEF ThreadTypes, FateTypes
<1>3. Control
    BY AuditAssumption DEF Control, Quiet, InRequest, Working, Flushers, Kauditd
<1>4. /\ RecordsAt("none") = Records
      /\ \A p \in Places \ {"none"} : RecordsAt(p) = {}
    <2>1. Records \subseteq Nat \ {0}
        BY <1>1 DEF Records
    <2>2. Putting = {} /\ ToSet(<<>>) = {}
        BY DEF Putting, Quiet, ToSet
    <2>3. RecordsAt("none") = Records
        <3>1. issued = 0 /\ \A n \in Records : n > issued
            BY <2>1
        <3> QED
            BY <3>1, Zenon DEF RecordsAt
    <2>4. RecordsAt("task") = {} /\ RecordsAt("kauditd") = {} /\ RecordsAt("reset") = {}
        BY <2>2, PlaceNames
    <2>5. /\ RecordsAt("queue") = {} /\ RecordsAt("retry") = {} /\ RecordsAt("hold") = {}
          /\ RecordsAt("got") = {} /\ RecordsAt("gone") = {}
        BY <2>2, PlaceNames
    <2> QED
        BY <2>3, <2>4, <2>5 DEF Places
<1>5. Placed /\ Heard
    BY <1>4 DEF Placed, Heard, Places
<1>6. OnceEach
    BY DEF OnceEach, NoRepeats, Quiet
<1>7. Bounds
    <2>1. Owed = 0 /\ ToRetry = 0 /\ ToHold = 0 /\ DaemonToHold = 0 /\ Formatting = {}
        BY AuditAssumption DEF Owed, ToRetry, ToHold, DaemonToHold, Bit, WillRetry,
            WillHold, DaemonWillHold, Formatting, Unrecorded, InRequest, Quiet, Flushers,
            Kauditd
    <2>2. Cardinality(Formatting) = 0 /\ Cardinality(Tasks) \in Nat
        BY <2>1, FS_EmptySet, FS_CardinalityType, AuditAssumption
    <2>3. Len(queue) = 0 /\ Len(retry) = 0 /\ Len(hold) = 0 /\ issued = 0 /\ requests = 0
        OBVIOUS
    <2> QED
        BY <1>1, <2>1, <2>2, <2>3 DEF Bounds
<1> QED
    BY <1>2, <1>3, <1>5, <1>6, <1>7 DEF AuditInv

LEMMA StillKeepsTypes ==
    ASSUME AuditTypeOK, UNCHANGED auditVars
    PROVE  AuditTypeOK'
BY DEF AuditTypeOK, auditVars, queues, taskVars, daemonVars, fates

LEMMA StillKeepsBounds ==
    ASSUME Bounds, UNCHANGED auditVars
    PROVE  Bounds'
BY DEF Bounds, Owed, ToRetry, ToHold, DaemonToHold, WillRetry, WillHold, DaemonWillHold,
    Formatting, auditVars, queues, taskVars, daemonVars, fates

LEMMA AuditInvNext ==
    ASSUME AuditInv, [AuditNext]_auditVars
    PROVE  AuditInv'
<1>1. AuditTypeOK' /\ Bounds'
    <2>1. CASE KauditdStep
        BY <2>1, KauditdKeepsTypes, KauditdKeepsBounds
    <2>2. ASSUME NEW f \in Flushers, ResetStep(f)  PROVE AuditTypeOK' /\ Bounds'
        BY <2>2, ResetKeepsTypes, ResetKeepsBounds
    <2>3. ASSUME NEW t \in Tasks, LogStart(t) \/ TaskStep(t)  PROVE AuditTypeOK' /\ Bounds'
        BY <2>3, TaskKeepsTypes, TaskKeepsBounds
    <2>4. ASSUME NEW d \in Daemons, DaemonStep(d) \/ Die(d) \/ \E o \in Ops : Request(d, o)
          PROVE  AuditTypeOK' /\ Bounds'
        BY <2>4, DaemonKeepsTypes, DaemonKeepsBounds
    <2>5. CASE AuditRest \/ UNCHANGED auditVars
        BY <2>5, StillKeepsTypes, StillKeepsBounds DEF AuditInv, AuditRest
    <2> QED
        BY <2>1, <2>2, <2>3, <2>4, <2>5 DEF AuditNext
<1>2. Placed' /\ Heard' /\ OnceEach'
    BY RecordsStayPlaced DEF RecordsKept
<1>3. Control'
    BY ControlKept
<1> QED
    BY <1>1, <1>2, <1>3 DEF AuditInv

-----------------------------------------------------------------------------
(* What follows from the invariant.                                        *)

LEMMA PlacedIsAccounted == AuditInv => Accounted
<1> SUFFICES ASSUME AuditInv, NEW n \in 1 .. issued
             PROVE  (IF InHand(n) THEN 1 ELSE 0) + (IF n \in got THEN 1 ELSE 0)
                    + (IF n \in gone THEN 1 ELSE 0)
                    + Times(n, queue) + Times(n, retry) + Times(n, hold) = 1
    BY DEF Accounted
<1>1. n \in Records /\ n # 0 /\ ~(n > issued)
    BY NextSerial, AuditAssumption DEF AuditInv, AuditTypeOK, Records
<1>2. PICK place \in Places : \A p \in Places : n \in RecordsAt(p) <=> p = place
    BY <1>1 DEF AuditInv, Placed
<1>3. place # "none"
    BY <1>1, <1>2, PlaceNames DEF Places
<1>4. InHand(n) <=> place \in {"task", "kauditd", "reset"}
    <2>1. InHand(n) <=> \E p \in {"task", "kauditd", "reset"} : n \in RecordsAt(p)
        BY <1>1, PlaceNames DEF InHand, Putting
    <2> QED
        BY <1>2, <2>1 DEF Places
<1>5. (n \in got <=> place = "got") /\ (n \in gone <=> place = "gone")
    BY <1>2, PlaceNames DEF Places
<1>6. /\ Times(n, queue) = Bit(place = "queue")
      /\ Times(n, retry) = Bit(place = "retry")
      /\ Times(n, hold) = Bit(place = "hold")
    <2>1. /\ queue \in Seq(Records) /\ retry \in Seq(Records) /\ hold \in Seq(Records)
          /\ NoRepeats(queue) /\ NoRepeats(retry) /\ NoRepeats(hold)
        BY DEF AuditInv, AuditTypeOK, OnceEach
    <2>2. /\ Times(n, queue) = Bit(n \in ToSet(queue))
          /\ Times(n, retry) = Bit(n \in ToSet(retry))
          /\ Times(n, hold) = Bit(n \in ToSet(hold))
        BY <2>1, TimesOnce
    <2>3. /\ n \in ToSet(queue) <=> place = "queue"
          /\ n \in ToSet(retry) <=> place = "retry"
          /\ n \in ToSet(hold) <=> place = "hold"
        BY <1>2, PlaceNames DEF Places
    <2> QED
        BY <2>2, <2>3 DEF Bit
<1> QED
    BY <1>2, <1>3, <1>4, <1>5, <1>6 DEF Places, Bit

LEMMA InvImpliesAccounted == AuditInv => RecordsAccounted
<1> SUFFICES ASSUME AuditInv  PROVE RecordsAccounted
    OBVIOUS
<1>1. MulticastFirst
    BY PlaceNames DEF AuditInv, Heard, MulticastFirst
<1>2. WithinLimits
    BY Numbers, Pending, SMTT(30) DEF AuditInv, Bounds, WithinLimits
<1> QED
    BY <1>1, <1>2, PlacedIsAccounted DEF RecordsAccounted, AuditInv

\* What tasks log is in one place until auditd has it or it is counted as lost: appends,
\* removals and the three threads that move records between the queues lose and repeat none,
\* each is multicast before auditd can get it, and the backlog limit is passed only by one
\* record of each task, the records of requests, and one record in a thread's hand.
THEOREM RecordsAreAccounted == AuditSpec => []RecordsAccounted
<1>1. AuditInit => AuditInv
    BY AuditInvInit
<1>2. AuditInv /\ [AuditNext]_auditVars => AuditInv'
    BY AuditInvNext
<1>3. AuditInv => RecordsAccounted
    BY InvImpliesAccounted
<1> QED
    BY <1>1, <1>2, <1>3, PTL DEF AuditSpec

-----------------------------------------------------------------------------
(* Connections: who may break one.                                         *)

LEMMA ConnFacts ==
    ASSUME ConnInv
    PROVE  /\ k \in Locals /\ reset \in [Flushers -> Resets] /\ conn \in Conns
           /\ dpc \in [Daemons -> DaemonPcs] /\ op \in [Daemons -> DaemonOps]
           /\ alive \in [Daemons -> BOOLEAN] /\ requests \in Nat
           /\ Control /\ Daemons \subseteq Flushers /\ Kauditd \in Flushers
           /\ Kauditd \notin Daemons
BY NextSerial, AuditAssumption DEF ConnInv, AuditInv, AuditTypeOK, Flushers, Kauditd

\* A daemon that has died stays dead.
LEMMA DeadStaysDead ==
    ASSUME ConnInv, [AuditNext]_auditVars, NEW c \in Conns, Broken(c)
    PROVE  Broken(c)'
<1>1. alive \in [Daemons -> BOOLEAN] /\ c.who \in Daemons /\ c # Nobody /\ ~alive[c.who]
    BY ConnFacts DEF Broken, Conns
<1>2. alive' = alive \/ \E d \in Daemons : alive' = [alive EXCEPT ![d] = FALSE]
    <2>1. CASE KauditdStep
        BY <2>1 DEF KauditdStep, RoundBegins, SendQueue, Dequeue, Sent, Refused, WouldBlock,
            SendFails, HookPut, QueueDone, WakeBacklog, NextRound, notKauditd, daemonVars
    <2>2. CASE \E f \in Flushers : ResetStep(f)
        BY <2>2 DEF ResetStep, ResetClear, ResetFlush, ResetPut, daemonVars
    <2>3. CASE \E t \in Tasks : LogStart(t) \/ TaskStep(t)
        BY <2>3 DEF LogStart, TaskStep, CheckBacklog, Sleep, Awake, TimeOut, BufferAlloc,
            BufferAllocFails, LogEnd, RateLimited, daemonVars
    <2>4. CASE \E d \in Daemons : DaemonStep(d) \/ Die(d) \/ \E o \in Ops : Request(d, o)
        BY <2>4 DEF DaemonStep, Die, Request, TestConnection, Decide, Register, Registered,
            Unregister, SetEnabled, Unlock, Penalty, PenaltyOver, PenaltyTimeOut
    <2>5. CASE AuditRest \/ UNCHANGED auditVars
        BY <2>5 DEF AuditRest, auditVars, daemonVars
    <2> QED
        BY <2>1, <2>2, <2>3, <2>4, <2>5 DEF AuditNext
<1> QED
    BY <1>1, <1>2 DEF Broken

\* kauditd's locals: what it sends on, and what an error says of it.
KauditdSane ==
    /\ k.lsk \/ k.sk => k.ac # Nobody
    /\ k.pc \in {"start", "wait"} => ~k.lsk /\ ~k.sk
    /\ k.pc = "send" => k.lsk
    /\ k.pc \in Working /\ k.rc # "ok" => Broken(k.ac)
ResetSane(f) ==
    reset[f].pc = "clear" =>
        Broken(reset[f].ac) \/ (reset[f].ac = Nobody /\ f \in Daemons /\ op[f] = "unregister")

LEMMA KauditdSaneKept ==
    ASSUME ConnInv, [AuditNext]_auditVars
    PROVE  KauditdSane'
<1>1. KauditdSane /\ k \in Locals
    BY ConnFacts DEF ConnInv, DeadIsDead, KauditdSane
<1>2. k.ac \in Conns
    BY <1>1 DEF Locals
<1>3. PICK c \in Conns : c = k.ac
    BY <1>2
<1>4. k'.ac = k.ac /\ Broken(k.ac) => Broken(k.ac)'
    BY <1>3, DeadStaysDead DEF Broken
<1>5. CASE k' = k
    BY <1>1, <1>4, <1>5 DEF KauditdSane
<1>6. CASE KauditdStep
    <2>1. CASE RoundBegins
        BY <1>1, <2>1 DEF RoundBegins, KauditdSane, Locals, Working
    <2>2. CASE SendQueue
        BY <1>1, <2>2 DEF SendQueue, KauditdSane, Locals, Working
    <2>3. CASE Dequeue
        <3>1. /\ k.pc = "loop" /\ k'.ac = k.ac /\ k'.lsk = k.lsk /\ k'.sk = k.sk /\ k'.rc = k.rc
              /\ k'.pc = IF k.lsk THEN "send" ELSE "put"
            BY <1>1, <2>3 DEF Dequeue, Locals
        <3> QED
            BY <1>1, <1>4, <3>1 DEF KauditdSane, Working
    <2>4. CASE Sent
        BY <1>1, <2>4 DEF Sent, KauditdSane, Locals, Working
    <2>5. CASE Refused \/ WouldBlock
        <3>1. PICK err \in {"EAGAIN", "ECONNREFUSED"} :
                  SendFails(err) /\ (err = "ECONNREFUSED" => ~alive[k.ac.who])
            BY <2>5 DEF Refused, WouldBlock
        <3>2. /\ k.pc = "send" /\ k'.ac = k.ac /\ k'.sk = k.sk
              /\ \/ k'.pc = "put" /\ ~k'.lsk /\ k'.rc = (IF err = "EAGAIN" THEN "ok" ELSE err)
                 \/ k'.pc = "send" /\ k'.lsk = k.lsk /\ k'.rc = k.rc
            BY <1>1, <3>1 DEF SendFails, Locals
        <3>3. err = "ECONNREFUSED" => Broken(k.ac)
            BY <1>1, <3>1, <3>2 DEF KauditdSane, Broken
        <3> QED
            BY <1>1, <1>4, <3>2, <3>3 DEF KauditdSane, Working
    <2>6. CASE HookPut
        <3>1. /\ k.pc = "put" /\ k'.pc = "loop" /\ k'.ac = k.ac /\ k'.lsk = k.lsk
              /\ k'.sk = k.sk /\ k'.rc = k.rc
            BY <1>1, <2>6 DEF HookPut, Locals
        <3> QED
            BY <1>1, <1>4, <3>1 DEF KauditdSane, Working
    <2>7. CASE QueueDone
        BY <1>1, <2>7 DEF QueueDone, KauditdSane, Locals, Working
    <2>8. CASE WakeBacklog
        BY <1>1, <2>8 DEF WakeBacklog, KauditdSane, Locals, Working
    <2>9. CASE NextRound
        BY <1>1, <2>9 DEF NextRound, KauditdSane, Locals, Working
    <2> QED
        BY <1>6, <2>1, <2>2, <2>3, <2>4, <2>5, <2>6, <2>7, <2>8, <2>9 DEF KauditdStep
<1>7. k' = k \/ KauditdStep
    <2>1. CASE \E f \in Flushers : ResetStep(f)
        BY <2>1 DEF ResetStep, ResetClear, ResetFlush, ResetPut
    <2>2. CASE \E t \in Tasks : LogStart(t) \/ TaskStep(t)
        BY <2>2 DEF LogStart, TaskStep, CheckBacklog, Sleep, Awake, TimeOut, BufferAlloc,
            BufferAllocFails, LogEnd, RateLimited
    <2>3. CASE \E d \in Daemons : DaemonStep(d) \/ Die(d) \/ \E o \in Ops : Request(d, o)
        BY <2>3 DEF DaemonStep, Die, Request, TestConnection, Decide, Register, Registered,
            Unregister, SetEnabled, Unlock, Penalty, PenaltyOver, PenaltyTimeOut, notRequest
    <2>4. CASE AuditRest \/ UNCHANGED auditVars
        BY <2>4 DEF AuditRest, auditVars
    <2> QED
        BY <2>1, <2>2, <2>3, <2>4 DEF AuditNext
<1> QED
    BY <1>5, <1>6, <1>7

LEMMA ResetSaneKept ==
    ASSUME ConnInv, [AuditNext]_auditVars, NEW f \in Flushers
    PROVE  ResetSane(f)'
<1>1. /\ ResetSane(f) /\ KauditdSane /\ reset \in [Flushers -> Resets] /\ Control
      /\ op \in [Daemons -> DaemonOps] /\ k \in Locals /\ conn \in Conns
      /\ Daemons \subseteq Flushers /\ Kauditd \in Flushers /\ Kauditd \notin Daemons
    BY ConnFacts DEF ConnInv, DeadIsDead, ResetSane, KauditdSane
<1>2. reset[f].ac \in Conns /\ k.ac \in Conns
    BY <1>1 DEF Resets, Locals
<1>3. ASSUME NEW c \in Conns, Broken(c)  PROVE Broken(c)'
    BY <1>3, DeadStaysDead
<1>4. ASSUME NEW c \in Conns, reset'[f].ac = c, Broken(c)  PROVE ResetSane(f)'
    BY <1>3, <1>4 DEF ResetSane, Broken
<1>5. CASE reset'[f] = reset[f] /\ (f \in Daemons /\ reset[f].pc = "clear" => op'[f] = op[f])
    BY <1>1, <1>2, <1>4, <1>5 DEF ResetSane
<1>6. CASE reset'[f].pc # "clear"
    BY <1>6 DEF ResetSane
<1>7. ASSUME NEW g \in Flushers, NEW c, BeginReset(g, c)
      PROVE  /\ g # f => reset'[f] = reset[f]
             /\ g = f => reset'[f].ac = c
    BY <1>1, <1>7 DEF BeginReset, Quiet
<1>8. CASE KauditdStep
    <2>1. op' = op
        BY <1>8 DEF KauditdStep, RoundBegins, SendQueue, Dequeue, Sent, Refused, WouldBlock,
            SendFails, HookPut, QueueDone, WakeBacklog, NextRound, notKauditd, daemonVars
    <2>2. reset' = reset \/ (BeginReset(Kauditd, k.ac) /\ k.pc = "loop" /\ k.rc # "ok")
        BY <1>8 DEF KauditdStep, RoundBegins, SendQueue, Dequeue, Sent, Refused, WouldBlock,
            SendFails, HookPut, QueueDone, WakeBacklog, NextRound
    <2>3. CASE BeginReset(Kauditd, k.ac) /\ k.pc = "loop" /\ k.rc # "ok"
        <3>1. Broken(k.ac)
            BY <1>1, <2>3 DEF KauditdSane, Working
        <3> QED
            BY <1>1, <1>2, <1>4, <1>5, <1>7, <2>1, <2>3, <3>1
    <2> QED
        BY <1>5, <2>1, <2>2, <2>3
<1>9. ASSUME NEW g \in Flushers, ResetStep(g)  PROVE ResetSane(f)'
    <2>1. op' = op
        BY <1>9 DEF ResetStep, ResetClear, ResetFlush, ResetPut, daemonVars
    <2>2. CASE g # f
        <3>1. reset'[f] = reset[f]
            BY <1>1, <1>9, <2>2 DEF ResetStep, ResetClear, ResetFlush, ResetPut
        <3> QED
            BY <1>5, <2>1, <3>1
    <2>3. CASE g = f
        <3>1. reset'[f].pc # "clear"
            <4>1. PICK r : reset' = [reset EXCEPT ![f] = r] /\ r.pc # "clear"
                <5>1. CASE ResetClear(f)
                    <6>1. reset' = [reset EXCEPT ![f] = Quiet]
                          \/ reset' = [reset EXCEPT ![f] = [reset[f] EXCEPT !.pc = "flush"]]
                        BY <5>1 DEF ResetClear
                    <6>2. Quiet.pc # "clear" /\ [reset[f] EXCEPT !.pc = "flush"].pc # "clear"
                        BY <1>1 DEF Quiet, Resets
                    <6> QED
                        BY <6>1, <6>2
                <5>2. CASE ResetFlush(f)
                    BY <5>2 DEF ResetFlush, Quiet
                <5>3. CASE ResetPut(f)
                    <6>1. reset' = [reset EXCEPT ![f] = [Quiet EXCEPT !.pc = "flush"]]
                        BY <5>3 DEF ResetPut
                    <6>2. [Quiet EXCEPT !.pc = "flush"].pc # "clear"
                        BY DEF Quiet
                    <6> QED
                        BY <6>1, <6>2
                <5> QED
                    BY <1>9, <2>3, <5>1, <5>2, <5>3 DEF ResetStep
            <4> QED
                BY <1>1, <4>1
        <3> QED
            BY <1>6, <3>1
    <2> QED
        BY <2>2, <2>3
<1>10. CASE \E t \in Tasks : LogStart(t) \/ TaskStep(t)
    BY <1>5, <1>10 DEF LogStart, TaskStep, CheckBacklog, Sleep, Awake, TimeOut, BufferAlloc,
        BufferAllocFails, LogEnd, RateLimited, daemonVars
<1>11. ASSUME NEW d \in Daemons, DaemonStep(d) \/ Die(d) \/ \E o \in Ops : Request(d, o)
       PROVE  ResetSane(f)'
    <2>1. CASE TestConnection(d)
        <3>1. /\ op' = op
              /\ reset' = reset \/ (BeginReset(d, conn) /\ Broken(conn))
            BY <2>1 DEF TestConnection, Broken
        <3> QED
            BY <1>1, <1>4, <1>5, <1>7, <3>1
    <2>2. CASE Unregister(d)
        <3>1. op' = op /\ BeginReset(d, Nobody) /\ dpc[d] = "unregister"
            BY <2>2 DEF Unregister
        <3>2. op[d] = "unregister"
            BY <1>1, <3>1 DEF Control
        <3>3. CASE f = d
            BY <1>1, <1>7, <3>1, <3>2, <3>3 DEF ResetSane
        <3> QED
            BY <1>1, <1>5, <1>7, <3>1, <3>3
    <2>3. CASE \E o \in Ops : Request(d, o)
        <3>1. /\ reset' = reset /\ dpc[d] = "idle"
              /\ \E o : op' = [op EXCEPT ![d] = o]
            BY <2>3 DEF Request
        <3>2. reset[d].pc = "none"
            BY <1>1, <3>1 DEF Control
        <3>3. f \in Daemons /\ reset[f].pc = "clear" => op'[f] = op[f]
            BY <1>1, <3>1, <3>2
        <3> QED
            BY <1>5, <3>1, <3>3
    <2>4. CASE ~(TestConnection(d) \/ Unregister(d) \/ \E o \in Ops : Request(d, o))
        <3>1. reset' = reset /\ op' = op
            BY <1>11, <2>4 DEF DaemonStep, Die, Decide, Register, Registered, SetEnabled,
                Unlock, Penalty, PenaltyOver, PenaltyTimeOut
        <3> QED
            BY <1>5, <3>1
    <2> QED
        BY <2>1, <2>2, <2>3, <2>4
<1>12. CASE AuditRest \/ UNCHANGED auditVars
    BY <1>5, <1>12 DEF AuditRest, auditVars, daemonVars
<1> QED
    BY <1>8, <1>9, <1>10, <1>11, <1>12 DEF AuditNext

-----------------------------------------------------------------------------
(* Connections with an address are one daemon's.                           *)

InUse(c) == c \in {Nobody, conn, k.ac} \/ \E f \in Flushers : c = reset[f].ac

\* What the fields of other variables become when connections are only handed on.
LEMMA HandedOn ==
    ASSUME ConnInv, [AuditNext]_auditVars
    PROVE  /\ \/ \E d \in Daemons : Register(d)
              \/ conn' = conn
              \/ conn' = Nobody
           /\ InUse(k'.ac) /\ \A f \in Flushers : InUse(reset'[f].ac)
<1>1. /\ reset \in [Flushers -> Resets] /\ k \in Locals
      /\ Daemons \subseteq Flushers /\ Kauditd \in Flushers
    BY ConnFacts
<1>2. ASSUME k'.ac = k.ac  PROVE InUse(k'.ac)
    BY <1>2 DEF InUse
<1>3. ASSUME reset' = reset  PROVE \A f \in Flushers : InUse(reset'[f].ac)
    BY <1>3 DEF InUse
<1>4. ASSUME NEW g \in Flushers, NEW r, reset' = [reset EXCEPT ![g] = r], InUse(r.ac)
      PROVE  \A f \in Flushers : InUse(reset'[f].ac)
    BY <1>1, <1>4 DEF InUse
<1>5. ASSUME NEW g \in Flushers, NEW c, BeginReset(g, c), InUse(c)
      PROVE  \A f \in Flushers : InUse(reset'[f].ac)
    <2> DEFINE r == [Quiet EXCEPT !.pc = "clear", !.ac = c]
    <2>1. reset' = [reset EXCEPT ![g] = r] /\ r.ac = c
        BY <1>5 DEF BeginReset, Quiet
    <2> HIDE DEF r
    <2> QED
        BY <1>4, <1>5, <2>1
<1>6. InUse(Nobody) /\ InUse(conn) /\ InUse(k.ac) /\ \A f \in Flushers : InUse(reset[f].ac)
    BY DEF InUse
<1>7. CASE KauditdStep
    <2>1. conn' = conn
        BY <1>7 DEF KauditdStep, RoundBegins, SendQueue, Dequeue, Sent, Refused, WouldBlock,
            SendFails, HookPut, QueueDone, WakeBacklog, NextRound
    <2>2. InUse(k'.ac)
        <3>1. CASE RoundBegins
            BY <1>1, <1>6, <3>1 DEF RoundBegins, Locals
        <3>2. CASE WakeBacklog
            BY <1>1, <1>6, <3>2 DEF WakeBacklog, Locals
        <3>3. CASE Refused \/ WouldBlock
            BY <1>1, <1>2, <3>3 DEF Refused, WouldBlock, SendFails, Locals
        <3>4. CASE SendQueue \/ Dequeue \/ Sent \/ HookPut \/ QueueDone \/ NextRound
            BY <1>1, <1>2, <3>4 DEF SendQueue, Dequeue, Sent, HookPut, QueueDone, NextRound,
                Locals
        <3> QED
            BY <1>7, <3>1, <3>2, <3>3, <3>4 DEF KauditdStep
    <2>3. reset' = reset \/ BeginReset(Kauditd, k.ac)
        BY <1>7 DEF KauditdStep, RoundBegins, SendQueue, Dequeue, Sent, Refused, WouldBlock,
            SendFails, HookPut, QueueDone, WakeBacklog, NextRound
    <2> QED
        BY <1>1, <1>3, <1>5, <1>6, <2>1, <2>2, <2>3
<1>8. ASSUME NEW g \in Flushers, ResetStep(g)
      PROVE  /\ conn' \in {conn, Nobody} /\ InUse(k'.ac)
             /\ \A f \in Flushers : InUse(reset'[f].ac)
    <2>1. conn' \in {conn, Nobody} /\ k' = k
        BY <1>8 DEF ResetStep, ResetClear, ResetFlush, ResetPut
    <2>2. \/ reset' = [reset EXCEPT ![g] = Quiet]
          \/ reset' = [reset EXCEPT ![g] = [reset[g] EXCEPT !.pc = "flush"]]
          \/ \E r : reset' = [reset EXCEPT ![g] = r] /\ r.ac = Nobody
        BY <1>8 DEF ResetStep, ResetClear, ResetFlush, ResetPut, Quiet
    <2>3. Quiet.ac = Nobody /\ [reset[g] EXCEPT !.pc = "flush"].ac = reset[g].ac
        BY <1>1 DEF Quiet, Resets
    <2>4. \E r : reset' = [reset EXCEPT ![g] = r] /\ InUse(r.ac)
        BY <1>6, <2>2, <2>3
    <2> QED
        BY <1>2, <1>4, <2>1, <2>4
<1>9. CASE \E t \in Tasks : LogStart(t) \/ TaskStep(t)
    <2>1. conn' = conn /\ k' = k /\ reset' = reset
        BY <1>9 DEF LogStart, TaskStep, CheckBacklog, Sleep, Awake, TimeOut, BufferAlloc,
            BufferAllocFails, LogEnd, RateLimited
    <2> QED
        BY <1>2, <1>3, <2>1
<1>10. ASSUME NEW d \in Daemons, DaemonStep(d) \/ Die(d) \/ \E o \in Ops : Request(d, o)
       PROVE  /\ conn' = conn \/ Register(d)
              /\ InUse(k'.ac) /\ \A f \in Flushers : InUse(reset'[f].ac)
    <2>1. /\ conn' = conn \/ Register(d)
          /\ k' = k
          /\ reset' = reset \/ BeginReset(d, conn) \/ BeginReset(d, Nobody)
        BY <1>10 DEF DaemonStep, Die, Request, TestConnection, Decide, Register, Registered,
            Unregister, SetEnabled, Unlock, Penalty, PenaltyOver, PenaltyTimeOut, notRequest
    <2> QED
        BY <1>1, <1>2, <1>3, <1>5, <1>6, <2>1
<1>11. CASE AuditRest \/ UNCHANGED auditVars
    <2>1. conn' = conn /\ k' = k /\ reset' = reset
        BY <1>11 DEF AuditRest, auditVars
    <2> QED
        BY <1>2, <1>3, <2>1
<1> QED
    BY <1>7, <1>8, <1>9, <1>10, <1>11 DEF AuditNext

\* The requests under way, and their number.
Chooses == \E d \in Daemons : dpc[d] \in Choosing
LEMMA ChoosingKept ==
    ASSUME ConnInv, [AuditNext]_auditVars
    PROVE  \/ requests' = requests /\ (Chooses' => Chooses)
           \/ requests' = requests + 1 /\ conn' = conn
<1>1. dpc \in [Daemons -> DaemonPcs]
    BY ConnFacts
<1>2. ASSUME dpc' = dpc, requests' = requests
      PROVE  requests' = requests /\ (Chooses' => Chooses)
    BY <1>2 DEF Chooses
<1>3. CASE KauditdStep
    <2>1. dpc' = dpc /\ requests' = requests
        BY <1>3 DEF KauditdStep, RoundBegins, SendQueue, Dequeue, Sent, Refused, WouldBlock,
            SendFails, HookPut, QueueDone, WakeBacklog, NextRound, notKauditd, daemonVars
    <2> QED
        BY <1>2, <2>1
<1>4. CASE \E f \in Flushers : ResetStep(f)
    <2>1. dpc' = dpc /\ requests' = requests
        BY <1>4 DEF ResetStep, ResetClear, ResetFlush, ResetPut, daemonVars
    <2> QED
        BY <1>2, <2>1
<1>5. CASE \E t \in Tasks : LogStart(t) \/ TaskStep(t)
    <2>1. dpc' = dpc /\ requests' = requests
        BY <1>5 DEF LogStart, TaskStep, CheckBacklog, Sleep, Awake, TimeOut, BufferAlloc,
            BufferAllocFails, LogEnd, RateLimited, daemonVars
    <2> QED
        BY <1>2, <2>1
<1>6. ASSUME NEW d \in Daemons, DaemonStep(d) \/ Die(d) \/ \E o \in Ops : Request(d, o)
      PROVE  \/ requests' = requests /\ (Chooses' => Chooses)
             \/ requests' = requests + 1 /\ conn' = conn
    <2>1. CASE \E o \in Ops : Request(d, o)
        BY <2>1 DEF Request
    <2>2. CASE ~\E o \in Ops : Request(d, o)
        <3>1. /\ requests' = requests
              /\ dpc' = dpc \/ \E l : dpc' = [dpc EXCEPT ![d] = l]
                                      /\ (l \in Choosing => dpc[d] \in Choosing)
            <4>1. CASE Decide(d)
                BY <1>1, <4>1 DEF Decide, GotoD, Choosing
            <4>2. CASE ~Decide(d)
                BY <1>6, <2>2, <4>2 DEF DaemonStep, Die, TestConnection, Register,
                    Registered, Unregister, SetEnabled, Unlock, Penalty, PenaltyOver,
                    PenaltyTimeOut, GotoD, Choosing
            <4> QED
                BY <4>1, <4>2
        <3> QED
            BY <1>1, <3>1 DEF Chooses
    <2> QED
        BY <2>1, <2>2
<1>7. CASE AuditRest \/ UNCHANGED auditVars
    <2>1. dpc' = dpc /\ requests' = requests
        BY <1>7 DEF AuditRest, auditVars, daemonVars
    <2> QED
        BY <1>2, <2>1
<1> QED
    BY <1>3, <1>4, <1>5, <1>6, <1>7 DEF AuditNext

LEMMA HeldIsFresh ==
    ASSUME ConnInv, NEW c, InUse(c)
    PROVE  Fresh(c) /\ c \in Conns
<1>1. Fresh(c)
    BY DEF ConnInv, ConnsApart, InUse, Fresh
<1>2. c \in Conns
    BY ConnFacts DEF InUse, Locals, Resets, Conns
<1> QED
    BY <1>1, <1>2

\* A connection handed on keeps its address apart.
LEMMA HeldStaysFresh ==
    ASSUME ConnInv, ~Reuse, [AuditNext]_auditVars, NEW c, InUse(c)
    PROVE  Fresh(c)'
<1>1. Fresh(c) /\ requests \in Nat /\ (c # Nobody => c.addr \in Nat)
    BY HeldIsFresh, ConnFacts, AuditAssumption DEF Conns
<1>2. CASE \E d \in Daemons : Register(d)
    <2>1. PICK d \in Daemons : Register(d)
        BY <1>2
    <2>2. /\ dpc[d] = "register" /\ requests' = requests
          /\ conn' = [who |-> d, gen |-> requests, addr |-> requests]
          /\ dpc' = [dpc EXCEPT ![d] = "registered"]
        BY <2>1 DEF Register, GotoD
    <2>3. c # Nobody => c.addr < requests
        BY <1>1, <2>2 DEF Fresh, Choosing
    <2>4. c # Nobody => conn'.addr # c.addr
        BY <1>1, <2>2, <2>3
    <2> QED
        BY <1>1, <2>2, <2>3, <2>4 DEF Fresh
<1>3. CASE conn' = conn \/ conn' = Nobody
    <2>1. \/ requests' = requests /\ (Chooses' => Chooses)
          \/ requests' = requests + 1 /\ conn' = conn
        BY ChoosingKept
    <2>2. CASE requests' = requests /\ (Chooses' => Chooses)
        BY <1>1, <1>3, <2>2 DEF Fresh, Chooses
    <2>3. CASE requests' = requests + 1 /\ conn' = conn
        BY <1>1, <2>3 DEF Fresh
    <2> QED
        BY <2>1, <2>2, <2>3
<1> QED
    BY <1>2, <1>3, HandedOn

LEMMA ConnsApartKept ==
    ASSUME ConnInv, ~Reuse, [AuditNext]_auditVars
    PROVE  ConnsApart'
<1>1. InUse(k'.ac) /\ \A f \in Flushers : InUse(reset'[f].ac)
    BY HandedOn
<1>2. \A c : InUse(c) => Fresh(c)'
    BY HeldStaysFresh
<1>3. Fresh(k.ac)'
    <2>1. PICK c : c = k'.ac
        OBVIOUS
    <2> QED
        BY <1>1, <1>2, <2>1 DEF Fresh
<1>4. ASSUME NEW f \in Flushers  PROVE Fresh(reset[f].ac)'
    <2>1. PICK c : c = reset'[f].ac
        OBVIOUS
    <2> QED
        BY <1>1, <1>2, <2>1 DEF Fresh
<1>5. Fresh(conn)'
    <2>1. CASE conn' = conn \/ conn' = Nobody
        <3>1. PICK c : c = conn' /\ InUse(c)
            BY <2>1 DEF InUse
        <3> QED
            BY <1>2, <3>1 DEF Fresh
    <2>2. CASE \E d \in Daemons : Register(d)
        <3>1. PICK d \in Daemons : Register(d)
            BY <2>2
        <3>2. /\ dpc[d] = "register" /\ requests' = requests
              /\ conn' = [who |-> d, gen |-> requests, addr |-> requests]
              /\ dpc' = [dpc EXCEPT ![d] = "registered"]
            BY <3>1 DEF Register, GotoD
        <3>3. /\ requests \in Nat /\ Control /\ dpc \in [Daemons -> DaemonPcs]
              /\ conn' # Nobody => conn'.addr = requests
            BY <3>2, ConnFacts
        <3>4. \A e \in Daemons \ {d} : dpc[e] \notin Choosing
            BY <3>2, <3>3 DEF Control, Choosing, InRequest
        <3>5. ~Chooses'
            BY <3>2, <3>3, <3>4 DEF Chooses, Choosing
        <3> QED
            BY <3>2, <3>3, <3>5 DEF Fresh, Chooses
    <2> QED
        BY <2>1, <2>2, HandedOn
<1> QED
    BY <1>3, <1>4, <1>5 DEF ConnsApart

LEMMA ConnInvInit == AuditInit => ConnInv
<1> SUFFICES ASSUME AuditInit  PROVE ConnInv
    OBVIOUS
<1>1. DeadIsDead
    BY DEF AuditInit, DeadIsDead, Quiet, Working
<1>2. ConnsApart
    BY DEF AuditInit, ConnsApart, Fresh, Quiet
<1> QED
    BY <1>1, <1>2, AuditInvInit DEF ConnInv

LEMMA ConnInvNext ==
    ASSUME ConnInv, ~Reuse, [AuditNext]_auditVars
    PROVE  ConnInv'
<1>1. AuditInv'
    BY AuditInvNext DEF ConnInv
<1>2. DeadIsDead'
    BY KauditdSaneKept, ResetSaneKept DEF DeadIsDead, KauditdSane, ResetSane
<1>3. ConnsApart'
    BY ConnsApartKept
<1> QED
    BY <1>1, <1>2, <1>3 DEF ConnInv

\* A connection is broken only when its daemon is dead or a request unregisters it: what
\* auditd_reset compares is an address, and as long as an address is not given out again, a
\* failure of an earlier connection finds another address there and leaves it.
LEMMA StepKeepsHealthy ==
    ASSUME ConnInv, AuditNext, conn # Nobody, conn' # conn
    PROVE  \/ ~alive[conn.who]
           \/ \E d \in Daemons : reset[d].pc = "clear" /\ op[d] = "unregister"
<1>1. Control /\ ConnsApart /\ \A f \in Flushers : ResetSane(f)
    BY DEF ConnInv, AuditInv, DeadIsDead, ResetSane
<1>2. ASSUME NEW d \in Daemons, Register(d)  PROVE FALSE
    BY <1>1, <1>2 DEF Register, Control
<1>3. PICK f \in Flushers : ResetClear(f)
    <2>1. CASE KauditdStep
        BY <2>1 DEF KauditdStep, RoundBegins, SendQueue, Dequeue, Sent, Refused, WouldBlock,
            SendFails, HookPut, QueueDone, WakeBacklog, NextRound
    <2>2. CASE \E f \in Flushers : ResetStep(f)
        BY <2>2 DEF ResetStep, ResetFlush, ResetPut
    <2>3. CASE \E t \in Tasks : LogStart(t) \/ TaskStep(t)
        BY <2>3 DEF LogStart, TaskStep, CheckBacklog, Sleep, Awake, TimeOut, BufferAlloc,
            BufferAllocFails, LogEnd, RateLimited
    <2>4. CASE \E d \in Daemons : DaemonStep(d) \/ Die(d) \/ \E o \in Ops : Request(d, o)
        BY <1>2, <2>4 DEF DaemonStep, Die, Request, TestConnection, Decide, Registered,
            Unregister, SetEnabled, Unlock, Penalty, PenaltyOver, PenaltyTimeOut
    <2>5. CASE AuditRest
        BY <2>5 DEF AuditRest, auditVars
    <2> QED
        BY <2>1, <2>2, <2>3, <2>4, <2>5 DEF AuditNext
<1>4. /\ reset[f].pc = "clear"
      /\ reset[f].ac = Nobody \/ conn.addr = reset[f].ac.addr
    BY <1>3 DEF ResetClear
<1>5. CASE reset[f].ac = Nobody
    BY <1>1, <1>4, <1>5 DEF ResetSane, Broken
<1>6. CASE reset[f].ac # Nobody
    <2>1. ~alive[reset[f].ac.who]
        BY <1>1, <1>4, <1>6 DEF ResetSane, Broken
    <2>2. conn.who = reset[f].ac.who
        BY <1>1, <1>4, <1>6 DEF ConnsApart, Fresh
    <2> QED
        BY <2>1, <2>2
<1> QED
    BY <1>5, <1>6

\* A connection ends when its daemon is dead or a request unregisters it: while the allocator
\* does not hand out again the address of a connection that kauditd or a reset still holds
\* (Reuse), the failure of an earlier connection never breaks a later one.
THEOREM HealthyConnectionsStay == ~Reuse => (AuditSpec => HealthyStays)
<1> SUFFICES ASSUME ~Reuse  PROVE AuditSpec => HealthyStays
    OBVIOUS
<1>1. AuditInit => ConnInv
    BY ConnInvInit
<1>2. ConnInv /\ [AuditNext]_auditVars => ConnInv'
    BY ConnInvNext
<1>3. ConnInv /\ [AuditNext]_auditVars =>
        [conn # Nobody /\ conn' # conn =>
            \/ ~alive[conn.who]
            \/ \E d \in Daemons : reset[d].pc = "clear" /\ op[d] = "unregister"]_auditVars
    BY StepKeepsHealthy
<1> QED
    BY <1>1, <1>2, <1>3, PTL DEF AuditSpec, HealthyStays
=============================================================================
