--------------------------- MODULE AuditQueue ---------------------------
(***************************************************************************)
(* The kernel's audit queues, as in the repository's copy of               *)
(* kernel/audit.c (td_result/log_test): tasks that log records and are     *)
(* held back by the backlog limit, the kauditd thread that moves records   *)
(* between the main, retry and hold queues and sends them to auditd, and   *)
(* the control requests by which audit daemons come and go.                *)
(*                                                                         *)
(* A record is its serial number.  Every operation on a queue is one step, *)
(* as each takes the queue's lock; the test for room and the append are    *)
(* two steps.  A connection is the struct auditd_connection: compared by   *)
(* address, told apart here by gen.                                        *)
(***************************************************************************)
EXTENDS Naturals, FiniteSets, SequencesExt

CONSTANTS Tasks, Daemons, Nobody,
          Limit,        \* audit_backlog_limit; 0 is unlimited
          Retries,      \* UNICAST_RETRIES
          WaitTime,     \* audit_backlog_wait_time, in sleeps
          Default,      \* audit_default
          MaxRecords,   \* bound: records after which tasks log no more
          MaxRequests,  \* bound: control requests
          Ops,          \* the control requests made
          Lossy,        \* may an allocation or the rate limit fail a record?
          Congested,    \* may a send to a live daemon fail with -EAGAIN?
          Reuse         \* may kzalloc return the connection just freed?

ASSUME AuditAssumption ==
    /\ Nobody \notin Tasks \cup Daemons /\ Tasks \cap Daemons = {}
    /\ IsFiniteSet(Tasks) /\ "kauditd" \notin Daemons
    /\ Limit \in Nat /\ Retries \in Nat \ {0} /\ WaitTime \in Nat
    /\ MaxRecords \in Nat /\ MaxRequests \in Nat
    /\ Ops \subseteq {"register", "unregister", "on", "off", "lock"}
    /\ {Default, Lossy, Congested, Reuse} \subseteq BOOLEAN

VARIABLES
    queue, retry, hold,  \* audit_queue, audit_retry_queue, audit_hold_queue
    conn,                \* auditd_conn
    enabled,             \* audit_enabled
    k,                   \* kauditd's locals
    reset,               \* who runs auditd_reset, and where in it
    tpc, stime, serial,  \* a task: place, time left to sleep, its record
    dpc, op,             \* a daemon: place and request
    ctl,                 \* audit_cmd_mutex
    waitq,               \* audit_backlog_wait, in order
    alive,               \* daemons whose socket is open
    issued, requests,    \* serial numbers and requests so far
    mcast, got, gone     \* records multicast, delivered, counted as lost

queues == <<queue, retry, hold>>
taskVars == <<tpc, stime, serial>>
daemonVars == <<dpc, op, alive>>
fates == <<mcast, got, gone>>
auditVars == <<queues, conn, enabled, k, reset, taskVars, daemonVars, ctl, waitq,
               issued, requests, fates>>

Kauditd == "kauditd"
Flushers == Daemons \cup {Kauditd}
Records == 1..(MaxRecords + MaxRequests)

Quiet == [pc |-> "none", ac |-> Nobody, skb |-> 0, dest |-> "gone"]

AuditInit ==
    /\ queue = <<>> /\ retry = <<>> /\ hold = <<>>
    /\ conn = Nobody
    /\ enabled = IF Default THEN "on" ELSE "off"
    /\ k = [pc |-> "start", ac |-> Nobody, sk |-> FALSE, lsk |-> FALSE,
            phase |-> "main", hook |-> "hold", tail |-> 0,
            skb |-> 0, failed |-> 0, rc |-> "ok", dest |-> "gone"]
    /\ reset = [f \in Flushers |-> Quiet]
    /\ tpc = [t \in Tasks |-> "idle"]
    /\ stime = [t \in Tasks |-> 0]
    /\ serial = [t \in Tasks |-> 0]
    /\ dpc = [d \in Daemons |-> "idle"]
    /\ op = [d \in Daemons |-> "register"]
    /\ ctl = Nobody
    /\ waitq = <<>>
    /\ alive = [d \in Daemons |-> TRUE]
    /\ issued = 0 /\ requests = 0
    /\ mcast = {} /\ got = {} /\ gone = {}

Room(q) == Limit = 0 \/ Len(q) < Limit
Backlogged == Limit > 0 /\ Len(queue) > Limit

---------------------------------------------------------------------------
\* audit_log_start and audit_log_end.

LogStart(t) ==
    /\ tpc[t] = "idle" /\ enabled # "off" /\ issued < MaxRecords
    /\ tpc' = [tpc EXCEPT ![t] = "check"]
    /\ stime' = [stime EXCEPT ![t] = WaitTime]
    /\ UNCHANGED <<queues, conn, enabled, k, reset, serial, daemonVars, ctl, waitq,
                   issued, requests, fates>>

\* The backlog limit; the record lost here never gets a serial number.
CheckBacklog(t) ==
    /\ tpc[t] = "check" /\ Backlogged
    /\ tpc' = [tpc EXCEPT ![t] = IF stime[t] > 0 THEN "nap" ELSE "idle"]
    /\ UNCHANGED <<queues, conn, enabled, k, reset, stime, serial, daemonVars, ctl,
                   waitq, issued, requests, fates>>

\* add_wait_queue_exclusive: the limit is not looked at again before sleeping.
Sleep(t) ==
    /\ tpc[t] = "nap"
    /\ waitq' = Append(waitq, t)
    /\ tpc' = [tpc EXCEPT ![t] = "asleep"]
    /\ UNCHANGED <<queues, conn, enabled, k, reset, stime, serial, daemonVars, ctl,
                   issued, requests, fates>>

\* schedule_timeout returns: woken with some of the time left, or timed out.
Awake(t) ==
    /\ tpc[t] = "asleep" /\ t \notin ToSet(waitq)
    /\ tpc' = [tpc EXCEPT ![t] = "check"]
    /\ \E left \in 0..stime[t] : stime' = [stime EXCEPT ![t] = left]
    /\ UNCHANGED <<queues, conn, enabled, k, reset, serial, daemonVars, ctl, waitq,
                   issued, requests, fates>>

\* finish_wait: a sleeper that was not woken takes its entry out of the queue.
LeaveWaitq(x) == \E i \in DOMAIN waitq : waitq[i] = x /\ waitq' = RemoveAt(waitq, i)

\* Mutant: the sleeper waits for a wake-up, however long it takes.
X_TimeOut(t) ==
    /\ tpc[t] = "asleep" /\ t \in ToSet(waitq)
    /\ UNCHANGED auditVars

TimeOut(t) ==
    /\ tpc[t] = "asleep" /\ t \in ToSet(waitq)
    /\ LeaveWaitq(t)
    /\ tpc' = [tpc EXCEPT ![t] = "check"]
    /\ stime' = [stime EXCEPT ![t] = 0]
    /\ UNCHANGED <<queues, conn, enabled, k, reset, serial, daemonVars, ctl,
                   issued, requests, fates>>

\* Mutant: the limit is not tested.
X_BufferAlloc(t) ==
    /\ tpc[t] = "check" /\ issued < MaxRecords
    /\ issued' = issued + 1
    /\ serial' = [serial EXCEPT ![t] = issued + 1]
    /\ tpc' = [tpc EXCEPT ![t] = "format"]
    /\ UNCHANGED <<queues, conn, enabled, k, reset, stime, daemonVars, ctl, waitq,
                   requests, fates>>

\* audit_buffer_alloc and the stamp.
BufferAlloc(t) ==
    /\ tpc[t] = "check" /\ ~Backlogged /\ issued < MaxRecords
    /\ issued' = issued + 1
    /\ serial' = [serial EXCEPT ![t] = issued + 1]
    /\ tpc' = [tpc EXCEPT ![t] = "format"]
    /\ UNCHANGED <<queues, conn, enabled, k, reset, stime, daemonVars, ctl, waitq,
                   requests, fates>>

BufferAllocFails(t) ==
    /\ tpc[t] = "check" /\ ~Backlogged /\ (Lossy \/ issued >= MaxRecords)
    /\ tpc' = [tpc EXCEPT ![t] = "idle"]
    /\ UNCHANGED <<queues, conn, enabled, k, reset, stime, serial, daemonVars, ctl,
                   waitq, issued, requests, fates>>

LogEnd(t) ==
    /\ tpc[t] = "format"
    /\ queue' = Append(queue, serial[t])
    /\ tpc' = [tpc EXCEPT ![t] = "idle"]
    /\ serial' = [serial EXCEPT ![t] = 0]
    /\ UNCHANGED <<retry, hold, conn, enabled, k, reset, stime, daemonVars, ctl,
                   waitq, issued, requests, fates>>

\* audit_rate_check says no.
RateLimited(t) ==
    /\ Lossy
    /\ tpc[t] = "format"
    /\ gone' = gone \cup {serial[t]}
    /\ tpc' = [tpc EXCEPT ![t] = "idle"]
    /\ serial' = [serial EXCEPT ![t] = 0]
    /\ UNCHANGED <<queues, conn, enabled, k, reset, stime, daemonVars, ctl, waitq,
                   issued, requests, mcast, got>>

---------------------------------------------------------------------------
\* auditd_reset(ac), run by kauditd or by a control request.

\* kauditd_hold_skb: where a record goes that could not be sent.
HoldDest(err) ==
    IF ~Default THEN "silent"
    ELSE IF err = "EAGAIN" THEN (IF Room(retry) THEN "retry" ELSE "gone")
    ELSE IF Room(hold) THEN "hold" ELSE "gone"

\* Mutant: an off-by-one in the retry queue's limit.
X_RetryDest == IF Limit = 0 \/ Len(retry) <= Limit THEN "retry" ELSE "gone"

\* kauditd_retry_skb.
RetryDest == IF Room(retry) THEN "retry" ELSE "gone"

\* Append skb where dest says, free it otherwise.
Put(skb, dest) ==
    /\ hold' = IF dest = "hold" THEN Append(hold, skb) ELSE hold
    /\ retry' = IF dest = "retry" THEN Append(retry, skb) ELSE retry
    /\ gone' = IF dest \in {"gone", "silent"} THEN gone \cup {skb} ELSE gone

\* Mutant: whatever connection there is, it is broken.
X_ResetClear(f) ==
    /\ reset[f].pc = "clear"
    /\ conn' = Nobody
    /\ reset' = [reset EXCEPT ![f].pc = "flush"]
    /\ UNCHANGED <<queues, enabled, k, taskVars, daemonVars, ctl, waitq, issued,
                   requests, fates>>

\* A NULL ac always breaks the connection; another only the one it names.
ResetClear(f) ==
    LET ac == reset[f].ac IN
    /\ reset[f].pc = "clear"
    /\ IF ac # Nobody /\ (conn = Nobody \/ conn.addr # ac.addr)
       THEN conn' = conn /\ reset' = [reset EXCEPT ![f] = Quiet]
       ELSE conn' = Nobody /\ reset' = [reset EXCEPT ![f].pc = "flush"]
    /\ UNCHANGED <<queues, enabled, k, taskVars, daemonVars, ctl, waitq, issued,
                   requests, fates>>

\* The retry queue is moved to the hold queue, record by record.
ResetFlush(f) ==
    /\ reset[f].pc = "flush"
    /\ IF retry = <<>>
       THEN reset' = [reset EXCEPT ![f] = Quiet] /\ UNCHANGED retry
       ELSE /\ retry' = Tail(retry)
            /\ reset' = [reset EXCEPT ![f] = [pc |-> "put", ac |-> Nobody,
                             skb |-> Head(retry), dest |-> HoldDest("ECONNREFUSED")]]
    /\ UNCHANGED <<queue, hold, conn, enabled, k, taskVars, daemonVars, ctl, waitq,
                   issued, requests, fates>>

\* Mutant: the record is freed as if it had been sent.
X_ResetPut(f) ==
    /\ reset[f].pc = "put"
    /\ reset' = [reset EXCEPT ![f] = [Quiet EXCEPT !.pc = "flush"]]
    /\ UNCHANGED <<queues, gone, conn, enabled, k, taskVars, daemonVars, ctl, waitq,
                   issued, requests, mcast, got>>

ResetPut(f) ==
    /\ reset[f].pc = "put"
    /\ Put(reset[f].skb, reset[f].dest)
    /\ reset' = [reset EXCEPT ![f] = [Quiet EXCEPT !.pc = "flush"]]
    /\ UNCHANGED <<queue, conn, enabled, k, taskVars, daemonVars, ctl, waitq,
                   issued, requests, mcast, got>>

BeginReset(f, ac) == reset' = [reset EXCEPT ![f] = [Quiet EXCEPT !.pc = "clear", !.ac = ac]]

---------------------------------------------------------------------------
\* kauditd_thread and kauditd_send_queue.

notKauditd == <<taskVars, daemonVars, ctl, issued, requests, enabled>>

Queue(phase) ==
    CASE phase = "hold" -> hold [] phase = "retry" -> retry [] phase = "main" -> queue

\* Mutant: the hold queue is left for the next connection.
X_RoundBegins ==
    /\ k.pc = "start"
    /\ k' = [k EXCEPT !.pc = "peek", !.ac = conn, !.sk = conn # Nobody,
                      !.phase = IF conn = Nobody THEN "main" ELSE "retry"]
    /\ UNCHANGED <<queues, conn, reset, waitq, notKauditd, fates>>

\* The connection is looked at once in a round.
RoundBegins ==
    /\ k.pc = "start"
    /\ k' = [k EXCEPT !.pc = "peek", !.ac = conn, !.sk = conn # Nobody,
                      !.phase = IF conn = Nobody THEN "main" ELSE "hold"]
    /\ UNCHANGED <<queues, conn, reset, waitq, notKauditd, fates>>

\* skb_peek_tail: records queued from now on wait for the next round.
SendQueue ==
    LET q == Queue(k.phase) IN
    /\ k.pc = "peek"
    /\ k' = [k EXCEPT !.pc = "loop", !.skb = 0, !.failed = 0, !.rc = "ok", !.lsk = k.sk,
                      !.tail = IF q = <<>> THEN 0 ELSE Last(q),
                      !.hook = CASE k.phase = "hold" -> "rehold"
                                 [] k.phase = "retry" -> "hold"
                                 [] k.phase = "main" -> IF k.sk THEN "retry" ELSE "hold"]
    /\ UNCHANGED <<queues, conn, reset, waitq, notKauditd, fates>>

HookDest(err) ==
    CASE k.hook = "rehold" -> "hold"
      [] k.hook = "hold" -> HoldDest(err)
      [] k.hook = "retry" -> RetryDest

\* Mutant: the multicast is left to the unicast path.
X_Dequeue ==
    LET q == Queue(k.phase) IN
    /\ k.pc = "loop" /\ k.skb # k.tail /\ q # <<>>
    /\ k' = [k EXCEPT !.pc = IF k.lsk THEN "send" ELSE "put", !.skb = Head(q),
                      !.dest = IF k.lsk THEN @ ELSE HookDest("ECONNREFUSED")]
    /\ hold' = IF k.phase = "hold" THEN Tail(hold) ELSE hold
    /\ retry' = IF k.phase = "retry" THEN Tail(retry) ELSE retry
    /\ queue' = IF k.phase = "main" THEN Tail(queue) ELSE queue
    /\ mcast' = IF k.phase = "main" /\ k.lsk THEN mcast \cup {Head(q)} ELSE mcast
    /\ UNCHANGED <<conn, reset, waitq, notKauditd, got, gone>>

\* Each record of the main queue is multicast as it leaves it; without a
\* socket the rest of the queue goes through the error hook.
Dequeue ==
    LET q == Queue(k.phase) IN
    /\ k.pc = "loop" /\ k.skb # k.tail /\ q # <<>>
    /\ k' = [k EXCEPT !.pc = IF k.lsk THEN "send" ELSE "put", !.skb = Head(q),
                      !.dest = IF k.lsk THEN @ ELSE HookDest("ECONNREFUSED")]
    /\ hold' = IF k.phase = "hold" THEN Tail(hold) ELSE hold
    /\ retry' = IF k.phase = "retry" THEN Tail(retry) ELSE retry
    /\ queue' = IF k.phase = "main" THEN Tail(queue) ELSE queue
    /\ mcast' = IF k.phase = "main" THEN mcast \cup {Head(q)} ELSE mcast
    /\ UNCHANGED <<conn, reset, waitq, notKauditd, got, gone>>

Sent ==
    /\ k.pc = "send" /\ alive[k.ac.who]
    /\ got' = got \cup {k.skb}
    /\ k' = [k EXCEPT !.pc = "loop", !.rc = "ok", !.failed = 0]
    /\ UNCHANGED <<queues, conn, reset, waitq, notKauditd, mcast, gone>>

\* Mutant: the attempts are counted from one too many.
X_SendFails(err) ==
    /\ k.pc = "send"
    /\ IF k.failed >= (IF k.phase = "main" THEN 1 ELSE Retries) \/ err = "ECONNREFUSED"
       THEN k' = [k EXCEPT !.pc = "put", !.lsk = FALSE, !.dest = HookDest(err),
                           !.failed = 0, !.rc = IF err = "EAGAIN" THEN "ok" ELSE err]
       ELSE k' = [k EXCEPT !.failed = @ + 1]
    /\ UNCHANGED <<queues, conn, reset, waitq, notKauditd, fates>>

\* netlink_unicast fails: tried again, unless the daemon is gone or the
\* limit of attempts is reached; then the queue is drained without a socket.
SendFails(err) ==
    /\ k.pc = "send"
    /\ IF k.failed + 1 >= (IF k.phase = "main" THEN 1 ELSE Retries) \/ err = "ECONNREFUSED"
       THEN k' = [k EXCEPT !.pc = "put", !.lsk = FALSE, !.dest = HookDest(err),
                           !.failed = 0, !.rc = IF err = "EAGAIN" THEN "ok" ELSE err]
       ELSE k' = [k EXCEPT !.failed = @ + 1]
    /\ UNCHANGED <<queues, conn, reset, waitq, notKauditd, fates>>

Refused == k.pc = "send" /\ ~alive[k.ac.who] /\ SendFails("ECONNREFUSED")
WouldBlock == Congested /\ k.pc = "send" /\ alive[k.ac.who] /\ SendFails("EAGAIN")

\* The error hook's append.
HookPut ==
    /\ k.pc = "put"
    /\ Put(k.skb, k.dest)
    /\ k' = [k EXCEPT !.pc = "loop"]
    /\ UNCHANGED <<queue, conn, reset, waitq, notKauditd, mcast, got>>

\* A fatal error breaks the connection and skips to the main queue.
QueueDone ==
    LET fatal == k.rc # "ok" IN
    /\ k.pc = "loop" /\ (k.skb = k.tail \/ Queue(k.phase) = <<>>)
    /\ IF fatal THEN BeginReset(Kauditd, k.ac) ELSE UNCHANGED reset
    /\ k' = [k EXCEPT
               !.pc = IF k.phase = "main" THEN "wake" ELSE "peek",
               !.phase = IF k.phase = "hold" /\ ~fatal THEN "retry" ELSE "main",
               !.sk = IF fatal THEN FALSE ELSE k.sk]
    /\ UNCHANGED <<queues, conn, waitq, notKauditd, fates>>

\* wake_up(&audit_backlog_wait): its sleepers are exclusive, one is woken.
WakeBacklog ==
    /\ k.pc = "wake"
    /\ waitq' = IF waitq = <<>> THEN waitq ELSE Tail(waitq)
    /\ k' = [k EXCEPT !.pc = "wait", !.ac = Nobody, !.sk = FALSE,
                      !.lsk = FALSE, !.skb = 0, !.tail = 0]
    /\ UNCHANGED <<queues, conn, reset, notKauditd, fates>>

\* wait_event_freezable: whoever wakes it, it goes on only with a record.
NextRound ==
    /\ k.pc = "wait" /\ queue # <<>>
    /\ k' = [k EXCEPT !.pc = "start"]
    /\ UNCHANGED <<queues, conn, reset, waitq, notKauditd, fates>>

KauditdStep ==
    /\ reset[Kauditd].pc = "none"
    /\ \/ RoundBegins \/ SendQueue \/ Dequeue \/ Sent \/ Refused \/ WouldBlock
       \/ HookPut \/ QueueDone \/ WakeBacklog \/ NextRound

---------------------------------------------------------------------------
\* audit_receive: AUDIT_SET from an audit daemon or auditctl, under the
\* control mutex.

notRequest == <<retry, hold, k, taskVars, waitq, fates>>
GotoD(d, label) == dpc' = [dpc EXCEPT ![d] = label]

Request(d, o) ==
    /\ dpc[d] = "idle" /\ ctl = Nobody /\ requests < MaxRequests
    /\ alive[d] /\ o \in Ops
    /\ ctl' = d /\ requests' = requests + 1
    /\ op' = [op EXCEPT ![d] = o]
    /\ GotoD(d, IF o \in {"register", "unregister"} THEN "replace" ELSE "config")
    /\ UNCHANGED <<queue, conn, enabled, reset, alive, issued, notRequest>>

\* audit_replace: "test the auditd connection", and break it if it is dead.
TestConnection(d) ==
    /\ dpc[d] = "replace"
    /\ IF conn # Nobody /\ ~alive[conn.who]
       THEN BeginReset(d, conn) ELSE UNCHANGED reset
    /\ GotoD(d, "decide")
    /\ UNCHANGED <<queue, conn, enabled, op, alive, ctl, issued, requests, notRequest>>

\* audit_log_config_change: the owner of the mutex never waits for room.
ConfigRecord == issued' = issued + 1 /\ queue' = Append(queue, issued + 1)
RecordIf(cond) == IF cond THEN ConfigRecord ELSE UNCHANGED <<queue, issued>>

\* Replacing a healthy auditd and unregistering another's are refused.
Decide(d) ==
    /\ dpc[d] = "decide" /\ reset[d].pc = "none"
    /\ IF conn # Nobody /\ (op[d] = "register" \/ conn.who # d)
       THEN ConfigRecord /\ GotoD(d, "unlock")
       ELSE UNCHANGED <<queue, issued>> /\ GotoD(d, op[d])
    /\ UNCHANGED <<conn, enabled, reset, op, alive, ctl, requests, notRequest>>

\* auditd_set.
Register(d) ==
    /\ dpc[d] = "register"
    /\ conn' = [who |-> d, gen |-> requests, addr |-> IF Reuse THEN 0 ELSE requests]
    /\ GotoD(d, "registered")
    /\ UNCHANGED <<queue, enabled, reset, op, alive, ctl, issued, requests, notRequest>>

\* The record of the change, and the wake-up that changes nothing for
\* kauditd unless there is a record in the main queue.
Registered(d) ==
    /\ dpc[d] = "registered"
    /\ RecordIf(enabled # "off")
    /\ GotoD(d, "unlock")
    /\ UNCHANGED <<conn, enabled, reset, op, alive, ctl, requests, notRequest>>

Unregister(d) ==
    /\ dpc[d] = "unregister"
    /\ RecordIf(enabled # "off")
    /\ BeginReset(d, Nobody)
    /\ GotoD(d, "unlock")
    /\ UNCHANGED <<conn, enabled, op, alive, ctl, requests, notRequest>>

\* audit_set_enabled through audit_do_config_change.
SetEnabled(d) ==
    /\ dpc[d] = "config"
    /\ RecordIf(enabled # "off")
    /\ enabled' = IF enabled = "locked" THEN "locked"
                  ELSE IF op[d] = "lock" THEN "locked" ELSE op[d]
    /\ GotoD(d, "unlock")
    /\ UNCHANGED <<conn, reset, op, alive, ctl, requests, notRequest>>

\* "can't block with the ctrl lock, so penalize the sender now".
Unlock(d) ==
    /\ dpc[d] = "unlock" /\ reset[d].pc = "none"
    /\ ctl' = Nobody
    /\ GotoD(d, "penalty")
    /\ UNCHANGED <<queue, conn, enabled, reset, op, alive, issued, requests, notRequest>>

Penalty(d) ==
    /\ dpc[d] = "penalty"
    /\ IF Backlogged
       THEN waitq' = Append(waitq, d) /\ GotoD(d, "asleep")
       ELSE UNCHANGED waitq /\ GotoD(d, "idle")
    /\ UNCHANGED <<queues, conn, enabled, k, reset, taskVars, op, alive, ctl,
                   issued, requests, fates>>

PenaltyOver(d) ==
    /\ dpc[d] = "asleep" /\ d \notin ToSet(waitq)
    /\ GotoD(d, "idle")
    /\ UNCHANGED <<queues, conn, enabled, k, reset, taskVars, op, alive, ctl,
                   waitq, issued, requests, fates>>

PenaltyTimeOut(d) ==
    /\ dpc[d] = "asleep" /\ d \in ToSet(waitq)
    /\ LeaveWaitq(d)
    /\ GotoD(d, "idle")
    /\ UNCHANGED <<queues, conn, enabled, k, reset, taskVars, op, alive, ctl,
                   issued, requests, fates>>

\* An audit daemon dies; the kernel learns of it when it sends.
Die(d) ==
    /\ alive[d] /\ dpc[d] = "idle"
    /\ alive' = [alive EXCEPT ![d] = FALSE]
    /\ UNCHANGED <<queues, conn, enabled, k, reset, taskVars, dpc, op, ctl,
                   waitq, issued, requests, fates>>

---------------------------------------------------------------------------
TaskStep(t) ==
    \/ CheckBacklog(t) \/ Sleep(t) \/ Awake(t) \/ TimeOut(t) \/ BufferAlloc(t)
    \/ BufferAllocFails(t) \/ LogEnd(t) \/ RateLimited(t)

DaemonStep(d) ==
    \/ TestConnection(d) \/ Decide(d) \/ Register(d) \/ Registered(d)
    \/ Unregister(d) \/ SetEnabled(d) \/ Unlock(d) \/ Penalty(d)
    \/ PenaltyOver(d) \/ PenaltyTimeOut(d)

ResetStep(f) == ResetClear(f) \/ ResetFlush(f) \/ ResetPut(f)

\* Nothing to do: kauditd waits for a record and nobody makes a call.
AuditRest ==
    /\ k.pc = "wait" /\ queue = <<>>
    /\ \A t \in Tasks : tpc[t] = "idle"
    /\ \A d \in Daemons : dpc[d] = "idle"
    /\ UNCHANGED auditVars

AuditNext ==
    \/ KauditdStep
    \/ \E f \in Flushers : ResetStep(f)
    \/ \E t \in Tasks : LogStart(t) \/ TaskStep(t)
    \/ \E d \in Daemons : DaemonStep(d) \/ Die(d) \/ \E o \in Ops : Request(d, o)
    \/ AuditRest

AuditSpec == AuditInit /\ [][AuditNext]_auditVars

\* Threads run and timeouts expire; nobody has to log, to make a request or
\* to die.
AuditFairSpec ==
    /\ AuditSpec /\ WF_auditVars(KauditdStep)
    /\ \A f \in Flushers : WF_auditVars(ResetStep(f))
    /\ \A t \in Tasks : WF_auditVars(TaskStep(t))
    /\ \A d \in Daemons : WF_auditVars(DaemonStep(d))

---------------------------------------------------------------------------
Conns == [who : Daemons, gen : 1..MaxRequests, addr : 0..MaxRequests] \cup {Nobody}
DaemonOps == {"register", "unregister", "on", "off", "lock"}
DaemonPcs == {"idle", "replace", "decide", "register", "registered", "unregister",
              "config", "unlock", "penalty", "asleep"}
Dests == {"retry", "hold", "gone", "silent"}
Locals == [pc : {"start", "peek", "loop", "send", "put", "wake", "wait"},
           ac : Conns, sk : BOOLEAN, lsk : BOOLEAN, phase : {"hold", "retry", "main"},
           hook : {"rehold", "hold", "retry"}, tail : Records \cup {0},
           skb : Records \cup {0}, failed : 0..(Retries - 1),
           rc : {"ok", "ECONNREFUSED"}, dest : Dests]
Resets == [pc : {"none", "clear", "flush", "put"}, ac : Conns,
           skb : Records \cup {0}, dest : Dests]

\* Type invariant of the queues and of their users' progress.
AuditTypeOK ==
    /\ queue \in Seq(Records) /\ retry \in Seq(Records) /\ hold \in Seq(Records)
    /\ conn \in Conns /\ enabled \in {"off", "on", "locked"}
    /\ k \in Locals /\ reset \in [Flushers -> Resets]
    /\ tpc \in [Tasks -> {"idle", "check", "nap", "asleep", "format"}]
    /\ stime \in [Tasks -> 0..WaitTime] /\ serial \in [Tasks -> Records \cup {0}]
    /\ dpc \in [Daemons -> DaemonPcs] /\ op \in [Daemons -> DaemonOps]
    /\ alive \in [Daemons -> BOOLEAN]
    /\ ctl \in Daemons \cup {Nobody} /\ waitq \in Seq(Tasks \cup Daemons)
    /\ issued \in 0..(MaxRecords + MaxRequests) /\ requests \in 0..MaxRequests
    /\ mcast \cup got \cup gone \subseteq Records

\* In kauditd's hand: a record taken from a queue and neither sent nor put back.
InHand(n) ==
    \/ k.pc \in {"send", "put"} /\ k.skb = n
    \/ \E f \in Flushers : reset[f].pc = "put" /\ reset[f].skb = n
    \/ \E t \in Tasks : serial[t] = n

Times(n, q) == Cardinality({i \in DOMAIN q : q[i] = n})

\* A record is in one place until it is delivered or counted as lost: the
\* moves between three queues by several threads lose and repeat none.
Accounted ==
    \A n \in 1..issued :
        (IF InHand(n) THEN 1 ELSE 0) + (IF n \in got THEN 1 ELSE 0)
        + (IF n \in gone THEN 1 ELSE 0)
        + Times(n, queue) + Times(n, retry) + Times(n, hold) = 1

\* auditd gets no record that the multicast listeners did not get before,
\* and they get every record once: "don't touch the main queue since we
\* need to process that normally for multicast" (auditd_reset).
MulticastFirst ==
    /\ got \cup ToSet(retry) \cup ToSet(hold) \subseteq mcast
    /\ ToSet(queue) \cap mcast = {}

\* The backlog limit, with what can pass it: one record of each task that
\* tested it before the others queued theirs, the records of requests, and
\* one record in the hand of another thread.
WithinLimits ==
    Limit > 0 =>
        /\ Len(queue) <= Limit + Cardinality(Tasks) + requests
        /\ Len(retry) <= Limit
        /\ Len(hold) <= Limit + 1

\* The records between the log call and auditd: none is lost between the queues or in
\* two places, a record is multicast once and before auditd gets it, and only known ways
\* lead past the backlog limit.
RecordsAccounted == AuditTypeOK /\ Accounted /\ MulticastFirst /\ WithinLimits

\* A connection ends when its daemon is dead or by a request to unregister:
\* a failure of the previous connection does not break the new one.
HealthyStays ==
    [][conn # Nobody /\ conn' # conn =>
          \/ ~alive[conn.who]
          \/ \E d \in Daemons : reset[d].pc = "clear" /\ op[d] = "unregister"]_auditVars

\* With a connection, the next record that wakes kauditd takes along all
\* that was held for it: Held has to lead to Drained.
Held == conn # Nobody /\ hold # <<>> /\ queue # <<>> /\ k.pc = "wait"
Drained == hold = <<>> \/ conn = Nobody

\* With a connection, what was held for it is sent: "try to process any
\* backlog" (audit_receive_msg).
HoldDrains == (conn # Nobody /\ hold # <<>>) ~> Drained

\* "The hold queue is only for when the daemon goes away completely, not
\* -EAGAIN failures" (kauditd_hold_skb).
HoldOnlyWithoutDaemon ==
    [][k.pc = "put" /\ k.hook = "hold" /\ k.ac # Nobody
       /\ reset' = reset /\ Len(hold') > Len(hold)
          => conn # k.ac \/ ~alive[k.ac.who]]_auditVars

\* "We have processed all the queues so wake everyone" (kauditd_thread).
WakesEveryone == [][k.pc = "wake" /\ k'.pc = "wait" => waitq' = <<>>]_auditVars
=============================================================================
