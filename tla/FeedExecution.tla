---------------------------- MODULE FeedExecution ----------------------------
(***************************************************************************)
(* The Feed side of the pipeline: the at-least-once queue and its dead     *)
(* letter queue, the discrete executor, and the Feed database with its     *)
(* execution jobs, delivery generations, replay deliveries and projection. *)
(*                                                                         *)
(* An event reaches the queue under the initial delivery Source, or under  *)
(* an operator command once it has been replayed.  head[e] names the       *)
(* delivery generation that counts; everything older is history.           *)
(*                                                                         *)
(* Each D1 batch is one action, since its guards abort it as a whole.      *)
(* `writable` is the verdict of the writer guard: the deployed epoch is    *)
(* the recorded one and writes are enabled.  `live` and `due` stand for    *)
(* lease_until and available_at against the clock, as in SourceOutbox.     *)
(***************************************************************************)
EXTENDS Naturals, FiniteSets

CONSTANTS
  Events,          \* source events
  Repos,           \* repository keys
  RepoOf,          \* the repository an event is about
  Executors,       \* lease owners of execution jobs
  Couriers,        \* lease owners of replay deliveries
  Commands,        \* operator commands, which are also delivery ids
  Source,          \* the initial delivery id, source:<sequence>
  None,            \* NULL
  MaxJobAttempts,  \* 8 in the source
  MaxSendAttempts, \* 8 in the source
  MaxRetries,      \* 5 in the source, for both queues
  SendLimit        \* 20 in the source

ASSUME ExecutionAssumption ==
  /\ RepoOf \in [Events -> Repos]
  /\ None \notin Events \cup Executors \cup Couriers \cup Commands
  /\ Source \notin Commands /\ Source # None
  /\ MaxJobAttempts \in Nat \ {0}
  /\ MaxSendAttempts \in Nat \ {0}
  /\ MaxRetries \in Nat
  /\ SendLimit \in Nat \ {0}

VARIABLES
  version,    \* source version of a committed event, 0 before its commit
  assessed,   \* events whose analysis run is completed
  latest,     \* project_assessments.latest_analysis_id in the core database
  counter,    \* the last source version handed out
  published,  \* events whose initial delivery reached the queue
  messages,   \* copies in the main queue, the DLQ and terminal parking
  executors,  \* executions in progress by lease owner
  jobs,       \* feed_execution_jobs
  head,       \* feed_delivery_heads
  replays,    \* feed_replay_deliveries with their feed_operator_actions
  terminals,  \* feed_delivery_terminals: <<event, delivery>>
  couriers,   \* replay relay invocations by lease owner
  late,       \* replay sends that outlived their deadline
  projected,  \* feed_project_source_versions.source_version
  writable    \* the writer guard would pass

sourceVars   == <<version, assessed, latest, counter, published>>
deliveryVars == <<head, replays, terminals>>
courierVars  == <<couriers, late>>
vars == <<sourceVars, messages, executors, jobs, deliveryVars, courierVars,
          projected, writable>>

JobStatus == {"absent", "pending", "leased", "completed", "dead_letter"}
ReplayStatus == {"absent", "pending", "leased", "published", "failed",
                 "superseded", "cancelled"}
Deliveries == Commands \cup {Source}

Job == [status : JobStatus, attempts : 0..MaxJobAttempts,
        owner : Executors \cup {None}, live : BOOLEAN, due : BOOLEAN]

ReplayRow == [event : Events \cup {None}, status : ReplayStatus,
              attempts : 0..MaxSendAttempts, owner : Couriers \cup {None},
              live : BOOLEAN, due : BOOLEAN]

Message == [event : Events, delivery : Deliveries,
            stage : {"main", "dlq", "parked"}, tries : 0..MaxRetries]

Execution == [pc : {"idle", "read", "apply", "complete", "fail", "ack"},
              event : Events \cup {None}, msg : Message \cup {None}]

Courier == [pc : {"idle", "claim", "send", "confirm"},
            batch : SUBSET Commands, sent : BOOLEAN]

NoJob == [status |-> "absent", attempts |-> 0, owner |-> None,
          live |-> FALSE, due |-> FALSE]
NewJob == [status |-> "pending", attempts |-> 0, owner |-> None,
           live |-> FALSE, due |-> TRUE]
NoReplay == [event |-> None, status |-> "absent", attempts |-> 0,
             owner |-> None, live |-> FALSE, due |-> FALSE]
IdleExecutor == [pc |-> "idle", event |-> None, msg |-> None]
IdleCourier == [pc |-> "idle", batch |-> {}, sent |-> FALSE]

Init ==
  /\ version = [e \in Events |-> 0]
  /\ assessed = {}
  /\ latest = [k \in Repos |-> None]
  /\ counter = 0
  /\ published = {}
  /\ messages = {}
  /\ executors = [x \in Executors |-> IdleExecutor]
  /\ jobs = [e \in Events |-> NoJob]
  /\ head = [e \in Events |-> None]
  /\ replays = [c \in Commands |-> NoReplay]
  /\ terminals = {}
  /\ couriers = [k \in Couriers |-> IdleCourier]
  /\ late = {}
  /\ projected = [k \in Repos |-> 0]
  /\ writable \in BOOLEAN

-----------------------------------------------------------------------------
(* The core database and the source relay, seen from the Feed side.         *)
(* SourceOutbox models them in full.                                        *)

Assessed(e) ==
  /\ assessed' = assessed \cup {e}
  /\ latest' = [latest EXCEPT ![RepoOf[e]] = e]

\* An event enters the outbox for a run that this very transaction finalizes,
\* or that is still the latest when its submission is recorded.
Commit(e) ==
  /\ version[e] = 0
  /\ e \in assessed => latest[RepoOf[e]] = e
  /\ version' = [version EXCEPT ![e] = counter + 1]
  /\ counter' = counter + 1
  /\ Assessed(e)
  /\ UNCHANGED <<published, messages, executors, jobs, deliveryVars,
                 courierVars, projected, writable>>

\* A run without a submission receipt becomes the latest: no event yet.
Overtake(e) ==
  /\ e \notin assessed
  /\ Assessed(e)
  /\ UNCHANGED <<version, counter, published, messages, executors, jobs,
                 deliveryVars, courierVars, projected, writable>>

NewMessage(e, d) == [event |-> e, delivery |-> d, stage |-> "main", tries |-> 0]

\* The relay hands the initial delivery to the queue, possibly repeatedly.
Publish(e) ==
  /\ version[e] # 0
  /\ messages' = messages \cup {NewMessage(e, Source)}
  /\ published' = published \cup {e}
  /\ UNCHANGED <<version, assessed, latest, counter, executors, jobs,
                 deliveryVars, courierVars, projected, writable>>

\* Mutant of Verdict: whatever is not the latest counts as superseded.
VerdictByLatest(e) ==
  IF latest[RepoOf[e]] = e THEN "current" ELSE "superseded"

\* The assessment capability's answer about event e.
Verdict(e) ==
  LET n == latest[RepoOf[e]] IN
  IF n = e THEN "current"
  ELSE IF version[n] > version[e] THEN "superseded"
  ELSE "unavailable"

-----------------------------------------------------------------------------
(* The queue. *)

\* A retried message counts the attempt; after the last one it moves to the
\* next queue, and terminal parking has no consumer.
NextTry(m) ==
  IF m.tries < MaxRetries THEN [m EXCEPT !.tries = m.tries + 1]
  ELSE IF m.stage = "main" THEN [m EXCEPT !.stage = "dlq", !.tries = 0]
  ELSE [m EXCEPT !.stage = "parked", !.tries = 0]

Requeued(m) == (messages \ {m}) \cup {NextTry(m)}

\* Mutant of Reject: the dead letter consumer acknowledges what it could not
\* persist.
RejectAcked(m) ==
  /\ m \in messages
  /\ m.stage # "parked"
  /\ messages' = IF m.stage = "dlq" THEN messages \ {m} ELSE Requeued(m)
  /\ UNCHANGED <<sourceVars, executors, jobs, deliveryVars, courierVars,
                 projected, writable>>

\* The consumer retries without any durable effect: consumption is paused, the
\* executor or the adapter is unreachable, or the guard rejects the command.
Reject(m) ==
  /\ m \in messages
  /\ m.stage # "parked"
  /\ messages' = Requeued(m)
  /\ UNCHANGED <<sourceVars, executors, jobs, deliveryVars, courierVars,
                 projected, writable>>

-----------------------------------------------------------------------------
(* Execution jobs. *)

Opened(job) == IF job.status = "absent" THEN NewJob ELSE job

DeadLettered(job) ==
  [job EXCEPT !.status = "dead_letter", !.owner = None, !.live = FALSE]

OutOfAttempts(job) ==
  /\ job.attempts >= MaxJobAttempts
  /\ job.status # "completed"
  /\ ~(job.status = "leased" /\ job.live)

Leasable(job) ==
  /\ job.attempts < MaxJobAttempts
  /\ \/ job.status = "pending" /\ job.due
     \/ job.status = "leased" /\ ~job.live

LeasedJob(job, x) ==
  [job EXCEPT !.status = "leased", !.owner = x, !.live = TRUE,
              !.attempts = job.attempts + 1]

\* The claim batch: insert, exhaust, lease.
Claimed(job, x) ==
  IF OutOfAttempts(Opened(job)) THEN DeadLettered(Opened(job))
  ELSE IF Leasable(Opened(job)) THEN LeasedJob(Opened(job), x)
  ELSE Opened(job)

FreshOwner(x) ==
  /\ executors[x].pc = "idle"
  /\ \A e \in Events : jobs[e].owner = x => ~jobs[e].live

\* The consumer calls the executor, whose first step is the claim.
Deliver(x, m) ==
  /\ m \in messages /\ m.stage = "main"
  /\ FreshOwner(x)
  /\ writable
  /\ LET job == Claimed(jobs[m.event], x) IN
       /\ jobs' = [jobs EXCEPT ![m.event] = job]
       /\ \/ /\ job.status = "leased" /\ job.owner = x
             /\ executors' = [executors EXCEPT ![x] =
                  [pc |-> "read", event |-> m.event, msg |-> m]]
             /\ UNCHANGED messages
          \/ /\ job.status = "completed"
             /\ executors' = [executors EXCEPT ![x] =
                  [pc |-> "ack", event |-> m.event, msg |-> m]]
             /\ UNCHANGED messages
          \/ /\ job.status # "completed"
             /\ ~(job.status = "leased" /\ job.owner = x)
             /\ messages' = Requeued(m)
             /\ UNCHANGED executors
  /\ UNCHANGED <<sourceVars, deliveryVars, courierVars, projected, writable>>

Goto(x, pc) == executors' = [executors EXCEPT ![x].pc = pc]

\* The execution ends with an error: its message, if still attached, is
\* retried.
EndFailed(x) ==
  /\ executors' = [executors EXCEPT ![x] = IdleExecutor]
  /\ messages' = IF executors[x].msg = None THEN messages
                 ELSE Requeued(executors[x].msg)

\* ... or with success: a response, if anybody still waits for it.
EndCompleted(x) ==
  executors' = [executors EXCEPT ![x] =
    IF executors[x].msg = None THEN IdleExecutor
    ELSE [executors[x] EXCEPT !.pc = "ack"]]

\* The source facts decide what to do; an unreachable source or a projection
\* that does not validate is a failure.
ReadSource(x) ==
  /\ executors[x].pc = "read"
  /\ \/ Verdict(executors[x].event) = "current" /\ Goto(x, "apply")
     \/ Verdict(executors[x].event) = "superseded" /\ Goto(x, "complete")
     \/ Goto(x, "fail")
  /\ UNCHANGED <<sourceVars, messages, jobs, deliveryVars, courierVars,
                 projected, writable>>

HoldsLease(x) ==
  LET job == jobs[executors[x].event] IN
  job.status = "leased" /\ job.owner = x /\ job.live

\* Mutant of Apply: last writer wins.
ApplyUnordered(x) ==
  LET e == executors[x].event IN
  /\ executors[x].pc = "apply"
  /\ writable /\ HoldsLease(x)
  /\ projected' = [projected EXCEPT ![RepoOf[e]] = version[e]]
  /\ Goto(x, "complete") \/ Goto(x, "fail")
  /\ UNCHANGED <<sourceVars, messages, jobs, deliveryVars, courierVars,
                 writable>>

\* The projection batch: writer and lease guards, then the write if and only
\* if nothing newer is projected.  Its response may be lost.
Apply(x) ==
  LET e == executors[x].event
      k == RepoOf[e] IN
  /\ executors[x].pc = "apply"
  /\ writable /\ HoldsLease(x)
  /\ projected' = IF projected[k] < version[e]
                  THEN [projected EXCEPT ![k] = version[e]] ELSE projected
  /\ Goto(x, "complete") \/ Goto(x, "fail")
  /\ UNCHANGED <<sourceVars, messages, jobs, deliveryVars, courierVars,
                 writable>>

\* Mutant of ApplyRejected: the rejection is not noticed.
ApplyRejectionIgnored(x) ==
  /\ executors[x].pc = "apply"
  /\ Goto(x, "complete")
  /\ UNCHANGED <<sourceVars, messages, jobs, deliveryVars, courierVars,
                 projected, writable>>

\* A guard aborts the batch, or it never arrives.
ApplyRejected(x) ==
  /\ executors[x].pc = "apply"
  /\ Goto(x, "fail")
  /\ UNCHANGED <<sourceVars, messages, jobs, deliveryVars, courierVars,
                 projected, writable>>

Outstanding(c) == replays[c].status \in {"pending", "leased"}

Retired(d, status) ==
  [d EXCEPT !.status = status, !.owner = None, !.live = FALSE]

Completed(job) ==
  [job EXCEPT !.status = "completed", !.owner = None, !.live = FALSE]

\* Mutant of Complete: outstanding replay deliveries are left alone.
CompleteJobOnly(x) ==
  LET e == executors[x].event IN
  /\ executors[x].pc = "complete"
  /\ writable /\ HoldsLease(x)
  /\ jobs' = [jobs EXCEPT ![e] = Completed(jobs[e])]
  /\ EndCompleted(x) /\ UNCHANGED messages
  /\ UNCHANGED <<sourceVars, deliveryVars, courierVars, projected, writable>>

\* Completion retires the event's outstanding replay deliveries with it.
Complete(x) ==
  LET e == executors[x].event IN
  /\ executors[x].pc = "complete"
  /\ writable /\ HoldsLease(x)
  /\ jobs' = [jobs EXCEPT ![e] = Completed(jobs[e])]
  /\ replays' = [c \in Commands |->
       IF replays[c].event = e /\ Outstanding(c)
       THEN Retired(replays[c], "cancelled") ELSE replays[c]]
  /\ \/ EndCompleted(x) /\ UNCHANGED messages
     \/ EndFailed(x)
  /\ UNCHANGED <<sourceVars, head, terminals, courierVars, projected, writable>>

CompleteRejected(x) ==
  /\ executors[x].pc = "complete"
  /\ EndFailed(x)
  /\ UNCHANGED <<sourceVars, jobs, deliveryVars, courierVars, projected,
                 writable>>

FailedJob(job) ==
  [job EXCEPT !.status = IF job.attempts >= MaxJobAttempts
                         THEN "dead_letter" ELSE "pending",
              !.owner = None, !.live = FALSE, !.due = FALSE]

\* Mutant of Fail: no lease guard.
FailUnfenced(x) ==
  LET e == executors[x].event IN
  /\ executors[x].pc = "fail"
  /\ jobs' = IF writable THEN [jobs EXCEPT ![e] = FailedJob(jobs[e])] ELSE jobs
  /\ EndFailed(x)
  /\ UNCHANGED <<sourceVars, deliveryVars, courierVars, projected, writable>>

Fail(x) ==
  LET e == executors[x].event IN
  /\ executors[x].pc = "fail"
  /\ jobs' = IF writable /\ HoldsLease(x)
             THEN [jobs EXCEPT ![e] = FailedJob(jobs[e])] ELSE jobs
  /\ EndFailed(x)
  /\ UNCHANGED <<sourceVars, deliveryVars, courierVars, projected, writable>>

\* The queue learns of the success.
Ack(x) ==
  /\ executors[x].pc = "ack"
  /\ messages' = messages \ {executors[x].msg}
  /\ executors' = [executors EXCEPT ![x] = IdleExecutor]
  /\ UNCHANGED <<sourceVars, jobs, deliveryVars, courierVars, projected,
                 writable>>

\* The transport gives up on the call; the execution goes on unattended.
Abandon(x) ==
  /\ executors[x].msg # None
  /\ messages' = Requeued(executors[x].msg)
  /\ executors' = [executors EXCEPT ![x] =
       IF executors[x].pc = "ack" THEN IdleExecutor
       ELSE [executors[x] EXCEPT !.msg = None]]
  /\ UNCHANGED <<sourceVars, jobs, deliveryVars, courierVars, projected,
                 writable>>

\* The container disappears; its lease stays behind.
CrashExecutor(x) ==
  /\ executors[x].pc # "idle"
  /\ EndFailed(x)
  /\ UNCHANGED <<sourceVars, jobs, deliveryVars, courierVars, projected,
                 writable>>

-----------------------------------------------------------------------------
(* Terminal evidence and operator replay. *)

\* The delivery generation that counts for event e; an event without a head
\* row is in its initial delivery.
Generation(e) == IF head[e] = None THEN Source ELSE head[e]

\* Neither done nor running: a terminal failure may stop it.
Stoppable(job) == job.status = "pending" \/ (job.status = "leased" /\ ~job.live)

\* Mutant of Terminal: the update does not join the delivery head.
TerminalAnyGeneration(m) ==
  LET e == m.event IN
  /\ m \in messages /\ m.stage = "dlq"
  /\ writable
  /\ jobs' = [jobs EXCEPT ![e] = IF Stoppable(Opened(jobs[e]))
                                 THEN DeadLettered(Opened(jobs[e]))
                                 ELSE Opened(jobs[e])]
  /\ head' = [head EXCEPT ![e] = Generation(e)]
  /\ terminals' = terminals \cup {<<e, m.delivery>>}
  /\ messages' = messages \ {m}
  /\ UNCHANGED <<sourceVars, executors, replays, courierVars, projected,
                 writable>>

\* The DLQ consumer's batch: job and head are created if the event was never
\* executed, the evidence is recorded, and the job is dead-lettered unless it
\* is running, done, or already in a newer generation.  The acknowledgement
\* follows and may be lost.
Terminal(m) ==
  LET e == m.event IN
  /\ m \in messages /\ m.stage = "dlq"
  /\ writable
  /\ jobs' = [jobs EXCEPT ![e] =
       IF Stoppable(Opened(jobs[e])) /\ Generation(e) = m.delivery
       THEN DeadLettered(Opened(jobs[e])) ELSE Opened(jobs[e])]
  /\ head' = [head EXCEPT ![e] = Generation(e)]
  /\ terminals' = terminals \cup {<<e, m.delivery>>}
  /\ messages' \in {messages \ {m}, Requeued(m)}
  /\ UNCHANGED <<sourceVars, executors, replays, courierVars, projected,
                 writable>>

\* The eligibility expression of the operator's replay.
Replayable(e) ==
  \/ jobs[e].status = "dead_letter"
  \/ /\ Stoppable(jobs[e])
     /\ \/ <<e, head[e]>> \in terminals
        \/ \E c \in Commands : /\ replays[c].event = e
                               /\ head[e] = c
                               /\ replays[c].status = "failed"

NewReplay(e) == [event |-> e, status |-> "pending", attempts |-> 0,
                 owner |-> None, live |-> FALSE, due |-> TRUE]

\* One batch; a command already on record is accepted and changes nothing.
OperatorReplay(c, e) ==
  /\ writable
  /\ \/ replays[c].event = e
     \/ replays[c].status = "absent" /\ Replayable(e)
  /\ IF replays[c].status = "absent"
     THEN /\ jobs' = [jobs EXCEPT ![e] = NewJob]
          /\ head' = [head EXCEPT ![e] = c]
          /\ replays' = [d \in Commands |->
               IF d = c THEN NewReplay(e)
               ELSE IF replays[d].event = e /\ Outstanding(d)
               THEN Retired(replays[d], "superseded") ELSE replays[d]]
     ELSE UNCHANGED <<jobs, head, replays>>
  /\ UNCHANGED <<sourceVars, messages, executors, terminals, courierVars,
                 projected, writable>>

-----------------------------------------------------------------------------
(* The replay relay. *)

Runnable(c) ==
  LET e == replays[c].event IN
  e # None /\ head[e] = c /\ jobs[e].status # "completed"

\* Mutant of Pending: expired leases do not wake the relay.
PendingOnly ==
  /\ writable
  /\ \E c \in Commands :
       Runnable(c) /\ replays[c].status = "pending" /\ replays[c].due

Pending ==
  /\ writable
  /\ \E c \in Commands :
       /\ Runnable(c)
       /\ \/ replays[c].status = "pending" /\ replays[c].due
          \/ replays[c].status = "leased" /\ ~replays[c].live

FreshCourier(k) ==
  /\ couriers[k].pc = "idle"
  /\ \A c \in Commands : replays[c].owner = k => ~replays[c].live

CheckPending(k) ==
  /\ FreshCourier(k)
  /\ Pending
  /\ couriers' = [couriers EXCEPT ![k].pc = "claim"]
  /\ UNCHANGED <<sourceVars, messages, executors, jobs, deliveryVars, late,
                 projected, writable>>

\* The first two statements of the claim batch.
Settled(c) ==
  IF /\ replays[c].status = "leased" /\ ~replays[c].live
     /\ replays[c].attempts >= MaxSendAttempts
  THEN Retired(replays[c], "failed")
  ELSE IF Outstanding(c) /\ jobs[replays[c].event].status = "completed"
  THEN Retired(replays[c], "cancelled")
  ELSE replays[c]

\* Mutant of Sendable: no send budget.
SendableForever(c) ==
  /\ Runnable(c)
  /\ \/ replays[c].status = "pending" /\ replays[c].due
     \/ replays[c].status = "leased" /\ ~replays[c].live

Sendable(c) ==
  /\ Runnable(c)
  /\ replays[c].attempts < MaxSendAttempts
  /\ \/ replays[c].status = "pending" /\ replays[c].due
     \/ replays[c].status = "leased" /\ ~replays[c].live

SendBatch(S) ==
  /\ \A c \in S : Sendable(c)
  /\ Cardinality(S) <= SendLimit
  /\ Cardinality(S) = SendLimit \/ \A c \in Commands : Sendable(c) => c \in S

LeasedDelivery(d, k) ==
  [d EXCEPT !.status = "leased", !.owner = k, !.live = TRUE,
            !.attempts = d.attempts + 1]

ClaimDeliveries(k) ==
  /\ couriers[k].pc = "claim"
  /\ writable
  /\ \E S \in SUBSET Commands :
       /\ SendBatch(S)
       /\ replays' = [c \in Commands |->
            IF c \in S THEN LeasedDelivery(replays[c], k) ELSE Settled(c)]
       /\ couriers' = [couriers EXCEPT ![k] =
            IF S = {} THEN IdleCourier
            ELSE [pc |-> "send", batch |-> S, sent |-> FALSE]]
  /\ UNCHANGED <<sourceVars, messages, executors, jobs, head, terminals, late,
                 projected, writable>>

Wrapped(S) == {NewMessage(replays[c].event, c) : c \in S}

SendReplays(k) ==
  /\ couriers[k].pc = "send"
  /\ messages' = messages \cup Wrapped(couriers[k].batch)
  /\ couriers' = [couriers EXCEPT ![k].pc = "confirm", ![k].sent = TRUE]
  /\ UNCHANGED <<sourceVars, executors, jobs, deliveryVars, late, projected,
                 writable>>

SendReplaysUncertain(k) ==
  /\ couriers[k].pc = "send"
  /\ late' = late \cup couriers[k].batch
  /\ couriers' = [couriers EXCEPT ![k].pc = "confirm"]
  /\ UNCHANGED <<sourceVars, messages, executors, jobs, deliveryVars, projected,
                 writable>>

LateReplay(c) ==
  /\ c \in late
  /\ late' = late \ {c}
  /\ messages' \in {messages, messages \cup Wrapped({c})}
  /\ UNCHANGED <<sourceVars, executors, jobs, deliveryVars, couriers, projected,
                 writable>>

SentStatus(d, delivered) ==
  IF delivered THEN "published"
  ELSE IF d.attempts >= MaxSendAttempts THEN "failed"
  ELSE "pending"

SentRow(d, delivered) ==
  [Retired(d, SentStatus(d, delivered)) EXCEPT !.due = FALSE]

HoldsDelivery(k, c) ==
  replays[c].status = "leased" /\ replays[c].owner = k /\ replays[c].live

CourierDone(k, c) ==
  couriers' = [couriers EXCEPT ![k] =
    IF couriers[k].batch = {c} THEN IdleCourier
    ELSE [couriers[k] EXCEPT !.batch = couriers[k].batch \ {c}]]

\* One finish request of the replay relay; the guard may reject it.
FinishDelivery(k, c) ==
  /\ couriers[k].pc = "confirm"
  /\ c \in couriers[k].batch
  /\ replays' = IF writable /\ Runnable(c) /\ HoldsDelivery(k, c)
                THEN [replays EXCEPT ![c] = SentRow(replays[c],
                                                     couriers[k].sent)]
                ELSE replays
  /\ CourierDone(k, c)
  /\ UNCHANGED <<sourceVars, messages, executors, jobs, head, terminals, late,
                 projected, writable>>

\* The invocation is cut off, or its claim is rejected or not answered.
CrashCourier(k) ==
  /\ couriers[k].pc # "idle"
  /\ couriers' = [couriers EXCEPT ![k] = IdleCourier]
  /\ UNCHANGED <<sourceVars, messages, executors, jobs, deliveryVars, late,
                 projected, writable>>

-----------------------------------------------------------------------------
(* Clocks and the writer guard. *)

JobClock(e) ==
  /\ \/ /\ jobs[e].live
        /\ jobs' = [jobs EXCEPT ![e].live = FALSE]
     \/ /\ jobs[e].status = "pending" /\ ~jobs[e].due
        /\ jobs' = [jobs EXCEPT ![e].due = TRUE]
  /\ UNCHANGED <<sourceVars, messages, executors, deliveryVars, courierVars,
                 projected, writable>>

ReplayClock(c) ==
  /\ \/ /\ replays[c].live
        /\ replays' = [replays EXCEPT ![c].live = FALSE]
     \/ /\ replays[c].status = "pending" /\ ~replays[c].due
        /\ replays' = [replays EXCEPT ![c].due = TRUE]
  /\ UNCHANGED <<sourceVars, messages, executors, jobs, head, terminals,
                 courierVars, projected, writable>>

\* Writes are disabled or the epoch moves on, and possibly back to this
\* deployment.
ToggleWrites ==
  /\ writable' = ~writable
  /\ UNCHANGED <<sourceVars, messages, executors, jobs, deliveryVars,
                 courierVars, projected>>

-----------------------------------------------------------------------------
SourceStep(e) == Commit(e) \/ Overtake(e) \/ Publish(e)

ExecutorStep(x) ==
  \/ ReadSource(x) \/ Apply(x) \/ ApplyRejected(x)
  \/ Complete(x) \/ CompleteRejected(x) \/ Fail(x) \/ Ack(x)

ExecutorFault(x) == Abandon(x) \/ CrashExecutor(x)

CourierStep(k) ==
  \/ ClaimDeliveries(k) \/ SendReplays(k) \/ SendReplaysUncertain(k)
  \/ (\E c \in Commands : FinishDelivery(k, c))
  \/ CrashCourier(k)

QueueStep(m) == Reject(m) \/ Terminal(m) \/ \E x \in Executors : Deliver(x, m)

FeedStep ==
  \/ \E m \in messages : QueueStep(m)
  \/ \E x \in Executors : ExecutorStep(x) \/ ExecutorFault(x)
  \/ \E k \in Couriers : CheckPending(k) \/ CourierStep(k)
  \/ \E c \in Commands : LateReplay(c) \/ ReplayClock(c)
  \/ \E c \in Commands, e \in Events : OperatorReplay(c, e)
  \/ \E e \in Events : JobClock(e)

Next ==
  \/ \E e \in Events : SourceStep(e)
  \/ FeedStep
  \/ ToggleWrites

Spec == Init /\ [][Next]_vars

\* The queue keeps handing out every message, executions end within their
\* deadline, the minute cron keeps firing and is not always cut off before its
\* claim, and clocks advance.
Fairness ==
  /\ \A m \in Message : WF_vars(QueueStep(m))
  /\ \A x \in Executors : WF_vars(ExecutorStep(x) \/ ExecutorFault(x))
  /\ WF_vars(\E k \in Couriers : CheckPending(k))
  /\ SF_vars(\E k \in Couriers : ClaimDeliveries(k))
  /\ \A k \in Couriers : WF_vars(CourierStep(k))
  /\ \A e \in Events : WF_vars(JobClock(e))
  /\ \A c \in Commands : WF_vars(ReplayClock(c))

LiveSpec == Spec /\ Fairness

-----------------------------------------------------------------------------
(* Properties. *)

\* Every variable stays in its domain; both attempt counters stay within the
\* budgets the claim statements enforce.
TypeOK ==
  /\ version \in [Events -> Nat]
  /\ assessed \in SUBSET Events
  /\ latest \in [Repos -> Events \cup {None}]
  /\ counter \in Nat
  /\ published \in SUBSET Events
  /\ messages \in SUBSET Message
  /\ executors \in [Executors -> Execution]
  /\ jobs \in [Events -> Job]
  /\ head \in [Events -> Deliveries \cup {None}]
  /\ replays \in [Commands -> ReplayRow]
  /\ terminals \in SUBSET (Events \X Deliveries)
  /\ couriers \in [Couriers -> Courier]
  /\ late \in SUBSET Commands
  /\ projected \in [Repos -> Nat]
  /\ writable \in BOOLEAN

\* A completed job is accounted for: its version is projected, or a newer one
\* of the same repository is committed and will bring its own event.  No loss
\* of an answer, of a lease or of the writer epoch between reading the source,
\* applying and completing breaks this.
CompletedIsCovered ==
  \A e \in Events :
    jobs[e].status = "completed" =>
      \/ projected[RepoOf[e]] >= version[e]
      \/ \E n \in Events : RepoOf[n] = RepoOf[e] /\ version[n] > version[e]

\* What readers see: once the event of a repository's latest assessment is
\* completed, exactly that version is projected, whatever older events are
\* still queued, executing or being replayed.
LatestCompletedIsShown ==
  \A k \in Repos :
    LET e == latest[k] IN
    e # None => (jobs[e].status = "completed" => projected[k] = version[e])

\* Completion is final: no stale failure, late terminal message, redelivery or
\* operator command reopens a completed job.
CompletedIsFinal ==
  [][\A e \in Events :
       jobs[e].status = "completed" => jobs'[e].status = "completed"]_vars

\* A job is dead-lettered by its own exhausted attempts or by the terminal
\* failure of the current delivery generation, never by a late terminal of a
\* generation an operator has already replaced.
DeadLetterIsCurrent ==
  \A e \in Events :
    jobs[e].status = "dead_letter" =>
      \/ jobs[e].attempts >= MaxJobAttempts
      \/ <<e, head[e]>> \in terminals

\* A replay delivery that may still be sent belongs to the event's current
\* generation and to a job that still needs it.
OutstandingIsCurrent ==
  \A c \in Commands :
    Outstanding(c) => /\ head[replays[c].event] = c
                      /\ jobs[replays[c].event].status # "completed"

\* No event the queue accepted is ever stranded.  Unless it is completed, its
\* current generation is in a queue, or can still be sent, or has left the
\* evidence by which an operator may restart the event; copies of generations
\* that no longer count are no excuse.
NeverStranded ==
  \A e \in published :
    \/ jobs[e].status = "completed"
    \/ \E m \in messages : m.event = e /\ m.delivery = Generation(e)
    \/ <<e, Generation(e)>> \in terminals
    \/ /\ head[e] \in Commands
       /\ replays[head[e]].status \in {"pending", "leased", "failed"}

\* The Feed implements ProjectedVersions: a projection never goes back to an
\* older version, shows a version nobody committed, or another repository's.
CommittedVersions ==
  {<<RepoOf[e], version[e]>> : e \in {n \in Events : version[n] > 0}}

Projection == INSTANCE ProjectedVersions
              WITH known <- CommittedVersions, shown <- projected

ProjectionAdvances == Projection!Spec

Decided(e) ==
  \/ jobs[e].status = "completed"
  \/ Replayable(e)
  \/ \E m \in messages : m.event = e /\ m.stage = "parked"

\* Once writes stay enabled, every event the queue accepted, and every event an
\* operator has restarted, comes to be completed, replayable or parked.
EventuallyDecided ==
  <>[]writable => \A e \in Events : e \in published ~> Decided(e)
=============================================================================
