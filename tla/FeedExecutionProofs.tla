------------------------ MODULE FeedExecutionProofs ------------------------
(* Proofs about FeedExecution for any number of events, repositories,        *)
(* executors, couriers and operator commands, and any budgets: types, the    *)
(* links between the tables, the projection, and the delivery generations.   *)
EXTENDS FeedExecution, TLAPS

-----------------------------------------------------------------------------
(* Rows. *)

LEMMA NewRowsType ==
  /\ NoJob \in Job /\ NewJob \in Job /\ NoReplay \in ReplayRow
  /\ IdleExecutor \in Execution /\ IdleCourier \in Courier
BY ExecutionAssumption
DEF ExecutionAssumption, NoJob, NewJob, NoReplay, IdleExecutor, IdleCourier,
    Job, JobStatus, ReplayRow, ReplayStatus, Execution, Courier

LEMMA NewMessageType ==
  \A e \in Events, d \in Deliveries : NewMessage(e, d) \in Message
BY ExecutionAssumption DEF ExecutionAssumption, NewMessage, Message

LEMMA NextTryType ==
  \A m \in Message : /\ NextTry(m) \in Message
                      /\ NextTry(m).event = m.event
                      /\ NextTry(m).delivery = m.delivery
<1>. TAKE m \in Message
<1>. DEFINE n == m.tries + 1
<1>1. CASE m.tries < MaxRetries
  <2>1. n \in 0..MaxRetries
    BY <1>1, ExecutionAssumption DEF ExecutionAssumption, Message
  <2>2. [m EXCEPT !.tries = n] \in Message
    <3>. HIDE DEF n
    <3>. QED BY <2>1 DEF Message
  <2>. QED BY <1>1, <2>2 DEF NextTry, Message
<1>2. CASE ~(m.tries < MaxRetries)
  <2>1. 0 \in 0..MaxRetries
    BY ExecutionAssumption DEF ExecutionAssumption
  <2>2. ASSUME NEW st \in {"dlq", "parked"}
        PROVE  LET next == [m EXCEPT !.stage = st, !.tries = 0] IN
               /\ next \in Message /\ next.event = m.event
               /\ next.delivery = m.delivery
    BY <2>1 DEF Message
  <2>. QED BY <1>2, <2>2 DEF NextTry
<1>. QED BY <1>1, <1>2

LEMMA OpenedType == \A job \in Job : Opened(job) \in Job
BY NewRowsType DEF Opened

LEMMA DeadLetteredType == \A job \in Job : DeadLettered(job) \in Job
BY DEF DeadLettered, Job, JobStatus

LEMMA CompletedType == \A job \in Job : Completed(job) \in Job
BY DEF Completed, Job, JobStatus

LEMMA FailedJobType == \A job \in Job : FailedJob(job) \in Job
BY DEF FailedJob, Job, JobStatus

\* A claim stays inside the budget because only jobs below it are leasable.
LEMMA LeasedJobType ==
  ASSUME NEW job \in Job, NEW x \in Executors, job.attempts < MaxJobAttempts
  PROVE  LeasedJob(job, x) \in Job
<1>. DEFINE n == job.attempts + 1
<1>1. n \in 0..MaxJobAttempts
  BY ExecutionAssumption DEF ExecutionAssumption, Job
<1>2. [job EXCEPT !.status = "leased", !.owner = x, !.live = TRUE,
                  !.attempts = n] \in Job
  <2>. HIDE DEF n
  <2>. QED BY <1>1 DEF Job, JobStatus
<1>. QED BY <1>2 DEF LeasedJob

LEMMA ClaimedType ==
  \A job \in Job, x \in Executors : Claimed(job, x) \in Job
<1>. TAKE job \in Job, x \in Executors
<1>1. Opened(job) \in Job
  BY OpenedType
<1>2. CASE OutOfAttempts(Opened(job))
  BY <1>1, <1>2, DeadLetteredType DEF Claimed
<1>3. CASE ~OutOfAttempts(Opened(job)) /\ Leasable(Opened(job))
  BY <1>1, <1>3, LeasedJobType DEF Claimed, Leasable
<1>4. CASE ~OutOfAttempts(Opened(job)) /\ ~Leasable(Opened(job))
  BY <1>1, <1>4 DEF Claimed
<1>. QED BY <1>2, <1>3, <1>4

LEMMA RetiredType ==
  \A d \in ReplayRow, st \in ReplayStatus :
    /\ Retired(d, st) \in ReplayRow
    /\ Retired(d, st).event = d.event /\ Retired(d, st).status = st
BY DEF Retired, ReplayRow

LEMMA LeasedDeliveryType ==
  ASSUME NEW d \in ReplayRow, NEW k \in Couriers, d.attempts < MaxSendAttempts
  PROVE  /\ LeasedDelivery(d, k) \in ReplayRow
         /\ LeasedDelivery(d, k).event = d.event
         /\ LeasedDelivery(d, k).status = "leased"
<1>. DEFINE n == d.attempts + 1
<1>1. n \in 0..MaxSendAttempts
  BY ExecutionAssumption DEF ExecutionAssumption, ReplayRow
<1>2. LET new == [d EXCEPT !.status = "leased", !.owner = k, !.live = TRUE,
                           !.attempts = n] IN
      new \in ReplayRow /\ new.event = d.event /\ new.status = "leased"
  <2>. HIDE DEF n
  <2>. QED BY <1>1 DEF ReplayRow, ReplayStatus
<1>. QED BY <1>2 DEF LeasedDelivery

LEMMA SentRowType ==
  ASSUME NEW d \in ReplayRow, NEW delivered \in BOOLEAN
  PROVE  /\ SentRow(d, delivered) \in ReplayRow
         /\ SentRow(d, delivered).event = d.event
         /\ SentRow(d, delivered).status = SentStatus(d, delivered)
         /\ SentStatus(d, delivered) \in {"published", "failed", "pending"}
<1>1. SentStatus(d, delivered) \in {"published", "failed", "pending"}
  BY DEF SentStatus
<1>2. LET r == Retired(d, SentStatus(d, delivered)) IN
      r \in ReplayRow /\ r.event = d.event
      /\ r.status = SentStatus(d, delivered)
  BY <1>1, RetiredType DEF ReplayStatus
<1>. QED BY <1>1, <1>2 DEF SentRow, ReplayRow

LEMMA NewReplayType ==
  \A e \in Events : /\ NewReplay(e) \in ReplayRow
                    /\ NewReplay(e).event = e /\ NewReplay(e).status = "pending"
BY ExecutionAssumption
DEF ExecutionAssumption, NewReplay, ReplayRow, ReplayStatus

-----------------------------------------------------------------------------
(* Which actions change which variable. *)

SourceChange == \E e \in Events : SourceStep(e)

MessagesChange ==
  \/ \E e \in Events : Publish(e)
  \/ \E m \in messages : QueueStep(m)
  \/ \E x \in Executors : \/ Complete(x) \/ CompleteRejected(x) \/ Fail(x)
                          \/ Ack(x) \/ ExecutorFault(x)
  \/ \E k \in Couriers : SendReplays(k)
  \/ \E c \in Commands : LateReplay(c)

ExecutorsChange ==
  \/ \E m \in messages, x \in Executors : Deliver(x, m)
  \/ \E x \in Executors : ExecutorStep(x) \/ ExecutorFault(x)

JobsChange ==
  \/ \E m \in messages : Terminal(m) \/ \E x \in Executors : Deliver(x, m)
  \/ \E x \in Executors : Complete(x) \/ Fail(x)
  \/ \E c \in Commands, e \in Events : OperatorReplay(c, e)
  \/ \E e \in Events : JobClock(e)

HeadChange ==
  \/ \E m \in messages : Terminal(m)
  \/ \E c \in Commands, e \in Events : OperatorReplay(c, e)

ReplaysChange ==
  \/ \E x \in Executors : Complete(x)
  \/ \E c \in Commands, e \in Events : OperatorReplay(c, e)
  \/ \E k \in Couriers : \/ ClaimDeliveries(k)
                         \/ \E c \in Commands : FinishDelivery(k, c)
  \/ \E c \in Commands : ReplayClock(c)

CouriersChange == \E k \in Couriers : CheckPending(k) \/ CourierStep(k)

LateChange ==
  \/ \E k \in Couriers : SendReplaysUncertain(k)
  \/ \E c \in Commands : LateReplay(c)

Frame ==
  /\ SourceChange \/ UNCHANGED sourceVars
  /\ MessagesChange \/ UNCHANGED messages
  /\ ExecutorsChange \/ UNCHANGED executors
  /\ JobsChange \/ UNCHANGED jobs
  /\ HeadChange \/ UNCHANGED head
  /\ ReplaysChange \/ UNCHANGED replays
  /\ (\E m \in messages : Terminal(m)) \/ UNCHANGED terminals
  /\ CouriersChange \/ UNCHANGED couriers
  /\ LateChange \/ UNCHANGED late
  /\ (\E x \in Executors : Apply(x)) \/ UNCHANGED projected
  /\ ToggleWrites \/ UNCHANGED writable

LEMMA StepFrame == [Next]_vars => Frame
<1>. SUFFICES ASSUME [Next]_vars PROVE Frame
  OBVIOUS
<1>. USE DEF Frame, sourceVars, deliveryVars, courierVars
<1>1. CASE UNCHANGED vars
  BY <1>1 DEF vars
<1>2. ASSUME NEW e \in Events, SourceStep(e) PROVE Frame
  BY <1>2 DEF SourceStep, Commit, Overtake, Publish, SourceChange,
              MessagesChange
<1>3. ASSUME NEW m \in messages, QueueStep(m) PROVE Frame
  <2>1. CASE Reject(m)
    BY <2>1, <1>3 DEF Reject, MessagesChange
  <2>2. CASE Terminal(m)
    BY <2>2, <1>3 DEF Terminal, MessagesChange, JobsChange, HeadChange
  <2>3. CASE \E x \in Executors : Deliver(x, m)
    BY <2>3, <1>3 DEF Deliver, MessagesChange, JobsChange, ExecutorsChange
  <2>. QED BY <1>3, <2>1, <2>2, <2>3 DEF QueueStep
<1>4. ASSUME NEW x \in Executors, ExecutorStep(x) PROVE Frame
  <2>1. CASE ReadSource(x) \/ Apply(x) \/ ApplyRejected(x)
    BY <2>1, <1>4 DEF ReadSource, Apply, ApplyRejected, ExecutorsChange
  <2>2. CASE Complete(x)
    BY <2>2, <1>4
    DEF Complete, ExecutorsChange, MessagesChange, JobsChange, ReplaysChange
  <2>3. CASE CompleteRejected(x) \/ Fail(x) \/ Ack(x)
    BY <2>3, <1>4
    DEF CompleteRejected, Fail, Ack, ExecutorsChange, MessagesChange, JobsChange
  <2>. QED BY <1>4, <2>1, <2>2, <2>3 DEF ExecutorStep
<1>5. ASSUME NEW x \in Executors, ExecutorFault(x) PROVE Frame
  BY <1>5 DEF ExecutorFault, Abandon, CrashExecutor, ExecutorsChange,
              MessagesChange
<1>6. ASSUME NEW k \in Couriers, CheckPending(k) PROVE Frame
  BY <1>6 DEF CheckPending, CouriersChange
<1>7. ASSUME NEW k \in Couriers, CourierStep(k) PROVE Frame
  <2>1. CASE ClaimDeliveries(k)
    BY <2>1, <1>7 DEF ClaimDeliveries, CouriersChange, ReplaysChange
  <2>2. CASE SendReplays(k)
    BY <2>2, <1>7 DEF SendReplays, CouriersChange, MessagesChange
  <2>3. CASE SendReplaysUncertain(k)
    BY <2>3, <1>7 DEF SendReplaysUncertain, CouriersChange, LateChange
  <2>4. CASE \E c \in Commands : FinishDelivery(k, c)
    BY <2>4, <1>7 DEF FinishDelivery, CouriersChange, ReplaysChange
  <2>5. CASE CrashCourier(k)
    BY <2>5, <1>7 DEF CrashCourier, CouriersChange
  <2>. QED BY <1>7, <2>1, <2>2, <2>3, <2>4, <2>5 DEF CourierStep
<1>8. ASSUME NEW c \in Commands, LateReplay(c) \/ ReplayClock(c) PROVE Frame
  BY <1>8 DEF LateReplay, ReplayClock, MessagesChange, LateChange,
              ReplaysChange
<1>9. ASSUME NEW c \in Commands, NEW e \in Events, OperatorReplay(c, e)
      PROVE  Frame
  BY <1>9 DEF OperatorReplay, JobsChange, HeadChange, ReplaysChange
<1>10. ASSUME NEW e \in Events, JobClock(e) PROVE Frame
  BY <1>10 DEF JobClock, JobsChange
<1>11. CASE ToggleWrites
  BY <1>11 DEF ToggleWrites
<1>. QED BY <1>1, <1>2, <1>3, <1>4, <1>5, <1>6, <1>7, <1>8, <1>9, <1>10,
            <1>11 DEF Next, FeedStep

-----------------------------------------------------------------------------
(* What a step does to each table, whichever step it is. *)

\* The links between the tables on which even their types rest.
Linked ==
  /\ \A x \in Executors :
       /\ executors[x].pc # "idle" => executors[x].event \in Events
       /\ executors[x].msg # None =>
            /\ executors[x].pc # "idle"
            /\ executors[x].msg.event = executors[x].event
  /\ \A c \in Commands :
       replays[c].status = "absent" <=> replays[c].event = None
  /\ \A k \in Couriers : \A c \in couriers[k].batch : replays[c].event # None
  /\ \A c \in late : replays[c].event # None

\* The claim's first two statements leave a delivery its event.
LEMMA SettledType ==
  ASSUME TypeOK, NEW c \in Commands
  PROVE  /\ Settled(c) \in ReplayRow
         /\ Settled(c).event = replays[c].event
         /\ Settled(c).status = "absent" <=> replays[c].status = "absent"
BY RetiredType DEF TypeOK, Settled, Outstanding, ReplayStatus

\* A delivery keeps its event for good; only a command creates one, and only
\* for an event that may be replayed.
DeliveryKept(c) ==
  /\ replays'[c].event = replays[c].event
  /\ replays'[c].status = "absent" <=> replays[c].status = "absent"

DeliveryCreated(c) ==
  /\ replays[c].status = "absent"
  /\ replays'[c].status = "pending"
  /\ \E e \in Events : Replayable(e) /\ replays'[c].event = e

LEMMA ReplaysStep ==
  ASSUME TypeOK, Linked, [Next]_vars
  PROVE  /\ replays' \in [Commands -> ReplayRow]
         /\ \A c \in Commands : DeliveryKept(c) \/ DeliveryCreated(c)
<1>. DEFINE P == /\ replays' \in [Commands -> ReplayRow]
                 /\ \A c \in Commands : DeliveryKept(c) \/ DeliveryCreated(c)
<1>0. None \notin Events
  BY ExecutionAssumption DEF ExecutionAssumption
<1>1. ASSUME UNCHANGED replays PROVE P
  BY <1>1 DEF TypeOK, DeliveryKept
<1>2. ASSUME NEW x \in Executors, Complete(x) PROVE P
  BY <1>2, RetiredType
  DEF Complete, TypeOK, DeliveryKept, Outstanding, ReplayStatus
<1>3. ASSUME NEW c \in Commands, NEW e \in Events, OperatorReplay(c, e) PROVE P
  <2>1. CASE replays[c].status # "absent"
    BY <1>1, <1>3, <2>1 DEF OperatorReplay
  <2>2. CASE replays[c].status = "absent"
    <3>1. Replayable(e)
      BY <1>0, <1>3, <2>2 DEF OperatorReplay, Linked
    <3>2. replays' = [d \in Commands |->
            IF d = c THEN NewReplay(e)
            ELSE IF replays[d].event = e /\ Outstanding(d)
            THEN Retired(replays[d], "superseded") ELSE replays[d]]
      BY <1>3, <2>2 DEF OperatorReplay
    <3>. QED
      BY <2>2, <3>1, <3>2, NewReplayType, RetiredType
      DEF TypeOK, DeliveryKept, DeliveryCreated, Outstanding, ReplayStatus
  <2>. QED BY <2>1, <2>2
<1>4. ASSUME NEW k \in Couriers, ClaimDeliveries(k) PROVE P
  <2>1. PICK S \in SUBSET Commands :
          /\ SendBatch(S)
          /\ replays' = [c \in Commands |->
               IF c \in S THEN LeasedDelivery(replays[c], k) ELSE Settled(c)]
    BY <1>4 DEF ClaimDeliveries
  <2>2. ASSUME NEW c \in S
        PROVE  LeasedDelivery(replays[c], k) \in ReplayRow /\ DeliveryKept(c)
    <3>1. /\ replays[c] \in ReplayRow /\ replays[c].attempts < MaxSendAttempts
          /\ replays[c].status # "absent"
      BY <2>1 DEF SendBatch, Sendable, TypeOK
    <3>. QED BY <2>1, <3>1, LeasedDeliveryType DEF DeliveryKept
  <2>. QED BY <2>1, <2>2, SettledType DEF DeliveryKept
<1>5. ASSUME NEW k \in Couriers, NEW c \in Commands, FinishDelivery(k, c)
      PROVE  P
  <2>. DEFINE row == SentRow(replays[c], couriers[k].sent)
  <2>1. /\ row \in ReplayRow /\ row.event = replays[c].event
        /\ row.status # "absent"
    BY SentRowType DEF TypeOK, Courier
  <2>2. CASE UNCHANGED replays
    BY <1>1, <2>2
  <2>3. CASE /\ replays[c].status = "leased"
             /\ replays' = [replays EXCEPT ![c] = row]
    <3>. HIDE DEF row
    <3>. QED BY <2>1, <2>3 DEF TypeOK, DeliveryKept
  <2>. QED BY <1>5, <2>2, <2>3 DEF FinishDelivery, HoldsDelivery
<1>6. ASSUME NEW c \in Commands, ReplayClock(c) PROVE P
  <2>1. \E row \in ReplayRow : /\ replays' = [replays EXCEPT ![c] = row]
                                /\ row.event = replays[c].event
                                /\ row.status = replays[c].status
    <3>1. ASSUME NEW row \in ReplayRow
          PROVE  /\ LET new == [row EXCEPT !.live = FALSE] IN
                    /\ new \in ReplayRow /\ new.event = row.event
                    /\ new.status = row.status
                 /\ LET new == [row EXCEPT !.due = TRUE] IN
                    /\ new \in ReplayRow /\ new.event = row.event
                    /\ new.status = row.status
      BY DEF ReplayRow
    <3>. QED BY <1>6, <3>1 DEF ReplayClock, TypeOK
  <2>. QED BY <2>1 DEF TypeOK, DeliveryKept
<1>. QED
  BY <1>1, <1>2, <1>3, <1>4, <1>5, <1>6, StepFrame DEF Frame, ReplaysChange

\* Where a job's status may go in one step: completion is final and happens
\* under an execution about to complete, and only a delivery creates a job.
JobMoved(e) ==
  /\ jobs[e].status = "completed" => jobs'[e].status = "completed"
  /\ jobs'[e].status = "completed" =>
       \/ jobs[e].status = "completed"
       \/ \E x \in Executors :
            executors[x].pc = "complete" /\ executors[x].event = e
  /\ jobs'[e].status # "absent" =>
       \/ jobs[e].status # "absent"
       \/ \E m \in messages : m.event = e

LEMMA OpenedFields ==
  \A job \in Job : Opened(job).status =
                     IF job.status = "absent" THEN "pending" ELSE job.status
BY DEF Opened, NewJob

LEMMA ClaimedFields ==
  \A job \in Job, x \in Executors :
    Claimed(job, x).status = "completed" <=> job.status = "completed"
<1>. TAKE job \in Job, x \in Executors
<1>1. /\ Opened(job) \in Job
      /\ Opened(job).status = "completed" <=> job.status = "completed"
  BY OpenedType, OpenedFields
<1>2. \A j \in Job : /\ DeadLettered(j).status = "dead_letter"
                     /\ LeasedJob(j, x).status = "leased"
  BY DEF DeadLettered, LeasedJob, Job
<1>. QED BY <1>1, <1>2 DEF Claimed, OutOfAttempts, Leasable

LEMMA ReplayableJob ==
  ASSUME NEW e \in Events, Replayable(e)
  PROVE  jobs[e].status \in {"pending", "leased", "dead_letter"}
BY DEF Replayable, Stoppable

LEMMA JobsStep ==
  ASSUME TypeOK, Linked, [Next]_vars
  PROVE  jobs' \in [Events -> Job] /\ \A e \in Events : JobMoved(e)
<1>. DEFINE P == jobs' \in [Events -> Job] /\ \A e \in Events : JobMoved(e)
<1>0. None \notin Events
  BY ExecutionAssumption DEF ExecutionAssumption
<1>1. ASSUME UNCHANGED jobs PROVE P
  BY <1>1 DEF TypeOK, JobMoved
<1>2. ASSUME NEW m \in messages, NEW x \in Executors, Deliver(x, m) PROVE P
  <2>. DEFINE job == Claimed(jobs[m.event], x)
  <2>1. m.event \in Events /\ jobs[m.event] \in Job
    BY DEF TypeOK, Message
  <2>2. job \in Job /\ (job.status = "completed" <=>
                          jobs[m.event].status = "completed")
    BY <2>1, ClaimedType, ClaimedFields
  <2>3. jobs' = [jobs EXCEPT ![m.event] = job]
    BY <1>2 DEF Deliver
  <2>. HIDE DEF job
  <2>. QED BY <2>1, <2>2, <2>3 DEF TypeOK, JobMoved
<1>3. ASSUME NEW m \in messages, Terminal(m) PROVE P
  <2>. DEFINE open == Opened(jobs[m.event])
  <2>1. m.event \in Events /\ jobs[m.event] \in Job
    BY DEF TypeOK, Message
  <2>2. /\ open \in Job
        /\ open.status = "completed" <=> jobs[m.event].status = "completed"
        /\ DeadLettered(open) \in Job
        /\ DeadLettered(open).status = "dead_letter"
    BY <2>1, OpenedType, OpenedFields, DeadLetteredType DEF DeadLettered, Job
  <2>3. \/ jobs' = [jobs EXCEPT ![m.event] = open]
        \/ /\ jobs' = [jobs EXCEPT ![m.event] = DeadLettered(open)]
           /\ open.status # "completed"
    BY <1>3 DEF Terminal, Stoppable
  <2>. HIDE DEF open
  <2>. QED BY <2>1, <2>2, <2>3 DEF TypeOK, JobMoved
<1>4. ASSUME NEW x \in Executors, Complete(x) PROVE P
  <2>. DEFINE e == executors[x].event
              job == Completed(jobs[e])
  <2>1. e \in Events /\ executors[x].pc = "complete"
    BY <1>4 DEF Complete, Linked
  <2>2. job \in Job /\ job.status = "completed"
    BY <2>1, CompletedType DEF Completed, TypeOK, Job
  <2>3. jobs[e].status = "leased" /\ jobs' = [jobs EXCEPT ![e] = job]
    BY <1>4 DEF Complete, HoldsLease
  <2>4. \E y \in Executors :
          executors[y].pc = "complete" /\ executors[y].event = e
    BY <2>1
  <2>. HIDE DEF e, job
  <2>. QED BY <2>1, <2>2, <2>3, <2>4 DEF TypeOK, JobMoved
<1>5. ASSUME NEW x \in Executors, Fail(x) PROVE P
  <2>. DEFINE e == executors[x].event
              job == FailedJob(jobs[e])
  <2>1. e \in Events
    BY <1>5 DEF Fail, Linked
  <2>2. job \in Job /\ job.status \in {"dead_letter", "pending"}
    BY <2>1, FailedJobType DEF FailedJob, TypeOK, Job
  <2>3. \/ UNCHANGED jobs
        \/ jobs[e].status = "leased" /\ jobs' = [jobs EXCEPT ![e] = job]
    BY <1>5 DEF Fail, HoldsLease
  <2>. HIDE DEF e, job
  <2>. QED BY <1>1, <2>1, <2>2, <2>3 DEF TypeOK, JobMoved
<1>6. ASSUME NEW c \in Commands, NEW e \in Events, OperatorReplay(c, e) PROVE P
  <2>1. CASE replays[c].status # "absent"
    BY <1>1, <1>6, <2>1 DEF OperatorReplay
  <2>2. CASE replays[c].status = "absent"
    <3>1. Replayable(e) /\ jobs' = [jobs EXCEPT ![e] = NewJob]
      BY <1>0, <1>6, <2>2 DEF OperatorReplay, Linked
    <3>2. NewJob \in Job /\ NewJob.status = "pending"
      BY NewRowsType DEF NewJob
    <3>. QED BY <3>1, <3>2, ReplayableJob DEF TypeOK, JobMoved
  <2>. QED BY <2>1, <2>2
<1>7. ASSUME NEW e \in Events, JobClock(e) PROVE P
  <2>1. \E job \in Job : /\ jobs' = [jobs EXCEPT ![e] = job]
                         /\ job.status = jobs[e].status
    <3>1. ASSUME NEW job \in Job
          PROVE  /\ LET new == [job EXCEPT !.live = FALSE] IN
                    new \in Job /\ new.status = job.status
                 /\ LET new == [job EXCEPT !.due = TRUE] IN
                    new \in Job /\ new.status = job.status
      BY DEF Job
    <3>. QED BY <1>7, <3>1 DEF JobClock, TypeOK
  <2>. QED BY <2>1 DEF TypeOK, JobMoved
<1>. QED
  BY <1>1, <1>2, <1>3, <1>4, <1>5, <1>6, <1>7, StepFrame DEF Frame, JobsChange

\* What an execution becomes: it starts with a message, moves on, loses its
\* message, or ends.
ExecutionMoved(x) ==
  \/ executors'[x] = executors[x]
  \/ executors'[x] = IdleExecutor
  \/ /\ executors[x].pc # "idle" /\ executors'[x].pc # "idle"
     /\ executors'[x].event = executors[x].event
     /\ executors'[x].msg \in {executors[x].msg, None}
     /\ \/ executors'[x].pc = executors[x].pc /\ executors[x].pc # "ack"
        \/ ExecutorStep(x)
  \/ \E m \in messages : /\ Deliver(x, m)
                         /\ executors'[x].pc \in {"read", "ack"}
                         /\ executors'[x].event = m.event
                         /\ executors'[x].msg = m

LEMMA ExecutorsStep ==
  ASSUME TypeOK, Linked, [Next]_vars
  PROVE  /\ executors' \in [Executors -> Execution]
         /\ \A x \in Executors : ExecutionMoved(x)
<1>. DEFINE P == /\ executors' \in [Executors -> Execution]
                 /\ \A x \in Executors : ExecutionMoved(x)
<1>1. CASE UNCHANGED executors
  BY <1>1 DEF TypeOK, ExecutionMoved
<1>2. ASSUME NEW m \in messages, NEW x \in Executors, Deliver(x, m) PROVE P
  <2>1. CASE UNCHANGED executors
    BY <1>1, <2>1
  <2>2. ASSUME NEW pc \in {"read", "ack"},
               executors' = [executors EXCEPT ![x] =
                               [pc |-> pc, event |-> m.event, msg |-> m]]
        PROVE  P
    BY <1>2, <2>2 DEF TypeOK, Message, Execution, ExecutionMoved
  <2>. QED BY <1>2, <2>1, <2>2 DEF Deliver
<1>3. ASSUME NEW x \in Executors,
             executors' = [executors EXCEPT ![x] = IdleExecutor]
      PROVE  P
  BY <1>3, NewRowsType DEF TypeOK, ExecutionMoved
<1>4. ASSUME NEW x \in Executors,
             NEW pc \in {"apply", "complete", "fail", "ack"},
             executors[x].pc # "idle", ExecutorStep(x),
             executors' =
               [executors EXCEPT ![x] = [executors[x] EXCEPT !.pc = pc]]
      PROVE  P
  BY <1>4 DEF TypeOK, Execution, ExecutionMoved
<1>5. ASSUME NEW x \in Executors, ExecutorStep(x) PROVE P
  <2>1. ASSUME NEW pc \in {"apply", "complete", "fail", "ack"}, Goto(x, pc)
        PROVE  executors' =
                 [executors EXCEPT ![x] = [executors[x] EXCEPT !.pc = pc]]
    BY <2>1 DEF Goto, TypeOK, Execution
  <2>2. CASE ReadSource(x) \/ Apply(x) \/ ApplyRejected(x)
    BY <1>4, <1>5, <2>1, <2>2 DEF ReadSource, Apply, ApplyRejected
  <2>3. CASE Complete(x)
    <3>1. CASE EndCompleted(x)
      BY <1>3, <1>4, <1>5, <2>3, <3>1 DEF Complete, EndCompleted
    <3>2. CASE EndFailed(x)
      BY <1>3, <3>2 DEF EndFailed
    <3>. QED BY <2>3, <3>1, <3>2 DEF Complete
  <2>4. CASE CompleteRejected(x) \/ Fail(x) \/ Ack(x)
    BY <1>3, <2>4 DEF CompleteRejected, Fail, Ack, EndFailed
  <2>. QED BY <1>5, <2>2, <2>3, <2>4 DEF ExecutorStep
<1>6. ASSUME NEW x \in Executors, Abandon(x) PROVE P
  <2>1. executors[x].pc # "idle"
    BY <1>6 DEF Abandon, Linked
  <2>2. CASE executors[x].pc = "ack"
    BY <1>3, <1>6, <2>2 DEF Abandon
  <2>3. CASE executors[x].pc # "ack"
    BY <1>6, <2>1, <2>3 DEF Abandon, TypeOK, Execution, ExecutionMoved
  <2>. QED BY <2>2, <2>3
<1>7. ASSUME NEW x \in Executors, CrashExecutor(x) PROVE P
  BY <1>3, <1>7 DEF CrashExecutor, EndFailed
<1>. QED
  BY <1>1, <1>2, <1>5, <1>6, <1>7, StepFrame
  DEF Frame, ExecutorsChange, ExecutorFault

\* Where a message can come from: an older copy, an execution that gives its
\* copy back, the source relay, or a replay delivery.
MessageOrigin(m) ==
  \/ \E n \in messages : m.event = n.event
  \/ \E x \in Executors :
       executors[x].msg # None /\ m.event = executors[x].event
  \/ version[m.event] # 0
  \/ \E c \in Commands : m.event = replays[c].event

LEMMA RequeuedType ==
  ASSUME TypeOK, NEW m \in Message
  PROVE  /\ Requeued(m) \in SUBSET Message
         /\ \A n \in Requeued(m) : n \in messages \/ n.event = m.event
BY NextTryType DEF TypeOK, Requeued

LEMMA WrappedType ==
  ASSUME TypeOK, Linked, NEW S \in SUBSET Commands,
         \A c \in S : replays[c].event # None
  PROVE  /\ Wrapped(S) \in SUBSET Message
         /\ \A m \in Wrapped(S) : \E c \in Commands : m.event = replays[c].event
<1>1. ASSUME NEW c \in S
      PROVE  /\ NewMessage(replays[c].event, c) \in Message
             /\ NewMessage(replays[c].event, c).event = replays[c].event
  <2>1. replays[c].event \in Events /\ c \in Deliveries
    BY DEF TypeOK, ReplayRow, Deliveries
  <2>. QED BY <2>1, NewMessageType DEF NewMessage
<1>. QED BY <1>1 DEF Wrapped

LEMMA MessagesStep ==
  ASSUME TypeOK, Linked, [Next]_vars
  PROVE  /\ messages' \in SUBSET Message
         /\ \A m \in messages' : MessageOrigin(m)
<1>. DEFINE P == /\ messages' \in SUBSET Message
                 /\ \A m \in messages' : MessageOrigin(m)
<1>1. ASSUME messages' \subseteq messages PROVE P
  BY <1>1 DEF TypeOK, MessageOrigin
<1>2. ASSUME NEW e \in Events, Publish(e) PROVE P
  <2>1. /\ NewMessage(e, Source) \in Message
        /\ NewMessage(e, Source).event = e
    BY NewMessageType DEF Deliveries, NewMessage
  <2>. QED BY <1>2, <2>1 DEF Publish, TypeOK, MessageOrigin
<1>3. ASSUME NEW m \in messages,
             messages' \in {messages, messages \ {m}, Requeued(m)}
      PROVE  P
  BY <1>1, <1>3, RequeuedType DEF TypeOK, MessageOrigin
<1>4. ASSUME NEW m \in messages, QueueStep(m) PROVE P
  BY <1>3, <1>4 DEF QueueStep, Reject, Terminal, Deliver
<1>5. ASSUME NEW x \in Executors, executors[x].msg # None,
             messages' = Requeued(executors[x].msg)
      PROVE  P
  <2>1. /\ executors[x].msg \in Message
        /\ executors[x].msg.event = executors[x].event
    BY <1>5 DEF TypeOK, Execution, Linked
  <2>. QED BY <1>5, <2>1, RequeuedType DEF MessageOrigin
<1>6. ASSUME NEW x \in Executors, EndFailed(x) PROVE P
  BY <1>1, <1>5, <1>6 DEF EndFailed
<1>7. ASSUME NEW x \in Executors,
             \/ Complete(x) \/ CompleteRejected(x) \/ Fail(x)
             \/ Ack(x) \/ ExecutorFault(x)
      PROVE  P
  BY <1>1, <1>5, <1>6, <1>7
  DEF Complete, CompleteRejected, Fail, Ack, ExecutorFault, Abandon,
      CrashExecutor
<1>8. ASSUME NEW S \in SUBSET Commands, \A c \in S : replays[c].event # None,
             messages' = messages \cup Wrapped(S)
      PROVE  P
  BY <1>8, WrappedType DEF TypeOK, MessageOrigin
<1>9. ASSUME NEW k \in Couriers, SendReplays(k) PROVE P
  BY <1>8, <1>9 DEF SendReplays, TypeOK, Courier, Linked
<1>10. ASSUME NEW c \in Commands, LateReplay(c) PROVE P
  BY <1>1, <1>8, <1>10 DEF LateReplay, Linked
<1>. QED
  BY <1>1, <1>2, <1>4, <1>7, <1>9, <1>10, StepFrame DEF Frame, MessagesChange

\* A courier's batch comes from its claim, and a late send from a batch.
LEMMA CouriersStep ==
  ASSUME TypeOK, Linked, [Next]_vars
  PROVE  /\ couriers' \in [Couriers -> Courier]
         /\ late' \in SUBSET Commands
         /\ \A k \in Couriers :
              \A c \in couriers'[k].batch : replays[c].event # None
         /\ \A c \in late' : replays[c].event # None
<1>. DEFINE P == /\ couriers' \in [Couriers -> Courier]
                 /\ \A k \in Couriers :
                      \A c \in couriers'[k].batch : replays[c].event # None
<1>1. ASSUME UNCHANGED couriers PROVE P
  BY <1>1 DEF TypeOK, Linked
<1>2. ASSUME NEW k \in Couriers, NEW row \in Courier,
             couriers' = [couriers EXCEPT ![k] = row],
             \A c \in row.batch : replays[c].event # None
      PROVE  P
  BY <1>2 DEF TypeOK, Linked
<1>3. ASSUME NEW k \in Couriers,
             couriers' = [couriers EXCEPT ![k] = IdleCourier]
      PROVE  P
  BY <1>2, <1>3, NewRowsType DEF IdleCourier
<1>4. ASSUME NEW k \in Couriers, CheckPending(k) PROVE P
  BY <1>4 DEF CheckPending, TypeOK, Linked, Courier
<1>5. ASSUME NEW k \in Couriers, CourierStep(k) PROVE P
  <2>1. CASE ClaimDeliveries(k)
    <3>1. PICK S \in SUBSET Commands :
            /\ SendBatch(S)
            /\ couriers' = [couriers EXCEPT ![k] =
                 IF S = {} THEN IdleCourier
                 ELSE [pc |-> "send", batch |-> S, sent |-> FALSE]]
      BY <2>1 DEF ClaimDeliveries
    <3>2. [pc |-> "send", batch |-> S, sent |-> FALSE] \in Courier
      BY DEF Courier
    <3>3. \A c \in S : replays[c].event # None
      BY <3>1 DEF SendBatch, Sendable, Runnable
    <3>. QED BY <1>2, <1>3, <3>1, <3>2, <3>3
  <2>2. CASE SendReplays(k)
    <3> DEFINE sent == [couriers[k] EXCEPT !.pc = "confirm", !.sent = TRUE]
    <3>1. couriers[k] \in Courier
      BY DEF TypeOK
    <3>2. sent \in Courier /\ sent.batch = couriers[k].batch
      BY <3>1 DEF Courier
    <3>3. couriers' = [couriers EXCEPT ![k] = sent]
      BY <2>2 DEF SendReplays
    <3>4. \A c \in couriers[k].batch : replays[c].event # None
      BY DEF Linked
    <3> HIDE DEF sent
    <3>. QED BY <1>2, <3>2, <3>3, <3>4
  <2>3. CASE SendReplaysUncertain(k)
    BY <2>3 DEF SendReplaysUncertain, TypeOK, Linked, Courier
  <2>4. ASSUME NEW c \in Commands, FinishDelivery(k, c) PROVE P
    <3>1. LET row == [couriers[k] EXCEPT !.batch = couriers[k].batch \ {c}] IN
            row \in Courier /\ \A d \in row.batch : replays[d].event # None
      BY DEF TypeOK, Linked, Courier
    <3>. QED BY <1>2, <1>3, <2>4, <3>1 DEF FinishDelivery, CourierDone
  <2>5. CASE CrashCourier(k)
    BY <1>3, <2>5 DEF CrashCourier
  <2>. QED BY <1>5, <2>1, <2>2, <2>3, <2>4, <2>5 DEF CourierStep
<1>6. P
  BY <1>1, <1>4, <1>5, StepFrame DEF Frame, CouriersChange
<1>7. late' \in SUBSET Commands /\ \A c \in late' : replays[c].event # None
  BY StepFrame
  DEF Frame, LateChange, SendReplaysUncertain, LateReplay, TypeOK, Courier,
      Linked
<1>. QED BY <1>6, <1>7

LEMMA SourceStepType ==
  ASSUME TypeOK, [Next]_vars
  PROVE  /\ version' \in [Events -> Nat] /\ assessed' \in SUBSET Events
         /\ latest' \in [Repos -> Events \cup {None}] /\ counter' \in Nat
         /\ published' \in SUBSET Events
         /\ \A e \in Events :
              version[e] # 0 => version'[e] = version[e]
<1>1. CASE UNCHANGED sourceVars
  BY <1>1 DEF sourceVars, TypeOK
<1>2. CASE SourceChange
  BY <1>2
  DEF SourceChange, SourceStep, Commit, Overtake, Publish, Assessed, TypeOK
<1>. QED BY <1>1, <1>2, StepFrame DEF Frame

LEMMA HeadStep ==
  ASSUME TypeOK, [Next]_vars
  PROVE  /\ head' \in [Events -> Deliveries \cup {None}]
         /\ terminals' \in SUBSET (Events \X Deliveries)
<1>1. ASSUME NEW m \in messages, Terminal(m)
      PROVE  /\ head' \in [Events -> Deliveries \cup {None}]
             /\ terminals' \in SUBSET (Events \X Deliveries)
  <2>1. /\ m.event \in Events /\ m.delivery \in Deliveries
        /\ Generation(m.event) \in Deliveries
    BY DEF TypeOK, Message, Generation, Deliveries
  <2>. QED BY <1>1, <2>1 DEF Terminal, TypeOK
<1>2. ASSUME NEW c \in Commands, NEW e \in Events, OperatorReplay(c, e)
      PROVE  head' \in [Events -> Deliveries \cup {None}]
  BY <1>2 DEF OperatorReplay, TypeOK, Deliveries
<1>. QED BY <1>1, <1>2, StepFrame DEF Frame, HeadChange, TypeOK

LEMMA ProjectedStep ==
  ASSUME TypeOK, Linked, [Next]_vars
  PROVE  /\ projected' \in [Repos -> Nat]
         /\ \A k \in Repos : projected'[k] >= projected[k]
<1>1. CASE UNCHANGED projected
  BY <1>1 DEF TypeOK
<1>2. ASSUME NEW x \in Executors, Apply(x)
      PROVE  /\ projected' \in [Repos -> Nat]
             /\ \A k \in Repos : projected'[k] >= projected[k]
  <2>1. executors[x].event \in Events /\ RepoOf[executors[x].event] \in Repos
    BY <1>2, ExecutionAssumption DEF ExecutionAssumption, Apply, Linked
  <2>. QED BY <1>2, <2>1 DEF Apply, TypeOK
<1>. QED BY <1>1, <1>2, StepFrame DEF Frame

-----------------------------------------------------------------------------
LEMMA LinkedStep ==
  ASSUME TypeOK, Linked, [Next]_vars
  PROVE  Linked'
<1>0. None \notin Events
  BY ExecutionAssumption DEF ExecutionAssumption
<1>1. ASSUME NEW x \in Executors
      PROVE  /\ executors'[x].pc # "idle" => executors'[x].event \in Events
             /\ executors'[x].msg # None =>
                  /\ executors'[x].pc # "idle"
                  /\ executors'[x].msg.event = executors'[x].event
  <2>1. CASE executors'[x] = executors[x]
    BY <2>1 DEF Linked
  <2>2. CASE executors'[x] = IdleExecutor
    BY <2>2 DEF IdleExecutor
  <2>3. CASE /\ executors[x].pc # "idle" /\ executors'[x].pc # "idle"
             /\ executors'[x].event = executors[x].event
             /\ executors'[x].msg \in {executors[x].msg, None}
    BY <2>3 DEF Linked
  <2>4. ASSUME NEW m \in messages, executors'[x].pc \in {"read", "ack"},
               executors'[x].event = m.event, executors'[x].msg = m
        PROVE  /\ executors'[x].pc # "idle" /\ executors'[x].event \in Events
               /\ executors'[x].msg.event = executors'[x].event
    BY <2>4 DEF TypeOK, Message
  <2>. QED BY <2>1, <2>2, <2>3, <2>4, ExecutorsStep DEF ExecutionMoved
<1>2. ASSUME NEW c \in Commands
      PROVE  /\ replays'[c].status = "absent" <=> replays'[c].event = None
             /\ replays[c].event # None => replays'[c].event # None
  BY <1>0, ReplaysStep DEF DeliveryKept, DeliveryCreated, Linked
<1>3. \A k \in Couriers : \A c \in couriers'[k].batch : replays'[c].event # None
  BY <1>2, CouriersStep DEF Courier
<1>4. \A c \in late' : replays'[c].event # None
  BY <1>2, CouriersStep
<1>. QED BY <1>1, <1>2, <1>3, <1>4 DEF Linked

LEMMA TypeStep ==
  ASSUME TypeOK, Linked, [Next]_vars
  PROVE  TypeOK'
<1>1. writable' \in BOOLEAN
  BY StepFrame DEF Frame, ToggleWrites, TypeOK
<1>. QED
  BY <1>1, SourceStepType, MessagesStep, ExecutorsStep, JobsStep, HeadStep,
     ReplaysStep, CouriersStep, ProjectedStep
  DEF TypeOK

LEMMA LinkedInvariant == Spec => [](TypeOK /\ Linked)
<1>1. Init => TypeOK /\ Linked
  BY NewRowsType
  DEF Init, TypeOK, Linked, IdleExecutor, IdleCourier, NoReplay
<1>2. TypeOK /\ Linked /\ [Next]_vars => (TypeOK /\ Linked)'
  BY TypeStep, LinkedStep
<1>. QED BY <1>1, <1>2, PTL DEF Spec

\* The Feed's tables keep their types, for every number of events, executors,
\* couriers and commands and every budget: no interleaving of claims, failures,
\* expiries and replays takes a job or a delivery past its attempt budget, and
\* nothing is ever sent for a delivery that has no event.
THEOREM TypeCorrect == Spec => []TypeOK
BY LinkedInvariant, PTL

\* Completion is final in every Feed, whatever fails, expires, is redelivered
\* or is replayed by an operator.
THEOREM CompletedIsFinalHolds == Spec => CompletedIsFinal
<1>1. ASSUME TypeOK, Linked, [Next]_vars
      PROVE  [\A e \in Events :
                jobs[e].status = "completed" => jobs'[e].status = "completed"]_vars
  BY <1>1, JobsStep DEF JobMoved
<1>. QED BY <1>1, LinkedInvariant, PTL DEF Spec, CompletedIsFinal

-----------------------------------------------------------------------------
(* Source facts.  The Feed only ever works on committed events, and among    *)
(* those of a repository the latest is the newest.                           *)

Committed ==
  /\ \A m \in messages : version[m.event] # 0
  /\ \A x \in Executors :
       executors[x].pc # "idle" => version[executors[x].event] # 0
  /\ \A e \in Events : jobs[e].status # "absent" => version[e] # 0
  /\ \A c \in Commands :
       replays[c].event # None => version[replays[c].event] # 0

LEMMA CommittedStep ==
  ASSUME TypeOK, Linked, Committed, [Next]_vars
  PROVE  Committed'
<1>1. \A e \in Events : version[e] # 0 => version'[e] # 0
  BY SourceStepType
<1>2. ASSUME NEW m \in messages' PROVE version'[m.event] # 0
  <2>1. m.event \in Events
    BY MessagesStep DEF Message
  <2>2. version[m.event] # 0
    <3>1. CASE \E x \in Executors :
                 executors[x].msg # None /\ m.event = executors[x].event
      BY <3>1 DEF Linked, Committed
    <3>2. CASE \E c \in Commands : m.event = replays[c].event
      BY <2>1, <3>2, ExecutionAssumption DEF ExecutionAssumption, Committed
    <3>. QED BY <3>1, <3>2, MessagesStep DEF MessageOrigin, Committed
  <2>. QED BY <1>1, <2>1, <2>2
<1>3. ASSUME NEW x \in Executors, executors'[x].pc # "idle"
      PROVE  version'[executors'[x].event] # 0
  <2>1. executors'[x].event \in Events
    BY <1>3, LinkedStep DEF Linked
  <2>2. version[executors'[x].event] # 0
    BY <1>3, ExecutorsStep DEF ExecutionMoved, IdleExecutor, Committed
  <2>. QED BY <1>1, <2>1, <2>2
<1>4. ASSUME NEW e \in Events, jobs'[e].status # "absent" PROVE version'[e] # 0
  BY <1>1, <1>4, JobsStep DEF JobMoved, Committed
<1>5. ASSUME NEW c \in Commands, replays'[c].event # None
      PROVE  version'[replays'[c].event] # 0
  <2>1. CASE DeliveryKept(c)
    BY <1>1, <1>5, <2>1 DEF DeliveryKept, Committed, TypeOK, ReplayRow
  <2>2. CASE DeliveryCreated(c)
    BY <1>1, <2>2, ReplayableJob DEF DeliveryCreated, Committed
  <2>. QED BY <2>1, <2>2, ReplaysStep
<1>. QED BY <1>2, <1>3, <1>4, <1>5 DEF Committed

SourceFacts ==
  /\ \A e \in Events : version[e] <= counter
  /\ \A e \in Events : version[e] # 0 => e \in assessed
  /\ \A e \in assessed : latest[RepoOf[e]] # None
  /\ \A k \in Repos : latest[k] # None => RepoOf[latest[k]] = k

LatestIsNewest ==
  \A e \in Events :
    LET n == latest[RepoOf[e]] IN
    n # None => (version[n] # 0 => version[e] <= version[n])

LEMMA SourceFactsStep ==
  ASSUME TypeOK, SourceFacts, LatestIsNewest, [Next]_vars
  PROVE  (SourceFacts /\ LatestIsNewest)'
<1>. USE ExecutionAssumption DEF ExecutionAssumption
<1>1. CASE UNCHANGED sourceVars
  BY <1>1 DEF sourceVars, SourceFacts, LatestIsNewest
<1>2. ASSUME NEW e \in Events, Publish(e) PROVE (SourceFacts /\ LatestIsNewest)'
  BY <1>2 DEF Publish, SourceFacts, LatestIsNewest
<1>3. ASSUME NEW e \in Events, Commit(e) PROVE (SourceFacts /\ LatestIsNewest)'
  <2>1. /\ version' = [version EXCEPT ![e] = counter + 1]
        /\ counter' = counter + 1
        /\ assessed' = assessed \cup {e}
        /\ latest' = [latest EXCEPT ![RepoOf[e]] = e]
    BY <1>3 DEF Commit, Assessed
  <2>2. SourceFacts'
    BY <2>1 DEF SourceFacts, TypeOK
  <2>3. ASSUME NEW q \in Events, latest'[RepoOf[q]] # None,
               version'[latest'[RepoOf[q]]] # 0
        PROVE  version'[q] <= version'[latest'[RepoOf[q]]]
    <3>1. CASE RepoOf[q] = RepoOf[e]
      BY <2>1, <3>1 DEF SourceFacts, TypeOK
    <3>2. CASE RepoOf[q] # RepoOf[e]
      <4>1. latest[RepoOf[q]] \in Events \ {e} /\ q # e
        BY <2>1, <2>3, <3>2 DEF SourceFacts, TypeOK
      <4>. QED BY <2>1, <2>3, <3>2, <4>1 DEF LatestIsNewest, TypeOK
    <3>. QED BY <3>1, <3>2
  <2>. QED BY <2>2, <2>3 DEF LatestIsNewest
<1>4. ASSUME NEW e \in Events, Overtake(e) PROVE (SourceFacts /\ LatestIsNewest)'
  <2>1. /\ version' = version /\ counter' = counter /\ version[e] = 0
        /\ assessed' = assessed \cup {e}
        /\ latest' = [latest EXCEPT ![RepoOf[e]] = e]
    BY <1>4 DEF Overtake, Assessed, SourceFacts
  <2>2. SourceFacts'
    BY <2>1 DEF SourceFacts, TypeOK
  <2>3. LatestIsNewest'
    BY <2>1 DEF LatestIsNewest, TypeOK
  <2>. QED BY <2>2, <2>3
<1>. QED
  BY <1>1, <1>2, <1>3, <1>4, StepFrame DEF Frame, SourceChange, SourceStep

\* Shared by the theorems on the projection.
SourceInv == TypeOK /\ Linked /\ Committed /\ SourceFacts /\ LatestIsNewest

LEMMA SourceInvariant == Spec => []SourceInv
<1>1. Init => SourceInv
  <2>. SUFFICES ASSUME Init PROVE SourceInv
    OBVIOUS
  <2>1. TypeOK /\ Linked
    BY NewRowsType
    DEF Init, TypeOK, Linked, IdleExecutor, IdleCourier, NoReplay
  <2>2. Committed
    BY DEF Init, Committed, IdleExecutor, NoJob, NoReplay
  <2>3. SourceFacts /\ LatestIsNewest
    BY ExecutionAssumption
    DEF ExecutionAssumption, Init, SourceFacts, LatestIsNewest
  <2>. QED BY <2>1, <2>2, <2>3 DEF SourceInv
<1>2. SourceInv /\ [Next]_vars => SourceInv'
  BY TypeStep, LinkedStep, CommittedStep, SourceFactsStep DEF SourceInv
<1>. QED BY <1>1, <1>2, PTL DEF Spec

-----------------------------------------------------------------------------
(* Coverage. *)

\* Nothing is left to do for event e: its version is projected, or a newer one
\* of the repository is on its way.
Covered(e) ==
  \/ projected[RepoOf[e]] >= version[e]
  \/ \E n \in Events : RepoOf[n] = RepoOf[e] /\ version[n] > version[e]

\* The same in the next state, of an event named in this one.
CoveredNext(e) ==
  \/ projected'[RepoOf[e]] >= version'[e]
  \/ \E n \in Events : RepoOf[n] = RepoOf[e] /\ version'[n] > version'[e]

CoveredInv ==
  /\ CompletedIsCovered
  /\ \A x \in Executors :
       executors[x].pc = "complete" => Covered(executors[x].event)

LEMMA CoveredIsStable ==
  ASSUME SourceInv, [Next]_vars, NEW e \in Events, version[e] # 0, Covered(e)
  PROVE  CoveredNext(e)
<1>1. /\ version \in [Events -> Nat] /\ version' \in [Events -> Nat]
      /\ projected \in [Repos -> Nat] /\ projected' \in [Repos -> Nat]
      /\ RepoOf[e] \in Repos
  BY TypeStep, ExecutionAssumption DEF ExecutionAssumption, SourceInv, TypeOK
<1>2. version'[e] = version[e]
  BY SourceStepType DEF SourceInv
<1>3. CASE projected[RepoOf[e]] >= version[e]
  <2>1. projected'[RepoOf[e]] >= projected[RepoOf[e]]
    BY <1>1, ProjectedStep DEF SourceInv
  <2>. QED BY <1>1, <1>2, <1>3, <2>1 DEF CoveredNext
<1>4. ASSUME NEW n \in Events, RepoOf[n] = RepoOf[e], version[n] > version[e]
      PROVE  CoveredNext(e)
  <2>1. version'[n] = version[n]
    BY <1>1, <1>4, SourceStepType DEF SourceInv
  <2>. QED BY <1>2, <1>4, <2>1 DEF CoveredNext
<1>. QED BY <1>3, <1>4 DEF Covered

\* The superseded verdict names a newer version of the same repository.
LEMMA SupersededIsCovered ==
  ASSUME SourceInv, NEW e \in Events, version[e] # 0, Verdict(e) = "superseded"
  PROVE  Covered(e)
<1>1. /\ latest[RepoOf[e]] \in Events
      /\ RepoOf[latest[RepoOf[e]]] = RepoOf[e]
  BY ExecutionAssumption
  DEF ExecutionAssumption, SourceInv, SourceFacts, TypeOK
<1>. QED BY <1>1 DEF Verdict, Covered

LEMMA CoveredStep ==
  ASSUME SourceInv, CoveredInv, [Next]_vars
  PROVE  CoveredInv'
<1>1. ASSUME NEW x \in Executors, executors'[x].pc = "complete"
      PROVE  CoveredNext(executors'[x].event)
  <2>. DEFINE e == executors[x].event
  <2>1. CASE executors[x].pc = "complete"
    <3>1. e \in Events /\ version[e] # 0 /\ Covered(e)
      BY <2>1 DEF SourceInv, Linked, Committed, CoveredInv
    <3>2. executors'[x].event = e
      BY <1>1, <2>1, ExecutorsStep
      DEF SourceInv, ExecutionMoved, IdleExecutor, Deliver, FreshOwner
    <3>. QED BY <3>1, <3>2, CoveredIsStable
  <2>2. CASE executors[x].pc # "complete"
    <3>1. /\ ExecutorStep(x) /\ executors[x].pc # "idle"
          /\ executors'[x].event = e
      BY <1>1, <2>2, ExecutorsStep DEF SourceInv, ExecutionMoved, IdleExecutor
    <3>2. e \in Events /\ version[e] # 0 /\ RepoOf[e] \in Repos
      BY <3>1, ExecutionAssumption
      DEF ExecutionAssumption, SourceInv, Linked, Committed
    <3>3. ReadSource(x) \/ Apply(x)
      BY <1>1, <2>2, <3>1, NewRowsType
      DEF ExecutorStep, ApplyRejected, Complete, CompleteRejected, Fail, Ack,
          Goto, EndCompleted, EndFailed, IdleExecutor, SourceInv, TypeOK,
          Execution
    <3>4. CASE ReadSource(x)
      <4>1. Verdict(e) = "superseded"
        BY <1>1, <3>4 DEF ReadSource, Goto, SourceInv, TypeOK, Execution
      <4>. QED BY <3>1, <3>2, <4>1, SupersededIsCovered, CoveredIsStable
    <3>5. CASE Apply(x)
      <4>1. projected'[RepoOf[e]] >= version[e] /\ version' = version
        BY <3>2, <3>5 DEF Apply, SourceInv, TypeOK, sourceVars
      <4>. QED BY <3>1, <4>1 DEF CoveredNext
    <3>. QED BY <3>3, <3>4, <3>5
  <2>. QED BY <2>1, <2>2
<1>2. ASSUME NEW e \in Events, jobs'[e].status = "completed"
      PROVE  CoveredNext(e)
  <2>1. Covered(e)
    BY <1>2, JobsStep
    DEF SourceInv, JobMoved, CoveredInv, CompletedIsCovered, Covered
  <2>2. version[e] # 0
    BY <1>2, JobsStep DEF SourceInv, JobMoved, Committed
  <2>. QED BY <2>1, <2>2, CoveredIsStable
<1>. QED BY <1>1, <1>2 DEF CoveredInv, CompletedIsCovered, Covered, CoveredNext

LEMMA CoveredInvariant == Spec => []CoveredInv
<1>1. Init => CoveredInv
  BY DEF Init, CoveredInv, CompletedIsCovered, NoJob, IdleExecutor
<1>2. SourceInv /\ CoveredInv /\ [Next]_vars => CoveredInv'
  BY CoveredStep
<1>. QED BY <1>1, <1>2, SourceInvariant, PTL DEF Spec

\* No Feed, however large and however its executions overlap, crash or lose
\* their answers, completes a job whose version is neither projected nor
\* superseded by a committed one.
THEOREM CompletedIsCoveredHolds == Spec => []CompletedIsCovered
<1>1. CoveredInv => CompletedIsCovered
  BY DEF CoveredInv
<1>. QED BY <1>1, CoveredInvariant, PTL

-----------------------------------------------------------------------------
(* Refinement of ProjectedVersions. *)

\* A commit makes a version known that is newer than all others.
LEMMA CommitLearns ==
  ASSUME SourceInv, NEW e \in Events, Commit(e)
  PROVE  Projection!Learn
<1>. DEFINE p == <<RepoOf[e], counter + 1>>
<1>1. /\ version' = [version EXCEPT ![e] = counter + 1]
      /\ version[e] = 0 /\ UNCHANGED projected
  BY DEF Commit
<1>2. /\ version \in [Events -> Nat] /\ counter \in Nat
      /\ p \in Repos \X Nat
  BY ExecutionAssumption DEF ExecutionAssumption, SourceInv, TypeOK
<1>3. CommittedVersions' = CommittedVersions \cup {p}
  BY <1>1, <1>2 DEF CommittedVersions
<1>4. ASSUME NEW q \in CommittedVersions PROVE p[2] > q[2]
  BY <1>2 DEF CommittedVersions, SourceInv, SourceFacts
<1>. HIDE DEF p
<1>. QED BY <1>1, <1>2, <1>3, <1>4 DEF Projection!Learn

\* Applying shows a committed version that is newer than the one shown, or
\* changes nothing.
LEMMA ApplyShows ==
  ASSUME SourceInv, NEW x \in Executors, Apply(x)
  PROVE  Projection!Show \/ UNCHANGED <<CommittedVersions, projected>>
<1>. DEFINE e == executors[x].event
<1>1. e \in Events /\ version[e] # 0 /\ RepoOf[e] \in Repos
  BY ExecutionAssumption
  DEF ExecutionAssumption, Apply, SourceInv, Linked, Committed
<1>2. version' = version
  BY DEF Apply, sourceVars
<1>3. UNCHANGED CommittedVersions
  BY <1>2 DEF CommittedVersions
<1>4. CASE projected[RepoOf[e]] < version[e]
  <2>. DEFINE p == <<RepoOf[e], version[e]>>
  <2>1. p \in CommittedVersions /\ p[2] > projected[p[1]]
    BY <1>1, <1>4 DEF CommittedVersions, SourceInv, TypeOK
  <2>2. projected' = [projected EXCEPT ![p[1]] = p[2]]
    BY <1>4 DEF Apply
  <2>. HIDE DEF p
  <2>. QED BY <1>3, <2>1, <2>2 DEF Projection!Show
<1>5. CASE ~(projected[RepoOf[e]] < version[e])
  BY <1>3, <1>5 DEF Apply
<1>. QED BY <1>4, <1>5

\* The Feed implements ProjectedVersions: whatever is executed twice, late or
\* out of order, a projection only ever advances to a committed version.
THEOREM ProjectionAdvancesHolds == Spec => ProjectionAdvances
<1>1. Init => Projection!Init
  BY DEF Init, Projection!Init, CommittedVersions
<1>2. SourceInv /\ [Next]_vars =>
        [Projection!Next]_<<CommittedVersions, projected>>
  <2>. SUFFICES ASSUME SourceInv, [Next]_vars
                PROVE  [Projection!Next]_<<CommittedVersions, projected>>
    OBVIOUS
  <2>1. ASSUME UNCHANGED version, UNCHANGED projected
        PROVE  UNCHANGED <<CommittedVersions, projected>>
    BY <2>1 DEF CommittedVersions
  <2>2. ASSUME NEW e \in Events, SourceStep(e)
        PROVE  [Projection!Next]_<<CommittedVersions, projected>>
    BY <2>1, <2>2, CommitLearns
    DEF SourceStep, Overtake, Publish, Projection!Next
  <2>3. ASSUME NEW x \in Executors, Apply(x)
        PROVE  [Projection!Next]_<<CommittedVersions, projected>>
    BY <2>3, ApplyShows DEF Projection!Next
  <2>. QED
    BY <2>1, <2>2, <2>3, StepFrame DEF Frame, SourceChange, sourceVars
<1>. QED BY <1>1, <1>2, SourceInvariant, PTL
     DEF Spec, ProjectionAdvances, Projection!Spec

\* What is shown was committed for that repository.
ShownIsCommitted ==
  \A k \in Repos : projected[k] # 0 =>
    \E n \in Events : RepoOf[n] = k /\ version[n] = projected[k]

LEMMA ShownIsCommittedInvariant == Spec => []ShownIsCommitted
<1>1. Init => ShownIsCommitted
  BY DEF Init, ShownIsCommitted
<1>2. SourceInv /\ ShownIsCommitted /\ [Next]_vars => ShownIsCommitted'
  <2>. SUFFICES ASSUME SourceInv, ShownIsCommitted, [Next]_vars,
                       NEW k \in Repos, projected'[k] # 0
                PROVE  \E n \in Events :
                         RepoOf[n] = k /\ version'[n] = projected'[k]
    BY DEF ShownIsCommitted
  <2>1. CASE projected'[k] = projected[k]
    <3>1. PICK n \in Events : RepoOf[n] = k /\ version[n] = projected[k]
      BY <2>1 DEF ShownIsCommitted
    <3>2. version'[n] = version[n]
      BY <2>1, <3>1, SourceStepType DEF SourceInv
    <3>. QED BY <2>1, <3>1, <3>2
  <2>2. CASE projected'[k] # projected[k]
    <3>1. PICK x \in Executors : Apply(x)
      BY <2>2, StepFrame DEF Frame
    <3>2. executors[x].event \in Events
      BY <3>1 DEF Apply, SourceInv, Linked
    <3>3. /\ RepoOf[executors[x].event] = k
          /\ projected'[k] = version'[executors[x].event]
      BY <2>2, <3>1 DEF Apply, sourceVars, SourceInv, TypeOK
    <3>. QED BY <3>2, <3>3
  <2>. QED BY <2>1, <2>2
<1>. QED BY <1>1, <1>2, SourceInvariant, PTL DEF Spec

\* Readers see the latest assessment once its event is completed: coverage
\* bounds the shown version from below, LatestIsNewest from above.
THEOREM LatestCompletedIsShownHolds == Spec => []LatestCompletedIsShown
<1>1. SourceInv /\ CoveredInv /\ ShownIsCommitted => LatestCompletedIsShown
  <2>. SUFFICES ASSUME SourceInv, CoveredInv, ShownIsCommitted,
                       NEW k \in Repos, latest[k] # None,
                       jobs[latest[k]].status = "completed"
                PROVE  projected[k] = version[latest[k]]
    BY DEF LatestCompletedIsShown
  <2>. DEFINE e == latest[k]
  <2>1. e \in Events /\ RepoOf[e] = k /\ version[e] # 0
    BY DEF SourceInv, TypeOK, SourceFacts, Committed
  <2>2. \A n \in Events : RepoOf[n] = k => version[n] <= version[e]
    BY <2>1 DEF SourceInv, LatestIsNewest
  <2>3. /\ version \in [Events -> Nat] /\ projected[k] \in Nat
    BY DEF SourceInv, TypeOK
  <2>4. projected[k] >= version[e]
    BY <2>1, <2>2, <2>3 DEF CoveredInv, CompletedIsCovered
  <2>5. projected[k] <= version[e]
    BY <2>1, <2>2, <2>3 DEF ShownIsCommitted
  <2>. QED BY <2>1, <2>3, <2>4, <2>5
<1>. QED BY <1>1, SourceInvariant, CoveredInvariant,
            ShownIsCommittedInvariant, PTL

-----------------------------------------------------------------------------
(* Delivery generations: what counts as current, and that no accepted       *)
(* event is lost.                                                           *)

LEMMA NoneIsNoDelivery ==
  None \notin Deliveries /\ None \notin Events /\ Source \notin Commands
BY ExecutionAssumption DEF ExecutionAssumption, Deliveries

-----------------------------------------------------------------------------
(* Dead letters. *)

\* A job that is dead-lettered after a step, and on what account.
DeadLetterMoved(e) ==
  jobs'[e].status = "dead_letter" =>
    \/ jobs'[e].attempts >= MaxJobAttempts
    \/ jobs[e].status = "dead_letter" /\ jobs'[e].attempts = jobs[e].attempts
    \/ <<e, head'[e]>> \in terminals'

LEMMA DeadLetteredFields ==
  \A job \in Job : /\ DeadLettered(job).status = "dead_letter"
                   /\ DeadLettered(job).attempts = job.attempts
BY DEF DeadLettered, Job

LEMMA OpenedKeepsDeadLetter ==
  \A job \in Job : Opened(job).status = "dead_letter" =>
                     Opened(job) = job
BY DEF Opened, NewJob

LEMMA ClaimedDeadLetter ==
  ASSUME NEW job \in Job, NEW x \in Executors,
         Claimed(job, x).status = "dead_letter"
  PROVE  \/ Claimed(job, x).attempts >= MaxJobAttempts
         \/ Claimed(job, x) = job
<1>1. Opened(job) \in Job
  BY OpenedType
<1>2. CASE OutOfAttempts(Opened(job))
  BY <1>1, <1>2, DeadLetteredFields DEF Claimed, OutOfAttempts
<1>3. CASE ~OutOfAttempts(Opened(job)) /\ Leasable(Opened(job))
  <2>1. LeasedJob(Opened(job), x).status = "leased"
    BY <1>1 DEF LeasedJob, Job
  <2>. QED BY <1>3, <2>1 DEF Claimed
<1>4. CASE ~OutOfAttempts(Opened(job)) /\ ~Leasable(Opened(job))
  BY <1>1, <1>4, OpenedKeepsDeadLetter DEF Claimed
<1>. QED BY <1>2, <1>3, <1>4

LEMMA DeadLetterStep ==
  ASSUME TypeOK, Linked, [Next]_vars, NEW e \in Events
  PROVE  DeadLetterMoved(e)
<1>1. ASSUME jobs'[e] = jobs[e] PROVE DeadLetterMoved(e)
  BY <1>1 DEF DeadLetterMoved
<1>2. ASSUME NEW m \in messages, NEW x \in Executors, Deliver(x, m)
      PROVE  DeadLetterMoved(e)
  <2>1. m.event \in Events
    BY DEF TypeOK, Message
  <2>2. CASE e = m.event
    BY <1>2, <2>1, <2>2, ClaimedDeadLetter DEF Deliver, TypeOK, DeadLetterMoved
  <2>3. CASE e # m.event
    BY <1>1, <1>2, <2>3 DEF Deliver, TypeOK
  <2>. QED BY <2>2, <2>3
<1>3. ASSUME NEW m \in messages, Terminal(m) PROVE DeadLetterMoved(e)
  <2>1. m.event \in Events
    BY DEF TypeOK, Message
  <2>2. CASE e = m.event
    <3>1. CASE Stoppable(Opened(jobs[e])) /\ Generation(e) = m.delivery
      BY <1>3, <2>1, <2>2, <3>1 DEF Terminal, TypeOK, DeadLetterMoved
    <3>2. CASE ~(Stoppable(Opened(jobs[e])) /\ Generation(e) = m.delivery)
      <4>1. jobs'[e] = Opened(jobs[e])
        BY <1>3, <2>1, <2>2, <3>2 DEF Terminal, TypeOK
      <4>. QED BY <4>1, OpenedKeepsDeadLetter DEF TypeOK, DeadLetterMoved
    <3>. QED BY <3>1, <3>2
  <2>3. CASE e # m.event
    BY <1>1, <1>3, <2>3 DEF Terminal, TypeOK
  <2>. QED BY <2>2, <2>3
<1>4. ASSUME NEW x \in Executors, Complete(x) PROVE DeadLetterMoved(e)
  <2>1. jobs'[e] = jobs[e] \/ jobs'[e] = Completed(jobs[e])
    BY <1>4 DEF Complete, TypeOK
  <2>2. Completed(jobs[e]).status = "completed"
    BY DEF Completed, TypeOK, Job
  <2>. QED BY <1>1, <2>1, <2>2 DEF DeadLetterMoved
<1>5. ASSUME NEW x \in Executors, Fail(x) PROVE DeadLetterMoved(e)
  <2>1. jobs'[e] = jobs[e] \/ jobs'[e] = FailedJob(jobs[e])
    BY <1>5 DEF Fail, TypeOK
  <2>2. FailedJob(jobs[e]).status = "dead_letter" =>
          FailedJob(jobs[e]).attempts >= MaxJobAttempts
    BY DEF FailedJob, TypeOK, Job
  <2>. QED BY <1>1, <2>1, <2>2 DEF DeadLetterMoved
<1>6. ASSUME NEW c \in Commands, NEW n \in Events, OperatorReplay(c, n)
      PROVE  DeadLetterMoved(e)
  <2>1. jobs'[e] = jobs[e] \/ jobs'[e] = NewJob
    BY <1>6 DEF OperatorReplay, TypeOK
  <2>. QED BY <1>1, <2>1 DEF DeadLetterMoved, NewJob
<1>7. ASSUME NEW n \in Events, JobClock(n) PROVE DeadLetterMoved(e)
  BY <1>7 DEF JobClock, TypeOK, DeadLetterMoved, Job
<1>. QED
  BY <1>1, <1>2, <1>3, <1>4, <1>5, <1>6, <1>7, StepFrame DEF Frame, JobsChange

\* Terminal evidence is kept, and an event with a head keeps one; only a
\* replay that makes the job pending moves it on.
LEMMA HeadMoves ==
  ASSUME TypeOK, Linked, [Next]_vars, NEW e \in Events
  PROVE  /\ terminals \subseteq terminals'
         /\ \/ head'[e] = head[e]
            \/ head[e] = None /\ head'[e] = Source
            \/ \E c \in Commands :
                 /\ head'[e] = c /\ jobs'[e] = NewJob
                 /\ replays' = [d \in Commands |->
                      IF d = c THEN NewReplay(e)
                      ELSE IF replays[d].event = e /\ Outstanding(d)
                      THEN Retired(replays[d], "superseded") ELSE replays[d]]
<1>1. ASSUME NEW m \in messages, Terminal(m)
      PROVE  head'[e] = head[e] \/ (head[e] = None /\ head'[e] = Source)
  BY <1>1 DEF Terminal, TypeOK, Generation
<1>2. ASSUME NEW c \in Commands, NEW n \in Events, OperatorReplay(c, n)
      PROVE  \/ head'[e] = head[e]
             \/ /\ head'[e] = c /\ jobs'[e] = NewJob
                /\ replays' = [d \in Commands |->
                     IF d = c THEN NewReplay(e)
                     ELSE IF replays[d].event = e /\ Outstanding(d)
                     THEN Retired(replays[d], "superseded") ELSE replays[d]]
  BY <1>2 DEF OperatorReplay, TypeOK
<1>3. terminals \subseteq terminals'
  BY StepFrame DEF Frame, Terminal
<1>. QED BY <1>1, <1>2, <1>3, StepFrame DEF Frame, HeadChange

\* The terminal failure of a generation an operator has replaced never
\* dead-letters the job of its successor.
THEOREM DeadLetterIsCurrentHolds == Spec => []DeadLetterIsCurrent
<1>1. Init => DeadLetterIsCurrent
  BY DEF Init, DeadLetterIsCurrent, NoJob
<1>2. TypeOK /\ Linked /\ DeadLetterIsCurrent /\ [Next]_vars =>
        DeadLetterIsCurrent'
  <2>. SUFFICES ASSUME TypeOK, Linked, DeadLetterIsCurrent, [Next]_vars,
                       NEW e \in Events, jobs'[e].status = "dead_letter",
                       ~(jobs'[e].attempts >= MaxJobAttempts)
                PROVE  <<e, head'[e]>> \in terminals'
    BY DEF DeadLetterIsCurrent
  <2>1. CASE /\ jobs[e].status = "dead_letter"
             /\ jobs'[e].attempts = jobs[e].attempts
    <3>1. <<e, head[e]>> \in terminals
      BY <2>1 DEF DeadLetterIsCurrent
    <3>2. head[e] # None
      BY <3>1, NoneIsNoDelivery DEF TypeOK
    <3>3. jobs'[e] # NewJob
      BY DEF NewJob
    <3>. QED BY <3>1, <3>2, <3>3, HeadMoves
  <2>. QED BY <2>1, DeadLetterStep DEF DeadLetterMoved
<1>. QED BY <1>1, <1>2, LinkedInvariant, PTL DEF Spec

-----------------------------------------------------------------------------
(* Replay deliveries. *)

\* A job completes in one step with the end of its outstanding deliveries.
LEMMA CompletionRetires ==
  ASSUME TypeOK, Linked, [Next]_vars, NEW e \in Events,
         jobs[e].status # "completed", jobs'[e].status = "completed",
         NEW c \in Commands, replays[c].event = e, Outstanding(c)
  PROVE  replays'[c].status = "cancelled"
<1>1. ASSUME NEW m \in messages, NEW x \in Executors, Deliver(x, m) PROVE FALSE
  <2>1. m.event \in Events
    BY DEF TypeOK, Message
  <2>. QED BY <1>1, <2>1, ClaimedFields DEF Deliver, TypeOK
<1>2. ASSUME NEW m \in messages, Terminal(m) PROVE FALSE
  <2>1. m.event \in Events
    BY DEF TypeOK, Message
  <2>2. /\ Opened(jobs[e]) \in Job
        /\ Opened(jobs[e]).status # "completed"
    BY OpenedType, OpenedFields DEF TypeOK
  <2>3. DeadLettered(Opened(jobs[e])).status # "completed"
    BY <2>2, DeadLetteredFields
  <2>4. jobs'[e] \in {jobs[e], Opened(jobs[e]), DeadLettered(Opened(jobs[e]))}
    BY <1>2, <2>1 DEF Terminal, TypeOK
  <2>. QED BY <2>2, <2>3, <2>4
<1>3. ASSUME NEW x \in Executors, Complete(x)
      PROVE  replays'[c].status = "cancelled"
  <2>1. executors[x].event = e
    BY <1>3 DEF Complete, TypeOK
  <2>2. replays'[c] = Retired(replays[c], "cancelled")
    BY <1>3, <2>1 DEF Complete
  <2>. QED BY <2>2, RetiredType DEF TypeOK, ReplayStatus
<1>4. ASSUME NEW x \in Executors, Fail(x) PROVE FALSE
  <2>1. jobs'[e] = jobs[e] \/ jobs'[e] = FailedJob(jobs[e])
    BY <1>4 DEF Fail, TypeOK
  <2>2. FailedJob(jobs[e]).status \in {"dead_letter", "pending"}
    BY DEF FailedJob, TypeOK, Job
  <2>. QED BY <2>1, <2>2
<1>5. ASSUME NEW d \in Commands, NEW n \in Events, OperatorReplay(d, n)
      PROVE  FALSE
  <2>1. jobs'[e] = jobs[e] \/ jobs'[e] = NewJob
    BY <1>5 DEF OperatorReplay, TypeOK
  <2>. QED BY <2>1 DEF NewJob
<1>6. ASSUME NEW n \in Events, JobClock(n) PROVE FALSE
  <2>1. \/ jobs' = [jobs EXCEPT ![n].live = FALSE]
        \/ jobs' = [jobs EXCEPT ![n].due = TRUE]
    BY <1>6 DEF JobClock
  <2>2. jobs[e] \in Job /\ jobs[n] \in Job
    BY DEF TypeOK
  <2>3. jobs'[e].status = jobs[e].status
    BY <2>1, <2>2 DEF TypeOK, Job
  <2>. QED BY <2>3
<1>. QED
  BY <1>1, <1>2, <1>3, <1>4, <1>5, <1>6, StepFrame DEF Frame, JobsChange

\* Every way a delivery's status changes, and on what account.
DeliveryMoved(c) ==
  \/ replays'[c].status = replays[c].status
  \/ \E e \in Events : /\ replays[c].status = "absent"
                       /\ replays'[c].event = e
                       /\ head'[e] = c /\ jobs'[e] = NewJob
  \/ /\ Runnable(c) /\ UNCHANGED <<jobs, head>>
     /\ replays'[c].status \in {"leased", "pending", "published", "failed"}
     /\ replays'[c].status = "published" =>
          \E k \in Couriers : couriers[k].sent /\ c \in couriers[k].batch
  \/ replays'[c].status = "failed"
  \/ /\ replays'[c].status = "cancelled"
     /\ jobs'[replays[c].event].status = "completed"
  \/ replays'[c].status = "superseded" /\ head'[replays[c].event] # c

LEMMA DeliveryStep ==
  ASSUME TypeOK, Linked, [Next]_vars, NEW c \in Commands
  PROVE  DeliveryMoved(c)
<1>0. replays[c] \in ReplayRow
  BY DEF TypeOK
<1>1. ASSUME replays'[c].status = replays[c].status PROVE DeliveryMoved(c)
  BY <1>1 DEF DeliveryMoved
<1>2. ASSUME NEW x \in Executors, Complete(x) PROVE DeliveryMoved(c)
  <2>1. \/ replays'[c] = replays[c]
        \/ /\ replays'[c] = Retired(replays[c], "cancelled")
           /\ replays[c].event = executors[x].event
    BY <1>2 DEF Complete
  <2>2. executors[x].event \in Events
    BY <1>2 DEF Complete, Linked
  <2>3. jobs'[executors[x].event].status = "completed"
    BY <1>2, <2>2 DEF Complete, Completed, TypeOK, Job
  <2>. QED BY <1>0, <1>1, <2>1, <2>3, RetiredType
       DEF DeliveryMoved, ReplayStatus
<1>3. ASSUME NEW d \in Commands, NEW e \in Events, OperatorReplay(d, e)
      PROVE  DeliveryMoved(c)
  <2>1. CASE replays[d].status # "absent"
    BY <1>1, <1>3, <2>1 DEF OperatorReplay
  <2>2. CASE replays[d].status = "absent"
    <3>1. /\ head'[e] = d /\ jobs'[e] = NewJob
          /\ replays'[c] = IF c = d THEN NewReplay(e)
                           ELSE IF replays[c].event = e /\ Outstanding(c)
                           THEN Retired(replays[c], "superseded")
                           ELSE replays[c]
      BY <1>3, <2>2 DEF OperatorReplay, TypeOK
    <3>2. CASE c = d
      BY <2>2, <3>1, <3>2, NewReplayType DEF DeliveryMoved
    <3>3. CASE c # d
      BY <1>0, <1>1, <3>1, <3>3, RetiredType DEF DeliveryMoved, ReplayStatus
    <3>. QED BY <3>2, <3>3
  <2>. QED BY <2>1, <2>2
<1>4. ASSUME NEW k \in Couriers, ClaimDeliveries(k) PROVE DeliveryMoved(c)
  <2>1. PICK S \in SUBSET Commands :
          /\ SendBatch(S)
          /\ replays' = [d \in Commands |->
               IF d \in S THEN LeasedDelivery(replays[d], k) ELSE Settled(d)]
    BY <1>4 DEF ClaimDeliveries
  <2>2. CASE c \in S
    <3>1. Runnable(c) /\ replays[c].attempts < MaxSendAttempts
      BY <2>1, <2>2 DEF SendBatch, Sendable
    <3>2. replays'[c].status = "leased"
      BY <1>0, <2>1, <2>2, <3>1, LeasedDeliveryType
    <3>. QED BY <1>4, <3>1, <3>2 DEF ClaimDeliveries, DeliveryMoved
  <2>3. CASE c \notin S
    <3>1. replays'[c] = Settled(c) /\ UNCHANGED jobs
      BY <1>4, <2>1, <2>3 DEF ClaimDeliveries
    <3>2. \/ Settled(c).status = replays[c].status
          \/ Settled(c).status = "failed"
          \/ /\ Settled(c).status = "cancelled"
             /\ jobs[replays[c].event].status = "completed"
      BY <1>0, RetiredType DEF Settled, ReplayStatus
    <3>. QED BY <3>1, <3>2 DEF DeliveryMoved
  <2>. QED BY <2>2, <2>3
<1>5. ASSUME NEW k \in Couriers, NEW d \in Commands, FinishDelivery(k, d)
      PROVE  DeliveryMoved(c)
  <2>1. CASE UNCHANGED replays
    BY <1>1, <2>1
  <2>2. CASE /\ Runnable(d)
             /\ replays' = [replays EXCEPT ![d] =
                              SentRow(replays[d], couriers[k].sent)]
    <3>1. CASE c = d
      <4>1. replays'[c] = SentRow(replays[c], couriers[k].sent)
        BY <2>2, <3>1 DEF TypeOK
      <4>2. couriers[k].sent \in BOOLEAN
        BY DEF TypeOK, Courier
      <4>3. /\ replays'[c].status = SentStatus(replays[c], couriers[k].sent)
            /\ SentStatus(replays[c], couriers[k].sent)
                 \in {"published", "failed", "pending"}
        BY <1>0, <4>1, <4>2, SentRowType
      <4>4. replays'[c].status = "published" => couriers[k].sent
        BY <4>3 DEF SentStatus
      <4>5. UNCHANGED <<jobs, head>> /\ c \in couriers[k].batch
        BY <1>5, <3>1 DEF FinishDelivery
      <4>. QED BY <2>2, <3>1, <4>3, <4>4, <4>5 DEF DeliveryMoved
    <3>2. CASE c # d
      BY <1>1, <2>2, <3>2 DEF TypeOK
    <3>. QED BY <3>1, <3>2
  <2>. QED BY <1>5, <2>1, <2>2 DEF FinishDelivery
<1>6. ASSUME NEW d \in Commands, ReplayClock(d) PROVE DeliveryMoved(c)
  <2>1. replays'[c].status = replays[c].status
    BY <1>6 DEF ReplayClock, TypeOK, ReplayRow
  <2>. QED BY <1>1, <2>1
<1>. QED
  BY <1>1, <1>2, <1>3, <1>4, <1>5, <1>6, StepFrame DEF Frame, ReplaysChange

LEMMA OutstandingStep ==
  ASSUME TypeOK, Linked, OutstandingIsCurrent, [Next]_vars
  PROVE  OutstandingIsCurrent'
<1>. SUFFICES ASSUME NEW c \in Commands,
                     replays'[c].status \in {"pending", "leased"}
              PROVE  /\ head'[replays'[c].event] = c
                     /\ jobs'[replays'[c].event].status # "completed"
  BY DEF OutstandingIsCurrent, Outstanding
<1>1. CASE replays'[c].status = replays[c].status
  <2>. DEFINE e == replays[c].event
  <2>1. Outstanding(c) /\ head[e] = c /\ jobs[e].status # "completed"
    BY <1>1 DEF OutstandingIsCurrent, Outstanding
  <2>2. e \in Events /\ replays'[c].event = e
    BY <1>1, ReplaysStep
    DEF TypeOK, ReplayRow, Linked, DeliveryKept, DeliveryCreated
  <2>3. jobs'[e].status # "completed"
    BY <2>1, <2>2, CompletionRetires
  <2>4. head'[e] = c
    <3>1. c # None
      BY NoneIsNoDelivery DEF Deliveries
    <3>2. ASSUME NEW d \in Commands \ {c},
                 replays' = [b \in Commands |->
                   IF b = d THEN NewReplay(e)
                   ELSE IF replays[b].event = e /\ Outstanding(b)
                   THEN Retired(replays[b], "superseded") ELSE replays[b]]
          PROVE  FALSE
      <4>1. replays'[c] = Retired(replays[c], "superseded")
        BY <2>1, <3>2
      <4>. QED BY <4>1, RetiredType DEF TypeOK, ReplayStatus
    <3>. QED BY <2>1, <2>2, <3>1, <3>2, HeadMoves
  <2>. QED BY <2>2, <2>3, <2>4
<1>2. ASSUME NEW e \in Events, replays'[c].event = e, head'[e] = c,
             jobs'[e] = NewJob
      PROVE  /\ head'[replays'[c].event] = c
             /\ jobs'[replays'[c].event].status # "completed"
  BY <1>2 DEF NewJob
<1>3. CASE Runnable(c) /\ UNCHANGED <<jobs, head>>
  <2>1. replays'[c].event = replays[c].event
    BY <1>3, ReplaysStep DEF Runnable, Linked, DeliveryKept, DeliveryCreated
  <2>. QED BY <1>3, <2>1 DEF Runnable
<1>. QED BY <1>1, <1>2, <1>3, DeliveryStep DEF DeliveryMoved

\* At any moment only the current generation of an event can still be sent, and
\* only while its job needs it, whichever couriers and executors overlap.
THEOREM OutstandingIsCurrentHolds == Spec => []OutstandingIsCurrent
<1>1. Init => OutstandingIsCurrent
  BY DEF Init, OutstandingIsCurrent, Outstanding, NoReplay
<1>2. TypeOK /\ Linked /\ OutstandingIsCurrent /\ [Next]_vars =>
        OutstandingIsCurrent'
  BY OutstandingStep
<1>. QED BY <1>1, <1>2, LinkedInvariant, PTL DEF Spec

-----------------------------------------------------------------------------
(* No accepted event is lost. *)

\* Generation g of event e is accounted for: done, or in a queue, or recorded.
Present(e, g) ==
  \/ jobs[e].status = "completed"
  \/ \E m \in messages : m.event = e /\ m.delivery = g
  \/ <<e, g>> \in terminals

PresentNext(e, g) ==
  \/ jobs'[e].status = "completed"
  \/ \E m \in messages' : m.event = e /\ m.delivery = g
  \/ <<e, g>> \in terminals'

\* An acknowledgement follows completion, and is of the completed event.
AckIsCompleted ==
  \A x \in Executors : executors[x].pc = "ack" =>
    /\ jobs[executors[x].event].status = "completed"
    /\ executors[x].msg \in Message =>
         executors[x].msg.event = executors[x].event

\* The replay delivery at the head of an event is that event's, and has not
\* given up its place.
HeadIsLive ==
  \A e \in Events : head[e] \in Commands =>
    /\ replays[head[e]].event = e
    /\ replays[head[e]].status # "superseded"
    /\ replays[head[e]].status = "cancelled" => jobs[e].status = "completed"

\* Whatever the queue accepted is accounted for.
SentIsPresent ==
  /\ \A e \in published : Present(e, Source)
  /\ \A c \in Commands :
       replays[c].status = "published" => Present(replays[c].event, c)
  /\ \A k \in Couriers : couriers[k].sent =>
       \A c \in couriers[k].batch : Present(replays[c].event, c)

LEMMA AckStep ==
  ASSUME TypeOK, Linked, AckIsCompleted, [Next]_vars
  PROVE  AckIsCompleted'
<1>. DEFINE P(x) == /\ jobs'[executors'[x].event].status = "completed"
                    /\ executors'[x].msg \in Message =>
                         executors'[x].msg.event = executors'[x].event
<1>. SUFFICES ASSUME NEW x \in Executors, executors'[x].pc = "ack"
              PROVE  P(x)
  BY DEF AckIsCompleted, Message
<1>1. CASE executors'[x] = executors[x]
  <2>1. executors[x].event \in Events
    BY <1>1 DEF Linked
  <2>. QED BY <1>1, <2>1, JobsStep DEF AckIsCompleted, JobMoved
<1>2. ASSUME NEW m \in messages, Deliver(x, m), executors'[x].event = m.event,
             executors'[x].msg = m
      PROVE  P(x)
  <2>1. m.event \in Events
    BY DEF TypeOK, Message
  <2>. DEFINE job == Claimed(jobs[m.event], x)
  <2>2. jobs'[m.event] = job
    BY <1>2, <2>1 DEF Deliver, TypeOK
  <2>3. job.status = "completed"
    <3>1. CASE executors' = [executors EXCEPT ![x] =
                 [pc |-> "read", event |-> m.event, msg |-> m]]
      BY <3>1 DEF TypeOK
    <3>2. CASE UNCHANGED executors
      BY <1>2, <3>2 DEF Deliver, FreshOwner
    <3>. HIDE DEF job
    <3>. QED BY <1>2, <3>1, <3>2 DEF Deliver, job
  <2>. QED BY <1>2, <2>2, <2>3
<1>3. CASE /\ ExecutorStep(x) /\ executors[x].pc # "idle"
           /\ executors'[x].event = executors[x].event
           /\ executors'[x].msg \in {executors[x].msg, None}
  <2>1. Complete(x)
    BY <1>3
    DEF ExecutorStep, ReadSource, Apply, ApplyRejected, CompleteRejected, Fail,
        Ack, Goto, EndFailed, IdleExecutor, TypeOK, Execution
  <2>2. EndCompleted(x) /\ executors[x].msg # None
    BY <2>1 DEF Complete, EndCompleted, EndFailed, IdleExecutor, TypeOK
  <2>3. executors'[x] = [executors[x] EXCEPT !.pc = "ack"]
    BY <2>2 DEF EndCompleted, TypeOK
  <2>4. /\ executors'[x].msg = executors[x].msg
        /\ executors[x].msg.event = executors[x].event
    BY <2>2, <2>3 DEF TypeOK, Execution, Linked
  <2>5. jobs'[executors[x].event].status = "completed"
    BY <1>3, <2>1 DEF Complete, Completed, TypeOK, Job, Linked
  <2>. QED BY <1>3, <2>4, <2>5
<1>. QED BY <1>1, <1>2, <1>3, ExecutorsStep DEF ExecutionMoved, IdleExecutor

\* Copies are requeued, never dropped, but by an acknowledgement and by the
\* record of a terminal failure.
LEMMA PresentStep ==
  ASSUME TypeOK, Linked, AckIsCompleted, [Next]_vars,
         NEW e \in Events, NEW g, Present(e, g)
  PROVE  PresentNext(e, g)
<1>1. CASE jobs[e].status = "completed"
  BY <1>1, JobsStep DEF JobMoved, PresentNext
<1>2. CASE <<e, g>> \in terminals
  BY <1>2, HeadMoves DEF PresentNext
<1>3. ASSUME NEW m \in messages, m.event = e, m.delivery = g
      PROVE  PresentNext(e, g)
  <2>0. m \in Message
    BY DEF TypeOK
  <2>1. ASSUME m \in messages' PROVE PresentNext(e, g)
    BY <1>3, <2>1 DEF PresentNext
  <2>2. ASSUME NEW n, messages' = Requeued(n) PROVE PresentNext(e, g)
    <3>1. CASE n = m
      <4>1. /\ NextTry(m) \in messages'
            /\ NextTry(m).event = e /\ NextTry(m).delivery = g
        BY <1>3, <2>0, <2>2, <3>1, NextTryType DEF Requeued
      <4>. QED BY <4>1 DEF PresentNext
    <3>2. CASE n # m
      BY <2>1, <2>2, <3>2 DEF Requeued
    <3>. QED BY <3>1, <3>2
  <2>3. ASSUME NEW n \in messages, Terminal(n) PROVE PresentNext(e, g)
    <3>1. CASE n = m
      BY <1>3, <2>3, <3>1 DEF Terminal, PresentNext
    <3>2. CASE n # m
      BY <2>1, <2>2, <2>3, <3>2 DEF Terminal
    <3>. QED BY <3>1, <3>2
  <2>4. ASSUME NEW n \in messages, QueueStep(n) PROVE PresentNext(e, g)
    BY <2>1, <2>2, <2>3, <2>4 DEF QueueStep, Reject, Deliver
  <2>5. ASSUME NEW x \in Executors, Ack(x) PROVE PresentNext(e, g)
    <3>1. CASE m = executors[x].msg
      <4>1. jobs[e].status = "completed"
        BY <1>3, <2>0, <2>5, <3>1 DEF Ack, AckIsCompleted
      <4>. QED BY <1>1, <4>1
    <3>2. CASE m # executors[x].msg
      BY <2>1, <2>5, <3>2 DEF Ack
    <3>. QED BY <3>1, <3>2
  <2>6. ASSUME NEW x \in Executors, EndFailed(x) PROVE PresentNext(e, g)
    BY <2>1, <2>2, <2>6 DEF EndFailed
  <2>7. ASSUME NEW x \in Executors,
               \/ Complete(x) \/ CompleteRejected(x) \/ Fail(x)
               \/ Ack(x) \/ ExecutorFault(x)
        PROVE  PresentNext(e, g)
    BY <2>1, <2>2, <2>5, <2>6, <2>7
    DEF Complete, CompleteRejected, Fail, ExecutorFault, Abandon, CrashExecutor
  <2>8. ASSUME messages \subseteq messages' PROVE PresentNext(e, g)
    BY <2>1, <2>8
  <2>. QED
    BY <2>4, <2>7, <2>8, StepFrame
    DEF Frame, MessagesChange, Publish, SendReplays, LateReplay
<1>. QED BY <1>1, <1>2, <1>3 DEF Present

LEMMA HeadIsLiveStep ==
  ASSUME TypeOK, Linked, HeadIsLive, [Next]_vars
  PROVE  HeadIsLive'
<1>. SUFFICES ASSUME NEW e \in Events, NEW c \in Commands, head'[e] = c
              PROVE  /\ replays'[c].event = e
                     /\ replays'[c].status # "superseded"
                     /\ replays'[c].status = "cancelled" =>
                          jobs'[e].status = "completed"
  BY DEF HeadIsLive
<1>1. CASE head[e] = c
  <2>1. /\ replays[c].event = e /\ replays[c].status # "superseded"
        /\ replays[c].status = "cancelled" => jobs[e].status = "completed"
    BY <1>1 DEF HeadIsLive
  <2>2. replays[c].status # "absent"
    BY <2>1, NoneIsNoDelivery DEF Linked
  <2>3. replays'[c].event = e
    BY <2>1, <2>2, ReplaysStep DEF DeliveryKept, DeliveryCreated
  <2>4. jobs[e].status = "completed" => jobs'[e].status = "completed"
    BY JobsStep DEF JobMoved
  <2>. QED BY <2>1, <2>2, <2>3, <2>4, DeliveryStep DEF DeliveryMoved
<1>2. ASSUME replays'[c] = NewReplay(e)
      PROVE  replays'[c].event = e /\ replays'[c].status = "pending"
  BY <1>2, NewReplayType
<1>. QED BY <1>1, <1>2, HeadMoves, NoneIsNoDelivery

\* A delivery with an event keeps it, so what is present of it stays present.
LEMMA DeliveryPresentStep ==
  ASSUME TypeOK, Linked, AckIsCompleted, [Next]_vars,
         NEW c \in Commands, replays[c].event # None,
         Present(replays[c].event, c)
  PROVE  /\ replays'[c].event = replays[c].event
         /\ PresentNext(replays'[c].event, c)
<1>1. replays[c].event \in Events
  BY DEF TypeOK, ReplayRow
<1>2. replays'[c].event = replays[c].event
  BY ReplaysStep DEF Linked, DeliveryKept, DeliveryCreated
<1>. QED BY <1>1, <1>2, PresentStep

LEMMA SentIsPresentStep ==
  ASSUME TypeOK, Linked, AckIsCompleted, SentIsPresent, [Next]_vars
  PROVE  SentIsPresent'
<1>1. ASSUME NEW e \in published' PROVE PresentNext(e, Source)
  <2>1. CASE e \in published
    BY <2>1, PresentStep DEF SentIsPresent, TypeOK
  <2>2. CASE e \notin published
    <3>1. PICK n \in Events : SourceStep(n)
      BY <2>2, StepFrame DEF Frame, SourceChange, sourceVars
    <3>2. NewMessage(n, Source) \in messages' /\ n = e
      BY <2>2, <3>1 DEF SourceStep, Commit, Overtake, Publish
    <3>. QED BY <3>2 DEF NewMessage, PresentNext
  <2>. QED BY <2>1, <2>2
<1>2. ASSUME NEW c \in Commands, replays'[c].status = "published"
      PROVE  PresentNext(replays'[c].event, c)
  <2>1. replays[c].event # None
    BY <1>2, ReplaysStep DEF Linked, DeliveryKept, DeliveryCreated
  <2>2. Present(replays[c].event, c)
    BY <1>2, <2>1, DeliveryStep DEF DeliveryMoved, SentIsPresent, Linked
  <2>. QED BY <2>1, <2>2, DeliveryPresentStep
<1>3. ASSUME NEW k \in Couriers, couriers'[k].sent, NEW c \in couriers'[k].batch
      PROVE  PresentNext(replays'[c].event, c)
  <2>1. c \in Commands /\ replays[c].event # None
    BY CouriersStep DEF Courier
  <2>2. CASE couriers[k].sent /\ c \in couriers[k].batch
    BY <2>1, <2>2, DeliveryPresentStep DEF SentIsPresent
  <2>3. ASSUME SendReplays(k) PROVE PresentNext(replays'[c].event, c)
    <3>1. c \in couriers[k].batch /\ replays' = replays
      BY <2>3 DEF SendReplays, deliveryVars, TypeOK, Courier
    <3>2. NewMessage(replays[c].event, c) \in messages'
      BY <2>3, <3>1 DEF SendReplays, Wrapped
    <3>. QED BY <3>1, <3>2 DEF PresentNext, NewMessage
  <2>4. couriers'[k] = couriers[k] \/ SendReplays(k)
        \/ (couriers[k].sent /\ c \in couriers[k].batch)
    <3>1. ASSUME NEW j \in Couriers, CheckPending(j) \/ CourierStep(j), j # k
          PROVE  couriers'[k] = couriers[k]
      BY <3>1
      DEF CheckPending, CourierStep, ClaimDeliveries, SendReplays,
          SendReplaysUncertain, FinishDelivery, CourierDone, CrashCourier, TypeOK
    <3>2. CASE CheckPending(k) \/ SendReplaysUncertain(k)
      BY <1>3, <3>2 DEF CheckPending, SendReplaysUncertain, TypeOK, Courier
    <3>3. CASE ClaimDeliveries(k)
      BY <1>3, <3>3 DEF ClaimDeliveries, IdleCourier, TypeOK, Courier
    <3>4. ASSUME NEW d \in Commands, FinishDelivery(k, d)
          PROVE  couriers[k].sent /\ c \in couriers[k].batch
      BY <1>3, <3>4
      DEF FinishDelivery, CourierDone, IdleCourier, TypeOK, Courier
    <3>5. CASE CrashCourier(k)
      BY <1>3, <3>5 DEF CrashCourier, IdleCourier, TypeOK, Courier
    <3>. QED BY <3>1, <3>2, <3>3, <3>4, <3>5, StepFrame
         DEF Frame, CouriersChange, CourierStep
  <2>. QED BY <1>3, <2>2, <2>3, <2>4
<1>. QED BY <1>1, <1>2, <1>3 DEF SentIsPresent, PresentNext, Present

DeliveryInv == AckIsCompleted /\ HeadIsLive /\ SentIsPresent

LEMMA DeliveryInvariant == Spec => []DeliveryInv
<1>1. Init => DeliveryInv
  BY NoneIsNoDelivery
  DEF Init, DeliveryInv, AckIsCompleted, HeadIsLive, SentIsPresent,
      IdleExecutor, IdleCourier, NoReplay, Deliveries
<1>2. TypeOK /\ Linked /\ DeliveryInv /\ [Next]_vars => DeliveryInv'
  BY AckStep, HeadIsLiveStep, SentIsPresentStep DEF DeliveryInv
<1>. QED BY <1>1, <1>2, LinkedInvariant, PTL DEF Spec

\* Every event the queue ever accepted is completed, or its current generation
\* is in a queue, recorded as failed, or still to be sent: no crash, lost
\* answer, repeated delivery, late send or operator command strands it.
THEOREM NeverStrandedHolds == Spec => []NeverStranded
<1>1. TypeOK /\ Linked /\ DeliveryInv => NeverStranded
  <2>. SUFFICES ASSUME TypeOK, Linked, DeliveryInv, NEW e \in published,
                       jobs[e].status # "completed"
                PROVE  \/ \E m \in messages :
                            m.event = e /\ m.delivery = Generation(e)
                       \/ <<e, Generation(e)>> \in terminals
                       \/ /\ head[e] \in Commands
                          /\ replays[head[e]].status
                               \in {"pending", "leased", "failed"}
    BY DEF NeverStranded
  <2>1. e \in Events /\ head[e] \in Deliveries \cup {None}
    BY DEF TypeOK
  <2>2. CASE Generation(e) = Source
    BY <2>2 DEF DeliveryInv, SentIsPresent, Present
  <2>3. CASE head[e] \in Commands
    <3>. DEFINE c == head[e]
    <3>1. /\ replays[c].event = e /\ Generation(e) = c
          /\ replays[c].status \notin {"absent", "superseded", "cancelled"}
      BY <2>1, <2>3, NoneIsNoDelivery
      DEF DeliveryInv, HeadIsLive, Linked, Generation, Deliveries
    <3>2. replays[c].status \in ReplayStatus
      BY <2>3 DEF TypeOK, ReplayRow
    <3>3. CASE replays[c].status = "published"
      BY <2>3, <3>1, <3>3 DEF DeliveryInv, SentIsPresent, Present
    <3>. QED BY <2>3, <3>1, <3>2, <3>3 DEF ReplayStatus
  <2>. QED BY <2>1, <2>2, <2>3 DEF Deliveries, Generation
<1>. QED BY <1>1, LinkedInvariant, DeliveryInvariant, PTL
=============================================================================
