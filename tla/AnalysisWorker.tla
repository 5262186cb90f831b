--------------------------- MODULE AnalysisWorker ---------------------------
(***************************************************************************)
(* Project analysis with the Go backend: POST /api/project-analyses        *)
(* inserts a run and publishes its job, and the analysis worker drives the *)
(* run to its end (internal/backend/project_analysis_api.go,               *)
(* project_analysis_worker.go) over the table of AnalysisStore.            *)
(*                                                                         *)
(* A worker keeps the row it read last and decides on it.  The broker may  *)
(* hold several jobs of a run: a requeued delivery, a retry, or what the   *)
(* reconcile endpoint publishes for a run that is in hand already.         *)
(***************************************************************************)
EXTENDS AnalysisStore

CONSTANTS
  Worker,       \* deliveries the worker process handles at once
  MaxAttempts,  \* config.MaxAttempts
  MaxCopies,    \* bound on the jobs of one run at the broker
  Trouble       \* kinds of trouble: "failures" of calls and processes,
                \* "rejections" by the evaluator, "leases" that expire under
                \* a slow attempt, execution "timeouts", "reconcile" calls by
                \* an operator

ASSUME WorkerAssumption ==
  /\ StoreAssumption
  /\ IsFiniteSet(Worker)
  /\ MaxTry >= 1 \* AutomaticRetries
  /\ MaxAttempts \in Nat \ {0}
  /\ MaxCopies \in Nat \ {0}
  /\ Trouble \subseteq {"failures", "rejections", "leases", "timeouts",
                  "reconcile"}

VARIABLES
  request,   \* where the POST of each run stands
  ready,     \* copies of each job a worker may be given
  accepted,  \* runs a job of which the broker has accepted
  dead,      \* runs in the dead letter queue
  worker,    \* what each delivery is doing
  healthy,   \* no call fails and no process dies
  trouble    \* the kinds of trouble this deployment meets

broker == <<ready, accepted>>
weather == <<healthy, trouble>>
vars == <<table, assessment, remote, request, ready, accepted, dead, worker,
          healthy, trouble>>

Job == [run : Run, attempt : 0 .. MaxAttempts - 1]
Place == {"idle", "load", "reserve", "reload", "create", "attach",
          "schedule", "fail", "poll", "update", "prepare", "artifacts",
          "finalizing", "commit", "park", "retry", "dead", "ack"}

\* next is what a reload is for; end and error are those of a pending fail.
Handling ==
  [at : Place, run : Run \cup {None}, attempt : 0 .. MaxAttempts, view : Row,
   next : {"pass", "create", "park", "attached"},
   end : Terminal \ {"completed"},
   error : {"none", "analysis_timeout", "other"}]
Idle ==
  [at |-> "idle", run |-> None, attempt |-> 0, view |-> Absent,
   next |-> "pass", end |-> "failed", error |-> "none"]

TypeOK ==
  /\ StoreTypeOK
  /\ request \in [Run -> {"start", "insert", "publish", "done"}]
  /\ ready \in [Job -> 0 .. MaxCopies]
  /\ accepted \in SUBSET Run
  /\ dead \in SUBSET Run
  /\ worker \in [Worker -> Handling]
  /\ healthy \in BOOLEAN
  /\ trouble \subseteq Trouble

Init ==
  /\ StoreInit
  /\ request = [r \in Run |-> "start"]
  /\ ready = [m \in Job |-> 0]
  /\ accepted = {}
  /\ dead = {}
  /\ worker = [w \in Worker |-> Idle]
  /\ healthy = TRUE
  /\ trouble \in SUBSET Trouble

-----------------------------------------------------------------------------
(* Jobs at the broker.                                                     *)

On(w, place) == worker[w].at = place
Held(w) == [run |-> worker[w].run, attempt |-> worker[w].attempt]

\* The jobs of run r at the broker, those a worker is handling included.
InHand(r) == {w \in Worker : worker[w].run = r}
Waiting(r) ==
  {copy \in (0 .. MaxAttempts - 1) \X (1 .. MaxCopies) :
     copy[2] <= ready[[run |-> r, attempt |-> copy[1]]]}
Copies(r) == Cardinality(InHand(r)) + Cardinality(Waiting(r))

Publish(m) ==
  /\ Copies(m.run) < MaxCopies
  /\ ready' = [ready EXCEPT ![m] = @ + 1]
  /\ accepted' = accepted \cup {m.run}

\* A publish whose confirmation does not arrive.
PublishFails(m) == ~healthy /\ (Publish(m) \/ UNCHANGED broker)

-----------------------------------------------------------------------------
(* POST /api/project-analyses and the reconcile endpoint.                  *)

Ask(r, place) == request' = [request EXCEPT ![r] = place]

Lookup(r) ==
  /\ request[r] = "start"
  /\ Ask(r, IF Reusable(KeyOf[r]) THEN "done" ELSE "insert")
  /\ UNCHANGED <<store, broker, dead, worker, weather>>

\* The job is published only by the call that inserted the row; another one
\* is answered with the open run.
Admit(r) ==
  /\ request[r] = "insert"
  /\ \/ Insert(r) /\ Ask(r, "publish")
     \/ Taken(KeyOf[r]) /\ Ask(r, "done") /\ UNCHANGED table
     \/ ~healthy /\ (Insert(r) \/ UNCHANGED table) /\ Ask(r, "done")
  /\ UNCHANGED <<assessment, remote, broker, dead, worker, weather>>

Enqueue(r) ==
  /\ request[r] = "publish"
  /\ LET first == [run |-> r, attempt |-> 0]
     IN Publish(first) \/ PublishFails(first)
  /\ Ask(r, "done")
  /\ UNCHANGED <<store, dead, worker, weather>>

\* A listed run gets a new first job, in hand or not.
Reconcile(r) ==
  /\ "reconcile" \in trouble
  /\ Reconciliable(r)
  /\ Publish([run |-> r, attempt |-> 0])
  /\ UNCHANGED <<store, request, dead, worker, weather>>

-----------------------------------------------------------------------------
(* Steps of a delivery.                                                    *)

\* What a worker uses of a row.
View(row) == [row EXCEPT !.active = FALSE, !.error = "none", !.result = None]

\* The row of the last read is of no more use in the end of a delivery.
Moved(w, place, row) ==
  [Idle EXCEPT !.at = place, !.run = worker[w].run,
               !.attempt = worker[w].attempt,
               !.view = IF place \in {"ack", "retry", "dead", "park"}
                        THEN Absent ELSE View(row)]

GoWith(w, place, row) ==
  worker' = [worker EXCEPT ![w] = Moved(w, place, row)]
Go(w, place) == GoWith(w, place, worker[w].view)

\* The call is carried out, and its answer arrives or is lost.
Answered(w, place) == Go(w, place) \/ (~healthy /\ Go(w, "retry"))

\* reloadRun, then what it is for.
Refresh(w, next) ==
  worker' = [worker EXCEPT ![w] =
    [Moved(w, "reload", worker[w].view) EXCEPT !.next = next]]
Refreshed(w, next) ==
  Refresh(w, next) \/ (~healthy /\ Go(w, "retry"))

\* failRun with the given end.
DoomWith(w, end, error, row) ==
  worker' = [worker EXCEPT ![w] =
    [Moved(w, "fail", row) EXCEPT !.end = end, !.error = error]]
Doom(w, end, error) == DoomWith(w, end, error, worker[w].view)

\* A retry time in a view has passed once that of the row has.
Elapsed(r, row) == row.wait = "pending" => table[r].wait # "pending"
Exhausted(r, row) == row.attempts >= MaxCreates /\ Elapsed(r, row)

\* Mutant of Pass: the execution timeout is not enforced.
PassUntimed(w, row) ==
  IF row.status \in Terminal THEN GoWith(w, "ack", row)
  ELSE IF row.thread # None THEN GoWith(w, "poll", row)
  ELSE IF Exhausted(worker[w].run, row)
    THEN DoomWith(w, "failed", "other", row)
  ELSE GoWith(w, "reserve", row)

\* One pass of the loop in process on the row just read: what ends the
\* delivery or the run, or the next call.
Pass(w, row) ==
  IF row.status \in Terminal THEN GoWith(w, "ack", row)
  ELSE IF row.clock = "overdue"
    THEN DoomWith(w, "expired", "analysis_timeout", row)
  ELSE IF row.thread # None THEN GoWith(w, "poll", row)
  ELSE IF Exhausted(worker[w].run, row)
    THEN DoomWith(w, "failed", "other", row)
  ELSE GoWith(w, "reserve", row)

Deliver(w, m) ==
  /\ On(w, "idle")
  /\ ready[m] > 0
  /\ ready' = [ready EXCEPT ![m] = @ - 1]
  /\ worker' = [worker EXCEPT ![w] =
       [Idle EXCEPT !.at = "load", !.run = m.run, !.attempt = m.attempt]]
  /\ UNCHANGED <<store, request, accepted, dead, weather>>

Load(w) ==
  /\ On(w, "load")
  /\ Pass(w, table[worker[w].run])
  /\ UNCHANGED <<store, request, broker, dead, weather>>

\* After a failed read the row known before is used.
Reload(w) ==
  /\ On(w, "reload")
  /\ \E row \in {table[worker[w].run]} \cup
                (IF healthy THEN {} ELSE {worker[w].view}) :
       CASE worker[w].next = "pass" -> Pass(w, row)
         [] worker[w].next = "attached" ->
              IF row.thread = None THEN Go(w, "retry") ELSE Pass(w, row)
         [] OTHER -> GoWith(w, worker[w].next, row)
  /\ UNCHANGED <<store, request, broker, dead, weather>>

\* A call that fails without effect; only the snapshot of a thread and the
\* reading of artifacts have an answer of their own for that.
CallFails(w) ==
  /\ ~healthy
  /\ worker[w].at \in {"load", "reserve", "attach", "schedule", "fail",
                       "update", "prepare", "finalizing", "reload"}
  /\ Go(w, "retry")
  /\ UNCHANGED <<store, request, broker, dead, weather>>

FailRun(w) ==
  /\ On(w, "fail")
  /\ Fail(worker[w].run, worker[w].end, worker[w].error, None)
  /\ Refreshed(w, "pass")
  /\ UNCHANGED <<assessment, remote, request, broker, dead, weather>>

\* A reservation that fails, for want of a slot or before its time, parks.
ReserveSlot(w) ==
  /\ On(w, "reserve")
  /\ \/ Reserve(worker[w].run) /\ Refreshed(w, "create")
     \/ ~Reservable(worker[w].run) /\ Refresh(w, "park") /\ UNCHANGED table
  /\ UNCHANGED <<assessment, remote, request, broker, dead, weather>>

\* Leave this delivery and publish m in its place, when it is acknowledged;
\* an acknowledgement that is lost brings the delivery back as well.
Replace(w, m) ==
  /\ worker' = [worker EXCEPT ![w] = Idle]
  /\ accepted' = accepted \cup {m.run}
  /\ \/ ready' = [ready EXCEPT ![m] = @ + 1]
     \/ /\ ~healthy /\ Copies(m.run) < MaxCopies
        /\ LET sent == [ready EXCEPT ![m] = @ + 1]
           IN ready' = [sent EXCEPT ![Held(w)] = @ + 1]

Acknowledge(w) == worker' = [worker EXCEPT ![w] = Idle] /\ UNCHANGED ready
Requeue(w) ==
  /\ ready' = [ready EXCEPT ![Held(w)] = @ + 1]
  /\ worker' = [worker EXCEPT ![w] = Idle]

\* Mutant of Park: the failure of the publish is ignored.
ParkIgnores(w) ==
  /\ On(w, "park")
  /\ \/ Replace(w, Held(w))
     \/ ~healthy /\ Acknowledge(w) /\ UNCHANGED accepted
  /\ UNCHANGED <<store, request, dead, weather>>

\* redriveDeferred: the same job again, with the same attempt.
Park(w) ==
  /\ On(w, "park")
  /\ \/ Replace(w, Held(w))
     \/ ~healthy /\ Go(w, "retry") /\ UNCHANGED broker
  /\ UNCHANGED <<store, request, dead, weather>>

\* The evaluator is asked for the thread of the idempotency key.  An answer
\* it loses or refuses for now is tried again after a delay, up to
\* MaxCreates times; another refusal fails the run.
Create(w) ==
  /\ On(w, "create")
  /\ LET r == worker[w].run
         row == worker[w].view
         again == IF row.attempts >= MaxCreates
                  THEN Doom(w, "failed", "other") ELSE Go(w, "schedule")
     IN \/ CreateThread(r, row.try) /\ Go(w, "attach")
        \/ CreateThread(r, row.try) /\ ~healthy /\ again
        \/ (~healthy \/ "rejections" \in trouble) /\ again
             /\ UNCHANGED remote
        \/ "rejections" \in trouble /\ Doom(w, "failed", "other")
             /\ UNCHANGED remote
  /\ UNCHANGED <<table, assessment, request, broker, dead, weather>>

ScheduleRetry(w) ==
  /\ On(w, "schedule")
  /\ \/ Schedule(worker[w].run) /\ Answered(w, "park")
     \/ ~Schedulable(worker[w].run) /\ Go(w, "retry") /\ UNCHANGED table
  /\ UNCHANGED <<assessment, remote, request, broker, dead, weather>>

AttachThread(w) ==
  /\ On(w, "attach")
  /\ LET r == worker[w].run
     IN \/ Attach(r, worker[w].view.try) /\ Refreshed(w, "attached")
        \/ ~Attachable(r) /\ Go(w, "retry") /\ UNCHANGED table
  /\ UNCHANGED <<assessment, remote, request, broker, dead, weather>>

AutomaticRetries == 1
Snapshot(w) == remote[worker[w].run][worker[w].view.thread]

\* The snapshot of the thread decides.  When it cannot be had for now, the
\* worker sleeps and reads the row again.
Poll(w) ==
  /\ On(w, "poll")
  /\ LET seen == Snapshot(w)
         retry == seen = "inactive" /\ worker[w].view.try < AutomaticRetries
     IN \/ seen = "running" /\ Go(w, "update")
        \/ seen \in Evaluated /\ Go(w, "artifacts")
        \/ retry /\ Go(w, "prepare")
        \/ ~retry /\ seen \in {"waiting_input", "failed", "inactive",
                               "interrupted"} /\ Doom(w, "failed", "other")
        \/ seen \in {"cancelled", "expired"} /\ Doom(w, seen, "other")
        \/ "rejections" \in trouble /\ Doom(w, "failed", "other")
        \/ ~healthy /\ Refresh(w, "pass")
  /\ UNCHANGED <<store, request, broker, dead, weather>>

\* The run is running, whatever has become of it since the snapshot.
UpdateState(w) ==
  /\ On(w, "update")
  /\ Update(worker[w].run, "running", None)
  /\ Refreshed(w, "pass")
  /\ UNCHANGED <<assessment, remote, request, broker, dead, weather>>

PrepareRetry(w) ==
  /\ On(w, "prepare")
  /\ LET r == worker[w].run
         row == worker[w].view
     IN \/ /\ Prepare(r, row.thread, row.try + 1)
           /\ \/ Pass(w, Requeued(table[r], row.try + 1))
              \/ ~healthy /\ Go(w, "retry")
        \/ Preparable(r, row.thread) /\ ~KeyFree(r) /\ Go(w, "retry")
             /\ UNCHANGED table
        \/ ~Preparable(r, row.thread) /\ Refresh(w, "pass")
             /\ UNCHANGED table
  /\ UNCHANGED <<assessment, remote, request, broker, dead, weather>>

\* Artifacts that are not there yet are waited for during a grace period;
\* any other failure to read them fails the run.
ReadArtifacts(w) ==
  /\ On(w, "artifacts")
  /\ \/ Snapshot(w) = "committing" /\ Refresh(w, "pass")
     \/ (Snapshot(w) = "committing" \/ ~healthy) /\ Doom(w, "failed", "other")
     \/ Snapshot(w) # "committing" /\ Go(w, "finalizing")
  /\ UNCHANGED <<store, request, broker, dead, weather>>

\* The run is marked, then the artifacts are validated.
MarkFinalizing(w) ==
  /\ On(w, "finalizing")
  /\ Update(worker[w].run, "finalizing", None)
  /\ \/ Snapshot(w) = "valid" /\ Go(w, "commit")
     \/ Snapshot(w) = "invalid" /\ Doom(w, "failed", "other")
     \/ ~healthy /\ Go(w, "retry")
  /\ UNCHANGED <<assessment, remote, request, broker, dead, weather>>

\* A transaction that fails fails the run.
Commit(w) ==
  /\ On(w, "commit")
  /\ LET r == worker[w].run
     IN \/ /\ Finalize(r, worker[w].view.thread)
           /\ \/ Go(w, "ack")
              \/ ~healthy /\ Doom(w, "failed", "other")
        \/ /\ table[r].status = "completed" /\ Go(w, "ack")
           /\ UNCHANGED <<table, assessment>>
        \/ /\ ~healthy \/ table[r].status \in Terminal \ {"completed"}
           /\ Doom(w, "failed", "other")
           /\ UNCHANGED <<table, assessment>>
  /\ UNCHANGED <<remote, request, broker, dead, weather>>

-----------------------------------------------------------------------------
(* The end of a delivery.                                                  *)

Ack(w) ==
  /\ On(w, "ack")
  /\ Acknowledge(w)
  /\ UNCHANGED <<store, request, accepted, dead, weather>>

\* A delivery that is to be retried is replaced by the next attempt or, when
\* that would be too many, goes to the dead letter queue; it returns to its
\* queue when the publish fails.
Retry(w) ==
  /\ On(w, "retry")
  /\ \/ /\ worker[w].attempt + 1 >= MaxAttempts
        /\ Go(w, "dead")
        /\ UNCHANGED broker
     \/ /\ worker[w].attempt + 1 < MaxAttempts
        /\ LET next == [Held(w) EXCEPT !.attempt = @ + 1]
           IN \/ Replace(w, next)
              \/ ~healthy /\ Requeue(w) /\ UNCHANGED accepted
  /\ UNCHANGED <<store, request, dead, weather>>

Bury(w) ==
  /\ On(w, "dead")
  /\ \/ dead' = dead \cup {worker[w].run} /\ Acknowledge(w)
     \/ /\ ~healthy
        /\ dead' \in {dead, dead \cup {worker[w].run}}
        /\ Requeue(w)
  /\ UNCHANGED <<store, request, accepted, weather>>

\* The worker process dies: the broker takes the delivery back.
Crash(w) ==
  /\ ~healthy
  /\ ~On(w, "idle")
  /\ Requeue(w)
  /\ UNCHANGED <<store, request, accepted, dead, weather>>

-----------------------------------------------------------------------------
(* The environment.                                                        *)

\* While leases are long enough, only a scheduled retry comes due.
Time(r) ==
  /\ \/ ComeDue(r) /\ ("leases" \in trouble \/ table[r].status = "queued"
                         \/ \A w \in Worker : worker[w].run # r)
     \/ RunOver(r) /\ "timeouts" \in trouble
  /\ UNCHANGED <<assessment, remote, request, broker, dead, worker, weather>>

Evaluator(r) ==
  /\ \E t \in Try : Evaluate(r, t) \/ CommitArtifacts(r, t)
  /\ UNCHANGED <<table, assessment, request, broker, dead, worker, weather>>

Weather ==
  /\ "failures" \in trouble
  /\ healthy' = ~healthy
  /\ UNCHANGED <<store, request, broker, dead, worker, trouble>>

Submit(r) == Lookup(r) \/ Admit(r) \/ Enqueue(r)

Work(w) ==
  \/ Load(w) \/ Reload(w) \/ FailRun(w) \/ ReserveSlot(w) \/ Park(w)
  \/ Create(w) \/ ScheduleRetry(w) \/ AttachThread(w) \/ Poll(w)
  \/ UpdateState(w) \/ PrepareRetry(w) \/ ReadArtifacts(w)
  \/ MarkFinalizing(w) \/ Commit(w) \/ Ack(w) \/ Retry(w) \/ Bury(w)

Next ==
  \/ \E r \in Run : Submit(r) \/ Reconcile(r) \/ Time(r) \/ Evaluator(r)
  \/ \E w \in Worker : Work(w) \/ CallFails(w) \/ Crash(w)
  \/ \E w \in Worker, m \in Job : Deliver(w, m)
  \/ Weather

Spec == Init /\ [][Next]_vars

\* Workers go on with what they were given and take what is ready, and time
\* passes.
Fairness ==
  /\ \A w \in Worker :
       /\ WF_vars(Work(w))
       /\ WF_vars(\E m \in Job : Deliver(w, m))
  /\ \A r \in Run : WF_vars(Time(r))

LiveSpec == Spec /\ Fairness

-----------------------------------------------------------------------------
(* Properties.                                                             *)

Carried(r) == Copies(r) > 0

\* A run a job of which was accepted is never left behind: while it is open
\* there is a delivery of it, parked or in hand, or it is in the dead letter
\* queue (handleDelivery, redriveDeferred).
OpenIsCarried ==
  \A r \in accepted : Open(table[r]) => Carried(r) \/ r \in dead

\* Once calls succeed, every accepted run that is not in the dead letter
\* queue ends.
RunsEnd ==
  <>[]healthy =>
    \A r \in Run : r \in accepted ~> ~Open(table[r]) \/ r \in dead

\* Nobody else has a delivery of a run, and its lease outlasts every attempt.
Alone == trouble \cap {"failures", "leases", "reconcile"} = {}

\* No accepted run is left without a delivery, a key has one open run, an end
\* is final, an assessment is backed by valid artifacts; and, unless leases
\* expire under a slow attempt, calls fail or an operator reconciles, the slots
\* bound what runs and a run in evaluation has its thread.
AnalysisWorkerSafe ==
  /\ [](TypeOK /\ OneOpenRun /\ AssessmentIsBacked /\ OpenIsCarried
        /\ (Alone => SlotBound /\ ThreadIsKnown))
  /\ [][EndIsFinal]_vars
=============================================================================
