------------------------------ MODULE ScanJobs ------------------------------
(***************************************************************************)
(* The public quick scan of one account: POST /api/scan admits a job,      *)
(* RabbitMQ carries it, and the scan worker collects, persists and reports *)
(* it (internal/backend/http.go, scan_worker.go, scan_persistence.go).     *)
(*                                                                         *)
(* A job is known in four places that no transaction spans: the status     *)
(* record and the flight lock in Upstash, the message at the broker, and   *)
(* the persisted result in Turso.  Every call that crosses a process may   *)
(* fail while the environment is not healthy, with or without its effect.  *)
(***************************************************************************)
EXTENDS Naturals, FiniteSets

CONSTANTS
  Request,      \* calls of POST /api/scan for the account
  Job,          \* job identifiers
  JobOf,        \* the job a request names
  Keyed,        \* requests with an Idempotency-Key: they may share a job
  Worker,       \* deliveries a worker process handles at once
  Snapshot,     \* contents a collection of the account may return
  MaxAttempts,  \* config.MaxAttempts
  MaxCopies,    \* bound on equal copies of a message at the broker
  Trouble,      \* what may go wrong: "failures" of calls and processes,
                \* "expiry" of the flight lock
  None

ASSUME ScanAssumption ==
  /\ JobOf \in [Request -> Job]
  /\ Keyed \subseteq Request
  \* a request without a key gets a fresh random identifier
  /\ \A r \in Request \ Keyed : \A q \in Request : JobOf[q] = JobOf[r] => q = r
  /\ IsFiniteSet(Worker)
  /\ MaxAttempts \in Nat \ {0}
  /\ MaxCopies \in Nat \ {0}
  /\ Trouble \subseteq {"failures", "expiry"}
  /\ None \notin Snapshot \cup Job \cup Request

VARIABLES
  request,    \* position of each request and whether it holds the lock
  status,     \* the status record of each job
  lock,       \* the request whose SET NX created the flight lock, or None
  cached,     \* the account's scan is in the cache
  ready,      \* copies of each message a worker may be given
  published,  \* jobs some publish of which the broker has accepted
  dead,       \* jobs in the dead letter queue
  result,     \* public_scan_runs: the snapshot persisted for each job
  worker,     \* what each worker slot is doing
  healthy,    \* no call fails and no process dies
  quiet       \* history: no call could fail and no lock has expired so far

vars == <<request, status, lock, cached, ready, published, dead, result,
          worker, healthy, quiet>>
conditions == <<healthy, quiet>>

Attempt == 0 .. MaxAttempts
Message == [job : Job, attempt : 0 .. MaxAttempts - 1]
State == {"absent", "queued", "running", "retrying", "completed", "failed"}

RequestState ==
  [at : {"start", "await", "reacquire", "status", "queue", "publish",
         "withdraw", "done"},
   locked : BOOLEAN]
WorkerState ==
  [at : {"idle", "begin", "collect", "persist", "complete", "retry",
         "retried", "ack", "report", "bury", "release"},
   job : Job \cup {None}, attempt : Attempt,
   scan : Snapshot \cup {None},
   failure : {"none", "transient", "permanent", "conflict"}]

Idle == [at |-> "idle", job |-> None, attempt |-> 0, scan |-> None,
         failure |-> "none"]

TypeOK ==
  /\ request \in [Request -> RequestState]
  /\ status \in [Job -> State]
  /\ lock \in Request \cup {None}
  /\ cached \in BOOLEAN
  /\ ready \in [Message -> 0 .. MaxCopies]
  /\ published \in SUBSET Job
  /\ dead \in SUBSET Job
  /\ result \in [Job -> Snapshot \cup {None}]
  /\ worker \in [Worker -> WorkerState]
  /\ healthy \in BOOLEAN
  /\ quiet \in BOOLEAN

Init ==
  /\ request = [r \in Request |-> [at |-> "start", locked |-> FALSE]]
  /\ status = [j \in Job |-> "absent"]
  /\ lock = None
  /\ cached = FALSE
  /\ ready = [m \in Message |-> 0]
  /\ published = {}
  /\ dead = {}
  /\ result = [j \in Job |-> None]
  /\ worker = [w \in Worker |-> Idle]
  /\ healthy = TRUE
  /\ quiet = TRUE

-----------------------------------------------------------------------------
(* Calls.  Put stores a status record; a call that fails may have been     *)
(* carried out all the same, since only its answer was lost.               *)

Put(j, s) == status' = [status EXCEPT ![j] = s]
PutFails(j, s) == ~healthy /\ (Put(j, s) \/ UNCHANGED status)

\* Copies of message m at the broker, those a worker is handling included.
Holding == {w \in Worker : worker[w].at \notin {"idle", "release"}}
Held(w) == [job |-> worker[w].job, attempt |-> worker[w].attempt]
Copies(m) == ready[m] + Cardinality({w \in Holding : Held(w) = m})

\* A confirmed publish of message m, while there is room for a copy.
Publish(m) ==
  /\ Copies(m) < MaxCopies
  /\ ready' = [ready EXCEPT ![m] = @ + 1]
  /\ published' = published \cup {m.job}
PublishFails(m) ==
  ~healthy /\ (Publish(m) \/ UNCHANGED <<ready, published>>)

At(r, place) == request[r].at = place
Go(r, place) == request' = [request EXCEPT ![r].at = place]

\* A job carries the flag its admission decided; keyed jobs never have it.
FlightLock(j) == \E r \in Request : JobOf[r] = j /\ request[r].locked

-----------------------------------------------------------------------------
(* Admission: POST /api/scan.                                              *)

Acquire(r) ==
  /\ lock = None
  /\ lock' = r
  /\ request' = [request EXCEPT ![r] = [at |-> "status", locked |-> TRUE]]

\* SET NX whose answer is lost: the request goes on without the lock.
AcquireFails(r) ==
  /\ ~healthy
  /\ lock' \in {lock, IF lock = None THEN r ELSE lock}
  /\ Go(r, "status")

\* A cached scan answers the request unless it is forced; otherwise an
\* unkeyed request tries the flight lock.
Arrive(r) ==
  /\ At(r, "start")
  /\ \/ cached /\ Go(r, "done") /\ UNCHANGED lock
     \/ r \notin Keyed /\ Acquire(r)
     \/ r \notin Keyed /\ lock # None /\ Go(r, "await") /\ UNCHANGED lock
     \/ r \notin Keyed /\ AcquireFails(r)
     \/ r \in Keyed /\ Go(r, "status") /\ UNCHANGED lock
  /\ UNCHANGED <<status, cached, ready, published, dead, result, worker,
                 conditions>>

\* A request that found the lock taken waits for the cache, and when the
\* wait has run out tries the lock once more, whatever the outcome.
AwaitFlight(r) ==
  /\ At(r, "await")
  /\ (cached /\ Go(r, "done")) \/ Go(r, "reacquire")
  /\ UNCHANGED <<status, lock, cached, ready, published, dead, result, worker,
                 conditions>>

Reacquire(r) ==
  /\ At(r, "reacquire")
  /\ \/ Acquire(r)
     \/ AcquireFails(r)
     \/ lock # None /\ Go(r, "status") /\ UNCHANGED lock
  /\ UNCHANGED <<status, cached, ready, published, dead, result, worker,
                 conditions>>

\* Is the job known already?  A failed read answers 503 and returns.
ReadStatus(r) ==
  /\ At(r, "status")
  /\ \/ /\ status[JobOf[r]] = "absent" /\ Go(r, "queue") /\ UNCHANGED lock
     \/ /\ status[JobOf[r]] # "absent" /\ Go(r, "done")
        /\ lock' = IF request[r].locked THEN None ELSE lock
     \/ ~healthy /\ Go(r, "done") /\ UNCHANGED lock
  /\ UNCHANGED <<status, cached, ready, published, dead, result, worker,
                 conditions>>

RecordQueued(r) ==
  /\ At(r, "queue")
  /\ \/ Put(JobOf[r], "queued") /\ Go(r, "publish") /\ UNCHANGED lock
     \/ /\ PutFails(JobOf[r], "queued") /\ Go(r, "done")
        /\ lock' = IF request[r].locked THEN None ELSE lock
  /\ UNCHANGED <<cached, ready, published, dead, result, worker, conditions>>

PublishScan(r) ==
  /\ At(r, "publish")
  /\ LET m == [job |-> JobOf[r], attempt |-> 0]
     IN \/ Publish(m) /\ Go(r, "done") /\ UNCHANGED lock
        \/ /\ PublishFails(m) /\ Go(r, "withdraw")
           /\ lock' = IF request[r].locked THEN None ELSE lock
  /\ UNCHANGED <<status, cached, dead, result, worker, conditions>>

\* The broker did not confirm: the job is reported failed, best effort.
Withdraw(r) ==
  /\ At(r, "withdraw")
  /\ Put(JobOf[r], "failed") \/ PutFails(JobOf[r], "failed")
  /\ Go(r, "done")
  /\ UNCHANGED <<lock, cached, ready, published, dead, result, worker,
                 conditions>>

-----------------------------------------------------------------------------
(* The worker.  A delivered message stays unacknowledged until the worker  *)
(* acknowledges it, rejects it, or dies.                                   *)

On(w, place) == worker[w].at = place
Step(w, place) == worker' = [worker EXCEPT ![w].at = place]
Fails(w, failure, place) ==
  worker' = [worker EXCEPT ![w].at = place, ![w].failure = failure]

admission == <<request, lock, cached>>

Deliver(w, m) ==
  /\ On(w, "idle")
  /\ ready[m] > 0
  /\ ready' = [ready EXCEPT ![m] = @ - 1]
  /\ worker' = [worker EXCEPT ![w] =
       [Idle EXCEPT !.at = "begin", !.job = m.job, !.attempt = m.attempt]]
  /\ UNCHANGED <<admission, status, published, dead, result, conditions>>

\* process: a job that cannot be reported as running is not started.
Begin(w) ==
  /\ On(w, "begin")
  /\ \/ Put(worker[w].job, "running") /\ Step(w, "collect")
     \/ PutFails(worker[w].job, "running") /\ Fails(w, "transient", "retry")
  /\ UNCHANGED <<admission, ready, published, dead, result, conditions>>

\* GitHub is asked again on every delivery, and may answer differently.
Collect(w) ==
  /\ On(w, "collect")
  /\ \/ \E s \in Snapshot :
          worker' = [worker EXCEPT ![w].at = "persist", ![w].scan = s]
     \/ Fails(w, "permanent", "report")
     \/ ~healthy /\ Fails(w, "transient", "retry")
  /\ UNCHANGED <<admission, status, ready, published, dead, result, conditions>>

\* The row the transaction leaves: the first snapshot of a job stays.
Persisted(w) ==
  LET j == worker[w].job
  IN [result EXCEPT ![j] = IF @ = None THEN worker[w].scan ELSE @]

Conflict(w) == result[worker[w].job] \notin {None, worker[w].scan}

\* PersistCollectedScan, and on success the best-effort cache write.
Persist(w) ==
  /\ On(w, "persist")
  /\ \/ /\ ~Conflict(w)
        /\ result' = Persisted(w)
        /\ cached' = TRUE \/ (~healthy /\ UNCHANGED cached)
        /\ Step(w, "complete")
     \/ /\ Conflict(w)
        /\ Fails(w, "conflict", "report")
        /\ UNCHANGED <<result, cached>>
     \/ /\ ~healthy
        /\ result' \in {result, Persisted(w)}
        /\ Fails(w, "transient", "retry")
        /\ UNCHANGED cached
  /\ UNCHANGED <<request, lock, status, ready, published, dead, conditions>>

Complete(w) ==
  /\ On(w, "complete")
  /\ \/ Put(worker[w].job, "completed") /\ Step(w, "ack")
     \/ PutFails(worker[w].job, "completed") /\ Fails(w, "transient", "retry")
  /\ UNCHANGED <<admission, ready, published, dead, result, conditions>>

\* What follows the delivery's last answer to the broker: a completed or
\* permanently failed job releases the flight lock, a retried or exhausted
\* one does not.
Settle(w) ==
  worker' = [worker EXCEPT ![w] =
    IF worker[w].failure = "transient" \/ ~FlightLock(worker[w].job)
    THEN Idle ELSE [Idle EXCEPT !.at = "release", !.job = worker[w].job]]

Ack(w) ==
  /\ On(w, "ack")
  /\ Settle(w)
  /\ UNCHANGED <<admission, status, ready, published, dead, result, conditions>>

\* Nack with requeue.
Requeue(w) ==
  /\ ready' = [ready EXCEPT ![Held(w)] = @ + 1]
  /\ Settle(w)

\* DEL of the lock, whoever holds it by now.
ReleaseFlight(w) ==
  /\ On(w, "release")
  /\ lock' = None \/ (~healthy /\ UNCHANGED lock)
  /\ worker' = [worker EXCEPT ![w] = Idle]
  /\ UNCHANGED <<request, status, cached, ready, published, dead, result,
                 conditions>>

NextAttempt(m) == [m EXCEPT !.attempt = @ + 1]

\* Mutant of Retry: the delivery is acknowledged though the retry was not
\* published.
RetryDropped(w) ==
  /\ On(w, "retry")
  /\ \/ /\ worker[w].attempt + 1 >= MaxAttempts
        /\ Step(w, "report")
        /\ UNCHANGED <<ready, published>>
     \/ /\ worker[w].attempt + 1 < MaxAttempts
        /\ \/ Publish(NextAttempt(Held(w))) /\ Step(w, "retried")
           \/ ~healthy /\ Settle(w) /\ UNCHANGED <<ready, published>>
  /\ UNCHANGED <<admission, status, dead, result, conditions>>

\* The next attempt is published before it is recorded; the last one is
\* reported as failed instead.
Retry(w) ==
  /\ On(w, "retry")
  /\ \/ /\ worker[w].attempt + 1 >= MaxAttempts
        /\ Step(w, "report")
        /\ UNCHANGED <<ready, published>>
     \/ /\ worker[w].attempt + 1 < MaxAttempts
        /\ \/ Publish(NextAttempt(Held(w))) /\ Step(w, "retried")
           \/ ~healthy /\ Requeue(w) /\ UNCHANGED published
  /\ UNCHANGED <<admission, status, dead, result, conditions>>

\* ... and the record is allowed to fail.
RecordRetry(w) ==
  /\ On(w, "retried")
  /\ \/ Put(worker[w].job, "retrying")
     \/ PutFails(worker[w].job, "retrying")
  /\ Step(w, "ack")
  /\ UNCHANGED <<admission, ready, published, dead, result, conditions>>

\* deadLetterOrRequeue: the terminal status first, then the dead letter.
Report(w) ==
  /\ On(w, "report")
  /\ \/ Put(worker[w].job, "failed") /\ Step(w, "bury") /\ UNCHANGED ready
     \/ PutFails(worker[w].job, "failed") /\ Requeue(w)
  /\ UNCHANGED <<admission, published, dead, result, conditions>>

Bury(w) ==
  /\ On(w, "bury")
  /\ \/ /\ dead' = dead \cup {worker[w].job}
        /\ Step(w, "ack") /\ UNCHANGED ready
     \/ /\ ~healthy
        /\ dead' \in {dead, dead \cup {worker[w].job}}
        /\ Requeue(w)
  /\ UNCHANGED <<admission, status, published, result, conditions>>

-----------------------------------------------------------------------------
(* The environment.                                                        *)

\* A worker process dies: the broker takes the delivery back.
Crash(w) ==
  /\ ~healthy
  /\ ~On(w, "idle")
  /\ ready' = IF w \in Holding
              THEN [ready EXCEPT ![Held(w)] = @ + 1] ELSE ready
  /\ worker' = [worker EXCEPT ![w] = Idle]
  /\ UNCHANGED <<admission, status, published, dead, result, conditions>>

ExpireLock ==
  /\ "expiry" \in Trouble
  /\ lock # None
  /\ lock' = None
  /\ quiet' = FALSE
  /\ UNCHANGED <<request, status, cached, ready, published, dead, result,
                 worker, healthy>>

Weather ==
  /\ "failures" \in Trouble
  /\ healthy' = ~healthy
  /\ quiet' = FALSE
  /\ UNCHANGED <<request, status, lock, cached, ready, published, dead,
                 result, worker>>

Admit(r) ==
  \/ Arrive(r) \/ AwaitFlight(r) \/ Reacquire(r) \/ ReadStatus(r)
  \/ RecordQueued(r) \/ PublishScan(r) \/ Withdraw(r)

Work(w) ==
  \/ Begin(w) \/ Collect(w) \/ Persist(w) \/ Complete(w) \/ Ack(w)
  \/ ReleaseFlight(w) \/ Retry(w) \/ RecordRetry(w) \/ Report(w) \/ Bury(w)

Next ==
  \/ \E r \in Request : Admit(r)
  \/ \E w \in Worker : Work(w) \/ Crash(w)
  \/ \E w \in Worker, m \in Message : Deliver(w, m)
  \/ ExpireLock
  \/ Weather

Spec == Init /\ [][Next]_vars

\* Workers go on with what they were given and take what is ready.
Fairness ==
  \A w \in Worker :
    /\ WF_vars(Work(w))
    /\ WF_vars(\E m \in Message : Deliver(w, m))

LiveSpec == Spec /\ Fairness

-----------------------------------------------------------------------------
(* Properties.                                                             *)

Queued(j) == \E m \in Message : m.job = j /\ Copies(m) > 0

\* A job the broker accepted is never lost: it has a copy a worker will be
\* given again, or its result is persisted, or it is in the dead letter
\* queue (handleDelivery acknowledges only after one of these).
NothingLost ==
  \A j \in published : Queued(j) \/ result[j] # None \/ j \in dead

\* A job reported as completed has the result waitForScan and scanJobStatus
\* then read, whatever was delivered twice or out of order.
CompletedHasResult ==
  \A j \in Job : status[j] = "completed" => result[j] # None

\* The snapshot persisted for a job is never replaced by that of a later
\* delivery (PersistCollectedScan).
ResultIsFinal ==
  \A j \in Job : result[j] # None => result'[j] = result[j]

\* As long as nothing has failed and no lock has expired, the flight lock
\* keeps two cold requests from collecting the account at once: jobs that
\* carry the lock are in flight one after the other, the second only after
\* the first has released it (TryAcquireScanFlight, releaseFlight).
SingleFlight ==
  quiet =>
    \A i, j \in Job :
      FlightLock(i) /\ FlightLock(j) /\ Queued(i) /\ Queued(j) => i = j

\* Once calls succeed and workers survive, every accepted job settles.
JobsSettle ==
  <>[]healthy =>
    \A j \in Job : j \in published ~>
      (result[j] # None \/ j \in dead) /\ ~Queued(j)

\* The quick scan keeps its accepted jobs, reports only what it persisted,
\* never replaces a result and collects an account once at a time.
ScanJobsSafe ==
  /\ [](TypeOK /\ NothingLost /\ CompletedHasResult /\ SingleFlight)
  /\ [][ResultIsFinal]_vars
=============================================================================
