------------------------------ MODULE FeedJobsPg ------------------------------
(***************************************************************************)
(* The PostgreSQL execution job store and the executor that drives it.     *)
(*                                                                         *)
(* Each store call is one READ COMMITTED transaction.  now() is the moment *)
(* the transaction BEGAN, however long it then waits for a lock, so only   *)
(* locks order what transactions do: the row lock of feed.runtime_control  *)
(* that every one of them shares, the row lock of its job, and the         *)
(* repository's advisory lock.  A transaction is split into its beginning  *)
(* and one action per lock it may wait for; what follows the last wait is  *)
(* atomic with the commit.                                                 *)
(*                                                                         *)
(* An execution is one call of Execute, whose owner id is never used       *)
(* again.  It may disappear anywhere (crash, 60 s deadline, lost           *)
(* connection), before or after what it asked for is committed.            *)
(***************************************************************************)
EXTENDS Naturals

CONSTANTS
  Events,       \* source events
  Repos,        \* repository keys
  RepoOf,       \* the repository an event is about
  Executions,   \* calls of Execute, by their lease owner
  None,         \* NULL
  MaxAttempts,  \* 8 in the source
  Lease,        \* 90 seconds in the source
  Backoff,      \* 2^attempts seconds, at most 300, in the source
  Horizon       \* bound on the clock, for TLC

ASSUME JobsAssumption ==
  /\ RepoOf \in [Events -> Repos]
  /\ None \notin Executions
  /\ MaxAttempts \in Nat \ {0}
  /\ Lease \in Nat \ {0}
  /\ Backoff \in [1..MaxAttempts -> Nat]
  /\ Horizon \in Nat

VARIABLES
  version,   \* source version of a committed event, 0 before its commit
  counter,   \* the last source version handed out
  now,       \* the database clock
  writable,  \* feed.runtime_control: this epoch, writes enabled
  jobs,      \* feed.jobs
  runs,      \* executions in progress
  evidence   \* feed.project_submission_evidence.source_version

sourceVars == <<version, counter>>
vars == <<sourceVars, now, writable, jobs, runs, evidence>>

Status == {"absent", "pending", "leased", "completed", "dead_letter"}

Job == [status : Status, attempts : 0..MaxAttempts,
        owner : Executions \cup {None}, until : Nat, available : Nat]

Step == {"new", "claim", "read", "apply", "project", "commit", "applied",
         "complete", "failing", "fail", "over"}

Run == [at : Step, event : Events \cup {None}, began : Nat, seen : Nat]

NoJob == [status |-> "absent", attempts |-> 0, owner |-> None,
          until |-> 0, available |-> 0]
NewRun == [at |-> "new", event |-> None, began |-> 0, seen |-> 0]

Init ==
  /\ version = [e \in Events |-> 0]
  /\ counter = 0
  /\ now = 0
  /\ writable = TRUE
  /\ jobs = [e \in Events |-> NoJob]
  /\ runs = [x \in Executions |-> NewRun]
  /\ evidence = [k \in Repos |-> 0]

-----------------------------------------------------------------------------
(* The source, the clock and the writer control. *)

\* The core commits an event with the next source version.
Commit(e) ==
  /\ version[e] = 0
  /\ version' = [version EXCEPT ![e] = counter + 1]
  /\ counter' = counter + 1
  /\ UNCHANGED <<now, writable, jobs, runs, evidence>>

Superseded(e) ==
  \E n \in Events : RepoOf[n] = RepoOf[e] /\ version[n] > version[e]

Tick ==
  /\ now < Horizon
  /\ now' = now + 1
  /\ UNCHANGED <<sourceVars, writable, jobs, runs, evidence>>

Open == {"claim", "apply", "project", "commit", "complete", "fail"}

\* An update of the control row waits for whoever shares its lock.
Control ==
  /\ \A x \in Executions : runs[x].at \notin Open
  /\ writable' = ~writable
  /\ UNCHANGED <<sourceVars, now, jobs, runs, evidence>>

-----------------------------------------------------------------------------
(* Transactions. *)

Moved(x, s) == runs' = [runs EXCEPT ![x].at = s]

\* A transaction begins, takes the clock, and passes the writer guard.
Begin(x, s) == runs' = [runs EXCEPT ![x].at = s, ![x].began = now]

\* The job row is locked from its SELECT ... FOR UPDATE to the commit.
RowFree(e) ==
  \A y \in Executions :
    runs[y].at \in {"project", "commit"} => runs[y].event # e

RepoFree(k) ==
  \A y \in Executions :
    runs[y].at = "commit" => RepoOf[runs[y].event] # k

\* status='leased' AND lease_owner=$2 AND lease_until>now().
Leases(x) ==
  LET job == jobs[runs[x].event] IN
  /\ job.status = "leased" /\ job.owner = x
  /\ job.until > runs[x].began

-----------------------------------------------------------------------------
(* ClaimFeedJob. *)

Start(x, e) ==
  /\ runs[x].at = "new"
  /\ version[e] # 0
  /\ runs' = [runs EXCEPT ![x] = [at |-> IF writable THEN "claim" ELSE "over",
                                  event |-> e, began |-> now, seen |-> 0]]
  /\ UNCHANGED <<sourceVars, now, writable, jobs, evidence>>

\* INSERT ... ON CONFLICT DO NOTHING; available_at defaults to now().
Inserted(job, t) ==
  IF job.status = "absent"
  THEN [status |-> "pending", attempts |-> 0, owner |-> None,
        until |-> 0, available |-> t]
  ELSE job

Active(job, t) == job.status = "leased" /\ job.until > t

LeasedTo(job, x, t) ==
  [status |-> "leased", attempts |-> job.attempts + 1, owner |-> x,
   until |-> t + Lease, available |-> job.available]

Buried(job) ==
  [status |-> "dead_letter", attempts |-> job.attempts, owner |-> None,
   until |-> 0, available |-> job.available]

\* Mutant of Claimed: an expired lease is not told from a live one.
ClaimedAnyLease(job, x, t) ==
  IF job.status = "completed" THEN job
  ELSE IF job.attempts >= MaxAttempts THEN Buried(job)
  ELSE IF job.available > t THEN job
  ELSE LeasedTo(job, x, t)

\* Mutant of Claimed: attempts are compared after the lease is given.
ClaimedOnceMore(job, x, t) ==
  IF job.status = "completed" \/ Active(job, t) THEN job
  ELSE IF job.attempts > MaxAttempts THEN Buried(job)
  ELSE IF job.available > t THEN job
  ELSE LeasedTo(job, x, t)

Claimed(job, x, t) ==
  IF job.status = "completed" \/ Active(job, t) THEN job
  ELSE IF job.attempts >= MaxAttempts THEN Buried(job)
  ELSE IF job.available > t THEN job
  ELSE LeasedTo(job, x, t)

Claim(x) ==
  /\ runs[x].at = "claim"
  /\ LET e == runs[x].event
         job == Claimed(Inserted(jobs[e], runs[x].began), x, runs[x].began) IN
       /\ RowFree(e)
       /\ jobs' = [jobs EXCEPT ![e] = job]
       /\ Moved(x, IF job.owner = x THEN "read" ELSE "over")
  /\ UNCHANGED <<sourceVars, now, writable, evidence>>

-----------------------------------------------------------------------------
(* Execute, between its transactions. *)

\* Mutant of Read: whatever is not current counts as superseded.
ReadOrComplete(x) ==
  /\ runs[x].at = "read"
  /\ writable
  /\ \E next \in {"apply", "complete"} : Begin(x, next)
  /\ UNCHANGED <<sourceVars, now, writable, jobs, evidence>>

\* The source answers, or the executor finds fault with its answer.
Read(x) ==
  /\ runs[x].at = "read"
  /\ LET next == IF Superseded(runs[x].event) THEN "complete" ELSE "apply" IN
     \/ writable /\ Begin(x, next)
     \/ Moved(x, "failing")
     \/ ~writable /\ next = "complete" /\ Moved(x, "over")
  /\ UNCHANGED <<sourceVars, now, writable, jobs, evidence>>

\* Applied: the completion is a transaction of its own.
Applied(x) ==
  /\ runs[x].at = "applied"
  /\ IF writable THEN Begin(x, "complete") ELSE Moved(x, "over")
  /\ UNCHANGED <<sourceVars, now, writable, jobs, evidence>>

\* The failure is recorded under a deadline of its own.
Failing(x) ==
  /\ runs[x].at = "failing"
  /\ IF writable THEN Begin(x, "fail") ELSE Moved(x, "over")
  /\ UNCHANGED <<sourceVars, now, writable, jobs, evidence>>

\* A transaction that did not commit leaves nothing behind.
Vanish(x) ==
  /\ runs[x].at \notin {"new", "over"}
  /\ Moved(x, "over")
  /\ UNCHANGED <<sourceVars, now, writable, jobs, evidence>>

-----------------------------------------------------------------------------
(* ApplyFeedProjection. *)

\* The leased job row is locked, and stays locked to the end.
Lock(x) ==
  /\ runs[x].at = "apply"
  /\ RowFree(runs[x].event)
  /\ Moved(x, IF Leases(x) THEN "project" ELSE "failing")
  /\ UNCHANGED <<sourceVars, now, writable, jobs, evidence>>

\* The repository's advisory lock is granted and its version read.
Compare(x) ==
  /\ runs[x].at = "project"
  /\ LET k == RepoOf[runs[x].event] IN
       /\ RepoFree(k)
       /\ runs' = [runs EXCEPT ![x].at = "commit", ![x].seen = evidence[k]]
  /\ UNCHANGED <<sourceVars, now, writable, jobs, evidence>>

\* Mutant of Project: the versions are not compared.
ProjectAny(x) ==
  /\ runs[x].at = "commit"
  /\ evidence' = [evidence EXCEPT ![RepoOf[runs[x].event]] =
                    version[runs[x].event]]
  /\ Moved(x, "applied")
  /\ UNCHANGED <<sourceVars, now, writable, jobs>>

\* The projection and its evidence are written, unless a version at least as
\* new is there.  An error rolls back; an answer may be lost after the commit.
Project(x) ==
  /\ runs[x].at = "commit"
  /\ \/ /\ evidence' = IF runs[x].seen >= version[runs[x].event] THEN evidence
                       ELSE [evidence EXCEPT ![RepoOf[runs[x].event]] =
                               version[runs[x].event]]
        /\ \E s \in {"applied", "failing"} : Moved(x, s)
     \/ UNCHANGED evidence /\ Moved(x, "failing")
  /\ UNCHANGED <<sourceVars, now, writable, jobs>>

-----------------------------------------------------------------------------
(* finishFeedJob. *)

Completed(job) ==
  [status |-> "completed", attempts |-> job.attempts, owner |-> None,
   until |-> 0, available |-> job.available]

\* Mutant of Failed: the last failure leaves the job waiting to be tried.
FailedAlways(job, t) ==
  [status |-> "pending", attempts |-> job.attempts, owner |-> None,
   until |-> 0, available |-> t + Backoff[job.attempts]]

Failed(job, t) ==
  [status |-> IF job.attempts >= MaxAttempts THEN "dead_letter" ELSE "pending",
   attempts |-> job.attempts, owner |-> None, until |-> 0,
   available |-> t + Backoff[job.attempts]]

\* No row updated is ErrFeedJobLease: the transaction rolls back.
Finish(x) ==
  /\ runs[x].at \in {"complete", "fail"}
  /\ LET e == runs[x].event IN
       /\ RowFree(e)
       /\ jobs' = IF ~Leases(x) THEN jobs
                  ELSE [jobs EXCEPT ![e] = IF runs[x].at = "complete"
                                           THEN Completed(@)
                                           ELSE Failed(@, runs[x].began)]
  /\ Moved(x, "over")
  /\ UNCHANGED <<sourceVars, now, writable, evidence>>

-----------------------------------------------------------------------------
Next ==
  \/ \E e \in Events : Commit(e)
  \/ Tick
  \/ Control
  \/ \E x \in Executions :
       \/ \E e \in Events : Start(x, e)
       \/ Claim(x) \/ Read(x) \/ Lock(x) \/ Compare(x) \/ Project(x)
       \/ Applied(x) \/ Failing(x) \/ Finish(x) \/ Vanish(x)

Spec == Init /\ [][Next]_vars

-----------------------------------------------------------------------------
(* Properties. *)

\* Every variable has its type.
TypeOK ==
  /\ version \in [Events -> Nat]
  /\ counter \in Nat
  /\ now \in Nat
  /\ writable \in BOOLEAN
  /\ jobs \in [Events -> Job]
  /\ runs \in [Executions -> Run]
  /\ evidence \in [Repos -> Nat]

\* Whoever is about to project an event still leases its job, although the
\* lease may have run out while it waited for the repository: the row lock
\* keeps every other claim, completion and failure of the job out.
ProjectorLeases ==
  \A x \in Executions : runs[x].at \in {"project", "commit"} =>
    /\ jobs[runs[x].event].status = "leased"
    /\ jobs[runs[x].event].owner = x

\* The version an apply compared with is still the version it replaces.
ComparedIsCurrent ==
  \A x \in Executions : runs[x].at = "commit" =>
    runs[x].seen = evidence[RepoOf[runs[x].event]]

\* A completed event is shown, or a newer version of its repository is, or is
\* on its way: an execution that lost its lease completes nothing.
CompletedIsCovered ==
  \A e \in Events : jobs[e].status = "completed" =>
    \/ evidence[RepoOf[e]] >= version[e]
    \/ Superseded(e)

\* Only an event that used up its attempts is dead-lettered, and an event that
\* used them up is not left waiting.
DeadAfterAllAttempts ==
  \A e \in Events :
    /\ jobs[e].status = "dead_letter" => jobs[e].attempts = MaxAttempts
    /\ jobs[e].status = "pending" => jobs[e].attempts < MaxAttempts

\* Once another epoch or a closed gate is recorded, no transaction of this
\* writer changes anything, not even one that began and passed the guard
\* before: the update waited for it.
NothingAfterTheGate == [][~writable => UNCHANGED <<jobs, evidence>>]_vars

\* A lease is only taken away from its owner after it ended: two executions
\* never hold the job within one lease.
LeaseIsHonoured ==
  [][\A e \in Events :
       jobs[e].status = "leased" /\ jobs[e].until > now =>
         \/ jobs'[e] = jobs[e]
         \/ \E x \in Executions :
              jobs[e].owner = x /\ runs[x].at \in {"complete", "fail"}
                /\ runs'[x].at = "over"]_vars

\* The versions committed so far, of their repositories.
CommittedVersions ==
  {<<RepoOf[e], version[e]>> : e \in {n \in Events : version[n] # 0}}

\* The store implements ProjectedVersions: what is shown of a repository only
\* ever advances, to a version the core committed.
Shown == INSTANCE ProjectedVersions WITH known <- CommittedVersions,
                                         shown <- evidence
EvidenceAdvances == Shown!Spec
=============================================================================
