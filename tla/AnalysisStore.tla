---------------------------- MODULE AnalysisStore ----------------------------
(***************************************************************************)
(* The table project_analysis_runs, the assessments derived from it, and   *)
(* the evaluator (Mosoo) whose threads the runs follow.  Every operator    *)
(* here is one statement or transaction on the table; the Go worker        *)
(* (AnalysisWorker) and the TypeScript service (AnalysisService) are two   *)
(* programs that call them.                                                *)
(*                                                                         *)
(* A run keeps a unique active key from its insertion to its end, reserves *)
(* one of Limit execution slots before it asks for a thread, and names the *)
(* thread by an idempotency key.  A retry takes a new key, so a thread is  *)
(* the pair of a run and its try.                                          *)
(***************************************************************************)
EXTENDS Naturals, FiniteSets

CONSTANTS
  Run,          \* analysis identifiers, one per submission
  Key,          \* values of active_key: repository, ref and rubric
  KeyOf,        \* the key of each run
  Repo,         \* repositories
  RepoOf,       \* the repository of each key
  Limit,        \* ProjectAnalysisConcurrency, the number of slots
  MaxCreates,   \* ProjectAnalysisCreateMaxAttempts
  MaxTry,       \* retries of a run with a new idempotency key
  Verdict,      \* ends of an evaluation the evaluator may reach
  None

StoreAssumption ==
  /\ KeyOf \in [Run -> Key]
  /\ RepoOf \in [Key -> Repo]
  /\ Limit \in Nat \ {0}
  /\ MaxCreates \in Nat \ {0}
  /\ MaxTry \in Nat
  /\ Verdict \subseteq {"waiting_input", "failed", "inactive", "interrupted",
                        "cancelled", "expired", "committing"}
  /\ None \notin Run \cup Key \cup Nat

VARIABLES
  table,       \* project_analysis_runs
  assessment,  \* project_assessments: the latest analysis of each repository
  remote       \* the evaluator's thread of each run and try

store == <<table, assessment, remote>>

Terminal == {"completed", "failed", "cancelled", "expired"}
Occupying == {"creating_thread", "running", "finalizing"}
Status == {"absent", "queued"} \cup Occupying \cup Terminal
Try == 0 .. MaxTry

\* What a snapshot shows as completed: the artifacts of a committing thread
\* are not all there yet.
Evaluated == {"committing", "valid", "invalid"}
ThreadState == {"absent", "running"} \cup Verdict \cup Evaluated

\* try stands for the idempotency key, wait for create_retry_at against the
\* clock, clock for started_at against the execution timeout.
Row ==
  [status : Status, active : BOOLEAN, try : Try, thread : Try \cup {None},
   attempts : 0 .. MaxCreates, wait : {"none", "pending", "due"},
   clock : {"unset", "started", "overdue"},
   error : {"none", "analysis_timeout", "mosoo_run_failed", "other"},
   result : Try \cup {None}]

Absent ==
  [status |-> "absent", active |-> FALSE, try |-> 0, thread |-> None,
   attempts |-> 0, wait |-> "none", clock |-> "unset", error |-> "none",
   result |-> None]

RepoOfRun(r) == RepoOf[KeyOf[r]]

StoreTypeOK ==
  /\ table \in [Run -> Row]
  /\ assessment \in [Repo -> Run \cup {None}]
  /\ remote \in [Run -> [Try -> ThreadState]]

StoreInit ==
  /\ table = [r \in Run |-> Absent]
  /\ assessment = [p \in Repo |-> None]
  /\ remote = [r \in Run |-> [t \in Try |-> "absent"]]

Open(row) == row.status \notin Terminal \cup {"absent"}
Set(r, row) == table' = [table EXCEPT ![r] = row]

-----------------------------------------------------------------------------
(* Statements on the table.                                                *)

\* A completed run of the key that the assessment still points at.
Reusable(k) ==
  \E r \in Run :
    /\ KeyOf[r] = k
    /\ table[r].status = "completed"
    /\ assessment[RepoOf[k]] = r

Taken(k) == \E q \in Run : KeyOf[q] = k /\ table[q].active

\* INSERT OR IGNORE under the unique active_key.
Insert(r) ==
  /\ ~Taken(KeyOf[r])
  /\ Set(r, [Absent EXCEPT !.status = "queued", !.active = TRUE])

Occupied == Cardinality({r \in Run : table[r].status \in Occupying})

\* The counter saturates: it is only compared with MaxCreates.
Attempted(row) ==
  [row EXCEPT !.attempts = IF @ < MaxCreates THEN @ + 1 ELSE @,
              !.wait = "pending"]
Started(row) ==
  [row EXCEPT !.clock = IF @ = "unset" THEN "started" ELSE @]

Reclaimable(row) ==
  row.status = "creating_thread" /\ row.thread = None /\ row.wait # "pending"

\* Reserve repeats in the UPDATE what the SELECT before it has seen, so the
\* two are one step; ~Reservable is the answer false.
Reservable(r) ==
  \/ Reclaimable(table[r])
  \/ /\ table[r].status = "queued"
     /\ table[r].wait # "pending"
     /\ Occupied < Limit

Reserve(r) ==
  /\ Reservable(r)
  /\ Set(r, IF Reclaimable(table[r])
            THEN Attempted(table[r])
            ELSE [Started(Attempted(table[r])) EXCEPT
                    !.status = "creating_thread"])

Schedulable(r) ==
  table[r].status = "creating_thread" /\ table[r].thread = None

\* The next creation attempt waits in the queue without its slot.
Schedule(r) ==
  /\ Schedulable(r)
  /\ Set(r, [table[r] EXCEPT !.status = "queued", !.wait = "pending"])

Attachable(r) == table[r].status \in {"queued", "creating_thread", "running"}

Attach(r, t) ==
  /\ Attachable(r)
  /\ Set(r, [Started(table[r]) EXCEPT !.status = "running", !.thread = t,
                                      !.wait = "none"])

\* What every requeue of a run writes.
Requeued(row, t) ==
  [row EXCEPT !.status = "queued", !.active = TRUE, !.try = t,
              !.thread = None, !.attempts = 0, !.wait = "none",
              !.error = "none"]

Preparable(r, t) ==
  table[r].thread = t /\ table[r].status \in {"running", "failed"}

\* The unique active_key refuses the statement when another run holds it.
KeyFree(r) == \A q \in Run \ {r} : KeyOf[q] = KeyOf[r] => ~table[q].active

\* A retry of the run whose thread is t, under the idempotency key next.
Prepare(r, t, next) ==
  Preparable(r, t) /\ KeyFree(r) /\ Set(r, Requeued(table[r], next))

\* expected is the row a caller took its decision on, or None when the
\* statement carries no identity.
Expected(r, expected) ==
  expected # None =>
    table[r].try = expected.try /\ table[r].thread = expected.thread

Update(r, s, expected) ==
  IF Open(table[r]) /\ Expected(r, expected)
  THEN Set(r, [table[r] EXCEPT !.status = s])
  ELSE UNCHANGED table

Fail(r, s, error, expected) ==
  IF Open(table[r]) /\ Expected(r, expected)
  THEN Set(r, [table[r] EXCEPT !.status = s, !.active = FALSE,
                               !.wait = "none", !.error = error])
  ELSE UNCHANGED table

\* One transaction: the assessment and the completion, which is refused to
\* a terminal row and then takes the assessment back with it.
Finalize(r, t) ==
  /\ Open(table[r])
  /\ Set(r, [table[r] EXCEPT !.status = "completed", !.active = FALSE,
                             !.result = t])
  /\ assessment' = [assessment EXCEPT ![RepoOfRun(r)] = r]

\* What the reconcile endpoint lists.
Reconciliable(r) ==
  \/ table[r].status \in {"running", "finalizing"}
  \/ table[r].status \in {"queued", "creating_thread"}
       /\ table[r].wait # "pending"

-----------------------------------------------------------------------------
(* The evaluator and the clock.                                            *)

\* A thread is created once for an idempotency key.
CreateThread(r, t) ==
  remote' = IF remote[r][t] = "absent"
            THEN [remote EXCEPT ![r][t] = "running"] ELSE remote

Evaluate(r, t) ==
  /\ remote[r][t] = "running"
  /\ \E v \in Verdict : remote' = [remote EXCEPT ![r][t] = v]

CommitArtifacts(r, t) ==
  /\ remote[r][t] = "committing"
  /\ \E v \in {"valid", "invalid"} : remote' = [remote EXCEPT ![r][t] = v]

\* A create lease or a scheduled create retry comes due.
ComeDue(r) ==
  /\ Open(table[r])
  /\ table[r].wait = "pending"
  /\ Set(r, [table[r] EXCEPT !.wait = "due"])

\* The execution timeout passes while it is of any interest.
RunOver(r) ==
  /\ Open(table[r])
  /\ table[r].clock = "started"
  /\ Set(r, [table[r] EXCEPT !.clock = "overdue"])

-----------------------------------------------------------------------------
(* Properties of the table whatever program writes it.                     *)

\* "at most one non-terminal run per repository, ref, and rubric"
\* (CreateProjectAnalysisRun).
OneOpenRun ==
  \A r, q \in Run :
    Open(table[r]) /\ Open(table[q]) /\ KeyOf[r] = KeyOf[q] => r = q

\* An assessment points at a completed run, whose result is the evaluation
\* of one of its own threads with complete, valid artifacts, and a completed
\* run has been assessed (FinalizeProjectAnalysis).
AssessmentIsBacked ==
  /\ \A p \in Repo : assessment[p] # None =>
       /\ RepoOfRun(assessment[p]) = p
       /\ table[assessment[p]].status = "completed"
  /\ \A r \in Run : table[r].status = "completed" =>
       /\ table[r].result # None
       /\ remote[r][table[r].result] = "valid"
       /\ assessment[RepoOfRun(r)] # None

\* "Jobs beyond the cap wait in the durable queue".
SlotBound == Occupied <= Limit

\* A run that is evaluated has the thread it is followed by.
ThreadIsKnown ==
  \A r \in Run :
    table[r].status \in {"running", "finalizing"} => table[r].thread # None

\* A completed run is never written again, and another end is only taken
\* back to the queue, with the key of the run (PrepareProjectAnalysisRetry,
\* claimProjectAnalysisRecovery).
EndIsFinal ==
  \A r \in Run :
    /\ table[r].status = "completed" => table'[r] = table[r]
    /\ table[r].status \in Terminal /\ table'[r].status # table[r].status
         => table'[r].active
=============================================================================
