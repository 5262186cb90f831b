--------------------------- MODULE AnalysisService ---------------------------
(***************************************************************************)
(* Project analysis in the Web Worker (src/lib/project-analysis-service.ts *)
(* and project-analysis-db.ts): no broker and no loop, every request that  *)
(* creates a run, looks at one, reconciles or recovers one takes the run a *)
(* few statements further and returns.  An operator may reopen a run that  *)
(* timed out, or whose first recovery failed, once each, with an audit     *)
(* record; a run recovered so must not replace a newer analysis of its     *)
(* repository.                                                             *)
(*                                                                         *)
(* Updates and failures decided on a snapshot carry the identity of the    *)
(* execution it was taken of; the other statements of AnalysisStore do     *)
(* not.                                                                    *)
(***************************************************************************)
EXTENDS AnalysisStore

CONSTANTS
  Caller,   \* requests the service handles at once
  Trouble,  \* "failures" of calls, "rejections" by the evaluator, execution
            \* "timeouts", "leases" that expire under a slow attempt,
            \* "operator" recoveries
  Outbox    \* the completion also writes a row of the source outbox

ServiceAssumption ==
  /\ Outbox \in BOOLEAN
  /\ MaxTry = 2
  /\ Trouble \subseteq {"failures", "rejections", "timeouts", "leases",
                        "operator"}

VARIABLES
  born,      \* order of insertion of the runs, 0 before it
  audit,     \* the recovery records of each run and their deadline
  caller,    \* what each request is doing
  healthy    \* calls succeed

vars == <<table, assessment, remote, born, audit, caller, healthy>>

Action == {"retry_interrupted", "retry_interrupted_final",
           "finalize_completed"}
Place == {"idle", "reserve", "reread", "create", "attach", "schedule",
          "fail", "poll", "update", "prepare", "artifacts", "finalizing",
          "interrupted", "claim", "commit", "publish"}

\* guarded: the publication carries the check for newer analyses; own: the
\* pending failure carries the identity of the execution it was decided on.
Idle ==
  [at |-> "idle", run |-> None, view |-> Absent, action |-> None,
   own |-> FALSE, end |-> "failed", error |-> "none", guarded |-> FALSE]

TypeOK ==
  /\ StoreTypeOK
  /\ born \in [Run -> 0 .. Cardinality(Run)]
  /\ audit \in [Run ->
       [first : {None, "retry_interrupted", "finalize_completed"},
        final : BOOLEAN, deadline : {"none", "running", "over"}]]
  /\ caller \in [Caller ->
       [at : Place, run : Run \cup {None}, view : Row,
        action : Action \cup {None}, own : BOOLEAN, end : Terminal,
        error : {"none", "analysis_timeout", "mosoo_run_failed", "other"},
        guarded : BOOLEAN]]
  /\ healthy \in BOOLEAN

Init ==
  /\ StoreInit
  /\ born = [r \in Run |-> 0]
  /\ audit = [r \in Run |->
                [first |-> None, final |-> FALSE, deadline |-> "none"]]
  /\ caller = [c \in Caller |-> Idle]
  /\ healthy = TRUE

-----------------------------------------------------------------------------
(* Requests.                                                               *)

On(c, place) == caller[c].at = place
The(c) == caller[c].run
Return(c) == caller' = [caller EXCEPT ![c] = Idle]

\* What a request uses of a row.
View(row) == [row EXCEPT !.active = FALSE, !.error = "none", !.result = None,
                         !.wait = "none", !.clock = "unset"]
With(c, place, row) ==
  [Idle EXCEPT !.at = place, !.run = The(c), !.view = View(row),
               !.action = caller[c].action]
GoWith(c, place, row) ==
  caller' = [caller EXCEPT ![c] = With(c, place, row)]
Go(c, place) == GoWith(c, place, caller[c].view)

\* A call that fails ends the request, with or without its effect.
Answered(c, place) == Go(c, place) \/ (~healthy /\ Return(c))

Doom(c, end, error, row, own) ==
  caller' = [caller EXCEPT ![c] =
    [With(c, "fail", row) EXCEPT !.end = end, !.error = error, !.own = own]]

Recovered(r) == audit[r].first # None

\* executionTimedOut: a persistent deadline replaces that of started_at.
TimedOut(r, row) ==
  /\ row.status # "finalizing"
  /\ IF audit[r].deadline = "none"
     THEN row.clock = "overdue" ELSE audit[r].deadline = "over"

\* reserveProjectAnalysisExecutionSlot and attachMosooThread leave the
\* started_at of a recovered run alone.
Unstarted(r) ==
  Recovered(r) => table'[r].clock = table[r].clock

\* The first half of createOrResumeMosooThread.
Resume(c, row) ==
  IF row.attempts >= MaxCreates /\ row.wait # "pending"
  THEN Doom(c, "failed", "other", row, FALSE)
  ELSE GoWith(c, "reserve", row)

\* createProjectAnalysis: the run is inserted and its thread asked for, or
\* the request is answered with the open or completed run of the key.
Create(c, r) ==
  /\ On(c, "idle")
  /\ table[r].status = "absent"
  /\ ~Reusable(KeyOf[r])
  /\ Insert(r)
  /\ born' = [born EXCEPT ![r] =
                1 + Cardinality({q \in Run : table[q].status # "absent"})]
  /\ \/ caller' = [caller EXCEPT ![c] =
          [Idle EXCEPT !.at = "reserve", !.run = r,
                       !.view = View(table'[r])]]
     \/ ~healthy /\ UNCHANGED caller
  /\ UNCHANGED <<assessment, remote, audit, healthy>>

\* reconcileProjectAnalysis reads the row.
Observed(c, r, action) ==
  LET row == table[r]
      to(place) == [Idle EXCEPT !.at = place, !.run = r, !.view = View(row),
                                !.action = action]
      doomed(end, error, own) ==
        [to("fail") EXCEPT !.end = end, !.error = error, !.own = own]
  IN caller' = [caller EXCEPT ![c] =
       IF row.thread # None THEN to("poll")
       ELSE IF TimedOut(r, row)
         THEN doomed("expired", "analysis_timeout", TRUE)
       ELSE IF row.attempts >= MaxCreates /\ row.wait # "pending"
         THEN doomed("failed", "other", FALSE)
       ELSE to("reserve")]

Observe(c, r) ==
  /\ On(c, "idle")
  /\ Open(table[r])
  /\ Observed(c, r, None)
  /\ UNCHANGED <<store, born, audit, healthy>>

-----------------------------------------------------------------------------
(* createOrResumeMosooThread.                                              *)

ReserveSlot(c) ==
  /\ On(c, "reserve")
  /\ \/ Reserve(The(c)) /\ Unstarted(The(c)) /\ Answered(c, "reread")
     \/ ~Reservable(The(c)) /\ Return(c) /\ UNCHANGED table
  /\ UNCHANGED <<assessment, remote, born, audit, healthy>>

Reread(c) ==
  /\ On(c, "reread")
  /\ GoWith(c, "create", table[The(c)])
  /\ UNCHANGED <<store, born, audit, healthy>>

CreateRemote(c) ==
  /\ On(c, "create")
  /\ LET r == The(c)
         row == caller[c].view
         again == IF row.attempts >= MaxCreates
                  THEN Doom(c, "failed", "other", row, FALSE)
                  ELSE Go(c, "schedule")
     IN \/ CreateThread(r, row.try) /\ Go(c, "attach")
        \/ CreateThread(r, row.try) /\ ~healthy /\ again
        \/ (~healthy \/ "rejections" \in Trouble) /\ again
             /\ UNCHANGED remote
        \/ "rejections" \in Trouble /\ UNCHANGED remote
             /\ Doom(c, "failed", "other", row, FALSE)
  /\ UNCHANGED <<table, assessment, born, audit, healthy>>

ScheduleRetry(c) ==
  /\ On(c, "schedule")
  /\ Return(c)
  /\ IF Schedulable(The(c)) THEN Schedule(The(c)) ELSE UNCHANGED table
  /\ UNCHANGED <<assessment, remote, born, audit, healthy>>

\* An attachment that fails is not an error of the evaluator: it fails the
\* run.
AttachThread(c) ==
  /\ On(c, "attach")
  /\ LET r == The(c)
         failed == Doom(c, "failed", "other", caller[c].view, FALSE)
     IN \/ /\ Attach(r, caller[c].view.try) /\ Unstarted(r)
           /\ Return(c) \/ (~healthy /\ failed)
        \/ (~healthy \/ ~Attachable(r)) /\ failed /\ UNCHANGED table
  /\ UNCHANGED <<assessment, remote, born, audit, healthy>>

FailRun(c) ==
  /\ On(c, "fail")
  /\ LET me == caller[c]
     IN Fail(me.run, me.end, me.error, IF me.own THEN me.view ELSE None)
  /\ Return(c)
  /\ UNCHANGED <<assessment, remote, born, audit, healthy>>

-----------------------------------------------------------------------------
(* The snapshot of the thread.                                             *)

AutomaticRetries == 1
Snapshot(c) == remote[The(c)][caller[c].view.thread]

\* A completed evaluation is looked at before the timeout, which is looked
\* at before any other state of the thread.
Poll(c) ==
  /\ On(c, "poll")
  /\ LET seen == Snapshot(c)
         row == caller[c].view
         late == row.status # "finalizing"
                   /\ TimedOut(The(c), [row EXCEPT
                                          !.clock = table[The(c)].clock])
         retry == seen = "inactive" /\ row.try < AutomaticRetries
         end(s, error) == Doom(c, s, error, row, TRUE)
     IN \/ seen \in Evaluated /\ Go(c, "artifacts")
        \/ seen \notin Evaluated /\ late /\ end("expired", "analysis_timeout")
        \/ /\ ~late
           /\ \/ seen = "running" /\ Go(c, "update")
              \/ retry /\ Go(c, "prepare")
              \/ seen = "waiting_input" /\ end("failed", "other")
              \/ ~retry /\ seen \in {"failed", "inactive", "interrupted"}
                   /\ end("failed", "mosoo_run_failed")
              \/ seen \in {"cancelled", "expired"} /\ end(seen, "other")
        \/ "rejections" \in Trouble /\ end("failed", "other")
        \/ ~healthy /\ Return(c)
  /\ UNCHANGED <<store, born, audit, healthy>>

UpdateState(c) ==
  /\ On(c, "update")
  /\ Update(The(c), "running", caller[c].view)
  /\ Return(c)
  /\ UNCHANGED <<assessment, remote, born, audit, healthy>>

\* A retry that is refused falls through to the failure of the run.
PrepareRetry(c) ==
  /\ On(c, "prepare")
  /\ LET r == The(c)
         row == caller[c].view
     IN \/ /\ Prepare(r, row.thread, row.try + 1)
           /\ \/ Resume(c, Requeued(table[r], row.try + 1))
              \/ ~healthy /\ Return(c)
        \/ Preparable(r, row.thread) /\ ~KeyFree(r) /\ Return(c)
             /\ UNCHANGED table
        \/ ~Preparable(r, row.thread) /\ UNCHANGED table
             /\ Doom(c, "failed", "mosoo_run_failed", row, TRUE)
  /\ UNCHANGED <<assessment, remote, born, audit, healthy>>

-----------------------------------------------------------------------------
(* finalizeCompletedRun.                                                   *)

\* A download that fails for now leaves the run finalizing.
ReadArtifacts(c) ==
  /\ On(c, "artifacts")
  /\ \/ /\ ~healthy
        /\ IF caller[c].view.status = "finalizing" THEN UNCHANGED table
           ELSE Update(The(c), "finalizing", None)
        /\ Return(c)
     \/ /\ Snapshot(c) = "committing"
        /\ \/ Return(c)
           \/ Doom(c, "failed", "other", caller[c].view, FALSE)
        /\ UNCHANGED table
     \/ /\ Snapshot(c) # "committing"
        /\ Go(c, "finalizing")
        /\ UNCHANGED table
  /\ UNCHANGED <<assessment, remote, born, audit, healthy>>

MarkFinalizing(c) ==
  /\ On(c, "finalizing")
  /\ Update(The(c), "finalizing", None)
  /\ \/ Snapshot(c) = "invalid"
          /\ Doom(c, "failed", "other", caller[c].view, FALSE)
     \/ Snapshot(c) = "valid" /\ Answered(c,
          IF caller[c].action = None THEN "commit" ELSE "claim")
  /\ UNCHANGED <<assessment, remote, born, audit, healthy>>

\* Mutant of Commit: the recovery record is not looked at.
CommitUnguarded(c) ==
  /\ On(c, "commit")
  /\ IF Open(table[The(c)]) THEN Go(c, "publish") ELSE Return(c)
  /\ UNCHANGED <<store, born, audit, healthy>>

\* finalizeProjectAnalysis reads the row and the recovery record ...
Commit(c) ==
  /\ On(c, "commit")
  /\ IF Open(table[The(c)])
     THEN caller' = [caller EXCEPT ![c] =
            [With(c, "publish", caller[c].view) EXCEPT
               !.guarded = Recovered(The(c))]]
     ELSE Return(c)
  /\ UNCHANGED <<store, born, audit, healthy>>

Newer(r) ==
  \E q \in Run \ {r} : RepoOfRun(q) = RepoOfRun(r) /\ born[q] >= born[r]

\* ... and writes the assessment and the completion in one batch, which a
\* newer analysis of the repository aborts when the run was recovered.  Only
\* the assertion of the outbox aborts it for a run that has ended: without
\* it the update of no row does not take the assessment back.
PublishResult(c) ==
  /\ On(c, "publish")
  /\ LET r == The(c)
         superseded == caller[c].guarded /\ Newer(r)
     IN \/ /\ ~superseded
           /\ Finalize(r, caller[c].view.thread)
        \/ /\ ~superseded /\ ~Open(table[r]) /\ ~Outbox
           /\ assessment' = [assessment EXCEPT ![RepoOfRun(r)] = r]
           /\ UNCHANGED table
        \/ /\ ~healthy \/ superseded \/ (Outbox /\ ~Open(table[r]))
           /\ UNCHANGED <<table, assessment>>
  /\ Return(c)
  /\ UNCHANGED <<remote, born, audit, healthy>>

-----------------------------------------------------------------------------
(* recoverProjectAnalysis: each action has one request of the operator,    *)
(* which pins the thread of the row, and which may be repeated.            *)

LatestAction(r) ==
  IF audit[r].final THEN "retry_interrupted_final" ELSE audit[r].first
NextTry(r) ==
  IF audit[r].final THEN 2
  ELSE IF audit[r].first = "retry_interrupted" THEN 1 ELSE table[r].try

\* The first recovery failed and the last one has not been asked for.
MayAdvance(r, action) ==
  /\ action = "retry_interrupted_final"
  /\ audit[r].first = "retry_interrupted"
  /\ ~audit[r].final
  /\ table[r].try = 1

Eligible(r, action) ==
  IF action = "retry_interrupted_final"
  THEN /\ MayAdvance(r, action)
       /\ table[r].status = "failed" /\ table[r].error = "mosoo_run_failed"
  ELSE table[r].status = "expired" /\ table[r].error = "analysis_timeout"

\* A repeated request continues what the first one has begun.
Replayed(r, action) ==
  LatestAction(r) = action /\ table[r].try = NextTry(r)

Recover(c, r, action) ==
  /\ "operator" \in Trouble
  /\ On(c, "idle")
  /\ table[r].status # "absent"
  /\ IF Recovered(r) /\ ~MayAdvance(r, action)
     THEN /\ Replayed(r, action)
          /\ table[r].status \in {"queued", "creating_thread"}
          /\ Observed(c, r, None)
     ELSE /\ Eligible(r, action)
          /\ table[r].thread # None
          /\ caller' = [caller EXCEPT ![c] =
               [Idle EXCEPT !.at = "interrupted", !.run = r,
                            !.view = View(table[r]), !.action = action]]
  /\ UNCHANGED <<store, born, audit, healthy>>

\* The provider confirms what the action presumes.
Confirm(c) ==
  /\ On(c, "interrupted")
  /\ LET me == caller[c]
         wanted == IF me.action = "retry_interrupted_final" THEN 1 ELSE 0
     IN \/ me.action = "finalize_completed" /\ Snapshot(c) \in Evaluated
             /\ Go(c, "artifacts")
        \/ me.action # "finalize_completed" /\ Snapshot(c) = "interrupted"
             /\ me.view.try = wanted /\ Go(c, "claim")
        \/ Return(c)
  /\ UNCHANGED <<store, born, audit, healthy>>

\* claimProjectAnalysisRecovery: the audit record and the reopening of the
\* row as it was read, unless a newer analysis exists.
Claimable(r, me) ==
  /\ View(table[r]) = me.view
  /\ Eligible(r, me.action)
  /\ MayAdvance(r, me.action) \/ ~Recovered(r)
  /\ ~Newer(r)

Reopened(r, action) ==
  IF action = "finalize_completed"
  THEN [table[r] EXCEPT !.status = "finalizing", !.error = "none",
                        !.wait = "none"]
  ELSE Requeued(table[r], IF action = "retry_interrupted" THEN 1 ELSE 2)

Claim(c) ==
  /\ On(c, "claim")
  /\ LET r == The(c)
         action == caller[c].action
     IN \/ /\ Claimable(r, caller[c])
           /\ action = "finalize_completed" \/ KeyFree(r)
           /\ Set(r, Reopened(r, action))
           /\ audit' = [audit EXCEPT ![r] =
                [first |-> IF @.first = None THEN action ELSE @.first,
                 final |-> action = "retry_interrupted_final",
                 deadline |-> IF action = "finalize_completed"
                              THEN "none" ELSE "running"]]
           /\ \/ /\ action = "finalize_completed" /\ Go(c, "commit")
              \/ /\ action # "finalize_completed"
                 /\ Resume(c, Reopened(r, action))
              \/ ~healthy /\ Return(c)
        \/ /\ \/ ~healthy \/ ~Claimable(r, caller[c])
              \/ action # "finalize_completed" /\ ~KeyFree(r)
           /\ Return(c)
           /\ UNCHANGED <<table, audit>>
  /\ UNCHANGED <<assessment, remote, born, healthy>>

-----------------------------------------------------------------------------
(* The environment.                                                        *)

\* A call fails without effect, and with it the request.
CallFails(c) ==
  /\ ~healthy
  /\ ~On(c, "idle")
  /\ Return(c)
  /\ UNCHANGED <<store, born, audit, healthy>>

DeadlinePasses(r) ==
  /\ audit[r].deadline = "running"
  /\ audit' = [audit EXCEPT ![r].deadline = "over"]
  /\ UNCHANGED table

\* While leases are long enough they outlive the request that took them.
Time(r) ==
  /\ \/ /\ ComeDue(r)
        /\ \/ "leases" \in Trouble
           \/ table[r].status = "queued"
           \/ \A c \in Caller : The(c) = r =>
                ~\E place \in {"reread", "create", "attach", "schedule"} :
                   On(c, place)
        /\ UNCHANGED audit
     \/ "timeouts" \in Trouble /\ RunOver(r) /\ UNCHANGED audit
     \/ "timeouts" \in Trouble /\ DeadlinePasses(r)
  /\ UNCHANGED <<assessment, remote, born, caller, healthy>>

Evaluator(r) ==
  /\ \E t \in Try : Evaluate(r, t) \/ CommitArtifacts(r, t)
  /\ UNCHANGED <<table, assessment, born, audit, caller, healthy>>

Weather ==
  /\ "failures" \in Trouble
  /\ healthy' = ~healthy
  /\ UNCHANGED <<store, born, audit, caller>>

Continue(c) ==
  \/ ReserveSlot(c) \/ Reread(c) \/ CreateRemote(c) \/ ScheduleRetry(c)
  \/ AttachThread(c) \/ FailRun(c) \/ Poll(c) \/ UpdateState(c)
  \/ PrepareRetry(c) \/ ReadArtifacts(c) \/ MarkFinalizing(c) \/ Commit(c)
  \/ PublishResult(c) \/ Confirm(c) \/ Claim(c)

Next ==
  \/ \E c \in Caller : Continue(c) \/ CallFails(c)
  \/ \E c \in Caller, r \in Run : Create(c, r) \/ Observe(c, r)
  \/ \E c \in Caller, r \in Run, a \in Action : Recover(c, r, a)
  \/ \E r \in Run : Time(r) \/ Evaluator(r)
  \/ Weather

Spec == Init /\ [][Next]_vars

-----------------------------------------------------------------------------
(* Properties.                                                             *)

\* r becomes the assessment of its repository.
Replaces(r) ==
  assessment[RepoOfRun(r)] # r /\ assessment'[RepoOfRun(r)] = r

\* "A superseding assessment prevents stale recovery results from replacing
\* the current assessment": when the result of a run that was recovered by a
\* retry, its first execution confirmed to be interrupted, becomes the
\* assessment, no newer analysis of the repository has been asked for.
RetryIsNewest ==
  \A r \in Run :
    audit[r].first = "retry_interrupted" /\ Replaces(r) => ~Newer(r)

\* "Neither a third retry nor the original request can restart the terminal
\* execution": a run that was recovered by a retry and has ended is reopened only
\* with a further audit record.
RecoveryBudget ==
  \A r \in Run :
    /\ audit[r].first = "retry_interrupted"
    /\ table[r].status \in Terminal
    /\ table'[r].status # table[r].status
    => audit'[r] # audit[r]

\* A run that ended keeps its end until it is requeued under its key or an
\* operator reopens it, and a completed run is final.
EndIsKept ==
  \A r \in Run :
    /\ table[r].status = "completed" => table'[r] = table[r]
    /\ table[r].status \in Terminal /\ table'[r].status # table[r].status
         => table'[r].active \/ audit'[r] # audit[r]

\* Without the outbox the completion is not guarded: the assessment stays
\* when the run has ended in the meantime.
Safe == TypeOK /\ (Outbox => AssessmentIsBacked)
SafeStep == RetryIsNewest /\ RecoveryBudget /\ EndIsKept
=============================================================================
