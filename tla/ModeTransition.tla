---------------------------- MODULE ModeTransition ----------------------------
(***************************************************************************)
(* The restart of one Feed container in its new mode (platform/runtime/    *)
(* src/transition.ts) as the runtime router calls it (router.ts): the      *)
(* actor probes the process that runs, stops it, waits for its exit,       *)
(* starts the new one and probes that.  Callers time out while the         *)
(* container operations go on, ordinary requests wake the container,       *)
(* processes die and the actor itself is replaced at any moment.           *)
(***************************************************************************)
EXTENDS Integers, FiniteSets

CONSTANTS
  Request,       \* calls of the restart route
  MaxProcesses,  \* bound on the processes the container ever runs
  MaxResets      \* bound on evictions of the actor

ASSUME BoundsAssumption ==
  MaxProcesses \in Nat \ {0} /\ MaxResets \in Nat

\* What a process says of itself: the release in one of its modes, or a
\* process of another release, image or contract.
Identity == {"off", "baseline", "other"}
Process == 1..MaxProcesses
NoProcess == 0

VARIABLES
  edge,     \* FEED_MODE of the version that serves the route
  actor,    \* FEED_MODE of the version the actor was made from
  running,  \* the process of the container, or NoProcess
  born,     \* processes so far
  is,       \* what each process was started as
  busy,     \* the lock of the actor
  work,     \* where the work of each request is
  first,    \* the process that ran when the work began
  proven,   \* the process its last probe accepted
  stopping, \* requests whose stop operation has not settled
  signals,  \* pairs of a request and the process it signalled
  aborted,  \* requests whose deadline passed or that were answered
  answer,   \* what the caller was told
  resets

restartVars == <<edge, actor, running, born, is, busy, work, first, proven,
                 stopping, signals, aborted, answer, resets>>
container == <<running, born, is>>
settings == <<edge, actor, resets>>
evidence == <<first, proven, signals>>

RestartInit ==
  /\ edge \in {"off", "baseline"} /\ actor = "off"
  /\ running \in {NoProcess, 1}
  /\ born = 1
  /\ is \in {[p \in Process |-> i] : i \in Identity}
  /\ busy = FALSE
  /\ work = [r \in Request |-> "new"]
  /\ first = [r \in Request |-> NoProcess]
  /\ proven = [r \in Request |-> NoProcess]
  /\ stopping = {} /\ signals = {} /\ aborted = {}
  /\ answer = [r \in Request |-> "none"]
  /\ resets = MaxResets

-----------------------------------------------------------------------------
(* The container.                                                          *)

\* A process starts in the environment of the actor.
Launch ==
  /\ born < MaxProcesses
  /\ born' = born + 1
  /\ running' = born + 1
  /\ is' = [is EXCEPT ![born + 1] = actor]

\* An ordinary request wakes the container; starting one that runs does
\* nothing, whatever its environment is.
Wake ==
  /\ running = NoProcess /\ Launch
  /\ UNCHANGED <<settings, busy, work, evidence, stopping, aborted, answer>>

\* A process exits: signalled, idle or by failure.
Exit ==
  /\ running # NoProcess /\ running' = NoProcess
  /\ UNCHANGED <<settings, born, is, busy, work, evidence, stopping, aborted,
                 answer>>

Deploy ==
  /\ edge = "off" /\ edge' = "baseline"
  /\ UNCHANGED <<actor, resets, container, busy, work, evidence, stopping,
                 aborted, answer>>

\* The actor is evicted or made anew from the published version: its lock and
\* its work are gone, the container keeps running.
Reset ==
  /\ resets > 0 /\ resets' = resets - 1
  /\ actor' \in {actor, edge}
  /\ busy' = FALSE
  /\ stopping' = {}
  /\ work' = [r \in Request |-> IF work[r] = "new" THEN "new" ELSE "lost"]
  /\ answer' = [r \in Request |->
       IF work[r] # "new" /\ answer[r] = "none" THEN "lost" ELSE answer[r]]
  /\ UNCHANGED <<edge, container, evidence, aborted>>

-----------------------------------------------------------------------------
(* One request.                                                            *)

WorkAt(r, at) == work' = [work EXCEPT ![r] = at]
Live(r) == r \notin aborted

Answered(r, what) ==
  IF answer[r] = "none"
  THEN answer' = [answer EXCEPT ![r] = what] /\ aborted' = aborted \cup {r}
  ELSE UNCHANGED <<answer, aborted>>

Fails(r, what) == WorkAt(r, "settled") /\ Answered(r, what)

\* The edge answers for itself while it is off, the actor while it is made from
\* another version or works for another request.
Ask(r) ==
  /\ work[r] = "new"
  /\ IF edge = "off" \/ actor = "off" \/ busy
     THEN /\ work' = [work EXCEPT ![r] = "refused"]
          /\ answer' = [answer EXCEPT ![r] =
               IF edge = "off" THEN "not ready"
               ELSE IF actor = "off" THEN "invalid" ELSE "in progress"]
          /\ UNCHANGED <<busy, first>>
     ELSE /\ busy' = TRUE
          /\ first' = [first EXCEPT ![r] = running]
          /\ WorkAt(r, IF running = NoProcess THEN "start" ELSE "probe")
          /\ UNCHANGED answer
  /\ UNCHANGED <<settings, container, proven, stopping, signals, aborted>>

\* The caller waits for its deadline at most; the work goes on.
Deadline(r) ==
  /\ work[r] \notin {"new", "refused", "lost", "settled", "ended"}
  /\ Live(r)
  /\ Answered(r, "timeout")
  /\ UNCHANGED <<settings, container, busy, work, evidence, stopping>>

\* A probe is accepted when the process that answered runs, is ready and is
\* the release in its mode; the old process may still be off.
Accepted(r, allowOff) ==
  /\ work[r] = (IF allowOff THEN "probe" ELSE "verify")
  /\ Live(r) /\ running # NoProcess
  /\ is[running] = actor \/ (allowOff /\ is[running] = "off")

\* A probe that finds nothing wakes the container before it can answer.
ProbeWakes(r) ==
  /\ work[r] \in {"probe", "verify"} /\ Live(r)
  /\ running = NoProcess /\ Launch
  /\ UNCHANGED <<settings, busy, work, evidence, stopping, aborted, answer>>

ProbeFails(r) ==
  /\ work[r] \in {"probe", "verify"}
  /\ Fails(r, "failed")
  /\ UNCHANGED <<settings, container, busy, evidence, stopping>>

\* The old process is the expected one: it is signalled in the same step.
Stop(r) ==
  /\ Accepted(r, TRUE)
  /\ proven' = [proven EXCEPT ![r] = running]
  /\ stopping' = stopping \cup {r}
  /\ signals' = signals \cup {<<r, running>>}
  /\ WorkAt(r, "stop")
  /\ UNCHANGED <<settings, container, busy, first, aborted, answer>>

\* The stop operation settles: its acknowledgement is no exit.
StopSettles(r) ==
  /\ r \in stopping
  /\ stopping' = stopping \ {r}
  /\ IF work[r] # "stop" THEN UNCHANGED <<work, answer, aborted>>
     ELSE \/ Fails(r, "failed")
          \/ /\ Live(r) /\ WorkAt(r, "exit") /\ UNCHANGED <<answer, aborted>>
  /\ UNCHANGED <<settings, container, busy, evidence>>

StopTimeout(r) ==
  /\ work[r] \in {"stop", "exit"}
  /\ Fails(r, "stop timeout")
  /\ UNCHANGED <<settings, container, busy, evidence, stopping>>

SeesExit(r) ==
  /\ work[r] = "exit" /\ Live(r)
  /\ running = NoProcess
  /\ WorkAt(r, "start")
  /\ UNCHANGED <<settings, container, busy, evidence, stopping, aborted,
                 answer>>

Begin(r) ==
  /\ work[r] = "start" /\ Live(r)
  /\ WorkAt(r, "starting")
  /\ UNCHANGED <<settings, container, busy, evidence, stopping, aborted,
                 answer>>

\* Under way, the start may still launch after the deadline; then it settles.
StartLaunches(r) ==
  /\ work[r] = "starting" /\ running = NoProcess
  /\ Launch
  /\ UNCHANGED <<settings, busy, work, evidence, stopping, aborted, answer>>

Started(r) ==
  /\ work[r] = "starting" /\ Live(r) /\ running # NoProcess
  /\ WorkAt(r, "verify")
  /\ UNCHANGED <<settings, container, busy, evidence, stopping, aborted,
                 answer>>

StartFails(r) ==
  /\ work[r] = "starting"
  /\ Fails(r, "failed")
  /\ UNCHANGED <<settings, container, busy, evidence, stopping>>

\* Work whose caller is gone ends where it next looks at its deadline.
Aborts(r) ==
  /\ work[r] \in {"exit", "start"} /\ ~Live(r)
  /\ WorkAt(r, "settled")
  /\ UNCHANGED <<settings, container, busy, evidence, stopping, aborted,
                 answer>>

Verify(r) ==
  /\ Accepted(r, FALSE)
  /\ proven' = [proven EXCEPT ![r] = running]
  /\ Fails(r, "restarted")
  /\ UNCHANGED <<settings, container, busy, first, stopping, signals>>

\* Mutant of MayRelease: the lock follows the caller and not the work.
MayReleaseEarly(r) ==
  work[r] \notin {"new", "refused", "lost", "ended"} /\ answer[r] # "none"

\* The lock outlives the caller: work and its stop operation have settled.
MayRelease(r) == work[r] = "settled" /\ r \notin stopping

ReleaseLock(r) ==
  /\ MayRelease(r)
  /\ busy' = FALSE
  /\ work' = [work EXCEPT ![r] = IF work[r] = "settled" THEN "ended" ELSE @]
  /\ UNCHANGED <<settings, container, evidence, stopping, aborted, answer>>

RestartStep(r) ==
  \/ Ask(r) \/ Deadline(r) \/ ProbeWakes(r) \/ ProbeFails(r) \/ Stop(r)
  \/ StopSettles(r) \/ StopTimeout(r) \/ SeesExit(r) \/ Begin(r)
  \/ StartLaunches(r) \/ Started(r) \/ StartFails(r) \/ Aborts(r)
  \/ Verify(r) \/ ReleaseLock(r)

RestartNext ==
  Wake \/ Exit \/ Deploy \/ Reset \/ \E r \in Request : RestartStep(r)
RestartSpec == RestartInit /\ [][RestartNext]_restartVars

\* Calls of the container settle and deadlines pass; nothing else is assumed.
Settles(r) ==
  \/ Deadline(r) \/ ProbeFails(r) \/ StopTimeout(r) \/ StartFails(r)
  \/ Aborts(r) \/ StopSettles(r)
RestartFairSpec ==
  /\ RestartSpec
  /\ \A r \in Request :
       WF_restartVars(Settles(r)) /\ WF_restartVars(ReleaseLock(r))

-----------------------------------------------------------------------------
(* Properties.                                                             *)

Lifecycle == {"probe", "stop", "exit", "start", "starting", "verify"}
Places == Lifecycle \cup {"new", "refused", "lost", "settled", "ended"}
Answers == {"none", "not ready", "invalid", "in progress", "timeout", "failed",
            "stop timeout", "restarted", "lost"}

\* Every variable keeps to its type, and a lifecycle operation has the lock.
RestartTypeOK ==
  /\ edge \in {"off", "baseline"} /\ actor \in {"off", "baseline"}
  /\ born \in Process /\ running \in 0..born
  /\ is \in [Process -> Identity]
  /\ work \in [Request -> Places] /\ answer \in [Request -> Answers]
  /\ first \in [Request -> 0..born] /\ proven \in [Request -> 0..born]
  /\ stopping \cup aborted \subseteq Request
  /\ signals \subseteq Request \X (1..born)
  /\ busy \in BOOLEAN /\ resets \in 0..MaxResets
  /\ \A r \in Request : work[r] \in Lifecycle => busy

\* A receipt of a restart is for a process of the new mode that is not the
\* one that ran before: an acknowledged signal is no exit.
ReceiptIsOfNewProcess ==
  \A r \in Request : answer[r] = "restarted" =>
    proven[r] # first[r] /\ is[proven[r]] = "baseline"

\* One lifecycle operation at a time: nobody else may stop or start while a
\* stop that timed out, or the start of a caller that left, is unsettled.
OneLifecycle ==
  Cardinality({r \in Request : work[r] \in Lifecycle \/ r \in stopping}) <= 1

\* A process of another release is never signalled by a restart.
ForeignIsNotSignalled == \A s \in signals : is[s[2]] # "other"

\* No start begins for a caller that was told the restart failed.
NothingStartsAfterAnswer ==
  \A r \in Request :
    work[r] # "starting" /\ work'[r] = "starting" => answer[r] = "none"

\* The actor becomes available again after every restart, whatever failed.
LockReturns == \A r \in Request : (work[r] \in Lifecycle) ~> ~busy

\* A receipt is for a new process, one lifecycle runs at a time, and nothing
\* is started for a caller that was told of a failure.
RestartSafe ==
  /\ [](RestartTypeOK /\ ReceiptIsOfNewProcess /\ OneLifecycle
        /\ ForeignIsNotSignalled)
  /\ [][NothingStartsAfterAnswer]_restartVars
=============================================================================
