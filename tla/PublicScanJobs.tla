--------------------------- MODULE PublicScanJobs ---------------------------
(***************************************************************************)
(* The durable store of public-history scans (src/lib/db.ts): one row of   *)
(* public_scan_jobs and one of public_scan_runs per scan, the execution    *)
(* slots all worker processes share, and the admission window.             *)
(*                                                                         *)
(* Every exported operation is one write transaction and one action here.  *)
(* Time is abstracted to what the guards read of it: a lease is live or    *)
(* expired, a queued job is due or not, and the window of the admission    *)
(* budget ends at some moment.  The workers are the callers: they keep the *)
(* token of their claim and call with it, late or not, until they forget   *)
(* it.                                                                     *)
(***************************************************************************)
EXTENDS Integers, FiniteSets

CONSTANTS
  Scan,        \* the scans that may be asked for, [user, version, n]
  Current,    \* the collection version of the release in service
  ScanWorker,     \* the processes that run scans
  MaxSlots,   \* MAX_PUBLIC_SCAN_EXECUTION_CAPACITY
  MaxActive,  \* the active jobs admission allows for one version
  Limit,      \* the scans one bucket may create in a window
  Phases,     \* the length of the phase sequence, "quick" first
  ScanTrouble     \* worker deaths, failed steps and leases outrun

ASSUME PublicScanAssumption ==
  /\ IsFiniteSet(Scan) /\ Scan # {}
  /\ \A j \in Scan : DOMAIN j = {"user", "version", "n"}
  /\ IsFiniteSet(ScanWorker)
  /\ {MaxSlots, MaxActive, Limit, Phases} \subseteq Nat \ {0}
  /\ ScanTrouble \in Nat

VARIABLES
  job,       \* public_scan_jobs: a row per scan
  run,       \* public_scan_runs: the row with the same identity
  ahead,     \* <<i, j>>: both active, next_run_at of i before that of j
  slot,      \* public_scan_execution_leases
  capacity,  \* public_scan_execution_settings.capacity
  spent,     \* public_scan_rate_windows.count of the current window
  wk,        \* what each worker remembers
  trouble    \* how much of ScanTrouble is left

scanVars == <<job, run, ahead, slot, capacity, spent, wk, trouble>>

JobState == {"none", "queued", "running", "complete", "failed"}
RunState == {"none", "queued", "running", "complete_public", "failed"}
Place == {"idle", "claimed", "busy", "slotted", "done"}
NoSlot == 0
Active == {"queued", "running"}

NoJob == [state |-> "none", phase |-> 1, token |-> 0, lease |-> "none",
          due |-> FALSE]
NoRun == [state |-> "none", quick |-> FALSE, snapshot |-> FALSE]
FreeSlot == [token |-> 0, live |-> FALSE]
NoClaim == [at |-> "idle", job |-> CHOOSE j \in Scan : TRUE, token |-> 0,
         slot |-> NoSlot]

ScansInit ==
  /\ job = [j \in Scan |-> NoJob]
  /\ run = [j \in Scan |-> NoRun]
  /\ ahead = {}
  /\ slot = [s \in 1..MaxSlots |-> FreeSlot]
  /\ capacity = 1
  /\ spent = 0
  /\ wk = [w \in ScanWorker |-> NoClaim]
  /\ trouble = ScanTrouble

-----------------------------------------------------------------------------
(* Reading the tables.                                                     *)

ActiveOf(v) == {j \in Scan : j.version = v /\ job[j].state \in Active}
Lapsed(j) == job[j].state = "running" /\ job[j].lease = "expired"
LiveSlots == {s \in 1..MaxSlots : slot[s].live}

\* randomUUID: a token no row and no worker still refers to.
TokensInUse ==
  {job[j].token : j \in Scan} \cup {wk[w].token : w \in ScanWorker}
    \cup {slot[s].token : s \in 1..MaxSlots}
Fresh(t) ==
  /\ t \notin TokensInUse
  /\ \A u \in 1..(t - 1) : u \in TokensInUse
Tokens == 1..(Cardinality(Scan) + Cardinality(ScanWorker) + MaxSlots + 1)

\* The lease comparison most statements carry in their WHERE clause.
Owns(w) ==
  LET j == wk[w].job
  IN /\ job[j].state = "running"
     /\ job[j].token = wk[w].token
     /\ job[j].lease = "live"

Requeued(row, phase, due) ==
  [row EXCEPT !.state = "queued", !.phase = phase, !.due = due,
              !.token = 0, !.lease = "none"]
Ended(row, state) ==
  [row EXCEPT !.state = state, !.token = 0, !.lease = "none"]
Without(j) == {p \in ahead : j \notin {p[1], p[2]}}
Behind(j) ==
  Without(j) \cup ({i \in Scan : job[i].state \in Active} \ {j}) \X {j}

-----------------------------------------------------------------------------
(* Requests and the releases around them.                                  *)

\* enqueuePublicScan that creates a run and its job.
Enqueue(j) ==
  /\ job[j].state = "none"
  /\ \A k \in Scan :
       /\ k.user = j.user /\ k.version = j.version =>
            job[k].state \notin Active
       /\ k.user = j.user /\ k.version = j.version /\ k.n < j.n =>
            job[k].state # "none"
  /\ Cardinality(ActiveOf(j.version)) < MaxActive
  /\ spent < Limit
  /\ spent' = spent + 1
  /\ job' = [job EXCEPT ![j] = [NoJob EXCEPT !.state = "queued",
                                              !.due = TRUE]]
  /\ run' = [run EXCEPT ![j].state = "queued"]
  /\ ahead' = Behind(j)
  /\ UNCHANGED <<slot, capacity, wk, trouble>>

\* seedPublicScanQuickResult: the caller's own probe stands for phase one.
Seed(j) ==
  /\ job[j].state = "queued"
  /\ job[j].phase = 1
  /\ Phases > 1
  /\ job' = [job EXCEPT ![j].phase = 2]
  /\ run' = [run EXCEPT ![j].quick = TRUE]
  /\ UNCHANGED <<ahead, slot, capacity, spent, wk, trouble>>

\* quarantineObsoletePublicScanJobs with apply, one row of the batch.
Quarantine(j) ==
  /\ j.version # Current
  /\ job[j].state = "queued" \/ Lapsed(j)
  /\ job' = [job EXCEPT ![j] = Ended(@, "failed")]
  /\ run' = [run EXCEPT ![j].state =
               IF @ \in {"queued", "running"} THEN "failed" ELSE @]
  /\ ahead' = Without(j)
  /\ UNCHANGED <<slot, capacity, spent, wk, trouble>>

\* configurePublicScanExecutionCapacity.
Configure(c) ==
  /\ c # capacity
  /\ c < capacity => \A s \in LiveSlots : s <= c
  /\ capacity' = c
  /\ UNCHANGED <<job, run, ahead, slot, spent, wk, trouble>>

-----------------------------------------------------------------------------
(* Workers.                                                                *)

\* claimPublicScanJob of job j: the lapsed jobs of its version return to
\* the queue first, then j, if queued and due, gets a fresh token.
Recovered(v) ==
  [j \in Scan |->
     IF j.version = v /\ Lapsed(j)
       THEN Requeued(job[j], job[j].phase, job[j].due) ELSE job[j]]
Claimable(j) == (job[j].state = "queued" \/ Lapsed(j)) /\ job[j].due
Claim(w, j) ==
  /\ wk[w].at = "idle"
  /\ Claimable(j)
  /\ \E t \in Tokens :
       /\ Fresh(t)
       /\ job' = [Recovered(j.version) EXCEPT
                    ![j].state = "running", ![j].token = t,
                    ![j].lease = "live"]
       /\ wk' = [wk EXCEPT ![w] = [at |-> "claimed", job |-> j,
                                   token |-> t, slot |-> NoSlot]]
  /\ run' = [run EXCEPT ![j].state = "running"]
  /\ UNCHANGED <<ahead, slot, capacity, spent, trouble>>

\* The claim without a job id takes the first due job of the version.
ClaimNext(w, v) ==
  \E j \in Scan :
    /\ j.version = v
    /\ \A i \in Scan : i.version = v /\ Claimable(i) => <<i, j>> \notin ahead
    /\ Claim(w, j)

\* acquirePublicScanExecutionLease: the first slot whose lease is over.
AcquireSlot(w) ==
  /\ wk[w].at = "claimed"
  /\ \E s \in 1..capacity :
       /\ ~slot[s].live
       /\ \A r \in 1..(s - 1) : slot[r].live
       /\ slot' = [slot EXCEPT ![s] = [token |-> wk[w].token,
                                       live |-> TRUE]]
       /\ wk' = [wk EXCEPT ![w].at = "slotted", ![w].slot = s]
  /\ UNCHANGED <<job, run, ahead, capacity, spent, trouble>>
NoSlotFree(w) ==
  /\ wk[w].at = "claimed"
  /\ \A s \in 1..capacity : slot[s].live
  /\ wk' = [wk EXCEPT ![w].at = "busy"]
  /\ UNCHANGED <<job, run, ahead, slot, capacity, spent, trouble>>

\* releasePublicScanJobClaim: a compare-and-set on the token alone.  A run
\* that is not 'running' rolls the release back.
ReleaseClaim(w) ==
  LET j == wk[w].job
      own == job[j].state = "running" /\ job[j].token = wk[w].token
  IN /\ wk[w].at = "busy"
     /\ IF own /\ run[j].state = "running"
          THEN /\ job' = [job EXCEPT ![j] = Requeued(@, @.phase, @.due)]
               /\ run' = [run EXCEPT ![j].state = "queued"]
          ELSE UNCHANGED <<job, run>>
     /\ wk' = [wk EXCEPT ![w] = NoClaim]
     /\ UNCHANGED <<ahead, slot, capacity, spent, trouble>>

\* savePublicScanQuickResult.
SaveQuick(w) ==
  /\ wk[w].at = "slotted"
  /\ Owns(w)
  /\ run' = [run EXCEPT ![wk[w].job].quick = TRUE]
  /\ UNCHANGED <<job, ahead, slot, capacity, spent, wk, trouble>>

\* savePublicScanJobProgress: the job goes back to the queue at its next
\* phase, behind the others; the run stays 'running'.
SaveProgress(w) ==
  LET j == wk[w].job
  IN /\ wk[w].at = "slotted"
     /\ Owns(w)
     /\ job[j].phase < Phases
     /\ job' = [job EXCEPT ![j] = Requeued(@, @.phase + 1, TRUE)]
     /\ ahead' = Behind(j)
     /\ wk' = [wk EXCEPT ![w].at = "done"]
     /\ UNCHANGED <<run, slot, capacity, spent, trouble>>

\* Mutant of CompleteRun: it only makes sure that nobody else has the job.
CompleteLate(w) ==
  LET j == wk[w].job
  IN /\ wk[w].at = "slotted"
     /\ Owns(w) \/ job[j].lease # "live"
     /\ job[j].phase = Phases
     /\ job' = [job EXCEPT ![j] = Ended(@, "complete")]
     /\ run' = [run EXCEPT ![j].state = "complete_public",
                           ![j].snapshot = TRUE]
     /\ ahead' = Without(j)
     /\ wk' = [wk EXCEPT ![w].at = "done"]
     /\ UNCHANGED <<slot, capacity, spent, trouble>>

\* completePublicScanRun: the run gets its snapshot and both rows end.
CompleteRun(w) ==
  LET j == wk[w].job
  IN /\ wk[w].at = "slotted"
     /\ Owns(w)
     /\ job[j].phase = Phases
     /\ run[j].state = "running"
     /\ job' = [job EXCEPT ![j] = Ended(@, "complete")]
     /\ run' = [run EXCEPT ![j].state = "complete_public",
                           ![j].snapshot = TRUE]
     /\ ahead' = Without(j)
     /\ wk' = [wk EXCEPT ![w].at = "done"]
     /\ UNCHANGED <<slot, capacity, spent, trouble>>

\* failPublicScanJob: with a retry time the job waits, without it ends.
Fail(w, retry) ==
  LET j == wk[w].job
  IN /\ wk[w].at = "slotted"
     /\ trouble > 0
     /\ Owns(w)
     /\ job' = [job EXCEPT ![j] = IF retry THEN Requeued(@, @.phase, FALSE)
                                           ELSE Ended(@, "failed")]
     /\ run' = [run EXCEPT ![j].state = IF retry THEN "queued"
                                                 ELSE "failed"]
     /\ ahead' = IF retry THEN Behind(j) ELSE Without(j)
     /\ wk' = [wk EXCEPT ![w].at = "done"]
     /\ trouble' = trouble - 1
     /\ UNCHANGED <<slot, capacity, spent>>

\* An operation of a worker whose lease is gone answers false.
Refused(w) ==
  /\ wk[w].at = "slotted"
  /\ ~Owns(w)
  /\ wk' = [wk EXCEPT ![w].at = "done"]
  /\ UNCHANGED <<job, run, ahead, slot, capacity, spent, trouble>>

\* releasePublicScanExecutionLease: a compare-and-set on the slot's token.
ReleaseSlot(w) ==
  LET s == wk[w].slot
  IN /\ wk[w].at = "done"
     /\ slot' = [r \in 1..MaxSlots |->
                   IF r = s /\ slot[r].token = wk[w].token
                     THEN FreeSlot ELSE slot[r]]
     /\ wk' = [wk EXCEPT ![w] = NoClaim]
     /\ UNCHANGED <<job, run, ahead, capacity, spent, trouble>>

\* A worker dies: it forgets its claim and its slot.
Die(w) ==
  /\ wk[w].at # "idle"
  /\ trouble > 0
  /\ trouble' = trouble - 1
  /\ wk' = [wk EXCEPT ![w] = NoClaim]
  /\ UNCHANGED <<job, run, ahead, slot, capacity, spent>>

-----------------------------------------------------------------------------
(* Time.                                                                   *)

\* A lease ends: after its worker forgot it, or under a worker too slow.
Abandoned(j) == \A w \in ScanWorker : wk[w].token # job[j].token
LeaseEnds(j) ==
  /\ job[j].lease = "live"
  /\ \/ Abandoned(j) /\ UNCHANGED trouble
     \/ ~Abandoned(j) /\ trouble > 0 /\ trouble' = trouble - 1
  /\ job' = [job EXCEPT ![j].lease = "expired"]
  /\ UNCHANGED <<run, ahead, slot, capacity, spent, wk>>
SlotEnds(s) ==
  /\ slot[s].live
  /\ slot' = [slot EXCEPT ![s].live = FALSE]
  /\ UNCHANGED <<job, run, ahead, capacity, spent, wk, trouble>>
BecomesDue(j) ==
  /\ job[j].state = "queued"
  /\ ~job[j].due
  /\ job' = [job EXCEPT ![j].due = TRUE]
  /\ UNCHANGED <<run, ahead, slot, capacity, spent, wk, trouble>>
WindowEnds ==
  /\ spent > 0
  /\ spent' = 0
  /\ UNCHANGED <<job, run, ahead, slot, capacity, wk, trouble>>

ExecutionStep(w) ==
  \/ AcquireSlot(w) \/ NoSlotFree(w) \/ ReleaseClaim(w)
  \/ SaveProgress(w) \/ CompleteRun(w) \/ Refused(w) \/ ReleaseSlot(w)

ScansNext ==
  \/ \E j \in Scan : Enqueue(j) \/ Seed(j) \/ Quarantine(j)
  \/ \E c \in 1..MaxSlots : Configure(c)
  \/ \E w \in ScanWorker, j \in Scan : Claim(w, j)
  \/ \E w \in ScanWorker : ExecutionStep(w) \/ SaveQuick(w) \/ Die(w)
  \/ \E w \in ScanWorker, retry \in BOOLEAN : Fail(w, retry)
  \/ \E j \in Scan : LeaseEnds(j) \/ BecomesDue(j)
  \/ \E s \in 1..MaxSlots : SlotEnds(s)
  \/ WindowEnds

ScansSpec == ScansInit /\ [][ScansNext]_scanVars

\* The cron claims for the release in service, its operator quarantines the
\* others, a worker that is alive goes on, and time passes.
ScansFairness ==
  /\ \A w \in ScanWorker : WF_scanVars(ClaimNext(w, Current))
  /\ \A w \in ScanWorker : WF_scanVars(ExecutionStep(w))
  /\ \A j \in Scan : WF_scanVars(Quarantine(j))
  /\ \A j \in Scan : WF_scanVars(LeaseEnds(j) /\ Abandoned(j))
  /\ \A j \in Scan : WF_scanVars(BecomesDue(j))
  /\ \A s \in 1..MaxSlots : WF_scanVars(SlotEnds(s))
FairScansSpec == ScansSpec /\ ScansFairness

-----------------------------------------------------------------------------
ScanTypeOK ==
  /\ job \in [Scan -> [state : JobState, phase : 1..Phases, token : Nat,
                      lease : {"none", "live", "expired"}, due : BOOLEAN]]
  /\ run \in [Scan -> [state : RunState, quick : BOOLEAN,
                      snapshot : BOOLEAN]]
  /\ ahead \subseteq Scan \X Scan
  /\ slot \in [1..MaxSlots -> [token : Nat, live : BOOLEAN]]
  /\ capacity \in 1..MaxSlots
  /\ spent \in 0..Limit
  /\ wk \in [ScanWorker -> [at : Place, job : Scan, token : Nat,
                        slot : 0..MaxSlots]]
  /\ trouble \in 0..ScanTrouble

-----------------------------------------------------------------------------
(* What the store promises.                                                *)

\* The two rows of a scan tell the same story after every transaction: a
\* run has ended exactly as its job has, only a complete run has a
\* snapshot, and a claimed job's run is 'running'.
RunFollowsJob ==
  \A j \in Scan :
    /\ job[j].state = "none" <=> run[j].state = "none"
    /\ job[j].state = "failed" <=> run[j].state = "failed"
    /\ job[j].state = "complete" <=> run[j].state = "complete_public"
    /\ run[j].snapshot <=> job[j].state = "complete"
    /\ job[j].state = "running" => run[j].state = "running"

\* Of the workers that still call for a scan, late ones included, at most one
\* passes the lease comparison.
OneOwner ==
  \A v, w \in ScanWorker :
    Owns(v) /\ Owns(w) /\ wk[v].job = wk[w].job => v = w

\* db.ts:2572 "the next worker receives a fresh token and the old worker
\* can no longer publish": while a lease is live only the worker that
\* holds its token changes the job or its run; anyone else, late workers,
\* other claims and the quarantine included, leaves both alone.
LiveLeaseIsKept ==
  \A j \in Scan :
    /\ job[j].lease = "live"
    /\ job'[j] # job[j] \/ run'[j] # run[j]
    => \/ job'[j] = [job[j] EXCEPT !.lease = "expired"]
       \/ \E w \in ScanWorker :
            /\ wk[w].token = job[j].token
            /\ \A x \in ScanWorker \ {w} : wk'[x] = wk[x]

\* An ended scan is historical evidence: its rows never change again.
EndedIsFinal ==
  \A j \in Scan : job[j].state \in {"complete", "failed"} =>
    job'[j] = job[j] /\ run'[j] = run[j]

\* The process-wide cap: the live execution leases never outnumber the
\* configured capacity, through shrinking and growing as well.
ExecutionsBounded == Cardinality(LiveSlots) <= capacity

\* A live execution lease is only given up by the worker that took it.
SlotIsKept ==
  \A s \in 1..MaxSlots :
    slot[s].live /\ slot'[s].token # slot[s].token =>
      \E w \in ScanWorker : wk[w].token = slot[s].token /\ wk'[w] = NoClaim

\* Admission counts the claimed jobs with the waiting ones.
AdmissionBound ==
  \A j \in Scan :
    Cardinality({k \in Scan : k.version = j.version
                              /\ job[k].state \in Active}) <= MaxActive

\* Every scan asked for ends, the obsolete ones through the quarantine.
ScansEnd ==
  \A j \in Scan : job[j].state \in Active ~>
                     job[j].state \in {"complete", "failed"}

\* The store keeps the two rows of a scan, its leases and its caps.
PublicScanSafe ==
  /\ [](ScanTypeOK /\ RunFollowsJob /\ OneOwner /\ ExecutionsBounded
        /\ AdmissionBound)
  /\ [][LiveLeaseIsKept /\ EndedIsFinal /\ SlotIsKept]_scanVars
=============================================================================
