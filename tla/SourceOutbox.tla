---------------------------- MODULE SourceOutbox ----------------------------
(***************************************************************************)
(* The core database's transactional outbox and the cron relay that drains *)
(* it into the Feed queue.                                                  *)
(*                                                                         *)
(* A completed project analysis with a submission receipt gets exactly one *)
(* outbox row; its AUTOINCREMENT sequence is the source version every      *)
(* later component orders by.  Each cron invocation of the relay sweeps    *)
(* exhausted leases, claims a batch under a fresh lease token, sends the   *)
(* batch to the queue under a deadline and confirms the rows one by one.   *)
(* Any step may be the invocation's last.                                  *)
(*                                                                         *)
(* Time.  `live` says that lease_expires_at is in the future and `due`     *)
(* that available_at has passed.  ExpireLease and Elapse flip them at any  *)
(* moment, which covers every clock the invocations may read.              *)
(***************************************************************************)
EXTENDS Naturals, FiniteSets

CONSTANTS
  Runs,          \* project analysis runs; a run's event is named by the run
  Repos,         \* repository keys (aggregate_key)
  RepoOf,        \* the repository a run analyses
  Tokens,        \* lease tokens: one per concurrent relay invocation
  Commands,      \* operator command identifiers
  None,          \* the NULL of a nullable column
  MaxAttempts,   \* 10 in the source
  ClaimLimit     \* 100 in the source

ASSUME OutboxAssumption ==
  /\ RepoOf \in [Runs -> Repos]
  /\ None \notin Runs
  /\ None \notin Tokens
  /\ MaxAttempts \in Nat \ {0}
  /\ ClaimLimit \in Nat \ {0}

VARIABLES
  runStatus,     \* project_analysis_runs.status, active states merged
  receipt,       \* feed_submission_receipts, UNIQUE(analysis_id)
  latest,        \* project_assessments.latest_analysis_id
  reusing,       \* runs a POST has found reusable and not yet recorded
  outbox,        \* feed_source_outbox, UNIQUE(event_id)
  sequence,      \* the last AUTOINCREMENT value handed out
  commands,      \* feed_source_operator_commands: the run a command names
  relay,         \* relay invocations by lease token
  late,          \* sends that outlived their five-second deadline
  published      \* events the queue has accepted at least once

coreVars  == <<runStatus, receipt, latest, reusing>>
relayVars == <<relay, late, published>>
vars == <<coreVars, outbox, sequence, commands, relayVars>>

RunStatus == {"absent", "open", "completed"}
RowStatus == {"none", "pending", "leased", "delivered", "failed"}

Row == [seq : Nat, status : RowStatus, attempts : 0..MaxAttempts,
        token : Tokens \cup {None}, live : BOOLEAN, due : BOOLEAN,
        replays : Nat]

Invocation == [pc : {"idle", "swept", "sending", "confirming"},
               batch : SUBSET Runs, sent : BOOLEAN]

NoRow == [seq |-> 0, status |-> "none", attempts |-> 0, token |-> None,
          live |-> FALSE, due |-> FALSE, replays |-> 0]

NewRow(n) == [NoRow EXCEPT !.seq = n, !.status = "pending", !.due = TRUE]

Idle == [pc |-> "idle", batch |-> {}, sent |-> FALSE]

HasRow(r) == outbox[r].status # "none"

-----------------------------------------------------------------------------
(* The core transactions that write source facts. *)

\* Runs that are open at the start were created before the outbox was enabled
\* and carry no receipt.
Init ==
  /\ runStatus \in [Runs -> {"absent", "open"}]
  /\ receipt = [r \in Runs |-> FALSE]
  /\ latest = [k \in Repos |-> None]
  /\ reusing = {}
  /\ outbox = [r \in Runs |-> NoRow]
  /\ sequence = 0
  /\ commands = [c \in Commands |-> None]
  /\ relay = [t \in Tokens |-> Idle]
  /\ late = {}
  /\ published = {}

\* INSERT .. SELECT .. ON CONFLICT(event_id) DO NOTHING: `eligible` is the
\* WHERE clause of the select as the enclosing transaction sees it.
AssessmentOutbox(r, eligible) ==
  IF eligible /\ ~HasRow(r)
  THEN /\ sequence' = sequence + 1
       /\ outbox' = [outbox EXCEPT ![r] = NewRow(sequence + 1)]
  ELSE UNCHANGED <<outbox, sequence>>

\* POST /api/project-analyses for work nobody has started: the run and its
\* receipt commit together.
CreateRun(r) ==
  /\ runStatus[r] = "absent"
  /\ runStatus' = [runStatus EXCEPT ![r] = "open"]
  /\ receipt' = [receipt EXCEPT ![r] = TRUE]
  /\ UNCHANGED <<latest, reusing, outbox, sequence, commands, relayVars>>

\* The same POST finds the active key taken: the open run gets the receipt.
ReuseOpenRun(r) ==
  /\ runStatus[r] = "open"
  /\ receipt' = [receipt EXCEPT ![r] = TRUE]
  /\ UNCHANGED <<runStatus, latest, reusing, outbox, sequence, commands,
                 relayVars>>

\* finalizeProjectAnalysis: assessment, run transition and event in one batch
\* whose guard aborts when the run is no longer open.
Finalize(r) ==
  /\ runStatus[r] = "open"
  /\ runStatus' = [runStatus EXCEPT ![r] = "completed"]
  /\ latest' = [latest EXCEPT ![RepoOf[r]] = r]
  /\ AssessmentOutbox(r, receipt[r])
  /\ UNCHANGED <<receipt, reusing, commands, relayVars>>

\* A POST finds the repository's current completed run ...
FindReusable(r) ==
  /\ runStatus[r] = "completed"
  /\ latest[RepoOf[r]] = r
  /\ reusing' = reusing \cup {r}
  /\ UNCHANGED <<runStatus, receipt, latest, outbox, sequence, commands,
                 relayVars>>

\* Mutant of RecordSubmission: the receipt without its outbox statement.
RecordReceiptOnly(r) ==
  /\ r \in reusing
  /\ reusing' = reusing \ {r}
  /\ receipt' = [receipt EXCEPT ![r] = TRUE]
  /\ UNCHANGED <<runStatus, latest, outbox, sequence, commands, relayVars>>

\* Mutant of RecordSubmission: the select does not join the latest assessment.
RecordAnyCompleted(r) ==
  /\ r \in reusing
  /\ reusing' = reusing \ {r}
  /\ receipt' = [receipt EXCEPT ![r] = TRUE]
  /\ AssessmentOutbox(r, runStatus[r] = "completed")
  /\ UNCHANGED <<runStatus, latest, commands, relayVars>>

\* ... and records its receipt in a later transaction, by which time another
\* run may have become the latest.
RecordSubmission(r) ==
  /\ r \in reusing
  /\ reusing' = reusing \ {r}
  /\ receipt' = [receipt EXCEPT ![r] = TRUE]
  /\ AssessmentOutbox(r, runStatus[r] = "completed" /\ latest[RepoOf[r]] = r)
  /\ UNCHANGED <<runStatus, latest, commands, relayVars>>

\* The executor's read of the source facts: is this event still the
\* repository's latest assessment, and if not, is there a newer event that
\* will deliver the replacement?
Newer(r) ==
  {n \in Runs : /\ n = latest[RepoOf[r]]
                /\ RepoOf[n] = RepoOf[r]
                /\ HasRow(n) /\ receipt[n] /\ runStatus[n] = "completed"
                /\ outbox[n].seq > outbox[r].seq}

Assessment(r) ==
  IF latest[RepoOf[r]] = r THEN "current"
  ELSE IF Newer(r) # {} THEN "superseded"
  ELSE "unavailable"

-----------------------------------------------------------------------------
(* The relay. *)

\* crypto.randomUUID(): a token that no running invocation and no live lease
\* refers to is as good as one never used before.
Fresh(t) ==
  /\ relay[t].pc = "idle"
  /\ \A r \in Runs : outbox[r].token = t => ~outbox[r].live

\* Mutant of Exhausted: one attempt off.
ExhaustedLate(r) ==
  /\ outbox[r].status = "leased"
  /\ outbox[r].attempts > MaxAttempts
  /\ ~outbox[r].live

Exhausted(r) ==
  /\ outbox[r].status = "leased"
  /\ outbox[r].attempts >= MaxAttempts
  /\ ~outbox[r].live

\* Mutant of Claimable: no attempt budget.
ClaimableForever(r) ==
  \/ outbox[r].status = "pending" /\ outbox[r].due
  \/ outbox[r].status = "leased" /\ ~outbox[r].live

Claimable(r) ==
  /\ outbox[r].attempts < MaxAttempts
  /\ \/ outbox[r].status = "pending" /\ outbox[r].due
     \/ outbox[r].status = "leased" /\ ~outbox[r].live

\* ORDER BY sequence LIMIT n over the claimable rows.
FirstClaimable(S) ==
  /\ S \subseteq {r \in Runs : Claimable(r)}
  /\ \A r \in S, q \in Runs \ S : Claimable(q) => outbox[r].seq < outbox[q].seq
  /\ Cardinality(S) <= ClaimLimit
  /\ \/ \A q \in Runs : Claimable(q) => q \in S
     \/ Cardinality(S) = ClaimLimit

Release(row, status) ==
  [row EXCEPT !.status = status, !.token = None, !.live = FALSE]

LeasedTo(row, t) ==
  [row EXCEPT !.status = "leased", !.token = t, !.live = TRUE,
              !.attempts = row.attempts + 1]

\* claim, first statement: leases lost on their last attempt become failures.
Sweep(t) ==
  /\ Fresh(t)
  /\ relay' = [relay EXCEPT ![t].pc = "swept"]
  /\ outbox' = [r \in Runs |-> IF Exhausted(r)
                               THEN Release(outbox[r], "failed")
                               ELSE outbox[r]]
  /\ UNCHANGED <<coreVars, sequence, commands, late, published>>

\* claim, second statement: one UPDATE .. RETURNING, no transaction with the
\* first.
Claim(t) ==
  /\ relay[t].pc = "swept"
  /\ \E S \in SUBSET Runs :
       /\ FirstClaimable(S)
       /\ outbox' = [r \in Runs |->
            IF r \in S THEN LeasedTo(outbox[r], t) ELSE outbox[r]]
       /\ relay' = [relay EXCEPT ![t] =
            IF S = {} THEN Idle
            ELSE [pc |-> "sending", batch |-> S, sent |-> FALSE]]
  /\ UNCHANGED <<coreVars, sequence, commands, late, published>>

\* The queue accepts the batch before the deadline.
Send(t) ==
  /\ relay[t].pc = "sending"
  /\ relay' = [relay EXCEPT ![t].pc = "confirming", ![t].sent = TRUE]
  /\ published' = published \cup relay[t].batch
  /\ UNCHANGED <<coreVars, outbox, sequence, commands, late>>

\* Mutant of SendUncertain: a timed out send counts as sent.
SendUncertainTrusted(t) ==
  /\ relay[t].pc = "sending"
  /\ relay' = [relay EXCEPT ![t].pc = "confirming", ![t].sent = TRUE]
  /\ late' = late \cup relay[t].batch
  /\ UNCHANGED <<coreVars, outbox, sequence, commands, published>>

\* The send fails or times out.  What the queue did with it stays unknown.
SendUncertain(t) ==
  /\ relay[t].pc = "sending"
  /\ relay' = [relay EXCEPT ![t].pc = "confirming", ![t].sent = FALSE]
  /\ late' = late \cup relay[t].batch
  /\ UNCHANGED <<coreVars, outbox, sequence, commands, published>>

LateSend(r) ==
  /\ r \in late
  /\ late' = late \ {r}
  /\ published' \in {published, published \cup {r}}
  /\ UNCHANGED <<coreVars, outbox, sequence, commands, relay>>

\* Mutant of Holds: WHERE sequence=? alone.
HoldsUnfenced(t, r) == HasRow(r)

\* WHERE sequence=? AND status='leased' AND lease_token=? AND lease_expires_at>?
Holds(t, r) ==
  /\ outbox[r].status = "leased"
  /\ outbox[r].token = t
  /\ outbox[r].live

Outcome(row, delivered) ==
  IF delivered THEN "delivered"
  ELSE IF row.attempts >= MaxAttempts THEN "failed"
  ELSE "pending"

Finished(row, delivered) ==
  [Release(row, Outcome(row, delivered)) EXCEPT !.due = FALSE]

Confirmed(t, r) ==
  relay' = [relay EXCEPT ![t] =
    IF relay[t].batch = {r} THEN Idle
    ELSE [relay[t] EXCEPT !.batch = relay[t].batch \ {r}]]

\* One finish request; it changes nothing when the lease is no longer held.
Finish(t, r) ==
  /\ relay[t].pc = "confirming"
  /\ r \in relay[t].batch
  /\ outbox' = IF Holds(t, r)
               THEN [outbox EXCEPT ![r] = Finished(outbox[r], relay[t].sent)]
               ELSE outbox
  /\ Confirmed(t, r)
  /\ UNCHANGED <<coreVars, sequence, commands, late, published>>

\* The request never reaches the database: the lease is left to expire.
FinishLost(t, r) ==
  /\ relay[t].pc = "confirming"
  /\ r \in relay[t].batch
  /\ Confirmed(t, r)
  /\ UNCHANGED <<coreVars, outbox, sequence, commands, late, published>>

\* The invocation is cut off, or a claim response is lost.
CrashRelay(t) ==
  /\ relay[t].pc # "idle"
  /\ relay' = [relay EXCEPT ![t] = Idle]
  /\ UNCHANGED <<coreVars, outbox, sequence, commands, late, published>>

-----------------------------------------------------------------------------
(* The operator and the clock. *)

Restarted(row) ==
  [Release(row, "pending") EXCEPT !.attempts = 0, !.due = TRUE,
                                  !.replays = row.replays + 1]

\* Mutant of Replay: a command already on record resets the row again.
ReplayAgain(c, r) ==
  /\ HasRow(r)
  /\ commands[c] \in {None, r}
  /\ outbox[r].status = "failed"
  /\ outbox' = [outbox EXCEPT ![r] = Restarted(outbox[r])]
  /\ commands' = [commands EXCEPT ![c] = r]
  /\ UNCHANGED <<coreVars, sequence, relayVars>>

\* sourceReplayStatements: the identity guard, the eligibility guard, a reset
\* that a command already on record skips, and the audit row.
Replay(c, r) ==
  /\ HasRow(r)
  /\ commands[c] \in {None, r}
  /\ commands[c] = r \/ outbox[r].status = "failed"
  /\ outbox' = IF commands[c] = r THEN outbox
               ELSE [outbox EXCEPT ![r] = Restarted(outbox[r])]
  /\ commands' = [commands EXCEPT ![c] = r]
  /\ UNCHANGED <<coreVars, sequence, relayVars>>

Elapse(r) ==
  /\ outbox[r].status = "pending" /\ ~outbox[r].due
  /\ outbox' = [outbox EXCEPT ![r].due = TRUE]
  /\ UNCHANGED <<coreVars, sequence, commands, relayVars>>

ExpireLease(r) ==
  /\ outbox[r].live
  /\ outbox' = [outbox EXCEPT ![r].live = FALSE]
  /\ UNCHANGED <<coreVars, sequence, commands, relayVars>>

-----------------------------------------------------------------------------
CoreStep(r) ==
  \/ CreateRun(r) \/ ReuseOpenRun(r) \/ Finalize(r)
  \/ FindReusable(r) \/ RecordSubmission(r)

ConfirmStep(t) == \E r \in Runs : Finish(t, r) \/ FinishLost(t, r)

RelayStep(t) ==
  \/ Sweep(t) \/ Claim(t) \/ Send(t) \/ SendUncertain(t)
  \/ ConfirmStep(t) \/ CrashRelay(t)

Next ==
  \/ \E r \in Runs : CoreStep(r) \/ LateSend(r) \/ Elapse(r) \/ ExpireLease(r)
  \/ \E t \in Tokens : RelayStep(t)
  \/ \E c \in Commands, r \in Runs : Replay(c, r)

\* The minute cron keeps firing, an invocation ends within its deadlines one
\* way or the other, clocks advance, and not every invocation is cut off
\* between the two statements of its claim.
Fairness ==
  /\ WF_vars(\E t \in Tokens : Sweep(t))
  /\ SF_vars(\E t \in Tokens : Claim(t))
  /\ \A t \in Tokens : WF_vars(Claim(t) \/ Send(t) \/ SendUncertain(t)
                               \/ ConfirmStep(t) \/ CrashRelay(t))
  /\ \A r \in Runs : WF_vars(Elapse(r)) /\ WF_vars(ExpireLease(r))

Spec == Init /\ [][Next]_vars
LiveSpec == Spec /\ Fairness

-----------------------------------------------------------------------------
(* Properties. *)

\* Every variable stays in its domain; attempts never pass the budget the
\* CHECK constraint of feed_source_outbox enforces.
TypeOK ==
  /\ runStatus \in [Runs -> RunStatus]
  /\ receipt \in [Runs -> BOOLEAN]
  /\ latest \in [Repos -> Runs \cup {None}]
  /\ reusing \in SUBSET Runs
  /\ outbox \in [Runs -> Row]
  /\ sequence \in Nat
  /\ commands \in [Commands -> Runs \cup {None}]
  /\ relay \in [Tokens -> Invocation]
  /\ late \in SUBSET Runs
  /\ published \in SUBSET Runs

\* A row says `delivered` only if the queue really accepted its event, in
\* whatever order timeouts, late sends, lost confirmations, expired leases and
\* overlapping invocations happen.
DeliveredWasPublished ==
  \A r \in Runs : outbox[r].status = "delivered" => r \in published

\* No submitted assessment is lost between its transactions: when the latest
\* completed run of a repository has a receipt, it has an event, whichever of
\* finalization and submission committed first.
SubmittedLatestHasEvent ==
  \A k \in Repos :
    latest[k] # None => (receipt[latest[k]] => HasRow(latest[k]))

\* Source versions order assessments by currency: once the latest run of a
\* repository is a submitted one, an event is either current or superseded by
\* an event that can replace it, never stuck as unavailable.
SubmittedLatestResolves ==
  \A r \in Runs :
    (HasRow(r) /\ latest[RepoOf[r]] # None) =>
      (receipt[latest[RepoOf[r]]] => Assessment(r) # "unavailable")

\* An operator command restarts source delivery exactly once, however often
\* and at whatever stage of the restarted delivery it is retried.
ReplayOncePerCommand ==
  \A r \in Runs :
    outbox[r].replays = Cardinality({c \in Commands : commands[c] = r})

\* Delivery is final: no stale confirmation, sweep, claim or operator command
\* moves a delivered row again.
DeliveredIsFinal ==
  [][\A r \in Runs :
       outbox[r].status = "delivered" => outbox'[r].status = "delivered"]_vars

\* Every event the core commits is eventually delivered or visibly failed,
\* including one whose last claimant disappeared and one behind a poisoned
\* row with a lower sequence.
EventsSettle ==
  \A r \in Runs :
    HasRow(r) ~> outbox[r].status \in {"delivered", "failed"}
=============================================================================
