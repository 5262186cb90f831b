------------------------- MODULE SourceOutboxProofs -------------------------
(* Proofs about SourceOutbox for any number of runs, repositories, relay     *)
(* invocations and operator commands, and any attempt budget.                *)
EXTENDS SourceOutbox, FiniteSetTheorems, TLAPS

-----------------------------------------------------------------------------
(* Rows. *)

LEMMA NoRowType == NoRow \in Row
BY OutboxAssumption DEF OutboxAssumption, NoRow, Row, RowStatus

LEMMA NewRowType == \A n \in Nat : NewRow(n) \in Row
BY NoRowType DEF NewRow, Row, RowStatus

LEMMA ReleaseType ==
  \A row \in Row, st \in RowStatus : Release(row, st) \in Row
BY DEF Release, Row

\* A claim stays inside the budget because only rows below it are claimable.
LEMMA LeasedToType ==
  ASSUME NEW row \in Row, NEW t \in Tokens, row.attempts < MaxAttempts
  PROVE  LeasedTo(row, t) \in Row
<1>. DEFINE n == row.attempts + 1
<1>1. n \in 0..MaxAttempts
  BY OutboxAssumption DEF OutboxAssumption, Row
<1>2. [row EXCEPT !.status = "leased", !.token = t, !.live = TRUE,
                  !.attempts = n] \in Row
  <2>. HIDE DEF n
  <2>. QED BY <1>1 DEF Row, RowStatus
<1>. QED BY <1>2 DEF LeasedTo

LEMMA FinishedType ==
  ASSUME NEW row \in Row, NEW delivered \in BOOLEAN
  PROVE  Finished(row, delivered) \in Row
<1>1. Outcome(row, delivered) \in RowStatus
  BY DEF Outcome, RowStatus
<1>2. Release(row, Outcome(row, delivered)) \in Row
  BY <1>1, ReleaseType
<1>. QED BY <1>2 DEF Finished, Row

LEMMA RestartedType == \A row \in Row : Restarted(row) \in Row
<1>. TAKE row \in Row
<1>. DEFINE n == row.replays + 1
<1>1. n \in Nat /\ 0 \in 0..MaxAttempts
  BY OutboxAssumption DEF OutboxAssumption, Row
<1>2. Release(row, "pending") \in Row
  BY ReleaseType DEF RowStatus
<1>3. [Release(row, "pending") EXCEPT !.attempts = 0, !.due = TRUE,
                                      !.replays = n] \in Row
  <2>. HIDE DEF n
  <2>. QED BY <1>1, <1>2 DEF Row
<1>. QED BY <1>3 DEF Restarted

LEMMA IdleType == Idle \in Invocation
BY DEF Idle, Invocation

\* AssessmentOutbox leaves the outbox a table of rows.
LEMMA AssessmentOutboxType ==
  ASSUME NEW r \in Runs, NEW eligible, outbox \in [Runs -> Row],
         sequence \in Nat, AssessmentOutbox(r, eligible)
  PROVE  outbox' \in [Runs -> Row] /\ sequence' \in Nat
<1>1. CASE eligible /\ ~HasRow(r)
  BY <1>1, NewRowType DEF AssessmentOutbox
<1>2. CASE ~(eligible /\ ~HasRow(r))
  BY <1>2 DEF AssessmentOutbox
<1>. QED BY <1>1, <1>2

-----------------------------------------------------------------------------
\* Every variable of the core outbox and its relay keeps its type, for every
\* value of the constants; in particular no schedule of claims, sweeps,
\* confirmations and replays takes a row past its attempt budget.
THEOREM TypeCorrect == Spec => []TypeOK
<1>1. Init => TypeOK
  BY NoRowType, IdleType DEF Init, TypeOK, RunStatus
<1>2. TypeOK /\ [Next]_vars => TypeOK'
  <2> SUFFICES ASSUME TypeOK, [Next]_vars PROVE TypeOK'
    OBVIOUS
  <2>1. CASE UNCHANGED vars
    BY <2>1 DEF TypeOK, vars, coreVars, relayVars
  <2>2. ASSUME NEW r \in Runs, CreateRun(r) PROVE TypeOK'
    BY <2>2 DEF CreateRun, TypeOK, RunStatus, relayVars
  <2>3. ASSUME NEW r \in Runs, ReuseOpenRun(r) PROVE TypeOK'
    BY <2>3 DEF ReuseOpenRun, TypeOK, RunStatus, relayVars
  <2>4. ASSUME NEW r \in Runs, Finalize(r) PROVE TypeOK'
    BY <2>4, AssessmentOutboxType DEF Finalize, TypeOK, RunStatus, relayVars
  <2>5. ASSUME NEW r \in Runs, FindReusable(r) PROVE TypeOK'
    BY <2>5 DEF FindReusable, TypeOK, relayVars
  <2>6. ASSUME NEW r \in Runs, RecordSubmission(r) PROVE TypeOK'
    <3>1. outbox' \in [Runs -> Row] /\ sequence' \in Nat
      BY <2>6, AssessmentOutboxType DEF RecordSubmission, TypeOK
    <3>. QED BY <2>6, <3>1 DEF RecordSubmission, TypeOK, relayVars
  <2>7. ASSUME NEW t \in Tokens, Sweep(t) PROVE TypeOK'
    <3>1. outbox' \in [Runs -> Row]
      BY <2>7, ReleaseType DEF Sweep, TypeOK, RowStatus
    <3>2. relay' \in [Tokens -> Invocation]
      BY <2>7 DEF Sweep, TypeOK, Invocation
    <3>. QED BY <2>7, <3>1, <3>2 DEF Sweep, TypeOK, coreVars
  <2>8. ASSUME NEW t \in Tokens, Claim(t) PROVE TypeOK'
    <3>1. PICK S \in SUBSET Runs :
            /\ FirstClaimable(S)
            /\ outbox' = [r \in Runs |->
                 IF r \in S THEN LeasedTo(outbox[r], t) ELSE outbox[r]]
            /\ relay' = [relay EXCEPT ![t] =
                 IF S = {} THEN Idle
                 ELSE [pc |-> "sending", batch |-> S, sent |-> FALSE]]
      BY <2>8 DEF Claim
    <3>2. ASSUME NEW r \in S PROVE LeasedTo(outbox[r], t) \in Row
      BY <3>1, LeasedToType DEF TypeOK, FirstClaimable, Claimable
    <3>3. outbox' \in [Runs -> Row]
      BY <3>1, <3>2 DEF TypeOK
    <3>4. relay' \in [Tokens -> Invocation]
      BY <3>1, IdleType DEF TypeOK, Invocation
    <3>. QED BY <2>8, <3>3, <3>4 DEF Claim, TypeOK, coreVars
  <2>9. ASSUME NEW t \in Tokens, Send(t) PROVE TypeOK'
    <3>1. relay' \in [Tokens -> Invocation]
      <4>1. [relay[t] EXCEPT !.pc = "confirming", !.sent = TRUE] \in Invocation
        BY DEF TypeOK, Invocation
      <4>. QED BY <2>9, <4>1 DEF Send, TypeOK
    <3>2. published' \in SUBSET Runs
      BY <2>9 DEF Send, TypeOK, Invocation
    <3>. QED BY <2>9, <3>1, <3>2 DEF Send, TypeOK, coreVars
  <2>10. ASSUME NEW t \in Tokens, SendUncertain(t) PROVE TypeOK'
    <3>1. relay' \in [Tokens -> Invocation]
      <4>1. [relay[t] EXCEPT !.pc = "confirming", !.sent = FALSE] \in Invocation
        BY DEF TypeOK, Invocation
      <4>. QED BY <2>10, <4>1 DEF SendUncertain, TypeOK
    <3>2. late' \in SUBSET Runs
      BY <2>10 DEF SendUncertain, TypeOK, Invocation
    <3>. QED BY <2>10, <3>1, <3>2 DEF SendUncertain, TypeOK, coreVars
  <2>11. ASSUME NEW r \in Runs, LateSend(r) PROVE TypeOK'
    BY <2>11 DEF LateSend, TypeOK, coreVars
  <2>12. ASSUME NEW t \in Tokens, NEW r \in Runs, Confirmed(t, r)
         PROVE  relay' \in [Tokens -> Invocation]
    BY <2>12, IdleType DEF Confirmed, TypeOK, Invocation
  <2>13. ASSUME NEW t \in Tokens, NEW r \in Runs, Finish(t, r) PROVE TypeOK'
    <3>1. Finished(outbox[r], relay[t].sent) \in Row
      BY FinishedType DEF TypeOK, Invocation
    <3>2. outbox' \in [Runs -> Row]
      BY <2>13, <3>1 DEF Finish, TypeOK
    <3>. QED BY <2>12, <2>13, <3>2 DEF Finish, TypeOK, coreVars
  <2>14. ASSUME NEW t \in Tokens, NEW r \in Runs, FinishLost(t, r)
         PROVE  TypeOK'
    BY <2>12, <2>14 DEF FinishLost, TypeOK, coreVars
  <2>15. ASSUME NEW t \in Tokens, CrashRelay(t) PROVE TypeOK'
    BY <2>15, IdleType DEF CrashRelay, TypeOK, coreVars
  <2>16. ASSUME NEW c \in Commands, NEW r \in Runs, Replay(c, r) PROVE TypeOK'
    <3>1. Restarted(outbox[r]) \in Row
      BY RestartedType DEF TypeOK
    <3>2. outbox' \in [Runs -> Row]
      BY <2>16, <3>1 DEF Replay, TypeOK
    <3>. QED BY <2>16, <3>2 DEF Replay, TypeOK, coreVars, relayVars
  <2>17. ASSUME NEW r \in Runs, Elapse(r) PROVE TypeOK'
    <3>1. [outbox[r] EXCEPT !.due = TRUE] \in Row
      BY DEF TypeOK, Row
    <3>2. outbox' \in [Runs -> Row]
      BY <2>17, <3>1 DEF Elapse, TypeOK
    <3>. QED BY <2>17, <3>2 DEF Elapse, TypeOK, coreVars, relayVars
  <2>18. ASSUME NEW r \in Runs, ExpireLease(r) PROVE TypeOK'
    <3>1. [outbox[r] EXCEPT !.live = FALSE] \in Row
      BY DEF TypeOK, Row
    <3>2. outbox' \in [Runs -> Row]
      BY <2>18, <3>1 DEF ExpireLease, TypeOK
    <3>. QED BY <2>18, <3>2 DEF ExpireLease, TypeOK, coreVars, relayVars
  <2>. QED
    BY <2>1, <2>2, <2>3, <2>4, <2>5, <2>6, <2>7, <2>8, <2>9, <2>10, <2>11,
       <2>13, <2>14, <2>15, <2>16, <2>17, <2>18
    DEF Next, CoreStep, RelayStep, ConfirmStep
<1>. QED BY <1>1, <1>2, PTL DEF Spec

-----------------------------------------------------------------------------
(* Source facts.  Which runs have events, and in what order, is decided by   *)
(* the core transactions alone: the relay, the operator and the clock only   *)
(* move rows that exist.                                                      *)

\* What an event says of its run, and what the latest assessment says of its
\* repository.  The last conjunct is the heart of it: a repository's latest
\* event carries the largest version, because an event is only ever appended
\* for the run that is the latest at that moment.
EventsAreFacts ==
  \A r \in Runs : HasRow(r) => /\ runStatus[r] = "completed"
                               /\ receipt[r]
                               /\ outbox[r].seq <= sequence

LatestIsCompleted ==
  /\ \A k \in Repos : latest[k] # None => /\ runStatus[latest[k]] = "completed"
                                          /\ RepoOf[latest[k]] = k
  /\ \A r \in Runs : runStatus[r] = "completed" => latest[RepoOf[r]] # None

LatestIsNewest ==
  \A r, n \in Runs :
    (HasRow(r) /\ HasRow(n) /\ n = latest[RepoOf[r]] /\ n # r) =>
      outbox[r].seq < outbox[n].seq

FactsInv ==
  /\ EventsAreFacts
  /\ LatestIsCompleted
  /\ SubmittedLatestHasEvent
  /\ LatestIsNewest

RowsKept ==
  /\ UNCHANGED <<coreVars, sequence>>
  /\ \A r \in Runs : /\ outbox'[r].seq = outbox[r].seq
                     /\ outbox'[r].status = "none" <=> outbox[r].status = "none"

LEMMA RowsKeptFacts == TypeOK /\ FactsInv /\ RowsKept => FactsInv'
BY DEF TypeOK, FactsInv, EventsAreFacts, LatestIsCompleted, LatestIsNewest,
       RowsKept, coreVars, HasRow, SubmittedLatestHasEvent

LEMMA ReleaseKeeps ==
  ASSUME NEW row \in Row, NEW st \in RowStatus \ {"none"}
  PROVE  Release(row, st).seq = row.seq /\ Release(row, st).status = st
BY DEF Release, Row

LEMMA LeasedToKeeps ==
  ASSUME NEW row \in Row, NEW t
  PROVE  LeasedTo(row, t).seq = row.seq /\ LeasedTo(row, t).status = "leased"
BY DEF LeasedTo, Row

LEMMA FinishedKeeps ==
  ASSUME NEW row \in Row, NEW delivered \in BOOLEAN
  PROVE  /\ Finished(row, delivered).seq = row.seq
         /\ Finished(row, delivered).status = Outcome(row, delivered)
         /\ Outcome(row, delivered) # "none"
<1>1. Outcome(row, delivered) \in RowStatus \ {"none"}
  BY DEF Outcome, RowStatus
<1>2. Release(row, Outcome(row, delivered)) \in Row
  BY <1>1, ReleaseType
<1>. QED BY <1>1, <1>2, ReleaseKeeps DEF Finished, Row

LEMMA RestartedKeeps ==
  ASSUME NEW row \in Row
  PROVE  Restarted(row).seq = row.seq /\ Restarted(row).status = "pending"
<1>1. Release(row, "pending") \in Row
  BY ReleaseType DEF RowStatus
<1>. QED BY <1>1, ReleaseKeeps DEF Restarted, Row, RowStatus

\* No step of a relay invocation, of the operator or of the clock creates an
\* event, renumbers one or touches the core facts.
LEMMA DeliveryKeepsRows ==
  ASSUME TypeOK,
         \/ \E r \in Runs : LateSend(r) \/ Elapse(r) \/ ExpireLease(r)
         \/ \E t \in Tokens : RelayStep(t)
         \/ \E c \in Commands, r \in Runs : Replay(c, r)
  PROVE  RowsKept
<1>1. ASSUME NEW r \in Runs, LateSend(r) PROVE RowsKept
  BY <1>1 DEF LateSend, RowsKept
<1>2. ASSUME NEW r \in Runs, Elapse(r) \/ ExpireLease(r) PROVE RowsKept
  BY <1>2 DEF Elapse, ExpireLease, RowsKept, TypeOK, Row
<1>3. ASSUME NEW t \in Tokens, Sweep(t) PROVE RowsKept
  <2>1. ASSUME NEW r \in Runs, Exhausted(r)
        PROVE  /\ Release(outbox[r], "failed").seq = outbox[r].seq
               /\ Release(outbox[r], "failed").status = "failed"
    BY ReleaseKeeps DEF TypeOK, RowStatus
  <2>. QED BY <1>3, <2>1 DEF Sweep, RowsKept, Exhausted
<1>4. ASSUME NEW t \in Tokens, Claim(t) PROVE RowsKept
  <2>1. ASSUME NEW r \in Runs, Claimable(r)
        PROVE  /\ LeasedTo(outbox[r], t).seq = outbox[r].seq
               /\ LeasedTo(outbox[r], t).status = "leased"
    BY LeasedToKeeps DEF TypeOK
  <2>. QED BY <1>4, <2>1 DEF Claim, RowsKept, FirstClaimable, Claimable
<1>5. ASSUME NEW t \in Tokens, Send(t) \/ SendUncertain(t) \/ CrashRelay(t)
      PROVE  RowsKept
  BY <1>5 DEF Send, SendUncertain, CrashRelay, RowsKept
<1>6. ASSUME NEW t \in Tokens, NEW r \in Runs, Finish(t, r) PROVE RowsKept
  <2>1. /\ Finished(outbox[r], relay[t].sent).seq = outbox[r].seq
        /\ Finished(outbox[r], relay[t].sent).status # "none"
    BY FinishedKeeps DEF TypeOK, Invocation
  <2>. QED BY <1>6, <2>1 DEF Finish, RowsKept, Holds, TypeOK
<1>7. ASSUME NEW t \in Tokens, NEW r \in Runs, FinishLost(t, r)
      PROVE  RowsKept
  BY <1>7 DEF FinishLost, RowsKept
<1>8. ASSUME NEW c \in Commands, NEW r \in Runs, Replay(c, r) PROVE RowsKept
  <2>1. /\ Restarted(outbox[r]).seq = outbox[r].seq
        /\ Restarted(outbox[r]).status = "pending"
    BY RestartedKeeps DEF TypeOK
  <2>. QED BY <1>8, <2>1 DEF Replay, RowsKept, HasRow, TypeOK
<1>. QED BY <1>1, <1>2, <1>3, <1>4, <1>5, <1>6, <1>7, <1>8
     DEF RelayStep, ConfirmStep

LEMMA NewRowFields ==
  \A n \in Nat : NewRow(n).seq = n /\ NewRow(n).status = "pending"
BY NoRowType DEF NewRow, Row

\* An append as the invariant sees it: at most r's row is new, and then it has
\* the next version.
RowAppended(r, eligible) ==
  /\ sequence' \in {sequence, sequence + 1}
  /\ \A q \in Runs \ {r} : outbox'[q] = outbox[q]
  /\ IF eligible /\ ~HasRow(r)
     THEN /\ sequence' = sequence + 1
          /\ outbox'[r].seq = sequence + 1
          /\ outbox'[r].status = "pending"
     ELSE outbox'[r] = outbox[r]

LEMMA AppendsAtMostOneRow ==
  ASSUME NEW r \in Runs, NEW eligible \in BOOLEAN,
         outbox \in [Runs -> Row], sequence \in Nat,
         AssessmentOutbox(r, eligible)
  PROVE  RowAppended(r, eligible)
<1>1. CASE eligible /\ ~HasRow(r)
  BY <1>1, NewRowFields DEF AssessmentOutbox, RowAppended
<1>2. CASE ~(eligible /\ ~HasRow(r))
  BY <1>2 DEF AssessmentOutbox, RowAppended
<1>. QED BY <1>1, <1>2

\* The source facts stay consistent for any number of runs and repositories.
THEOREM FactsInvariant == Spec => []FactsInv
<1>1. Init => FactsInv
  BY DEF Init, FactsInv, EventsAreFacts, LatestIsCompleted, LatestIsNewest,
         HasRow, NoRow, SubmittedLatestHasEvent
<1>2. TypeOK /\ FactsInv /\ [Next]_vars => FactsInv'
  <2>. SUFFICES ASSUME TypeOK, FactsInv, [Next]_vars PROVE FactsInv'
    OBVIOUS
  <2>1. CASE UNCHANGED vars
    BY <2>1, RowsKeptFacts DEF RowsKept, vars
  <2>2. ASSUME NEW r \in Runs, CreateRun(r) PROVE FactsInv'
    BY <2>2 DEF CreateRun, TypeOK, FactsInv, EventsAreFacts, LatestIsCompleted,
                LatestIsNewest, HasRow, SubmittedLatestHasEvent
  <2>3. ASSUME NEW r \in Runs, ReuseOpenRun(r) PROVE FactsInv'
    BY <2>3 DEF ReuseOpenRun, TypeOK, FactsInv, EventsAreFacts,
                LatestIsCompleted, LatestIsNewest, HasRow,
                SubmittedLatestHasEvent
  <2>4. ASSUME NEW r \in Runs, Finalize(r) PROVE FactsInv'
    <3>1. ~HasRow(r) /\ runStatus[r] = "open" /\ RepoOf[r] \in Repos
      BY <2>4, OutboxAssumption
      DEF OutboxAssumption, Finalize, FactsInv, EventsAreFacts
    <3>2. RowAppended(r, receipt[r])
      BY <2>4, <3>1, AppendsAtMostOneRow DEF Finalize, TypeOK
    <3>3. /\ runStatus' = [runStatus EXCEPT ![r] = "completed"]
          /\ latest' = [latest EXCEPT ![RepoOf[r]] = r]
          /\ receipt' = receipt
      BY <2>4 DEF Finalize
    <3>4. EventsAreFacts'
      BY <3>1, <3>2, <3>3
      DEF RowAppended, TypeOK, Row, FactsInv, EventsAreFacts, HasRow
    <3>5. LatestIsCompleted'
      BY <3>1, <3>3, OutboxAssumption
      DEF OutboxAssumption, TypeOK, FactsInv, LatestIsCompleted
    <3>6. SubmittedLatestHasEvent'
      BY <3>1, <3>2, <3>3
      DEF RowAppended, TypeOK, FactsInv, SubmittedLatestHasEvent, HasRow
    <3>7. LatestIsNewest'
      BY <3>1, <3>2, <3>3, OutboxAssumption
      DEF OutboxAssumption, RowAppended, TypeOK, Row, FactsInv, EventsAreFacts,
          LatestIsNewest, HasRow
    <3>. QED BY <3>4, <3>5, <3>6, <3>7 DEF FactsInv
  <2>5. ASSUME NEW r \in Runs, FindReusable(r) PROVE FactsInv'
    BY <2>5 DEF FindReusable, FactsInv, EventsAreFacts, LatestIsCompleted,
                LatestIsNewest, HasRow, SubmittedLatestHasEvent
  <2>6. ASSUME NEW r \in Runs, RecordSubmission(r) PROVE FactsInv'
    <3>. DEFINE eligible == runStatus[r] = "completed" /\ latest[RepoOf[r]] = r
    <3>1. RowAppended(r, eligible)
      BY <2>6, AppendsAtMostOneRow DEF RecordSubmission, TypeOK
    <3>2. /\ runStatus' = runStatus /\ latest' = latest
          /\ receipt' = [receipt EXCEPT ![r] = TRUE]
      BY <2>6 DEF RecordSubmission
    <3>3. EventsAreFacts'
      BY <3>1, <3>2
      DEF RowAppended, TypeOK, Row, FactsInv, EventsAreFacts, HasRow
    <3>4. LatestIsCompleted'
      BY <3>2 DEF FactsInv, LatestIsCompleted
    <3>5. SubmittedLatestHasEvent'
      BY <3>1, <3>2
      DEF RowAppended, TypeOK, FactsInv, LatestIsCompleted,
          SubmittedLatestHasEvent, HasRow
    <3>6. LatestIsNewest'
      BY <3>1, <3>2
      DEF RowAppended, TypeOK, Row, FactsInv, EventsAreFacts, LatestIsNewest,
          HasRow
    <3>. QED BY <3>3, <3>4, <3>5, <3>6 DEF FactsInv
  <2>7. CASE \/ \E r \in Runs : LateSend(r) \/ Elapse(r) \/ ExpireLease(r)
             \/ \E t \in Tokens : RelayStep(t)
             \/ \E c \in Commands, r \in Runs : Replay(c, r)
    BY <2>7, DeliveryKeepsRows, RowsKeptFacts
  <2>. QED BY <2>1, <2>2, <2>3, <2>4, <2>5, <2>6, <2>7 DEF Next, CoreStep
<1>. QED BY <1>1, <1>2, TypeCorrect, PTL DEF Spec

\* Finalization and submission may commit in either order, and a newer run may
\* overtake either of them: the latest submitted assessment always has an
\* event.
THEOREM SubmittedLatestHasEventHolds == Spec => []SubmittedLatestHasEvent
<1>1. FactsInv => SubmittedLatestHasEvent
  BY DEF FactsInv
<1>. QED BY <1>1, FactsInvariant, PTL

\* The executor never meets an event it can neither project nor retire, as
\* long as the repository's latest run was submitted.
THEOREM SubmittedLatestResolvesHolds == Spec => []SubmittedLatestResolves
<1>1. TypeOK /\ FactsInv => SubmittedLatestResolves
  BY OutboxAssumption
  DEF OutboxAssumption, TypeOK, FactsInv, EventsAreFacts, LatestIsCompleted,
      LatestIsNewest, SubmittedLatestHasEvent, SubmittedLatestResolves,
      Assessment, Newer
<1>. QED BY <1>1, TypeCorrect, FactsInvariant, PTL

-----------------------------------------------------------------------------
(* Publication. *)

\* `delivered` and the intention to write it both rest on an accepted send.
PublishedInv ==
  /\ DeliveredWasPublished
  /\ \A t \in Tokens : relay[t].sent => relay[t].batch \subseteq published

\* A row is marked delivered only after the queue accepted its event, whatever
\* leases expire and whichever invocations overlap.
THEOREM DeliveredWasPublishedHolds == Spec => []DeliveredWasPublished
<1>1. Init => PublishedInv
  BY DEF Init, PublishedInv, DeliveredWasPublished, NoRow, Idle
<1>2. TypeOK /\ PublishedInv /\ [Next]_vars => PublishedInv'
  <2>. SUFFICES ASSUME TypeOK, PublishedInv, [Next]_vars PROVE PublishedInv'
    OBVIOUS
  <2>1. CASE UNCHANGED vars
    BY <2>1 DEF PublishedInv, DeliveredWasPublished, vars, relayVars
  <2>2. ASSUME NEW r \in Runs, CreateRun(r) \/ ReuseOpenRun(r)
               \/ FindReusable(r)
        PROVE  PublishedInv'
    BY <2>2 DEF CreateRun, ReuseOpenRun, FindReusable, PublishedInv,
                DeliveredWasPublished, relayVars
  <2>3. ASSUME NEW r \in Runs, Finalize(r) \/ RecordSubmission(r)
        PROVE  PublishedInv'
    BY <2>3, NewRowFields DEF Finalize, RecordSubmission, AssessmentOutbox,
       TypeOK, PublishedInv, DeliveredWasPublished, relayVars
  <2>4. ASSUME NEW t \in Tokens, Sweep(t) PROVE PublishedInv'
    <3>1. \A r \in Runs : outbox'[r].status = "delivered" =>
                           outbox[r].status = "delivered"
      BY <2>4, ReleaseKeeps DEF Sweep, TypeOK, RowStatus
    <3>. QED BY <2>4, <3>1 DEF Sweep, TypeOK, Invocation, PublishedInv,
                DeliveredWasPublished
  <2>5. ASSUME NEW t \in Tokens, Claim(t) PROVE PublishedInv'
    <3>1. \A r \in Runs : outbox'[r].status = "delivered" =>
                           outbox[r].status = "delivered"
      BY <2>5, LeasedToKeeps DEF Claim, TypeOK
    <3>. QED BY <2>5, <3>1 DEF Claim, TypeOK, PublishedInv, Idle,
                DeliveredWasPublished
  <2>6. ASSUME NEW t \in Tokens, Send(t) \/ SendUncertain(t)
        PROVE  PublishedInv'
    BY <2>6 DEF Send, SendUncertain, TypeOK, Invocation, PublishedInv,
                DeliveredWasPublished
  <2>7. ASSUME NEW r \in Runs, LateSend(r) PROVE PublishedInv'
    BY <2>7 DEF LateSend, PublishedInv, DeliveredWasPublished
  <2>8. ASSUME NEW t \in Tokens, NEW r \in Runs, Confirmed(t, r),
               UNCHANGED published
        PROVE  \A u \in Tokens : relay'[u].sent =>
                                 relay'[u].batch \subseteq published'
    BY <2>8 DEF Confirmed, TypeOK, Invocation, PublishedInv, Idle
  <2>9. ASSUME NEW t \in Tokens, NEW r \in Runs, Finish(t, r)
        PROVE  PublishedInv'
    <3>1. Finished(outbox[r], relay[t].sent).status = "delivered" =>
            relay[t].sent
      BY FinishedKeeps DEF TypeOK, Invocation, Outcome
    <3>2. DeliveredWasPublished'
      BY <2>9, <3>1 DEF Finish, TypeOK, PublishedInv, DeliveredWasPublished
    <3>. QED BY <2>8, <2>9, <3>2 DEF Finish, PublishedInv
  <2>10. ASSUME NEW t \in Tokens, NEW r \in Runs, FinishLost(t, r)
         PROVE  PublishedInv'
    BY <2>8, <2>10 DEF FinishLost, PublishedInv, DeliveredWasPublished
  <2>11. ASSUME NEW t \in Tokens, CrashRelay(t) PROVE PublishedInv'
    BY <2>11 DEF CrashRelay, TypeOK, PublishedInv, DeliveredWasPublished, Idle
  <2>12. ASSUME NEW c \in Commands, NEW r \in Runs, Replay(c, r)
         PROVE  PublishedInv'
    BY <2>12, RestartedKeeps DEF Replay, TypeOK, PublishedInv,
       DeliveredWasPublished, relayVars
  <2>13. ASSUME NEW r \in Runs, Elapse(r) \/ ExpireLease(r)
         PROVE  PublishedInv'
    BY <2>13 DEF Elapse, ExpireLease, TypeOK, Row, PublishedInv,
                 DeliveredWasPublished, relayVars
  <2>. QED
    BY <2>1, <2>2, <2>3, <2>4, <2>5, <2>6, <2>7, <2>9, <2>10, <2>11, <2>12,
       <2>13
    DEF Next, CoreStep, RelayStep, ConfirmStep
<1>3. PublishedInv => DeliveredWasPublished
  BY DEF PublishedInv
<1>. QED BY <1>1, <1>2, <1>3, TypeCorrect, PTL DEF Spec

-----------------------------------------------------------------------------
(* Finality and replays. *)

\* What a step may do to a row's status and replay count.
RowMoved(r) ==
  /\ outbox[r].status = "delivered" => outbox'[r].status = "delivered"
  /\ \/ outbox'[r].replays = outbox[r].replays
     \/ outbox[r].status = "none" /\ outbox'[r].replays = 0
  /\ outbox'[r].status = "none" => outbox[r].status = "none"

\* A step that leaves the commands alone, or repeats one on record.
RowsMoved == UNCHANGED commands /\ \A r \in Runs : RowMoved(r)

\* The one step that records a command: a failed row starts again.
Recorded(c, r) ==
  /\ commands[c] = None
  /\ commands' = [commands EXCEPT ![c] = r]
  /\ outbox[r].status = "failed"
  /\ outbox' = [outbox EXCEPT ![r] = Restarted(outbox[r])]

LEMMA RestartedCounts ==
  ASSUME NEW row \in Row
  PROVE  Restarted(row).replays = row.replays + 1
<1>. DEFINE n == row.replays + 1
<1>1. Release(row, "pending") \in Row
  BY ReleaseType DEF RowStatus
<1>2. [Release(row, "pending") EXCEPT !.attempts = 0, !.due = TRUE,
                                      !.replays = n].replays = n
  <2>. HIDE DEF n
  <2>. QED BY <1>1 DEF Row
<1>. QED BY <1>2 DEF Restarted

LEMMA StepMovesRows ==
  ASSUME TypeOK, [Next]_vars
  PROVE  RowsMoved \/ \E c \in Commands, r \in Runs : Recorded(c, r)
<1>1. CASE UNCHANGED vars
  BY <1>1 DEF vars, RowsMoved, RowMoved
<1>2. ASSUME NEW r \in Runs, CoreStep(r) PROVE RowsMoved
  <2>1. /\ UNCHANGED commands
        /\ \/ UNCHANGED outbox
           \/ /\ ~HasRow(r)
              /\ outbox' = [outbox EXCEPT ![r] = NewRow(sequence + 1)]
    BY <1>2
    DEF CoreStep, CreateRun, ReuseOpenRun, Finalize, FindReusable,
        RecordSubmission, AssessmentOutbox
  <2>2. /\ NewRow(sequence + 1).replays = 0
        /\ NewRow(sequence + 1).status = "pending"
    BY DEF NewRow, NoRow
  <2>. QED BY <2>1, <2>2 DEF TypeOK, HasRow, RowsMoved, RowMoved
<1>3. ASSUME NEW r \in Runs, LateSend(r) PROVE RowsMoved
  BY <1>3 DEF LateSend, RowsMoved, RowMoved
<1>4. ASSUME NEW r \in Runs, Elapse(r) \/ ExpireLease(r) PROVE RowsMoved
  <2>1. ASSUME NEW row \in Row
        PROVE  /\ LET new == [row EXCEPT !.due = TRUE] IN
                  new.status = row.status /\ new.replays = row.replays
               /\ LET new == [row EXCEPT !.live = FALSE] IN
                  new.status = row.status /\ new.replays = row.replays
    BY DEF Row
  <2>2. /\ UNCHANGED commands
        /\ \E row : /\ outbox' = [outbox EXCEPT ![r] = row]
                    /\ row.status = outbox[r].status
                    /\ row.replays = outbox[r].replays
    BY <1>4, <2>1 DEF Elapse, ExpireLease, TypeOK
  <2>. QED BY <2>2 DEF TypeOK, RowsMoved, RowMoved
<1>5. ASSUME NEW t \in Tokens, Sweep(t) PROVE RowsMoved
  <2>1. ASSUME NEW r \in Runs, Exhausted(r)
        PROVE  /\ outbox[r].status # "delivered"
               /\ Release(outbox[r], "failed").replays = outbox[r].replays
               /\ Release(outbox[r], "failed").status = "failed"
    BY <2>1 DEF Exhausted, Release, TypeOK, Row
  <2>. QED BY <1>5, <2>1 DEF Sweep, RowsMoved, RowMoved
<1>6. ASSUME NEW t \in Tokens, Claim(t) PROVE RowsMoved
  <2>1. ASSUME NEW r \in Runs, Claimable(r)
        PROVE  /\ outbox[r].status # "delivered"
               /\ LeasedTo(outbox[r], t).replays = outbox[r].replays
               /\ LeasedTo(outbox[r], t).status = "leased"
    BY <2>1 DEF Claimable, LeasedTo, TypeOK, Row
  <2>. QED BY <1>6, <2>1 DEF Claim, FirstClaimable, RowsMoved, RowMoved
<1>7. ASSUME NEW t \in Tokens, Send(t) \/ SendUncertain(t) \/ CrashRelay(t)
      PROVE  RowsMoved
  BY <1>7 DEF Send, SendUncertain, CrashRelay, RowsMoved, RowMoved
<1>8. ASSUME NEW t \in Tokens, NEW r \in Runs, Finish(t, r) PROVE RowsMoved
  <2>. DEFINE row == Finished(outbox[r], relay[t].sent)
  <2>1. row.replays = outbox[r].replays /\ row.status # "none"
    BY FinishedKeeps DEF Finished, Release, TypeOK, Row, Invocation
  <2>2. \/ UNCHANGED outbox
        \/ /\ outbox[r].status = "leased"
           /\ outbox' = [outbox EXCEPT ![r] = row]
    BY <1>8 DEF Finish, Holds
  <2>. HIDE DEF row
  <2>. QED BY <1>8, <2>1, <2>2 DEF Finish, TypeOK, RowsMoved, RowMoved
<1>9. ASSUME NEW t \in Tokens, NEW r \in Runs, FinishLost(t, r)
      PROVE  RowsMoved
  BY <1>9 DEF FinishLost, RowsMoved, RowMoved
<1>10. ASSUME NEW c \in Commands, NEW r \in Runs, Replay(c, r)
       PROVE  RowsMoved \/ Recorded(c, r)
  <2>1. CASE commands[c] = r
    BY <1>10, <2>1 DEF Replay, TypeOK, RowsMoved, RowMoved
  <2>2. CASE commands[c] # r
    BY <1>10, <2>2 DEF Replay, Recorded
  <2>. QED BY <2>1, <2>2
<1>. QED
  BY <1>1, <1>2, <1>3, <1>4, <1>5, <1>6, <1>7, <1>8, <1>9, <1>10
  DEF Next, RelayStep, ConfirmStep

\* No confirmation, sweep, claim or operator command moves a delivered row,
\* for any number of them.
THEOREM DeliveredIsFinalHolds == Spec => DeliveredIsFinal
<1>1. ASSUME TypeOK, [Next]_vars
      PROVE  [\A r \in Runs : outbox[r].status = "delivered" =>
                                outbox'[r].status = "delivered"]_vars
  BY <1>1, StepMovesRows DEF RowsMoved, RowMoved, Recorded, TypeOK
<1>. QED BY <1>1, TypeCorrect, PTL DEF Spec, DeliveredIsFinal

\* The count is inductive once the recorded commands are finitely many and
\* only rows have any.
Recording(r) == {c \in Commands : commands[c] = r}

ReplayInv ==
  \A r \in Runs : /\ IsFiniteSet(Recording(r))
                  /\ outbox[r].replays = Cardinality(Recording(r))
                  /\ outbox[r].status = "none" => outbox[r].replays = 0

\* The operator's restarts and the recorded commands agree for any number of
\* commands, retried any number of times.
THEOREM ReplayOncePerCommandHolds == Spec => []ReplayOncePerCommand
<1>1. Init => ReplayInv
  <2>. SUFFICES ASSUME Init, NEW r \in Runs
                PROVE  /\ Recording(r) = {}
                       /\ outbox[r].replays = 0
    BY FS_EmptySet DEF ReplayInv
  <2>. QED BY OutboxAssumption DEF OutboxAssumption, Init, Recording, NoRow
<1>2. TypeOK /\ ReplayInv /\ [Next]_vars => ReplayInv'
  <2>. SUFFICES ASSUME TypeOK, ReplayInv, [Next]_vars, NEW r \in Runs
                PROVE  (/\ IsFiniteSet(Recording(r))
                        /\ outbox[r].replays = Cardinality(Recording(r))
                        /\ outbox[r].status = "none" =>
                             outbox[r].replays = 0)'
    BY DEF ReplayInv
  <2>1. CASE RowsMoved
    <3>1. Recording(r)' = Recording(r)
      BY <2>1 DEF RowsMoved, Recording
    <3>. QED BY <2>1, <3>1 DEF RowsMoved, RowMoved, ReplayInv
  <2>2. ASSUME NEW c \in Commands, NEW q \in Runs, Recorded(c, q)
        PROVE  (/\ IsFiniteSet(Recording(r))
                /\ outbox[r].replays = Cardinality(Recording(r))
                /\ outbox[r].status = "none" => outbox[r].replays = 0)'
    <3>1. CASE r = q
      <4>1. Recording(r)' = Recording(r) \cup {c} /\ c \notin Recording(r)
        BY <2>2, <3>1, OutboxAssumption
        DEF OutboxAssumption, Recorded, Recording, TypeOK
      <4>2. /\ outbox'[r].replays = outbox[r].replays + 1
            /\ outbox'[r].status = "pending"
        BY <2>2, <3>1, RestartedCounts, RestartedKeeps DEF Recorded, TypeOK
      <4>3. /\ IsFiniteSet(Recording(r) \cup {c})
            /\ Cardinality(Recording(r) \cup {c}) =
                 Cardinality(Recording(r)) + 1
        BY <4>1, FS_AddElement DEF ReplayInv
      <4>. QED BY <4>1, <4>2, <4>3 DEF ReplayInv
    <3>2. CASE r # q
      <4>1. Recording(r)' = Recording(r)
        BY <2>2, <3>2, OutboxAssumption
        DEF OutboxAssumption, Recorded, Recording, TypeOK
      <4>2. outbox'[r] = outbox[r]
        BY <2>2, <3>2 DEF Recorded, TypeOK
      <4>. QED BY <4>1, <4>2 DEF ReplayInv
    <3>. QED BY <3>1, <3>2
  <2>. QED BY <2>1, <2>2, StepMovesRows
<1>3. ReplayInv => ReplayOncePerCommand
  BY DEF ReplayInv, ReplayOncePerCommand, Recording
<1>. QED BY <1>1, <1>2, <1>3, TypeCorrect, PTL DEF Spec
=============================================================================
