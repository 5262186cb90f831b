------------------------- MODULE CommitVerification -------------------------
(***************************************************************************)
(* The commit-recovery facts of one durable scan (src/lib/db.ts): the      *)
(* candidates found by search, the ranges of history still to verify on    *)
(* the default branch, and the commit total published from them.           *)
(*                                                                         *)
(* The commits of the repository are 1..Commits in authored order and a    *)
(* page holds one of them.  Each fact operation first reads that the       *)
(* worker's lease is the active one (hasPublicScanLease) and then writes   *)
(* in a second statement, so a lease may move between the two.  The        *)
(* worker that strings the operations together is not in the repository;   *)
(* it saves its cursor after each step and a step may be run again.        *)
(***************************************************************************)
EXTENDS Integers, FiniteSets, FiniteSetsExt

CONSTANTS
  Commits,   \* how many commits the repository has
  Verifier,  \* the processes that may hold the lease in turn
  MaxMoves,  \* how often the lease may expire and be claimed again
  Nobody     \* no worker

ASSUME FactsAssumption ==
  /\ Commits \in Nat \ {0}
  /\ MaxMoves \in Nat
  /\ Nobody \notin Verifier

VARIABLES
  holder,      \* the worker whose token the running job carries
  moves,       \* how often the lease may still move
  cursor,      \* the saved cursor: candidate pages done, then preparation
  candidates,  \* public_scan_commit_candidates
  work,        \* public_scan_commit_verification_work, by range
  total,       \* commits in public_scan_commit_repo_facts
  ended,       \* the job is complete
  verifier     \* what each worker is doing

factVars == <<holder, moves, cursor, candidates, work, total, ended, verifier>>

Ranges == {r \in (1..Commits) \X (1..Commits) : r[1] <= r[2]}
Size(r) == r[2] - r[1] + 1
NoWork == [state |-> "none", page |-> 1, count |-> 0]
Fetched == [NoWork EXCEPT !.state = "queued"]
FactPlace == {"idle", "plan", "step", "checked", "empty", "saving"}
Op == {"none", "upsert", "prepare", "page", "split", "materialize"}
Resting ==
  [at |-> "idle", op |-> "none", range |-> <<1, 1>>, page |-> 1, cut |-> 1]

FactsInit ==
  /\ holder = Nobody
  /\ moves = MaxMoves
  /\ cursor = 0
  /\ candidates = {}
  /\ work = [r \in Ranges |-> NoWork]
  /\ total = 0
  /\ ended = FALSE
  /\ verifier = [w \in Verifier |-> Resting]

Open == {r \in Ranges : work[r].state = "queued"}
Finished == {r \in Ranges : work[r].state = "complete"}
Covers(r, c) == r[1] <= c /\ c <= r[2]
\* The sum of the counts of the complete ranges, as the size of a set.
CountedPages == UNION {{r} \X (1..work[r].count) : r \in Finished}
RangesOf(c) == {r \in Open \cup Finished : Covers(r, c)}
Precedes(r, q) == r[1] < q[1] \/ (r[1] = q[1] /\ r[2] <= q[2])

Goes(w, at) == verifier' = [verifier EXCEPT ![w].at = at]
Start(w, op, r, page, cut) ==
  verifier' = [verifier EXCEPT ![w] =
    [at |-> "step", op |-> op, range |-> r, page |-> page, cut |-> cut]]

\* A claim; the one before it has lapsed if there was one.
Take(w) ==
  /\ ~ended
  /\ verifier[w] = Resting
  /\ \/ holder = Nobody /\ UNCHANGED moves
     \/ holder # Nobody /\ moves > 0 /\ moves' = moves - 1
  /\ holder' = w
  \* What the step will do follows from the cursor in the job's payload.
  /\ IF cursor < Commits THEN Start(w, "upsert", <<1, 1>>, cursor + 1, 1)
     ELSE IF cursor = Commits THEN Start(w, "prepare", <<1, 1>>, 1, 1)
     ELSE Goes(w, "plan")
  /\ UNCHANGED <<cursor, candidates, work, total, ended>>

\* getNextPublicScanCommitVerificationWork: the page of the first open
\* range is fetched to be recorded, or the range is found too long and is
\* to be split at some date; without an open range the totals are due.
Plan(w) ==
  /\ verifier[w].at = "plan"
  /\ \/ Open = {} /\ Start(w, "materialize", <<1, 1>>, 1, 1)
     \/ \E r \in Open :
          /\ \A q \in Open : Precedes(r, q)
          /\ \/ Start(w, "page", r, work[r].page, 1)
             \/ \E cut \in r[1]..(r[2] - 1) :
                  Start(w, "split", r, work[r].page, cut)
  /\ UNCHANGED <<holder, moves, cursor, candidates, work, total, ended>>

\* hasPublicScanLease, read outside the write that follows it.
Verify(w) ==
  /\ verifier[w].at = "step"
  /\ IF holder = w /\ ~ended THEN Goes(w, "checked")
     ELSE verifier' = [verifier EXCEPT ![w] = Resting]
  /\ UNCHANGED <<holder, moves, cursor, candidates, work, total, ended>>

\* upsertPublicScanCommitCandidates: replays overwrite the same rows.
Upsert(w) ==
  /\ verifier[w].at = "checked"
  /\ verifier[w].op = "upsert"
  /\ candidates' = candidates \cup {verifier[w].page}
  /\ Goes(w, "saving")
  /\ UNCHANGED <<holder, moves, cursor, work, total, ended>>

\* preparePublicScanCommitVerificationWork: one range from the first to the
\* last candidate, unless the row is there already.
Prepare(w) ==
  LET r == <<Min(candidates), Max(candidates)>>
  IN /\ verifier[w].at = "checked"
     /\ verifier[w].op = "prepare"
     /\ candidates # {}
     /\ work' = [work EXCEPT ![r] =
                   IF @.state = "none" THEN Fetched ELSE @]
     /\ Goes(w, "saving")
     /\ UNCHANGED <<holder, moves, cursor, candidates, total, ended>>

\* recordPublicScanCommitVerificationPage: counted only if the row is still
\* queued at the page that was fetched.
RecordPage(w) ==
  LET r == verifier[w].range
      last == work[r].page = Size(r)
  IN /\ verifier[w].at = "checked"
     /\ verifier[w].op = "page"
     /\ work' = IF work[r].state = "queued" /\ work[r].page = verifier[w].page
                  THEN [work EXCEPT ![r] =
                         [state |-> IF last THEN "complete" ELSE "queued",
                          page |-> IF last THEN @.page ELSE @.page + 1,
                          count |-> @.count + 1]]
                  ELSE work
     /\ Goes(w, "saving")
     /\ UNCHANGED <<holder, moves, cursor, candidates, total, ended>>

\* Mutant of Parts: the older part reaches up to the date of the newer.
PartsSharing(r, cut) == {<<r[1], cut>>, <<cut, r[2]>>}

\* splitPublicScanCommitVerificationWork: the range gives way to its two
\* parts in one transaction; a part that exists already is left as it is.
Parts(r, cut) == {<<r[1], cut>>, <<cut + 1, r[2]>>}
Split(w) ==
  LET r == verifier[w].range
      parts == Parts(r, verifier[w].cut)
  IN /\ verifier[w].at = "checked"
     /\ verifier[w].op = "split"
     /\ work' = IF work[r].state = "queued" /\ work[r].page = verifier[w].page
                  THEN [q \in Ranges |->
                          IF q = r
                            THEN [work[r] EXCEPT !.state = "superseded"]
                          ELSE IF q \in parts /\ work[q].state = "none"
                            THEN Fetched
                          ELSE work[q]]
                  ELSE work
     /\ Goes(w, "saving")
     /\ UNCHANGED <<holder, moves, cursor, candidates, total, ended>>

\* materializePublicScanCommitRepoFacts looks for an unfinished range and
\* writes the totals of the complete ones in another statement.
LookUnfinished(w) ==
  /\ verifier[w].at = "checked"
  /\ verifier[w].op = "materialize"
  /\ Goes(w, IF Open = {} THEN "empty" ELSE "saving")
  /\ UNCHANGED <<holder, moves, cursor, candidates, work, total, ended>>
Materialize(w) ==
  /\ verifier[w].at = "empty"
  /\ total' = Cardinality(CountedPages)
  /\ Goes(w, "saving")
  /\ UNCHANGED <<holder, moves, cursor, candidates, work, ended>>

\* savePublicScanJobProgress and, after the totals, completePublicScanRun:
\* transactions that compare the lease themselves.
Save(w) ==
  /\ verifier[w].at = "saving"
  /\ verifier' = [verifier EXCEPT ![w] = Resting]
  /\ IF holder = w /\ ~ended
       THEN /\ holder' = Nobody
            /\ cursor' = IF verifier[w].op \in {"upsert", "prepare"}
                           THEN cursor + 1 ELSE cursor
            /\ ended' = (verifier[w].op = "materialize" /\ Open = {})
       ELSE UNCHANGED <<holder, cursor, ended>>
  /\ UNCHANGED <<moves, candidates, work, total>>

\* A worker dies in its step; the lease stays until someone claims again.
Dies(w) ==
  /\ verifier[w] # Resting
  /\ moves > 0
  /\ verifier' = [verifier EXCEPT ![w] = Resting]
  /\ UNCHANGED <<holder, moves, cursor, candidates, work, total, ended>>

FactStep(w) ==
  \/ Plan(w) \/ Verify(w) \/ Upsert(w) \/ Prepare(w) \/ RecordPage(w)
  \/ Split(w) \/ LookUnfinished(w) \/ Materialize(w) \/ Save(w)
FactsNext == \E w \in Verifier : Take(w) \/ FactStep(w) \/ Dies(w)
FactsSpec == FactsInit /\ [][FactsNext]_factVars

-----------------------------------------------------------------------------
FactsTypeOK ==
  /\ holder \in Verifier \cup {Nobody}
  /\ moves \in 0..MaxMoves
  /\ cursor \in 0..(Commits + 1)
  /\ candidates \subseteq 1..Commits
  /\ work \in [Ranges ->
       [state : {"none", "queued", "superseded", "complete"},
        page : 1..Commits, count : Nat]]
  /\ total \in Nat
  /\ ended \in BOOLEAN
  /\ verifier \in [Verifier ->
       [at : FactPlace, op : Op, range : Ranges,
        page : 1..Commits, cut : 1..Commits]]

\* db.ts:3878 a page is recorded exactly once: whatever is replayed by a
\* retry or written late by a worker that lost its lease, a completed scan
\* publishes each commit of the repository once.
CommitsCountedOnce == ended => total = Commits

\* Splitting loses no part of the history and verifies none of it twice:
\* once the ranges are prepared, each commit lies in one open or complete
\* range.
RangesPartition ==
  cursor > Commits =>
    \A c \in 1..Commits : Cardinality(RangesOf(c)) = 1

\* What holds in every state of the commit facts: a completed scan publishes
\* each commit once, and the ranges partition the history.
CommitFactsSafe == FactsTypeOK /\ CommitsCountedOnce /\ RangesPartition
=============================================================================
