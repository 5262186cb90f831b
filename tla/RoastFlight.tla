---------------------------- MODULE RoastFlight ----------------------------
(***************************************************************************)
(* The score row of one account and the reports generated for it, in one   *)
(* language: publication of a scan's score (src/lib/db.ts), the roast      *)
(* route with its single-flight lock and replay cache                      *)
(* (src/app/api/roast/route.ts, src/lib/redis.ts) and its twin in Go.      *)
(*                                                                         *)
(* A scan is the number of its scanned_at stamp, which is also the write   *)
(* token it leaves: every scan writes the row at most once.  HashOf is the *)
(* digest of its snapshot and OutOf the deterministic scoring output of a  *)
(* snapshot.  A report is the hash of the snapshot it was generated from.  *)
(***************************************************************************)
EXTENDS Integers, FiniteSets, Functions

CONSTANTS
  Scans,       \* how many scans of the account are published, 1..Scans
  Hash,        \* snapshot digests
  HashOf,      \* the digest of each scan's snapshot
  OutOf,       \* the scoring output of each snapshot
  Req,         \* requests for the report
  Mishaps,     \* dead processes, failed generations, lapsed waits
  Nothing      \* no hash, no request

ASSUME RoastAssumption ==
  /\ Scans \in Nat \ {0} /\ Mishaps \in Nat
  /\ HashOf \in [1..Scans -> Hash]
  /\ DOMAIN OutOf = Hash
  /\ Nothing \notin Hash \cup Req

VARIABLES
  row,      \* the scores row: its scan, snapshot and stored report
  runs,     \* snapshots with a complete row in public_scan_runs
  sc,       \* the scans: progress and the row each has read
  replay,   \* the replay in Redis
  roastLock,  \* the key carries no owner, the model does
  rq,       \* the requests
  stored,   \* history: reports that were attached to a row
  crossed,  \* history: a scan replaced the row between another's read and
            \* write: outside the lock of coalesceScan (mcp-tools.ts) or
            \* after its lease lapsed
  mishaps

roastVars ==
  <<row, runs, sc, replay, roastLock, rq, stored, crossed, mishaps>>

NoRow == [at |-> 0, hash |-> Nothing, roast |-> Nothing]
NoReplay == [hash |-> Nothing, report |-> Nothing]
Hashes == Hash \cup {Nothing}
Over == {"served", "refused", "keyless", "failed", "dead"}
RoastPlace ==
  {"new", "looked", "known", "missed", "cold", "archived", "waiting",
   "locked", "writing", "kept", "closing"} \cup Over
NewRequest == [at |-> "new", hash |-> Nothing, id |-> 0, leader |-> FALSE,
               refresh |-> FALSE, report |-> Nothing]

RoastInit ==
  /\ row = NoRow
  /\ runs = {}
  /\ sc = [s \in 1..Scans |-> [at |-> "no", seen |-> NoRow]]
  /\ replay = NoReplay
  /\ roastLock = Nothing
  /\ rq = [r \in Req |-> NewRequest]
  /\ stored = {}
  /\ crossed = FALSE
  /\ mishaps = Mishaps

-----------------------------------------------------------------------------
(* Publication of a score: upsertCanonicalScoreGuarded reads the row and   *)
(* decides, then writes in a statement that compares some of it again.     *)

scVars == <<replay, roastLock, rq, stored, mishaps>>
ScanAt(s, at) == sc' = [sc EXCEPT ![s].at = at]

\* The row is read when the collection, begun at the stamp, is over.
ReadRow(s) ==
  /\ sc[s].at = "no"
  /\ sc' = [sc EXCEPT ![s] = [at |-> "read", seen |-> row]]
  /\ UNCHANGED <<row, runs, crossed, scVars>>

\* The row is replaced beside a scan that has read it.
Crosses(s) ==
  crossed' = (crossed \/ \E t \in (1..Scans) \ {s} : sc[t].at = "read")

\* The prose survives when the score it was written for does.
SameOutput(h, g) == OutOf[h] = OutOf[g]
Overwritten(s) ==
  [at |-> s, hash |-> HashOf[s],
   roast |-> IF SameOutput(HashOf[s], sc[s].seen.hash) THEN row.roast
                                                       ELSE Nothing]

Insert(s) ==
  /\ sc[s].at = "read"
  /\ sc[s].seen = NoRow
  /\ IF row = NoRow
       THEN /\ row' = [at |-> s, hash |-> HashOf[s], roast |-> Nothing]
            /\ ScanAt(s, "scored")
            /\ Crosses(s)
       \* Another scan inserted first: decide again against its row.
       ELSE /\ sc' = [sc EXCEPT ![s].seen = row]
            /\ UNCHANGED <<row, crossed>>
  /\ UNCHANGED <<runs, scVars>>
\* The snapshot of the row again: the stamp and the token advance.
Bump(s) ==
  /\ sc[s].at = "read"
  /\ sc[s].seen.hash = HashOf[s]
  /\ row' = IF row.hash = HashOf[s] /\ row.at < s
              THEN [row EXCEPT !.at = s] ELSE row
  /\ ScanAt(s, "scored")
  /\ UNCHANGED <<runs, crossed, scVars>>
Overwrite(s) ==
  /\ sc[s].at = "read"
  /\ sc[s].seen.hash \notin {Nothing, HashOf[s]}
  /\ sc[s].seen.at < s /\ row.at < s
  /\ row' = Overwritten(s)
  /\ ScanAt(s, "scored")
  /\ Crosses(s)
  /\ UNCHANGED <<runs, scVars>>
\* A newer scan has the row: nothing is written.
Superseded(s) ==
  /\ sc[s].at = "read"
  /\ sc[s].seen.hash \notin {Nothing, HashOf[s]}
  /\ sc[s].seen.at >= s \/ row.at >= s
  /\ ScanAt(s, "done")
  /\ UNCHANGED <<row, runs, crossed, scVars>>

\* publishCompleteQuickScan adds the run after the score.
AddRun(s) ==
  /\ sc[s].at = "scored"
  /\ runs' = runs \cup {HashOf[s]}
  /\ ScanAt(s, "done")
  /\ UNCHANGED <<row, crossed, scVars>>
ScanDies(s) ==
  /\ sc[s].at \in {"read", "scored"}
  /\ mishaps > 0
  /\ mishaps' = mishaps - 1
  /\ ScanAt(s, "done")
  /\ UNCHANGED <<row, runs, replay, roastLock, rq, stored, crossed>>

-----------------------------------------------------------------------------
(* A request for the report.                                               *)

reqVars == <<row, runs, sc, crossed, mishaps>>
Turns(r, at) == rq' = [rq EXCEPT ![r].at = at]
Serves(r, report) ==
  rq' = [rq EXCEPT ![r].at = "served", ![r].report = report]
SpendTrouble == mishaps > 0 /\ mishaps' = mishaps - 1

\* getCurrentCanonicalQuickScan: the snapshot of the served score.
LooksUp(r, refresh) ==
  /\ rq[r].at = "new"
  /\ IF row.hash \in runs
       THEN rq' = [rq EXCEPT ![r].at = "looked", ![r].hash = row.hash,
                             ![r].refresh = refresh]
       ELSE Turns(r, "refused")
  /\ UNCHANGED <<reqVars, replay, roastLock, stored>>
Look(r) == LooksUp(r, FALSE)
\* roast.go honours the refresh of a score that is not fresh: no replay.
LookAgain(r) == LooksUp(r, TRUE)

\* getCanonicalScoreWriteIdentity of that snapshot, another statement.
Identify(r) ==
  /\ rq[r].at = "looked"
  /\ IF row.hash = rq[r].hash
       THEN rq' = [rq EXCEPT ![r].id = row.at,
                    ![r].at = IF rq[r].refresh THEN "cold" ELSE "known"]
       ELSE Turns(r, "refused")
  /\ UNCHANGED <<reqVars, replay, roastLock, stored>>

\* getCachedRoast: a replay of another snapshot is dropped.
ReadCache(r) ==
  /\ rq[r].at = "known"
  /\ IF replay.hash = rq[r].hash
       THEN Serves(r, replay.report) /\ UNCHANGED replay
       ELSE Turns(r, "missed") /\ replay' = NoReplay
  /\ UNCHANGED <<reqVars, roastLock, stored>>

\* getArchivedRoast: the report stored with the row of the account.
ReadArchive(r) ==
  /\ rq[r].at = "missed"
  /\ rq' = IF row.roast = Nothing
             THEN [rq EXCEPT ![r].at = "cold"]
             ELSE [rq EXCEPT ![r].at = "archived", ![r].report = row.roast]
  /\ UNCHANGED <<reqVars, replay, roastLock, stored>>
ReplayArchive(r) ==
  /\ rq[r].at = "archived"
  /\ replay' = [hash |-> rq[r].hash, report |-> rq[r].report]
  /\ Turns(r, "served")
  /\ UNCHANGED <<reqVars, roastLock, stored>>

\* A leader that refreshes drops the replay.
LeaderCache(r) == IF rq[r].refresh THEN NoReplay ELSE replay
\* acquireRoastLock: SET NX.
Lead(r) ==
  /\ rq[r].at = "cold"
  /\ roastLock = Nothing
  /\ roastLock' = r
  /\ rq' = [rq EXCEPT ![r].at = "locked", ![r].leader = TRUE]
  /\ replay' = LeaderCache(r)
  /\ UNCHANGED <<reqVars, stored>>
Follow(r) ==
  /\ rq[r].at = "cold"
  /\ roastLock # Nothing
  /\ Turns(r, "waiting")
  /\ UNCHANGED <<reqVars, replay, roastLock, stored>>

\* waitForCachedRoast returns at the first replay it sees, when the lock is
\* gone, or when its time is over; without the right replay the follower
\* generates on its own.
WaitOver(r) ==
  /\ rq[r].at = "waiting"
  /\ IF replay.hash = rq[r].hash THEN Serves(r, replay.report)
                                ELSE Turns(r, "locked")
WaitEnds(r) ==
  /\ replay # NoReplay \/ roastLock = Nothing
  /\ WaitOver(r)
  /\ UNCHANGED <<reqVars, replay, roastLock, stored>>
WaitTimesOut(r) ==
  /\ WaitOver(r)
  /\ SpendTrouble
  /\ UNCHANGED <<row, runs, sc, crossed, replay, roastLock, stored>>

\* resolveConfig: without a model the answer is no_llm_configured.
Unconfigured(r) ==
  /\ rq[r].at = "locked"
  /\ Turns(r, "keyless")
  /\ UNCHANGED <<reqVars, replay, roastLock, stored>>
\* The generation budget of a machine caller is used up.
OverBudget(r) ==
  /\ rq[r].at = "locked"
  /\ SpendTrouble
  /\ roastLock' = IF rq[r].leader THEN Nothing ELSE roastLock
  /\ Turns(r, "refused")
  /\ UNCHANGED <<row, runs, sc, crossed, replay, stored>>

Generate(r) ==
  /\ rq[r].at = "locked"
  /\ Turns(r, "writing")
  /\ UNCHANGED <<reqVars, replay, roastLock, stored>>
\* failAndClose: the lock is given back.
GenerationFails(r) ==
  /\ rq[r].at = "writing"
  /\ SpendTrouble
  /\ roastLock' = IF rq[r].leader THEN Nothing ELSE roastLock
  /\ Turns(r, "failed")
  /\ UNCHANGED <<row, runs, sc, crossed, replay, stored>>

\* Mutant of Persist: the cache is warmed even if the update found no row.
PersistWarm(r) ==
  /\ rq[r].at = "writing"
  /\ IF row.at = rq[r].id
       THEN /\ row' = [row EXCEPT !.roast = rq[r].hash]
            /\ stored' = stored \cup {rq[r].hash}
       ELSE UNCHANGED <<row, stored>>
  /\ rq' = [rq EXCEPT ![r].at = "kept", ![r].report = rq[r].hash]
  /\ UNCHANGED <<runs, sc, crossed, replay, roastLock, mishaps>>

\* updateRoast: a compare-and-set on the identity read at the start.
Persist(r) ==
  /\ rq[r].at = "writing"
  /\ IF row.at = rq[r].id
       THEN /\ row' = [row EXCEPT !.roast = rq[r].hash]
            /\ stored' = stored \cup {rq[r].hash}
            /\ rq' = [rq EXCEPT ![r].at = "kept",
                                ![r].report = rq[r].hash]
       ELSE /\ rq' = [rq EXCEPT ![r].at = "closing",
                                ![r].report = rq[r].hash]
            /\ UNCHANGED <<row, stored>>
  /\ UNCHANGED <<runs, sc, crossed, replay, roastLock, mishaps>>
\* cacheRoastReplay follows only a successful update.
WarmCache(r) ==
  /\ rq[r].at = "kept"
  /\ replay' = [hash |-> rq[r].hash, report |-> rq[r].hash]
  /\ Turns(r, "closing")
  /\ UNCHANGED <<reqVars, roastLock, stored>>
\* releaseRoastLock deletes the key, whoever set it.
Close(r) ==
  /\ rq[r].at = "closing"
  /\ roastLock' = IF rq[r].leader THEN Nothing ELSE roastLock
  /\ Turns(r, "served")
  /\ UNCHANGED <<reqVars, replay, stored>>

Dies(r) ==
  /\ rq[r].at \notin Over \cup {"new"}
  /\ SpendTrouble
  /\ Turns(r, "dead")
  /\ UNCHANGED <<row, runs, sc, crossed, replay, roastLock, stored>>

-----------------------------------------------------------------------------
(* Redis: the lock outlives the deadline of its holder, so it expires only *)
(* under a holder that has ended; a replay expires at any time.            *)
\* Mutant of LockExpires: the lock of a dead process never expires.
LockStays ==
  /\ roastLock # Nothing
  /\ rq[roastLock].at \in Over \ {"dead"}
  /\ roastLock' = Nothing
  /\ UNCHANGED <<reqVars, replay, rq, stored>>

LockExpires ==
  /\ roastLock # Nothing
  /\ rq[roastLock].at \in Over
  /\ roastLock' = Nothing
  /\ UNCHANGED <<reqVars, replay, rq, stored>>
CacheExpires ==
  /\ replay # NoReplay
  /\ SpendTrouble
  /\ replay' = NoReplay
  /\ UNCHANGED <<row, runs, sc, crossed, roastLock, rq, stored>>

ScanStep(s) ==
  \/ ReadRow(s) \/ Insert(s) \/ Bump(s) \/ Overwrite(s) \/ Superseded(s)
  \/ AddRun(s)
RoastStep(r) ==
  \/ Identify(r) \/ ReadCache(r) \/ ReadArchive(r) \/ ReplayArchive(r)
  \/ Lead(r) \/ Follow(r) \/ WaitEnds(r) \/ Unconfigured(r)
  \/ Generate(r) \/ Persist(r) \/ WarmCache(r) \/ Close(r)
Mishap(r) ==
  \/ WaitTimesOut(r) \/ OverBudget(r) \/ GenerationFails(r) \/ Dies(r)

RoastNext ==
  \/ \E s \in 1..Scans : ScanStep(s) \/ ScanDies(s)
  \/ \E r \in Req : Look(r) \/ LookAgain(r)
  \/ \E r \in Req : RoastStep(r) \/ Mishap(r)
  \/ LockExpires \/ CacheExpires
RoastSpec == RoastInit /\ [][RoastNext]_roastVars


-----------------------------------------------------------------------------
Row == [at : 0..Scans, hash : Hashes, roast : Hashes]
RoastRequest ==
  [at : RoastPlace, hash : Hashes, id : 0..Scans, leader : BOOLEAN,
   refresh : BOOLEAN, report : Hashes]
RoastTypeOK ==
  /\ row \in Row
  /\ runs \subseteq Hash
  /\ sc \in [1..Scans -> [at : {"no", "read", "scored", "done"}, seen : Row]]
  /\ replay \in [hash : Hashes, report : Hashes]
  /\ roastLock \in Req \cup {Nothing}
  /\ rq \in [Req -> RoastRequest]
  /\ stored \subseteq Hash
  /\ crossed \in BOOLEAN
  /\ mishaps \in 0..Mishaps

\* The report shown with a score was generated for that score, although
\* scans keep the prose they think still fits and late generations attach
\* theirs to whatever the row has become; as long as no scan replaced the
\* row another had read (db.ts:1260 excludes it, db.ts:1408 does not).
ReportFitsScore ==
  ~crossed /\ row.roast # Nothing => OutOf[row.roast] = OutOf[row.hash]

\* A scan is never overwritten by an older one.
NewestScanStays == row'.at >= row.at

\* route.ts:1078 "A late report that loses the CAS must not enter either
\* storage layer": the replay cache holds only reports that were stored.
ReplayWasStored == replay.report # Nothing => replay.report \in stored

\* One leader at a time is between the lock and its release.
OneLeader ==
  \A r, q \in Req :
    /\ rq[r].leader /\ rq[r].at \notin Over
    /\ rq[q].leader /\ rq[q].at \notin Over
    => r = q

\* redis.ts:658 "the success/error paths release the lock explicitly": but
\* for a death and for the early return of Unconfigured, no lock is left
\* behind by a request that has ended.
EndedHoldsNothing ==
  roastLock # Nothing => rq[roastLock].at \notin Over \ {"dead", "keyless"}

\* route.ts:727 "Every replay and new report belongs to the deterministic v10
\* score from this exact quick snapshot".
ReplayBelongs ==
  \A r \in Req :
    rq[r].at = "served" => OutOf[rq[r].report] = OutOf[rq[r].hash]

\* Every request ends, whoever died with the lock.
RequestsEnd ==
  \A r \in Req : rq[r].at # "new" ~> rq[r].at \in Over
\* And the lock is never stuck.
LockComesFree == []<>(roastLock = Nothing)

\* Only stored reports are replayed, one leader generates and gives the lock
\* back, the newest scan stays and, unless scans have crossed, the report fits
\* the score.
RoastSafe ==
  /\ [](/\ RoastTypeOK /\ ReportFitsScore /\ ReplayWasStored
        /\ OneLeader /\ EndedHoldsNothing)
  /\ [][NewestScanStays]_roastVars
=============================================================================
