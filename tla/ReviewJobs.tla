----------------------------- MODULE ReviewJobs -----------------------------
(***************************************************************************)
(* The GitHub App (platform/github-app): webhooks admit jobs to a D1       *)
(* table, a queue with one consumer runs them under a lease and within a   *)
(* budget, and each job reconciles the labels and the one comment of an    *)
(* issue or pull request with the author's score.                          *)
(*                                                                         *)
(* The table is the outbox: a queue send may fail, and the cron sends      *)
(* every due row again.  Time is kept per row, in ticks: the age of the    *)
(* first claim, and what is left of the lease and of the retry delay.      *)
(* Each repository has one issue; the App has one installation.            *)
(***************************************************************************)
EXTENDS Integers, FiniteSets

CONSTANTS
  Repo,         \* repositories of the installation's account
  Rank,         \* their place in the order in which GitHub lists them
  Archived,     \* the archived ones
  Selected,     \* the sets of them that the App may have at the start
  Opened,       \* deliveries of "opened", one per issue
  RepoOf,       \* the repository of each of them
  Discovery,    \* deliveries that ask for a discovery
  Retry,        \* identifiers of administrators' retries
  Level,        \* the review levels, labels of a score
  Unavailable,  \* the level of a missing or invalid score
  PageSize,     \* repositories on a full page
  Lease, Budget, ScoreWindow,  \* 10, 8 and 4 minutes, in ticks
  Delays,       \* the delays a retry may have, in ticks
  MaxAttempts,  \* seven
  ReviewTrouble, \* lost executions, failed statements and pauses
  Missing

ASSUME SetAssumption ==
  /\ IsFiniteSet(Repo) /\ Rank \in [Repo -> Nat]
  /\ \A r, q \in Repo : Rank[r] = Rank[q] => r = q
  /\ Archived \subseteq Repo /\ Selected \subseteq SUBSET Repo
  /\ RepoOf \in [Opened -> Repo]
  /\ Opened \cap Discovery = {} /\ Retry \cap (Opened \cup Discovery) = {}
  /\ (Discovery \X Repo) \cap (Opened \cup Discovery \cup Retry) = {}
  /\ Unavailable \in Level /\ Missing \notin Level \cup Repo
ASSUME TimeAssumption ==
  /\ {Lease, Budget, ScoreWindow, PageSize} \subseteq Nat \ {0}
  /\ ScoreWindow < Budget /\ Budget < Lease
  /\ Delays \subseteq Nat /\ MaxAttempts \in Nat /\ ReviewTrouble \in Nat

VARIABLES
  jobs,       \* the table
  queue,      \* identifiers with a message in the queue
  dead,       \* identifiers sent to the dead letter queue
  exec,       \* the one execution the consumer is running
  hooks,      \* what GitHub may deliver, once or often
  installed, member, open,        \* the installation, its repositories
  ready, tags, comment, posted,   \* what the App has written there
  enabled,    \* ENABLED of the deployment
  faults,     \* how much of ReviewTrouble is left
  roster,     \* history: repositories a discovery should find
  shrunk      \* history: discoveries during which a repository left

github == <<installed, member, open>>
written == <<ready, tags, comment, posted>>
discoveries == <<roster, shrunk>>
reviewVars == <<jobs, queue, dead, exec, hooks, github, written, enabled,
                faults, discoveries>>

Ids == Opened \cup Discovery \cup Retry \cup (Discovery \X Repo)
Kind == {"discover", "initialize", "label"}
Terminal == {"done", "failed", "cancelled"}
State == {"none", "pending", "running", "purged"} \cup Terminal
JobPlace ==
  {"idle", "discover", "put", "token", "labels", "issue", "score", "apply",
   "strip", "comment", "mail", "bury", "drop"}
Unstarted == -1

NoEntry ==
  [state |-> "none", kind |-> "label", repo |-> Missing, attempts |-> 0,
   age |-> Unstarted, due |-> 0, lease |-> 0, score |-> Missing, page |-> 1,
   why |-> "-"]
Purged == [NoEntry EXCEPT !.state = "purged"]
NoExec == [at |-> "idle", id |-> Missing, todo |-> {}, full |-> FALSE]

ReviewInit ==
  /\ jobs = [i \in Ids |-> NoEntry]
  /\ queue = {} /\ dead = {}
  /\ exec = NoExec
  /\ hooks = {}
  /\ member \in Selected /\ installed = (member # {}) /\ open = {}
  /\ ready = {} /\ tags = [r \in Repo |-> {}]
  /\ comment = [r \in Repo |-> Missing] /\ posted = [r \in Repo |-> 0]
  /\ enabled = TRUE
  /\ faults = ReviewTrouble
  /\ roster = [d \in Discovery |-> {}] /\ shrunk = {}

-----------------------------------------------------------------------------
(* Admission and dispatch.                                                 *)

\* putJob: INSERT OR IGNORE, whatever the state of the row.
Admitted(table, i, kind, r) ==
  IF table[i].state # "none" THEN table
  ELSE [table EXCEPT ![i] =
          [NoEntry EXCEPT !.state = "pending", !.kind = kind, !.repo = r]]

DueIn(table) ==
  {i \in Ids : \/ table[i].state = "pending" /\ table[i].due = 0
               \/ table[i].state = "running" /\ table[i].lease = 0}
Purgeable(table) == {i \in Ids : table[i].state \in {"done", "cancelled"}}

\* dispatch: the rows of table that are due are sent, or the send fails and
\* nothing else happens; rows finished thirty days ago are deleted.
Dispatched(table) ==
  \/ jobs' = table /\ UNCHANGED queue
  \/ /\ queue' = queue \cup DueIn(table)
     /\ \E old \in SUBSET Purgeable(table) :
          jobs' = [i \in Ids |-> IF i \in old THEN Purged ELSE table[i]]

Cron ==
  /\ enabled
  /\ Dispatched(jobs)
  /\ UNCHANGED <<dead, exec, hooks, github, written, enabled, faults,
                 discoveries>>

\* The answer to a webhook: the change of the table, then a dispatch.
Answered(table) ==
  /\ enabled
  /\ Dispatched(table)
  /\ UNCHANGED <<dead, exec, hooks, github, written, enabled, faults,
                 discoveries>>

HookOpened(o) ==
  /\ o \in hooks
  /\ Answered(Admitted(jobs, o, "label", RepoOf[o]))

HookDiscovery(d) ==
  /\ d \in hooks
  /\ Answered(Admitted(jobs, d, "discover", Missing))

CancelledIn(table, S) ==
  [i \in Ids |-> IF i \in S /\ table[i].state = "pending"
                 THEN [table[i] EXCEPT !.state = "cancelled", !.lease = 0]
                 ELSE table[i]]

HookSuspended ==
  /\ <<"suspended", Missing>> \in hooks
  /\ Answered(CancelledIn(jobs, Ids))

HookRemoved(r) ==
  /\ <<"removed", r>> \in hooks
  /\ Answered(CancelledIn(jobs, {i \in Ids : jobs[i].repo = r}))

\* An administrator retries a failed job of a repository: a new row.
RetryFailed(x, i) ==
  /\ jobs[x].state = "none"
  /\ jobs[i].state = "failed" /\ jobs[i].repo \in member /\ installed
  /\ Answered(Admitted(jobs, x, jobs[i].kind, jobs[i].repo))

-----------------------------------------------------------------------------
(* The consumer.                                                           *)

\* The UPDATE ... RETURNING of runJob.
Claimable(i) == i \in DueIn(jobs)
Claimed(row) ==
  [row EXCEPT !.state = "running", !.lease = Lease,
              !.age = IF row.age = Unstarted THEN 0 ELSE row.age]

First(row) ==
  IF row.age >= Budget THEN "bury"
  ELSE IF row.kind = "discover" THEN "discover" ELSE "token"

\* A message that claims nothing is acknowledged.  One that is delivered
\* again finds a row that is not due, or one the cron sends as well.
Deliver(i) ==
  /\ i \in queue
  /\ exec = NoExec
  /\ queue' = queue \ {i}
  /\ IF enabled /\ Claimable(i)
     THEN /\ jobs' = [jobs EXCEPT ![i] = Claimed(jobs[i])]
          /\ exec' = [NoExec EXCEPT !.at = First(Claimed(jobs[i])), !.id = i]
     ELSE UNCHANGED <<jobs, exec>>
  /\ UNCHANGED <<dead, hooks, github, written, enabled, faults, discoveries>>

Mine == jobs[exec.id]
SetMine(row) == jobs' = [jobs EXCEPT ![exec.id] = row]
Goto(place) == exec' = [exec EXCEPT !.at = place]

\* finish: unconditional on the state of the row.
Finish(state, why) ==
  /\ SetMine([Mine EXCEPT !.state = state, !.lease = 0, !.why = why])
  /\ exec' = NoExec

Fits(d) == Mine.attempts < MaxAttempts /\ Mine.age + d < Budget

\* The row is pending again and its message is sent, or the send fails.
Requeue(d) ==
  /\ SetMine([Mine EXCEPT !.state = "pending", !.lease = 0, !.due = d,
                          !.attempts = Mine.attempts + 1])
  /\ queue' \in {queue, queue \cup {exec.id}}
  /\ exec' = NoExec

ToBury == Goto("bury") /\ UNCHANGED jobs

\* The catch of runJob.
CaughtRetry(d) ==
  IF Fits(d) THEN Requeue(d) ELSE ToBury /\ UNCHANGED queue
Caught(answer) ==
  \/ answer = "access" /\ Finish("failed", "access") /\ UNCHANGED queue
  \/ answer \in {"retry", "lost"} /\ \E d \in Delays : CaughtRetry(d)

\* What a call to GitHub may answer.  "lost" is a write that happened and
\* whose answer did not arrive; past the deadline every call times out.
Answers(reachable) ==
  IF Mine.age >= Budget THEN {"retry"} \cup IF reachable THEN {"lost"} ELSE {}
  ELSE IF reachable THEN {"ok", "lost", "retry", "access"}
  ELSE {"retry", "access"}
Reachable == installed /\ Mine.repo \in member

\* A step at a place of processJob that ends with an answer.
StepAt(place) == exec.at = place
Quiet == UNCHANGED <<dead, hooks, github, enabled, faults>>

\* The place of a repository in the list, the p-th page of it, and whether
\* that page is full.
Position(r) == Cardinality({q \in member : Rank[q] <= Rank[r]})
ListPage(p) ==
  {r \in member : /\ (p - 1) * PageSize < Position(r)
                   /\ Position(r) <= p * PageSize}
Full(p) == p * PageSize <= Cardinality(member)

Discover ==
  /\ StepAt("discover")
  /\ \E a \in Answers(installed) :
       IF a = "ok"
       THEN /\ exec' = [exec EXCEPT !.at = "put",
                  !.todo = ListPage(Mine.page) \ Archived,
                  !.full = Full(Mine.page)]
            /\ roster' = IF Mine.page = 1
                         THEN [roster EXCEPT ![exec.id] = member]
                         ELSE roster
            /\ shrunk' = IF Mine.page = 1 THEN shrunk \ {exec.id} ELSE shrunk
            /\ UNCHANGED <<jobs, queue>>
       ELSE Caught(a) /\ UNCHANGED discoveries
  /\ Quiet /\ UNCHANGED written

Put(r) ==
  /\ StepAt("put") /\ r \in exec.todo
  /\ jobs' = Admitted(jobs, <<exec.id, r>>, "initialize", r)
  /\ exec' = [exec EXCEPT !.todo = exec.todo \ {r}]
  /\ Quiet /\ UNCHANGED <<queue, written, discoveries>>

\* A full page hands the next one to a later execution: the cron sends it.
TurnPage ==
  /\ StepAt("put") /\ exec.todo = {}
  /\ IF exec.full
     THEN /\ SetMine([Mine EXCEPT !.state = "pending", !.lease = 0, !.due = 0,
                                  !.page = Mine.page + 1])
          /\ exec' = NoExec
     ELSE Finish("done", "-")
  /\ Quiet /\ UNCHANGED <<queue, written, discoveries>>

\* The repository's token and the repository, by its number.
Token ==
  /\ StepAt("token")
  /\ \E a \in Answers(Reachable) :
       IF a # "ok" THEN Caught(a)
       ELSE /\ UNCHANGED queue
            /\ IF Mine.repo \in Archived THEN Finish("cancelled", "-")
               ELSE Goto("labels") /\ UNCHANGED jobs
  /\ Quiet /\ UNCHANGED <<written, discoveries>>

InitializeLabels ==
  /\ StepAt("labels")
  /\ \E a \in Answers(Reachable) :
       /\ ready' = IF a \in {"ok", "lost"} THEN ready \cup {Mine.repo}
                   ELSE ready
       /\ IF a # "ok" THEN Caught(a)
          ELSE /\ UNCHANGED queue
               /\ IF Mine.kind = "initialize" THEN Finish("done", "-")
                  ELSE Goto("issue") /\ UNCHANGED jobs
  /\ Quiet /\ UNCHANGED <<tags, comment, posted, discoveries>>

\* Mutant of AfterIssue: each attempt asks for the score again.
AskAgain(row) == "score"
AfterIssue(row) == IF row.score = Missing THEN "score" ELSE "apply"

ReadIssue ==
  /\ StepAt("issue")
  /\ \E a \in Answers(Reachable) :
       IF a # "ok" THEN Caught(a)
       ELSE /\ UNCHANGED queue
            /\ IF Mine.repo \notin open THEN Finish("cancelled", "-")
               ELSE /\ Goto(AfterIssue(Mine))
                    /\ UNCHANGED jobs
  /\ Quiet /\ UNCHANGED <<written, discoveries>>

ScoreRetries(d) == Mine.attempts < MaxAttempts /\ Mine.age + d < ScoreWindow

\* The score is stored before the first label is written.
KeepScore(l) ==
  /\ SetMine([Mine EXCEPT !.score = l])
  /\ Goto("apply")
  /\ UNCHANGED queue
Score ==
  /\ StepAt("score")
  /\ \/ Mine.age < ScoreWindow /\ \E l \in Level : KeepScore(l)
     \/ /\ Mine.age < ScoreWindow
        /\ \E d \in Delays : IF ScoreRetries(d) THEN CaughtRetry(d)
                             ELSE KeepScore(Unavailable)
     \/ KeepScore(Unavailable)
  /\ Quiet /\ UNCHANGED <<written, discoveries>>

\* syncLabel adds the target first,
Apply ==
  /\ StepAt("apply")
  /\ \E a \in Answers(Reachable) :
       /\ tags' = IF a \in {"ok", "lost"}
                  THEN [tags EXCEPT ![Mine.repo] = @ \cup {Mine.score}]
                  ELSE tags
       /\ IF a # "ok" THEN Caught(a)
          ELSE Goto("strip") /\ UNCHANGED <<jobs, queue>>
  /\ Quiet /\ UNCHANGED <<ready, comment, posted, discoveries>>

Stripped(S, l) == S \cap {l}

\* and removes the other levels one by one.
Strip ==
  /\ StepAt("strip")
  /\ \E a \in Answers(Reachable) :
       /\ IF a = "ok"
          THEN tags' = [tags EXCEPT ![Mine.repo] = Stripped(@, Mine.score)]
          ELSE \E gone \in SUBSET (tags[Mine.repo] \ {Mine.score}) :
                 /\ Reachable \/ gone = {}
                 /\ tags' = [tags EXCEPT ![Mine.repo] = @ \ gone]
       /\ IF a # "ok" THEN Caught(a)
          ELSE Goto("comment") /\ UNCHANGED <<jobs, queue>>
  /\ Quiet /\ UNCHANGED <<ready, comment, posted, discoveries>>

Comments(n) == IF n = 0 THEN 1 ELSE n

Comment ==
  /\ StepAt("comment")
  /\ \E a \in Answers(Reachable) :
       /\ IF a \in {"ok", "lost"}
          THEN /\ comment' = [comment EXCEPT ![Mine.repo] = Mine.score]
               /\ posted' = [posted EXCEPT ![Mine.repo] = Comments(@)]
          ELSE UNCHANGED <<comment, posted>>
       /\ IF a # "ok" THEN Caught(a)
          ELSE Goto("mail") /\ UNCHANGED <<jobs, queue>>
  /\ Quiet /\ UNCHANGED <<ready, tags, discoveries>>

\* The author's mail is queued (AuthorEmails) and the job is done.
QueueMail ==
  /\ StepAt("mail")
  /\ Finish("done", "-")
  /\ Quiet /\ UNCHANGED <<queue, written, discoveries>>

\* A job that cannot be retried: the dead letter first, then the row.
Bury ==
  /\ StepAt("bury")
  /\ dead' = dead \cup {exec.id}
  /\ Goto("drop")
  /\ UNCHANGED <<jobs, queue, hooks, github, written, enabled, faults,
                 discoveries>>
Drop ==
  /\ StepAt("drop")
  /\ Finish("failed", "buried")
  /\ Quiet /\ UNCHANGED <<queue, written, discoveries>>

\* A statement fails inside processJob, or an answer cannot be read.
Throws ==
  /\ faults > 0 /\ faults' = faults - 1
  /\ exec.at \in JobPlace \ {"idle", "bury", "drop"}
  /\ ToBury
  /\ UNCHANGED <<queue, dead, hooks, github, written, enabled, discoveries>>

\* The execution is lost, or its catch throws and the message is retried.
Crash ==
  /\ faults > 0 /\ faults' = faults - 1
  /\ exec # NoExec
  /\ exec' = NoExec
  /\ queue' \in {queue, queue \cup {exec.id}}
  /\ UNCHANGED <<jobs, dead, hooks, github, written, enabled, discoveries>>

JobStep ==
  \/ Discover \/ TurnPage \/ \E r \in Repo : Put(r)
  \/ Token \/ InitializeLabels \/ ReadIssue \/ Score
  \/ Apply \/ Strip \/ Comment \/ QueueMail \/ Bury \/ Drop

-----------------------------------------------------------------------------
(* Time, the deployment and GitHub.                                        *)

Less(n) == IF n = 0 THEN 0 ELSE n - 1
Older(row) ==
  [row EXCEPT !.age = IF @ \in {Unstarted, Budget} THEN @ ELSE @ + 1,
              !.due = Less(@), !.lease = Less(@)]

\* Every call ends by the deadline of the execution, and so does it.
Tick ==
  /\ exec # NoExec => jobs[exec.id].age < Budget
  /\ jobs' = [i \in Ids |-> IF jobs[i].state \in {"pending", "running"}
                            THEN Older(jobs[i]) ELSE jobs[i]]
  /\ UNCHANGED <<queue, dead, exec, hooks, github, written, enabled, faults,
                 discoveries>>

Deploy(on) ==
  /\ enabled # on /\ enabled' = on
  /\ on \/ faults > 0
  /\ faults' = IF on THEN faults ELSE faults - 1
  /\ UNCHANGED <<jobs, queue, dead, exec, hooks, github, written, discoveries>>

Happens(h) ==
  /\ hooks' = hooks \cup {h}
  /\ UNCHANGED <<jobs, queue, dead, exec, written, enabled, faults>>

\* An issue or a pull request is opened where the App is installed.
Open(o) ==
  /\ o \in Opened \ hooks /\ installed /\ RepoOf[o] \in member
  /\ open' = open \cup {RepoOf[o]}
  /\ Happens(o) /\ UNCHANGED <<installed, member, discoveries>>

Close(r) ==
  /\ r \in open /\ open' = open \ {r}
  /\ UNCHANGED <<jobs, queue, dead, exec, hooks, installed, member, written,
                 enabled, faults, discoveries>>

\* The App is installed or unsuspended, or is given more repositories.
Install(d, S) ==
  /\ d \in Discovery \ hooks
  /\ ~installed \/ ~ S \subseteq member
  /\ installed' = TRUE /\ member' = member \cup S
  /\ Happens(d) /\ UNCHANGED <<open, discoveries>>

Suspend ==
  /\ installed /\ installed' = FALSE
  /\ Happens(<<"suspended", Missing>>)
  /\ UNCHANGED <<member, open, discoveries>>

RemoveRepo(r) ==
  /\ installed /\ r \in member /\ member' = member \ {r}
  /\ shrunk' = Discovery
  /\ Happens(<<"removed", r>>) /\ UNCHANGED <<installed, open, roster>>

World ==
  \/ \E o \in Opened : Open(o)
  \/ \E r \in Repo : Close(r) \/ RemoveRepo(r)
  \/ \E d \in Discovery : \E S \in SUBSET Repo : Install(d, S)
  \/ Suspend

Hook ==
  \/ \E o \in Opened : HookOpened(o)
  \/ \E d \in Discovery : HookDiscovery(d)
  \/ HookSuspended
  \/ \E r \in Repo : HookRemoved(r)

ReviewNext ==
  \/ World \/ Hook \/ Cron
  \/ \E x \in Retry : \E i \in Ids : RetryFailed(x, i)
  \/ \E i \in Ids : Deliver(i)
  \/ JobStep \/ Throws \/ Crash
  \/ Tick \/ \E on \in BOOLEAN : Deploy(on)

ReviewSpec == ReviewInit /\ [][ReviewNext]_reviewVars

\* The cron fires every minute and its sends succeed in the end; the queue
\* delivers every message; executions go on, calls are bounded and pauses
\* end.
CronSends == Cron /\ queue' = queue \cup DueIn(jobs)
Fairness ==
  /\ WF_reviewVars(Tick) /\ WF_reviewVars(CronSends)
  /\ WF_reviewVars(Deploy(TRUE)) /\ WF_reviewVars(JobStep)
  /\ \A i \in Ids : SF_reviewVars(Deliver(i) /\ exec' # NoExec)
FairReviewSpec == ReviewSpec /\ Fairness

-----------------------------------------------------------------------------
(* Properties.                                                             *)

RowType ==
  [state : State, kind : Kind, repo : Repo \cup {Missing},
   attempts : 0..MaxAttempts, age : {Unstarted} \cup 0..Budget, due : Nat,
   lease : 0..Lease, score : Level \cup {Missing}, page : Nat \ {0},
   why : {"-", "access", "buried"}]

\* Every variable keeps to its type (jobs.ts and the table's CHECKs).
ReviewTypeOK ==
  /\ jobs \in [Ids -> RowType]
  /\ queue \subseteq Ids /\ dead \subseteq Ids
  /\ exec \in [at : JobPlace, id : Ids \cup {Missing}, todo : SUBSET Repo,
               full : BOOLEAN]
  /\ exec # NoExec => exec.id \in Ids
  /\ hooks \subseteq Opened \cup Discovery \cup {<<"suspended", Missing>>}
                       \cup {<<"removed", r>> : r \in Repo}
  /\ installed \in BOOLEAN /\ member \subseteq Repo /\ open \subseteq Repo
  /\ ready \subseteq Repo /\ tags \in [Repo -> SUBSET Level]
  /\ comment \in [Repo -> Level \cup {Missing}] /\ posted \in [Repo -> Nat]
  /\ enabled \in BOOLEAN /\ faults \in 0..ReviewTrouble
  /\ roster \in [Discovery -> SUBSET Repo] /\ shrunk \subseteq Discovery

\* However often a job is retried, and whatever becomes of the answers, the
\* App has at most one comment on an issue (syncComment).
OneComment == \A r \in Repo : posted[r] <= 1

\* When a label job is done, the issue carries the level of the stored score
\* and no other level, and the App's comment says the same: after crashes,
\* lost answers and other jobs of the same issue (syncLabel, syncComment).
FinishedIsVisible ==
  \A i \in Ids :
    LET r == jobs[i].repo IN
    /\ jobs[i].state = "running" /\ jobs'[i].state = "done"
    /\ jobs[i].kind = "label"
    => /\ tags'[r] = {jobs[i].score}
       /\ comment'[r] = jobs[i].score /\ posted'[r] = 1

\* A job's stored score never changes: a replay cannot swing the label when
\* the author's score moves (jobs.ts, "Persist before the first label").
ScoreIsKept ==
  \A i \in Ids : jobs[i].score # Missing /\ jobs'[i].state # "purged" =>
    jobs'[i].score = jobs[i].score

\* Trouble with the score service alone never fails a job: its retries leave
\* the time in which the label "unavailable" is written instead.
ScoreNeverFatal ==
  exec.at = "score" /\ faults' = faults => exec'.at # "bury"

\* A job that has ended stays as it ended, although finish does not look at
\* the state of the row, until it is purged; failed jobs are never purged.
TerminalIsFinal ==
  \A i \in Ids : jobs[i].state \in Terminal =>
    \/ jobs'[i].state = jobs[i].state
    \/ jobs'[i].state = "purged" /\ jobs[i].state # "failed"

\* The dead letter queue tells the truth: a job that failed for good is in
\* it, and a job in it has failed or is about to (runJob).
DeadLetters ==
  \A i \in Ids : /\ jobs[i].why = "buried" => i \in dead
                 /\ i \in dead => jobs[i].state \in {"running", "failed"}

\* A finished discovery has a job for every repository its installation had
\* from the first page on, if none left meanwhile; a page is read again
\* after a crash, and a full one hands on to the next (processJob).
DiscoveryComplete ==
  \A d \in Discovery :
    jobs[d].state = "done" /\ d \notin shrunk =>
      \A r \in roster[d] \ Archived : jobs[<<d, r>>].state # "none"

\* Every admitted job ends: the cron recovers what the queue, a pause or a
\* lost execution left behind.
JobsEnd ==
  \A i \in Ids : jobs[i].state \in {"pending", "running"} ~>
                   jobs[i].state \in Terminal \cup {"purged"}

\* An issue has one comment, a finished job shows the score it stored, the
\* dead letters tell the truth and a finished discovery has looked at every
\* repository (platform/github-app/src/jobs.ts, review.ts).
ReviewSafe ==
  /\ [](ReviewTypeOK /\ OneComment /\ DeadLetters /\ DiscoveryComplete)
  /\ [][/\ FinishedIsVisible /\ ScoreIsKept
        /\ ScoreNeverFatal /\ TerminalIsFinal]_reviewVars
=============================================================================
