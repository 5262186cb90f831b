# ghfind: a verification project

ghfind analyses GitHub accounts and projects, publishes scores, reports and
assessments, and serves a personalised project Feed.  It exists twice, as
Cloudflare Workers with D1 databases, queues and containers, and as a
self-hosted Go backend with PostgreSQL, RabbitMQ, Upstash Redis and Turso.  This
directory holds TLA+ models of what is hardest to get right by testing: the
jobs, leases, outboxes, locks and caches between these services.  The models are
checked with TLC on small instances; the results that matter most are proved
with TLAPS for every value of the constants.  `PROJECT.json` names, for every
definition, the lines of `src/` it stands for.

## 1. The system

| Component | State | Operations | Code (below `src/`) |
|---|---|---|---|
| Feed source outbox and relay | receipts, outbox rows, operator commands; one lease token per cron invocation | submit, finalize, claim, send, confirm, replay | `platform/feed/src/source.ts`, `platform/shared/feed-source-statements.ts`, `platform/runtime/src/relay.ts` |
| Execution jobs and projection fence | `feed_execution_jobs`, source versions, writer guard | claim, read source, apply, complete, fail | `platform/feed/src/jobs.ts`, `internal/backend/feed_executor.go` |
| Queue consumer, terminals, replay deliveries | queue and DLQ messages, delivery heads, terminals, replay deliveries | deliver, acknowledge, retry, persist terminal, replay, relay a replay | `platform/runtime/src/consumer.ts`, `delivery.ts`; `platform/feed/src/delivery.ts`, `operator.ts` |
| PostgreSQL job store | the same rows, row locks, advisory locks, the control row | the same, as READ COMMITTED transactions | `internal/backend/feed_executor_pg.go` |
| Profile deletion and cleanup | cleanup jobs, checkpoint, object archive | delete, claim, page, release, fail, replay | `platform/feed/src/cleanup.ts`, `archive.ts`, `internal/backend/feed_cleanup.go` |
| Profile store, ranking and serving | profiles, versions, states, signals, sessions | preferences, states, events, pages | `platform/feed/src/store.ts`, `commands.ts`, `internal/backend/feed_api.go` |
| Taxonomy governance | versions, tags, aliases, proposals, receipts | map, merge, reject, deprecate, suggest | `platform/feed/src/governance.ts` |
| Mode transition and router | lock, container, actor | probe, stop, start, verify | `platform/runtime/src/transition.ts`, `router.ts` |
| Project analysis | `project_analysis_runs`, assessments, execution slots, evaluator threads | create, attach, retry, park, finalize, recover | `internal/backend/project_analysis_*.go`, `src/lib/project-analysis-*.ts` |
| Quick scan pipeline | broker messages, status records, flight lock, results | admit, deliver, collect, persist, retry, dead-letter | `internal/backend/http.go`, `scan_worker.go`, `scan_persistence.go` |
| Durable public scans | `public_scan_jobs`, runs, slots, admission window, commit facts | claim, renew, checkpoint, complete, quarantine, verify commits | `src/lib/db.ts` |
| Web cache, locks and roast | score row, roast lock, replay cache, admission scripts | publish a score, lead, follow, generate, store | `src/lib/redis.ts`, `scan-protection.ts`, `db.ts`, `src/app/api/roast/route.ts` |
| Self-hosted Feed workers | catalog, cursor, lease, outbox, recommender (Gorse) | hint, sweep, hide, moderate, relay, project, rebuild | `internal/backend/feed_reconciler.go`, `feed_outbox.go`, `feed_gorse_projection.go` |
| GitHub App | job table, queue, labels, comment, mails, subscriptions | admit, dispatch, execute, retry, mail | `platform/github-app/src` |
| Collection, scoring, tools, pages, SDKs | none, or files | pure functions, I/O, rendering | various |

### How the parts interact

1. An analysis request creates a *run* (Go worker or TypeScript service), which
   waits for an execution slot, starts a thread of the external evaluator and
   is finalized from its artifacts.  The finalization writes the assessment and,
   in the same batch, the *source event* of the Feed.
2. The relay claims events under a lease token, sends them to the queue under a
   deadline and confirms them row by row.  The queue's consumer calls the
   executor, which claims the *execution job*, reads the facts back, applies the
   projection if the event is still current and completes or fails the job, each
   in a separate transaction.
3. A message that keeps failing becomes *terminal evidence*; an operator restarts
   it under a command that becomes a new *delivery generation*, sent by the
   replay relay.
4. In the self-hosted deployment hints and sweeps project assessments into the
   PostgreSQL catalog, and an outbox keeps the recommender in line with it.
5. The Feed API serves pages from catalog, profile and taxonomy; deletion of a
   profile is a checkpointed job that erases tables and archive objects.
6. A scan of an account is admitted by handle and by a global capacity, collected
   by a worker (quick) or by leased, checkpointed steps (durable), and published
   to the score row, to which the roast route adds generated reports.
7. The GitHub App reconciles the labels and the one comment of an issue with the
   score of its author, and mails the author at most once a day.

### What is hard

Every arrow is at-least-once and every answer may be lost; leases expire under
running work; invocations of the same cron overlap; what was read moves before
the write that depends on it; generations of one delivery coexist; callers give
up while the operation they began goes on; counters have budgets; and databases
may be fenced between any two steps.  `PROJECT.json` lists each hazard at its
line with the property that would catch it.

## 2. Modules

### The assessment-to-Feed path

`SourceOutbox` models receipts, events and the relay.  A run's event carries the
run's name.  `outbox[r]` is the row with its status, attempts, lease token and
two clock bits: `live` (`lease_expires_at` is in the future) and `due`
(`available_at` has passed).  `ExpireLease` and `Elapse` flip the bits at any
moment, so every value of `now` an invocation may have read is covered.
`relay[t]` is the invocation that owns lease token `t` with its position in
`relayOnce`.  The two statements of `claim` are two actions (`Sweep`, `Claim`),
because the code runs them without a transaction; a D1 batch is one action.
`SendUncertain` is the deadline of `relay.ts`: the row is confirmed as not
delivered while the send goes on in `late` and may still be accepted.

`FeedExecution` models the queue, the executor, terminals and replays.
`messages` is a set of copies, each with its queue stage (`main`, `dlq`, or
`parked`, which has no consumer) and the retries it has used.  `executors[x]` is
an execution with lease owner `x`; `head[e]` is the current delivery generation:
absent, `Source` for the initial delivery, or a command after a restart.  The
core database appears as `version`, `assessed`, `latest`; `writable` is the
verdict of the writer guard.  `ProjectedVersions` is the abstract promise to a
reader: a repository's shown version only ever advances, to a committed version
of that repository.  `FeedExecution` and `FeedJobsPg` both implement it.

`FeedJobsPg` is the PostgreSQL store under the same executor.  `now()` is the
moment the transaction *began*; a transaction is split into its beginning and
one action per lock it may wait for.  `runs[x]` is one execution with the moment
its transaction began, the lease it found and the version it compared with;
`jobs`, `shown`, `writable` are the rows.

### Components that share no state with it

| Module | Actions stand for | State that matters |
|---|---|---|
| `ScanJobs` | admission of `POST /api/scan`, one delivery of the scan worker per `Worker`, calls that fail with or without effect | the message copies, the status record, the flight lock, the persisted result: four stores no transaction spans |
| `PublicScanJobs` | each exported write transaction of the durable scan store | job and run rows, lease bits, slots, the admission window |
| `CommitVerification` | the fact operations of one durable scan, each a lease read and a later write | ranges of history, pages, candidates, the published total |
| `ScanAdmission` | the three Redis scripts, the lease, the cooldown and the publication of `coalesceScan` | owner and turn per handle, the set `active`, call positions |
| `RoastFlight` | the score row's publications and the roast route, request by request | the row, the roast lock, the replay cache |
| `ModeTransition` | the restart of one container, its callers' timeouts, evictions and process exits | lock, running process, stop operations that have not settled |
| `FeedCleanup` | the deletion command, the cleanup job step by step, archive writers, the operator | generations (`deletion`, `job`), `rows`, `bucket` |
| `FeedServing` | the commands on a profile and the handlers above them, one batch per action | profile version, states, signals, sessions, pages in progress |
| `TaxonomyGovernance` | attempts of operator commands with their reads and their batch | taxonomy versions, proposals, receipts |
| `AnalysisStore` with `AnalysisWorker`, `AnalysisService` | the statements on the table of runs, and the two programs that call them | runs, threads at the evaluator, jobs at the broker, audit records |
| `CatalogProjection` | hint consumers, reconciler cycles, operators, the changing source | `src`, `cat`, what each cycle has read |
| `GorseProjection` | fact transactions with their outbox rows, relays, workers, the rebuild | PostgreSQL facts, outbox, queue, the recommender |
| `ReviewJobs` | webhooks, cron, queue and the execution of one App job | job rows, labels and comments at GitHub, the clock in ticks |
| `AuthorEmails` | each statement of the mail cron, opt-outs and subscriptions | mails, subscriptions, the day's budget, invocations |

Where an MC module extends several components, all but one have names of their
own for their specification (`EmailInit`, `RestartNext`, `RoastSpec`,
`ServingNext`, `GovernanceInit`, `FactsNext`, ...).

### MC modules

One MC module checks several components that share no state: its variable
`part`, chosen initially and never changed, says which of them moves, the others
keep one initial state.  A part is an INSTANCE of a component with its own
small constants, or, for the components that theorems are about, a restriction
of the extended module's next-state relation.

| MC module | Parts |
|---|---|
| `MCSourceOutbox`, `MCFeedExecution`, `MCFeedJobsPg` | one component each, extended |
| `MCScans` | `delivery`, `flight` (ScanJobs, extended: the requests that share a key amid failures, the cold ones without); `rows`, `slots` (PublicScanJobs, extended: two releases that share one slot, without quick results; two accounts and two slots); `facts` (CommitVerification, extended) |
| `MCLocks` | `admission` (ScanAdmission, extended); `flows`, `reports`, `prose` (RoastFlight, extended: overlapping scans and a request without a model; a snapshot that comes back; two snapshots with one score); `restart` (ModeTransition, extended) |
| `MCFeedStore` | `erasure`, `leases`, `callers` (FeedCleanup, extended: one request and one object of each generation; two executions of one deletion, two pages each; two requests, the profile returning in between); `visits`, `pages` (FeedServing, extended: two commands beside pages of a catalog at rest; two pages beside one command); `names`, `retries` (TaxonomyGovernance, extended: two names and two proposals; repeated attempts about one proposal) |
| `MCAnalysis` | `delivery`, `slots`, `keys`, `slow` (AnalysisWorker, extended: one run amid failures; two runs for one slot; two submissions of one key with an operator; leases and execution times that end under a slow attempt); `recovery`, `newest`, `plain` (AnalysisService: one run; two refs of one repository; no outbox) |
| `MCIntegrations` | `moderation`, `sweeps` (CatalogProjection, extended); `relays`, `erasure`, `rebuild` (GorseProjection, extended: two relays amid failures; four facts, among them a deletion, relayed in order; workers that start without Gorse); `labels`, `retries`, `discovery` (ReviewJobs, extended); `turns`, `choices` (AuthorEmails, extended) |
| `MCOutcomes` | one small fair instance of nine components, for liveness |

Definitions whose comment begins with "Mutant of" are not part of any
specification: each is a plausible mistake in the definition it names, kept to
show that a property notices it.

### Abstractions

- Envelope bytes, hashes, artifact validation and identity conflicts are left
  out: an event has one identity, a projection is its source version, a report
  is the digest it was generated from, a snapshot is a model value.
- Time is what the guards read of it: whether a lease is live, a row due, a
  cooldown or a day over.  These bits change at any moment.  `FeedJobsPg` and
  `ReviewJobs` keep numbers, because there the order of moments matters.
- An upper bound (`MaxAttempts`, `MaxCopies`, `MaxFacts`, `Trouble`, `Moves`, ...)
  is a constant named in the guard that uses it.  The budgets of the code are
  such constants too; the others bound the environment.
- Equal copies of a message are counted (`ScanJobs`, `AnalysisWorker`) or are one
  element that may be delivered again (`FeedExecution`).
- The eight tables the cleanup erases are one parameterised table.  `FeedJobsPg`
  leaves out the error path of a conflicting event identity.  Ranking is an
  arbitrary order; taxonomies are names with at most one tag.
- An execution whose caller has gone may go on to complete; the code cancels it
  when the container notices, which is an earlier crash.
- Sweeps with `LIMIT 100` are not limited: fewer rows than that are.  The claim
  limits are.

## 3. Runs

Each run asks one family of questions; a property of a run is a conjunction of
named invariants and step properties of the components it is about (`Safe`,
`SafeStep`, `CleanupSafe` and the like at the end of each module), so that one run covers one store and
everything that writes to it.

| Run | Instance | States | Shows |
|---|---|---|---|
| `source_relay` | 2 runs of one repository, 2 overlapping invocations, 2 operator commands, 2 attempts | 0.9 M | a submitted latest assessment has its event and older events resolve against it; delivered rows were published and are final; a command restarts a delivery once |
| `feed_projection` | 2 versions of one repository, 2 executions | 0.7 M | the projection refines `ProjectedVersions`; a completed event is shown, or something newer |
| `feed_jobs` | 1 event, 2 executions, 2 attempts, 1 command, 1 courier | 2.6 M | completion is final; evidence is of the current generation; nothing accepted is left without a carrier or evidence |
| `feed_liveness` | 1 event, 1 execution, 1 command, 1 courier | 0.1 M | accepted events are eventually decided |
| `pg_jobs` | 2 events, 3 executions, 4 instants | 1.0 M | the same store under READ COMMITTED: leases judged at the begin of a transaction, locks that outlast them |
| `scans` | 4 requests (2 share a key), 2 workers, 2 snapshots, 2 attempts; durable scans: 2 scans, 2 workers, 1 or 2 slots; 3 commits | 1.0 M | accepted quick scans are kept, their results final and their collection single; durable leases, slots and caps; every commit counted once |
| `locks` | 3 calls over 2 handles; 3 requests for a report; 2 restarts, 3 processes | 0.4 M | capacity and owners agree, reports belong to their snapshot, receipts are for new processes; whatever is held comes back |
| `feed_store` | deletion and return of 1 profile; 2 commands, 2 pages; 2 operators | 1.6 M | nothing of a deleted generation survives its cleanup; commands are applied once; governance keeps the taxonomy closed |
| `analysis` | 1 or 2 runs, 2 workers, each implementation | 1.1 M | runs keep their thread, slot and verdict under lost answers, timeouts and recovery |
| `integrations` | 2 projects, 2 sweeps; 2 to 4 facts; 1 issue; 1 author, 2 issues | 2.1 M | catalog, recommender, labels and mails follow their sources |
| `outcomes` | nine smallest fair instances | 0.04 M | what must end, ends; what must agree comes to agree |
| `roast_replay` | as `locks`, one property | - | a violation, see below |

### Bounds

Two holders are enough for every race over a lease or lock: the guards compare a
holder with "somebody else"; a third process is there where a holder, a waiting
one and one that comes back late meet (`locks`, `pg_jobs`).  Two versions, two
facts or two snapshots are enough for reordering and staleness.  Budgets of one
or two attempts reach exhaustion together with a retry before it, and nothing in
the code depends on their size beyond the comparison.  The amount of trouble
(crashes, stalls, lost answers) is one or two where the module counts it, enough
for a failure during the recovery from a failure, and unlimited where it is a
switch (`healthy` in `ScanJobs`).  Instances are finite without state constraints: every
environment action has a bound in its guard.  What the bounds leave open is
what the proofs of section 4 close for the modules they are about.

In `scans`, the requests that share a key meet every failure (`delivery`), and
the two cold requests meet each other while nothing fails (`flight`), which is
what `SingleFlight` speaks of; all of it together is too large for TLC and is
covered by the proof.  The parts of `MCAnalysis` split the worker's trouble in
the same way (`trouble`, chosen initially), and its proof covers all kinds together.

Deadlock is not an error where the modelled system may have nothing left to do:
every event settled, every job ended, trouble used up.  In `FeedExecution`
writes can always be toggled, so the check is on but shows nothing beyond that.

### Fairness

- `SourceOutbox`: the minute cron keeps firing; an invocation takes its next
  step or is cut off, since every request has a timeout; clocks advance; claims
  are strongly fair, that is, not *every* invocation is cut off between the two
  statements of its claim.  Successful sends are not assumed, so the conclusion
  is "delivered or visibly failed".
- `FeedExecution`: the queue keeps offering every message that is not parked; an
  execution takes its next step or dies; the cron keeps looking for pending
  replays.  Writes may be toggled for ever: `EventuallyDecided` is stated under
  `<>[]writable`.
- `outcomes`: workers, crons and clocks go on; the broker keeps offering ready
  messages.  No call is assumed to succeed: trouble is bounded or, in
  `ScanJobs`, the conclusion is stated under `<>[]healthy`.  Strong fairness is
  used only for what competes: a claim that other rows may take first, and a
  queue delivery that may be dropped.  The conditions are
  stated per position of "the part that moves" (`Weakly(n)`, `Strongly`): only
  actions of that part are ever enabled, so one condition for each position
  says what one per component would.

### The violation

`roast_replay` (`ReplayBelongs`): the roast route looks at the snapshot it is
asked about and then reads the archived report of the row *as it is by then*
(`route.ts:771`).  A score published in between has its report replayed, and
cached, for the older snapshot, which the comment at `route.ts:727` rules out.

### Observed limits

Not violations of anything the repository promises, but what an operator or a
reader of the code may want to know; the models contain each of them.

- Feed: a dead letter whose evidence cannot be persisted within its retries is
  parked, where nothing consumes it (`NeverStranded` counts the parked copy).
  Pausing consumption uses up the queue's retries (`consumer.ts:31`).  A run
  without a receipt that becomes the latest makes older events unavailable
  (`source.ts:119`).  The PostgreSQL upsert of terminal evidence decides by the
  version and not, as the D1 one does, by the attempt (`feed_executor_pg.go:162`,
  `jobs.ts:274`).
- Scans: a late "retrying" record may follow "completed" (`scan_worker.go:159`);
  the flight lock outlives an admission that ends with
  `job_status_unavailable` (`http.go:882`) until it expires; a job redelivered
  after GitHub's answer changed ends in conflict and is reported failed although
  its first result is stored (`scan_worker.go:191`).
- Analysis: attaching a thread does not look at the slot
  (`project_analysis_db.go:438`); a stale reader may update the state of a thread
  (`:514`); an evaluation is not kept when the run ended meanwhile
  (`project_analysis_worker.go:530`).  A run recovered with
  `finalize_completed` keeps no such budget as a retried one: attaching a thread
  and preparing a retry look at the status but not at the key
  (`project-analysis-db.ts:586`, `:613`), so stale copies of them, left by four
  overlapping requests, can put the old thread back and requeue the run without
  a further audit record.  `RecoveryBudget` therefore speaks of the runs
  recovered by a retry, and the two callers of the `analysis` run do not reach
  the other case.
- Roast: the report text is updated under the digest but not under the identity
  of the write (`db.ts:1408`); a request without a model keeps the lock until it
  expires (`route.ts:877`); the same report may be generated twice (`:802`).
- Feed store and integrations: a page may be served for a profile version that a
  command has just replaced (`commands.ts:318`, `:235`); a merged tag may be
  named by a mapping that was read before (`governance.ts:439`); a sweep that
  outlives its lease goes on to its next renewal (`feed_store.go:287`); an
  override is lost with the evidence it was given for (`feed_admin.go:113`);
  a worker may write an older fact to Gorse (`feed_gorse_projection.go:228`) and
  an "unsave" may overtake a "save" (`feed_outbox.go:143`) until the next rebuild;
  a second login uses the key of the first (`feed_store.go:371`).
- GitHub App: a job taken over from a lost invocation may exceed its budget by
  one (`jobs.ts:256`); opting out and in again resets the day of the last mail
  (`ui.ts:99`), which is why turns are counted per subscription row; a mail may
  go to an address that was current when its turn was taken
  (`author-email.ts:325`).

## 4. Proofs

TLAPS checks the theorems below for every value of the constants, under the
assumptions the modules declare (`OutboxAssumption`, `ExecutionAssumption`, ...):
any number of runs, events, projects, requests, calls, workers, finite where a
cardinality is counted, and any positive budgets.  No theorem assumes anything
of a state.  One part of a property is conditional on the deployment, in the
property itself: `GorseSafe` promises `ErasedForGood` for one projection worker
(`OneWorker`).  That is what runs: `docker-compose.backend.yml` has one `worker`
service with a fixed host port, and its loop handles one delivery after another
(`feed_gorse_projection.go:171`).  A second worker may write a profile that it read
before the first one erased it.

Each proof has the same shape.  A lemma per kind of step says what it changes
*as far as the invariants can tell* (`RowsMoved`, `JobsStep`, `Effect`,
`RequestStep`, ...); the invariants are proved from these effects and not from the
actions; each `...Holds` theorem follows from the invariant.

**`SourceOutboxProofs`.**
`FactsInvariant`: `SubmittedLatestResolves` is not inductive.  What makes it so is
`LatestIsNewest`: the event of the latest run has the greatest sequence among its
repository's events.  That in turn needs every row to be a fact (its run is
completed, has a receipt, and its sequence was handed out), the latest run to be
completed, and a submitted latest run to have its event.  The step that matters
is the reuse of a completed run: its event is inserted only while it is still
the latest, with a sequence above all others.  `DeliveredWasPublishedHolds`: an
invocation that confirms delivery has its whole remaining batch among the
published events.  `DeliveredIsFinalHolds`, `ReplayOncePerCommandHolds`: every step
leaves rows delivered and their replay counts alone, except one that records a
new command for a failed row.

**`FeedExecutionProofs`.**  `StepFrame` says which actions change which variable;
one lemma per table what a step does to it.  `TypeOK` is not inductive: a message
is built from the event of a replay delivery, so the type of the queue rests on
`Linked`.  `CompletedIsCoveredHolds` needs that an execution *about to complete*
has its event covered; coverage is stable because versions are never reassigned
and projections never fall, so it survives the gap between the apply and the
completion, in which facts, lease and epoch may all change.
`ProjectionAdvancesHolds` is the refinement of `ProjectedVersions`: `Commit` is a
`Learn` step, `Apply` a `Show` step or a stutter, every other action a stutter.
`NeverStrandedHolds`: whatever the queue accepted stays `Present`, which rests on
`AckIsCompleted` (a copy is dropped without evidence only after its event's
completion), `SentIsPresent` and `HeadIsLive`.

**`FeedJobsPgProofs`.**  The invariant ties a run to the locks it holds: while a
run is between its lock and its projection its job row is locked, so the lease
it found is still its own though the lease's time may be over
(`ProjectorLeases`); while it commits, the repository is locked, so the version
it compared with is still there (`ComparedIsCurrent`); open transactions share
the control row, so the gate is still open (`GateHolds`).  From these:
`CompletedIsCovered`, `DeadAfterAllAttempts`, `LeaseIsHonoured`,
`EvidenceAdvances`, and that nothing is written after the gate closed.

**`ScanProofs`.**  A step of the quick scan does one of five things to the messages:
leaves them alone, publishes one, delivers one, returns one or drops one
(`Traffic`).  Copies are counted, so the first part of the proof is about
cardinalities (`TakesOne`, `ReturnsOne`, ...).  `NothingLost` is not inductive: a
worker that acknowledges drops a copy, and what justifies it is `HandedOn`, that
a worker about to acknowledge has settled the job or that *a later attempt* of
it is at the broker.  The word "later" matters: workers that handle equal copies
may acknowledge one after the other, and each is carried by a message that is not
the one the other drops, since attempts only grow along the chain.
`CompletedHasResult` needs that a worker about to report has persisted, and that
results stay.  `SingleFlight` needs that, while nothing has failed, the lock
belongs to the request whose job is under way (`Owner`), that such a job has one
copy or one worker (`OneCopy`, `OneWorker`), so that nobody is left on it when
the lock is released, and that the broker does not know a job before its own
request has published it (`Locks`), so that a fresh owner starts alone.

**`ScanProofs`, the durable scans.**  A step of the durable store changes the rows of each scan in
one of a few ways (`RowEffect`): not at all, as a claim, as its holder's write, or as
a sweep of a lease that is over.  The job and the run of a scan fit each other
(`Consistent`), a worker that calls with a token has it from a claim of that very
scan and no later claim has used it (`Tokened`), and the live executions have
distinct slots below the capacity (`SlotsFit`).  So a late worker's token is not
the row's, and its calls change nothing (`LiveLeaseIsKept`); and the caps, which the
code checks before its insert, hold after it.

**`ScanProofs`, the commit facts.**  The rows of the ranges, open and finished, partition the history
(`RangesFit`: every commit has exactly one range that counts it), and a row has counted the
pages before the one it is queued at (`RowFits`).  The delicate part is a worker
whose lease has gone to another between its read and its write (`Doing`): what it writes
is bound to the cursor it read only while the lease is its own, and otherwise is a
fact that is true anyway, such as a candidate found once more.  The published
total is a cardinality, so that no sum needs an induction.

**`CleanupProofs`, the deletion.**  Each action is reduced to what it does to the data (`DataStep`:
only what lies at or below the floor is taken, content comes only to registered
keys), to one job (`JobStep`: nothing, it is created, it changes hands, or the step
of its lease holder moves its checkpoint) and to one execution (`WorkerStep`).  The
checkpoint is true (`Truths`) because of `Steps`: what a step has read before its
batch may be stale, but what it *relies on* cannot get worse while its lease lasts
(`ReliesKept`), since old rows only become fewer, no one else moves the checkpoint,
and a lease that lasts through a step was held before it (`LeaseLasts`).  The point
where the archive could leak is content that appears behind the cursor: it comes
only under a registered key, the cursor leaves its start only when no old key is
registered, and no old key is registered any more (`Generations`, `Writing`).
`NothingForgotten` needs that the floor was raised by a deletion on record
(`Floors`) and that a caller names the generation it expects (`Requested`).

**`CleanupProofs`, the pages.**  Nothing links a page to the profile but the version number it
was ranked for, so the invariant says what that number is worth: a version once
seen stands, came before the one that stands, or was deleted (`Reached`), and
while it stands the page's preferences are the profile's (`PageFits`, `SessionFits`).
A returning profile starts above the floor of the deleted one; hence what was
served above the floor was served to the profile that stands (`ServedFits`), which
is what lets an event be refused or recorded by its version alone.

**`CleanupProofs`, the taxonomy.**  An attempt reads receipt, command and proposal in
separate statements, then decides in one batch.  What it has read is there still
(`AttemptFits`); a proposal has lost its name only with its author, and is
decided exactly when the receipt of one command says so (`ProposalFits`, `OneDecision`).
Versions and commands are counted against each other (`VersionsHaveCommands`), a
count that grows in the same batch as the version.

**`LocksProofs`, the admission.**  Owners never exceed the capacity (`Bounded`), the owner of a
handle has its newest turn (`OwnerIsNewest`), cached and given results were
produced for their handle by an admitted call (`Sources`), and, while nothing has
failed, what was produced is cached or with the owner (`Untroubled`).  A late
writer is stopped by its turn, which is why `NewestResultStays` needs no bound on
trouble.

**`LocksProofs`, the restart.**  The lock has one holder until its work and its stop operation
have settled, a stop that timed out included (`OneHolder`); what a request found
running is gone before it starts anything (`OldIsGone`); what the answers given so
far say of the work and of the processes (`Told`, `Receipts`).

**`LocksProofs`, the reports.**  `ReportFitsScore` and the absence of an older scan over a newer one rest
on what a scan or a request has *read*: a row that was the score row once (`ReadFits`,
`IdentityFits`), with a stamp that grows with every publication and stands for
one snapshot.  What a request is about to replay has been stored (`ReplayFits`), and
the lock is with a leader that has not ended (`LeadFits`).  `ReplayBelongs`, which the run
`roast_replay` refutes, is not part of it.

**`IntegrationsProofs`, the catalog.**  What a worker has read the source has had (`Read`), and every
project behind a sweep's key was seen or is known to have been away (`Swept`),
so that hiding the rest at the end hides nothing that stayed.

**`IntegrationsProofs`, the mails.**  An invocation between its claim and its last update is the only
owner of its row (`Owned`); a turn belongs to one invocation and to a
subscription that cannot give another (`Turned`); the mails that paid
invocations may still send fit the budget (`Budgeted`).

**`IntegrationsProofs`, the jobs of the App.**  An execution that holds the row is the only one that
may end it, so `ExecFits` says at each of its places what GitHub already shows: the
stored label among the labels, then alone, then the comment with it; a lost answer
or a crash throws the execution away and keeps what was written.  Everybody else
touches rows only *quietly* (`Quietly`): they admit, cancel what waits, purge what
ended, or let time pass.  The lease is longer than the budget and both start with
the claim, so what is left of a lease and the age of its row add up to a lease
(`Sane`): a row claimed again after a lost execution is past its budget and is buried, never
finished, which is why a dead letter is never about a job that succeeded.  For
`DiscoveryComplete` a repository without a job lies on the page a discovery is at,
or behind it (`Ahead`): installations move repositories only towards the end of
the list (`PlacesGrow`), and a removal, which could move them forward, excuses
the discoveries under way.

**`IntegrationsProofs`, the recommender.**  Steps of the API, of the rebuild and of
the relays leave of every row of the outbox what it is about (`OutMsgs`), and only
a completion calls one delivered (`OutKept`); what a relay has published is carried
or handled before it may say so, and every worker hands on what it took
(`LostInv`).  `ErasedForGood` is not inductive: `EraseInv` says that whom the
recommender knows, or is about to hear of, has a profile or a tombstone, and that
when the tombstone is about to go nothing is left of the user.  The tombstone and
the message that ends it name the same row (`TombInv`, `RowInv`), so that no message
about one user takes back the deletion of another.

**`AnalysisProofs`.**  Whatever a worker does, it does one of five things (`Kinds`): a
delivery goes on (`Effect`), ends (`Leaves`) or begins (`Takes`), a request inserts
a run or publishes its job (`Asks`), or the world moves (`Surroundings`).  Types rest on
the count of a job's copies (`Counted`): a published copy finds room, and one
that is handed on takes the place of the one it replaces, unless an
acknowledgement is lost.  `OneOpenRun` needs the key kept with the open row
(`Keyed`), which a retry takes back only when it is free.  `AssessmentIsBacked`
needs that what is about to be committed is valid (`Validated`): a thread that was
found valid stays so, while the row may have moved on.  `OpenIsCarried` is not
inductive: a delivery that is about to be acknowledged carries nothing, and
neither does one that goes by a terminal row it has read.  `Kept` therefore asks
for a delivery that can be trusted, and `CarriesOn` shows that every step that
finds the run open keeps or makes its delivery such a one.  `SlotBound` and
`ThreadIsKnown` are about a run with one delivery whose lease lasts (`Alone`), the
condition under which the code keeps them (see the observed limits): then the row is as
the delivery left it (`Agrees`), because a run has one copy of its job at most.

### What stays with TLC

Liveness: fairness and `ENABLED` are beyond the prover, so the properties of
`feed_liveness`, `outcomes` and `LocksEnd` are checked only.  So are the step
properties and invariants of the components that have no proof:
`AnalysisService`.

## 5. What is not modelled, and what is next

Not modelled are the components listed as `not_modelled` or `partly` in
`PROJECT.json`, each with the reason.  Rendering, network collection, floating
point scoring and command line tools keep no shared state a model could say more
about than a test.  What would be worth modelling next, in this order:

1. the canonical score and opt-out tables of `src/lib/db.ts` and the leaderboards
   read from them;
2. embedding jobs (`internal/backend/feed_embedding.go`), which follow the
   pattern of the Gorse projection;
3. the production transfer scripts below `scripts/`, run by one operator under a
   fence;
4. the collection of `src/lib/github.ts`: paging and budgets against a source
   that changes.

Proofs worth adding: the runs of `AnalysisService`.
