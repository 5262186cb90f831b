---------------------------- MODULE FeedCleanup ----------------------------
(***************************************************************************)
(* Deletion of one account's Feed profile: the deletion command            *)
(* (platform/feed/src/commands.ts), the leased cleanup job with its        *)
(* checkpoint (cleanup.ts) that a Go executor drives step by step          *)
(* (internal/backend/feed_cleanup.go), and the object archive that writers *)
(* fill while the cleanup empties it (archive.ts).                         *)
(*                                                                         *)
(* Profile versions are generations: a deletion raises the floor to the    *)
(* current version, and the account may return one version above it.       *)
(* D1 batches are atomic.  Bucket objects are written one by one, outside  *)
(* of any batch, and every call may fail or lose its answer while the      *)
(* environment is not healthy.                                             *)
(***************************************************************************)
EXTENDS Naturals, FiniteSets

CONSTANTS
  Worker,       \* executions of the cleanup at a time, each a lease owner
  Caller,       \* concurrent requests to delete the profile
  Writer,       \* concurrent archive writes
  MaxObjects,   \* bound on archive identifiers of a generation
  MaxVersion,   \* bound on generations of the profile
  LastTable,    \* tables erased after the proposals (8 in the code)
  Page,         \* rows or objects a step may handle (100; 20 for proposals)
  MaxRows,      \* bound on rows of a generation in a table
  MaxFailures,  \* failures that make a job failed (8)
  Legacy,       \* keys that may have content though never registered
  Trouble,      \* what may go wrong: "failures" of calls and processes, the
                \* semantic "policy"
  None

Version == 1 .. MaxVersion
Object == 1 .. MaxObjects
Table == 1 .. LastTable
Row == Version \X (1 .. MaxRows)  \* rows of a table, by generation
Key == Version \X Object
NoKey == <<0, 0>>

ASSUME CleanupAssumption ==
  /\ MaxVersion \in Nat \ {0}
  /\ LastTable \in Nat \ {0}
  /\ Page \in Nat \ {0}
  /\ MaxRows \in Nat
  /\ MaxFailures \in Nat \ {0}
  /\ MaxObjects \in Nat
  /\ Legacy \subseteq Key
  /\ Trouble \subseteq {"failures", "policy"}
  /\ None \notin Worker

VARIABLES
  profile,   \* version of the user's row, 0 when there is none, and the floor
  authors,   \* authorships whose proposal still has its text
  rows,      \* the rows of each table
  deletion,  \* feed_profile_deletions: one for each deleted generation
  job,       \* feed_cleanup_jobs: one for each deletion
  registry,  \* feed_archive_objects: the state of each registered key
  bucket,    \* what the bucket holds under each key
  worker,    \* position of each execution and the step it has in flight
  caller,    \* position of each deletion request
  writer,    \* position of each archive write
  semantic,  \* feed_cleanup_policy: semantic_mode is "disabled"
  healthy    \* no call fails and no process dies

vars == <<profile, authors, rows, deletion, job, registry, bucket, worker,
          caller, writer, semantic, healthy>>

NoJob == [status |-> "absent", phase |-> "primary", table |-> 0, cursor |-> NoKey,
          failures |-> 0, owner |-> None, live |-> FALSE]
NoDeletion == [status |-> "absent", floor |-> 0, primary |-> FALSE,
               archive |-> FALSE]
NoStep == [at |-> "none", table |-> 0, keys |-> {}, next |-> NoKey]
Idle == [at |-> "idle", id |-> 0, stepped |-> FALSE, step |-> NoStep]

\* Keys in the order the bucket lists them; NoKey, no cursor, comes first.
Before(k, l) == k[1] < l[1] \/ (k[1] = l[1] /\ k[2] < l[2])

TypeOK ==
  /\ profile \in [version : 0 .. MaxVersion, floor : 0 .. MaxVersion]
  /\ authors \subseteq Row
  /\ rows \in [Table -> SUBSET Row]
  /\ deletion \in [Version ->
       [status : {"absent", "pending", "running", "failed", "completed"},
        floor : 0 .. MaxVersion, primary : BOOLEAN, archive : BOOLEAN]]
  /\ job \in [Version ->
       [status : {"absent", "pending", "leased", "failed", "completed"},
        phase : {"primary", "archive", "semantic", "completed"},
        table : 0 .. LastTable + 1, cursor : Key \cup {NoKey},
        failures : 0 .. MaxFailures, owner : Worker \cup {None},
        live : BOOLEAN]]
  /\ registry \in [Key -> {"absent", "reserved", "stored", "erased"}]
  /\ bucket \in [Key -> {"none", "content", "marker"}]
  /\ worker \in [Worker ->
       [at : {"idle", "ready", "call", "fail", "release"},
        id : 0 .. MaxVersion, stepped : BOOLEAN,
        step : [at : {"none", "redact", "page", "erase", "touch", "wipe",
                      "semantic"},
                table : 0 .. LastTable + 1,
                keys : SUBSET (Row \cup Key), next : Key \cup {NoKey}]]]
  /\ caller \in [Caller ->
       [at : {"start", "name", "commit", "done"},
        expected : 0 .. MaxVersion, id : 0 .. MaxVersion]]
  /\ writer \in [Writer ->
       [at : {"start", "put", "store", "erase", "done"},
        key : Key \cup {NoKey}]]
  /\ semantic \in BOOLEAN
  /\ healthy \in BOOLEAN

Init ==
  /\ profile = [version |-> 1, floor |-> 0]
  /\ authors = {}
  /\ rows = [t \in Table |-> {}]
  /\ deletion = [v \in Version |-> NoDeletion]
  /\ job = [v \in Version |-> NoJob]
  /\ registry = [k \in Key |-> "absent"]
  /\ \E kept \in SUBSET Legacy :
       bucket = [k \in Key |-> IF k \in kept THEN "content" ELSE "none"]
  /\ worker = [w \in Worker |-> Idle]
  /\ caller = [c \in Caller |-> [at |-> "start", expected |-> 0, id |-> 0]]
  /\ writer = [a \in Writer |-> [at |-> "start", key |-> NoKey]]
  /\ semantic = TRUE
  /\ healthy = TRUE

-----------------------------------------------------------------------------
(* The profile: it returns, it writes, it is deleted.                      *)

\* users.ensure: a new row starts one version above the floor.
Ensure ==
  /\ profile.version = 0
  /\ profile.floor < MaxVersion
  /\ profile' = [profile EXCEPT !.version = profile.floor + 1]
  /\ UNCHANGED <<authors, rows, deletion, job, registry, bucket, worker, caller,
                 writer, semantic, healthy>>

\* A command of the current generation leaves a row behind; its guard
\* compares the version inside the batch that writes.
Write(t) ==
  /\ \E n \in 1 .. MaxRows :
       /\ <<profile.version, n>> \in Row \ rows[t]
       /\ rows' = [rows EXCEPT ![t] = @ \cup {<<profile.version, n>>}]
  /\ UNCHANGED <<profile, authors, deletion, job, registry, bucket, worker, caller,
                 writer, semantic, healthy>>

Propose ==
  /\ \E n \in 1 .. MaxRows :
       /\ <<profile.version, n>> \in Row \ authors
       /\ authors' = authors \cup {<<profile.version, n>>}
  /\ UNCHANGED <<profile, rows, deletion, job, registry, bucket, worker,
                 caller, writer, semantic, healthy>>

\* The service looks up the version it is going to delete.
LookUp(c) ==
  /\ caller[c].at = "start"
  /\ caller' = [caller EXCEPT ![c] =
       [at |-> "name", expected |-> profile.version, id |-> 0]]
  /\ UNCHANGED <<profile, authors, rows, deletion, job, registry, bucket, worker,
                 writer, semantic, healthy>>

\* The deletion is named after the generation, read before the batch.
Generation ==
  IF profile.version # 0 THEN profile.version
  ELSE IF profile.floor # 0 THEN profile.floor ELSE 1

NameDeletion(c) ==
  /\ caller[c].at = "name"
  /\ caller' = [caller EXCEPT ![c].at = "commit", ![c].id = Generation]
  /\ UNCHANGED <<profile, authors, rows, deletion, job, registry, bucket, worker,
                 writer, semantic, healthy>>

\* Rows that are already there stay as they are (ON CONFLICT DO NOTHING).
DeleteProfile(c) ==
  LET g == caller[c].id
      deleted == IF profile.version # 0 THEN profile.version ELSE 1
      floor == IF deleted > profile.floor THEN deleted ELSE profile.floor
  IN
  /\ profile' = [version |-> 0, floor |-> floor]
  /\ deletion' = IF deletion[g].status # "absent" THEN deletion
       ELSE [deletion EXCEPT ![g] =
               [NoDeletion EXCEPT !.status = "pending", !.floor = floor]]
  /\ job' = IF job[g].status # "absent" THEN job
       ELSE [job EXCEPT ![g] = [NoJob EXCEPT !.status = "pending"]]

CommitDeletion(c) ==
  /\ caller[c].at = "commit"
  /\ caller' = [caller EXCEPT ![c].at = "done"]
  /\ \/ profile.version = caller[c].expected /\ DeleteProfile(c)
     \/ /\ profile.version # caller[c].expected \/ ~healthy
        /\ UNCHANGED <<profile, deletion, job>>
  /\ UNCHANGED <<authors, rows, registry, bucket, worker, writer, semantic,
                 healthy>>

-----------------------------------------------------------------------------
(* The archive: register the key, put the object once, confirm.            *)

GenerationLive(k) == profile.version = k[1] /\ k[1] > profile.floor

GoWriter(a, place) == writer' = [writer EXCEPT ![a].at = place]

Reserve(a, k) ==
  /\ writer[a].at = "start"
  /\ GenerationLive(k)
  /\ registry[k] # "erased"
  /\ registry' = [registry EXCEPT ![k] = IF @ = "absent" THEN "reserved" ELSE @]
  /\ writer' = [writer EXCEPT ![a] = [at |-> "put", key |-> k]]
  /\ UNCHANGED <<profile, authors, rows, deletion, job, bucket, worker, caller,
                 semantic, healthy>>

\* The put applies only while no object has the key; equal content counts
\* as the answer to a retried put.  A lost answer ends the request.
PutObject(a) ==
  LET k == writer[a].key IN
  /\ writer[a].at = "put"
  /\ bucket' = [bucket EXCEPT ![k] = IF @ = "none" THEN "content" ELSE @]
  /\ \/ bucket[k] # "marker" /\ GoWriter(a, "store")
     \/ /\ bucket[k] = "marker" \/ ~healthy
        /\ GoWriter(a, "done")
  /\ UNCHANGED <<profile, authors, rows, deletion, job, registry, worker, caller,
                 semantic, healthy>>

StoreObject(a) ==
  LET k == writer[a].key IN
  /\ writer[a].at = "store"
  /\ \/ /\ GenerationLive(k)
        /\ registry[k] # "erased"
        /\ registry' = [registry EXCEPT ![k] = "stored"]
        /\ GoWriter(a, "done")
     \/ /\ ~GenerationLive(k)
        /\ GoWriter(a, "erase")
        /\ UNCHANGED registry
     \/ /\ (GenerationLive(k) /\ registry[k] = "erased") \/ ~healthy
        /\ GoWriter(a, "done")
        /\ UNCHANGED registry
  /\ UNCHANGED <<profile, authors, rows, deletion, job, bucket, worker, caller,
                 semantic, healthy>>

\* Deletion raced the put: a marker replaces the content and stays.
EraseOwn(a) ==
  /\ writer[a].at = "erase"
  /\ \/ bucket' = [bucket EXCEPT ![writer[a].key] = "marker"]
     \/ ~healthy /\ UNCHANGED bucket
  /\ GoWriter(a, "done")
  /\ UNCHANGED <<profile, authors, rows, deletion, job, registry, worker, caller,
                 semantic, healthy>>

-----------------------------------------------------------------------------
(* The job: claims, leases and the failure budget.                         *)

Go(w, place) == worker' = [worker EXCEPT ![w].at = place]

Spend(j) ==
  [j EXCEPT !.failures = @ + 1, !.owner = None, !.live = FALSE,
            !.status = IF j.failures + 1 >= MaxFailures
                       THEN "failed" ELSE "pending"]
Free(j) == [j EXCEPT !.status = "pending", !.owner = None, !.live = FALSE]
Take(j, w) == [j EXCEPT !.status = "leased", !.owner = w, !.live = TRUE]

\* Mutant of Expired: claims do not look for expired leases.
NeverExpired == {}

Expired == {g \in Version : job[g].status = "leased" /\ ~job[g].live}
Swept == [g \in Version |-> IF g \in Expired THEN Spend(job[g]) ELSE job[g]]

\* A claim first sweeps expired leases, then leases one pending job unless
\* the owner holds a live lease.  A lost answer leaves a lease nobody uses.
Claim(w) ==
  /\ worker[w].at = "idle" /\ worker[w].step = NoStep
  /\ \/ \E g \in Version :
          /\ Swept[g].status = "pending"
          /\ \A h \in Version : ~(job[h].live /\ job[h].owner = w)
          /\ job' = [Swept EXCEPT ![g] = Take(@, w)]
          /\ \/ worker' = [worker EXCEPT ![w] =
                   [Idle EXCEPT !.at = "ready", !.id = g]]
             \/ ~healthy /\ UNCHANGED worker
     \/ /\ Expired # {}
        /\ \/ \A g \in Version : Swept[g].status # "pending"
           \/ \E h \in Version : job[h].live /\ job[h].owner = w
        /\ job' = Swept
        /\ UNCHANGED worker
  /\ deletion' = [g \in Version |->
       IF g \in Expired /\ Swept[g].status = "failed"
       THEN [deletion[g] EXCEPT !.status = "failed"] ELSE deletion[g]]
  /\ UNCHANGED <<profile, authors, rows, registry, bucket, caller, writer,
                 semantic, healthy>>

\* guardLease, the first statement of every batch of a step.
Lease(w) ==
  LET j == job[worker[w].id] IN
  j.status = "leased" /\ j.owner = w /\ j.live

\* The 90 s of a lease outlast an execution of at most 64 s unless clocks or
\* calls are in trouble.
Expire(g) ==
  /\ job[g].status = "leased" /\ job[g].live
  /\ worker[job[g].owner].at = "idle" \/ ~healthy
  /\ job' = [job EXCEPT ![g].live = FALSE]
  /\ UNCHANGED <<profile, authors, rows, deletion, registry, bucket, worker,
                 caller, writer, semantic, healthy>>

\* The end of an execution: fail costs one failure, release costs none.
\* Whatever the answer, the execution is over.
Finish(w, ended) ==
  LET g == worker[w].id IN
  /\ \/ /\ Lease(w)
        /\ job' = [job EXCEPT ![g] = ended]
        /\ deletion' = [deletion EXCEPT ![g].status =
             IF ended.status = "failed" THEN "failed" ELSE "running"]
     \/ /\ ~Lease(w) \/ ~healthy
        /\ UNCHANGED <<job, deletion>>
  /\ Go(w, "idle")
  /\ UNCHANGED <<profile, authors, rows, registry, bucket, caller, writer,
                 semantic, healthy>>

Fail(w) == worker[w].at = "fail" /\ Finish(w, Spend(job[worker[w].id]))
Release(w) == worker[w].at = "release" /\ Finish(w, Free(job[worker[w].id]))

\* After its steps, or its time, an execution yields.
Yield(w) ==
  /\ worker[w].at = "ready"
  /\ worker[w].stepped \/ ~healthy
  /\ Go(w, "release")
  /\ UNCHANGED <<profile, authors, rows, deletion, job, registry, bucket,
                 caller, writer, semantic, healthy>>

\* An execution stops waiting for a step, which may still be running, or is
\* gone altogether.
GiveUp(w) ==
  /\ ~healthy
  /\ \/ worker[w].at = "call" /\ (Go(w, "fail") \/ Go(w, "release"))
     \/ worker[w].at # "idle" /\ Go(w, "idle")
  /\ UNCHANGED <<profile, authors, rows, deletion, job, registry, bucket,
                 caller, writer, semantic, healthy>>

\* An operator returns a failed job with a fresh budget.
Replay(g) ==
  /\ job[g].status = "failed"
  /\ job' = [job EXCEPT ![g] = [Free(@) EXCEPT !.failures = 0]]
  /\ deletion' = [deletion EXCEPT ![g].status = "pending"]
  /\ UNCHANGED <<profile, authors, rows, registry, bucket, worker, caller,
                 writer, semantic, healthy>>

-----------------------------------------------------------------------------
(* The steps.  Each reads the job under the lease, works, and commits its  *)
(* checkpoint in a batch that starts with the lease guard.                 *)

\* The first Page keys of a set, in listing order; any page of a set of rows.
FirstPage(keys) ==
  {k \in keys : Cardinality({l \in keys : Before(l, k)}) < Page}
PageOf(set) ==
  {some \in SUBSET set :
     IF Cardinality(set) <= Page THEN some = set ELSE Cardinality(some) = Page}

Floor(g) == deletion[g].floor
OldAuthors(g) == {a \in authors : a[1] <= Floor(g)}
OldRows(t, g) == {r \in rows[t] : r[1] <= Floor(g)}
OldRegistered(g) ==
  {k \in Key : k[1] <= Floor(g) /\ registry[k] \in {"reserved", "stored"}}

\* bucket.list from the cursor: the page, its old content, and the cursor for
\* what follows, the last key listed, or NoKey when nothing does.
Ahead(g) == {k \in Key : bucket[k] # "none" /\ Before(job[g].cursor, k)}
Listed(g) == FirstPage(Ahead(g))
OldListed(g) == {k \in Listed(g) : k[1] <= Floor(g) /\ bucket[k] = "content"}
NextCursors(g) ==
  IF Ahead(g) = Listed(g) THEN {NoKey}
  ELSE {k \in Listed(g) : \A l \in Listed(g) : ~Before(k, l)}

\* What a step decides from the job it has read, before its own batch.
Plan(g) ==
  LET step(at, keys, next) ==
        [at |-> at, table |-> job[g].table, keys |-> keys, next |-> next]
  IN
  CASE job[g].phase = "primary" /\ job[g].table = 0 ->
         \* the first authors by identifier, at most a page of them
         {step("redact", few, NoKey) : few \in PageOf(OldAuthors(g))}
    [] job[g].phase = "primary" /\ job[g].table # 0 ->
         {step("page", {}, NoKey)}
    [] job[g].phase = "archive" /\ OldRegistered(g) # {} ->
         {step("erase", FirstPage(OldRegistered(g)), NoKey)}
    [] job[g].phase = "archive" /\ OldRegistered(g) = {} ->
         {step("wipe", OldListed(g), next) : next \in NextCursors(g)}
    [] job[g].phase = "semantic" /\ semantic ->
         {step("semantic", {}, NoKey)}
    [] OTHER -> {}

\* Errors before the step has had any effect: lease lost, no plan, trouble.
Step(w) ==
  LET g == worker[w].id IN
  /\ worker[w].at = "ready"
  /\ worker[w].step = NoStep
  /\ \/ /\ Lease(w)
        /\ \E step \in Plan(g) : worker' = [worker EXCEPT
             ![w].at = "call", ![w].step = step]
     \/ /\ ~Lease(w) \/ Plan(g) = {} \/ ~healthy
        /\ Go(w, "fail")
  /\ UNCHANGED <<profile, authors, rows, deletion, job, registry, bucket,
                 caller, writer, semantic, healthy>>

\* The end of a step: the execution hears of it if it still waits.
Ends(w, place) ==
  worker' = [worker EXCEPT
    ![w].step = NoStep,
    ![w].stepped = @ \/ worker[w].at = "call",
    ![w].at = IF @ = "call" THEN place ELSE @]

\* A step that ends without its batch: the guard refuses it, or trouble does.
Abort(w) ==
  /\ worker[w].step # NoStep
  /\ ~Lease(w) \/ ~healthy
  /\ Ends(w, "fail")
  /\ UNCHANGED <<profile, authors, rows, deletion, job, registry, bucket,
                 caller, writer, semantic, healthy>>

\* A batch under the lease: it commits, though its answer may get lost.
Commits(w, at) ==
  /\ worker[w].step.at = at
  /\ Lease(w)
  /\ Ends(w, "ready") \/ (~healthy /\ Ends(w, "fail"))

\* Proposal bodies: the authors read before are redacted, and the checkpoint
\* leaves table 0 when they did not fill a page.
Redact(w) ==
  LET g == worker[w].id
      read == worker[w].step.keys
  IN
  /\ Commits(w, "redact")
  /\ authors' = authors \ read
  /\ job' = [job EXCEPT ![g].table = IF Cardinality(read) < Page THEN 1 ELSE 0]
  /\ UNCHANGED <<profile, rows, deletion, registry, bucket, caller, writer,
                 semantic, healthy>>

\* Mutant of Advance: the checkpoint advances after every page.
AlwaysAdvance(j, short) ==
  [j EXCEPT !.table = @ + 1,
            !.phase = IF j.table + 1 > LastTable THEN "archive" ELSE "primary"]

\* At most a page of old rows of the table the step has read; the checkpoint
\* advances from where it is when there were fewer.
Advance(j, short) ==
  LET table == j.table + (IF short THEN 1 ELSE 0) IN
  [j EXCEPT !.table = table,
            !.phase = IF table > LastTable THEN "archive" ELSE "primary"]

ErasePage(w) ==
  LET g == worker[w].id
      t == worker[w].step.table
  IN
  /\ Commits(w, "page")
  /\ \E gone \in PageOf(OldRows(t, g)) :
       /\ rows' = [rows EXCEPT ![t] = @ \ gone]
       /\ job' = [job EXCEPT ![g] = Advance(@, Cardinality(gone) < Page)]
  /\ deletion' = [deletion EXCEPT ![g].status = "running",
                    ![g].primary = job'[g].table > LastTable]
  /\ UNCHANGED <<profile, authors, registry, bucket, caller, writer, semantic,
                 healthy>>

\* Objects are overwritten by markers one by one, without the lease guard.
EraseObject(w) ==
  /\ worker[w].step.at \in {"erase", "wipe"}
  /\ \E k \in worker[w].step.keys :
       /\ bucket[k] # "marker"
       /\ bucket' = [bucket EXCEPT ![k] = "marker"]
  /\ UNCHANGED <<profile, authors, rows, deletion, job, registry, worker,
                 caller, writer, semantic, healthy>>

AllMarked(w) == \A k \in worker[w].step.keys : bucket[k] = "marker"

\* Registered keys are recorded as erased once their markers are in place.
RecordErased(w) ==
  /\ worker[w].step.at = "erase" /\ AllMarked(w)
  /\ registry' = [k \in Key |->
       IF k \in worker[w].step.keys THEN "erased" ELSE registry[k]]
  /\ worker' = [worker EXCEPT ![w].step.at = "touch"]
  /\ UNCHANGED <<profile, authors, rows, deletion, job, bucket, caller,
                 writer, semantic, healthy>>

\* The step over registered keys ends by touching the job.
Touch(w) ==
  /\ Commits(w, "touch")
  /\ UNCHANGED <<profile, authors, rows, deletion, job, registry, bucket,
                 caller, writer, semantic, healthy>>

\* The step over listed keys moves the cursor, or ends the phase.
Scan(w) ==
  LET g == worker[w].id
      next == worker[w].step.next
  IN
  /\ Commits(w, "wipe")
  /\ AllMarked(w)
  /\ job' = [job EXCEPT ![g].cursor = next,
               ![g].phase = IF next = NoKey THEN "semantic" ELSE "archive"]
  /\ deletion' = [deletion EXCEPT ![g].archive = next = NoKey]
  /\ UNCHANGED <<profile, authors, rows, registry, bucket, caller, writer,
                 semantic, healthy>>

\* The last step: the policy still is "disabled" and both flags are set, or
\* the step is an error.
Complete(w) ==
  LET g == worker[w].id
      ok == semantic /\ deletion[g].primary /\ deletion[g].archive
  IN
  /\ worker[w].step.at = "semantic"
  /\ Lease(w)
  /\ IF ok
     THEN /\ deletion' = [deletion EXCEPT ![g].status = "completed"]
          /\ job' = [job EXCEPT ![g].status = "completed",
                       ![g].phase = "completed", ![g].owner = None,
                       ![g].live = FALSE]
          /\ Ends(w, "idle") \/ (~healthy /\ Ends(w, "fail"))
     ELSE Ends(w, "fail") /\ UNCHANGED <<deletion, job>>
  /\ UNCHANGED <<profile, authors, rows, registry, bucket, caller, writer,
                 semantic, healthy>>

-----------------------------------------------------------------------------
Weather ==
  /\ "failures" \in Trouble
  /\ healthy' = ~healthy
  /\ UNCHANGED <<profile, authors, rows, deletion, job, registry, bucket,
                 worker, caller, writer, semantic>>

\* The policy row is set to "required", or back, by an operator.
SetPolicy ==
  /\ "policy" \in Trouble
  /\ semantic' = ~semantic
  /\ UNCHANGED <<profile, authors, rows, deletion, job, registry, bucket,
                 worker, caller, writer, healthy>>

Deleting ==
  \/ Ensure \/ Propose
  \/ \E t \in Table : Write(t)
  \/ \E c \in Caller : LookUp(c) \/ NameDeletion(c) \/ CommitDeletion(c)
Archiving ==
  \E a \in Writer :
    \/ \E k \in Key : Reserve(a, k)
    \/ PutObject(a) \/ StoreObject(a) \/ EraseOwn(a)
Execution(w) ==
  \/ Claim(w) \/ Fail(w) \/ Release(w) \/ Step(w)
  \/ Redact(w) \/ ErasePage(w) \/ EraseObject(w) \/ RecordErased(w)
  \/ Touch(w) \/ Scan(w) \/ Complete(w) \/ Abort(w)
Cleaning ==
  \/ \E w \in Worker : Execution(w) \/ Yield(w)
  \/ \E g \in Version : Expire(g)

Next ==
  \/ Deleting \/ Archiving \/ Cleaning
  \/ \E w \in Worker : GiveUp(w)
  \/ \E g \in Version : Replay(g)
  \/ Weather \/ SetPolicy

Spec == Init /\ [][Next]_vars

\* Executions are triggered while work is pending, bounded calls return, a
\* lease whose owner is gone expires.
Fairness ==
  /\ \A w \in Worker : WF_vars(Execution(w))
  /\ \A g \in Version : WF_vars(Expire(g))
LiveSpec == Spec /\ Fairness

-----------------------------------------------------------------------------
\* No text, row or object of generation v is left.
Erased(v) ==
  /\ \A a \in authors : a[1] # v
  /\ \A t \in Table : \A r \in rows[t] : r[1] # v
  /\ \A o \in Object : bucket[<<v, o>>] # "content"

\* A completed deletion has erased every generation up to its floor, for
\* good: no late command, archive write or step brings anything back
\* (cleanup.ts:213, archive.ts:112-118).
ErasedForGood ==
  \A g \in Version : deletion[g].status = "completed" =>
    \A v \in 1 .. Floor(g) : Erased(v)

\* Everything before a job's checkpoint is erased, whoever held the lease
\* when it moved and however many executions died (cleanup.ts:298-319).
CheckpointIsTrue ==
  \A g \in Version : job[g].status # "absent" => \A v \in 1 .. Floor(g) :
    /\ job[g].table > 0 => \A a \in authors : a[1] # v
    /\ \A t \in Table : job[g].table > t => \A r \in rows[t] : r[1] # v
    /\ job[g].phase \in {"semantic", "completed"} => Erased(v)
    /\ \A o \in Object : job[g].phase = "archive" =>
         Before(job[g].cursor, <<v, o>>) \/ bucket[<<v, o>>] # "content"

\* Whatever lies at or below the floor and is not erased has an unfinished
\* job that covers it, so that a deletion raised twice, or raced by a new
\* profile, forgets no generation (commands.ts:393-424).
NothingForgotten ==
  \A v \in 1 .. profile.floor : Erased(v) \/
    \E g \in Version :
      /\ v <= Floor(g)
      /\ deletion[g].status \notin {"absent", "completed"}
      /\ job[g].status \notin {"absent", "completed"}

\* The deletion a user can query and the job that executes it agree on their
\* outcome, through sweeps, failures and replays (cleanup.ts:84-88, 133-138).
DeletionMirrorsJob ==
  \A g \in Version : \A s \in {"absent", "failed", "completed"} :
    deletion[g].status = s <=> job[g].status = s

\* A step never takes anything from a generation above the floor: the rows,
\* proposals and objects of a profile that has returned are left alone
\* (feed_cleanup.go:38, cleanup.ts:259).
NewerKept ==
  \A v \in Version : v > profile'.floor =>
    /\ \A a \in authors : a[1] = v => a \in authors'
    /\ \A t \in Table : \A r \in rows[t] : r[1] = v => r \in rows'[t]
    /\ \A o \in Object :
         bucket[<<v, o>>] = "content" => bucket'[<<v, o>>] = "content"

Order(phase) ==
  CASE phase = "primary" -> 0 [] phase = "archive" -> 1
    [] phase = "semantic" -> 2 [] phase = "completed" -> 3

\* A checkpoint never moves back, whichever of two executions writes it last
\* (cleanup.ts:298-319, 404-411).
CheckpointForward ==
  \A g \in Version : job[g].status # "absent" =>
    /\ Order(job'[g].phase) >= Order(job[g].phase)
    /\ job'[g].table >= job[g].table
    /\ job'[g].phase = "archive" => ~Before(job'[g].cursor, job[g].cursor)

\* Once trouble is over, a deletion ends: completed, or failed where an
\* operator sees it (feed_cleanup.go:113-175, cleanup.ts:79-88).
DeletionEnds ==
  \A g \in Version :
    <>[]healthy =>
      (deletion[g].status \in {"pending", "running"} ~>
         deletion[g].status \in {"completed", "failed"})

\* What a completed deletion covers is gone for good, no generation is
\* forgotten, no newer one is touched, and a checkpoint tells the truth and
\* never moves back.
CleanupSafe ==
  /\ [](TypeOK /\ ErasedForGood /\ CheckpointIsTrue /\ NothingForgotten
        /\ DeletionMirrorsJob)
  /\ [][NewerKept /\ CheckpointForward]_vars
=============================================================================
