---------------------------- MODULE CleanupProofs ----------------------------
(***************************************************************************)
(* Proofs about FeedCleanup, FeedServing and TaxonomyGovernance, for any   *)
(* values of the constants.  The inductive invariant Inv of the deletion   *)
(* has five parts beside the types: the generations the profile, the       *)
(* deletions and their callers are at (Generations), the keys the archive  *)
(* writes hold (Writing), the rows of a job and its deletion (Jobs), the   *)
(* truth of its checkpoint (Truths), and what the step in flight of an     *)
(* execution may still rely on while its lease lasts (Steps).  ServingInv  *)
(* relates what pages, sessions and cursors remember to the profile        *)
(* version it was ranked for; GovernanceInv relates what an attempt has    *)
(* read to the rows, and decisions to the receipts of their commands.      *)
(***************************************************************************)
EXTENDS FeedCleanup, FeedServing, TaxonomyGovernance, FiniteSetTheorems, TLAPS

DeletionRow ==
  [status : {"absent", "pending", "running", "failed", "completed"},
   floor : 0 .. MaxVersion, primary : BOOLEAN, archive : BOOLEAN]
JobRow ==
  [status : {"absent", "pending", "leased", "failed", "completed"},
   phase : {"primary", "archive", "semantic", "completed"},
   table : 0 .. LastTable + 1, cursor : Key \cup {NoKey},
   failures : 0 .. MaxFailures, owner : Worker \cup {None}, live : BOOLEAN]
StepRow ==
  [at : {"none", "redact", "page", "erase", "touch", "wipe", "semantic"},
   table : 0 .. LastTable + 1, keys : SUBSET (Row \cup Key),
   next : Key \cup {NoKey}]
WorkerRow ==
  [at : {"idle", "ready", "call", "fail", "release"}, id : 0 .. MaxVersion,
   stepped : BOOLEAN, step : StepRow]
CallerRow ==
  [at : {"start", "name", "commit", "done"}, expected : 0 .. MaxVersion,
   id : 0 .. MaxVersion]
WriterRow ==
  [at : {"start", "put", "store", "erase", "done"}, key : Key \cup {NoKey}]

\* The profile is at most one generation above its floor, and a deletion that
\* raised the floor is on record.
Floors ==
  /\ profile.version # 0 => profile.version = profile.floor + 1
  /\ profile.version = 0 => profile.floor # 0
  /\ \A g \in Version :
       /\ Floor(g) <= profile.floor
       /\ deletion[g].status # "absent" => g <= profile.floor
  /\ profile.floor # 0 => \E g \in Version :
       deletion[g].status # "absent" /\ Floor(g) = profile.floor

\* What a request has read is of the present generation or of a deleted one,
\* and the name it has given fits the generation it expects.
Requested(c) ==
  /\ c.at \in {"name", "commit"} =>
       c.expected = profile.version \/ c.expected <= profile.floor
  /\ c.at = "commit" =>
       /\ c.id # 0
       /\ c.id <= profile.floor \/ c.id = profile.version
       /\ c.expected # 0 /\ c.expected = profile.version => c.id = c.expected
Generations == Floors /\ \A c \in Caller : Requested(caller[c])

\* An archive write has registered its key, of the present generation or of a
\* deleted one; a marker is where the registry says erased.
Holds(a) ==
  /\ a.at \in {"put", "store", "erase"} =>
       /\ a.key \in Key
       /\ registry[a.key] # "absent"
       /\ a.key[1] = profile.version \/ a.key[1] <= profile.floor
  /\ a.at = "erase" => a.key[1] <= profile.floor
Writing ==
  /\ \A a \in Writer : Holds(writer[a])
  /\ \A k \in Key : registry[k] = "erased" => bucket[k] = "marker"

\* The row of a job, and what its deletion shows of it.
Sound(j) ==
  /\ j.phase = "primary" => j.table <= LastTable /\ j.cursor = NoKey
  /\ j.phase # "primary" => j.table = LastTable + 1
  /\ j.status = "completed" <=> j.phase = "completed"
  /\ j.live => j.status = "leased"
  /\ j.status # "failed" => j.failures < MaxFailures
  /\ j.status = "absent" => j = NoJob
Mirrors(g) ==
  \A s \in {"absent", "failed", "completed"} :
    deletion[g].status = s <=> job[g].status = s
Jobs == \A g \in Version : Sound(job[g]) /\ Mirrors(g)

\* The checkpoint of one job, and what of its generations is registered.
Passed(g) == job[g].cursor # NoKey \/ job[g].phase \in {"semantic", "completed"}
OldContent(g) == {k \in Key : k[1] <= Floor(g) /\ bucket[k] = "content"}
Truth(g) ==
  /\ job[g].table > 0 => OldAuthors(g) = {}
  /\ \A t \in Table : job[g].table > t => OldRows(t, g) = {}
  /\ Passed(g) => OldRegistered(g) = {}
  /\ job[g].phase \in {"semantic", "completed"} => OldContent(g) = {}
  /\ job[g].phase = "archive" =>
       \A k \in OldContent(g) : Before(job[g].cursor, k)
Truths == \A g \in Version : job[g].status # "absent" => Truth(g)

\* What a step may rely on while the lease of its execution lasts.
Relies(g, s) ==
  /\ s.at = "redact" =>
       /\ job[g].phase = "primary" /\ job[g].table = 0
       /\ Cardinality(s.keys) < Page => OldAuthors(g) \subseteq s.keys
  /\ s.at = "page" =>
       job[g].phase = "primary" /\ job[g].table = s.table /\ s.table \in Table
  /\ s.at = "wipe" =>
       /\ job[g].phase = "archive" /\ OldRegistered(g) = {}
       /\ s.next # NoKey => Before(job[g].cursor, s.next)
       /\ \A k \in OldContent(g) : Before(job[g].cursor, k) =>
            k \in s.keys \/ (s.next # NoKey /\ Before(s.next, k))
  /\ s.at = "semantic" => job[g].phase = "semantic"
Stepping(w) ==
  /\ worker[w].step.at = "none" => worker[w].step = NoStep
  /\ worker[w].at # "idle" \/ worker[w].step # NoStep => worker[w].id # 0
  /\ worker[w].step.at \in {"erase", "touch", "wipe"} =>
       worker[w].step.keys \subseteq Key
  /\ \A k \in worker[w].step.keys : k[1] <= profile.floor
  /\ worker[w].step # NoStep /\ Lease(w) =>
       Relies(worker[w].id, worker[w].step)
Steps == \A w \in Worker : Stepping(w)

Inv == TypeOK /\ Generations /\ Writing /\ Jobs /\ Truths /\ Steps
-----------------------------------------------------------------------------
(* Rows, keys and pages.                                                   *)

LEMMA Bounds ==
  /\ MaxVersion \in Nat \ {0} /\ LastTable \in Nat \ {0} /\ Page \in Nat \ {0}
  /\ MaxRows \in Nat /\ MaxFailures \in Nat \ {0} /\ MaxObjects \in Nat
  /\ Legacy \subseteq Key /\ None \notin Worker
BY CleanupAssumption

LEMMA KeyShape ==
  ASSUME NEW k \in Key
  PROVE  k[1] \in Version /\ k[2] \in Object /\ k = <<k[1], k[2]>>
BY DEF Key

LEMMA RowShape ==
  ASSUME NEW r \in Row
  PROVE  r[1] \in Version
BY DEF Row

LEMMA KeyOrder ==
  /\ \A k \in Key \cup {NoKey} : ~Before(k, k)
  /\ \A k, l \in Key \cup {NoKey} : Before(k, l) => ~Before(l, k)
  /\ \A k, l, m \in Key \cup {NoKey} :
       Before(k, l) /\ Before(l, m) => Before(k, m)
  /\ \A k, l \in Key : Before(k, l) \/ Before(l, k) \/ k = l
  /\ \A k \in Key : Before(NoKey, k) /\ k # NoKey
<1>1. \A k \in Key \cup {NoKey} : k[1] \in Nat /\ k[2] \in Nat
  BY KeyShape, Bounds DEF NoKey, Version, Object
<1>2. \A k \in Key : k[1] > 0 /\ k = <<k[1], k[2]>>
  BY KeyShape, Bounds DEF Version
<1>3. NoKey[1] = 0 /\ NoKey[2] = 0
  BY DEF NoKey
<1>. QED BY <1>1, <1>2, <1>3 DEF Before

LEMMA KeysFinite == IsFiniteSet(Key)
<1>1. IsFiniteSet(Version) /\ IsFiniteSet(Object)
  BY Bounds, FS_Interval DEF Version, Object
<1>. QED BY <1>1, FS_Product DEF Key

\* A listing starts with the keys that come first.
LEMMA FirstPageIsFirst ==
  ASSUME NEW keys \in SUBSET Key
  PROVE  /\ FirstPage(keys) \subseteq keys
         /\ \A k \in FirstPage(keys), l \in keys \ FirstPage(keys) :
              Before(k, l)
<1>1. FirstPage(keys) \subseteq keys
  BY DEF FirstPage
<1>2. ASSUME NEW k \in FirstPage(keys), NEW l \in keys \ FirstPage(keys),
             ~Before(k, l)
      PROVE  FALSE
  <2>. DEFINE Ahd(x) == {y \in keys : Before(y, x)}
  <2>1. Before(l, k)
    BY <1>1, <1>2, KeyOrder
  <2>2. Ahd(l) \subseteq Ahd(k)
    BY <1>1, <2>1, KeyOrder
  <2>3. IsFiniteSet(keys) /\ IsFiniteSet(Ahd(k)) /\ IsFiniteSet(Ahd(l))
    <3>1. Ahd(k) \subseteq keys /\ Ahd(l) \subseteq keys
      OBVIOUS
    <3>. QED BY <3>1, KeysFinite, FS_Subset
  <2>4. Cardinality(Ahd(l)) <= Cardinality(Ahd(k))
    BY <2>2, <2>3, FS_Subset
  <2>5. Cardinality(Ahd(k)) < Page /\ ~(Cardinality(Ahd(l)) < Page)
    BY DEF FirstPage
  <2>6. Cardinality(Ahd(k)) \in Nat /\ Cardinality(Ahd(l)) \in Nat
    BY <2>3, FS_CardinalityType
  <2>. QED BY <2>4, <2>5, <2>6, Bounds
<1>. QED BY <1>1, <1>2

\* A page with room to spare is everything there is.
LEMMA ShortPage ==
  ASSUME NEW set, NEW some \in PageOf(set)
  PROVE  some \subseteq set /\ (Cardinality(some) < Page => some = set)
<1>1. some \subseteq set
  BY DEF PageOf
<1>2. CASE Cardinality(set) <= Page
  BY <1>1, <1>2 DEF PageOf
<1>3. CASE ~(Cardinality(set) <= Page)
  BY <1>1, <1>3, Bounds DEF PageOf
<1>. QED BY <1>2, <1>3
-----------------------------------------------------------------------------
(* What a step does, part by part.                                         *)

\* The parts of TypeOK, by the names of their records.
LEMMA Types ==
  TypeOK <=>
    /\ profile \in [version : 0 .. MaxVersion, floor : 0 .. MaxVersion]
    /\ authors \subseteq Row
    /\ rows \in [Table -> SUBSET Row]
    /\ deletion \in [Version -> DeletionRow]
    /\ job \in [Version -> JobRow]
    /\ registry \in [Key -> {"absent", "reserved", "stored", "erased"}]
    /\ bucket \in [Key -> {"none", "content", "marker"}]
    /\ worker \in [Worker -> WorkerRow]
    /\ caller \in [Caller -> CallerRow]
    /\ writer \in [Writer -> WriterRow]
    /\ semantic \in BOOLEAN
    /\ healthy \in BOOLEAN
BY DEF TypeOK, DeletionRow, JobRow, WorkerRow, StepRow, CallerRow, WriterRow

\* Only what lies at or below the floor is taken away, only what lies above it
\* is added; content comes to registered keys alone.
Known == {"reserved", "stored"}
DataStep ==
  /\ profile'.floor >= profile.floor
  /\ \A a \in Row :
       /\ a \in authors' \ authors => a[1] > profile.floor
       /\ a \in authors \ authors' => a[1] <= profile.floor
  /\ \A t \in Table : \A r \in Row :
       /\ r \in rows'[t] \ rows[t] => r[1] > profile.floor
       /\ r \in rows[t] \ rows'[t] => r[1] <= profile.floor
  /\ \A k \in Key :
       /\ registry'[k] \in Known =>
            registry[k] \in Known \/ k[1] > profile.floor
       /\ bucket'[k] = "content" =>
            bucket[k] = "content" \/ registry[k] \in Known
       /\ bucket[k] = "content" /\ bucket'[k] # "content" =>
            k[1] <= profile.floor

\* What a step does to one job and its deletion: nothing, or it is created, or
\* it changes hands, or the step of its lease holder moves its checkpoint.
SameFloor(g) == deletion'[g].floor = deletion[g].floor
SameCheckpoint(g) ==
  /\ job'[g].phase = job[g].phase
  /\ job'[g].table = job[g].table
  /\ job'[g].cursor = job[g].cursor
Left(g) ==
  job'[g] = job[g] /\ deletion'[g].status = deletion[g].status /\ SameFloor(g)
Created(g) ==
  /\ job[g].status = "absent" /\ deletion'[g].status = "pending"
  /\ job'[g] = [NoJob EXCEPT !.status = "pending"]
Managed(g) ==
  /\ job[g].status \notin {"absent", "completed"}
  /\ job'[g].status \notin {"absent", "completed"}
  /\ SameCheckpoint(g) /\ SameFloor(g)
  /\ Sound(job'[g]) /\ Mirrors(g)'
  /\ job'[g].live =>
       \/ job[g].live /\ job'[g].owner = job[g].owner
       \/ worker[job'[g].owner].step = NoStep
Forward(g) ==
  /\ Order(job'[g].phase) >= Order(job[g].phase)
  /\ job'[g].table >= job[g].table
  /\ job'[g].phase = "archive" => ~Before(job'[g].cursor, job[g].cursor)
Moved(g) ==
  /\ job[g].status = "leased"
  /\ job'[g].status # "absent" /\ SameFloor(g)
  /\ Sound(job'[g]) /\ Mirrors(g)' /\ Truth(g)' /\ Forward(g)
  /\ job'[g].live => job'[g].owner = job[g].owner
  /\ worker[job[g].owner].step # NoStep
  /\ worker'[job[g].owner].step = NoStep
JobStep ==
  \A g \in Version : Left(g) \/ Created(g) \/ Managed(g) \/ Moved(g)

\* What a step does to one execution: its step stays, ends, goes on to the
\* touch, or is planned.
Named(w) ==
  worker[w].at # "idle" \/ worker[w].step # NoStep => worker[w].id # 0
Still(w) ==
  /\ worker'[w].step = worker[w].step
  /\ worker[w].step = NoStep \/ worker'[w].id = worker[w].id
Ended(w) == worker'[w].step = NoStep
Touching(w) ==
  /\ worker[w].step.at = "erase"
  /\ worker'[w].step = [worker[w].step EXCEPT !.at = "touch"]
Planned(w) ==
  /\ worker'[w].step \in Plan(worker[w].id) /\ Lease(w)
  /\ worker[w].id # 0 /\ worker'[w].id = worker[w].id
  /\ UNCHANGED <<profile, authors, rows, deletion, job, registry, bucket>>
WorkerStep ==
  \A w \in Worker :
    Named(w)' /\ (Still(w) \/ Ended(w) \/ Touching(w) \/ Planned(w))

Effects == DataStep /\ JobStep /\ WorkerStep /\ Generations' /\ Writing'

LEMMA DataSame ==
  ASSUME TypeOK, UNCHANGED <<profile, authors, rows, registry, bucket>>
  PROVE  DataStep
BY Bounds DEF TypeOK, DataStep

LEMMA JobsSame ==
  ASSUME UNCHANGED <<deletion, job>>
  PROVE  JobStep
BY DEF JobStep, Left, SameFloor

LEMMA WorkersSame ==
  ASSUME Steps, UNCHANGED worker
  PROVE  WorkerStep
BY DEF WorkerStep, Still, Steps, Stepping, Named

LEMMA GenerationsSame ==
  ASSUME Generations, UNCHANGED <<profile, caller>>,
         \A g \in Version :
           /\ deletion'[g].floor = deletion[g].floor
           /\ deletion'[g].status = "absent" <=> deletion[g].status = "absent"
  PROVE  Generations'
BY DEF Generations, Floors, Requested, Floor

LEMMA WritingSame ==
  ASSUME Writing, UNCHANGED <<profile, registry, bucket, writer>>
  PROVE  Writing'
BY DEF Writing, Holds

\* Steps that only move executions.
LEMMA OnlyWorkers ==
  ASSUME Inv, WorkerStep,
         UNCHANGED <<profile, authors, rows, deletion, job, registry, bucket,
                     caller, writer>>
  PROVE  Effects
BY DataSame, JobsSame, GenerationsSame, WritingSame DEF Inv, Effects
-----------------------------------------------------------------------------
(* The profile, its rows and its deletion.                                 *)

LEMMA EnsureEffects ==
  ASSUME Inv, Ensure
  PROVE  TypeOK' /\ Effects
<1>. USE DEF Inv
<1>1. /\ profile.version = 0 /\ profile.floor \in 1 .. MaxVersion
      /\ profile'.version = profile.floor + 1 /\ profile'.floor = profile.floor
      /\ profile' \in [version : 0 .. MaxVersion, floor : 0 .. MaxVersion]
  BY Bounds, Types DEF Ensure, Generations, Floors
<1>2. TypeOK'
  BY <1>1 DEF Ensure, TypeOK
<1>3. DataStep
  BY <1>1 DEF Ensure, DataStep
<1>4. Floors'
  BY <1>1 DEF Ensure, Generations, Floors, Floor
<1>5. \A c \in Caller : Requested(caller[c])'
  <2>1. \A c \in Caller :
          /\ caller[c].expected \in Nat /\ caller[c].id \in Nat
          /\ Requested(caller[c])
    BY Types, Bounds DEF Generations, CallerRow
  <2>. QED BY <1>1, <2>1 DEF Requested, Ensure
<1>6. Writing'
  <2>1. \A a \in Writer :
          writer[a].key \in Key => writer[a].key[1] \in Nat \ {0}
    BY KeyShape, Bounds DEF Version
  <2>. QED BY <1>1, <2>1 DEF Ensure, Writing, Holds
<1>7. JobStep /\ WorkerStep
  BY JobsSame, WorkersSame DEF Ensure
<1>. QED BY <1>2, <1>3, <1>4, <1>5, <1>6, <1>7 DEF Effects, Generations

LEMMA WriteEffects ==
  ASSUME Inv, NEW t \in Table, Write(t)
  PROVE  TypeOK' /\ Effects
<1>. USE DEF Inv
<1>1. PICK n \in 1 .. MaxRows :
        /\ <<profile.version, n>> \in Row
        /\ rows' = [rows EXCEPT ![t] = @ \cup {<<profile.version, n>>}]
  BY DEF Write
<1>2. profile.version > profile.floor /\ profile.floor \in Nat
  BY <1>1, RowShape, Types, Bounds DEF Generations, Floors, Version
<1>3. TypeOK'
  BY <1>1 DEF Write, TypeOK
<1>4. DataStep
  <2>1. \A u \in Table : \A r \in Row :
          /\ r \in rows'[u] \ rows[u] => r = <<profile.version, n>>
          /\ r \notin rows[u] \ rows'[u]
    BY <1>1, Types
  <2>. QED BY <1>2, <2>1 DEF Write, DataStep
<1>5. JobStep /\ WorkerStep /\ Generations' /\ Writing'
  BY JobsSame, WorkersSame, GenerationsSame, WritingSame DEF Write
<1>. QED BY <1>3, <1>4, <1>5 DEF Effects

LEMMA ProposeEffects ==
  ASSUME Inv, Propose
  PROVE  TypeOK' /\ Effects
<1>. USE DEF Inv
<1>1. PICK n \in 1 .. MaxRows :
        /\ <<profile.version, n>> \in Row
        /\ authors' = authors \cup {<<profile.version, n>>}
  BY DEF Propose
<1>2. profile.version > profile.floor /\ profile.floor \in Nat
  BY <1>1, RowShape, Types, Bounds DEF Generations, Floors, Version
<1>3. TypeOK'
  BY <1>1 DEF Propose, TypeOK
<1>4. DataStep
  BY <1>1, <1>2 DEF Propose, DataStep
<1>5. JobStep /\ WorkerStep /\ Generations' /\ Writing'
  BY JobsSame, WorkersSame, GenerationsSame, WritingSame DEF Propose
<1>. QED BY <1>3, <1>4, <1>5 DEF Effects

LEMMA LookUpEffects ==
  ASSUME Inv, NEW c \in Caller, LookUp(c)
  PROVE  TypeOK' /\ Effects
<1>. USE DEF Inv
<1>1. TypeOK'
  <2>1. caller' \in [Caller -> CallerRow]
    BY Types, Bounds DEF LookUp, CallerRow
  <2>. QED BY <2>1 DEF LookUp, TypeOK, CallerRow
<1>2. /\ caller'[c] = [at |-> "name", expected |-> profile.version, id |-> 0]
      /\ \A d \in Caller \ {c} : caller'[d] = caller[d]
  BY Types DEF LookUp
<1>3. Generations'
  BY <1>2 DEF LookUp, Generations, Floors, Requested, Floor
<1>4. DataStep /\ JobStep /\ WorkerStep /\ Writing'
  BY DataSame, JobsSame, WorkersSame, WritingSame DEF LookUp
<1>. QED BY <1>1, <1>3, <1>4 DEF Effects

LEMMA NameDeletionEffects ==
  ASSUME Inv, NEW c \in Caller, NameDeletion(c)
  PROVE  TypeOK' /\ Effects
<1>. USE DEF Inv
<1>1. /\ Generation \in Version
      /\ Generation <= profile.floor \/ Generation = profile.version
      /\ profile.version # 0 => Generation = profile.version
  BY Types, Bounds DEF Generation, Generations, Floors, Version
<1>2. /\ caller[c].at = "name"
      /\ caller'[c] = [caller[c] EXCEPT !.at = "commit", !.id = Generation]
      /\ \A d \in Caller \ {c} : caller'[d] = caller[d]
  BY Types DEF NameDeletion
<1>3. TypeOK'
  <2>1. caller' \in [Caller -> CallerRow]
    <3>1. caller[c] \in CallerRow /\ Generation \in 0 .. MaxVersion
      BY <1>1, Types, Bounds DEF Version
    <3>2. [caller[c] EXCEPT !.at = "commit", !.id = Generation] \in CallerRow
      BY <3>1 DEF CallerRow
    <3>3. caller' = [caller EXCEPT ![c] =
            [caller[c] EXCEPT !.at = "commit", !.id = Generation]]
      BY DEF NameDeletion
    <3>. QED BY <3>2, <3>3, Types
  <2>. QED BY <2>1 DEF NameDeletion, TypeOK, CallerRow
<1>4. \A d \in Caller : Requested(caller[d])'
  <2>1. Requested(caller[c])'
    <3>1. /\ caller'[c].at = "commit" /\ caller'[c].id = Generation
          /\ caller'[c].expected = caller[c].expected
      BY <1>2, Types
    <3>. QED BY <1>1, <1>2, <3>1, Bounds
           DEF NameDeletion, Generations, Requested, Version
  <2>2. \A d \in Caller \ {c} : Requested(caller[d])'
    <3>1. UNCHANGED profile
      BY DEF NameDeletion
    <3>2. \A d \in Caller : Requested(caller[d])
      BY DEF Generations
    <3>. QED BY <1>2, <3>1, <3>2 DEF Requested
  <2>. QED BY <2>1, <2>2
<1>5. Floors'
  BY DEF NameDeletion, Generations, Floors, Floor
<1>6. DataStep /\ JobStep /\ WorkerStep /\ Writing'
  BY DataSame, JobsSame, WorkersSame, WritingSame DEF NameDeletion
<1>. QED BY <1>3, <1>4, <1>5, <1>6 DEF Effects, Generations

\* The rows of a new deletion.
LEMMA NewRows ==
  /\ \A n \in 0 .. MaxVersion :
       LET row == [NoDeletion EXCEPT !.status = "pending", !.floor = n]
       IN row \in DeletionRow /\ row.status = "pending" /\ row.floor = n
  /\ LET row == [NoJob EXCEPT !.status = "pending"]
     IN /\ row \in JobRow
        /\ row.status = "pending" /\ row.phase = "primary" /\ row.table = 0
        /\ row.cursor = NoKey /\ row.failures = 0 /\ row.live = FALSE
<1>1. NoDeletion \in DeletionRow /\ NoJob \in JobRow
  BY Bounds DEF NoDeletion, DeletionRow, NoJob, JobRow
<1>2. ASSUME NEW n \in 0 .. MaxVersion
      PROVE  LET row == [NoDeletion EXCEPT !.status = "pending", !.floor = n]
             IN row \in DeletionRow /\ row.status = "pending" /\ row.floor = n
  BY <1>1 DEF DeletionRow
<1>3. LET row == [NoJob EXCEPT !.status = "pending"]
      IN /\ row \in JobRow
         /\ row.status = "pending" /\ row.phase = "primary" /\ row.table = 0
         /\ row.cursor = NoKey /\ row.failures = 0 /\ row.live = FALSE
  BY <1>1 DEF JobRow, NoJob
<1>. QED BY <1>2, <1>3

LEMMA CommitDeletionEffects ==
  ASSUME Inv, NEW c \in Caller, CommitDeletion(c)
  PROVE  TypeOK' /\ Effects
<1>. USE DEF Inv
<1>. DEFINE g == caller[c].id
<1>1. /\ caller[c].at = "commit" /\ caller[c] \in CallerRow
      /\ caller'[c] = [caller[c] EXCEPT !.at = "done"]
      /\ \A d \in Caller \ {c} : caller'[d] = caller[d]
      /\ caller' \in [Caller -> CallerRow]
  BY Types DEF CommitDeletion, CallerRow
<1>2. /\ g \in Version
      /\ g <= profile.floor \/ g = profile.version
      /\ caller[c].expected # 0 /\ caller[c].expected = profile.version =>
           g = profile.version
  BY <1>1, Bounds DEF Generations, Requested, CallerRow, Version
<1>3. caller'[c].at = "done"
  BY <1>1 DEF CallerRow
<1>4. WorkerStep
  BY WorkersSame DEF CommitDeletion
<1>5. CASE UNCHANGED <<profile, deletion, job>>
  <2>1. TypeOK'
    BY <1>1, <1>5 DEF CommitDeletion, TypeOK, CallerRow
  <2>2. Generations'
    <3>1. \A d \in Caller : Requested(caller[d])'
      <4>1. Requested(caller[c])'
        BY <1>3 DEF Requested
      <4>2. \A d \in Caller : Requested(caller[d])
        BY DEF Generations
      <4>3. \A d \in Caller \ {c} : Requested(caller[d])'
        BY <1>1, <1>5, <4>2 DEF Requested
      <4>. QED BY <4>1, <4>3
    <3>2. Floors'
      BY <1>5 DEF Generations, Floors, Floor
    <3>. QED BY <3>1, <3>2 DEF Generations
  <2>3. DataStep /\ JobStep /\ Writing'
    BY <1>5, DataSame, JobsSame, WritingSame DEF CommitDeletion
  <2>. QED BY <1>4, <2>1, <2>2, <2>3 DEF Effects
<1>6. CASE profile.version = caller[c].expected /\ DeleteProfile(c)
  <2>. DEFINE raised == IF profile.version # 0 THEN profile.version
                        ELSE profile.floor
  <2>1. /\ raised \in 1 .. MaxVersion /\ raised >= profile.floor
        /\ profile' = [version |-> 0, floor |-> raised]
        /\ profile.version # 0 => raised = profile.floor + 1
        /\ profile.floor \in Nat /\ profile.version \in Nat
    BY <1>6, Types, Bounds DEF DeleteProfile, Generations, Floors
  <2>2. /\ profile'.version = 0 /\ profile'.floor = raised
        /\ profile' \in [version : 0 .. MaxVersion, floor : 0 .. MaxVersion]
    BY <2>1, Bounds
  <2>3. deletion[g].status = "absent" <=> job[g].status = "absent"
    BY <1>2 DEF Jobs, Mirrors
  <2>. DEFINE Rows == /\ deletion' \in [Version -> DeletionRow]
                      /\ job' \in [Version -> JobRow]
                      /\ JobStep /\ Floors'
  <2>4. ASSUME deletion[g].status # "absent" PROVE Rows
    <3>1. UNCHANGED <<deletion, job>>
      BY <1>6, <2>3, <2>4 DEF DeleteProfile
    <3>2. profile.version = 0
      BY <1>2, <1>6, <2>1, <2>4 DEF Generations, Floors, Version
    <3>3. Floors'
      BY <2>1, <2>2, <3>1, <3>2 DEF Generations, Floors, Floor
    <3>. QED BY <3>1, <3>3, JobsSame, Types
  <2>5. ASSUME deletion[g].status = "absent" PROVE Rows
    <3>1. /\ deletion' = [deletion EXCEPT ![g] =
               [NoDeletion EXCEPT !.status = "pending", !.floor = raised]]
          /\ job' = [job EXCEPT ![g] = [NoJob EXCEPT !.status = "pending"]]
      <4>1. profile'.floor = raised
        BY <2>2
      <4>. QED BY <1>6, <2>3, <2>5, <4>1 DEF DeleteProfile
    <3>2. /\ deletion'[g].status = "pending" /\ deletion'[g].floor = raised
          /\ \A h \in Version \ {g} : deletion'[h] = deletion[h]
          /\ deletion' \in [Version -> DeletionRow]
      <4>. DEFINE row ==
             [NoDeletion EXCEPT !.status = "pending", !.floor = raised]
      <4>1. row \in DeletionRow /\ row.status = "pending" /\ row.floor = raised
        <5>1. raised \in 0 .. MaxVersion
          BY <2>1, Bounds
        <5>. QED BY <5>1, NewRows
      <4>2. deletion' = [deletion EXCEPT ![g] = row]
        BY <3>1
      <4>. HIDE DEF row
      <4>. QED BY <1>2, <4>1, <4>2, Types
    <3>3. /\ job'[g] = [NoJob EXCEPT !.status = "pending"]
          /\ \A h \in Version \ {g} : job'[h] = job[h]
          /\ job' \in [Version -> JobRow]
      BY <1>2, <2>1, <3>1, NewRows, Types
    <3>4. JobStep
      BY <2>3, <2>5, <3>2, <3>3 DEF JobStep, Left, Created, SameFloor
    <3>5. Floors'
      <4>1. g <= raised
        BY <1>2, <2>1 DEF Version
      <4>2. \A h \in Version \ {g} :
              /\ deletion'[h].floor <= raised
              /\ deletion'[h].status # "absent" => h <= raised
        BY <2>1, <3>2, Types
           DEF Generations, Floors, Floor, DeletionRow, Version
      <4>. QED BY <1>2, <2>1, <2>2, <3>2, <4>1, <4>2 DEF Floors, Floor
    <3>. QED BY <3>2, <3>3, <3>4, <3>5
  <2>6. Rows
    BY <2>4, <2>5
  <2>7. TypeOK'
    BY <1>1, <2>2, <2>6, Types DEF CommitDeletion, TypeOK, CallerRow,
      DeletionRow, JobRow
  <2>8. \A d \in Caller : Requested(caller[d])'
    <3>1. \A d \in Caller :
            caller[d].expected \in Nat /\ caller[d].id \in Nat
      BY Types, Bounds DEF CallerRow
    <3>2. \A d \in Caller \ {c} : Requested(caller[d])'
      BY <1>1, <2>1, <2>2, <3>1 DEF Generations, Floors, Requested
    <3>. QED BY <1>3, <3>2 DEF Requested
  <2>9. Writing'
    <3>1. \A a \in Writer : writer[a].key \in Key => writer[a].key[1] \in Nat
      BY KeyShape, Bounds DEF Version
    <3>2. UNCHANGED <<registry, bucket, writer>>
      BY DEF CommitDeletion
    <3>3. \A a \in Writer : Holds(writer[a])'
      BY <2>1, <2>2, <3>1, <3>2 DEF Writing, Holds
    <3>. QED BY <3>2, <3>3 DEF Writing
  <2>10. DataStep
    BY <2>1, <2>2 DEF CommitDeletion, DataStep
  <2>. QED BY <1>4, <2>6, <2>7, <2>8, <2>9, <2>10 DEF Effects, Generations
<1>. QED BY <1>5, <1>6 DEF CommitDeletion
-----------------------------------------------------------------------------
(* The archive.                                                            *)

LEMMA WriterGoes ==
  ASSUME TypeOK, NEW a \in Writer,
         NEW place \in {"start", "put", "store", "erase", "done"},
         GoWriter(a, place)
  PROVE  /\ writer' \in [Writer -> WriterRow]
         /\ writer'[a].at = place /\ writer'[a].key = writer[a].key
         /\ \A b \in Writer \ {a} : writer'[b] = writer[b]
<1>1. writer \in [Writer -> WriterRow]
  BY Types
<1>2. [writer[a] EXCEPT !.at = place] \in WriterRow
  BY <1>1 DEF WriterRow
<1>3. writer' = [writer EXCEPT ![a] = [writer[a] EXCEPT !.at = place]]
  BY DEF GoWriter
<1>4. /\ writer'[a] = [writer[a] EXCEPT !.at = place]
      /\ \A b \in Writer \ {a} : writer'[b] = writer[b]
  BY <1>1, <1>3
<1>. QED BY <1>1, <1>2, <1>3, <1>4 DEF WriterRow

\* Steps of the archive that leave the profile and the jobs alone.
LEMMA ArchiveEffects ==
  ASSUME Inv, TypeOK', DataStep, Writing',
         UNCHANGED <<profile, deletion, job, worker, caller>>
  PROVE  Effects
BY JobsSame, WorkersSame, GenerationsSame DEF Inv, Effects

LEMMA ReserveEffects ==
  ASSUME Inv, NEW a \in Writer, NEW k \in Key, Reserve(a, k)
  PROVE  TypeOK' /\ Effects
<1>. USE DEF Inv
<1>1. /\ registry' \in [Key -> {"absent", "reserved", "stored", "erased"}]
      /\ registry'[k] \in Known
      /\ \A l \in Key \ {k} : registry'[l] = registry[l]
  BY Types DEF Reserve, Known
<1>2. /\ writer' \in [Writer -> WriterRow]
      /\ writer'[a] = [at |-> "put", key |-> k]
      /\ \A b \in Writer \ {a} : writer'[b] = writer[b]
  BY Types DEF Reserve, WriterRow
<1>3. k[1] > profile.floor /\ profile.version = k[1]
  BY DEF Reserve, GenerationLive
<1>4. TypeOK'
  BY <1>1, <1>2 DEF Reserve, TypeOK, WriterRow
<1>5. DataStep
  BY <1>1, <1>3, Types, Bounds DEF Reserve, DataStep
<1>6. Writing'
  <2>1. Holds(writer[a])'
    BY <1>1, <1>2, <1>3 DEF Reserve, Holds, Known
  <2>2. \A b \in Writer \ {a} : Holds(writer[b])'
    BY <1>1, <1>2 DEF Reserve, Writing, Holds, Known
  <2>3. \A l \in Key : registry'[l] = "erased" => bucket'[l] = "marker"
    BY <1>1 DEF Reserve, Writing, Known
  <2>. QED BY <2>1, <2>2, <2>3 DEF Writing
<1>. QED BY <1>4, <1>5, <1>6, ArchiveEffects DEF Reserve

LEMMA PutObjectEffects ==
  ASSUME Inv, NEW a \in Writer, PutObject(a)
  PROVE  TypeOK' /\ Effects
<1>. USE DEF Inv
<1>. DEFINE k == writer[a].key
<1>1. PICK place \in {"store", "done"} : GoWriter(a, place)
  BY DEF PutObject
<1>2. /\ writer' \in [Writer -> WriterRow]
      /\ writer'[a].at = place /\ writer'[a].key = k
      /\ \A b \in Writer \ {a} : writer'[b] = writer[b]
  BY <1>1, WriterGoes
<1>3. k \in Key /\ registry[k] # "absent" /\ writer[a].at = "put"
  BY DEF PutObject, Writing, Holds
<1>4. /\ bucket' \in [Key -> {"none", "content", "marker"}]
      /\ bucket'[k] = IF bucket[k] = "none" THEN "content" ELSE bucket[k]
      /\ \A l \in Key \ {k} : bucket'[l] = bucket[l]
  BY <1>3, Types DEF PutObject
<1>5. bucket[k] = "none" => registry[k] \in Known
  BY <1>3, Types DEF Writing, Known
<1>6. TypeOK'
  BY <1>2, <1>4 DEF PutObject, TypeOK, WriterRow
<1>7. DataStep
  BY <1>3, <1>4, <1>5, Types, Bounds DEF PutObject, DataStep
<1>8. Writing'
  BY <1>2, <1>3, <1>4 DEF PutObject, Writing, Holds
<1>. QED BY <1>6, <1>7, <1>8, ArchiveEffects DEF PutObject

LEMMA StoreObjectEffects ==
  ASSUME Inv, NEW a \in Writer, StoreObject(a)
  PROVE  TypeOK' /\ Effects
<1>. USE DEF Inv
<1>. DEFINE k == writer[a].key
<1>1. k \in Key /\ registry[k] # "absent" /\ writer[a].at = "store"
      /\ (k[1] = profile.version \/ k[1] <= profile.floor)
      /\ k[1] \in Nat /\ profile.floor \in Nat
  BY KeyShape, Types, Bounds DEF StoreObject, Writing, Holds, Version
<1>2. PICK place \in {"erase", "done"} :
        /\ GoWriter(a, place)
        /\ place = "erase" => k[1] <= profile.floor
  BY <1>1 DEF StoreObject, GenerationLive
<1>3. /\ writer' \in [Writer -> WriterRow]
      /\ writer'[a].at = place /\ writer'[a].key = k
      /\ \A b \in Writer \ {a} : writer'[b] = writer[b]
  BY <1>2, WriterGoes
<1>4. \/ UNCHANGED registry
      \/ /\ k[1] > profile.floor /\ registry[k] # "erased"
         /\ registry' = [registry EXCEPT ![k] = "stored"]
  BY <1>1 DEF StoreObject, GenerationLive
<1>5. /\ registry' \in [Key -> {"absent", "reserved", "stored", "erased"}]
      /\ \A l \in Key : registry'[l] # registry[l] =>
           l = k /\ registry'[l] = "stored" /\ k[1] > profile.floor
  BY <1>1, <1>4, Types
<1>6. TypeOK'
  BY <1>3, <1>5 DEF StoreObject, TypeOK, WriterRow
<1>7. DataStep
  BY <1>1, <1>5, Types, Bounds DEF StoreObject, DataStep
<1>8. Writing'
  <2>1. \A b \in Writer \ {a} : Holds(writer[b])'
    BY <1>3, <1>5 DEF StoreObject, Writing, Holds
  <2>2. Holds(writer[a])'
    BY <1>1, <1>2, <1>3, <1>5 DEF StoreObject, Writing, Holds
  <2>3. \A l \in Key : registry'[l] = "erased" => bucket'[l] = "marker"
    BY <1>5 DEF StoreObject, Writing
  <2>. QED BY <2>1, <2>2, <2>3 DEF Writing
<1>. QED BY <1>6, <1>7, <1>8, ArchiveEffects DEF StoreObject

LEMMA EraseOwnEffects ==
  ASSUME Inv, NEW a \in Writer, EraseOwn(a)
  PROVE  TypeOK' /\ Effects
<1>. USE DEF Inv
<1>. DEFINE k == writer[a].key
<1>1. k \in Key /\ k[1] <= profile.floor
  BY DEF EraseOwn, Writing, Holds
<1>2. /\ writer' \in [Writer -> WriterRow]
      /\ writer'[a].at = "done"
      /\ \A b \in Writer \ {a} : writer'[b] = writer[b]
  BY WriterGoes DEF EraseOwn
<1>3. /\ bucket' \in [Key -> {"none", "content", "marker"}]
      /\ bucket'[k] \in {"marker", bucket[k]}
      /\ \A l \in Key \ {k} : bucket'[l] = bucket[l]
  BY <1>1, Types DEF EraseOwn
<1>4. TypeOK'
  BY <1>2, <1>3 DEF EraseOwn, TypeOK, WriterRow
<1>5. DataStep
  BY <1>1, <1>3, Types, Bounds DEF EraseOwn, DataStep
<1>6. Writing'
  BY <1>2, <1>3 DEF EraseOwn, Writing, Holds
<1>. QED BY <1>4, <1>5, <1>6, ArchiveEffects DEF EraseOwn
-----------------------------------------------------------------------------
(* Claims, leases and the failure budget.                                  *)

SameRow(j, k) == k.phase = j.phase /\ k.table = j.table /\ k.cursor = j.cursor

LEMMA SpendRow ==
  ASSUME NEW j \in JobRow, Sound(j), j.status = "leased"
  PROVE  /\ Spend(j) \in JobRow /\ Sound(Spend(j)) /\ SameRow(j, Spend(j))
         /\ Spend(j).status \in {"pending", "failed"} /\ ~Spend(j).live
<1>1. j.failures + 1 \in 0 .. MaxFailures
  BY Bounds DEF Sound, JobRow
<1>2. /\ Spend(j) \in JobRow /\ SameRow(j, Spend(j)) /\ ~Spend(j).live
      /\ Spend(j).failures = j.failures + 1
      /\ Spend(j).status = IF j.failures + 1 >= MaxFailures
                           THEN "failed" ELSE "pending"
  BY <1>1 DEF Spend, JobRow, SameRow
<1>. QED BY <1>1, <1>2, Bounds DEF Sound, SameRow

LEMMA FreeRow ==
  ASSUME NEW j \in JobRow, Sound(j), j.status = "leased"
  PROVE  /\ Free(j) \in JobRow /\ Sound(Free(j)) /\ SameRow(j, Free(j))
         /\ Free(j).status = "pending" /\ ~Free(j).live
<1>1. /\ Free(j) \in JobRow /\ SameRow(j, Free(j)) /\ ~Free(j).live
      /\ Free(j).failures = j.failures /\ Free(j).status = "pending"
  BY DEF Free, JobRow, SameRow
<1>. QED BY <1>1 DEF Sound, SameRow

LEMMA TakeRow ==
  ASSUME NEW j \in JobRow, Sound(j), j.status = "pending", NEW w \in Worker
  PROVE  /\ Take(j, w) \in JobRow /\ Sound(Take(j, w))
         /\ SameRow(j, Take(j, w))
         /\ Take(j, w).status = "leased" /\ Take(j, w).owner = w
<1>1. /\ Take(j, w) \in JobRow /\ SameRow(j, Take(j, w))
      /\ Take(j, w).failures = j.failures /\ Take(j, w).status = "leased"
      /\ Take(j, w).owner = w
  BY DEF Take, JobRow, SameRow
<1>. QED BY <1>1 DEF Sound, SameRow

LEMMA ReplayRow ==
  ASSUME NEW j \in JobRow, Sound(j), j.status = "failed"
  PROVE  LET row == [Free(j) EXCEPT !.failures = 0]
         IN /\ row \in JobRow /\ Sound(row) /\ SameRow(j, row)
            /\ row.status = "pending" /\ ~row.live
<1>. DEFINE row == [Free(j) EXCEPT !.failures = 0]
<1>1. /\ Free(j) \in JobRow /\ SameRow(j, Free(j)) /\ ~Free(j).live
      /\ Free(j).status = "pending"
  BY DEF Free, JobRow, SameRow
<1>2. /\ row \in JobRow /\ row.failures = 0 /\ row.status = Free(j).status
      /\ SameRow(Free(j), row) /\ row.live = Free(j).live
  BY <1>1, Bounds DEF JobRow, SameRow
<1>. HIDE DEF row
<1>3. Sound(row)
  BY <1>1, <1>2, Bounds DEF Sound, SameRow
<1>4. SameRow(j, row) /\ row.status = "pending" /\ ~row.live
  BY <1>1, <1>2 DEF SameRow
<1>5. row \in JobRow /\ Sound(row) /\ SameRow(j, row) /\ row.status = "pending"
      /\ ~row.live
  BY <1>2, <1>3, <1>4
<1>. QED BY <1>5 DEF row

LEMMA WorkerGoes ==
  ASSUME TypeOK, Steps, NEW w \in Worker, worker[w].at # "idle",
         NEW place \in {"idle", "ready", "call", "fail", "release"},
         Go(w, place)
  PROVE  worker' \in [Worker -> WorkerRow] /\ WorkerStep
<1>1. worker \in [Worker -> WorkerRow]
  BY Types
<1>2. /\ [worker[w] EXCEPT !.at = place] \in WorkerRow
      /\ [worker[w] EXCEPT !.at = place].step = worker[w].step
      /\ [worker[w] EXCEPT !.at = place].id = worker[w].id
  BY <1>1 DEF WorkerRow
<1>3. worker' = [worker EXCEPT ![w] = [worker[w] EXCEPT !.at = place]]
  BY DEF Go
<1>4. /\ worker'[w].step = worker[w].step /\ worker'[w].id = worker[w].id
      /\ \A x \in Worker \ {w} : worker'[x] = worker[x]
  BY <1>1, <1>2, <1>3
<1>5. worker[w].id # 0
  BY DEF Steps, Stepping
<1>6. WorkerStep
  BY <1>4, <1>5 DEF WorkerStep, Steps, Stepping, Still, Named
<1>. QED BY <1>1, <1>2, <1>3, <1>6

\* Steps of an execution change the jobs that exist.
JobMoves == \A g \in Version : Left(g) \/ Managed(g) \/ Moved(g)

LEMMA JobEffects ==
  ASSUME Inv, DataStep, JobMoves, WorkerStep,
         UNCHANGED <<profile, registry, bucket, caller, writer>>
  PROVE  Effects
<1>1. \A g \in Version :
        /\ deletion'[g].floor = deletion[g].floor
        /\ deletion'[g].status = "absent" <=> deletion[g].status = "absent"
  BY DEF Inv, Jobs, JobMoves, Left, Managed, Moved, SameFloor, Mirrors
<1>2. JobStep
  BY DEF JobMoves, JobStep
<1>. QED BY <1>1, <1>2, GenerationsSame, WritingSame DEF Inv, Effects

LEMMA ClaimEffects ==
  ASSUME Inv, NEW w \in Worker, Claim(w)
  PROVE  TypeOK' /\ Effects
<1>. USE DEF Inv
<1>1. /\ job \in [Version -> JobRow] /\ deletion \in [Version -> DeletionRow]
      /\ worker \in [Worker -> WorkerRow]
      /\ worker[w].step = NoStep
  BY Types DEF Claim
<1>2. \A h \in Version : Sound(job[h]) /\ Mirrors(h)
  BY DEF Jobs
<1>3. \A h \in Expired :
        /\ h \in Version /\ job[h].status = "leased"
        /\ Swept[h] \in JobRow /\ Sound(Swept[h]) /\ SameRow(job[h], Swept[h])
        /\ Swept[h].status \in {"pending", "failed"} /\ ~Swept[h].live
  BY <1>1, <1>2, SpendRow DEF Expired, Swept
<1>4. \A h \in Version \ Expired : Swept[h] = job[h]
  BY DEF Swept
<1>5. \A h \in Version : Swept[h] \in JobRow /\ Sound(Swept[h])
  BY <1>1, <1>2, <1>3, <1>4
<1>6. /\ deletion' \in [Version -> DeletionRow]
      /\ \A h \in Version :
           /\ deletion'[h].floor = deletion[h].floor
           /\ deletion'[h].status =
                IF h \in Expired /\ Swept[h].status = "failed"
                THEN "failed" ELSE deletion[h].status
  <2>1. \A h \in Version :
          LET row == [deletion[h] EXCEPT !.status = "failed"]
          IN row \in DeletionRow /\ row.floor = deletion[h].floor
             /\ row.status = "failed"
    BY <1>1 DEF DeletionRow
  <2>2. deletion' = [g \in Version |->
          IF g \in Expired /\ Swept[g].status = "failed"
          THEN [deletion[g] EXCEPT !.status = "failed"] ELSE deletion[g]]
    BY DEF Claim
  <2>. QED BY <1>1, <2>1, <2>2
<1>7. ASSUME NEW h \in Version, job'[h] = Swept[h]
      PROVE  Left(h) \/ Managed(h)
  <2>1. CASE h \in Expired
    BY <1>2, <1>3, <1>6, <1>7, <2>1
       DEF Managed, SameCheckpoint, SameFloor, SameRow, Mirrors
  <2>2. CASE h \notin Expired
    BY <1>4, <1>6, <1>7, <2>2 DEF Left, SameFloor
  <2>. QED BY <2>1, <2>2
<1>8. CASE job' = Swept /\ UNCHANGED worker
  <2>1. job' \in [Version -> JobRow] /\ JobMoves
    BY <1>5, <1>7, <1>8 DEF Swept, JobMoves
  <2>2. TypeOK'
    BY <1>1, <1>6, <1>8, <2>1 DEF Claim, TypeOK, JobRow, DeletionRow
  <2>3. DataStep /\ WorkerStep
    BY <1>8, DataSame, WorkersSame DEF Claim
  <2>. QED BY <2>1, <2>2, <2>3, JobEffects DEF Claim
<1>9. ASSUME NEW g \in Version, Swept[g].status = "pending",
             job' = [Swept EXCEPT ![g] = Take(@, w)],
             \/ worker' = [worker EXCEPT ![w] =
                  [Idle EXCEPT !.at = "ready", !.id = g]]
             \/ UNCHANGED worker
      PROVE  TypeOK' /\ Effects
  <2>1. /\ Take(Swept[g], w) \in JobRow /\ Sound(Take(Swept[g], w))
        /\ SameRow(Swept[g], Take(Swept[g], w))
        /\ Take(Swept[g], w).status = "leased" /\ Take(Swept[g], w).owner = w
    BY <1>5, <1>9, TakeRow
  <2>2. /\ job'[g] = Take(Swept[g], w)
        /\ \A h \in Version \ {g} : job'[h] = Swept[h]
        /\ job' \in [Version -> JobRow]
    BY <1>5, <1>9, <2>1 DEF Swept
  <2>3. Managed(g)
    <3>1. job[g].status \in {"pending", "leased"}
      BY <1>3, <1>4, <1>9
    <3>2. SameRow(job[g], Swept[g])
      BY <1>3, <1>4 DEF SameRow
    <3>3. deletion'[g].status = deletion[g].status
      BY <1>6, <1>9
    <3>. QED BY <1>1, <1>2, <1>6, <2>1, <2>2, <3>1, <3>2, <3>3
           DEF Managed, SameCheckpoint, SameFloor, SameRow, Mirrors
  <2>4. JobMoves
    BY <1>7, <2>2, <2>3 DEF JobMoves
  <2>5. worker' \in [Worker -> WorkerRow] /\ WorkerStep
    <3>1. CASE UNCHANGED worker
      BY <1>1, <3>1, WorkersSame
    <3>2. CASE worker' = [worker EXCEPT ![w] =
                 [Idle EXCEPT !.at = "ready", !.id = g]]
      <4>. DEFINE row == [Idle EXCEPT !.at = "ready", !.id = g]
      <4>1. Idle \in WorkerRow
        BY Bounds DEF Idle, NoStep, WorkerRow, StepRow
      <4>2. row \in WorkerRow /\ row.step = NoStep /\ row.id = g
        <5>1. g \in 0 .. MaxVersion /\ Idle.step = NoStep
          BY Bounds DEF Version, Idle
        <5>2. row \in WorkerRow /\ row.step = Idle.step /\ row.id = g
          BY <4>1, <5>1 DEF WorkerRow
        <5>. QED BY <5>1, <5>2
      <4>. HIDE DEF row
      <4>3. /\ worker' \in [Worker -> WorkerRow] /\ worker'[w] = row
            /\ \A x \in Worker \ {w} : worker'[x] = worker[x]
        BY <1>1, <3>2, <4>2 DEF row
      <4>4. g # 0
        BY Bounds DEF Version
      <4>. QED BY <4>2, <4>3, <4>4
             DEF WorkerStep, Ended, Still, Named, Steps, Stepping
    <3>. QED BY <1>9, <3>1, <3>2
  <2>6. TypeOK'
    BY <1>6, <2>2, <2>5 DEF Claim, TypeOK, JobRow, DeletionRow, WorkerRow,
      StepRow
  <2>7. DataStep
    BY DataSame DEF Claim
  <2>. QED BY <2>4, <2>5, <2>6, <2>7, JobEffects DEF Claim
<1>. QED BY <1>8, <1>9 DEF Claim

\* One existing job is written, and its deletion with it.
LEMMA OneJob ==
  ASSUME Inv, NEW g \in Version, job[g].status \notin {"absent", "completed"},
         NEW row \in JobRow, Sound(row), SameRow(job[g], row),
         row.status \in {"pending", "leased", "failed"},
         row.live => job[g].live /\ row.owner = job[g].owner,
         NEW status \in {"pending", "running", "failed"},
         status = "failed" <=> row.status = "failed",
         job' = [job EXCEPT ![g] = row],
         \/ deletion' = [deletion EXCEPT ![g].status = status]
         \/ UNCHANGED deletion /\ deletion[g].status = status
  PROVE  /\ job' \in [Version -> JobRow]
         /\ deletion' \in [Version -> DeletionRow]
         /\ JobMoves
<1>1. job \in [Version -> JobRow] /\ deletion \in [Version -> DeletionRow]
  BY Types DEF Inv
<1>2. /\ deletion' \in [Version -> DeletionRow]
      /\ deletion'[g].status = status /\ deletion'[g].floor = deletion[g].floor
      /\ \A h \in Version \ {g} : deletion'[h] = deletion[h]
  <2>1. [deletion[g] EXCEPT !.status = status] \in DeletionRow
    BY <1>1 DEF DeletionRow
  <2>. QED BY <1>1, <2>1 DEF DeletionRow
<1>3. /\ job' \in [Version -> JobRow] /\ job'[g] = row
      /\ \A h \in Version \ {g} : job'[h] = job[h]
  BY <1>1
<1>4. Managed(g)
  BY <1>2, <1>3 DEF Managed, SameCheckpoint, SameFloor, SameRow, Mirrors
<1>5. \A h \in Version \ {g} : Left(h)
  BY <1>2, <1>3 DEF Left, SameFloor
<1>. QED BY <1>2, <1>3, <1>4, <1>5 DEF JobMoves

LEMMA ExpireEffects ==
  ASSUME Inv, NEW g \in Version, Expire(g)
  PROVE  TypeOK' /\ Effects
<1>. USE DEF Inv
<1>. DEFINE row == [job[g] EXCEPT !.live = FALSE]
<1>1. job[g] \in JobRow /\ Sound(job[g]) /\ Mirrors(g)
      /\ job[g].status = "leased"
      /\ deletion[g].status \in {"pending", "running"}
  BY Types DEF Expire, Jobs, Mirrors, DeletionRow
<1>2. /\ row \in JobRow /\ SameRow(job[g], row) /\ row.status = "leased"
      /\ ~row.live /\ row.failures = job[g].failures
  BY <1>1 DEF JobRow, SameRow
<1>3. job' = [job EXCEPT ![g] = row] /\ UNCHANGED deletion
  BY DEF Expire
<1>. HIDE DEF row
<1>4. Sound(row)
  BY <1>1, <1>2 DEF Sound, SameRow
<1>5. job' \in [Version -> JobRow] /\ JobMoves
  BY <1>1, <1>2, <1>3, <1>4, OneJob
<1>6. TypeOK'
  BY <1>5 DEF Expire, TypeOK, JobRow
<1>. QED BY <1>5, <1>6, DataSame, WorkersSame, JobEffects DEF Expire

LEMMA ReplayEffects ==
  ASSUME Inv, NEW g \in Version, Replay(g)
  PROVE  TypeOK' /\ Effects
<1>. USE DEF Inv
<1>. DEFINE row == [Free(job[g]) EXCEPT !.failures = 0]
<1>1. job[g] \in JobRow /\ Sound(job[g]) /\ job[g].status = "failed"
  BY Types DEF Replay, Jobs
<1>2. /\ row \in JobRow /\ Sound(row) /\ SameRow(job[g], row)
      /\ row.status = "pending" /\ ~row.live
  BY <1>1, ReplayRow
<1>3. /\ job' = [job EXCEPT ![g] = row]
      /\ deletion' = [deletion EXCEPT ![g].status = "pending"]
  BY DEF Replay
<1>. HIDE DEF row
<1>4. /\ job' \in [Version -> JobRow] /\ deletion' \in [Version -> DeletionRow]
      /\ JobMoves
  BY <1>1, <1>2, <1>3, OneJob
<1>5. TypeOK'
  BY <1>4 DEF Replay, TypeOK, JobRow, DeletionRow
<1>. QED BY <1>4, <1>5, DataSame, WorkersSame, JobEffects DEF Replay

\* An execution that is not idle has a job.
LEMMA HasJob ==
  ASSUME Inv, NEW w \in Worker,
         worker[w].at # "idle" \/ worker[w].step # NoStep
  PROVE  worker[w].id \in Version
BY Types, Bounds DEF Inv, Steps, Stepping, WorkerRow, Version

LEMMA FinishEffects ==
  ASSUME Inv, NEW w \in Worker, Fail(w) \/ Release(w)
  PROVE  TypeOK' /\ Effects
<1>. USE DEF Inv
<1>. DEFINE g == worker[w].id
<1>1. worker[w].at # "idle" /\ Go(w, "idle")
  BY DEF Fail, Release, Finish
<1>2. g \in Version
  BY <1>1, HasJob
<1>3. worker' \in [Worker -> WorkerRow] /\ WorkerStep
  BY <1>1, WorkerGoes
<1>4. job[g] \in JobRow /\ Sound(job[g]) /\ Mirrors(g)
  BY <1>2, Types DEF Jobs
<1>5. PICK ended \in {Spend(job[g]), Free(job[g])} : Finish(w, ended)
  BY DEF Fail, Release
<1>6. /\ job' \in [Version -> JobRow] /\ deletion' \in [Version -> DeletionRow]
      /\ JobMoves
  <2>1. CASE UNCHANGED <<job, deletion>>
    BY <2>1, Types DEF JobMoves, Left, SameFloor
  <2>2. CASE /\ Lease(w)
             /\ job' = [job EXCEPT ![g] = ended]
             /\ deletion' = [deletion EXCEPT ![g].status =
                  IF ended.status = "failed" THEN "failed" ELSE "running"]
    <3>1. job[g].status = "leased"
      BY <2>2 DEF Lease
    <3>2. /\ ended \in JobRow /\ Sound(ended) /\ SameRow(job[g], ended)
          /\ ended.status \in {"pending", "failed"} /\ ~ended.live
      BY <1>4, <3>1, SpendRow, FreeRow
    <3>. QED BY <1>2, <2>2, <3>1, <3>2, OneJob
  <2>. QED BY <1>5, <2>1, <2>2 DEF Finish
<1>7. TypeOK'
  BY <1>3, <1>5, <1>6 DEF Finish, TypeOK, JobRow, DeletionRow, WorkerRow,
    StepRow
<1>. QED BY <1>3, <1>5, <1>6, <1>7, DataSame, JobEffects DEF Finish

LEMMA YieldEffects ==
  ASSUME Inv, NEW w \in Worker, Yield(w) \/ GiveUp(w)
  PROVE  TypeOK' /\ Effects
<1>. USE DEF Inv
<1>1. PICK place \in {"idle", "fail", "release"} : Go(w, place)
  BY DEF Yield, GiveUp
<1>2. worker[w].at # "idle"
  BY DEF Yield, GiveUp
<1>3. worker' \in [Worker -> WorkerRow] /\ WorkerStep
  BY <1>1, <1>2, WorkerGoes
<1>4. UNCHANGED <<profile, authors, rows, deletion, job, registry, bucket,
                  caller, writer, semantic, healthy>>
  BY DEF Yield, GiveUp
<1>5. TypeOK'
  BY <1>3, <1>4 DEF TypeOK, WorkerRow, StepRow
<1>. QED BY <1>3, <1>4, <1>5, OnlyWorkers
-----------------------------------------------------------------------------
(* The steps of an execution.                                              *)

LEMMA StepEnds ==
  ASSUME TypeOK, Steps, NEW w \in Worker,
         NEW place \in {"idle", "ready", "call", "fail", "release"},
         Ends(w, place)
  PROVE  /\ worker' \in [Worker -> WorkerRow] /\ WorkerStep
         /\ worker'[w].step = NoStep
<1>. DEFINE r == worker[w]
            at == IF r.at = "call" THEN place ELSE r.at
            row == [r EXCEPT !.step = NoStep,
                             !.stepped = r.stepped \/ r.at = "call", !.at = at]
<1>1. worker \in [Worker -> WorkerRow] /\ r \in WorkerRow
  BY Types
<1>2. NoStep \in StepRow
  BY Bounds DEF NoStep, StepRow
<1>3. at \in {"idle", "ready", "call", "fail", "release"}
  BY <1>1 DEF WorkerRow
<1>4. (at # "idle" => r.at # "idle") /\ r.stepped \in BOOLEAN
  BY <1>1 DEF WorkerRow
<1>5. worker' = [worker EXCEPT ![w] = row]
  BY DEF Ends
<1>. HIDE DEF at
<1>6. row \in WorkerRow /\ row.step = NoStep /\ row.at = at /\ row.id = r.id
  <2>. DEFINE b == r.stepped \/ r.at = "call"
  <2>1. b \in BOOLEAN
    OBVIOUS
  <2>. HIDE DEF b
  <2>2. LET x == [r EXCEPT !.step = NoStep, !.stepped = b, !.at = at]
        IN x \in WorkerRow /\ x.step = NoStep /\ x.at = at /\ x.id = r.id
    BY <1>1, <1>2, <1>3, <2>1 DEF WorkerRow
  <2>. QED BY <2>2 DEF b
<1>. HIDE DEF row
<1>7. /\ worker' \in [Worker -> WorkerRow] /\ worker'[w] = row
      /\ \A x \in Worker \ {w} : worker'[x] = worker[x]
  BY <1>1, <1>5, <1>6
<1>8. row.at # "idle" => row.id # 0
  BY <1>4, <1>6 DEF Steps, Stepping
<1>. QED BY <1>6, <1>7, <1>8
       DEF WorkerStep, Ended, Still, Named, Steps, Stepping

\* Steps that leave the jobs as they are.
LEMMA AbortEffects ==
  ASSUME Inv, NEW w \in Worker, Abort(w) \/ Touch(w)
  PROVE  TypeOK' /\ Effects
<1>. USE DEF Inv
<1>1. PICK place \in {"ready", "fail"} : Ends(w, place)
  BY DEF Abort, Touch, Commits
<1>2. worker' \in [Worker -> WorkerRow] /\ WorkerStep
  BY <1>1, StepEnds
<1>3. UNCHANGED <<profile, authors, rows, deletion, job, registry, bucket,
                  caller, writer, semantic, healthy>>
  BY DEF Abort, Touch
<1>4. TypeOK'
  BY <1>2, <1>3 DEF TypeOK, WorkerRow, StepRow
<1>. QED BY <1>2, <1>3, <1>4, OnlyWorkers

LEMMA PlanTyped ==
  ASSUME TypeOK, NEW g \in Version
  PROVE  Plan(g) \subseteq StepRow
<1>. DEFINE step(at, keys, next) ==
       [at |-> at, table |-> job[g].table, keys |-> keys, next |-> next]
<1>1. job[g].table \in 0 .. LastTable + 1
  BY Types DEF JobRow
<1>2. ASSUME NEW at \in {"redact", "page", "erase", "wipe", "semantic"},
             NEW keys \in SUBSET (Row \cup Key), NEW next \in Key \cup {NoKey}
      PROVE  step(at, keys, next) \in StepRow
  BY <1>1 DEF StepRow
<1>3. \A few \in PageOf(OldAuthors(g)) : few \subseteq Row
  BY Types, ShortPage DEF OldAuthors
<1>4. FirstPage(OldRegistered(g)) \subseteq Key
  BY FirstPageIsFirst DEF OldRegistered
<1>5. Listed(g) \subseteq Key /\ OldListed(g) \subseteq Key
      /\ NextCursors(g) \subseteq Key \cup {NoKey}
  BY FirstPageIsFirst DEF Listed, Ahead, OldListed, NextCursors
<1>6. \A plan \in Plan(g) :
        \E at \in {"redact", "page", "erase", "wipe", "semantic"},
           keys \in SUBSET (Row \cup Key), next \in Key \cup {NoKey} :
          plan = step(at, keys, next)
  BY <1>3, <1>4, <1>5 DEF Plan
<1>. QED BY <1>2, <1>6

LEMMA StepEffects ==
  ASSUME Inv, NEW w \in Worker, Step(w)
  PROVE  TypeOK' /\ Effects
<1>. USE DEF Inv
<1>. DEFINE g == worker[w].id
<1>1. worker[w].at = "ready" /\ worker[w].step = NoStep /\ g \in Version
  BY HasJob DEF Step
<1>2. UNCHANGED <<profile, authors, rows, deletion, job, registry, bucket,
                  caller, writer, semantic, healthy>>
  BY DEF Step
<1>3. worker' \in [Worker -> WorkerRow] /\ WorkerStep
  <2>1. CASE Go(w, "fail")
    BY <1>1, <2>1, WorkerGoes
  <2>2. ASSUME Lease(w), NEW step \in Plan(g),
               worker' = [worker EXCEPT ![w].at = "call", ![w].step = step]
        PROVE  worker' \in [Worker -> WorkerRow] /\ WorkerStep
    <3>1. worker \in [Worker -> WorkerRow] /\ step \in StepRow
      BY <1>1, <2>2, PlanTyped, Types
    <3>. DEFINE row == [worker[w] EXCEPT !.at = "call", !.step = step]
    <3>2. row \in WorkerRow /\ row.step = step /\ row.id = g
      BY <3>1 DEF WorkerRow
    <3>3. worker' = [worker EXCEPT ![w] = row]
      BY <2>2
    <3>. HIDE DEF row
    <3>4. /\ worker' \in [Worker -> WorkerRow] /\ worker'[w] = row
          /\ \A x \in Worker \ {w} : worker'[x] = worker[x]
      BY <3>1, <3>2, <3>3
    <3>5. g # 0
      BY <1>1, Bounds DEF Version
    <3>6. Named(w)' /\ Planned(w)
      BY <1>2, <2>2, <3>2, <3>4, <3>5 DEF Named, Planned
    <3>7. \A x \in Worker \ {w} : Named(x)' /\ Still(x)
      BY <3>4 DEF Named, Still, Steps, Stepping
    <3>. QED BY <3>4, <3>6, <3>7 DEF WorkerStep
  <2>. QED BY <2>1, <2>2 DEF Step
<1>4. TypeOK'
  BY <1>2, <1>3 DEF TypeOK, WorkerRow, StepRow
<1>. QED BY <1>2, <1>3, <1>4, OnlyWorkers

LEMMA EraseObjectEffects ==
  ASSUME Inv, NEW w \in Worker, EraseObject(w)
  PROVE  TypeOK' /\ Effects
<1>. USE DEF Inv
<1>1. PICK k \in worker[w].step.keys :
        bucket[k] # "marker" /\ bucket' = [bucket EXCEPT ![k] = "marker"]
  BY DEF EraseObject
<1>2. k \in Key /\ k[1] <= profile.floor
  BY DEF EraseObject, Steps, Stepping
<1>3. /\ bucket' \in [Key -> {"none", "content", "marker"}]
      /\ bucket'[k] = "marker"
      /\ \A l \in Key \ {k} : bucket'[l] = bucket[l]
  BY <1>1, <1>2, Types
<1>4. TypeOK'
  BY <1>3 DEF EraseObject, TypeOK
<1>5. DataStep
  BY <1>2, <1>3, Types, Bounds DEF EraseObject, DataStep
<1>6. Writing'
  BY <1>3 DEF EraseObject, Writing, Holds
<1>. QED BY <1>4, <1>5, <1>6, ArchiveEffects DEF EraseObject

LEMMA RecordErasedEffects ==
  ASSUME Inv, NEW w \in Worker, RecordErased(w)
  PROVE  TypeOK' /\ Effects
<1>. USE DEF Inv
<1>. DEFINE r == worker[w]
            step == [r.step EXCEPT !.at = "touch"]
            row == [r EXCEPT !.step = step]
<1>1. worker \in [Worker -> WorkerRow] /\ r \in WorkerRow /\ r.step \in StepRow
      /\ r.step.at = "erase" /\ r.step # NoStep
  BY Types DEF RecordErased, WorkerRow, NoStep
<1>2. step \in StepRow
  BY <1>1 DEF StepRow
<1>3. row \in WorkerRow /\ row.step = step /\ row.id = r.id
  BY <1>1, <1>2 DEF WorkerRow
<1>4. worker' = [worker EXCEPT ![w] = row]
  BY DEF RecordErased
<1>. HIDE DEF row
<1>5. /\ worker' \in [Worker -> WorkerRow] /\ worker'[w] = row
      /\ \A x \in Worker \ {w} : worker'[x] = worker[x]
  BY <1>1, <1>3, <1>4
<1>6. r.id # 0
  BY <1>1 DEF Steps, Stepping
<1>7. WorkerStep
  <2>1. Named(w)' /\ Touching(w)
    BY <1>1, <1>3, <1>5, <1>6 DEF Named, Touching
  <2>2. \A x \in Worker \ {w} : Named(x)' /\ Still(x)
    BY <1>5 DEF Named, Still, Steps, Stepping
  <2>. QED BY <2>1, <2>2 DEF WorkerStep
<1>8. /\ registry' \in [Key -> {"absent", "reserved", "stored", "erased"}]
      /\ \A k \in Key : registry'[k] = registry[k]
           \/ (registry'[k] = "erased" /\ bucket[k] = "marker")
  BY Types DEF RecordErased, AllMarked
<1>9. TypeOK'
  BY <1>5, <1>8 DEF RecordErased, TypeOK, WorkerRow, StepRow
<1>10. DataStep
  BY <1>8, Types, Bounds DEF RecordErased, DataStep, Known
<1>11. Writing'
  BY <1>8 DEF RecordErased, Writing, Holds
<1>12. JobStep /\ Generations'
  BY JobsSame, GenerationsSame DEF RecordErased
<1>. QED BY <1>7, <1>9, <1>10, <1>11, <1>12 DEF Effects

\* The step of a lease holder moves the checkpoint of its job.
LEMMA OneMove ==
  ASSUME Inv, NEW w \in Worker, worker[w].step # NoStep, Lease(w),
         NEW g \in Version, g = worker[w].id,
         worker'[w].step = NoStep,
         NEW row \in JobRow, Sound(row), row.status \in {"leased", "completed"},
         row.live => row.owner = w,
         job' = [job EXCEPT ![g] = row],
         deletion' \in [Version -> DeletionRow],
         \A h \in Version \ {g} : deletion'[h] = deletion[h],
         SameFloor(g),
         deletion'[g].status \in {"pending", "running", "completed"},
         deletion'[g].status = "completed" <=> row.status = "completed",
         Truth(g)', Forward(g)
  PROVE  job' \in [Version -> JobRow] /\ JobMoves
<1>2. job \in [Version -> JobRow]
  BY Types DEF Inv
<1>3. /\ job' \in [Version -> JobRow] /\ job'[g] = row
      /\ \A h \in Version \ {g} : job'[h] = job[h]
  BY <1>2
<1>4. job[g].status = "leased" /\ job[g].owner = w
  BY DEF Lease
<1>5. Mirrors(g)'
  BY <1>3 DEF Mirrors
<1>6. Moved(g)
  BY <1>3, <1>4, <1>5 DEF Moved
<1>7. \A h \in Version \ {g} : Left(h)
  BY <1>3 DEF Left, SameFloor
<1>. QED BY <1>3, <1>6, <1>7 DEF JobMoves

\* What holds of the job of a step under its lease.
LEMMA LeasedJob ==
  ASSUME Inv, NEW w \in Worker, worker[w].step # NoStep, Lease(w)
  PROVE  \E g \in Version :
           /\ g = worker[w].id
           /\ job[g] \in JobRow /\ Sound(job[g])
           /\ job[g].status = "leased" /\ job[g].owner = w
           /\ deletion[g].status \in {"pending", "running"}
           /\ Truth(g) /\ Relies(g, worker[w].step)
<1>. DEFINE g == worker[w].id
<1>1. g \in Version
  BY HasJob
<1>2. job[g].status = "leased" /\ job[g].owner = w
  BY DEF Lease
<1>3. /\ job[g] \in JobRow /\ Sound(job[g])
      /\ deletion[g].status \in {"pending", "running"}
      /\ Truth(g) /\ Relies(g, worker[w].step)
  BY <1>1, <1>2, Types
     DEF Inv, Jobs, Mirrors, Truths, Steps, Stepping, DeletionRow
<1>. QED BY <1>1, <1>2, <1>3

LEMMA Batch ==
  ASSUME TypeOK, Steps, NEW w \in Worker, NEW at, at # "none", Commits(w, at)
  PROVE  /\ worker[w].step.at = at /\ worker[w].step # NoStep /\ Lease(w)
         /\ worker' \in [Worker -> WorkerRow] /\ WorkerStep
         /\ worker'[w].step = NoStep
<1>1. /\ worker[w].step.at = at /\ Lease(w)
      /\ Ends(w, "ready") \/ Ends(w, "fail")
  BY DEF Commits
<1>2. worker[w].step # NoStep
  BY <1>1 DEF NoStep
<1>. QED BY <1>1, <1>2, StepEnds

LEMMA RedactEffects ==
  ASSUME Inv, NEW w \in Worker, Redact(w)
  PROVE  TypeOK' /\ Effects
<1>. USE DEF Inv
<1>1. /\ worker[w].step.at = "redact" /\ worker[w].step # NoStep /\ Lease(w)
      /\ worker' \in [Worker -> WorkerRow] /\ WorkerStep
      /\ worker'[w].step = NoStep
  BY Batch DEF Redact
<1>2. PICK g \in Version :
        /\ g = worker[w].id
        /\ job[g] \in JobRow /\ Sound(job[g])
        /\ job[g].status = "leased" /\ job[g].owner = w
        /\ deletion[g].status \in {"pending", "running"}
        /\ Truth(g) /\ Relies(g, worker[w].step)
  BY <1>1, LeasedJob
<1>. DEFINE read == worker[w].step.keys
            table == IF Cardinality(read) < Page THEN 1 ELSE 0
            row == [job[g] EXCEPT !.table = table]
<1>3. /\ job[g].phase = "primary" /\ job[g].table = 0
      /\ Cardinality(read) < Page => OldAuthors(g) \subseteq read
  BY <1>1, <1>2 DEF Relies
<1>4. /\ row \in JobRow /\ row.phase = "primary" /\ row.table = table
      /\ row.cursor = job[g].cursor /\ row.status = "leased"
      /\ row.owner = w /\ row.failures = job[g].failures
      /\ row.live = job[g].live
  <2>1. table \in 0 .. LastTable + 1
    BY Bounds
  <2>. QED BY <1>2, <1>3, <2>1 DEF JobRow
<1>5. job' = [job EXCEPT ![g] = row] /\ authors' = authors \ read
  BY <1>2 DEF Redact
<1>6. /\ table \in {0, 1} /\ (table = 1 => Cardinality(read) < Page)
  OBVIOUS
<1>. HIDE DEF row, table
<1>7. Sound(row)
  BY <1>2, <1>3, <1>4, <1>6, Bounds DEF Sound
<1>8. job'[g] = row
  BY <1>2, <1>5, Types
<1>9. Truth(g)'
  <2>1. OldAuthors(g)' \subseteq OldAuthors(g) \ read
    BY <1>5 DEF Redact, OldAuthors, Floor
  <2>2. /\ OldRegistered(g)' = OldRegistered(g)
        /\ OldContent(g)' = OldContent(g)
    BY DEF Redact, OldRegistered, OldContent, Floor
  <2>3. \A t \in Table : ~(table > t)
    BY <1>6, Bounds DEF Table
  <2>. QED BY <1>2, <1>3, <1>4, <1>6, <1>8, <2>1, <2>2, <2>3
         DEF Truth, Passed
<1>10. Forward(g)
  BY <1>3, <1>4, <1>6, <1>8 DEF Forward, Order
<1>11. job' \in [Version -> JobRow] /\ JobMoves
  <2>1. /\ UNCHANGED deletion /\ SameFloor(g)
        /\ deletion \in [Version -> DeletionRow]
    BY Types DEF Redact, SameFloor
  <2>. QED BY <1>1, <1>2, <1>4, <1>5, <1>7, <1>9, <1>10, <2>1, OneMove
<1>12. TypeOK'
  BY <1>1, <1>5, <1>11 DEF Redact, TypeOK, JobRow, WorkerRow, StepRow
<1>13. DataStep
  <2>1. \A k \in read : k[1] <= profile.floor
    BY DEF Steps, Stepping
  <2>. QED BY <1>5, <2>1, Types, Bounds DEF Redact, DataStep
<1>. QED BY <1>1, <1>11, <1>12, <1>13, JobEffects DEF Redact

LEMMA ErasePageEffects ==
  ASSUME Inv, NEW w \in Worker, ErasePage(w)
  PROVE  TypeOK' /\ Effects
<1>. USE DEF Inv
<1>1. /\ worker[w].step.at = "page" /\ worker[w].step # NoStep /\ Lease(w)
      /\ worker' \in [Worker -> WorkerRow] /\ WorkerStep
      /\ worker'[w].step = NoStep
  BY Batch DEF ErasePage
<1>2. PICK g \in Version :
        /\ g = worker[w].id
        /\ job[g] \in JobRow /\ Sound(job[g])
        /\ job[g].status = "leased" /\ job[g].owner = w
        /\ deletion[g].status \in {"pending", "running"}
        /\ Truth(g) /\ Relies(g, worker[w].step)
  BY <1>1, LeasedJob
<1>3. PICK t \in Table :
        /\ t = worker[w].step.table /\ t = job[g].table
        /\ job[g].phase = "primary" /\ job[g].cursor = NoKey
  BY <1>1, <1>2 DEF Relies, Sound
<1>4. PICK gone \in PageOf(OldRows(t, g)) :
        /\ rows' = [rows EXCEPT ![t] = @ \ gone]
        /\ job' = [job EXCEPT ![g] = Advance(@, Cardinality(gone) < Page)]
  BY <1>2, <1>3 DEF ErasePage
<1>5. /\ gone \subseteq OldRows(t, g)
      /\ Cardinality(gone) < Page => gone = OldRows(t, g)
  BY ShortPage
<1>. DEFINE short == Cardinality(gone) < Page
            table == t + (IF short THEN 1 ELSE 0)
            row == Advance(job[g], short)
<1>6. /\ table \in 1 .. LastTable + 1 /\ table >= t
      /\ \A u \in Table : table > u => u < t \/ (u = t /\ short)
  BY Bounds DEF Table
<1>7. /\ row \in JobRow /\ row.table = table /\ row.cursor = NoKey
      /\ row.phase = IF table > LastTable THEN "archive" ELSE "primary"
      /\ row.status = "leased" /\ row.owner = w /\ row.live = job[g].live
      /\ row.failures = job[g].failures
  <2>1. /\ table \in 0 .. LastTable + 1
        /\ table = job[g].table + (IF short THEN 1 ELSE 0)
    BY <1>3, <1>6, Bounds
  <2>2. row = [job[g] EXCEPT !.table = table,
                 !.phase = IF table > LastTable THEN "archive" ELSE "primary"]
    BY <2>1 DEF Advance
  <2>. HIDE DEF row, table
  <2>. QED BY <1>2, <1>3, <2>1, <2>2 DEF JobRow
<1>8. job' = [job EXCEPT ![g] = row]
  BY <1>2, <1>4, Types
<1>9. short => gone = OldRows(t, g)
  BY <1>5
<1>. HIDE DEF row, table, short
<1>10. Sound(row)
  BY <1>2, <1>6, <1>7, Bounds DEF Sound
<1>11. job'[g] = row
  BY <1>2, <1>8, Types
<1>12. /\ deletion' \in [Version -> DeletionRow]
       /\ deletion'[g].status = "running"
       /\ deletion'[g].floor = deletion[g].floor
       /\ \A h \in Version \ {g} : deletion'[h] = deletion[h]
  <2>. DEFINE done == job'[g].table > LastTable
              shown == [deletion[g] EXCEPT !.status = "running",
                                           !.primary = done]
  <2>1. done \in BOOLEAN
    OBVIOUS
  <2>2. deletion' = [deletion EXCEPT ![g] = shown]
    BY <1>2 DEF ErasePage
  <2>. HIDE DEF done
  <2>3. deletion \in [Version -> DeletionRow]
    BY Types
  <2>4. /\ shown \in DeletionRow /\ shown.status = "running"
        /\ shown.floor = deletion[g].floor
    BY <2>1, <2>3 DEF DeletionRow
  <2>. HIDE DEF shown
  <2>. QED BY <2>2, <2>3, <2>4
<1>13. /\ rows' \in [Table -> SUBSET Row]
       /\ rows'[t] = rows[t] \ gone
       /\ \A u \in Table \ {t} : rows'[u] = rows[u]
  BY <1>4, Types
<1>14. Truth(g)'
  <2>1. OldAuthors(g)' = OldAuthors(g)
    BY <1>12 DEF ErasePage, OldAuthors, Floor
  <2>2. /\ OldRegistered(g)' = OldRegistered(g)
        /\ OldContent(g)' = OldContent(g)
    BY <1>12 DEF ErasePage, OldRegistered, OldContent, Floor
  <2>3. OldAuthors(g) = {}
    BY <1>2, <1>3, Bounds DEF Truth, Table
  <2>4. ASSUME NEW u \in Table, table > u PROVE OldRows(u, g)' = {}
    <3>1. CASE u < t
      BY <1>2, <1>3, <1>12, <1>13, <3>1, Bounds DEF Truth, OldRows, Floor, Table
    <3>2. CASE u = t /\ short
      BY <1>9, <1>12, <1>13, <3>2 DEF OldRows, Floor
    <3>. QED BY <1>6, <2>4, <3>1, <3>2
  <2>5. \A k \in OldContent(g) : Before(NoKey, k)
    BY KeyOrder DEF OldContent
  <2>. QED BY <1>7, <1>11, <2>1, <2>2, <2>3, <2>4, <2>5 DEF Truth, Passed
<1>15. Forward(g)
  BY <1>3, <1>6, <1>7, <1>11, KeyOrder DEF Forward, Order
<1>16. job' \in [Version -> JobRow] /\ JobMoves
  <2>1. SameFloor(g)
    BY <1>12 DEF SameFloor
  <2>. QED BY <1>1, <1>2, <1>7, <1>8, <1>10, <1>12, <1>14, <1>15, <2>1, OneMove
<1>17. TypeOK'
  BY <1>1, <1>12, <1>13, <1>16 DEF ErasePage, TypeOK, JobRow, WorkerRow,
    StepRow, DeletionRow
<1>18. DataStep
  <2>1. \A r \in gone : r[1] <= profile.floor
    BY <1>2, <1>5, Types, Bounds, RowShape
       DEF OldRows, Generations, Floors, Floor, DeletionRow, Version
  <2>. QED BY <1>13, <2>1, Types, Bounds DEF ErasePage, DataStep
<1>. QED BY <1>1, <1>16, <1>17, <1>18, JobEffects DEF ErasePage

LEMMA ScanEffects ==
  ASSUME Inv, NEW w \in Worker, Scan(w)
  PROVE  TypeOK' /\ Effects
<1>. USE DEF Inv
<1>1. /\ worker[w].step.at = "wipe" /\ worker[w].step # NoStep /\ Lease(w)
      /\ worker' \in [Worker -> WorkerRow] /\ WorkerStep
      /\ worker'[w].step = NoStep
  BY Batch DEF Scan
<1>2. PICK g \in Version :
        /\ g = worker[w].id
        /\ job[g] \in JobRow /\ Sound(job[g])
        /\ job[g].status = "leased" /\ job[g].owner = w
        /\ deletion[g].status \in {"pending", "running"}
        /\ Truth(g) /\ Relies(g, worker[w].step)
  BY <1>1, LeasedJob
<1>3. PICK next \in Key \cup {NoKey} : next = worker[w].step.next
  BY Types DEF WorkerRow, StepRow
<1>. DEFINE phase == IF next = NoKey THEN "semantic" ELSE "archive"
            row == [job[g] EXCEPT !.cursor = next, !.phase = phase]
<1>4. /\ job[g].phase = "archive" /\ job[g].table = LastTable + 1
      /\ OldRegistered(g) = {}
      /\ next # NoKey => Before(job[g].cursor, next)
      /\ \A k \in OldContent(g) : next # NoKey /\ Before(next, k)
  <2>1. \A k \in OldContent(g) : k \notin worker[w].step.keys
    BY DEF Scan, AllMarked, OldContent
  <2>2. \A k \in OldContent(g) : Before(job[g].cursor, k)
    BY <1>1, <1>2 DEF Truth, Relies
  <2>. QED BY <1>1, <1>2, <1>3, <2>1, <2>2 DEF Relies, Sound
<1>5. phase \in {"archive", "semantic"} /\ (phase = "archive" <=> next # NoKey)
  OBVIOUS
<1>6. job' = [job EXCEPT ![g] = row]
  BY <1>2, <1>3 DEF Scan
<1>. HIDE DEF phase
<1>7. /\ row \in JobRow /\ row.table = LastTable + 1 /\ row.cursor = next
      /\ row.phase = phase /\ row.status = "leased" /\ row.owner = w
      /\ row.live = job[g].live /\ row.failures = job[g].failures
  BY <1>2, <1>4, <1>5 DEF JobRow
<1>. HIDE DEF row
<1>8. Sound(row)
  BY <1>2, <1>5, <1>7 DEF Sound
<1>9. job'[g] = row
  BY <1>2, <1>6, Types
<1>10. /\ deletion' \in [Version -> DeletionRow]
       /\ deletion'[g].status = deletion[g].status
       /\ deletion'[g].floor = deletion[g].floor
       /\ \A h \in Version \ {g} : deletion'[h] = deletion[h]
  <2>. DEFINE done == next = NoKey
              shown == [deletion[g] EXCEPT !.archive = done]
  <2>1. done \in BOOLEAN
    OBVIOUS
  <2>2. deletion' = [deletion EXCEPT ![g] = shown]
    BY <1>2, <1>3 DEF Scan
  <2>. HIDE DEF done
  <2>3. deletion \in [Version -> DeletionRow]
    BY Types
  <2>4. /\ shown \in DeletionRow /\ shown.status = deletion[g].status
        /\ shown.floor = deletion[g].floor
    BY <2>1, <2>3 DEF DeletionRow
  <2>. HIDE DEF shown
  <2>. QED BY <2>2, <2>3, <2>4
<1>11. Truth(g)'
  <2>1. /\ OldAuthors(g)' = OldAuthors(g)
        /\ \A t \in Table : OldRows(t, g)' = OldRows(t, g)
    BY <1>10 DEF Scan, OldAuthors, OldRows, Floor
  <2>2. OldRegistered(g)' = OldRegistered(g) /\ OldContent(g)' = OldContent(g)
    BY <1>10 DEF Scan, OldRegistered, OldContent, Floor
  <2>3. OldAuthors(g) = {} /\ \A t \in Table : OldRows(t, g) = {}
    BY <1>2, <1>4, Bounds DEF Truth, Table
  <2>. QED BY <1>4, <1>5, <1>7, <1>9, <2>1, <2>2, <2>3 DEF Truth, Passed
<1>12. Forward(g)
  <2>1. job[g].cursor \in Key \cup {NoKey}
    BY <1>2 DEF JobRow
  <2>. QED BY <1>3, <1>4, <1>5, <1>7, <1>9, <2>1, KeyOrder, Bounds
         DEF Forward, Order
<1>13. job' \in [Version -> JobRow] /\ JobMoves
  <2>1. SameFloor(g)
    BY <1>10 DEF SameFloor
  <2>2. /\ row.status \in {"leased", "completed"} /\ (row.live => row.owner = w)
        /\ deletion'[g].status \in {"pending", "running", "completed"}
        /\ deletion'[g].status = "completed" <=> row.status = "completed"
    BY <1>2, <1>7, <1>10
  <2>3. /\ deletion' \in [Version -> DeletionRow]
        /\ \A h \in Version \ {g} : deletion'[h] = deletion[h]
    BY <1>10
  <2>4. row \in JobRow /\ g \in Version /\ g = worker[w].id
    BY <1>2, <1>7
  <2>. QED BY <1>1, <1>6, <1>8, <1>11, <1>12, <2>1, <2>2, <2>3, <2>4, OneMove
<1>14. TypeOK'
  BY <1>1, <1>10, <1>13 DEF Scan, TypeOK, JobRow, WorkerRow, StepRow,
    DeletionRow
<1>. QED BY <1>1, <1>13, <1>14, DataSame, JobEffects DEF Scan

LEMMA CompleteEffects ==
  ASSUME Inv, NEW w \in Worker, Complete(w)
  PROVE  TypeOK' /\ Effects
<1>. USE DEF Inv
<1>1. worker[w].step.at = "semantic" /\ worker[w].step # NoStep /\ Lease(w)
  BY DEF Complete, NoStep
<1>2. PICK g \in Version :
        /\ g = worker[w].id
        /\ job[g] \in JobRow /\ Sound(job[g])
        /\ job[g].status = "leased" /\ job[g].owner = w
        /\ deletion[g].status \in {"pending", "running"}
        /\ Truth(g) /\ Relies(g, worker[w].step)
  BY <1>1, LeasedJob
<1>3. /\ worker' \in [Worker -> WorkerRow] /\ WorkerStep
      /\ worker'[w].step = NoStep
  <2>1. Ends(w, "idle") \/ Ends(w, "fail")
    BY DEF Complete
  <2>. QED BY <2>1, StepEnds
<1>4. CASE UNCHANGED <<deletion, job>>
  <2>1. TypeOK'
    BY <1>3, <1>4 DEF Complete, TypeOK, WorkerRow, StepRow
  <2>2. JobMoves
    BY <1>4 DEF JobMoves, Left, SameFloor
  <2>. QED BY <1>3, <2>1, <2>2, DataSame, JobEffects DEF Complete
<1>. DEFINE row == [job[g] EXCEPT !.status = "completed", !.phase = "completed",
                      !.owner = None, !.live = FALSE]
            shown == [deletion[g] EXCEPT !.status = "completed"]
<1>5. CASE /\ deletion' = [deletion EXCEPT ![g] = shown]
           /\ job' = [job EXCEPT ![g] = row]
  <2>1. job[g].phase = "semantic"
    BY <1>1, <1>2 DEF Relies
  <2>2. /\ row \in JobRow /\ row.table = job[g].table
        /\ row.cursor = job[g].cursor /\ row.phase = "completed"
        /\ row.status = "completed" /\ ~row.live
        /\ row.failures = job[g].failures
    BY <1>2 DEF JobRow
  <2>3. /\ shown \in DeletionRow /\ shown.status = "completed"
        /\ shown.floor = deletion[g].floor
    BY Types DEF DeletionRow
  <2>. HIDE DEF row, shown
  <2>4. /\ deletion' \in [Version -> DeletionRow] /\ deletion'[g] = shown
        /\ \A h \in Version \ {g} : deletion'[h] = deletion[h]
    BY <1>5, <2>3, Types
  <2>5. job'[g] = row
    BY <1>5, Types
  <2>6. Sound(row)
    BY <1>2, <2>1, <2>2 DEF Sound
  <2>7. Truth(g)'
    <3>1. OldAuthors(g)' = OldAuthors(g)
          /\ \A t \in Table : OldRows(t, g)' = OldRows(t, g)
      BY <2>3, <2>4 DEF Complete, OldAuthors, OldRows, Floor
    <3>2. OldRegistered(g)' = OldRegistered(g) /\ OldContent(g)' = OldContent(g)
      BY <2>3, <2>4 DEF Complete, OldRegistered, OldContent, Floor
    <3>. QED BY <1>2, <2>1, <2>2, <2>5, <3>1, <3>2 DEF Truth, Passed
  <2>8. Forward(g)
    BY <1>2, <2>1, <2>2, <2>5, Bounds DEF Forward, Order, JobRow
  <2>9. SameFloor(g) /\ deletion'[g].status = "completed"
    BY <2>3, <2>4 DEF SameFloor
  <2>10. job' \in [Version -> JobRow] /\ JobMoves
    BY <1>1, <1>2, <1>3, <1>5, <2>2, <2>4, <2>6, <2>7, <2>8, <2>9, OneMove
  <2>11. TypeOK'
    BY <1>3, <2>4, <2>10 DEF Complete, TypeOK, JobRow, WorkerRow, StepRow,
      DeletionRow
  <2>. QED BY <1>3, <2>10, <2>11, DataSame, JobEffects DEF Complete
<1>. QED BY <1>2, <1>4, <1>5 DEF Complete
-----------------------------------------------------------------------------
(* Every step keeps the invariant.                                         *)

LEMMA NextEffects ==
  ASSUME Inv, Next
  PROVE  TypeOK' /\ Effects
<1>. USE DEF Inv
<1>1. CASE Deleting
  BY <1>1, EnsureEffects, ProposeEffects, WriteEffects, LookUpEffects,
    NameDeletionEffects, CommitDeletionEffects DEF Deleting
<1>2. CASE Archiving
  BY <1>2, ReserveEffects, PutObjectEffects, StoreObjectEffects, EraseOwnEffects
     DEF Archiving
<1>3. ASSUME NEW w \in Worker, Execution(w) \/ Yield(w) \/ GiveUp(w)
      PROVE  TypeOK' /\ Effects
  BY <1>3, ClaimEffects, FinishEffects, StepEffects, RedactEffects,
    ErasePageEffects, EraseObjectEffects, RecordErasedEffects, ScanEffects,
    CompleteEffects, AbortEffects, YieldEffects DEF Execution
<1>4. ASSUME NEW g \in Version, Expire(g) \/ Replay(g)
      PROVE  TypeOK' /\ Effects
  BY <1>4, ExpireEffects, ReplayEffects
<1>5. CASE Weather \/ SetPolicy
  <2>1. TypeOK'
    <3>1. /\ UNCHANGED <<profile, authors, rows, deletion, job, registry, bucket,
                         worker, caller, writer>>
          /\ semantic' \in BOOLEAN /\ healthy' \in BOOLEAN
      BY <1>5 DEF Weather, SetPolicy, TypeOK
    <3>. QED BY <3>1 DEF TypeOK
  <2>2. WorkerStep
    BY <1>5, WorkersSame DEF Weather, SetPolicy
  <2>. QED BY <1>5, <2>1, <2>2, OnlyWorkers DEF Weather, SetPolicy
<1>. QED BY <1>1, <1>2, <1>3, <1>4, <1>5 DEF Next, Cleaning

\* What is old of a deletion becomes less, but for content under keys that are
\* still registered.
LEMMA OldShrinks ==
  ASSUME Inv, TypeOK', DataStep, NEW g \in Version, SameFloor(g)
  PROVE  /\ OldAuthors(g)' \subseteq OldAuthors(g)
         /\ \A t \in Table : OldRows(t, g)' \subseteq OldRows(t, g)
         /\ OldRegistered(g)' \subseteq OldRegistered(g)
         /\ OldContent(g)' \subseteq OldContent(g) \cup OldRegistered(g)
<1>1. /\ Floor(g) <= profile.floor /\ Floor(g) \in Nat /\ profile.floor \in Nat
      /\ deletion'[g].floor = Floor(g)
  BY Types, Bounds DEF Inv, Generations, Floors, Floor, SameFloor, DeletionRow
<1>2. /\ \A r \in Row : r[1] \in Nat
      /\ \A k \in Key : k[1] \in Nat
  BY RowShape, KeyShape, Bounds DEF Version
<1>3. authors' \subseteq Row /\ \A t \in Table : rows'[t] \subseteq Row
  BY DEF TypeOK
<1>4. OldAuthors(g)' \subseteq OldAuthors(g)
  BY <1>1, <1>2, <1>3 DEF OldAuthors, Floor, DataStep
<1>5. \A t \in Table : OldRows(t, g)' \subseteq OldRows(t, g)
  BY <1>1, <1>2, <1>3 DEF OldRows, Floor, DataStep
<1>6. OldRegistered(g)' \subseteq OldRegistered(g)
  BY <1>1, <1>2 DEF OldRegistered, Floor, DataStep, Known
<1>7. OldContent(g)' \subseteq OldContent(g) \cup OldRegistered(g)
  BY <1>1 DEF OldContent, OldRegistered, Floor, DataStep, Known
<1>. QED BY <1>4, <1>5, <1>6, <1>7

LEMMA JobsKept ==
  ASSUME Inv, JobStep
  PROVE  Jobs'
<1>1. ASSUME NEW g \in Version
      PROVE  Sound(job'[g]) /\ Mirrors(g)'
  <2>1. CASE Left(g)
    BY <2>1 DEF Inv, Jobs, Left, Mirrors
  <2>2. CASE Created(g)
    <3>1. /\ job'[g].status = "pending" /\ job'[g].phase = "primary"
          /\ job'[g].table = 0 /\ job'[g].cursor = NoKey
          /\ job'[g].failures = 0 /\ ~job'[g].live
      BY <2>2, NewRows DEF Created
    <3>2. Sound(job'[g])
      BY <3>1, Bounds DEF Sound
    <3>. QED BY <2>2, <3>1, <3>2 DEF Created, Mirrors
  <2>3. CASE Managed(g) \/ Moved(g)
    BY <2>3 DEF Managed, Moved
  <2>. QED BY <2>1, <2>2, <2>3 DEF JobStep
<1>. QED BY <1>1 DEF Jobs

LEMMA TruthKept ==
  ASSUME Inv, TypeOK', DataStep, NEW g \in Version, job[g].status # "absent",
         SameFloor(g), SameCheckpoint(g)
  PROVE  Truth(g)'
<1>1. Truth(g)
  BY DEF Inv, Truths
<1>2. Passed(g)' <=> Passed(g)
  BY DEF SameCheckpoint, Passed
<1>3. ASSUME Passed(g)
      PROVE  OldRegistered(g) = {} /\ OldContent(g)' \subseteq OldContent(g)
  BY <1>1, <1>3, OldShrinks DEF Truth
<1>4. ASSUME job[g].phase = "archive", NEW k \in OldContent(g)'
      PROVE  Before(job[g].cursor, k)
  <2>1. CASE k \in OldContent(g)
    BY <1>1, <1>4, <2>1 DEF Truth
  <2>2. CASE k \in OldRegistered(g)
    <3>1. job[g].cursor = NoKey
      BY <1>3, <2>2 DEF Passed
    <3>2. k \in Key
      BY <2>2 DEF OldRegistered
    <3>. QED BY <3>1, <3>2, KeyOrder
  <2>. QED BY <2>1, <2>2, <1>4, OldShrinks
<1>. QED BY <1>1, <1>2, <1>3, <1>4, OldShrinks DEF Truth, SameCheckpoint, Passed

LEMMA TruthsKept ==
  ASSUME Inv, TypeOK', DataStep, JobStep
  PROVE  Truths'
<1>1. ASSUME NEW g \in Version, job'[g].status # "absent"
      PROVE  Truth(g)'
  <2>1. CASE Left(g)
    BY <1>1, <2>1, TruthKept DEF Left, SameCheckpoint
  <2>2. CASE Created(g)
    <3>1. /\ job'[g].phase = "primary" /\ job'[g].table = 0
          /\ job'[g].cursor = NoKey
      BY <2>2, NewRows DEF Created
    <3>. QED BY <3>1, Bounds DEF Truth, Passed, Table
  <2>3. CASE Managed(g)
    BY <2>3, TruthKept DEF Managed
  <2>4. CASE Moved(g)
    BY <2>4 DEF Moved
  <2>. QED BY <2>1, <2>2, <2>3, <2>4 DEF JobStep
<1>. QED BY <1>1 DEF Truths

\* What a plan of each kind is made of.
LEMMA PlanCases ==
  ASSUME NEW g \in Version, NEW s \in Plan(g)
  PROVE  /\ s.at \in {"redact", "page", "erase", "wipe", "semantic"}
         /\ s.table = job[g].table
         /\ s.at = "redact" =>
              /\ job[g].phase = "primary" /\ job[g].table = 0
              /\ s.keys \in PageOf(OldAuthors(g))
         /\ s.at = "page" =>
              job[g].phase = "primary" /\ job[g].table # 0 /\ s.keys = {}
         /\ s.at = "erase" => s.keys = FirstPage(OldRegistered(g))
         /\ s.at = "wipe" =>
              /\ job[g].phase = "archive" /\ OldRegistered(g) = {}
              /\ s.keys = OldListed(g) /\ s.next \in NextCursors(g)
         /\ s.at = "semantic" => job[g].phase = "semantic" /\ s.keys = {}
<1>1. CASE job[g].phase = "primary" /\ job[g].table = 0
  BY <1>1 DEF Plan
<1>2. CASE job[g].phase = "primary" /\ job[g].table # 0
  BY <1>2 DEF Plan
<1>3. CASE job[g].phase = "archive" /\ OldRegistered(g) # {}
  BY <1>3 DEF Plan
<1>4. CASE job[g].phase = "archive" /\ OldRegistered(g) = {}
  BY <1>4 DEF Plan
<1>5. CASE job[g].phase \notin {"primary", "archive"}
  BY <1>5 DEF Plan
<1>. QED BY <1>1, <1>2, <1>3, <1>4, <1>5

\* A listing and the cursor behind it leave out nothing.
LEMMA ListingCovers ==
  ASSUME NEW g \in Version, NEW next \in NextCursors(g)
  PROVE  /\ next # NoKey => Before(job[g].cursor, next)
         /\ \A k \in OldContent(g) : Before(job[g].cursor, k) =>
              k \in OldListed(g) \/ (next # NoKey /\ Before(next, k))
<1>1. Ahead(g) \subseteq Key
  BY DEF Ahead
<1>2. /\ Listed(g) \subseteq Ahead(g)
      /\ \A k \in Listed(g), l \in Ahead(g) \ Listed(g) : Before(k, l)
  BY <1>1, FirstPageIsFirst DEF Listed
<1>3. next # NoKey => Before(job[g].cursor, next)
  BY <1>2 DEF NextCursors, Ahead
<1>4. ASSUME NEW k \in OldContent(g), Before(job[g].cursor, k),
             k \notin OldListed(g)
      PROVE  next # NoKey /\ Before(next, k)
  <2>1. k \in Ahead(g) \ Listed(g)
    BY <1>4 DEF OldContent, Ahead, OldListed
  <2>2. next \in Listed(g)
    BY <2>1 DEF NextCursors
  <2>3. next # NoKey
    BY <1>1, <1>2, <2>2, KeyOrder
  <2>. QED BY <1>2, <2>1, <2>2, <2>3
<1>. QED BY <1>3, <1>4

LEMMA PlanRelies ==
  ASSUME Inv, NEW g \in Version, job[g].status # "absent", NEW s \in Plan(g)
  PROVE  /\ s.at # "none"
         /\ s.at \in {"erase", "touch", "wipe"} => s.keys \subseteq Key
         /\ \A k \in s.keys : k[1] <= profile.floor
         /\ Relies(g, s)
<1>1. Sound(job[g]) /\ job[g].table \in 0 .. LastTable + 1
  BY Types DEF Inv, Jobs, JobRow
<1>2. /\ Floor(g) <= profile.floor /\ Floor(g) \in Nat /\ profile.floor \in Nat
  BY Types, Bounds DEF Inv, Generations, Floors, Floor, DeletionRow
<1>3. /\ \A r \in Row : r[1] \in Nat
      /\ \A k \in Key : k[1] \in Nat
  BY RowShape, KeyShape, Bounds DEF Version
<1>4. CASE s.at = "redact"
  <2>1. /\ s.keys \subseteq OldAuthors(g)
        /\ Cardinality(s.keys) < Page => s.keys = OldAuthors(g)
    BY <1>4, PlanCases, ShortPage
  <2>2. authors \subseteq Row
    BY Types DEF Inv
  <2>3. \A k \in s.keys : k[1] <= profile.floor
    BY <1>2, <1>3, <2>1, <2>2 DEF OldAuthors
  <2>. QED BY <1>4, <2>1, <2>3, PlanCases DEF Relies
<1>5. CASE s.at = "page"
  BY <1>1, <1>5, PlanCases, Bounds DEF Relies, Sound, Table
<1>6. CASE s.at = "erase"
  <2>1. s.keys \subseteq OldRegistered(g)
    <3>1. OldRegistered(g) \in SUBSET Key
      BY DEF OldRegistered
    <3>2. s.keys = FirstPage(OldRegistered(g))
      BY <1>6, PlanCases
    <3>. QED BY <3>1, <3>2, FirstPageIsFirst
  <2>. QED BY <1>2, <1>3, <1>6, <2>1, PlanCases DEF Relies, OldRegistered
<1>7. CASE s.at = "wipe"
  <2>1. s.keys \subseteq Key /\ \A k \in s.keys : k[1] <= Floor(g)
    <3>1. Ahead(g) \subseteq Key
      BY DEF Ahead
    <3>2. Listed(g) \subseteq Key
      BY <3>1, FirstPageIsFirst DEF Listed
    <3>. QED BY <1>7, <3>2, PlanCases DEF OldListed
  <2>2. \A k \in s.keys : k[1] <= profile.floor
    BY <1>2, <1>3, <2>1
  <2>3. Relies(g, s)
    BY <1>7, PlanCases, ListingCovers DEF Relies
  <2>. QED BY <1>7, <2>1, <2>2, <2>3
<1>8. CASE s.at = "semantic"
  BY <1>8, PlanCases DEF Relies
<1>. QED BY <1>4, <1>5, <1>6, <1>7, <1>8, PlanCases

\* What a step relies on lasts while nobody else moves the checkpoint.
LEMMA ReliesKept ==
  ASSUME Inv, TypeOK', DataStep, NEW g \in Version, NEW s,
         SameFloor(g), SameCheckpoint(g), Relies(g, s)
  PROVE  Relies(g, s)'
<1>1. s.at = "redact" =>
        /\ job'[g].phase = "primary" /\ job'[g].table = 0
        /\ Cardinality(s.keys) < Page => OldAuthors(g)' \subseteq s.keys
  BY OldShrinks DEF Relies, SameCheckpoint
<1>2. s.at = "wipe" =>
        /\ OldRegistered(g)' = {} /\ OldContent(g)' \subseteq OldContent(g)
  BY OldShrinks DEF Relies
<1>. QED BY <1>1, <1>2 DEF Relies, SameCheckpoint

\* A lease that lasts through a step of somebody else was held before it.
LEMMA LeaseLasts ==
  ASSUME Inv, JobStep, NEW w \in Worker, worker[w].step # NoStep, Still(w),
         Lease(w)', NEW g \in Version, g = worker[w].id
  PROVE  Lease(w) /\ SameFloor(g) /\ SameCheckpoint(g)
<1>1. worker'[w].id = g /\ worker'[w].step # NoStep
  BY DEF Still
<1>2. job'[g].status = "leased" /\ job'[g].owner = w /\ job'[g].live
  BY <1>1 DEF Lease
<1>3. CASE Left(g)
  BY <1>2, <1>3 DEF Left, SameCheckpoint, Lease
<1>4. CASE Created(g)
  BY <1>2, <1>4, NewRows DEF Created
<1>5. CASE Managed(g)
  BY <1>2, <1>5 DEF Managed, Lease, Inv, Jobs, Sound
<1>6. CASE Moved(g)
  BY <1>1, <1>2, <1>6 DEF Moved
<1>. QED BY <1>3, <1>4, <1>5, <1>6 DEF JobStep

LEMMA StepsKept ==
  ASSUME Inv, TypeOK', Effects
  PROVE  Steps'
<1>. USE DEF Effects
<1>1. /\ profile.floor \in Nat /\ profile'.floor \in Nat
      /\ profile.floor <= profile'.floor
      /\ \A k \in Row \cup Key : k[1] \in Nat
  <2>1. profile.floor \in Nat
    BY Types, Bounds DEF Inv
  <2>2. profile'.floor \in Nat
    BY Bounds DEF TypeOK
  <2>. QED BY <2>1, <2>2, RowShape, KeyShape, Bounds DEF DataStep, Version
<1>2. SUFFICES ASSUME NEW w \in Worker PROVE Stepping(w)'
  BY DEF Steps
<1>3. /\ Named(w)' /\ Stepping(w)
      /\ worker[w].step.keys \subseteq Row \cup Key
  BY Types DEF WorkerStep, Inv, Steps, WorkerRow, StepRow
<1>4. CASE Ended(w) \/ (Still(w) /\ worker[w].step = NoStep)
  <2>1. worker'[w].step = NoStep
    BY <1>4 DEF Ended, Still
  <2>2. /\ worker'[w].step.at = "none" /\ worker'[w].step.keys = {}
    BY <2>1 DEF NoStep
  <2>. QED BY <1>3, <2>1, <2>2 DEF Stepping, Named
<1>5. CASE Still(w) /\ worker[w].step # NoStep
  <2>1. PICK g \in Version : g = worker[w].id
    BY <1>5, HasJob
  <2>2. PICK s : s = worker[w].step
    OBVIOUS
  <2>3. worker'[w].step = s /\ worker'[w].id = g
    BY <1>5, <2>1, <2>2 DEF Still
  <2>4. \A k \in s.keys : k[1] <= profile'.floor
    BY <1>1, <1>3, <2>2 DEF Stepping
  <2>5. ASSUME Lease(w)' PROVE Relies(g, s)'
    <3>1. Lease(w) /\ SameFloor(g) /\ SameCheckpoint(g)
      BY <1>5, <2>1, <2>5, LeaseLasts
    <3>2. Relies(g, s)
      BY <1>3, <1>5, <2>1, <2>2, <3>1 DEF Stepping
    <3>. QED BY <3>1, <3>2, ReliesKept
  <2>6. Lease(w)' => Relies(worker[w].id, worker[w].step)'
    BY <2>3, <2>5
  <2>. QED BY <1>3, <2>2, <2>3, <2>4, <2>6 DEF Stepping, Named
<1>6. CASE Touching(w)
  <2>1. /\ worker'[w].step.at = "touch"
        /\ worker'[w].step.keys = worker[w].step.keys
        /\ worker[w].step.keys \subseteq Key
    BY <1>3, <1>6, Types DEF Touching, Stepping, Inv, WorkerRow, StepRow
  <2>2. Relies(worker[w].id, worker[w].step)'
    BY <2>1 DEF Relies
  <2>3. \A k \in worker[w].step.keys : k[1] <= profile'.floor
    BY <1>1, <1>3 DEF Stepping
  <2>. QED BY <1>3, <2>1, <2>2, <2>3 DEF Stepping, Named
<1>7. CASE Planned(w)
  <2>1. PICK g \in 0 .. MaxVersion : g = worker[w].id
    BY Types DEF Inv, WorkerRow
  <2>2. g \in Version /\ worker'[w].id = g
    BY <1>7, <2>1, Bounds DEF Planned, Version
  <2>3. PICK s \in Plan(g) : s = worker'[w].step
    BY <1>7, <2>1 DEF Planned
  <2>4. job[g].status # "absent"
    BY <1>7, <2>1 DEF Planned, Lease
  <2>5. /\ s.at # "none"
        /\ s.at \in {"erase", "touch", "wipe"} => s.keys \subseteq Key
        /\ \A k \in s.keys : k[1] <= profile.floor
        /\ Relies(g, s)
    BY <2>2, <2>4, PlanRelies
  <2>6. /\ SameFloor(g) /\ SameCheckpoint(g) /\ profile' = profile
    BY <1>7 DEF Planned, SameFloor, SameCheckpoint
  <2>7. Relies(g, s)'
    BY <2>2, <2>5, <2>6, ReliesKept
  <2>8. Relies(worker[w].id, worker[w].step)'
    BY <2>2, <2>3, <2>7
  <2>. QED BY <1>3, <2>3, <2>5, <2>6, <2>8 DEF Stepping, Named
<1>. QED BY <1>4, <1>5, <1>6, <1>7 DEF WorkerStep

LEMMA InitInv ==
  ASSUME Init
  PROVE  Inv
<1>1. TypeOK
  <2>1. profile \in [version : 0 .. MaxVersion, floor : 0 .. MaxVersion]
    BY Bounds DEF Init
  <2>2. /\ deletion \in [Version -> DeletionRow] /\ job \in [Version -> JobRow]
        /\ worker \in [Worker -> WorkerRow]
    BY Bounds DEF Init, NoDeletion, DeletionRow, NoJob, JobRow, Idle, NoStep,
      WorkerRow, StepRow
  <2>3. /\ caller \in [Caller -> CallerRow] /\ writer \in [Writer -> WriterRow]
    BY Bounds DEF Init, CallerRow, WriterRow
  <2>. QED BY <2>1, <2>2, <2>3, Types DEF Init
<1>2. \A g \in Version :
        /\ deletion[g].status = "absent" /\ deletion[g].floor = 0
        /\ job[g] = NoJob
  BY DEF Init, NoDeletion
<1>3. Generations
  BY <1>2, Bounds DEF Init, Generations, Floors, Floor, Requested
<1>4. Writing
  BY DEF Init, Writing, Holds
<1>5. Jobs
  <2>1. /\ NoJob.phase = "primary" /\ NoJob.table = 0 /\ NoJob.cursor = NoKey
        /\ NoJob.status = "absent" /\ ~NoJob.live /\ NoJob.failures = 0
    BY DEF NoJob
  <2>2. Sound(NoJob)
    BY <2>1, Bounds DEF Sound
  <2>. QED BY <1>2, <2>1, <2>2 DEF Jobs, Mirrors
<1>6. Truths
  BY <1>2 DEF Truths, NoJob
<1>7. Steps
  BY DEF Init, Steps, Stepping, Idle, NoStep
<1>. QED BY <1>1, <1>3, <1>4, <1>5, <1>6, <1>7 DEF Inv

LEMMA NextInv ==
  ASSUME Inv, [Next]_vars
  PROVE  Inv'
<1>1. CASE Next
  <2>1. TypeOK' /\ Effects
    BY <1>1, NextEffects
  <2>. QED BY <2>1, JobsKept, TruthsKept, StepsKept DEF Inv, Effects
<1>2. CASE UNCHANGED vars
  <2>1. DataStep
    BY <1>2, DataSame DEF Inv, vars
  <2>2. JobStep /\ WorkerStep /\ Generations' /\ Writing'
    BY <1>2, JobsSame, WorkersSame, GenerationsSame, WritingSame DEF Inv, vars
  <2>3. TypeOK'
    BY <1>2 DEF Inv, TypeOK, vars
  <2>. QED BY <2>1, <2>2, <2>3, JobsKept, TruthsKept, StepsKept
         DEF Inv, Effects
<1>. QED BY <1>1, <1>2
-----------------------------------------------------------------------------
(* What the invariant says of deletions and checkpoints.                   *)

\* Every generation up to its floor is gone once a job has passed the archive.
LEMMA ErasedBelow ==
  ASSUME Inv, NEW g \in Version, job[g].status # "absent",
         job[g].phase \in {"semantic", "completed"}, NEW v \in 1 .. Floor(g)
  PROVE  Erased(v)
<1>1. Truth(g) /\ job[g].table = LastTable + 1
  BY DEF Inv, Truths, Jobs, Sound
<1>2. Floor(g) \in 0 .. MaxVersion /\ v \in Version
  BY Types, Bounds DEF Inv, Floor, DeletionRow, Version
<1>3. OldAuthors(g) = {} /\ \A t \in Table : OldRows(t, g) = {}
  BY <1>1, Bounds DEF Truth, Table
<1>4. \A a \in authors : a[1] # v
  BY <1>2, <1>3 DEF OldAuthors
<1>5. \A t \in Table : \A r \in rows[t] : r[1] # v
  BY <1>2, <1>3 DEF OldRows
<1>6. ASSUME NEW o \in Object PROVE bucket[<<v, o>>] # "content"
  <2>1. <<v, o>> \in Key /\ <<v, o>>[1] = v
    BY <1>2 DEF Key
  <2>2. OldContent(g) = {}
    BY <1>1 DEF Truth
  <2>. QED BY <1>2, <2>1, <2>2 DEF OldContent
<1>. QED BY <1>4, <1>5, <1>6 DEF Erased

LEMMA InvErased ==
  ASSUME Inv
  PROVE  ErasedForGood
<1>1. ASSUME NEW g \in Version, deletion[g].status = "completed"
      PROVE  job[g].status = "completed" /\ job[g].phase = "completed"
  BY <1>1 DEF Inv, Jobs, Mirrors, Sound
<1>. QED BY <1>1, ErasedBelow DEF ErasedForGood

LEMMA InvCheckpoint ==
  ASSUME Inv
  PROVE  CheckpointIsTrue
<1>1. SUFFICES ASSUME NEW g \in Version, job[g].status # "absent",
                      NEW v \in 1 .. Floor(g)
      PROVE  /\ job[g].table > 0 => \A a \in authors : a[1] # v
             /\ \A t \in Table : job[g].table > t =>
                  \A r \in rows[t] : r[1] # v
             /\ job[g].phase \in {"semantic", "completed"} => Erased(v)
             /\ \A o \in Object : job[g].phase = "archive" =>
                  \/ Before(job[g].cursor, <<v, o>>)
                  \/ bucket[<<v, o>>] # "content"
  BY DEF CheckpointIsTrue
<1>2. Truth(g)
  BY <1>1 DEF Inv, Truths
<1>3. Floor(g) \in 0 .. MaxVersion /\ v \in Version
  BY Types, Bounds DEF Inv, Floor, DeletionRow, Version
<1>4. job[g].table > 0 => \A a \in authors : a[1] # v
  BY <1>2, <1>3 DEF Truth, OldAuthors
<1>5. \A t \in Table : job[g].table > t => \A r \in rows[t] : r[1] # v
  BY <1>2, <1>3 DEF Truth, OldRows
<1>6. ASSUME NEW o \in Object, job[g].phase = "archive",
             bucket[<<v, o>>] = "content"
      PROVE  Before(job[g].cursor, <<v, o>>)
  <2>1. <<v, o>> \in Key /\ <<v, o>>[1] = v
    BY <1>3 DEF Key
  <2>2. <<v, o>> \in OldContent(g)
    BY <1>3, <1>6, <2>1 DEF OldContent
  <2>. QED BY <1>2, <1>6, <2>2 DEF Truth
<1>. QED BY <1>1, <1>4, <1>5, <1>6, ErasedBelow

LEMMA InvForgotten ==
  ASSUME Inv
  PROVE  NothingForgotten
<1>1. SUFFICES ASSUME NEW v \in 1 .. profile.floor, ~Erased(v)
      PROVE  \E g \in Version :
               /\ v <= Floor(g)
               /\ deletion[g].status \notin {"absent", "completed"}
               /\ job[g].status \notin {"absent", "completed"}
  BY DEF NothingForgotten
<1>2. profile.floor \in Nat
  BY Types, Bounds DEF Inv
<1>3. PICK g \in Version :
        deletion[g].status # "absent" /\ Floor(g) = profile.floor
  BY <1>1, <1>2 DEF Inv, Generations, Floors
<1>4. deletion[g].status # "completed"
  BY <1>1, <1>3, InvErased DEF ErasedForGood
<1>. QED BY <1>1, <1>2, <1>3, <1>4 DEF Inv, Jobs, Mirrors

LEMMA InvMirrors ==
  ASSUME Inv
  PROVE  DeletionMirrorsJob
BY DEF Inv, Jobs, Mirrors, DeletionMirrorsJob

LEMMA StepKeepsNewer ==
  ASSUME Inv, Next
  PROVE  NewerKept
<1>1. DataStep /\ TypeOK'
  BY NextEffects DEF Effects
<1>2. /\ profile.floor \in Nat /\ profile'.floor \in Nat
      /\ authors \subseteq Row /\ \A t \in Table : rows[t] \subseteq Row
  <2>1. profile.floor \in Nat
    BY Types, Bounds DEF Inv
  <2>2. profile'.floor \in Nat
    BY <1>1, Bounds DEF TypeOK
  <2>. QED BY <2>1, <2>2, Types DEF Inv
<1>3. SUFFICES ASSUME NEW v \in Version, v > profile'.floor
      PROVE  /\ \A a \in authors : a[1] = v => a \in authors'
             /\ \A t \in Table : \A r \in rows[t] : r[1] = v => r \in rows'[t]
             /\ \A o \in Object :
                  bucket[<<v, o>>] = "content" => bucket'[<<v, o>>] = "content"
  BY DEF NewerKept
<1>4. ~(v <= profile.floor)
  BY <1>1, <1>2, <1>3, Bounds DEF DataStep, Version
<1>5. \A o \in Object : <<v, o>> \in Key /\ <<v, o>>[1] = v
  BY DEF Key
<1>. QED BY <1>1, <1>2, <1>4, <1>5 DEF DataStep

LEMMA StepKeepsCheckpoint ==
  ASSUME Inv, Next
  PROVE  CheckpointForward
<1>1. SUFFICES ASSUME NEW g \in Version, job[g].status # "absent"
      PROVE  Forward(g)
  BY DEF CheckpointForward, Forward
<1>2. /\ job[g].phase \in {"primary", "archive", "semantic", "completed"}
      /\ job[g].table \in Nat /\ job[g].cursor \in Key \cup {NoKey}
  BY Types, Bounds DEF Inv, JobRow
<1>3. Order(job[g].phase) \in Nat
  BY <1>2 DEF Order
<1>4. CASE SameCheckpoint(g)
  BY <1>2, <1>3, <1>4, KeyOrder DEF SameCheckpoint, Forward
<1>5. Left(g) \/ Managed(g) \/ Moved(g)
  BY <1>1, NextEffects DEF Effects, JobStep, Created
<1>. QED BY <1>4, <1>5 DEF Left, Managed, Moved, SameCheckpoint
-----------------------------------------------------------------------------
(* The theorems.                                                           *)

\* The generations, the archive, the jobs, their checkpoints and the steps in
\* flight stay consistent under any number of executions, deletions, archive
\* writes and failures (platform/feed/src/cleanup.ts, commands.ts,
\* archive.ts).
THEOREM CleanupInvariant == Spec => []Inv
<1>1. Init => Inv
  BY InitInv
<1>2. Inv /\ [Next]_vars => Inv'
  BY NextInv
<1>. QED BY <1>1, <1>2, PTL DEF Spec

\* What a completed deletion covers is gone and never comes back, whatever
\* command, archive write or step is still under way (cleanup.ts:213,
\* archive.ts:112-118).
THEOREM ErasedForGoodHolds == Spec => []ErasedForGood
BY CleanupInvariant, InvErased, PTL

\* A checkpoint tells the truth: whatever precedes it is erased, though the
\* job has changed hands and steps of lost leases still run
\* (cleanup.ts:298-319).
THEOREM CheckpointIsTrueHolds == Spec => []CheckpointIsTrue
BY CleanupInvariant, InvCheckpoint, PTL

\* Whatever lies at or below the floor is erased or has a job that will erase
\* it (commands.ts:393-424).
THEOREM NothingForgottenHolds == Spec => []NothingForgotten
BY CleanupInvariant, InvForgotten, PTL

\* No step takes anything from a generation above the floor
\* (feed_cleanup.go:38, cleanup.ts:259), and none moves a checkpoint back
\* (cleanup.ts:298-319, 404-411).
THEOREM CleanupStepsHold == Spec => [][NewerKept /\ CheckpointForward]_vars
<1>1. Inv /\ [Next]_vars => [NewerKept /\ CheckpointForward]_vars
  BY StepKeepsNewer, StepKeepsCheckpoint
<1>. QED BY <1>1, CleanupInvariant, PTL DEF Spec

\* All of it: what a completed deletion covers is gone for good, nothing is
\* forgotten, nothing newer is touched, and checkpoints are true and only
\* move on (platform/feed/src/cleanup.ts, commands.ts, archive.ts).
THEOREM CleanupSafeHolds == Spec => CleanupSafe
<1>1. Inv => TypeOK /\ ErasedForGood /\ CheckpointIsTrue /\ NothingForgotten
               /\ DeletionMirrorsJob
  BY InvErased, InvCheckpoint, InvForgotten, InvMirrors DEF Inv
<1>2. Spec => [](TypeOK /\ ErasedForGood /\ CheckpointIsTrue
                 /\ NothingForgotten /\ DeletionMirrorsJob)
  BY <1>1, CleanupInvariant, PTL
<1>. QED BY <1>2, CleanupStepsHold DEF CleanupSafe

-----------------------------------------------------------------------------
(* The profile of a Feed user and what is served from it.                  *)

Item == [repo : Repo, rev : Nat]
ViewRow == [wanted : [Tag -> {-1, 0, 1}], inferred : SUBSET Tag,
            saved : SUBSET Repo, hidden : SUBSET Repo]
VisitPlace == {"new", "user", "ranked", "session", "page", "save", "expire",
               "done"}
PageRow ==
  [at : VisitPlace, user : Nat, tax : Nat, view : ViewRow \cup {Null},
   items : Seq(Item), of : Visit \cup {Null}, off : Nat, cursor : BOOLEAN]
Session == [user : Nat, tax : Nat, view : ViewRow \cup {Null},
            items : Seq(Item)]
ActRow == [at : {"new", "asked", "deleting", "done"}, user : Nat, floor : Nat]
Served1 == [id : Visit, repo : Repo, user : Nat, tax : Nat, era : Nat]
Token == [request : Visit, repo : Repo, user : Nat]
Event == [id : EventId, request : Visit, repo : Repo,
          type : {"impression", "outbound"}, user : Nat, era : Nat]
Cursor == [of : Visit, off : Nat]
Project == [rev : 1..MaxMoves + 1, tag : Tag \cup {Null}, ok : BOOLEAN]
Taxonomy == [version : 1..MaxMoves + 1, canonical : SUBSET Tag]

AccountTyped ==
  /\ user \in Nat /\ floor \in Nat /\ era \in Nat
  /\ wanted \in [Tag -> {-1, 0, 1}] /\ inferred \subseteq Tag
  /\ saved \subseteq Repo /\ hidden \subseteq Repo
  /\ signals \subseteq Repo \X Kind
WorldTyped ==
  /\ catalog \in [Repo -> Project] /\ tax \in Taxonomy
  /\ moves \in 0..MaxMoves
  /\ \A r \in Repo : catalog[r].rev + moves <= MaxMoves + 1
  /\ tax.version + moves <= MaxMoves + 1
PagesTyped ==
  /\ page \in [Visit -> PageRow] /\ sessions \in [Visit -> Session \cup {Null}]
  /\ cursors \subseteq Cursor
RecordsTyped ==
  /\ requests \subseteq Served1 /\ tokens \subseteq Token
  /\ events \subseteq Event
ActsTyped == act \in [Act -> ActRow]

\* A version of the profile that was seen: it stands, came before the one
\* that stands, or was deleted.
Reached(n) == n <= user \/ n <= floor
FreshView(v) == v.wanted = wanted /\ v.saved = saved /\ v.hidden = hidden

AccountFits == (user # 0 => floor < user) /\ ProfileRowsStand
                 /\ StateAndSignalsAgree

Viewed == {"ranked", "session", "page", "save", "expire"}
\* What a page shows was ranked for the version it names.
PageFits(p) ==
  /\ Reached(page[p].user)
  /\ page[p].at \notin {"new", "done"} => page[p].user > 0
  /\ page[p].at \in Viewed /\ page[p].user = user => FreshView(page[p].view)
SessionFits(p) ==
  sessions[p] # Null /\ sessions[p].user = user => FreshView(sessions[p].view)

Settled == VisitPlace \ {"new", "user", "ranked"}
\* The items of a session are those of the pages that continue it.
ItemsFit(p) ==
  /\ page[p].off <= Len(page[p].items)
  /\ page[p].at = "user" => page[p].off = 0 /\ ~page[p].cursor
  /\ page[p].at = "ranked" => page[p].of = p /\ ~page[p].cursor
  /\ page[p].at \in {"session", "page", "save", "expire"} =>
       /\ page[p].of \in Visit /\ page[page[p].of].at \in Settled
       /\ page[p].cursor /\ sessions[page[p].of] # Null =>
            sessions[page[p].of].items = page[p].items
CursorFits(c) ==
  /\ page[c.of].at \in Settled
  /\ sessions[c.of] # Null => c.off <= Len(sessions[c.of].items)

ActFits(a) == act[a].at = "asked" => act[a].user > 0

\* What was served above the floor was served to the profile that stands.
ServedFits(q) ==
  /\ Reached(q.user)
  /\ q.era <= era
  /\ q.user > floor => q.era = era

ServingInv ==
  /\ AccountTyped /\ WorldTyped /\ PagesTyped /\ RecordsTyped /\ ActsTyped
  /\ AccountFits
  /\ \A p \in Visit : PageFits(p) /\ SessionFits(p) /\ ItemsFit(p)
  /\ \A c \in cursors : CursorFits(c)
  /\ \A a \in Act : ActFits(a)
  /\ \A q \in requests : ServedFits(q)
  /\ EventsOfTheirProfile

-----------------------------------------------------------------------------
(* How the profile moves, and what that leaves true of a version seen.     *)

StatesStay == wanted' = wanted /\ saved' = saved /\ hidden' = hidden
AccountStays == user' = user /\ floor' = floor /\ era' = era /\ StatesStay
AccountAdvances == user > 0 /\ user' = user + 1 /\ floor' = floor /\ era' = era
AccountEnsured == user' = Ensured /\ floor' = floor /\ era' = era /\ StatesStay
AccountDeleted ==
  /\ user' = 0
  /\ floor' \in Nat /\ user <= floor' /\ floor <= floor'
  /\ era' = IF user = 0 THEN era ELSE era + 1
AccountMoves ==
  AccountStays \/ AccountAdvances \/ AccountEnsured \/ AccountDeleted

LEMMA OldVersion ==
  ASSUME AccountTyped, AccountFits, AccountMoves, NEW n \in Nat, Reached(n)
  PROVE  /\ Reached(n)'
         /\ n > 0 /\ n = user' => n = user /\ StatesStay
BY DEF AccountTyped, AccountFits, AccountMoves, AccountStays, AccountAdvances,
       AccountEnsured, AccountDeleted, Ensured, Reached

LEMMA OldServed ==
  ASSUME AccountTyped, AccountFits, AccountMoves,
         NEW q \in Served1, ServedFits(q)
  PROVE  ServedFits(q)'
<1>1. q.user \in Nat /\ q.era \in Nat
  BY DEF Served1
<1>2. Reached(q.user)'
  BY <1>1, OldVersion DEF ServedFits
<1> QED
  BY <1>1, <1>2
  DEF AccountTyped, AccountFits, AccountMoves, AccountStays,
      AccountAdvances, AccountEnsured, AccountDeleted, Ensured, Reached,
      ServedFits

\* A page and a session that are left alone still fit.
LEMMA OldPage ==
  ASSUME ServingInv, AccountMoves, NEW p \in Visit, page'[p] = page[p]
  PROVE  PageFits(p)'
<1>1. page[p].user \in Nat /\ PageFits(p)
  BY DEF ServingInv, PagesTyped, PageRow
<1>2. PICK n \in Nat : n = page[p].user
  BY <1>1
<1>3. /\ Reached(n)'
      /\ n > 0 /\ n = user' => n = user /\ StatesStay
  BY <1>1, <1>2, OldVersion DEF ServingInv, PageFits
<1>4. n = page'[p].user
  BY <1>2
<1> QED
  BY <1>1, <1>2, <1>3, <1>4
  DEF PageFits, FreshView, StatesStay, Viewed, Reached

LEMMA OldSession ==
  ASSUME ServingInv, AccountStays \/ AccountAdvances \/ AccountEnsured,
         NEW p \in Visit, sessions'[p] = sessions[p]
  PROVE  /\ SessionFits(p)'
         /\ sessions'[p] # Null => sessions'[p].user \in floor' + 1..user'
<1>1. /\ sessions[p] # Null =>
            sessions[p] \in Session /\ sessions[p].user \in floor + 1..user
      /\ SessionFits(p)
  BY DEF ServingInv, PagesTyped, AccountFits, ProfileRowsStand
<1>2. CASE sessions[p] # Null
  <2>1. /\ sessions[p].user \in Nat /\ sessions[p].user > 0
        /\ sessions[p].user <= user /\ floor < sessions[p].user
        /\ user \in Nat /\ floor \in Nat /\ user > 0
    BY <1>1, <1>2 DEF Session, ServingInv, AccountTyped
  <2>2. /\ floor' = floor /\ user' \in Nat /\ user <= user'
    BY <2>1 DEF AccountStays, AccountAdvances, AccountEnsured, Ensured
  <2>3. PICK n \in Nat : n = sessions[p].user
    BY <2>1
  <2>4. n = user' => n = user /\ StatesStay
    BY <2>1, <2>3, OldVersion DEF ServingInv, Reached, AccountMoves
  <2> QED
    BY <1>1, <2>1, <2>2, <2>3, <2>4 DEF SessionFits, FreshView, StatesStay
<1>3. CASE sessions[p] = Null
  BY <1>3 DEF SessionFits
<1> QED BY <1>2, <1>3

LEMMA OldRequests ==
  ASSUME ServingInv, AccountMoves, NEW q \in requests
  PROVE  ServedFits(q)'
BY OldServed DEF ServingInv, RecordsTyped

-----------------------------------------------------------------------------
(* How the record of a page request changes, field by field.               *)

Pages == [Visit -> PageRow]
\* g is f but for the request p.
Alone(f, g, p) == g \in Pages /\ \A q \in Visit : q # p => g[q] = f[q]

LEMMA PagePlaced ==
  ASSUME NEW f \in Pages, NEW p \in Visit, NEW x \in VisitPlace, NEW g,
         g = [f EXCEPT ![p].at = x]
  PROVE  /\ Alone(f, g, p) /\ g[p].at = x /\ g[p].user = f[p].user
         /\ g[p].view = f[p].view /\ g[p].items = f[p].items
         /\ g[p].of = f[p].of /\ g[p].off = f[p].off
         /\ g[p].cursor = f[p].cursor
BY DEF Alone, Pages, PageRow

\* A new page request, and one that is over.
LEMMA NewPageRow ==
  /\ NewPage \in PageRow
  /\ NewPage.user = 0 /\ NewPage.off = 0 /\ NewPage.items = << >>
  /\ NewPage.cursor = FALSE
  /\ [NewPage EXCEPT !.at = "done"] \in PageRow
  /\ [NewPage EXCEPT !.at = "done"].at = "done"
  /\ [NewPage EXCEPT !.at = "done"].user = 0
  /\ [NewPage EXCEPT !.at = "done"].off = 0
  /\ [NewPage EXCEPT !.at = "done"].items = << >>
<1>1. << >> \in Seq(Item)
  OBVIOUS
<1>2. NewPage \in PageRow
  BY <1>1 DEF NewPage, PageRow, VisitPlace
<1>3. /\ NewPage.user = 0 /\ NewPage.off = 0 /\ NewPage.items = << >>
      /\ NewPage.cursor = FALSE
  BY DEF NewPage
<1> HIDE DEF NewPage
<1> QED BY <1>2, <1>3 DEF PageRow, VisitPlace

LEMMA PageReplaced ==
  ASSUME NEW f \in Pages, NEW p \in Visit, NEW x \in PageRow, NEW g,
         g = [f EXCEPT ![p] = x]
  PROVE  Alone(f, g, p) /\ g[p] = x
BY DEF Alone, Pages

LEMMA FirstVisit ==
  ASSUME ServingInv, NEW p \in Visit, First(p)
  PROVE  /\ Alone(page, page', p)
         /\ page'[p].at = "user" /\ page'[p].user = user'
         /\ page'[p].off = 0 /\ page'[p].items = << >>
         /\ page'[p].cursor = FALSE
<1> DEFINE one == [NewPage EXCEPT !.at = "user"]
           two == [one EXCEPT !.user = user']
           three == [two EXCEPT !.tax = tax.version]
<1>1. one \in PageRow /\ one.at = "user" /\ one.off = 0
      /\ one.items = << >> /\ one.cursor = FALSE
  BY NewPageRow DEF PageRow, VisitPlace
<1>2. page' = [page EXCEPT ![p] = three] /\ page \in Pages
  BY DEF First, ServingInv, PagesTyped, Pages
<1>3. user' \in Nat /\ tax.version \in Nat
  BY DEF First, Ensured, ServingInv, AccountTyped, WorldTyped, Taxonomy
<1> HIDE DEF one
<1>4. two \in PageRow /\ two.at = "user" /\ two.user = user'
      /\ two.off = 0 /\ two.items = << >> /\ two.cursor = FALSE
  BY <1>1, <1>3 DEF PageRow
<1> HIDE DEF two
<1>5. three \in PageRow /\ three.at = "user" /\ three.user = user'
      /\ three.off = 0 /\ three.items = << >> /\ three.cursor = FALSE
  BY <1>3, <1>4 DEF PageRow
<1> HIDE DEF three
<1> QED BY <1>2, <1>5 DEF Alone, Pages

LEMMA ItemsOfRepos ==
  ASSUME ServingInv, NEW S \in SUBSET Repo,
         NEW order \in SetToSeqs({Analysed(r) : r \in S})
  PROVE  order \in Seq(Item)
<1> DEFINE T == {Analysed(r) : r \in S}
           f == [r \in S |-> Analysed(r)]
<1>1. IsFiniteSet(S)
  BY FS_Subset, ServingAssumption DEF ServingAssumption
<1>2. f \in Surjection(S, T)
  BY DEF Surjection
<1>3. IsFiniteSet(T)
  BY <1>1, <1>2, FS_Surjection
<1>4. Cardinality(T) \in Nat
  BY <1>3, FS_CardinalityType
<1>5. T \subseteq Item
  BY DEF Analysed, Item, ServingInv, WorldTyped, Project
<1>6. order \in [1..Cardinality(T) -> T]
  BY DEF SetToSeqs
<1> HIDE DEF T
<1> QED BY <1>4, <1>5, <1>6

LEMMA LoadedPage ==
  ASSUME ServingInv, NEW p \in Visit, Load(p)
  PROVE  /\ Alone(page, page', p)
         /\ page'[p].at = "ranked" /\ page'[p].user = page[p].user
         /\ page'[p].view = View /\ page'[p].of = p
         /\ page'[p].off = page[p].off
         /\ page'[p].cursor = page[p].cursor
<1>1. PICK order \in
             SetToSeqs({Analysed(r) : r \in {r \in Repo : Eligible(r)}}) :
        page' = [page EXCEPT ![p].at = "ranked", ![p].view = View,
                             ![p].of = p, ![p].items = order]
  BY DEF Load
<1>2. order \in Seq(Item)
  <2>1. {r \in Repo : Eligible(r)} \in SUBSET Repo
    OBVIOUS
  <2> QED BY <1>1, <2>1, ItemsOfRepos
<1>3. View \in ViewRow \cup {Null} /\ page \in Pages
  BY DEF View, ViewRow, ServingInv, AccountTyped, PagesTyped, Pages
<1> DEFINE moved == [page[p] EXCEPT !.at = "ranked", !.view = View, !.of = p,
                                    !.items = order]
<1>4. page[p] \in PageRow
  BY <1>3 DEF Pages
<1>5. /\ moved \in PageRow /\ moved.at = "ranked"
      /\ moved.view = View /\ moved.of = p
      /\ moved.user = page[p].user /\ moved.off = page[p].off
      /\ moved.cursor = page[p].cursor
  BY <1>2, <1>3, <1>4 DEF PageRow, VisitPlace
<1>6. page' = [page EXCEPT ![p] = moved]
  BY <1>1
<1> HIDE DEF moved
<1>7. Alone(page, page', p) /\ page'[p] = moved
  BY <1>3, <1>5, <1>6 DEF Alone, Pages
<1> QED BY <1>5, <1>7

\* The page request moves to a place and keeps the rest.
PageTurns(p, place) ==
  /\ Alone(page, page', p)
  /\ page'[p].at = place /\ page'[p].user = page[p].user
  /\ page'[p].view = page[p].view /\ page'[p].items = page[p].items
  /\ page'[p].of = page[p].of /\ page'[p].off = page[p].off

LEMMA PageTurned ==
  ASSUME ServingInv, NEW p \in Visit, NEW place \in VisitPlace,
         page' = [page EXCEPT ![p].at = place]
  PROVE  PageTurns(p, place) /\ page'[p].cursor = page[p].cursor
BY DEF ServingInv, PagesTyped, PageTurns, Alone, Pages, PageRow

LEMMA PageKept ==
  ASSUME ServingInv, NEW p \in Visit, NEW heard \in BOOLEAN,
         page' = [page EXCEPT ![p].at = "page", ![p].cursor = heard]
  PROVE  PageTurns(p, "page") /\ page'[p].cursor = heard
<1> DEFINE one == [page EXCEPT ![p].at = "page"]
           two == [one EXCEPT ![p].cursor = heard]
<1>1. /\ Alone(page, one, p) /\ one[p].at = "page"
      /\ one[p].user = page[p].user /\ one[p].view = page[p].view
      /\ one[p].items = page[p].items /\ one[p].of = page[p].of
      /\ one[p].off = page[p].off
  BY DEF ServingInv, PagesTyped, Alone, Pages, PageRow, VisitPlace
<1>2. page' = two
  OBVIOUS
<1> HIDE DEF one
<1>3. /\ Alone(one, two, p) /\ two[p].cursor = heard
      /\ two[p].at = one[p].at
      /\ two[p].user = one[p].user /\ two[p].view = one[p].view
      /\ two[p].items = one[p].items /\ two[p].of = one[p].of
      /\ two[p].off = one[p].off
  BY <1>1 DEF Alone, Pages, PageRow
<1> HIDE DEF two
<1> QED BY <1>1, <1>2, <1>3 DEF PageTurns, Alone

LEMMA PageEnds ==
  ASSUME ServingInv, NEW p \in Visit,
         page' = [page EXCEPT ![p] = [NewPage EXCEPT !.at = "done"]]
  PROVE  /\ Alone(page, page', p)
         /\ page'[p].at = "done" /\ page'[p].user = 0
         /\ page'[p].off = 0 /\ page'[p].items = << >>
<1> DEFINE row == [NewPage EXCEPT !.at = "done"]
<1>1. /\ row \in PageRow /\ row.at = "done" /\ row.user = 0
      /\ row.off = 0 /\ row.items = << >>
  BY NewPageRow
<1>2. page' = [page EXCEPT ![p] = row] /\ page \in Pages
  BY DEF ServingInv, PagesTyped, Pages
<1> HIDE DEF row
<1> QED BY <1>1, <1>2 DEF Alone, Pages

LEMMA ResumedPage ==
  ASSUME ServingInv, NEW p \in Visit, Resume(p)
  PROVE  \E c \in cursors :
           LET s == sessions[c.of] IN
           /\ s # Null /\ s.user = user /\ c.of \in Visit /\ s \in Session
           /\ Alone(page, page', p)
           /\ page'[p].at = "session" /\ page'[p].user = s.user
           /\ page'[p].view = s.view /\ page'[p].items = s.items
           /\ page'[p].of = c.of /\ page'[p].off = c.off
<1>1. PICK c \in cursors :
        LET s == sessions[c.of] IN
        /\ s # Null
        /\ s.user = user
        /\ page' = [page EXCEPT ![p] =
             [at |-> "session", user |-> s.user, tax |-> s.tax,
              view |-> s.view, items |-> s.items, of |-> c.of,
              off |-> c.off, cursor |-> TRUE]]
  BY DEF Resume
<1>2. c \in Cursor /\ c.of \in Visit /\ c.off \in Nat /\ page \in Pages
  BY DEF ServingInv, PagesTyped, Cursor, Pages
<1> DEFINE s == sessions[c.of]
           row == [at |-> "session", user |-> s.user, tax |-> s.tax,
                   view |-> s.view, items |-> s.items, of |-> c.of,
                   off |-> c.off, cursor |-> TRUE]
<1>3. s \in Session
  BY <1>1, <1>2 DEF ServingInv, PagesTyped
<1>4. /\ s # Null /\ s.user = user
      /\ page' = [page EXCEPT ![p] = row]
  BY <1>1
<1> HIDE DEF s
<1>5. /\ row \in PageRow /\ row.at = "session" /\ row.user = s.user
      /\ row.view = s.view /\ row.items = s.items
      /\ row.of = c.of /\ row.off = c.off
  BY <1>2, <1>3 DEF Session, PageRow, VisitPlace
<1> HIDE DEF row
<1>6. Alone(page, page', p) /\ page'[p] = row
  BY <1>2, <1>4, <1>5 DEF Alone, Pages
<1> QED BY <1>2, <1>3, <1>4, <1>5, <1>6 DEF s

-----------------------------------------------------------------------------
(* What a step of a page request leaves true of the others.                *)

\* The sessions but for the one that is put are kept or deleted.
SessionsGoOn(p) ==
  \A q \in Visit :
    \/ sessions'[q] = sessions[q]
    \/ sessions'[q] = Null
    \/ q = p /\ page[p].at = "ranked"

LEMMA OthersFit ==
  ASSUME ServingInv, NEW p \in Visit, Alone(page, page', p), AccountMoves,
         page[p].at \in Settled => page'[p].at \in Settled,
         SessionsGoOn(p)
  PROVE  /\ \A q \in Visit : q # p => PageFits(q)' /\ ItemsFit(q)'
         /\ \A c \in cursors : CursorFits(c)'
<1>1. \A q \in Visit : page[q].at \in Settled => page'[q].at \in Settled
  BY DEF Alone
<1>2. \A q \in Visit : page[q].at \in Settled =>
        sessions'[q] = sessions[q] \/ sessions'[q] = Null
  BY DEF SessionsGoOn, Settled
<1>3. ASSUME NEW q \in Visit, q # p
      PROVE  PageFits(q)' /\ ItemsFit(q)'
  <2>1. page'[q] = page[q]
    BY <1>3 DEF Alone
  <2>2. ItemsFit(q)
    BY DEF ServingInv
  <2>3. ItemsFit(q)'
    <3>1. CASE page[q].at \in {"session", "page", "save", "expire"}
      <4>1. PICK o \in Visit : o = page[q].of
        BY <2>2, <3>1 DEF ItemsFit
      <4>2. page[o].at \in Settled
        BY <2>2, <3>1, <4>1 DEF ItemsFit
      <4>3. /\ page'[o].at \in Settled
            /\ sessions'[o] = sessions[o] \/ sessions'[o] = Null
        BY <1>1, <1>2, <4>2
      <4> QED BY <2>1, <2>2, <3>1, <4>1, <4>3 DEF ItemsFit
    <3>2. CASE page[q].at \notin {"session", "page", "save", "expire"}
      BY <2>1, <2>2, <3>2 DEF ItemsFit
    <3> QED BY <3>1, <3>2
  <2> QED BY <2>1, <2>3, OldPage
<1>4. ASSUME NEW c \in cursors
      PROVE  CursorFits(c)'
  <2>1. CursorFits(c) /\ c.of \in Visit
    BY DEF ServingInv, PagesTyped, Cursor
  <2>2. /\ page'[c.of].at \in Settled
        /\ sessions'[c.of] = sessions[c.of] \/ sessions'[c.of] = Null
    BY <1>1, <1>2, <2>1 DEF CursorFits
  <2> QED BY <2>1, <2>2 DEF CursorFits
<1> QED BY <1>3, <1>4

SessionStands(p) ==
  /\ SessionFits(p)
  /\ sessions[p] # Null => sessions[p].user \in floor + 1..user

\* Page requests change the profile only by creating its row.
VisitStays ==
  /\ AccountStays \/ AccountEnsured
  /\ inferred' = inferred /\ signals' = signals
  /\ catalog' = catalog /\ tax' = tax /\ moves' = moves
  /\ events' = events /\ act' = act

LEMMA AccountKept ==
  ASSUME ServingInv, VisitStays, \A q \in Visit : SessionStands(q)'
  PROVE  AccountTyped' /\ AccountFits' /\ WorldTyped' /\ ActsTyped'
<1>1. /\ user' \in Nat /\ floor' = floor /\ era' = era /\ StatesStay
      /\ user' = 0 => user = 0
      /\ user' # 0 => floor' < user'
  BY DEF ServingInv, VisitStays, AccountStays, AccountEnsured, Ensured,
         AccountTyped, AccountFits
<1>2. AccountTyped'
  BY <1>1 DEF ServingInv, VisitStays, AccountTyped, StatesStay
<1>3. (StateAndSignalsAgree)'
  BY <1>1
  DEF ServingInv, VisitStays, AccountFits, StateAndSignalsAgree, StatesStay
<1>4. (ProfileRowsStand)'
  <2>1. user' = 0 =>
          /\ \A t \in Tag : wanted'[t] = 0
          /\ inferred' \cup saved' \cup hidden' = {} /\ signals' = {}
    BY <1>1
    DEF ServingInv, VisitStays, AccountFits, ProfileRowsStand, StatesStay
  <2>2. \A q \in Visit :
          sessions'[q] # Null => sessions'[q].user \in floor' + 1..user'
    BY DEF SessionStands
  <2> QED BY <2>1, <2>2 DEF ProfileRowsStand
<1>5. WorldTyped' /\ ActsTyped'
  BY DEF ServingInv, VisitStays, WorldTyped, ActsTyped
<1> QED BY <1>1, <1>2, <1>3, <1>4, <1>5 DEF AccountFits

LEMMA VisitTogether ==
  ASSUME ServingInv, NEW p \in Visit, VisitStays, Alone(page, page', p),
         page[p].at \in Settled => page'[p].at \in Settled,
         SessionsGoOn(p), PageFits(p)', ItemsFit(p)',
         sessions' \in [Visit -> Session \cup {Null}], SessionStands(p)',
         cursors' \subseteq Cursor,
         \A c \in cursors' : c \in cursors \/ CursorFits(c)',
         tokens' \subseteq Token, requests' \subseteq Served1,
         requests \subseteq requests',
         \A q \in requests' : q \in requests \/ ServedFits(q)'
  PROVE  ServingInv'
<1>1. AccountMoves
  BY DEF VisitStays, AccountMoves
<1>2. \A q \in Visit : SessionStands(q)'
  <2> SUFFICES ASSUME NEW q \in Visit, q # p
               PROVE  SessionStands(q)'
    OBVIOUS
  <2>1. CASE sessions'[q] = sessions[q]
    BY <2>1, OldSession DEF VisitStays, SessionStands
  <2>2. CASE sessions'[q] = Null
    BY <2>2 DEF SessionStands, SessionFits
  <2> QED BY <2>1, <2>2 DEF SessionsGoOn
<1>3. AccountTyped' /\ AccountFits' /\ WorldTyped' /\ ActsTyped'
  BY <1>2, AccountKept
<1>4. /\ \A q \in Visit : q # p => PageFits(q)' /\ ItemsFit(q)'
      /\ \A c \in cursors : CursorFits(c)'
  BY <1>1, OthersFit
<1>5. \A q \in Visit : PageFits(q)' /\ SessionFits(q)' /\ ItemsFit(q)'
  BY <1>2, <1>4 DEF SessionStands
<1>6. PagesTyped' /\ RecordsTyped'
  BY DEF PagesTyped, RecordsTyped, Alone, Pages, ServingInv, VisitStays
<1>7. \A a \in Act : ActFits(a)'
  BY DEF ServingInv, VisitStays, ActFits
<1>8. \A q \in requests' : ServedFits(q)'
  BY <1>1, OldRequests
<1>9. (EventsOfTheirProfile)'
  BY DEF ServingInv, VisitStays, EventsOfTheirProfile
<1> QED
  BY <1>3, <1>4, <1>5, <1>6, <1>7, <1>8, <1>9 DEF ServingInv

\* A page request that only changes its own record.
LEMMA PageOnly ==
  ASSUME ServingInv, NEW p \in Visit, VisitStays, Alone(page, page', p),
         page[p].at \in Settled => page'[p].at \in Settled,
         PageFits(p)', ItemsFit(p)', sessions' = sessions,
         cursors' = cursors, tokens' = tokens, requests' = requests
  PROVE  ServingInv'
<1>1. SessionsGoOn(p) /\ sessions' \in [Visit -> Session \cup {Null}]
      /\ cursors' \subseteq Cursor /\ tokens' \subseteq Token
      /\ requests' \subseteq Served1
  BY DEF SessionsGoOn, ServingInv, PagesTyped, RecordsTyped
<1>2. SessionStands(p)'
  BY OldSession DEF VisitStays, SessionStands
<1> QED BY <1>1, <1>2, VisitTogether

-----------------------------------------------------------------------------
(* The steps of page requests.                                             *)

LEMMA FirstFits ==
  ASSUME ServingInv, NEW p \in Visit, First(p)
  PROVE  ServingInv'
<1>1. /\ VisitStays /\ sessions' = sessions /\ requests' = requests
      /\ cursors' = cursors /\ tokens' = tokens /\ page[p].at = "new"
  BY DEF First, VisitStays, AccountEnsured, StatesStay, world, client
<1>2. /\ Alone(page, page', p)
      /\ page'[p].at = "user" /\ page'[p].user = user'
      /\ page'[p].off = 0 /\ page'[p].items = << >>
      /\ page'[p].cursor = FALSE
  BY FirstVisit
<1>3. user' \in Nat /\ user' > 0
  BY DEF First, Ensured, ServingInv, AccountTyped
<1>4. PageFits(p)'
  BY <1>2, <1>3 DEF PageFits, Reached, Viewed
<1>5. ItemsFit(p)'
  BY <1>2 DEF ItemsFit
<1>6. page[p].at \notin Settled
  BY <1>1 DEF Settled
<1> QED BY <1>1, <1>2, <1>4, <1>5, <1>6, PageOnly

LEMMA LoadFits ==
  ASSUME ServingInv, NEW p \in Visit, Load(p)
  PROVE  ServingInv'
<1>1. /\ VisitStays /\ sessions' = sessions /\ requests' = requests
      /\ cursors' = cursors /\ tokens' = tokens /\ page[p].at = "user"
      /\ AccountStays
  BY DEF Load, VisitStays, AccountStays, StatesStay, account, world, client
<1>2. /\ Alone(page, page', p)
      /\ page'[p].at = "ranked" /\ page'[p].user = page[p].user
      /\ page'[p].view = View /\ page'[p].of = p
      /\ page'[p].off = page[p].off
      /\ page'[p].cursor = page[p].cursor
  BY LoadedPage
<1>3. PageFits(p)'
  BY <1>1, <1>2
  DEF ServingInv, PageFits, Reached, View, FreshView, AccountStays, StatesStay
<1>4. ItemsFit(p)'
  <2>1. ItemsFit(p)
    BY DEF ServingInv
  <2>2. Len(page'[p].items) \in Nat
    BY <1>2 DEF Alone, Pages, PageRow
  <2> QED BY <1>1, <1>2, <2>1, <2>2 DEF ItemsFit
<1>5. page[p].at \notin Settled
  BY <1>1 DEF Settled
<1> QED BY <1>1, <1>2, <1>3, <1>4, <1>5, PageOnly

\* A page request that keeps its page and moves on.
LEMMA TurnFits ==
  ASSUME ServingInv, NEW p \in Visit, AccountStays,
         NEW place \in {"page", "save", "expire"}, PageTurns(p, place),
         page[p].at \in {"session", "page", "save"},
         page'[p].cursor = page[p].cursor, sessions' = sessions
  PROVE  PageFits(p)' /\ ItemsFit(p)' /\ page'[p].at \in Settled
<1>1. PageFits(p) /\ ItemsFit(p)
  BY DEF ServingInv
<1>2. PageFits(p)'
  BY <1>1
  DEF PageTurns, PageFits, Reached, FreshView, AccountStays, StatesStay,
      Viewed
<1>3. page'[p].at \in Settled
  BY DEF PageTurns, Settled, VisitPlace
<1>4. PICK o \in Visit : o = page[p].of
  BY <1>1 DEF ItemsFit
<1>5. page'[o].at \in Settled
  BY <1>1, <1>3, <1>4 DEF ItemsFit, PageTurns, Alone
<1>6. ItemsFit(p)'
  BY <1>1, <1>4, <1>5 DEF ItemsFit, PageTurns
<1> QED BY <1>2, <1>3, <1>6

\* A page request that is over.
LEMMA EndFits ==
  ASSUME NEW p \in Visit, page'[p].at = "done", page'[p].user = 0,
         page'[p].off = 0, page'[p].items = << >>,
         floor' \in Nat
  PROVE  PageFits(p)' /\ ItemsFit(p)' /\ page'[p].at \in Settled
BY DEF PageFits, Reached, Viewed, ItemsFit, Settled, VisitPlace

LEMMA TurnsAside ==
  ASSUME ServingInv, NEW p \in Visit, Compare(p) \/ Refuse(p) \/ Available(p)
  PROVE  ServingInv'
<1>1. /\ VisitStays /\ sessions' = sessions /\ requests' = requests
      /\ cursors' = cursors /\ tokens' = tokens /\ AccountStays
      /\ floor' \in Nat
  BY DEF Compare, Refuse, Available, VisitStays, AccountStays, StatesStay,
         account, world, client, ServingInv, AccountTyped
<1>2. CASE Compare(p) \/ Available(p)
  <2>1. PICK place \in {"page", "save", "expire"} :
          page' = [page EXCEPT ![p].at = place]
    BY <1>2 DEF Compare, Available
  <2>2. PageTurns(p, place) /\ page'[p].cursor = page[p].cursor
    BY <2>1, PageTurned DEF VisitPlace
  <2>3. page[p].at \in {"session", "page"}
    BY <1>2 DEF Compare, Available
  <2>4. PageFits(p)' /\ ItemsFit(p)' /\ page'[p].at \in Settled
    BY <1>1, <2>2, <2>3, TurnFits
  <2> QED BY <1>1, <2>2, <2>4, PageOnly DEF PageTurns
<1>3. CASE Refuse(p)
  <2>1. /\ Alone(page, page', p)
        /\ page'[p].at = "done" /\ page'[p].user = 0
        /\ page'[p].off = 0 /\ page'[p].items = << >>
    BY <1>3, PageEnds DEF Refuse
  <2> QED BY <1>1, <2>1, EndFits, PageOnly
<1> QED BY <1>2, <1>3

LEMMA ResumeFits ==
  ASSUME ServingInv, NEW p \in Visit, Resume(p)
  PROVE  ServingInv'
<1>1. /\ VisitStays /\ sessions' = sessions /\ requests' = requests
      /\ cursors' = cursors /\ tokens' = tokens /\ AccountStays
      /\ page[p].at = "new"
  BY DEF Resume, VisitStays, AccountStays, StatesStay, account, world, client
<1>2. PICK c \in cursors :
        LET s == sessions[c.of] IN
        /\ s # Null /\ s.user = user /\ c.of \in Visit /\ s \in Session
        /\ Alone(page, page', p)
        /\ page'[p].at = "session" /\ page'[p].user = s.user
        /\ page'[p].view = s.view /\ page'[p].items = s.items
        /\ page'[p].of = c.of /\ page'[p].off = c.off
  BY ResumedPage
<1>3. PICK o \in Visit : o = c.of
  BY <1>2
<1>4. /\ sessions[o] # Null /\ sessions[o].user = user
      /\ SessionFits(o) /\ sessions[o].user \in floor + 1..user
      /\ CursorFits(c) /\ user \in Nat /\ floor \in Nat
      /\ o # p
  BY <1>1, <1>2, <1>3
  DEF ServingInv, AccountFits, ProfileRowsStand, AccountTyped, CursorFits,
      Settled
<1>5. PageFits(p)'
  BY <1>1, <1>2, <1>3, <1>4
  DEF PageFits, Reached, SessionFits, FreshView, AccountStays, StatesStay
<1>6. page'[o].at \in Settled
  BY <1>2, <1>3, <1>4 DEF CursorFits, Alone
<1>7. ItemsFit(p)'
  BY <1>1, <1>2, <1>3, <1>4, <1>6 DEF ItemsFit, CursorFits
<1>8. page[p].at \notin Settled
  BY <1>1 DEF Settled
<1> QED BY <1>1, <1>2, <1>5, <1>7, <1>8, PageOnly

LEMMA PutFits ==
  ASSUME ServingInv, NEW p \in Visit, Put(p)
  PROVE  ServingInv'
<1>1. /\ VisitStays /\ AccountStays /\ requests' = requests
      /\ cursors' = cursors /\ tokens' = tokens /\ page[p].at = "ranked"
  BY DEF Put, VisitStays, AccountStays, StatesStay, account, world, client
<1>2. /\ PageFits(p) /\ ItemsFit(p) /\ page[p] \in PageRow
      /\ page[p].of = p /\ ~page[p].cursor /\ page[p].user > 0
      /\ page[p].cursor = FALSE
  BY <1>1 DEF ServingInv, ItemsFit, PageFits, PagesTyped, PageRow
<1>3. \A heard \in BOOLEAN :
        PageTurns(p, "page") /\ page'[p].cursor = heard =>
          /\ PageFits(p)' /\ page'[p].at \in Settled
          /\ heard => page'[p].cursor
  BY <1>1, <1>2
  DEF PageTurns, PageFits, Reached, FreshView, AccountStays, StatesStay,
      Viewed, Settled, VisitPlace
<1>4. CASE /\ user = page[p].user /\ tax.version = page[p].tax
           /\ sessions' = [sessions EXCEPT ![p] = SessionRow(p)]
           /\ \E heard \in BOOLEAN :
                page' = [page EXCEPT ![p].at = "page", ![p].cursor = heard]
  <2>1. PICK heard \in BOOLEAN :
          page' = [page EXCEPT ![p].at = "page", ![p].cursor = heard]
    BY <1>4
  <2>2. PageTurns(p, "page") /\ page'[p].cursor = heard
    BY <2>1, PageKept
  <2>3. /\ SessionRow(p) \in Session /\ SessionRow(p).user = page[p].user
        /\ SessionRow(p).view = page[p].view
        /\ SessionRow(p).items = page[p].items
    BY <1>2 DEF SessionRow, Session, PageRow
  <2>4. /\ sessions' \in [Visit -> Session \cup {Null}]
        /\ sessions'[p] = SessionRow(p)
        /\ \A q \in Visit : q # p => sessions'[q] = sessions[q]
    BY <1>4, <2>3 DEF ServingInv, PagesTyped
  <2>5. SessionsGoOn(p)
    BY <1>1, <2>4 DEF SessionsGoOn
  <2>6. FreshView(page[p].view)
    BY <1>1, <1>2, <1>4 DEF PageFits, Viewed
  <2>7. SessionFits(p)'
    BY <1>1, <2>3, <2>4, <2>6
    DEF SessionFits, FreshView, AccountStays, StatesStay
  <2>8. sessions'[p].user \in floor' + 1..user'
    BY <1>1, <1>2, <1>4, <2>3, <2>4
    DEF ServingInv, AccountFits, AccountTyped, AccountStays
  <2>9. ItemsFit(p)'
    BY <1>2, <1>3, <2>2, <2>3, <2>4 DEF ItemsFit, PageTurns
  <2>10. PageFits(p)' /\ page'[p].at \in Settled
    BY <1>3, <2>2
  <2>11. cursors' \subseteq Cursor /\ tokens' \subseteq Token
         /\ requests' \subseteq Served1
    BY <1>1 DEF ServingInv, PagesTyped, RecordsTyped
  <2> QED
    BY <1>1, <2>2, <2>4, <2>5, <2>7, <2>8, <2>9, <2>10, <2>11, VisitTogether
    DEF PageTurns, SessionStands
<1>5. CASE sessions' = sessions /\ page' = [page EXCEPT ![p].at = "page"]
  <2>1. PageTurns(p, "page") /\ page'[p].cursor = FALSE
    BY <1>2, <1>5, PageTurned DEF VisitPlace
  <2>2. PageFits(p)' /\ page'[p].at \in Settled
    BY <1>3, <2>1
  <2>3. ItemsFit(p)'
    BY <1>2, <2>1, <2>2 DEF ItemsFit, PageTurns
  <2> QED BY <1>1, <1>5, <2>1, <2>2, <2>3, PageOnly DEF PageTurns
<1> QED BY <1>4, <1>5 DEF Put

LEMMA ExpireFits ==
  ASSUME ServingInv, NEW p \in Visit, ExpireSession(p)
  PROVE  ServingInv'
<1>1. /\ VisitStays /\ AccountStays /\ requests' = requests
      /\ cursors' = cursors /\ tokens' = tokens
      /\ floor' \in Nat /\ page[p].at = "expire"
  BY DEF ExpireSession, VisitStays, AccountStays, StatesStay, account, world,
         client, ServingInv, AccountTyped
<1>2. /\ Alone(page, page', p)
      /\ page'[p].at = "done" /\ page'[p].user = 0
      /\ page'[p].off = 0 /\ page'[p].items = << >>
  BY PageEnds DEF ExpireSession
<1>3. /\ sessions' \in [Visit -> Session \cup {Null}]
      /\ \A q \in Visit : sessions'[q] = sessions[q] \/ sessions'[q] = Null
  BY DEF ExpireSession, ServingInv, PagesTyped
<1>4. PageFits(p)' /\ ItemsFit(p)' /\ page'[p].at \in Settled
  BY <1>1, <1>2, EndFits
<1>5. SessionsGoOn(p)
  BY <1>3 DEF SessionsGoOn
<1>6. SessionStands(p)'
  <2>1. CASE sessions'[p] = sessions[p]
    BY <1>1, <2>1, OldSession DEF SessionStands
  <2>2. CASE sessions'[p] = Null
    BY <2>2 DEF SessionStands, SessionFits
  <2> QED BY <1>3, <2>1, <2>2
<1>7. cursors' \subseteq Cursor /\ tokens' \subseteq Token
      /\ requests' \subseteq Served1
  BY <1>1 DEF ServingInv, PagesTyped, RecordsTyped
<1> QED BY <1>1, <1>2, <1>3, <1>4, <1>5, <1>6, <1>7, VisitTogether

LEMMA SaveFits ==
  ASSUME ServingInv, NEW p \in Visit, Save(p)
  PROVE  ServingInv'
<1>1. /\ VisitStays /\ AccountStays /\ sessions' = sessions
      /\ floor' \in Nat /\ page[p].at = "save" /\ user = page[p].user
  BY DEF Save, VisitStays, AccountStays, StatesStay, account, world,
         ServingInv, AccountTyped
<1>2. /\ PageFits(p) /\ ItemsFit(p) /\ page[p] \in PageRow
  BY DEF ServingInv, PagesTyped
<1>3. CASE tax.version = page[p].tax /\ \A v \in Served(p) : Stands(v)
  <2> DEFINE new == {[id |-> p, repo |-> v.repo, user |-> page[p].user,
                      tax |-> page[p].tax, era |-> era] : v \in Served(p)}
             tok == {[request |-> p, repo |-> v.repo,
                      user |-> page[p].user] : v \in Served(p)}
             cur == {[of |-> page[p].of, off |-> o] : o \in
                       {n \in {page[p].off + 1} :
                          page[p].cursor /\ n < Len(page[p].items)}}
  <2>1. /\ requests' = requests \cup new
        /\ \/ tokens' = tokens \cup tok /\ cursors' = cursors \cup cur
           \/ tokens' = tokens /\ cursors' = cursors
        /\ page' = [page EXCEPT ![p] = [NewPage EXCEPT !.at = "done"]]
    BY <1>3 DEF Save, client
  <2>2. /\ Alone(page, page', p)
        /\ page'[p].at = "done" /\ page'[p].user = 0
        /\ page'[p].off = 0 /\ page'[p].items = << >>
    BY <2>1, PageEnds
  <2>3. PageFits(p)' /\ ItemsFit(p)' /\ page'[p].at \in Settled
    BY <1>1, <2>2, EndFits
  <2>4. Served(p) \subseteq Item
    BY <1>2 DEF Served, PageRow
  <2>5. /\ page[p].user > 0 /\ page[p].user \in Nat /\ page[p].tax \in Nat
        /\ era \in Nat /\ user \in Nat /\ floor \in Nat
    BY <1>1, <1>2 DEF PageFits, PageRow, ServingInv, AccountTyped
  <2>6. new \subseteq Served1 /\ tok \subseteq Token
    BY <2>4, <2>5 DEF Item, Served1, Token
  <2>7. \A q \in new : q.user = user /\ q.era = era
    BY <1>1
  <2>8. ASSUME NEW q \in new
        PROVE  ServedFits(q)'
    BY <1>1, <2>5, <2>7 DEF ServedFits, Reached, AccountStays
  <2>9. PICK o \in Visit : o = page[p].of
    BY <1>1, <1>2 DEF ItemsFit
  <2>10. /\ page'[o].at \in Settled
         /\ page[p].cursor /\ sessions'[o] # Null =>
              sessions'[o].items = page[p].items
    BY <1>1, <1>2, <2>2, <2>3, <2>9 DEF ItemsFit, Alone
  <2>11. Len(page[p].items) \in Nat /\ page[p].off \in Nat
    BY <1>2 DEF PageRow
  <2>12. ASSUME NEW c \in cur
         PROVE  c \in Cursor /\ CursorFits(c)'
    <3>1. /\ c = [of |-> o, off |-> page[p].off + 1]
          /\ page[p].cursor /\ page[p].off + 1 < Len(page[p].items)
      BY <2>9
    <3>2. /\ c.of = o /\ c.off = page[p].off + 1 /\ c \in Cursor
      BY <2>11, <3>1 DEF Cursor
    <3> QED BY <2>10, <2>11, <3>1, <3>2 DEF CursorFits
  <2>13. /\ tokens' \subseteq Token /\ cursors' \subseteq Cursor
         /\ \A c \in cursors' : c \in cursors \/ CursorFits(c)'
    BY <2>1, <2>6, <2>12 DEF ServingInv, PagesTyped, RecordsTyped
  <2>14. /\ requests' \subseteq Served1 /\ requests \subseteq requests'
         /\ \A q \in requests' : q \in requests \/ ServedFits(q)'
    BY <2>1, <2>6, <2>8 DEF ServingInv, RecordsTyped
  <2>15. /\ sessions' \in [Visit -> Session \cup {Null}] /\ SessionsGoOn(p)
         /\ SessionStands(p)'
    BY <1>1, OldSession
    DEF SessionStands, SessionsGoOn, ServingInv, PagesTyped
  <2> HIDE DEF new, tok, cur
  <2> QED BY <1>1, <2>2, <2>3, <2>13, <2>14, <2>15, VisitTogether
<1>4. CASE ~(tax.version = page[p].tax /\ \A v \in Served(p) : Stands(v))
  <2>1. /\ page' = [page EXCEPT ![p].at = "expire"]
        /\ requests' = requests /\ cursors' = cursors /\ tokens' = tokens
    BY <1>4 DEF Save, client
  <2>2. PageTurns(p, "expire")
    BY <2>1, PageTurned DEF VisitPlace
  <2>3. page'[p].cursor = page[p].cursor
    BY <2>1, PageTurned DEF VisitPlace
  <2>4. PageFits(p)' /\ ItemsFit(p)' /\ page'[p].at \in Settled
    BY <1>1, <2>2, <2>3, TurnFits
  <2> QED BY <1>1, <2>1, <2>2, <2>4, PageOnly DEF PageTurns
<1> QED BY <1>3, <1>4

-----------------------------------------------------------------------------
(* The steps of commands.                                                  *)

LEMMA DoneFits ==
  ASSUME ServingInv, NEW a \in Act, Done(a)
  PROVE  ActsTyped' /\ \A b \in Act : ActFits(b)'
<1> DEFINE row == [NewAct EXCEPT !.at = "done"]
<1>1. row \in ActRow /\ row.at = "done"
  BY DEF NewAct, ActRow
<1>2. act' = [act EXCEPT ![a] = row] /\ act \in [Act -> ActRow]
  BY DEF Done, ServingInv, ActsTyped
<1> HIDE DEF row
<1> QED BY <1>1, <1>2 DEF ActsTyped, ActFits, ServingInv

LEMMA AskFits ==
  ASSUME ServingInv, NEW a \in Act, Ask(a) \/ AskDelete(a)
  PROVE  ActsTyped' /\ \A b \in Act : ActFits(b)'
<1>1. PICK row \in ActRow :
        act' = [act EXCEPT ![a] = row] /\ (row.at = "asked" => row.user > 0)
  <2>1. CASE Ask(a)
    <3>1. user' \in Nat /\ user' > 0 /\ floor \in Nat
      BY <2>1 DEF Ask, Ensured, ServingInv, AccountTyped
    <3>2. [at |-> "asked", user |-> user', floor |-> floor] \in ActRow
      BY <3>1 DEF ActRow
    <3> QED BY <2>1, <3>1, <3>2 DEF Ask
  <2>2. CASE AskDelete(a)
    <3>1. user \in Nat /\ floor \in Nat
      BY DEF ServingInv, AccountTyped
    <3>2. [at |-> "deleting", user |-> user, floor |-> floor] \in ActRow
      BY <3>1 DEF ActRow
    <3> QED BY <2>2, <3>2 DEF AskDelete
  <2> QED BY <2>1, <2>2
<1>2. act \in [Act -> ActRow]
  BY DEF ServingInv, ActsTyped
<1> QED BY <1>1, <1>2 DEF ActsTyped, ActFits, ServingInv

\* What commands leave alone.
PagesLeft ==
  /\ page' = page /\ cursors' = cursors /\ tokens' = tokens
  /\ requests' = requests
WorldLeft == catalog' = catalog /\ tax' = tax /\ moves' = moves

LEMMA PagesStillFit ==
  ASSUME ServingInv, AccountMoves, PagesLeft,
         \/ sessions' = sessions
         \/ \A p \in Visit : sessions'[p] = Null
  PROVE  /\ \A p \in Visit : PageFits(p)' /\ ItemsFit(p)'
         /\ \A c \in cursors' : CursorFits(c)'
         /\ \A q \in requests' : ServedFits(q)'
<1>1. ASSUME NEW p \in Visit
      PROVE  PageFits(p)' /\ ItemsFit(p)'
  <2>1. page'[p] = page[p] /\ ItemsFit(p)
    BY DEF PagesLeft, ServingInv
  <2>2. ItemsFit(p)'
    <3>1. CASE page[p].at \in {"session", "page", "save", "expire"}
      <4>1. PICK o \in Visit : o = page[p].of
        BY <2>1, <3>1 DEF ItemsFit
      <4>2. page'[o] = page[o] /\ (sessions'[o] = sessions[o]
                                   \/ sessions'[o] = Null)
        BY DEF PagesLeft
      <4> QED BY <2>1, <3>1, <4>1, <4>2 DEF ItemsFit
    <3>2. CASE page[p].at \notin {"session", "page", "save", "expire"}
      BY <2>1, <3>2 DEF ItemsFit
    <3> QED BY <3>1, <3>2
  <2> QED BY <2>1, <2>2, OldPage
<1>2. ASSUME NEW c \in cursors
      PROVE  CursorFits(c)'
  <2>1. c.of \in Visit /\ CursorFits(c)
    BY DEF ServingInv, PagesTyped, Cursor
  <2>2. /\ page'[c.of] = page[c.of]
        /\ sessions'[c.of] = sessions[c.of] \/ sessions'[c.of] = Null
    BY <2>1 DEF PagesLeft
  <2> QED BY <2>1, <2>2 DEF CursorFits
<1>3. \A q \in requests : ServedFits(q)'
  BY OldRequests
<1> QED BY <1>1, <1>2, <1>3 DEF PagesLeft

\* A command that does not delete the profile.
LEMMA ActTogether ==
  ASSUME ServingInv, AccountStays \/ AccountAdvances \/ AccountEnsured,
         AccountTyped', PagesLeft, sessions' = sessions, WorldLeft,
         (StateAndSignalsAgree)',
         \/ user' # 0
         \/ StatesStay /\ inferred' = inferred /\ signals' = signals,
         ActsTyped', \A a \in Act : ActFits(a)',
         events' \subseteq Event, (EventsOfTheirProfile)'
  PROVE  ServingInv'
<1>1. AccountMoves
  BY DEF AccountMoves
<1>2. /\ \A p \in Visit : PageFits(p)' /\ ItemsFit(p)'
      /\ \A c \in cursors' : CursorFits(c)'
      /\ \A q \in requests' : ServedFits(q)'
  BY <1>1, PagesStillFit
<1>3. \A p \in Visit : SessionStands(p)'
  BY OldSession DEF SessionStands
<1>4. /\ user' = 0 => user = 0
      /\ user' # 0 => floor' < user'
  BY DEF ServingInv, AccountTyped, AccountFits, AccountStays,
         AccountAdvances, AccountEnsured, Ensured
<1>5. (ProfileRowsStand)'
  <2>1. user' = 0 =>
          /\ \A t \in Tag : wanted'[t] = 0
          /\ inferred' \cup saved' \cup hidden' = {} /\ signals' = {}
    BY <1>4 DEF ServingInv, AccountFits, ProfileRowsStand, StatesStay
  <2>2. \A p \in Visit :
          sessions'[p] # Null => sessions'[p].user \in floor' + 1..user'
    BY <1>3 DEF SessionStands
  <2> QED BY <2>1, <2>2 DEF ProfileRowsStand
<1>6. AccountFits'
  BY <1>4, <1>5 DEF AccountFits
<1>7. WorldTyped' /\ PagesTyped' /\ RecordsTyped'
  BY DEF ServingInv, WorldTyped, PagesTyped, RecordsTyped, PagesLeft, WorldLeft
<1>8. \A p \in Visit : PageFits(p)' /\ SessionFits(p)' /\ ItemsFit(p)'
  BY <1>2, <1>3 DEF SessionStands
<1> QED BY <1>2, <1>6, <1>7, <1>8 DEF ServingInv

LEMMA AsksFit ==
  ASSUME ServingInv, NEW a \in Act, Ask(a) \/ AskDelete(a) \/ ActFails(a)
  PROVE  ServingInv'
<1>1. /\ PagesLeft /\ WorldLeft /\ sessions' = sessions /\ events' = events
      /\ StatesStay /\ inferred' = inferred /\ signals' = signals
      /\ AccountStays \/ AccountEnsured
  BY DEF Ask, AskDelete, ActFails, PagesLeft, WorldLeft, StatesStay,
         AccountStays, AccountEnsured, account, world, client
<1>2. AccountTyped' /\ (StateAndSignalsAgree)'
  BY <1>1
  DEF ServingInv, AccountTyped, AccountFits, StateAndSignalsAgree,
      AccountStays, AccountEnsured, StatesStay, Ensured
<1>3. ActsTyped' /\ \A b \in Act : ActFits(b)'
  BY AskFits, DoneFits DEF ActFails, Done
<1>4. events' \subseteq Event /\ (EventsOfTheirProfile)'
  BY <1>1 DEF ServingInv, RecordsTyped, EventsOfTheirProfile, PagesLeft
<1> QED BY <1>1, <1>2, <1>3, <1>4, ActTogether

\* A command was asked for a profile that has a row.
LEMMA AskedStands ==
  ASSUME ServingInv, NEW a \in Act, act[a].at = "asked", user = act[a].user
  PROVE  user > 0 /\ user \in Nat
BY DEF ServingInv, ActFits, AccountTyped

LEMMA InferredTyped ==
  ASSUME ServingInv, NEW S
  PROVE  Inferred(S) \subseteq Tag
BY DEF ServingInv, WorldTyped, Taxonomy, Inferred

LEMMA PreferFits ==
  ASSUME ServingInv, NEW a \in Act, Prefer(a)
  PROVE  ServingInv'
<1>1. user > 0 /\ user \in Nat
  BY AskedStands DEF Prefer
<1>2. /\ PagesLeft /\ WorldLeft /\ sessions' = sessions /\ events' = events
      /\ AccountAdvances /\ inferred' = inferred /\ signals' = signals
      /\ saved' = saved /\ hidden' = hidden
  BY <1>1 DEF Prefer, PagesLeft, WorldLeft, AccountAdvances, world, client
<1>3. AccountTyped' /\ (StateAndSignalsAgree)' /\ user' # 0
  BY <1>1, <1>2
  DEF Prefer, ServingInv, AccountTyped, AccountFits, StateAndSignalsAgree,
      AccountAdvances
<1>4. ActsTyped' /\ \A b \in Act : ActFits(b)'
  BY DoneFits DEF Prefer
<1>5. events' \subseteq Event /\ (EventsOfTheirProfile)'
  BY <1>2 DEF ServingInv, RecordsTyped, EventsOfTheirProfile, PagesLeft
<1> QED BY <1>2, <1>3, <1>4, <1>5, ActTogether

LEMMA SetStateFits ==
  ASSUME ServingInv, NEW a \in Act, SetState(a)
  PROVE  ServingInv'
<1>1. PICK t \in tokens, value \in BOOLEAN :
        /\ Trusts(a, t) /\ Admits(a, t)
        /\ \/ /\ saved' = With(saved, t.repo, value)
              /\ hidden' = IF value THEN hidden \ {t.repo} ELSE hidden
              /\ user' = Bumped(value # (t.repo \in saved))
           \/ /\ hidden' = With(hidden, t.repo, value)
              /\ saved' = IF value THEN saved \ {t.repo} ELSE saved
              /\ user' = Bumped(value # (t.repo \in hidden))
        /\ signals' = SavedSignals(t.repo)
  BY DEF SetState
<1>2. PICK x \in Repo : x = t.repo
  BY DEF ServingInv, RecordsTyped, Token
<1>3. user > 0 /\ user \in Nat
  BY <1>1, AskedStands DEF SetState, Admits
<1>4. /\ PagesLeft /\ WorldLeft /\ sessions' = sessions /\ events' = events
      /\ wanted' = wanted /\ floor' = floor /\ era' = era
      /\ inferred' = Inferred(signals')
  BY DEF SetState, PagesLeft, WorldLeft, world, client
<1>5. /\ saved \subseteq Repo /\ hidden \subseteq Repo
      /\ signals \subseteq Repo \X Kind /\ saved \cap hidden = {}
      /\ \A r \in Repo : <<r, "saved">> \in signals <=> r \in saved
  BY DEF ServingInv, AccountTyped, AccountFits, StateAndSignalsAgree
<1>6. user' = user \/ user' = user + 1
  BY <1>1, <1>3 DEF Bumped
<1>7. /\ saved' \subseteq Repo /\ hidden' \subseteq Repo
      /\ saved' \cap hidden' = {}
      /\ \A r \in Repo : r # x => (r \in saved' <=> r \in saved)
  BY <1>1, <1>2, <1>5 DEF With
<1>8. user' = user => saved' = saved /\ hidden' = hidden
  <2>1. ASSUME saved' = With(saved, x, value),
               hidden' = IF value THEN hidden \ {x} ELSE hidden,
               value <=> x \in saved
        PROVE  saved' = saved /\ hidden' = hidden
    BY <1>5, <2>1 DEF With
  <2>2. ASSUME hidden' = With(hidden, x, value),
               saved' = IF value THEN saved \ {x} ELSE saved,
               value <=> x \in hidden
        PROVE  saved' = saved /\ hidden' = hidden
    BY <1>5, <2>2 DEF With
  <2>3. ASSUME user' = Bumped(value # (x \in saved)), user' = user
        PROVE  value <=> x \in saved
    <3>1. user + 1 # user
      BY <1>3
    <3> QED BY <2>3, <3>1 DEF Bumped
  <2>4. ASSUME user' = Bumped(value # (x \in hidden)), user' = user
        PROVE  value <=> x \in hidden
    <3>1. user + 1 # user
      BY <1>3
    <3> QED BY <2>4, <3>1 DEF Bumped
  <2> QED BY <1>1, <1>2, <2>1, <2>2, <2>3, <2>4
<1>9. AccountStays \/ AccountAdvances
  BY <1>3, <1>4, <1>6, <1>8 DEF AccountStays, AccountAdvances, StatesStay
<1>10. /\ signals' \subseteq Repo \X Kind
       /\ \A r \in Repo : <<r, "saved">> \in signals' <=> r \in saved'
  BY <1>1, <1>2, <1>5, <1>7 DEF SavedSignals, Kind
<1>11. AccountTyped' /\ (StateAndSignalsAgree)' /\ user' # 0
  <2>1. inferred' \subseteq Tag
    BY <1>4, InferredTyped
  <2>2. (StateAndSignalsAgree)'
    BY <1>7, <1>10 DEF StateAndSignalsAgree
  <2> QED
    BY <1>3, <1>4, <1>6, <1>7, <1>10, <2>1, <2>2 DEF ServingInv, AccountTyped
<1>12. ActsTyped' /\ \A b \in Act : ActFits(b)'
  BY DoneFits DEF SetState
<1>13. events' \subseteq Event /\ (EventsOfTheirProfile)'
  BY <1>4 DEF ServingInv, RecordsTyped, EventsOfTheirProfile, PagesLeft
<1> QED BY <1>4, <1>9, <1>11, <1>12, <1>13, ActTogether

\* Who the token names is the profile that stands, so the event is of it.
LEMMA AppendFits ==
  ASSUME ServingInv, NEW a \in Act, AppendEvent(a)
  PROVE  ServingInv'
<1>1. PICK t \in tokens, id \in EventId, type \in {"impression", "outbound"} :
        /\ Trusts(a, t) /\ Admits(a, t)
        /\ IF id \in {e.id : e \in events}
           THEN UNCHANGED <<events, signals>>
           ELSE /\ events' = events \cup
                     {[id |-> id, request |-> t.request, repo |-> t.repo,
                       type |-> type, user |-> act[a].user, era |-> era]}
                /\ signals' = signals \cup
                     {s \in {<<t.repo, "outbound">>} : type = "outbound"}
  BY DEF AppendEvent
<1>2. t \in Token
  BY DEF ServingInv, RecordsTyped
<1>3. user > 0 /\ user \in Nat /\ era \in Nat /\ user = act[a].user
  BY <1>1, AskedStands DEF AppendEvent, Admits, ServingInv, AccountTyped
<1>4. /\ PagesLeft /\ WorldLeft /\ sessions' = sessions
      /\ StatesStay /\ floor' = floor /\ era' = era
      /\ inferred' = Inferred(signals') /\ user' = Bumped(signals' # signals)
  BY DEF AppendEvent, PagesLeft, WorldLeft, StatesStay, world, client
<1>5. user' = user \/ user' = user + 1
  BY <1>3, <1>4 DEF Bumped
<1>6. AccountStays \/ AccountAdvances
  BY <1>3, <1>4, <1>5 DEF AccountStays, AccountAdvances
<1>7. /\ signals' \subseteq Repo \X Kind
      /\ \A r \in Repo :
           <<r, "saved">> \in signals' <=> <<r, "saved">> \in signals
  <2>1. signals \subseteq Repo \X Kind
    BY DEF ServingInv, AccountTyped
  <2>2. CASE signals' = signals
    BY <2>1, <2>2
  <2>3. CASE signals' = signals \cup
                 {s \in {<<t.repo, "outbound">>} : type = "outbound"}
    <3>1. <<t.repo, "outbound">> \in Repo \X Kind
      BY <1>2 DEF Token, Kind
    <3> QED BY <2>1, <2>3, <3>1
  <2> QED BY <1>1, <2>2, <2>3
<1>8. AccountTyped' /\ (StateAndSignalsAgree)' /\ user' # 0
  <2>1. inferred' \subseteq Tag
    BY <1>4, InferredTyped
  <2>2. (StateAndSignalsAgree)'
    BY <1>4, <1>7
    DEF StatesStay, StateAndSignalsAgree, ServingInv, AccountFits
  <2> QED
    BY <1>3, <1>4, <1>5, <1>7, <2>1, <2>2
    DEF ServingInv, AccountTyped, StatesStay
<1>9. ActsTyped' /\ \A b \in Act : ActFits(b)'
  BY DoneFits DEF AppendEvent
<1>10. PICK q \in requests :
         /\ q.id = t.request /\ q.repo = t.repo
         /\ q.user <= user /\ q.user > floor
  BY <1>1, <1>3 DEF Admits, Relation
<1>11. q.era = era
  BY <1>10 DEF ServingInv, ServedFits
<1>12. CASE events' = events
  BY <1>4, <1>6, <1>8, <1>9, <1>12, ActTogether
  DEF ServingInv, RecordsTyped, EventsOfTheirProfile, PagesLeft
<1>13. CASE id \notin {e.id : e \in events}
  <2> DEFINE new == [id |-> id, request |-> t.request, repo |-> t.repo,
                     type |-> type, user |-> act[a].user, era |-> era]
  <2>1. /\ new \in Event /\ new.request = t.request /\ new.repo = t.repo
        /\ new.era = era /\ new.user = user
    BY <1>2, <1>3 DEF Token, Event
  <2>2. events' = events \cup {new}
    BY <1>1, <1>13
  <2> HIDE DEF new
  <2>3. requests' = requests
    BY <1>4 DEF PagesLeft
  <2>4. (EventsOfTheirProfile)'
    BY <1>10, <1>11, <2>1, <2>2, <2>3 DEF ServingInv, EventsOfTheirProfile
  <2>5. events' \subseteq Event
    BY <2>1, <2>2 DEF ServingInv, RecordsTyped
  <2> QED BY <1>4, <1>6, <1>8, <1>9, <2>4, <2>5, ActTogether
<1> QED BY <1>1, <1>12, <1>13

LEMMA HighestFloor ==
  ASSUME AccountTyped
  PROVE  NewFloor \in Nat /\ user <= NewFloor /\ floor <= NewFloor
<1> DEFINE S == {1, user, floor}
<1>1. \E n \in S : \A m \in S : m <= n
  BY DEF AccountTyped
<1>2. NewFloor \in S /\ \A m \in S : m <= NewFloor
  BY <1>1 DEF NewFloor, Highest
<1> QED BY <1>2 DEF AccountTyped

LEMMA DeleteFits ==
  ASSUME ServingInv, NEW a \in Act, Delete(a)
  PROVE  ServingInv'
<1>1. AccountDeleted
  BY HighestFloor DEF Delete, AccountDeleted, ServingInv
<1>2. /\ PagesLeft /\ WorldLeft /\ events' = events
      /\ sessions' = [p \in Visit |-> Null]
      /\ user' = 0 /\ wanted' = [t \in Tag |-> 0]
      /\ inferred' = {} /\ saved' = {} /\ hidden' = {} /\ signals' = {}
      /\ era' = (IF user = 0 THEN era ELSE era + 1)
  BY DEF Delete, PagesLeft, WorldLeft, world, client
<1>3. AccountMoves
  BY <1>1 DEF AccountMoves
<1>4. \A p \in Visit : sessions'[p] = Null
  BY <1>2
<1>5. /\ \A p \in Visit : PageFits(p)' /\ ItemsFit(p)'
      /\ \A c \in cursors' : CursorFits(c)'
      /\ \A q \in requests' : ServedFits(q)'
  BY <1>2, <1>3, <1>4, PagesStillFit
<1>6. \A p \in Visit : SessionFits(p)'
  BY <1>4 DEF SessionFits
<1>7. AccountTyped'
  <2>1. era' \in Nat
    BY <1>2 DEF ServingInv, AccountTyped
  <2>2. wanted' \in [Tag -> {-1, 0, 1}]
    BY <1>2
  <2> QED BY <1>1, <1>2, <2>1, <2>2 DEF AccountTyped, AccountDeleted
<1>8. AccountFits'
  BY <1>2, <1>4 DEF AccountFits, ProfileRowsStand, StateAndSignalsAgree
<1>9. WorldTyped' /\ RecordsTyped'
  BY <1>2 DEF ServingInv, WorldTyped, RecordsTyped, PagesLeft, WorldLeft
<1>10. PagesTyped'
  BY <1>2 DEF ServingInv, PagesTyped, PagesLeft
<1>11. ActsTyped' /\ \A b \in Act : ActFits(b)'
  BY DoneFits DEF Delete
<1>12. (EventsOfTheirProfile)'
  BY <1>2 DEF ServingInv, EventsOfTheirProfile, PagesLeft
<1> QED
  BY <1>5, <1>6, <1>7, <1>8, <1>9, <1>10, <1>11, <1>12 DEF ServingInv

-----------------------------------------------------------------------------
(* The catalog and the taxonomy leave the profile and its pages alone.     *)

LEMMA MoveTyped ==
  ASSUME ServingInv, (\E r \in Repo : Materialize(r) \/ Withdraw(r)) \/ Govern
  PROVE  WorldTyped'
<1>1. /\ catalog \in [Repo -> Project] /\ tax \in Taxonomy
      /\ moves \in 0..MaxMoves
      /\ \A r \in Repo : catalog[r].rev + moves <= MaxMoves + 1
      /\ tax.version + moves <= MaxMoves + 1 /\ MaxMoves \in Nat
  BY ServingAssumption DEF ServingInv, WorldTyped, ServingAssumption
<1>2. moves > 0 /\ moves' = moves - 1 /\ moves' \in 0..MaxMoves
  BY <1>1 DEF Materialize, Withdraw, Govern, Moves
<1>3. ASSUME NEW r \in Repo, Materialize(r) \/ Withdraw(r)
      PROVE  WorldTyped'
  <2>1. PICK row \in Project :
          /\ catalog' = [catalog EXCEPT ![r] = row]
          /\ row.rev <= catalog[r].rev + 1
    <3>1. CASE Materialize(r)
      <4>1. PICK t \in Tag \cup {Null} :
              catalog' = [catalog EXCEPT ![r] =
                [rev |-> catalog[r].rev + 1, tag |-> t, ok |-> TRUE]]
        BY <3>1 DEF Materialize
      <4>2. catalog[r].rev \in 1..MaxMoves + 1
            /\ catalog[r].rev + 1 \in 1..MaxMoves + 1
        BY <1>1, <1>2 DEF Project
      <4> DEFINE new == [rev |-> catalog[r].rev + 1, tag |-> t, ok |-> TRUE]
      <4>3. new \in Project /\ new.rev = catalog[r].rev + 1
        BY <4>2 DEF Project
      <4>4. catalog' = [catalog EXCEPT ![r] = new]
        BY <4>1
      <4> HIDE DEF new
      <4>5. new.rev <= catalog[r].rev + 1
        BY <4>2, <4>3
      <4> QED BY <4>3, <4>4, <4>5
    <3>2. CASE Withdraw(r)
      <4> DEFINE new == [catalog[r] EXCEPT !.ok = FALSE]
      <4>1. new \in Project /\ new.rev = catalog[r].rev
        BY <1>1 DEF Project
      <4>2. catalog[r].rev \in Nat
        BY <1>1 DEF Project
      <4>3. catalog' = [catalog EXCEPT ![r] = new]
        <5>1. catalog' = [catalog EXCEPT ![r].ok = FALSE]
          BY <3>2 DEF Withdraw
        <5> QED BY <1>1, <5>1
      <4> HIDE DEF new
      <4>4. new.rev <= catalog[r].rev + 1
        BY <4>1, <4>2
      <4> QED BY <4>1, <4>3, <4>4
    <3> QED BY <1>3, <3>1, <3>2
  <2>2. catalog' \in [Repo -> Project]
    BY <1>1, <2>1
  <2>3. \A s \in Repo : catalog'[s].rev + moves' <= MaxMoves + 1
    <3>1. ASSUME NEW s \in Repo
          PROVE  catalog'[s].rev + moves' <= MaxMoves + 1
      <4>1. catalog[s].rev \in Nat /\ row.rev \in Nat
        BY <1>1 DEF Project
      <4>2. catalog'[s] = IF s = r THEN row ELSE catalog[s]
        BY <1>1, <2>1
      <4> QED BY <1>1, <1>2, <2>1, <4>1, <4>2
    <3> QED BY <3>1
  <2>4. tax' = tax
    BY <1>3 DEF Materialize, Withdraw
  <2>5. tax.version \in Nat
    BY <1>1 DEF Taxonomy
  <2> QED BY <1>1, <1>2, <2>2, <2>3, <2>4, <2>5 DEF WorldTyped
<1>4. CASE Govern
  <2>1. PICK gone \in SUBSET tax.canonical :
          tax' = [version |-> tax.version + 1,
                  canonical |-> tax.canonical \ gone]
    BY <1>4 DEF Govern
  <2>2. tax.version \in 1..MaxMoves + 1 /\ tax.canonical \subseteq Tag
    BY <1>1 DEF Taxonomy
  <2>3. tax' \in Taxonomy /\ tax'.version = tax.version + 1
    BY <1>1, <1>2, <2>1, <2>2 DEF Taxonomy
  <2>4. catalog' = catalog
    BY <1>4 DEF Govern
  <2>5. \A s \in Repo : catalog[s].rev + moves' <= MaxMoves + 1
    <3>1. ASSUME NEW s \in Repo
          PROVE  catalog[s].rev + moves' <= MaxMoves + 1
      <4>1. catalog[s].rev \in Nat
        BY <1>1 DEF Project
      <4> QED BY <1>1, <1>2, <4>1
    <3> QED BY <3>1
  <2>6. tax'.version + moves' <= MaxMoves + 1
    BY <1>1, <1>2, <2>2, <2>3
  <2> QED BY <1>1, <1>2, <2>3, <2>4, <2>5, <2>6 DEF WorldTyped
<1> QED BY <1>3, <1>4

LEMMA RestFits ==
  ASSUME ServingInv, WorldTyped', AccountStays, PagesLeft,
         inferred' = inferred, signals' = signals, sessions' = sessions,
         events' = events, act' = act
  PROVE  ServingInv'
<1>1. AccountMoves
  BY DEF AccountMoves
<1>2. /\ \A p \in Visit : PageFits(p)' /\ ItemsFit(p)'
      /\ \A c \in cursors' : CursorFits(c)'
      /\ \A q \in requests' : ServedFits(q)'
  BY <1>1, PagesStillFit
<1>3. \A p \in Visit : SessionFits(p)'
  BY OldSession
<1>4. AccountTyped'
  BY DEF ServingInv, AccountTyped, AccountStays, StatesStay
<1>5. AccountFits'
  BY DEF ServingInv, AccountFits, ProfileRowsStand, StateAndSignalsAgree,
         AccountStays, StatesStay
<1>6. PagesTyped' /\ RecordsTyped'
  BY DEF ServingInv, PagesTyped, RecordsTyped, PagesLeft
<1>7. ActsTyped' /\ \A b \in Act : ActFits(b)'
  BY DEF ServingInv, ActsTyped, ActFits
<1>8. (EventsOfTheirProfile)'
  BY DEF ServingInv, EventsOfTheirProfile, PagesLeft
<1> QED BY <1>2, <1>3, <1>4, <1>5, <1>6, <1>7, <1>8 DEF ServingInv

LEMMA MovesFit ==
  ASSUME ServingInv, (\E r \in Repo : Materialize(r) \/ Withdraw(r)) \/ Govern
  PROVE  ServingInv'
<1>1. AccountStays /\ PagesLeft /\ inferred' = inferred /\ signals' = signals
      /\ sessions' = sessions /\ events' = events /\ act' = act
  BY DEF Materialize, Withdraw, Govern, AccountStays, StatesStay, PagesLeft,
         account, client
<1> QED BY <1>1, MoveTyped, RestFits

LEMMA ServingStutters ==
  ASSUME ServingInv, UNCHANGED servingVars
  PROVE  ServingInv'
<1>1. AccountStays /\ PagesLeft /\ inferred' = inferred /\ signals' = signals
      /\ sessions' = sessions /\ events' = events /\ act' = act /\ WorldLeft
  BY DEF servingVars, AccountStays, StatesStay, PagesLeft, WorldLeft
<1>2. WorldTyped'
  BY <1>1 DEF ServingInv, WorldTyped, WorldLeft
<1> QED BY <1>1, <1>2, RestFits

-----------------------------------------------------------------------------
LEMMA ServingInvInit == ServingInit => ServingInv
<1> SUFFICES ASSUME ServingInit PROVE ServingInv
  OBVIOUS
<1>1. AccountTyped
  BY DEF ServingInit, AccountTyped
<1>2. WorldTyped
  <2>1. PICK of \in [Repo -> Tag \cup {Null}], shown \in [Repo -> BOOLEAN] :
          catalog = [r \in Repo |-> [rev |-> 1, tag |-> of[r], ok |-> shown[r]]]
    BY DEF ServingInit
  <2>2. MaxMoves \in Nat /\ moves = MaxMoves
    BY ServingAssumption DEF ServingAssumption, ServingInit
  <2>3. catalog \in [Repo -> Project]
    BY <2>1, <2>2 DEF Project
  <2>4. \A r \in Repo : catalog[r].rev = 1
    BY <2>1
  <2>5. tax \in Taxonomy /\ tax.version = 1
    BY <2>2 DEF ServingInit, Taxonomy
  <2> QED BY <2>2, <2>3, <2>4, <2>5 DEF WorldTyped
<1>3. /\ PagesTyped /\ RecordsTyped /\ ActsTyped
  <2>1. page \in [Visit -> PageRow]
    BY NewPageRow DEF ServingInit
  <2>2. act \in [Act -> ActRow]
    BY DEF ServingInit, NewAct, ActRow
  <2> QED
    BY <2>1, <2>2 DEF ServingInit, PagesTyped, RecordsTyped, ActsTyped
<1>4. AccountFits
  BY DEF ServingInit, AccountFits, ProfileRowsStand, StateAndSignalsAgree
<1>5. \A p \in Visit : PageFits(p) /\ SessionFits(p) /\ ItemsFit(p)
  <2>1. ASSUME NEW p \in Visit
        PROVE  PageFits(p) /\ SessionFits(p) /\ ItemsFit(p)
    <3>1. /\ page[p] = NewPage /\ sessions[p] = Null /\ user = 0
      BY DEF ServingInit
    <3>2. /\ page[p].at = "new" /\ page[p].user = 0 /\ page[p].off = 0
          /\ page[p].items = << >>
      BY <3>1 DEF NewPage
    <3> QED BY <3>1, <3>2 DEF PageFits, SessionFits, ItemsFit, Reached, Viewed
  <2> QED BY <2>1
<1>6. \A a \in Act : ActFits(a)
  BY DEF ServingInit, ActFits, NewAct
<1>7. /\ \A c \in cursors : CursorFits(c)
      /\ \A q \in requests : ServedFits(q)
      /\ EventsOfTheirProfile
  BY DEF ServingInit, EventsOfTheirProfile
<1> QED BY <1>1, <1>2, <1>3, <1>4, <1>5, <1>6, <1>7 DEF ServingInv

LEMMA ServingInvNext ==
  ServingInv /\ [ServingNext]_servingVars => ServingInv'
<1> SUFFICES ASSUME ServingInv, [ServingNext]_servingVars
             PROVE  ServingInv'
  OBVIOUS
<1>1. ASSUME NEW p \in Visit,
             \/ First(p) \/ Load(p) \/ Put(p) \/ Resume(p) \/ Compare(p)
             \/ Refuse(p) \/ Available(p) \/ Save(p) \/ ExpireSession(p)
      PROVE  ServingInv'
  BY <1>1, FirstFits, LoadFits, PutFits, ResumeFits, TurnsAside, SaveFits,
     ExpireFits
<1>2. ASSUME NEW a \in Act,
             \/ Ask(a) \/ AskDelete(a) \/ ActFails(a) \/ SetState(a)
             \/ AppendEvent(a) \/ Prefer(a) \/ Delete(a)
      PROVE  ServingInv'
  BY <1>2, AsksFit, SetStateFits, AppendFits, PreferFits, DeleteFits
<1>3. CASE (\E r \in Repo : Materialize(r) \/ Withdraw(r)) \/ Govern
  BY <1>3, MovesFit
<1>4. CASE UNCHANGED servingVars
  BY <1>4, ServingStutters
<1> QED BY <1>1, <1>2, <1>3, <1>4 DEF ServingNext

\* What is served comes from a page ranked for the profile as it stands, and
\* every profile row belongs to that profile.
THEOREM ServingInvariant == ServingSpec => []ServingInv
<1> QED BY ServingInvInit, ServingInvNext, PTL DEF ServingSpec

-----------------------------------------------------------------------------
(* What the invariant gives, and the steps that serve.                     *)

LEMMA ServingGives ==
  ServingInv => /\ ServingTypeOK /\ ProfileRowsStand /\ StateAndSignalsAgree
                /\ EventsOfTheirProfile
<1> SUFFICES ASSUME ServingInv
             PROVE  ServingTypeOK
  BY DEF ServingInv, AccountFits
<1>1. \A p \in Visit :
        /\ sessions[p] # Null => sessions[p].user \in Nat \ {0}
        /\ page[p].off <= Len(page[p].items)
  <2>1. ASSUME NEW p \in Visit, sessions[p] # Null
        PROVE  sessions[p].user \in Nat \ {0}
    <3>1. sessions[p].user \in floor+1..user /\ floor \in Nat /\ user \in Nat
      BY <2>1 DEF ServingInv, AccountFits, ProfileRowsStand, AccountTyped
    <3> QED BY <3>1
  <2> QED BY <2>1 DEF ServingInv, ItemsFit
<1>2. \A r \in Repo : catalog[r].rev \in 1..MaxMoves + 1
  BY DEF ServingInv, WorldTyped, Project
<1>3. tax.version \in 1..MaxMoves + 1 /\ tax.canonical \subseteq Tag
  BY DEF ServingInv, WorldTyped, Taxonomy
<1> QED BY <1>1, <1>2, <1>3 DEF ServingInv, AccountTyped, ServingTypeOK

\* Only the record of a served page is new among the requests.
LEMMA ServedBySave ==
  ASSUME [ServingNext]_servingVars, requests' # requests
  PROVE  \E p \in Visit :
           /\ Save(p) /\ user = page[p].user
           /\ \A v \in Served(p) : Stands(v)
           /\ \A q \in requests' \ requests :
                q.id = p /\ \E v \in Served(p) : q.repo = v.repo
<1>1. PICK p \in Visit : Save(p)
  BY DEF ServingNext, servingVars, First, Load, Put, Resume, Compare, Refuse,
         Available, ExpireSession, Ask, AskDelete, ActFails, SetState,
         AppendEvent, Prefer, Delete, Materialize, Withdraw, Govern
<1>2. /\ tax.version = page[p].tax /\ \A v \in Served(p) : Stands(v)
      /\ requests' = requests \cup
           {[id |-> p, repo |-> v.repo, user |-> page[p].user,
             tax |-> page[p].tax, era |-> era] : v \in Served(p)}
  BY <1>1 DEF Save
<1>3. \A q \in requests' \ requests :
        q.id = p /\ \E v \in Served(p) : q.repo = v.repo
  BY <1>2
<1> QED BY <1>1, <1>2, <1>3 DEF Save

LEMMA ServingSteps ==
  ServingInv /\ [ServingNext]_servingVars
    => [ContinuationIsFresh /\ ServedIsEligible]_servingVars
<1> SUFFICES ASSUME ServingInv, [ServingNext]_servingVars, 
                    requests' # requests
             PROVE  ContinuationIsFresh /\ ServedIsEligible
  BY DEF ContinuationIsFresh, ServedIsEligible
<1>1. PICK p \in Visit :
        /\ Save(p) /\ user = page[p].user
        /\ \A v \in Served(p) : Stands(v)
        /\ \A q \in requests' \ requests :
             q.id = p /\ \E v \in Served(p) : q.repo = v.repo
  BY ServedBySave
<1>2. FreshView(page[p].view)
  BY <1>1 DEF Save, ServingInv, PageFits, Viewed
<1>3. ContinuationIsFresh
  BY <1>1, <1>2 DEF ContinuationIsFresh, FreshView
<1>4. ServedIsEligible
  BY <1>1 DEF ServedIsEligible, Stands, Eligible
<1> QED BY <1>3, <1>4

\* No row outlives its profile, and what is served is still eligible.
THEOREM ServingSafeHolds == ServingSpec => ServingSafe
<1> QED
  BY ServingInvariant, ServingGives, ServingSteps, PTL
  DEF ServingSpec, ServingSafe

-----------------------------------------------------------------------------
(* The commands about the taxonomy.                                        *)

\* What each kind of command names.
PayloadFit(w) ==
  /\ w.action # "deprecate" => w.proposal \in Proposal
  /\ w.action = "deprecate" => w.proposal = Nil
  /\ w.action \in {"map", "deprecate"} => w.tag \in Name
PayloadsFit == \A c \in Command : payload[c] # Nil => PayloadFit(payload[c])

\* The identity of an attempt has a payload, what it read is there still, and
\* what it answered is the receipt.
AttemptFits(a) ==
  /\ try[a].at # "new" =>
       /\ try[a].cmd \in Command /\ try[a].digest \in Digest
       /\ payload[try[a].cmd] # Nil
  /\ try[a].at = "read" => Review(a)
  /\ try[a].at = "batch" /\ Review(a) =>
       Exists(Asked(a).proposal) /\ try[a].row \in ProposalRow
  /\ try[a].answer = "result" =>
       /\ try[a].at = "done" /\ Receipt(a) # Nil
       /\ try[a].got = Receipt(a) /\ try[a].got.digest = try[a].digest

Decides(c, p) == receipts[c] # Nil /\ receipts[c].proposal = p
\* A proposal has lost its name only with its author, and is decided exactly
\* when a command decided it.
ProposalFits(p) ==
  /\ Exists(p) /\ (p \in Suggested => p \in live) => proposals[p].name # Nil
  /\ Exists(p) /\ proposals[p].status # "proposed" =>
       \E c \in Command : Decides(c, p)
  /\ \A c \in Command : Decides(c, p) =>
       Exists(p) /\ proposals[p].status # "proposed"
OneDecision ==
  \A p \in Proposal, c, d \in Command : Decides(c, p) /\ Decides(d, p) => c = d

ReceiptsFit ==
  /\ IsFiniteSet(Applied)
  /\ \A c \in Applied : receipts[c].version <= version

GovernanceInv ==
  /\ GovernanceTypeOK
  /\ PayloadsFit
  /\ \A a \in Attempt : AttemptFits(a)
  /\ \A p \in Proposal : ProposalFits(p)
  /\ OneDecision /\ ReceiptsFit
  /\ VersionsHaveCommands /\ NamesResolveOnce /\ TagsFit

-----------------------------------------------------------------------------
(* An attempt that moves leaves the others alone.                          *)

Tries == [Attempt -> Try]
Apart(f, g, a) == g \in Tries /\ \A b \in Attempt : b # a => g[b] = f[b]

TryPlace == {"new", "receipt", "read", "recheck", "batch", "failed", "reread",
             "done"}
TryAnswer == {"none", "result", "conflict", "deleted", "not found", "error"}

LEMMA TryTyped ==
  ASSUME GovernanceInv
  PROVE  try \in Tries
BY DEF GovernanceInv, GovernanceTypeOK, Tries

LEMMA TryGoes ==
  ASSUME GovernanceInv, NEW a \in Attempt, NEW place \in TryPlace,
         Goes(a, place)
  PROVE  /\ Apart(try, try', a) /\ try'[a].at = place
         /\ try'[a].cmd = try[a].cmd /\ try'[a].digest = try[a].digest
         /\ try'[a].row = try[a].row /\ try'[a].answer = try[a].answer
         /\ try'[a].got = try[a].got
<1> DEFINE moved == [try[a] EXCEPT !.at = place]
<1>1. try \in Tries /\ try[a] \in Try
  BY TryTyped DEF Tries
<1>2. /\ moved \in Try /\ moved.at = place
      /\ moved.cmd = try[a].cmd /\ moved.digest = try[a].digest
      /\ moved.row = try[a].row /\ moved.answer = try[a].answer
      /\ moved.got = try[a].got
  BY <1>1 DEF Try, TryPlace
<1>3. try' = [try EXCEPT ![a] = moved]
  BY DEF Goes
<1> HIDE DEF moved
<1>4. Apart(try, try', a) /\ try'[a] = moved
  BY <1>1, <1>2, <1>3 DEF Apart, Tries
<1> QED BY <1>2, <1>4

LEMMA TryAnswers ==
  ASSUME GovernanceInv, NEW a \in Attempt, NEW what \in TryAnswer,
         Answers(a, what)
  PROVE  /\ Apart(try, try', a) /\ try'[a].at = "done"
         /\ try'[a].cmd = try[a].cmd /\ try'[a].digest = try[a].digest
         /\ try'[a].answer = what
<1> DEFINE moved == [try[a] EXCEPT !.at = "done", !.answer = what, !.row = Nil]
<1>1. try \in Tries /\ try[a] \in Try
  BY TryTyped DEF Tries
<1>2. /\ moved \in Try /\ moved.at = "done" /\ moved.answer = what
      /\ moved.cmd = try[a].cmd /\ moved.digest = try[a].digest
  BY <1>1 DEF Try, TryAnswer
<1>3. try' = [try EXCEPT ![a] = moved]
  BY DEF Answers
<1> HIDE DEF moved
<1>4. Apart(try, try', a) /\ try'[a] = moved
  BY <1>1, <1>2, <1>3 DEF Apart, Tries
<1> QED BY <1>2, <1>4

LEMMA TryGets ==
  ASSUME GovernanceInv, NEW a \in Attempt, NEW receipt \in ReceiptRow,
         Gets(a, receipt)
  PROVE  /\ Apart(try, try', a) /\ try'[a].at = "done"
         /\ try'[a].cmd = try[a].cmd /\ try'[a].digest = try[a].digest
         /\ try'[a].answer = "result" /\ try'[a].got = receipt
<1> DEFINE moved == [try[a] EXCEPT !.at = "done", !.answer = "result",
                                   !.got = receipt, !.row = Nil]
<1>1. try \in Tries /\ try[a] \in Try
  BY TryTyped DEF Tries
<1>2. /\ moved \in Try /\ moved.at = "done" /\ moved.answer = "result"
      /\ moved.got = receipt
      /\ moved.cmd = try[a].cmd /\ moved.digest = try[a].digest
  BY <1>1 DEF Try
<1>3. try' = [try EXCEPT ![a] = moved]
  BY DEF Gets
<1> HIDE DEF moved
<1>4. Apart(try, try', a) /\ try'[a] = moved
  BY <1>1, <1>2, <1>3 DEF Apart, Tries
<1> QED BY <1>2, <1>4

LEMMA TrySends ==
  ASSUME GovernanceInv, NEW a \in Attempt, NEW c \in Command, NEW d \in Digest,
         try' = [try EXCEPT ![a].at = "receipt", ![a].cmd = c, ![a].digest = d]
  PROVE  /\ Apart(try, try', a) /\ try'[a].at = "receipt"
         /\ try'[a].cmd = c /\ try'[a].digest = d
         /\ try'[a].answer = try[a].answer
<1> DEFINE moved == [try[a] EXCEPT !.at = "receipt", !.cmd = c, !.digest = d]
           next == [try EXCEPT ![a] = moved]
<1>1. try \in Tries /\ try[a] \in Try
  BY TryTyped DEF Tries
<1>2. /\ moved \in Try /\ moved.at = "receipt" /\ moved.cmd = c
      /\ moved.digest = d /\ moved.answer = try[a].answer
  BY <1>1 DEF Try
<1>3. try' = next
  OBVIOUS
<1> HIDE DEF moved
<1>4. Apart(try, next, a) /\ next[a] = moved
  BY <1>1, <1>2 DEF Apart, Tries
<1> HIDE DEF next
<1> QED BY <1>2, <1>3, <1>4

LEMMA TryReads ==
  ASSUME GovernanceInv, NEW a \in Attempt, NEW row \in ProposalRow,
         try' = [try EXCEPT ![a].at = "batch", ![a].row = row]
  PROVE  /\ Apart(try, try', a) /\ try'[a].at = "batch"
         /\ try'[a].cmd = try[a].cmd /\ try'[a].digest = try[a].digest
         /\ try'[a].row = row /\ try'[a].answer = try[a].answer
<1> DEFINE moved == [try[a] EXCEPT !.at = "batch", !.row = row]
<1>1. try \in Tries /\ try[a] \in Try
  BY TryTyped DEF Tries
<1>2. /\ moved \in Try /\ moved.at = "batch" /\ moved.row = row
      /\ moved.cmd = try[a].cmd /\ moved.digest = try[a].digest
      /\ moved.answer = try[a].answer
  BY <1>1 DEF Try
<1>3. try' = [try EXCEPT ![a] = moved]
  OBVIOUS
<1> HIDE DEF moved
<1>4. Apart(try, try', a) /\ try'[a] = moved
  BY <1>1, <1>2, <1>3 DEF Apart, Tries
<1> QED BY <1>2, <1>4

\* Payloads, receipts and rows are kept once they are there.
Keeps ==
  /\ \A c \in Command : payload[c] # Nil => payload'[c] = payload[c]
  /\ \A c \in Command : receipts[c] # Nil => receipts'[c] = receipts[c]
  /\ \A p \in Proposal : Exists(p) => Exists(p)'

LEMMA OldAttempt ==
  ASSUME GovernanceInv, Keeps, NEW a \in Attempt, try'[a] = try[a]
  PROVE  AttemptFits(a)'
<1>1. AttemptFits(a) /\ try[a] \in Try
  BY DEF GovernanceInv, GovernanceTypeOK
<1>2. CASE try[a].at = "new"
  BY <1>1, <1>2 DEF AttemptFits
<1>3. CASE try[a].at # "new"
  <2>1. PICK c \in Command : c = try[a].cmd
    BY <1>1, <1>3 DEF AttemptFits
  <2>2. payload[c] # Nil /\ payload'[c] = payload[c] /\ PayloadFit(payload[c])
    BY <1>1, <1>3, <2>1 DEF AttemptFits, Keeps, GovernanceInv, PayloadsFit
  <2>3. receipts[c] # Nil => receipts'[c] = receipts[c]
    BY DEF Keeps
  <2>4. CASE try[a].at = "batch" /\ Review(a)
    <3>1. PICK p \in Proposal : p = payload[c].proposal
      BY <2>1, <2>2, <2>4 DEF PayloadFit, Review, Asked
    <3>2. Exists(p)'
      BY <1>1, <2>1, <2>4, <3>1 DEF AttemptFits, Keeps, Asked
    <3> QED
      BY <1>1, <1>3, <2>1, <2>2, <2>3, <2>4, <3>1, <3>2
      DEF AttemptFits, Review, Asked, Receipt
  <2>5. CASE ~(try[a].at = "batch" /\ Review(a))
    BY <1>1, <1>3, <2>1, <2>2, <2>3, <2>5
    DEF AttemptFits, Review, Asked, Receipt
  <2> QED BY <2>4, <2>5
<1> QED BY <1>2, <1>3

\* An attempt that leaves the taxonomy alone.
LEMMA AttemptTogether ==
  ASSUME GovernanceInv, NEW a \in Attempt, Apart(try, try', a),
         AttemptFits(a)', UNCHANGED <<taxonomy, live, changes>>,
         payload' \in [Command -> Payload \cup {Nil}], PayloadsFit',
         \A c \in Command : payload[c] # Nil => payload'[c] = payload[c]
  PROVE  GovernanceInv'
<1>1. /\ version' = version /\ tags' = tags /\ alias' = alias
      /\ proposals' = proposals /\ project' = project /\ receipts' = receipts
      /\ live' = live /\ changes' = changes
  BY DEF taxonomy
<1>2. Keeps
  BY <1>1 DEF Keeps, Exists
<1>3. \A b \in Attempt : AttemptFits(b)'
  BY <1>2, OldAttempt DEF Apart
<1>4. GovernanceTypeOK'
  BY <1>1 DEF GovernanceInv, GovernanceTypeOK, Apart, Tries, Exists
<1>5. /\ \A p \in Proposal : ProposalFits(p)'
      /\ OneDecision' /\ ReceiptsFit'
  BY <1>1
  DEF GovernanceInv, ProposalFits, OneDecision, ReceiptsFit, Decides, Exists,
      Applied
<1>6. VersionsHaveCommands' /\ NamesResolveOnce' /\ TagsFit'
  BY <1>1
  DEF GovernanceInv, VersionsHaveCommands, NamesResolveOnce, TagsFit, Applied,
      Canonical
<1> QED BY <1>3, <1>4, <1>5, <1>6 DEF GovernanceInv

\* The attempt keeps its identity, the world stays and what it read stands.
LEMMA AttemptAlone ==
  ASSUME GovernanceInv, NEW a \in Attempt, Apart(try, try', a),
         UNCHANGED <<taxonomy, live, changes, payload>>, try[a].at # "new",
         try'[a].cmd = try[a].cmd, try'[a].digest = try[a].digest,
         try'[a].at # "new", try'[a].at = "read" => Review(a),
         try'[a].at = "batch" /\ Review(a) =>
           Exists(Asked(a).proposal) /\ try'[a].row \in ProposalRow,
         try'[a].answer = "result" =>
           /\ try'[a].at = "done" /\ Receipt(a) # Nil
           /\ try'[a].got = Receipt(a) /\ Receipt(a).digest = try[a].digest
  PROVE  GovernanceInv'
<1>1. AttemptFits(a)'
  BY DEF GovernanceInv, AttemptFits, Review, Asked, Receipt, Exists, taxonomy
<1>2. payload' \in [Command -> Payload \cup {Nil}] /\ PayloadsFit'
  BY DEF GovernanceInv, GovernanceTypeOK, PayloadsFit
<1> QED BY <1>1, <1>2, AttemptTogether

LEMMA ReceiptAnswers ==
  ASSUME GovernanceInv, NEW a \in Attempt, try[a].at \notin {"new", "done"},
         Receipt(a) # Nil, AnswersReceipt(a),
         UNCHANGED <<taxonomy, live, changes, payload>>
  PROVE  GovernanceInv'
<1>1. PICK c \in Command : c = try[a].cmd
  BY DEF GovernanceInv, AttemptFits
<1>2. Receipt(a) \in ReceiptRow
  BY <1>1 DEF Receipt, GovernanceInv, GovernanceTypeOK
<1>3. CASE Receipt(a).digest = try[a].digest
  <2>1. Gets(a, Receipt(a))
    BY <1>3 DEF AnswersReceipt
  <2>2. PICK r \in ReceiptRow : r = Receipt(a)
    BY <1>2
  <2>3. /\ Apart(try, try', a) /\ try'[a].at = "done"
        /\ try'[a].cmd = try[a].cmd /\ try'[a].digest = try[a].digest
        /\ try'[a].answer = "result" /\ try'[a].got = r
    BY <2>1, <2>2, TryGets
  <2> QED BY <1>3, <2>2, <2>3, AttemptAlone
<1>4. CASE Receipt(a).digest # try[a].digest
  <2>1. Answers(a, "conflict")
    BY <1>4 DEF AnswersReceipt
  <2>2. /\ Apart(try, try', a) /\ try'[a].at = "done"
        /\ try'[a].cmd = try[a].cmd /\ try'[a].digest = try[a].digest
        /\ try'[a].answer = "conflict"
    BY <2>1, TryAnswers DEF TryAnswer
  <2> QED BY <2>2, AttemptAlone
<1> QED BY <1>3, <1>4

LEMMA OtherAnswers ==
  ASSUME GovernanceInv, NEW a \in Attempt, try[a].at # "new",
         NEW what \in TryAnswer \ {"result"}, Answers(a, what),
         UNCHANGED <<taxonomy, live, changes, payload>>
  PROVE  GovernanceInv'
<1>1. /\ Apart(try, try', a) /\ try'[a].at = "done"
      /\ try'[a].cmd = try[a].cmd /\ try'[a].digest = try[a].digest
      /\ try'[a].answer = what
  BY TryAnswers
<1> QED BY <1>1, AttemptAlone

LEMMA MovesOn ==
  ASSUME GovernanceInv, NEW a \in Attempt, try[a].at \notin {"new", "done"},
         NEW place \in TryPlace \ {"new"}, Goes(a, place),
         place = "read" => Review(a), place = "batch" => ~Review(a),
         UNCHANGED <<taxonomy, live, changes, payload>>
  PROVE  GovernanceInv'
<1>1. /\ Apart(try, try', a) /\ try'[a].at = place
      /\ try'[a].cmd = try[a].cmd /\ try'[a].digest = try[a].digest
      /\ try'[a].answer = try[a].answer
  BY TryGoes
<1>2. try[a].answer # "result"
  BY DEF GovernanceInv, AttemptFits
<1> QED BY <1>1, <1>2, AttemptAlone

LEMMA PayloadsFitting ==
  ASSUME GovernanceInv, NEW w \in Payloads
  PROVE  w \in Payload /\ PayloadFit(w)
<1>1. /\ version \in Nat /\ project.analysis \in Nat
      /\ Nil \notin Name
  BY GovernanceAssumption DEF GovernanceInv, GovernanceTypeOK,
     GovernanceAssumption
<1> QED BY <1>1 DEF Payloads, Payload, PayloadFit, Action

LEMMA SendFits ==
  ASSUME GovernanceInv, NEW a \in Attempt, Send(a)
  PROVE  GovernanceInv'
<1>1. PICK c \in Command, d \in Digest :
        /\ try' = [try EXCEPT ![a].at = "receipt", ![a].cmd = c,
                              ![a].digest = d]
        /\ IF payload[c] = Nil
           THEN payload' \in {[payload EXCEPT ![c] = w] : w \in Payloads}
           ELSE UNCHANGED payload
  BY DEF Send
<1>2. /\ Apart(try, try', a) /\ try'[a].at = "receipt"
      /\ try'[a].cmd = c /\ try'[a].digest = d
      /\ try'[a].answer = try[a].answer
  BY <1>1, TrySends
<1>3. payload \in [Command -> Payload \cup {Nil}] /\ Nil \notin Payload
  BY GovernanceAssumption DEF GovernanceInv, GovernanceTypeOK,
     GovernanceAssumption
<1>4. /\ payload' \in [Command -> Payload \cup {Nil}] /\ PayloadsFit'
      /\ \A x \in Command : payload[x] # Nil => payload'[x] = payload[x]
      /\ payload'[c] # Nil
  <2>1. CASE payload[c] = Nil
    <3>1. PICK w \in Payloads : payload' = [payload EXCEPT ![c] = w]
      BY <1>1, <2>1
    <3>2. w \in Payload /\ PayloadFit(w)
      BY PayloadsFitting
    <3> QED BY <1>3, <2>1, <3>1, <3>2 DEF GovernanceInv, PayloadsFit
  <2>2. CASE payload[c] # Nil
    BY <1>1, <1>3, <2>2 DEF GovernanceInv, PayloadsFit
  <2> QED BY <2>1, <2>2
<1>5. try[a].at = "new" /\ try[a].answer # "result"
  BY DEF Send, GovernanceInv, AttemptFits
<1>6. AttemptFits(a)'
  BY <1>2, <1>4, <1>5 DEF AttemptFits
<1> QED BY <1>2, <1>4, <1>6, AttemptTogether DEF Send

LEMMA ReadsFit ==
  ASSUME GovernanceInv, NEW a \in Attempt, ReadReceipt(a) \/ ReadProposal(a)
  PROVE  GovernanceInv'
<1>1. UNCHANGED <<taxonomy, live, changes, payload>>
  BY DEF ReadReceipt, ReadProposal
<1>2. CASE ReadReceipt(a)
  <2>1. CASE Receipt(a) # Nil
    BY <1>1, <1>2, <2>1, ReceiptAnswers DEF ReadReceipt
  <2>2. CASE Receipt(a) = Nil /\ Review(a)
    BY <1>1, <1>2, <2>2, MovesOn DEF ReadReceipt, TryPlace
  <2>3. CASE Receipt(a) = Nil /\ ~Review(a)
    BY <1>1, <1>2, <2>3, MovesOn DEF ReadReceipt, TryPlace
  <2> QED BY <2>1, <2>2, <2>3
<1>3. CASE ReadProposal(a) /\ Readable(Asked(a).proposal)
  <2>1. PICK c \in Command : c = try[a].cmd
    BY <1>3 DEF GovernanceInv, AttemptFits, ReadProposal
  <2>2. payload[c] # Nil /\ Asked(a) = payload[c] /\ Review(a)
    BY <1>3, <2>1 DEF GovernanceInv, AttemptFits, ReadProposal, Asked
  <2>3. PICK p \in Proposal : p = Asked(a).proposal
    BY <2>2 DEF GovernanceInv, PayloadsFit, PayloadFit, Review
  <2>4. proposals[p] \in ProposalRow
    BY <1>3, <2>3 DEF Readable, Exists, GovernanceInv, GovernanceTypeOK
  <2>5. PICK row \in ProposalRow : row = proposals[p]
    BY <2>4
  <2>6. /\ Apart(try, try', a) /\ try'[a].at = "batch"
        /\ try'[a].cmd = try[a].cmd /\ try'[a].digest = try[a].digest
        /\ try'[a].row = row /\ try'[a].answer = try[a].answer
    BY <1>3, <2>3, <2>5, TryReads DEF ReadProposal
  <2>7. try[a].at = "read" /\ try[a].answer # "result"
    BY <1>3 DEF ReadProposal, GovernanceInv, AttemptFits
  <2> QED BY <1>1, <1>3, <2>3, <2>6, <2>7, AttemptAlone DEF Readable
<1>4. CASE ReadProposal(a) /\ ~Readable(Asked(a).proposal)
  BY <1>1, <1>4, MovesOn DEF ReadProposal, TryPlace
<1> QED BY <1>2, <1>3, <1>4

LEMMA EndsFit ==
  ASSUME GovernanceInv, NEW a \in Attempt,
         Recheck(a) \/ Failed(a) \/ Reread(a)
  PROVE  GovernanceInv'
<1>1. UNCHANGED <<taxonomy, live, changes, payload>>
  BY DEF Recheck, Failed, Reread
<1>2. try[a].at \in {"recheck", "failed", "reread"}
  BY DEF Recheck, Failed, Reread
<1>3. CASE Receipt(a) # Nil /\ AnswersReceipt(a)
  BY <1>1, <1>2, <1>3, ReceiptAnswers
<1>4. CASE Goes(a, "reread")
  BY <1>1, <1>2, <1>4, MovesOn DEF TryPlace
<1>5. CASE \E what \in TryAnswer \ {"result"} : Answers(a, what)
  BY <1>1, <1>2, <1>5, OtherAnswers
<1>6. \/ (Receipt(a) # Nil /\ AnswersReceipt(a)) \/ Goes(a, "reread")
      \/ \E what \in TryAnswer \ {"result"} : Answers(a, what)
  BY DEF Recheck, Failed, Reread, TryAnswer
<1> QED BY <1>3, <1>4, <1>5, <1>6

-----------------------------------------------------------------------------
(* A batch that commits.                                                   *)

\* The tag that the payload w defines or assigns.
Defined(w, n) == IF w.action = "create" THEN n ELSE w.tag

\* What the guard of the batch established about the command c with the
\* payload w, and about the name n that it decides.
Admitted(a, c, w, n) ==
  /\ c = try[a].cmd /\ w = Asked(a) /\ w = payload[c] /\ PayloadFit(w)
  /\ receipts[c] = Nil /\ try[a].digest \in Digest
  /\ w.action # "deprecate" =>
       /\ n = try[a].row.name /\ proposals[w.proposal] \in ProposalRow
       /\ proposals[w.proposal].status = "proposed"
  /\ w.action = "deprecate" => n = w.tag /\ Canonical(n)
  /\ w.action \in {"create", "map"} =>
       \/ Defined(w, n) \in project.tags /\ Canonical(Defined(w, n))
       \/ Cardinality({t \in project.tags : Canonical(t)}) < Capacity
  /\ w.action = "create" => tags[n] = Nil /\ alias[n] = Nil
  /\ w.action = "map" => /\ Canonical(w.tag)
                         /\ tags[n] = Nil \/ n = w.tag

LEMMA GuardAdmits ==
  ASSUME GovernanceInv, NEW a \in Attempt, try[a].at = "batch",
         Receipt(a) = Nil, Guard(a)
  PROVE  \E c \in Command, w \in Payload, n \in Name : Admitted(a, c, w, n)
<1>1. PICK c \in Command : c = try[a].cmd
  BY DEF GovernanceInv, AttemptFits
<1>2. payload[c] # Nil /\ payload[c] \in Payload /\ try[a].digest \in Digest
  BY <1>1 DEF GovernanceInv, AttemptFits, GovernanceTypeOK
<1>3. PICK w \in Payload : w = payload[c]
  BY <1>2
<1>4. w = Asked(a) /\ PayloadFit(w) /\ receipts[c] = Nil
  BY <1>1, <1>2, <1>3
  DEF Asked, GovernanceInv, PayloadsFit, Receipt
<1>5. CASE w.action = "deprecate"
  <2>1. w.tag \in Name /\ Canonical(w.tag)
    BY <1>4, <1>5 DEF PayloadFit, Guard, Pending, Review
  <2> QED BY <1>1, <1>2, <1>3, <1>4, <1>5, <2>1 DEF Admitted
<1>6. CASE w.action # "deprecate"
  <2>1. PICK p \in Proposal : p = w.proposal
    BY <1>4, <1>6 DEF PayloadFit
  <2>2. Review(a) /\ Exists(p)
    BY <1>4, <1>6, <2>1 DEF Review, GovernanceInv, AttemptFits
  <2>3. /\ proposals[p] \in ProposalRow
        /\ p \in Suggested => p \in live
        /\ proposals[p].status = "proposed"
        /\ proposals[p].name = try[a].row.name
    BY <1>4, <2>1, <2>2
    DEF Guard, AuthorStands, ProposalStands, Pending, GovernanceInv,
        GovernanceTypeOK, Exists
  <2>4. proposals[p].name # Nil
    BY <2>2, <2>3 DEF GovernanceInv, ProposalFits
  <2>5. PICK n \in Name : n = try[a].row.name
    BY <2>3, <2>4 DEF ProposalRow
  <2>6. /\ w.action = "create" => tags[n] = Nil /\ alias[n] = Nil
        /\ w.action = "map" => /\ Canonical(w.tag)
                               /\ tags[n] = Nil \/ n = w.tag
    BY <1>4, <2>5 DEF Guard, TagIdentity
  <2>7. w.action \in {"create", "map"} =>
          \/ Defined(w, n) \in project.tags /\ Canonical(Defined(w, n))
          \/ Cardinality({t \in project.tags : Canonical(t)}) < Capacity
    BY <1>4, <2>5 DEF Guard, HasRoom, TagOf, Defined
  <2> QED
    BY <1>1, <1>2, <1>3, <1>4, <1>6, <2>1, <2>3, <2>5, <2>6, <2>7 DEF Admitted
<1> QED BY <1>5, <1>6

Outcome(c, w, d) ==
  [digest |-> d, action |-> w.action, proposal |-> w.proposal,
   version |-> version']

\* What the batch writes.
Effect(c, w, n, d) ==
  /\ version' = IF w.action = "reject" THEN version ELSE version + 1
  /\ w.action = "create" => tags' = [tags EXCEPT ![n] = "canonical"]
  /\ w.action = "deprecate" => tags' = [tags EXCEPT ![n] = "deprecated"]
  /\ w.action \in {"map", "reject"} => tags' = tags
  /\ alias' = IF w.action = "map" /\ tags[n] = Nil
              THEN [alias EXCEPT ![n] = w.tag] ELSE alias
  /\ project' = IF w.action \in {"create", "map"}
                THEN [project EXCEPT !.tags = @ \cup {Defined(w, n)}]
                ELSE project
  /\ proposals' = IF w.action = "deprecate" THEN proposals
       ELSE [proposals EXCEPT ![w.proposal].status =
               IF w.action = "reject" THEN "rejected" ELSE "mapped"]
  /\ receipts' = [receipts EXCEPT ![c] = Outcome(c, w, d)]

LEMMA ApplyEffect ==
  ASSUME GovernanceInv, NEW a \in Attempt, Guard(a), Apply(a),
         NEW c \in Command, NEW w \in Payload, NEW n \in Name,
         Admitted(a, c, w, n)
  PROVE  Effect(c, w, n, try[a].digest)
<1>1. w = Asked(a) /\ c = try[a].cmd /\ w.expect = version
      /\ (w.action # "deprecate" => n = try[a].row.name)
      /\ (w.action = "deprecate" => n = w.tag)
  BY DEF Admitted, Guard
<1>2. w.action \in Action
  BY DEF Payload
<1>3. /\ version' = IF w.action = "reject" THEN version ELSE version + 1
  BY <1>1 DEF Apply, Advanced, GovernanceInv, GovernanceTypeOK
<1>4. /\ w.action = "create" => tags' = [tags EXCEPT ![n] = "canonical"]
      /\ w.action = "deprecate" => tags' = [tags EXCEPT ![n] = "deprecated"]
      /\ w.action \in {"map", "reject"} => tags' = tags
  BY <1>1, <1>2 DEF Apply, Action
<1>5. alias' = IF w.action = "map" /\ tags[n] = Nil
               THEN [alias EXCEPT ![n] = w.tag] ELSE alias
  BY <1>1 DEF Apply, Aliased
<1>6. project' = IF w.action \in {"create", "map"}
                 THEN [project EXCEPT !.tags = @ \cup {Defined(w, n)}]
                 ELSE project
  BY <1>1 DEF Apply, TagOf, Defined
<1>7. proposals' = IF w.action = "deprecate" THEN proposals
       ELSE [proposals EXCEPT ![w.proposal].status =
               IF w.action = "reject" THEN "rejected" ELSE "mapped"]
  BY <1>1 DEF Apply, Review
<1>8. receipts' = [receipts EXCEPT ![c] = Outcome(c, w, try[a].digest)]
  BY <1>1 DEF Apply, Outcome
<1> QED BY <1>3, <1>4, <1>5, <1>6, <1>7, <1>8 DEF Effect

\* The receipt of c is new, every other receipt stays.
LEMMA EffectReceipts ==
  ASSUME GovernanceInv, NEW a \in Attempt, NEW c \in Command,
         NEW w \in Payload, NEW n \in Name, NEW d \in Digest,
         Admitted(a, c, w, n), Effect(c, w, n, d)
  PROVE  /\ receipts' \in [Command -> ReceiptRow \cup {Nil}]
         /\ receipts'[c] # Nil /\ receipts'[c] = Outcome(c, w, d)
         /\ receipts'[c].version = version' /\ receipts'[c].action = w.action
         /\ receipts'[c].proposal = w.proposal /\ receipts'[c].digest = d
         /\ Outcome(c, w, d) \in ReceiptRow
         /\ \A x \in Command : x # c => receipts'[x] = receipts[x]
         /\ receipts[c] = Nil
         /\ version \in Nat \ {0} /\ version' \in Nat \ {0}
<1>1. /\ receipts \in [Command -> ReceiptRow \cup {Nil}]
      /\ version \in Nat \ {0} /\ receipts[c] = Nil
  BY DEF GovernanceInv, GovernanceTypeOK, Admitted
<1>2. version' \in Nat \ {0}
  BY <1>1 DEF Effect
<1>3. PICK r : r = Outcome(c, w, d)
  OBVIOUS
<1>4. /\ r \in ReceiptRow /\ r.version = version' /\ r.action = w.action
      /\ r.proposal = w.proposal /\ r.digest = d
  BY <1>2, <1>3 DEF Outcome, ReceiptRow, Payload
<1>5. receipts' = [receipts EXCEPT ![c] = r]
  BY <1>3 DEF Effect
<1>6. Nil \notin ReceiptRow
  BY GovernanceAssumption DEF GovernanceAssumption
<1> QED BY <1>1, <1>2, <1>3, <1>4, <1>5, <1>6

LEMMA EffectVersions ==
  ASSUME GovernanceInv, NEW a \in Attempt, NEW c \in Command,
         NEW w \in Payload, NEW n \in Name, NEW d \in Digest,
         Admitted(a, c, w, n), Effect(c, w, n, d)
  PROVE  VersionsHaveCommands' /\ ReceiptsFit'
<1> DEFINE changed == {x \in Applied : receipts[x].action # "reject"}
<1>1. /\ receipts'[c] # Nil /\ receipts'[c].version = version'
      /\ receipts'[c].action = w.action /\ receipts[c] = Nil
      /\ \A x \in Command : x # c => receipts'[x] = receipts[x]
      /\ version \in Nat \ {0} /\ version' \in Nat \ {0}
  BY EffectReceipts
<1>2. /\ Applied \subseteq Command /\ c \notin Applied
      /\ Applied' = Applied \cup {c}
  BY <1>1 DEF Applied
<1>3. /\ IsFiniteSet(Applied)
      /\ \A x \in Applied : receipts[x].version <= version
      /\ version = 1 + Cardinality(changed)
      /\ \A x, y \in changed :
           receipts[x].version = receipts[y].version => x = y
  BY DEF GovernanceInv, ReceiptsFit, VersionsHaveCommands
<1>4. IsFiniteSet(Applied)'
  BY <1>2, <1>3, FS_AddElement
<1>5. \A x \in Applied : receipts[x].version \in Nat
  BY DEF GovernanceInv, GovernanceTypeOK, Applied, ReceiptRow
<1>6. version' = IF w.action = "reject" THEN version ELSE version + 1
  BY DEF Effect
<1>7. \A x \in Applied' : receipts'[x].version <= version'
  <2>1. ASSUME NEW x \in Applied
        PROVE  receipts'[x].version <= version'
    <3>1. receipts'[x] = receipts[x]
      BY <1>1, <1>2
    <3>2. receipts[x].version <= version /\ receipts[x].version \in Nat
      BY <1>3, <1>5
    <3> QED BY <1>1, <1>6, <3>1, <3>2
  <2>2. receipts'[c].version <= version'
    BY <1>1
  <2> QED BY <1>2, <2>1, <2>2
<1>8. IsFiniteSet(changed) /\ c \notin changed
  BY <1>2, <1>3, FS_Subset
<1>9. Cardinality(changed) \in Nat
  BY <1>8, FS_CardinalityType
<1>10. changed' = IF w.action = "reject" THEN changed ELSE changed \cup {c}
  BY <1>1, <1>2
<1>11. version' = 1 + Cardinality(changed')
  <2>1. Cardinality(changed \cup {c}) = Cardinality(changed) + 1
    BY <1>8, FS_AddElement
  <2> HIDE DEF changed
  <2> QED BY <1>3, <1>6, <1>9, <1>10, <2>1
<1>12. \A x, y \in changed' :
         receipts'[x].version = receipts'[y].version => x = y
  <2>1. ASSUME NEW x \in changed, w.action # "reject"
        PROVE  receipts'[x].version # receipts'[c].version
    <3>1. receipts'[x].version <= version /\ receipts'[x].version \in Nat
      BY <1>1, <1>2, <1>3, <1>5
    <3> QED BY <1>1, <1>6, <2>1, <3>1
  <2>2. \A x \in changed : receipts'[x] = receipts[x]
    BY <1>1, <1>2
  <2> HIDE DEF changed
  <2> QED BY <1>3, <1>10, <2>1, <2>2
<1> QED
  BY <1>4, <1>7, <1>11, <1>12 DEF VersionsHaveCommands, ReceiptsFit

LEMMA EffectDecisions ==
  ASSUME GovernanceInv, NEW a \in Attempt, NEW c \in Command,
         NEW w \in Payload, NEW n \in Name, NEW d \in Digest,
         Admitted(a, c, w, n), Effect(c, w, n, d), live' = live
  PROVE  /\ OneDecision' /\ \A p \in Proposal : ProposalFits(p)'
         /\ proposals' \in [Proposal -> ProposalRow \cup {Nil}]
         /\ \A p \in Proposal : Exists(p)' = Exists(p)
<1>1. /\ receipts'[c] # Nil /\ receipts'[c].proposal = w.proposal
      /\ receipts[c] = Nil
      /\ \A x \in Command : x # c => receipts'[x] = receipts[x]
  BY EffectReceipts
<1>2. /\ proposals \in [Proposal -> ProposalRow \cup {Nil}]
      /\ Nil \notin ProposalRow /\ Nil \notin Proposal
      /\ \A p \in Proposal : ProposalFits(p)
      /\ OneDecision
  BY GovernanceAssumption
  DEF GovernanceInv, GovernanceTypeOK, GovernanceAssumption, Proposal
<1>3. \A x \in Command, p \in Proposal :
        Decides(x, p)' <=> Decides(x, p) \/ (x = c /\ p = w.proposal)
  BY <1>1 DEF Decides
<1>4. CASE w.action = "deprecate"
  <2>1. w.proposal \notin Proposal /\ proposals' = proposals
    BY <1>2, <1>4 DEF Admitted, PayloadFit, Effect
  <2>2. \A x \in Command, p \in Proposal : Decides(x, p)' <=> Decides(x, p)
    BY <1>3, <2>1
  <2> QED BY <1>2, <2>1, <2>2 DEF OneDecision, ProposalFits, Exists
<1>5. CASE w.action # "deprecate"
  <2>1. PICK p \in Proposal : p = w.proposal
    BY <1>5 DEF Admitted, PayloadFit
  <2>2. proposals[p] \in ProposalRow /\ proposals[p].status = "proposed"
    BY <1>5, <2>1 DEF Admitted
  <2>3. PICK s \in {"rejected", "mapped"} :
          proposals' = [proposals EXCEPT ![p].status = s]
    BY <1>5, <2>1 DEF Effect
  <2>4. /\ proposals'[p] \in ProposalRow /\ proposals'[p].status = s
        /\ proposals'[p].name = proposals[p].name
        /\ \A q \in Proposal : q # p => proposals'[q] = proposals[q]
        /\ proposals' \in [Proposal -> ProposalRow \cup {Nil}]
    BY <1>2, <2>2, <2>3 DEF ProposalRow, Status
  <2>5. \A x \in Command : ~Decides(x, p)
    BY <1>2, <2>2 DEF ProposalFits
  <2>6. Decides(c, p)' /\ \A x \in Command : Decides(x, p)' => x = c
    BY <1>3, <2>1, <2>5
  <2>7. \A x \in Command, q \in Proposal :
          q # p => (Decides(x, q)' <=> Decides(x, q))
    BY <1>3, <2>1
  <2>8. OneDecision'
    BY <1>2, <2>6, <2>7 DEF OneDecision
  <2>9. ProposalFits(p)'
    BY <1>2, <2>2, <2>4, <2>6 DEF ProposalFits, Exists
  <2>10. ASSUME NEW q \in Proposal, q # p
         PROVE  ProposalFits(q)'
    BY <1>2, <2>4, <2>7, <2>10 DEF ProposalFits, Exists
  <2> QED BY <1>2, <2>2, <2>4, <2>8, <2>9, <2>10 DEF Exists
<1> QED BY <1>4, <1>5

\* The taxonomy and the tags of the project, which fit it.
LEMMA EffectNames ==
  ASSUME GovernanceInv, NEW a \in Attempt, NEW c \in Command,
         NEW w \in Payload, NEW n \in Name, NEW d \in Digest,
         Admitted(a, c, w, n), Effect(c, w, n, d)
  PROVE  /\ tags' \in [Name -> {Nil, "canonical", "deprecated"}]
         /\ alias' \in [Name -> Name \cup {Nil}]
         /\ project' \in [analysis : Nat, ok : BOOLEAN, tags : SUBSET Name]
         /\ \A t \in project'.tags : tags'[t] # Nil
         /\ NamesResolveOnce'
<1>1. /\ tags \in [Name -> {Nil, "canonical", "deprecated"}]
      /\ alias \in [Name -> Name \cup {Nil}]
      /\ project \in [analysis : Nat, ok : BOOLEAN, tags : SUBSET Name]
      /\ \A t \in project.tags : tags[t] # Nil
      /\ NamesResolveOnce
      /\ Nil \notin Name \cup {"canonical", "deprecated"}
      /\ w.action \in Action
  BY GovernanceAssumption
  DEF GovernanceInv, GovernanceTypeOK, GovernanceAssumption, Payload
<1>2. w.action \in {"map", "deprecate"} => w.tag \in Name
  BY DEF Admitted, PayloadFit
<1>3. PICK m : m = Defined(w, n)
  OBVIOUS
<1>4. w.action \in {"create", "map"} => m \in Name
  BY <1>2, <1>3 DEF Defined
<1>5. /\ tags' \in [Name -> {Nil, "canonical", "deprecated"}]
      /\ \A t \in Name : tags[t] # Nil => tags'[t] # Nil
      /\ \A t \in Name : tags'[t] = tags[t] \/ (t = n /\ tags'[t] # Nil)
      /\ w.action \notin {"create", "deprecate"} => tags' = tags
      /\ w.action = "create" => tags'[n] = "canonical"
  BY <1>1 DEF Effect, Action
<1>6. /\ alias' \in [Name -> Name \cup {Nil}]
      /\ w.action # "map" => alias' = alias
      /\ w.action = "map" =>
           \/ alias' = alias
           \/ /\ tags[n] = Nil /\ alias'[n] = w.tag /\ alias'[n] \in Name
              /\ \A t \in Name : t # n => alias'[t] = alias[t]
  BY <1>1, <1>2 DEF Effect
<1>7. /\ project' \in [analysis : Nat, ok : BOOLEAN, tags : SUBSET Name]
      /\ project'.tags = IF w.action \in {"create", "map"}
                         THEN project.tags \cup {m} ELSE project.tags
  BY <1>1, <1>3, <1>4 DEF Effect
<1>8. w.action \in {"create", "map"} => tags'[m] # Nil
  BY <1>1, <1>2, <1>3, <1>5 DEF Defined, Admitted, Canonical
<1>9. \A t \in project'.tags : tags'[t] # Nil
  BY <1>1, <1>5, <1>7, <1>8
<1>10. NamesResolveOnce'
  <2>1. ASSUME NEW x \in Name, alias'[x] # Nil
        PROVE  tags'[x] = Nil /\ tags'[alias'[x]] # Nil
    <3>1. CASE alias'[x] = alias[x]
      <4>1. tags[x] = Nil /\ tags[alias[x]] # Nil /\ alias[x] \in Name
        BY <1>1, <2>1, <3>1 DEF NamesResolveOnce
      <4>2. tags'[alias[x]] # Nil
        BY <1>5, <4>1
      <4>3. tags'[x] = tags[x]
        <5>1. CASE x = n
          BY <1>1, <1>5, <2>1, <3>1, <4>1, <5>1
          DEF Admitted, Canonical, Action
        <5>2. CASE x # n
          BY <1>5, <5>2
        <5> QED BY <5>1, <5>2
      <4> QED BY <3>1, <4>1, <4>2, <4>3
    <3>2. CASE alias'[x] # alias[x]
      <4>1. w.action = "map" /\ x = n /\ tags[n] = Nil /\ alias'[n] = w.tag
        BY <1>6, <3>2
      <4>2. tags' = tags /\ Canonical(w.tag)
        BY <1>5, <4>1 DEF Admitted
      <4> QED BY <1>1, <4>1, <4>2 DEF Canonical
    <3> QED BY <3>1, <3>2
  <2> QED BY <2>1 DEF NamesResolveOnce
<1> QED BY <1>5, <1>6, <1>7, <1>9, <1>10

LEMMA EffectFits ==
  ASSUME GovernanceInv, NEW a \in Attempt, NEW c \in Command,
         NEW w \in Payload, NEW n \in Name, NEW d \in Digest,
         Admitted(a, c, w, n), Effect(c, w, n, d)
  PROVE  TagsFit'
<1> DEFINE old == {t \in project.tags : Canonical(t)}
<1>1. /\ Cardinality(old) <= Capacity /\ Capacity \in Nat
      /\ project \in [analysis : Nat, ok : BOOLEAN, tags : SUBSET Name]
      /\ tags \in [Name -> {Nil, "canonical", "deprecated"}]
      /\ IsFiniteSet(Name) /\ w.action \in Action
  BY GovernanceAssumption
  DEF GovernanceInv, GovernanceTypeOK, GovernanceAssumption, TagsFit, Payload
<1>2. project.tags \in SUBSET Name
  BY <1>1
<1>3. IsFiniteSet(old)
  BY <1>1, <1>2, FS_Subset
<1>4. Cardinality(old) \in Nat
  BY <1>3, FS_CardinalityType
<1>5. CASE w.action \in {"create", "map"}
  <2>1. PICK m : m = Defined(w, n)
    OBVIOUS
  <2>2. old' \subseteq old \cup {m}
    <3>1. project'.tags = project.tags \cup {m}
      BY <1>1, <1>5, <2>1 DEF Effect
    <3>2. \A t \in Name : t # m => (Canonical(t)' <=> Canonical(t))
      BY <1>1, <1>5, <2>1 DEF Effect, Canonical, Defined
    <3> QED BY <1>2, <3>1, <3>2
  <2>3. \/ m \in old
        \/ Cardinality(old) < Capacity
    BY <1>5, <2>1 DEF Admitted
  <2> HIDE DEF old
  <2>4. /\ IsFiniteSet(old \cup {m})
        /\ Cardinality(old \cup {m}) <= Capacity
        /\ Cardinality(old \cup {m}) \in Nat
    <3>1. /\ IsFiniteSet(old \cup {m})
          /\ Cardinality(old \cup {m}) =
               IF m \in old THEN Cardinality(old) ELSE Cardinality(old) + 1
      BY <1>3, FS_AddElement
    <3>2. Cardinality(old) <= Capacity
      BY <1>1
    <3> QED BY <1>1, <1>4, <2>3, <3>1, <3>2
  <2>5. IsFiniteSet(old') /\ Cardinality(old') <= Cardinality(old \cup {m})
    BY <2>2, <2>4, FS_Subset
  <2>6. Cardinality(old') \in Nat
    BY <2>5, FS_CardinalityType
  <2>7. Cardinality(old') <= Capacity
    BY <1>1, <2>4, <2>5, <2>6
  <2> USE DEF old
  <2> QED BY <2>7 DEF TagsFit
<1>6. CASE w.action \notin {"create", "map"}
  <2>1. project' = project
    BY <1>6 DEF Effect
  <2>2. \A t \in Name : Canonical(t)' => Canonical(t)
    BY <1>1, <1>6 DEF Effect, Canonical, Action
  <2>3. old' \subseteq old
    BY <1>2, <2>1, <2>2
  <2> HIDE DEF old
  <2>4. IsFiniteSet(old') /\ Cardinality(old') <= Cardinality(old)
    BY <1>3, <2>3, FS_Subset
  <2>5. Cardinality(old') \in Nat
    BY <2>4, FS_CardinalityType
  <2>6. Cardinality(old') <= Capacity
    BY <1>1, <1>4, <2>4, <2>5
  <2> USE DEF old
  <2> QED BY <2>6 DEF TagsFit
<1> QED BY <1>5, <1>6

\* A batch that commits, whether its answer arrives or not.
LEMMA CommitFits ==
  ASSUME GovernanceInv, NEW a \in Attempt, try[a].at = "batch",
         Receipt(a) = Nil, Guard(a), Apply(a),
         Gets(a, receipts'[try[a].cmd]) \/ Goes(a, "failed"),
         payload' = payload, live' = live, changes' = changes
  PROVE  GovernanceInv'
<1>1. PICK c \in Command, w \in Payload, n \in Name : Admitted(a, c, w, n)
  BY GuardAdmits
<1>2. PICK d \in Digest : d = try[a].digest
  BY <1>1 DEF Admitted
<1>3. Effect(c, w, n, d) /\ c = try[a].cmd
  BY <1>1, <1>2, ApplyEffect DEF Admitted
<1>4. /\ receipts' \in [Command -> ReceiptRow \cup {Nil}]
      /\ receipts'[c] # Nil /\ receipts'[c] = Outcome(c, w, d)
      /\ receipts'[c].digest = d
      /\ Outcome(c, w, d) \in ReceiptRow
      /\ \A x \in Command : x # c => receipts'[x] = receipts[x]
      /\ receipts[c] = Nil
      /\ version' \in Nat \ {0}
  BY <1>1, <1>3, EffectReceipts
<1>5. VersionsHaveCommands' /\ ReceiptsFit'
  BY <1>1, <1>3, EffectVersions
<1>6. /\ OneDecision' /\ \A p \in Proposal : ProposalFits(p)'
      /\ proposals' \in [Proposal -> ProposalRow \cup {Nil}]
      /\ \A p \in Proposal : Exists(p)' = Exists(p)
  BY <1>1, <1>3, EffectDecisions
<1>7. /\ tags' \in [Name -> {Nil, "canonical", "deprecated"}]
      /\ alias' \in [Name -> Name \cup {Nil}]
      /\ project' \in [analysis : Nat, ok : BOOLEAN, tags : SUBSET Name]
      /\ \A t \in project'.tags : tags'[t] # Nil
      /\ NamesResolveOnce'
  BY <1>1, <1>3, EffectNames
<1>8. TagsFit'
  BY <1>1, <1>3, EffectFits
<1>9. Keeps
  BY <1>4, <1>6 DEF Keeps
<1>10. Apart(try, try', a) /\ AttemptFits(a)'
  <2>1. payload[c] # Nil
    BY <1>3 DEF GovernanceInv, AttemptFits
  <2>2. CASE Gets(a, receipts'[try[a].cmd])
    <3>1. PICK r \in ReceiptRow : r = receipts'[c]
      BY <1>4
    <3>2. /\ Apart(try, try', a) /\ try'[a].at = "done"
          /\ try'[a].cmd = c /\ try'[a].digest = d
          /\ try'[a].answer = "result" /\ try'[a].got = r
      BY <1>2, <1>3, <2>2, <3>1, TryGets
    <3> QED BY <1>4, <2>1, <3>1, <3>2 DEF AttemptFits, Receipt
  <2>3. CASE Goes(a, "failed")
    <3>1. /\ Apart(try, try', a) /\ try'[a].at = "failed"
          /\ try'[a].cmd = c /\ try'[a].digest = d
          /\ try'[a].answer = try[a].answer
      BY <1>2, <1>3, <2>3, TryGoes DEF TryPlace
    <3>2. try[a].answer # "result"
      BY DEF GovernanceInv, AttemptFits
    <3> QED BY <2>1, <3>1, <3>2 DEF AttemptFits
  <2> QED BY <2>2, <2>3
<1>11. \A b \in Attempt : AttemptFits(b)'
  BY <1>9, <1>10, OldAttempt DEF Apart
<1>12. GovernanceTypeOK'
  <2>1. live' \subseteq {p \in Suggested : Exists(p)'}
    BY <1>6 DEF GovernanceInv, GovernanceTypeOK, Proposal
  <2> QED
    BY <1>4, <1>6, <1>7, <1>10, <2>1
    DEF GovernanceInv, GovernanceTypeOK, Apart, Tries, Exists
<1>13. PayloadsFit'
  BY DEF GovernanceInv, PayloadsFit
<1> QED
  BY <1>5, <1>6, <1>7, <1>8, <1>11, <1>12, <1>13 DEF GovernanceInv

LEMMA BatchFits ==
  ASSUME GovernanceInv, NEW a \in Attempt, CommandBatch(a)
  PROVE  GovernanceInv'
<1>1. /\ try[a].at = "batch" /\ payload' = payload /\ live' = live
      /\ changes' = changes
  BY DEF CommandBatch
<1>2. CASE Receipt(a) # Nil /\ AnswersReceipt(a) /\ UNCHANGED taxonomy
  BY <1>1, <1>2, ReceiptAnswers
<1>3. CASE /\ Receipt(a) = Nil /\ Guard(a) /\ Apply(a)
           /\ Gets(a, receipts'[try[a].cmd]) \/ Goes(a, "failed")
  BY <1>1, <1>3, CommitFits
<1>4. CASE Goes(a, "failed") /\ UNCHANGED taxonomy
  BY <1>1, <1>4, MovesOn DEF TryPlace
<1> QED BY <1>2, <1>3, <1>4 DEF CommandBatch

-----------------------------------------------------------------------------
(* What happens around the commands.                                       *)

\* Commands are left alone, rows are only added or lose their text.
LEMMA WorldTogether ==
  ASSUME GovernanceInv,
         UNCHANGED <<version, tags, alias, receipts, payload, try>>,
         proposals' \in [Proposal -> ProposalRow \cup {Nil}],
         live' \subseteq {p \in Suggested : Exists(p)'},
         changes' \in 0..MaxChanges,
         project' \in [analysis : Nat, ok : BOOLEAN, tags : SUBSET Name],
         \A t \in project'.tags : tags[t] # Nil,
         \A p \in Proposal : Exists(p) =>
           Exists(p)' /\ proposals'[p].status = proposals[p].status,
         \A p \in Proposal : Exists(p)' /\ ~Exists(p) =>
           proposals'[p].status = "proposed",
         \A p \in Proposal :
           Exists(p)' /\ (p \in Suggested => p \in live')
             => proposals'[p].name # Nil,
         TagsFit'
  PROVE  GovernanceInv'
<1>1. Keeps
  BY DEF Keeps
<1>2. \A a \in Attempt : AttemptFits(a)'
  BY <1>1, OldAttempt
<1>3. GovernanceTypeOK'
  BY DEF GovernanceInv, GovernanceTypeOK, Exists
<1>4. \A p \in Proposal, x \in Command : Decides(x, p)' <=> Decides(x, p)
  BY DEF Decides
<1>5. ASSUME NEW p \in Proposal
      PROVE  ProposalFits(p)'
  <2>1. ProposalFits(p)
    BY DEF GovernanceInv
  <2>2. CASE Exists(p)
    BY <1>4, <2>1, <2>2 DEF ProposalFits
  <2>3. CASE ~Exists(p)
    BY <1>4, <2>1, <2>3 DEF ProposalFits
  <2> QED BY <2>2, <2>3
<1>6. OneDecision' /\ ReceiptsFit' /\ VersionsHaveCommands'
      /\ NamesResolveOnce' /\ PayloadsFit'
  BY <1>4
  DEF GovernanceInv, OneDecision, ReceiptsFit, VersionsHaveCommands,
      NamesResolveOnce, PayloadsFit, Applied
<1> QED BY <1>2, <1>3, <1>5, <1>6 DEF GovernanceInv

\* The tags that the inputs resolve to are no more than the inputs.
LEMMA ResolvedFit ==
  ASSUME GovernanceInv, NEW inputs \in SUBSET Name,
         Cardinality(inputs) <= Capacity
  PROVE  LET T == UNION {Resolved(n) : n \in inputs} IN
         /\ T \subseteq Name /\ \A t \in T : Canonical(t)
         /\ \A U \in SUBSET T : Cardinality(U) <= Capacity
<1> DEFINE T == UNION {Resolved(n) : n \in inputs}
           D == {n \in inputs : Resolved(n) # {}}
           f == [n \in D |-> IF Canonical(n) THEN n ELSE alias[n]]
<1>1. /\ alias \in [Name -> Name \cup {Nil}] /\ IsFiniteSet(Name)
      /\ Capacity \in Nat
  BY GovernanceAssumption
  DEF GovernanceInv, GovernanceTypeOK, GovernanceAssumption
<1>2. \A n \in D : Resolved(n) = {f[n]}
  BY DEF Resolved
<1>3. T \subseteq Name /\ \A t \in T : Canonical(t)
  BY <1>1 DEF Resolved
<1>4. f \in Surjection(D, T)
  <2>1. \A n \in D : f[n] \in T
    BY <1>2
  <2>2. ASSUME NEW t \in T
        PROVE  \E n \in D : f[n] = t
    <3>1. PICK n \in inputs : t \in Resolved(n)
      OBVIOUS
    <3>2. n \in D
      BY <3>1
    <3>3. t \in {f[n]}
      BY <1>2, <3>1, <3>2
    <3> QED BY <3>2, <3>3
  <2> HIDE DEF T, D, f
  <2>3. f \in [D -> T]
    BY <2>1 DEF f
  <2> QED BY <2>2, <2>3 DEF Surjection
<1>5. IsFiniteSet(inputs)
  BY <1>1, FS_Subset
<1>6. IsFiniteSet(D) /\ Cardinality(D) <= Cardinality(inputs)
  BY <1>5, FS_Subset
<1>7. IsFiniteSet(T) /\ Cardinality(T) <= Cardinality(D)
  BY <1>4, <1>6, FS_Surjection
<1>8. /\ Cardinality(T) \in Nat /\ Cardinality(D) \in Nat
      /\ Cardinality(inputs) \in Nat
  BY <1>5, <1>6, <1>7, FS_CardinalityType
<1> HIDE DEF T, D
<1>9. ASSUME NEW U \in SUBSET T
      PROVE  Cardinality(U) <= Capacity
  <2>1. IsFiniteSet(U) /\ Cardinality(U) <= Cardinality(T)
    BY <1>7, FS_Subset
  <2>2. Cardinality(U) \in Nat
    BY <2>1, FS_CardinalityType
  <2> QED BY <1>1, <1>6, <1>7, <1>8, <2>1, <2>2
<1> USE DEF T
<1> QED BY <1>3, <1>9

LEMMA AnalyseFits ==
  ASSUME GovernanceInv, Analyse
  PROVE  GovernanceInv'
<1>1. PICK inputs \in SUBSET Name, p \in Assessed :
        /\ Cardinality(inputs) <= Capacity
        /\ project' = [analysis |-> project.analysis + 1, ok |-> TRUE,
                       tags |-> UNION {Resolved(n) : n \in inputs}]
        /\ \/ \E n \in inputs :
                /\ Resolved(n) = {} /\ ~Exists(p)
                /\ proposals' = [proposals EXCEPT ![p] =
                     [name |-> n, analysis |-> project'.analysis,
                      status |-> "proposed"]]
           \/ UNCHANGED proposals
  BY DEF Analyse
<1>2. PICK T : T = UNION {Resolved(n) : n \in inputs}
  OBVIOUS
<1>3. /\ T \subseteq Name /\ \A t \in T : Canonical(t)
      /\ \A U \in SUBSET T : Cardinality(U) <= Capacity
  BY <1>1, <1>2, ResolvedFit
<1>4. /\ UNCHANGED <<version, tags, alias, live, receipts, payload, try>>
      /\ changes' \in 0..MaxChanges
  BY GovernanceAssumption
  DEF Analyse, GovernanceInv, GovernanceTypeOK, GovernanceAssumption
<1>5. /\ proposals \in [Proposal -> ProposalRow \cup {Nil}]
      /\ Nil \notin ProposalRow /\ Nil \notin Name
      /\ project.analysis + 1 \in Nat /\ p \in Proposal /\ p \notin Suggested
      /\ live \subseteq {q \in Suggested : Exists(q)}
      /\ \A q \in Proposal : ProposalFits(q)
  BY GovernanceAssumption
  DEF GovernanceInv, GovernanceTypeOK, GovernanceAssumption, Proposal
<1>6. /\ project' \in [analysis : Nat, ok : BOOLEAN, tags : SUBSET Name]
      /\ project'.tags = T /\ project'.analysis \in Nat
  BY <1>1, <1>2, <1>3, <1>5
<1>7. \A t \in project'.tags : tags[t] # Nil
  BY <1>3, <1>6, GovernanceAssumption DEF Canonical, GovernanceAssumption
<1>8. TagsFit'
  <2>1. {t \in project'.tags : Canonical(t)'} \in SUBSET T
    BY <1>6
  <2> QED BY <1>3, <2>1 DEF TagsFit
<1>9. CASE UNCHANGED proposals
  <2>1. live' \subseteq {q \in Suggested : Exists(q)'}
    BY <1>4, <1>5, <1>9 DEF Exists
  <2>2. \A q \in Proposal :
          Exists(q)' /\ (q \in Suggested => q \in live')
            => proposals'[q].name # Nil
    BY <1>4, <1>5, <1>9 DEF Exists, ProposalFits
  <2>3. \A q \in Proposal :
          Exists(q)' = Exists(q) /\ proposals'[q] = proposals[q]
    BY <1>9 DEF Exists
  <2> QED
    BY <1>4, <1>5, <1>6, <1>7, <1>8, <1>9, <2>1, <2>2, <2>3, WorldTogether
<1>10. CASE ~UNCHANGED proposals
  <2>1. PICK n \in inputs :
          /\ ~Exists(p)
          /\ proposals' = [proposals EXCEPT ![p] =
               [name |-> n, analysis |-> project'.analysis,
                status |-> "proposed"]]
    BY <1>1, <1>10
  <2>2. PICK row \in ProposalRow :
          /\ row.name = n /\ row.status = "proposed" /\ row.name # Nil
          /\ proposals' = [proposals EXCEPT ![p] = row]
    <3> DEFINE new == [name |-> n, analysis |-> project'.analysis,
                       status |-> "proposed"]
    <3>1. new \in ProposalRow /\ new.name = n /\ new.status = "proposed"
      BY <1>6 DEF ProposalRow, Status
    <3> HIDE DEF new
    <3>2. n # Nil
      BY <1>5
    <3>3. proposals' = [proposals EXCEPT ![p] = new]
      BY <2>1 DEF new
    <3> QED BY <3>1, <3>2, <3>3
  <2>3. /\ proposals' \in [Proposal -> ProposalRow \cup {Nil}]
        /\ proposals'[p] = row /\ Exists(p)'
        /\ \A q \in Proposal : q # p =>
             proposals'[q] = proposals[q] /\ Exists(q)' = Exists(q)
    BY <1>5, <2>2 DEF Exists
  <2>4. live' \subseteq {q \in Suggested : Exists(q)'}
    BY <1>4, <1>5, <2>3 DEF Proposal
  <2>5. \A q \in Proposal :
          Exists(q)' /\ (q \in Suggested => q \in live')
            => proposals'[q].name # Nil
    BY <1>4, <1>5, <2>2, <2>3 DEF ProposalFits
  <2>6. \A q \in Proposal : Exists(q) =>
           Exists(q)' /\ proposals'[q].status = proposals[q].status
    BY <2>1, <2>3
  <2>7. \A q \in Proposal : Exists(q)' /\ ~Exists(q) =>
           proposals'[q].status = "proposed"
    BY <2>2, <2>3
  <2> QED
    BY <1>4, <1>6, <1>7, <1>8, <2>3, <2>4, <2>5, <2>6, <2>7, WorldTogether
<1> QED BY <1>9, <1>10

LEMMA WithdrawFits ==
  ASSUME GovernanceInv, WithdrawProject
  PROVE  GovernanceInv'
<1>1. /\ UNCHANGED <<version, tags, alias, live, receipts, payload, try>>
      /\ proposals' = proposals
      /\ changes' \in 0..MaxChanges
  BY GovernanceAssumption
  DEF WithdrawProject, GovernanceInv, GovernanceTypeOK, GovernanceAssumption
<1>2. /\ project' \in [analysis : Nat, ok : BOOLEAN, tags : SUBSET Name]
      /\ project'.tags = project.tags
  BY DEF WithdrawProject, GovernanceInv, GovernanceTypeOK
<1>3. TagsFit'
  BY <1>1, <1>2 DEF GovernanceInv, TagsFit, Canonical
<1>4. /\ proposals' \in [Proposal -> ProposalRow \cup {Nil}]
      /\ live' \subseteq {q \in Suggested : Exists(q)'}
      /\ \A t \in project'.tags : tags[t] # Nil
      /\ \A q \in Proposal :
           Exists(q)' = Exists(q) /\ proposals'[q] = proposals[q]
      /\ \A q \in Proposal :
           Exists(q)' /\ (q \in Suggested => q \in live')
             => proposals'[q].name # Nil
  BY <1>1, <1>2 DEF GovernanceInv, GovernanceTypeOK, Exists, ProposalFits
<1> QED BY <1>1, <1>2, <1>3, <1>4, WorldTogether

LEMMA SuggestFits ==
  ASSUME GovernanceInv, NEW p \in Suggested, Suggest(p)
  PROVE  GovernanceInv'
<1>1. PICK n \in Name : proposals' = [proposals EXCEPT ![p] = Proposed(n)]
  BY DEF Suggest
<1>2. /\ UNCHANGED <<version, tags, alias, project, receipts, payload, try,
                     changes>>
      /\ live' = live \cup {p} /\ ~Exists(p)
  BY DEF Suggest
<1>3. /\ proposals \in [Proposal -> ProposalRow \cup {Nil}]
      /\ Nil \notin ProposalRow /\ Nil \notin Name /\ p \in Proposal
      /\ live \subseteq {q \in Suggested : Exists(q)}
      /\ project \in [analysis : Nat, ok : BOOLEAN, tags : SUBSET Name]
      /\ \A t \in project.tags : tags[t] # Nil
      /\ \A q \in Proposal : ProposalFits(q)
      /\ changes \in 0..MaxChanges
  BY GovernanceAssumption
  DEF GovernanceInv, GovernanceTypeOK, GovernanceAssumption, Proposal
<1>4. PICK row \in ProposalRow :
        /\ row.name = n /\ row.status = "proposed"
        /\ proposals' = [proposals EXCEPT ![p] = row]
  <2> DEFINE new == Proposed(n)
  <2>1. new \in ProposalRow /\ new.name = n /\ new.status = "proposed"
    BY <1>3 DEF ProposalRow, Status, Proposed
  <2>2. proposals' = [proposals EXCEPT ![p] = new]
    BY <1>1
  <2> HIDE DEF new
  <2> QED BY <2>1, <2>2
<1>5. /\ proposals' \in [Proposal -> ProposalRow \cup {Nil}]
      /\ proposals'[p] = row /\ Exists(p)'
      /\ \A q \in Proposal : q # p =>
           proposals'[q] = proposals[q] /\ Exists(q)' = Exists(q)
  BY <1>3, <1>4 DEF Exists
<1>6. live' \subseteq {q \in Suggested : Exists(q)'}
  BY <1>2, <1>3, <1>5 DEF Proposal
<1>7. \A q \in Proposal :
        Exists(q)' /\ (q \in Suggested => q \in live')
          => proposals'[q].name # Nil
  BY <1>2, <1>3, <1>4, <1>5 DEF ProposalFits
<1>8. \A q \in Proposal : Exists(q) =>
         Exists(q)' /\ proposals'[q].status = proposals[q].status
  BY <1>2, <1>5
<1>9. \A q \in Proposal : Exists(q)' /\ ~Exists(q) =>
         proposals'[q].status = "proposed"
  BY <1>4, <1>5
<1>10. TagsFit'
  BY <1>2 DEF GovernanceInv, TagsFit, Canonical
<1> QED
  BY <1>2, <1>3, <1>5, <1>6, <1>7, <1>8, <1>9, <1>10, WorldTogether

LEMMA RedactFits ==
  ASSUME GovernanceInv, NEW p \in Suggested, RedactText(p)
  PROVE  GovernanceInv'
<1>1. /\ UNCHANGED <<version, tags, alias, live, project, receipts, payload,
                     try, changes>>
      /\ Exists(p) /\ p \notin live
      /\ proposals' = [proposals EXCEPT ![p].name = Nil]
  BY DEF RedactText
<1>2. /\ proposals \in [Proposal -> ProposalRow \cup {Nil}]
      /\ Nil \notin ProposalRow /\ p \in Proposal
      /\ live \subseteq {q \in Suggested : Exists(q)}
      /\ project \in [analysis : Nat, ok : BOOLEAN, tags : SUBSET Name]
      /\ \A t \in project.tags : tags[t] # Nil
      /\ \A q \in Proposal : ProposalFits(q)
      /\ changes \in 0..MaxChanges
  BY GovernanceAssumption
  DEF GovernanceInv, GovernanceTypeOK, GovernanceAssumption, Proposal
<1>3. /\ proposals'[p] \in ProposalRow
      /\ proposals'[p].status = proposals[p].status
      /\ \A q \in Proposal : q # p => proposals'[q] = proposals[q]
      /\ proposals' \in [Proposal -> ProposalRow \cup {Nil}]
  <2>1. proposals[p] \in ProposalRow
    BY <1>1, <1>2 DEF Exists
  <2> QED BY <1>1, <1>2, <2>1 DEF ProposalRow
<1>4. /\ \A q \in Proposal : Exists(q)' = Exists(q)
      /\ \A q \in Proposal :
           Exists(q) => proposals'[q].status = proposals[q].status
  BY <1>1, <1>2, <1>3 DEF Exists
<1>5. live' \subseteq {q \in Suggested : Exists(q)'}
  BY <1>1, <1>2, <1>4 DEF Proposal
<1>6. \A q \in Proposal :
        Exists(q)' /\ (q \in Suggested => q \in live')
          => proposals'[q].name # Nil
  BY <1>1, <1>2, <1>3, <1>4 DEF ProposalFits
<1>7. TagsFit'
  BY <1>1 DEF GovernanceInv, TagsFit, Canonical
<1> QED BY <1>1, <1>2, <1>3, <1>4, <1>5, <1>6, <1>7, WorldTogether

LEMMA ForgetFits ==
  ASSUME GovernanceInv,
         UNCHANGED <<taxonomy, payload, try, changes>>, live' \subseteq live
  PROVE  GovernanceInv'
<1>1. /\ UNCHANGED <<version, tags, alias, project, receipts, payload, try,
                     changes, proposals>>
  BY DEF taxonomy
<1>2. /\ proposals \in [Proposal -> ProposalRow \cup {Nil}]
      /\ live \subseteq {q \in Suggested : Exists(q)}
      /\ project \in [analysis : Nat, ok : BOOLEAN, tags : SUBSET Name]
      /\ \A t \in project.tags : tags[t] # Nil
      /\ \A q \in Proposal : ProposalFits(q)
      /\ changes \in 0..MaxChanges
  BY DEF GovernanceInv, GovernanceTypeOK
<1>3. \A q \in Proposal :
        Exists(q)' = Exists(q) /\ proposals'[q] = proposals[q]
  BY <1>1 DEF Exists
<1>4. live' \subseteq {q \in Suggested : Exists(q)'}
  BY <1>2, <1>3 DEF Proposal
<1>5. \A q \in Proposal :
        Exists(q)' /\ (q \in Suggested => q \in live')
          => proposals'[q].name # Nil
  BY <1>2, <1>3 DEF ProposalFits
<1>6. TagsFit'
  BY <1>1 DEF GovernanceInv, TagsFit, Canonical
<1> QED BY <1>1, <1>2, <1>3, <1>4, <1>5, <1>6, WorldTogether

-----------------------------------------------------------------------------
LEMMA GovernanceInvInit == GovernanceInit => GovernanceInv
<1> SUFFICES ASSUME GovernanceInit PROVE GovernanceInv
  OBVIOUS
<1>1. /\ Nil \notin Command \cup Name \cup Proposal
      /\ Capacity \in Nat /\ MaxChanges \in Nat
  BY GovernanceAssumption DEF GovernanceAssumption
<1>2. PICK defined \in SUBSET Name :
        tags = [n \in Name |-> IF n \in defined THEN "canonical" ELSE Nil]
  BY DEF GovernanceInit
<1>3. /\ project \in [analysis : Nat, ok : BOOLEAN, tags : SUBSET Name]
      /\ project.tags = {}
  BY DEF GovernanceInit
<1>4. NewTry \in Try /\ NewTry.at = "new" /\ NewTry.answer = "none"
  BY DEF NewTry, Try
<1>5. GovernanceTypeOK
  BY <1>1, <1>2, <1>3, <1>4 DEF GovernanceInit, GovernanceTypeOK
<1>6. PayloadsFit
  BY DEF GovernanceInit, PayloadsFit
<1>7. \A a \in Attempt : AttemptFits(a)
  BY <1>4 DEF GovernanceInit, AttemptFits
<1>8. (\A p \in Proposal : ProposalFits(p)) /\ OneDecision
  BY DEF GovernanceInit, ProposalFits, OneDecision, Decides, Exists
<1>9. Applied = {}
  BY DEF GovernanceInit, Applied
<1>10. ReceiptsFit
  BY <1>9, FS_EmptySet DEF ReceiptsFit
<1>11. VersionsHaveCommands
  <2>1. {x \in Applied : receipts[x].action # "reject"} = {}
    BY <1>9
  <2>2. version = 1 + 0
    BY DEF GovernanceInit
  <2> QED BY <2>1, <2>2, FS_EmptySet DEF VersionsHaveCommands
<1>12. NamesResolveOnce
  BY DEF GovernanceInit, NamesResolveOnce
<1>13. TagsFit
  <2>1. {t \in project.tags : Canonical(t)} = {}
    BY <1>3
  <2> QED BY <1>1, <2>1, FS_EmptySet DEF TagsFit
<1> QED
  BY <1>5, <1>6, <1>7, <1>8, <1>10, <1>11, <1>12, <1>13 DEF GovernanceInv

LEMMA GovernanceInvNext ==
  GovernanceInv /\ [GovernanceNext]_governanceVars => GovernanceInv'
<1> SUFFICES ASSUME GovernanceInv, [GovernanceNext]_governanceVars
             PROVE  GovernanceInv'
  OBVIOUS
<1>1. ASSUME NEW a \in Attempt, AttemptStep(a)
      PROVE  GovernanceInv'
  BY <1>1, SendFits, ReadsFit, EndsFit, BatchFits DEF AttemptStep
<1>2. ASSUME NEW p \in Suggested, Suggest(p) \/ RedactText(p)
      PROVE  GovernanceInv'
  BY <1>2, SuggestFits, RedactFits
<1>3. CASE Analyse
  BY <1>3, AnalyseFits
<1>4. CASE WithdrawProject
  BY <1>4, WithdrawFits
<1>5. CASE Forget
  BY <1>5, ForgetFits DEF Forget
<1>6. CASE UNCHANGED governanceVars
  BY <1>6, ForgetFits DEF governanceVars, taxonomy
<1> QED BY <1>1, <1>2, <1>3, <1>4, <1>5, <1>6 DEF GovernanceNext

\* A name that is decided stands until its author deletes the profile, and a
\* proposal is decided exactly when one command decided it.
THEOREM GovernanceInvariant == GovernanceSpec => []GovernanceInv
<1> QED BY GovernanceInvInit, GovernanceInvNext, PTL DEF GovernanceSpec

LEMMA GovernanceGives ==
  GovernanceInv => /\ GovernanceTypeOK /\ VersionsHaveCommands /\ DecidedOnce
                   /\ NamesResolveOnce /\ TagsFit /\ AnswersAreReceipts
<1> SUFFICES ASSUME GovernanceInv
             PROVE  DecidedOnce /\ AnswersAreReceipts
  BY DEF GovernanceInv
<1>1. DecidedOnce
  <2>1. ASSUME NEW p \in Proposal
        PROVE  LET by == {c \in Applied : receipts[c].proposal = p} IN
               /\ Cardinality(by) <= 1
               /\ Exists(p) => (proposals[p].status # "proposed") = (by # {})
    <3> DEFINE by == {c \in Applied : receipts[c].proposal = p}
    <3>1. \A c \in Command : c \in by <=> Decides(c, p)
      BY DEF Applied, Decides
    <3>2. by \subseteq Command
      BY DEF Applied
    <3>3. \A c, d \in by : c = d
      BY <3>1, <3>2 DEF GovernanceInv, OneDecision
    <3>4. Exists(p) => (proposals[p].status # "proposed") = (by # {})
      BY <3>1, <3>2 DEF GovernanceInv, ProposalFits
    <3>5. CASE by = {}
      <4>1. Cardinality(by) = 0
        BY <3>5, FS_EmptySet
      <4> QED BY <3>4, <4>1
    <3>6. CASE by # {}
      <4>1. PICK c : by = {c}
        BY <3>3, <3>6
      <4>2. Cardinality(by) = 1
        BY <4>1, FS_Singleton
      <4> QED BY <3>4, <4>2
    <3> QED BY <3>5, <3>6
  <2> QED BY <2>1 DEF DecidedOnce
<1>2. AnswersAreReceipts
  BY DEF GovernanceInv, AttemptFits, AnswersAreReceipts
<1> QED BY <1>1, <1>2

LEMMA GovernanceSteps ==
  GovernanceInv /\ [GovernanceNext]_governanceVars
    => [GoneIsNotPromoted]_governanceVars
<1> SUFFICES ASSUME GovernanceInv, [GovernanceNext]_governanceVars,
                    NEW p \in Suggested, Exists(p),
                    proposals'[p].status # proposals[p].status
             PROVE  p \in live
  BY DEF GoneIsNotPromoted
<1>1. p \in Proposal /\ proposals[p] \in ProposalRow
      /\ proposals \in [Proposal -> ProposalRow \cup {Nil}]
  BY DEF Proposal, Exists, GovernanceInv, GovernanceTypeOK
<1>2. ASSUME NEW a \in Attempt, try[a].at = "batch", Receipt(a) = Nil,
             Guard(a), Apply(a)
      PROVE  p \in live
  <2>1. PICK c \in Command, w \in Payload, n \in Name : Admitted(a, c, w, n)
    BY <1>2, GuardAdmits
  <2>2. PICK d : d = try[a].digest
    OBVIOUS
  <2>3. Effect(c, w, n, d) /\ w = Asked(a)
    BY <1>2, <2>1, <2>2, ApplyEffect DEF Admitted
  <2>4. w.action # "deprecate" /\ w.proposal = p
    BY <1>1, <2>3 DEF Effect
  <2> QED BY <1>2, <2>3, <2>4 DEF Guard, AuthorStands, Review
<1>3. ASSUME NEW a \in Attempt, AttemptStep(a)
      PROVE  p \in live
  <2>1. proposals' # proposals
    OBVIOUS
  <2>2. CommandBatch(a)
    BY <1>3, <2>1
    DEF AttemptStep, Send, ReadReceipt, ReadProposal, Recheck, Failed,
        Reread, taxonomy
  <2> QED BY <1>2, <2>1, <2>2 DEF CommandBatch, taxonomy
<1>4. ASSUME NEW q \in Suggested, Suggest(q) \/ RedactText(q)
      PROVE  FALSE
  <2>1. CASE Suggest(q)
    BY <1>1, <2>1 DEF Suggest
  <2>2. CASE RedactText(q)
    <3>1. q \in Proposal /\ proposals[q] \in ProposalRow
      BY <2>2 DEF RedactText, Proposal, Exists, GovernanceInv, GovernanceTypeOK
    <3>2. proposals'[p].status = proposals[p].status
      BY <1>1, <2>2, <3>1 DEF RedactText, ProposalRow
    <3> QED BY <3>2
  <2> QED BY <1>4, <2>1, <2>2
<1>5. ~Analyse
  <2>1. p \notin Assessed
    BY GovernanceAssumption DEF GovernanceAssumption
  <2> QED BY <1>1, <2>1 DEF Analyse
<1> QED
  BY <1>3, <1>4, <1>5
  DEF GovernanceNext, governanceVars, WithdrawProject, Forget, taxonomy

\* One command for each version, one decision for each proposal, one meaning
\* for each name, and nothing of an author who is gone.
THEOREM GovernanceSafeHolds == GovernanceSpec => GovernanceSafe
<1> QED
  BY GovernanceInvariant, GovernanceGives, GovernanceSteps, PTL
  DEF GovernanceSpec, GovernanceSafe
=============================================================================
