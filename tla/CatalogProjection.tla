-------------------------- MODULE CatalogProjection --------------------------
(***************************************************************************)
(* The self-hosted Feed catalog: completed assessments of the source are   *)
(* projected into PostgreSQL by a worker that follows hints and by sweeps  *)
(* of the reconcilers (internal/backend/feed_reconciler.go), incremental   *)
(* from a cursor or full under a lease.  Hints are lost, reads go stale    *)
(* before the write, leases expire, processes die, operators moderate      *)
(* (feed_admin.go) and rows leave the source and come back.                *)
(***************************************************************************)
EXTENDS Integers, FiniteSets, FiniteSetsExt

CONSTANTS
  Project,        \* repository keys, naturals in their order
  Reconciler, Consumer,
  Risks,          \* risks an assessment may find: "none", "high", "critical"
  MaxChanges,     \* bound on the changes of the source
  MaxModerations, \* bound on the actions of operators
  Trouble,        \* bound on failed calls and crashes
  Overlap,        \* changes that the window of an incremental sweep repeats
  None

\* Assessments and rows of the catalog.
Item == [here : BOOLEAN, ver : Nat, meta : {0, 1}, risk : Risks, u : Nat]
Row == [ver : Nat, meta : {0, 1}, risk : Risks, missing : BOOLEAN,
        override : BOOLEAN, removed : BOOLEAN, pub : BOOLEAN]

ASSUME ConstantsAssumption ==
  /\ Project \subseteq Nat \ {0} /\ IsFiniteSet(Project) /\ Project # {}
  /\ Risks \subseteq {"none", "high", "critical"} /\ "none" \in Risks
  /\ {MaxChanges, MaxModerations, Trouble, Overlap} \subseteq Nat
  /\ None \notin Row

VARIABLES
  src,       \* the assessments
  now,       \* time of the source, by its changes
  hints,     \* projects with a message in the catalog queue
  cat,       \* feed.projects
  cursor,    \* the incremental cursor
  lease,     \* owner of the reconciliation lease, and whether it still runs
  at, job,   \* the reconcilers and their cycle
  since,     \* projects written since each cycle started
  absent,    \* projects the source lacked at some time of each cycle
  sync,      \* what each consumer has read
  moderations, trouble

vars == <<src, now, hints, cat, cursor, lease, at, job, since, absent, sync,
          moderations, trouble>>
source == <<src, now>>
cycles == <<cursor, lease, at, job>>
bounds == <<moderations, trouble>>

NoJob == [cur |-> None, count |-> 0, full |-> FALSE, u |-> 0, p |-> 0,
          seen |-> {}, item |-> None, high |-> 0]
Gone == [here |-> FALSE, ver |-> 0, meta |-> 0, risk |-> "none", u |-> 0]
Here == {p \in Project : src[p].here}

Init ==
  /\ src = [p \in Project |-> Gone]
  /\ now = 0 /\ hints = {}
  /\ cat = [p \in Project |-> None]
  /\ cursor = [set |-> FALSE, u |-> 0, count |-> 0, recent |-> FALSE]
  /\ lease = [by |-> None, runs |-> FALSE]
  /\ at = [w \in Reconciler |-> "idle"]
  /\ job = [w \in Reconciler |-> NoJob]
  /\ since = [w \in Reconciler |-> {}]
  /\ absent = [w \in Reconciler |-> {}]
  /\ sync = [c \in Consumer |-> None]
  /\ moderations = MaxModerations /\ trouble = Trouble

-----------------------------------------------------------------------------
(* The source.                                                             *)

Change(p, row) ==
  /\ now < MaxChanges /\ now' = now + 1
  /\ src' = [src EXCEPT ![p] = row]
  /\ absent' = [w \in Reconciler |->
       IF row.here THEN absent[w] ELSE absent[w] \cup {p}]
  /\ UNCHANGED <<cat, cycles, since, sync, bounds>>

\* An analysis completes; its hint may not reach the queue, or nobody reads it.
Analyse(p) ==
  /\ \E risk \in Risks :
       Change(p, [here |-> TRUE, ver |-> src[p].ver + 1, meta |-> src[p].meta,
                  risk |-> risk, u |-> now + 1])
  /\ hints' \in {hints} \cup {hints \cup {p} : c \in Consumer}

\* The repository metadata changes without touching the assessment.
Enrich(p) ==
  /\ src[p].here /\ src[p].meta = 0
  /\ Change(p, [src[p] EXCEPT !.meta = 1])
  /\ UNCHANGED hints

Withdraw(p) ==
  /\ src[p].here
  /\ Change(p, [src[p] EXCEPT !.here = FALSE])
  /\ UNCHANGED hints

\* The row comes back byte for byte.
Restore(p) ==
  /\ ~src[p].here /\ src[p].ver > 0
  /\ Change(p, [src[p] EXCEPT !.here = TRUE])
  /\ UNCHANGED hints

-----------------------------------------------------------------------------
(* The catalog.                                                            *)

Hash(row) == <<row.ver, row.meta>>
Eligible(item) == item.risk = "high"
Clean(item) == item.risk = "none"

\* A late, older projection does not replace the current one.
Supersedes(item, row) == row.ver <= item.ver

Overridden(item, row) == row.override /\ Hash(row) = Hash(item)

Published(item, row) ==
  ~row.removed /\ (Clean(item) \/ (Overridden(item, row) /\ Eligible(item)))

Projected(item, row) ==
  [ver |-> item.ver, meta |-> item.meta, risk |-> item.risk,
   missing |-> FALSE, override |-> Overridden(item, row),
   removed |-> row.removed, pub |-> Published(item, row)]

NoRow == [ver |-> 0, meta |-> 0, risk |-> "none", missing |-> FALSE,
          override |-> FALSE, removed |-> FALSE, pub |-> FALSE]

\* UpsertFeedProject: the row, its tags and its outbox message in one step.
Upsert(p, item) ==
  LET row == IF cat[p] = None THEN NoRow ELSE cat[p] IN
  IF Supersedes(item, row) /\ Projected(item, row) # row
  THEN /\ cat' = [cat EXCEPT ![p] = Projected(item, row)]
       /\ since' = [w \in Reconciler |-> since[w] \cup {p}]
  ELSE UNCHANGED <<cat, since>>

\* FeedProjectSourceHashes leaves out rows that were hidden as missing.
Known(p, item) ==
  cat[p] # None /\ ~cat[p].missing /\ Hash(cat[p]) = Hash(item)

Moderate(p, action) ==
  /\ cat[p] # None /\ moderations > 0 /\ moderations' = moderations - 1
  /\ action = "override" => Eligible(cat[p])
  /\ LET override == CASE action = "override" -> TRUE
                       [] action = "no override" -> FALSE
                       [] OTHER -> cat[p].override
         removed == CASE action = "remove" -> TRUE
                      [] action = "restore" -> FALSE
                      [] OTHER -> cat[p].removed
         clean == Clean(cat[p]) /\ ~cat[p].missing
     IN cat' = [cat EXCEPT
          ![p].override = override, ![p].removed = removed,
          ![p].pub = ~removed /\ (clean \/ (override /\ Eligible(cat[p])))]
  /\ since' = [w \in Reconciler |->
       IF cat' # cat THEN since[w] \cup {p} ELSE since[w]]
  /\ UNCHANGED <<source, hints, cycles, absent, sync, trouble>>

-----------------------------------------------------------------------------
(* The worker that follows the hints.                                      *)

SyncRead(c) ==
  /\ sync[c] = None
  /\ \E p \in hints :
       /\ hints' = hints \ {p}
       /\ IF src[p].here /\ ~Known(p, src[p])
          THEN sync' = [sync EXCEPT ![c] = [p |-> p, item |-> src[p]]]
          ELSE UNCHANGED sync
  /\ UNCHANGED <<source, cat, cycles, since, absent, bounds>>

SyncWrite(c) ==
  /\ sync[c] # None
  /\ Upsert(sync[c].p, sync[c].item)
  /\ sync' = [sync EXCEPT ![c] = None]
  /\ UNCHANGED <<source, hints, cycles, absent, bounds>>

\* A failure puts the hint back, and drops it when its attempts are used up.
SyncFails(c) ==
  /\ sync[c] # None /\ trouble > 0 /\ trouble' = trouble - 1
  /\ hints' \in {hints, hints \cup {sync[c].p}}
  /\ sync' = [sync EXCEPT ![c] = None]
  /\ UNCHANGED <<source, cat, cycles, since, absent, moderations>>

-----------------------------------------------------------------------------
(* The reconcilers.                                                        *)

Moves(w, to) == at' = [at EXCEPT ![w] = to]

\* The cursor and the size of the source decide the kind of the cycle.
Load(w) ==
  /\ at[w] = "idle"
  /\ job' = [job EXCEPT ![w] = [NoJob EXCEPT !.cur = cursor,
       !.count = Cardinality(Here),
       !.full = ~cursor.set \/ ~cursor.recent
                  \/ Cardinality(Here) < cursor.count]]
  /\ Moves(w, "lease")
  /\ UNCHANGED <<source, hints, cat, cursor, lease, since, absent, sync,
                 bounds>>

Acquire(w) ==
  /\ at[w] = "lease"
  /\ IF lease.by \in {None, w} \/ ~lease.runs
     THEN /\ lease' = [by |-> w, runs |-> TRUE]
          /\ job' = [job EXCEPT ![w].high = job[w].cur.u,
               ![w].u = IF job[w].cur.u > Overlap
                        THEN job[w].cur.u - Overlap - 1 ELSE 0]
          /\ since' = [since EXCEPT ![w] = {}]
          /\ absent' = [absent EXCEPT ![w] = Project \ Here]
          /\ Moves(w, "page")
     ELSE Moves(w, "idle") /\ UNCHANGED <<lease, job, since, absent>>
  /\ UNCHANGED <<source, hints, cat, cursor, sync, bounds>>

\* The 45 seconds pass without a renewal: the owner is gone, or stalls.
Expire ==
  /\ lease.runs /\ lease' = [lease EXCEPT !.runs = FALSE]
  /\ IF at[lease.by] = "idle" THEN UNCHANGED trouble
     ELSE trouble > 0 /\ trouble' = trouble - 1
  /\ UNCHANGED <<source, hints, cat, cursor, at, job, since, absent, sync,
                 moderations>>

\* What is left to read: by key in a full sweep, by time and key otherwise.
Left(w) ==
  IF job[w].full THEN {p \in Here : p > job[w].p}
  ELSE {p \in Here : \/ src[p].u > job[w].u
                     \/ src[p].u = job[w].u /\ p > job[w].p}
Before(p, q, full) ==
  IF full THEN p <= q
  ELSE src[p].u < src[q].u \/ (src[p].u = src[q].u /\ p <= q)

\* Mutant of Seen: only projects that are written count as seen.
SeenWritten(w, p) ==
  IF Known(p, src[p]) THEN job[w].seen ELSE job[w].seen \cup {p}

Seen(w, p) == job[w].seen \cup {p}

\* One page of the keyset, its metadata and the hashes that are known.
Page(w) ==
  /\ at[w] = "page"
  /\ IF Left(w) = {}
     THEN /\ Moves(w, IF ~job[w].full THEN "release"
                      ELSE IF job[w].seen = {} THEN "abort" ELSE "finalize")
          /\ UNCHANGED job
     ELSE LET p == CHOOSE q \in Left(w) :
                     \A r \in Left(w) : Before(q, r, job[w].full)
              known == Known(p, src[p])
          IN /\ job' = [job EXCEPT ![w] = [job[w] EXCEPT
                  !.u = IF job[w].full THEN @ ELSE src[p].u, !.p = p,
                  !.seen = Seen(w, p), !.high = Max({job[w].high, src[p].u}),
                  !.item = IF known THEN None ELSE src[p]]]
             /\ Moves(w, IF known THEN "renew" ELSE "write")
  /\ UNCHANGED <<source, hints, cat, cursor, lease, since, absent, sync,
                 bounds>>

Write(w) ==
  /\ at[w] = "write"
  /\ Upsert(job[w].p, job[w].item)
  /\ job' = [job EXCEPT ![w].item = None]
  /\ Moves(w, "renew")
  /\ UNCHANGED <<source, hints, cursor, lease, absent, sync, bounds>>

\* An expired lease cannot be resurrected.
Renewed(w) == lease.by = w /\ lease.runs

Renew(w) ==
  /\ at[w] = "renew"
  /\ Moves(w, IF Renewed(w) THEN "page" ELSE "abort")
  /\ UNCHANGED <<source, hints, cat, cursor, lease, job, since, absent, sync,
                 bounds>>

RenewLast(w) ==
  /\ at[w] = "finalize"
  /\ Moves(w, IF Renewed(w) THEN "hide" ELSE "abort")
  /\ UNCHANGED <<source, hints, cat, cursor, lease, job, since, absent, sync,
                 bounds>>

\* FinalizeFeedProjectReconcile.
Hidden(w) == {p \in Project : /\ cat[p] # None /\ cat[p].pub
                              /\ p \notin job[w].seen /\ p \notin since[w]}
Finalize(w) ==
  /\ at[w] = "hide"
  /\ cat' = [p \in Project |-> IF p \in Hidden(w)
       THEN [cat[p] EXCEPT !.pub = FALSE, !.missing = TRUE] ELSE cat[p]]
  /\ since' = [v \in Reconciler |-> since[v] \cup Hidden(w)]
  /\ Moves(w, "release")
  /\ UNCHANGED <<source, hints, cursor, lease, job, absent, sync, bounds>>

\* The lease is given back first; the cursor is saved without it.
Release(w) ==
  /\ at[w] \in {"release", "abort"}
  /\ lease' = IF lease.by = w THEN [by |-> None, runs |-> FALSE] ELSE lease
  /\ Moves(w, IF at[w] = "release" THEN "save" ELSE "idle")
  /\ UNCHANGED <<source, hints, cat, cursor, job, since, absent, sync, bounds>>

Save(w) ==
  /\ at[w] = "save"
  /\ cursor' = [set |-> TRUE, u |-> Max({job[w].cur.u, job[w].high}),
                count |-> job[w].count,
                recent |-> job[w].full \/ job[w].cur.recent]
  /\ job' = [job EXCEPT ![w] = NoJob]
  /\ Moves(w, "idle")
  /\ UNCHANGED <<source, hints, cat, lease, since, absent, sync, bounds>>

\* A call fails, or the process dies and leaves its lease behind.
Fails(w) ==
  /\ at[w] \in {"page", "write", "hide"}
  /\ trouble > 0 /\ trouble' = trouble - 1
  /\ at' \in {[at EXCEPT ![w] = "abort"], [at EXCEPT ![w] = "idle"]}
  /\ UNCHANGED <<source, hints, cat, cursor, lease, job, since, absent, sync,
                 moderations>>

\* Six hours since the last full sweep.
SixHours ==
  /\ cursor.recent
  /\ cursor' = [cursor EXCEPT !.recent = FALSE]
  /\ job' = [w \in Reconciler |->
       IF job[w].cur = None THEN job[w]
       ELSE [job[w] EXCEPT !.cur.recent = FALSE]]
  /\ UNCHANGED <<source, hints, cat, lease, at, since, absent, sync, bounds>>

Cycle(w) == Load(w) \/ Acquire(w) \/ Page(w) \/ Write(w) \/ Renew(w)
              \/ RenewLast(w) \/ Finalize(w) \/ Release(w) \/ Save(w)
Follow(c) == SyncRead(c) \/ SyncWrite(c)
Actions == {"override", "no override", "remove", "restore"}

Next ==
  \/ \E p \in Project : Analyse(p) \/ Enrich(p) \/ Withdraw(p) \/ Restore(p)
  \/ \E p \in Project, a \in Actions : Moderate(p, a)
  \/ \E c \in Consumer : Follow(c) \/ SyncFails(c)
  \/ \E w \in Reconciler : Cycle(w) \/ Fails(w)
  \/ Expire \/ SixHours

Spec == Init /\ [][Next]_vars

\* Reconcilers and consumers go on, time passes, and the lease of a process
\* that died runs out.
FairSpec ==
  /\ Spec /\ WF_vars(SixHours) /\ WF_vars(Expire /\ at[lease.by] = "idle")
  /\ \A w \in Reconciler : WF_vars(Cycle(w))
  /\ \A c \in Consumer : WF_vars(Follow(c))

-----------------------------------------------------------------------------
(* Properties.                                                             *)

Cursor == [set : BOOLEAN, u : Nat, count : Nat, recent : BOOLEAN]
Job == [cur : Cursor \cup {None}, count : Nat, full : BOOLEAN, u : Nat,
        p : Project \cup {0}, seen : SUBSET Project, item : Item \cup {None},
        high : Nat]

\* Every variable keeps to its type; no cursor is ahead of the source, and
\* what is projected is an assessment the source has had.
TypeOK ==
  /\ src \in [Project -> Item] /\ now \in Nat /\ hints \subseteq Project
  /\ cat \in [Project -> Row \cup {None}] /\ cursor \in Cursor
  /\ lease \in [by : Reconciler \cup {None}, runs : BOOLEAN]
  /\ at \in [Reconciler ->
       {"idle", "lease", "page", "write", "renew", "finalize", "hide",
        "release", "abort", "save"}]
  /\ job \in [Reconciler -> Job]
  /\ since \in [Reconciler -> SUBSET Project]
  /\ absent \in [Reconciler -> SUBSET Project]
  /\ sync \in [Consumer -> [p : Project, item : Item] \cup {None}]
  /\ moderations \in 0..MaxModerations /\ trouble \in 0..Trouble
  /\ \A p \in Project : src[p].u <= now /\ (src[p].here => src[p].ver > 0)
  /\ \A p \in Project : cat[p] # None => cat[p].ver \in 1..src[p].ver
  /\ cursor.u <= now

\* However late a worker writes what it read, the artifact never goes back.
ArtifactNeverGoesBack ==
  \A p \in Project : cat[p] # None =>
    cat'[p] # None /\ cat'[p].ver >= cat[p].ver

\* What an operator removed stays hidden, and risk is published only when it
\* may be overridden and was, for the very evidence that is published.
PublishedIsAllowed ==
  \A p \in Project : cat[p] # None /\ cat[p].pub =>
    ~cat[p].removed
      /\ (cat[p].risk = "none" \/ (cat[p].risk = "high" /\ cat[p].override))

\* New evidence of a project is not covered by an older override.
OverrideIsNotInherited ==
  \A p \in Project : cat[p] # None /\ Hash(cat'[p]) # Hash(cat[p]) =>
    ~cat'[p].override

\* A sweep hides nothing that was in the source as long as the sweep ran.
PresentIsNotHidden ==
  \A w \in Reconciler : at[w] = "hide" /\ at'[w] = "release" =>
    \A p \in Project : cat'[p] # cat[p] => p \in absent[w]

\* With the source at rest the catalog shows what is there, and nothing that
\* is not: lost hints, stale reads and dead processes leave no omission.
CatalogConverges ==
  <>[](Here # {} => \A p \in Project :
         IF src[p].here THEN /\ cat[p] # None /\ Hash(cat[p]) = Hash(src[p])
                             /\ ~cat[p].missing
         ELSE cat[p] # None => ~cat[p].pub)

\* The catalog never goes back to an older assessment, shows no risk that
\* was not overridden for it, and a sweep hides nothing that stayed.
CatalogSafe ==
  /\ [](TypeOK /\ PublishedIsAllowed)
  /\ [][/\ ArtifactNeverGoesBack /\ OverrideIsNotInherited
        /\ PresentIsNotHidden]_vars
=============================================================================
