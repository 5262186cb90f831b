------------------------- MODULE IntegrationsProofs -------------------------
(***************************************************************************)
(* Proofs about the catalog (CatalogProjection), the mails to authors      *)
(* (AuthorEmails), the jobs of the GitHub App (ReviewJobs) and the         *)
(* recommender's copy (GorseProjection), for all values of the constants.  *)
(***************************************************************************)
EXTENDS CatalogProjection, AuthorEmails, ReviewJobs, GorseProjection,
  FiniteSetTheorems, SequenceTheorems, WellFoundedInduction, TLAPS

(***************************************************************************)
(* Proofs about CatalogProjection, for any number of projects, reconcilers *)
(* and consumers and any bounds.  The inductive invariant Inv says of what *)
(* a worker has read that the source has had it (Read), and of a sweep     *)
(* that every project is behind its key, seen or absent (Sweeps): when its *)
(* pages are exhausted, every project was seen or is known to have been    *)
(* away, so that hiding the rest hides nothing that stayed.                *)
(***************************************************************************)

\* What was read and is about to be written, and the cursors of the cycles.
SyncedFrom(c) ==
  sync[c] # None =>
    /\ sync[c] \in [p : Project, item : Item]
    /\ sync[c].item.ver \in 1..src[sync[c].p].ver
ReadBy(w) ==
  /\ at[w] = "write" =>
       /\ job[w].p \in Project /\ job[w].item \in Item
       /\ job[w].item.ver \in 1..src[job[w].p].ver
  /\ at[w] # "idle" => job[w].cur \in Cursor /\ job[w].cur.u <= now
  /\ job[w].high <= now
Read ==
  /\ \A c \in Consumer : SyncedFrom(c)
  /\ \A w \in Reconciler : ReadBy(w)

\* How far a full sweep has come.
Sweeping(w) == at[w] \in {"page", "write", "renew", "finalize", "hide"}
Decided(w, p) == p \in job[w].seen \/ p \in absent[w]
SweptBy(w) ==
  /\ at[w] = "lease" => job[w].p = 0
  /\ Sweeping(w) => \A p \in Project : ~src[p].here => p \in absent[w]
  /\ at[w] \in {"page", "write", "renew"} /\ job[w].full =>
       \A p \in Project : p <= job[w].p => Decided(w, p)
  /\ at[w] \in {"finalize", "hide"} => \A p \in Project : Decided(w, p)
Sweeps == \A w \in Reconciler : SweptBy(w)

Inv == TypeOK /\ Read /\ Sweeps /\ PublishedIsAllowed

-----------------------------------------------------------------------------
(* Operators. *)

LEMMA MaxOfTwo ==
  ASSUME NEW a \in Nat, NEW b \in Nat
  PROVE  Max({a, b}) \in {a, b}
<1> DEFINE S == {a, b}
<1>1. \E x \in S : \A y \in S : x >= y
  <2>1. CASE a >= b
    BY <2>1
  <2>2. CASE b >= a
    BY <2>2
  <2> QED BY <2>1, <2>2
<1> QED BY <1>1 DEF Max

LEMMA Smallest ==
  ASSUME NEW S \in SUBSET Nat, S # {}
  PROVE  \E x \in S : \A y \in S : x <= y
<1> DEFINE Below == {ss \in Nat \X Nat : ss[1] < ss[2]}
<1>1. IsWellFoundedOn(Below, Nat)
  BY NatLessThanWellFounded DEF OpToRel
<1> HIDE DEF Below
<1>2. PICK x \in S : \A y \in S : ~ (<<y, x>> \in Below)
  BY <1>1, WFMin
<1>3. ASSUME NEW y \in S, y < x
      PROVE  <<y, x>> \in Below
  <2>1. <<y, x>> \in Nat \X Nat /\ <<y, x>>[1] = y /\ <<y, x>>[2] = x
    OBVIOUS
  <2> QED BY <2>1, <1>3 DEF Below
<1>4. ASSUME NEW y \in S
      PROVE  x <= y
  <2>1. ~ (y < x)
    BY <1>2, <1>3
  <2> QED BY <2>1
<1> QED BY <1>4

\* The next row of a keyset is one that is left; in a full sweep its key is
\* the smallest.
LEMMA NextRow ==
  ASSUME TypeOK, NEW w \in Reconciler, Left(w) # {}
  PROVE  LET p == CHOOSE q \in Left(w) :
                    \A r \in Left(w) : Before(q, r, job[w].full)
         IN /\ p \in Left(w)
            /\ job[w].full => \A r \in Left(w) : p <= r
<1> DEFINE p == CHOOSE q \in Left(w) :
                  \A r \in Left(w) : Before(q, r, job[w].full)
<1>1. Left(w) \subseteq Project
  BY DEF Left, Here
<1>2. Project \subseteq Nat
  BY ConstantsAssumption DEF ConstantsAssumption
<1>3. \E q \in Left(w) : \A r \in Left(w) : Before(q, r, job[w].full)
  <2>1. CASE job[w].full
    <3>1. PICK q \in Left(w) : \A r \in Left(w) : q <= r
      BY <1>1, <1>2, Smallest
    <3> QED BY <2>1, <3>1 DEF Before
  <2>2. CASE ~job[w].full
    <3> DEFINE Times == {src[q].u : q \in Left(w)}
    <3>1. Times \in SUBSET Nat /\ Times # {}
      BY <1>1 DEF TypeOK, Item
    <3>2. PICK u \in Times : \A v \in Times : u <= v
      BY <3>1, Smallest
    <3> DEFINE Oldest == {q \in Left(w) : src[q].u = u}
    <3>3. Oldest \in SUBSET Nat /\ Oldest # {}
      BY <1>1, <1>2, <3>2
    <3> HIDE DEF Oldest
    <3>4. PICK q \in Oldest : \A r \in Oldest : q <= r
      BY <3>3, Smallest
    <3>5. q \in Left(w) /\ src[q].u = u
      BY <3>4 DEF Oldest
    <3>6. ASSUME NEW r \in Left(w)
          PROVE  src[q].u < src[r].u \/ (src[q].u = src[r].u /\ q <= r)
      <4>1. src[r].u \in Nat /\ u \in Nat /\ u <= src[r].u
        BY <3>1, <3>2, <1>1 DEF TypeOK, Item
      <4>2. src[r].u = u => q <= r
        BY <3>4 DEF Oldest
      <4> QED BY <3>5, <4>1, <4>2
    <3> QED BY <2>2, <3>5, <3>6 DEF Before
  <2> QED BY <2>1, <2>2
<1>4. /\ p \in Left(w)
      /\ \A r \in Left(w) : Before(p, r, job[w].full)
  BY <1>3
<1> QED BY <1>4 DEF Before

-----------------------------------------------------------------------------
(* Rows of the catalog. *)

\* What every change of the catalog respects.
RowsFit ==
  /\ cat' \in [Project -> Row \cup {None}]
  /\ \A p \in Project : cat'[p] # None => cat'[p].ver \in 1..src[p].ver
  /\ PublishedIsAllowed'
  /\ ArtifactNeverGoesBack /\ OverrideIsNotInherited

\* The current row of a project, or the one an absent row stands for.
LEMMA NoRowTyped == NoRow \in Row /\ None \notin Row
BY ConstantsAssumption DEF NoRow, Row, ConstantsAssumption

LEMMA UnchangedRows ==
  ASSUME Inv, cat' = cat
  PROVE  RowsFit
BY DEF RowsFit, Inv, TypeOK, PublishedIsAllowed, ArtifactNeverGoesBack,
       OverrideIsNotInherited, Row

LEMMA OneRow ==
  ASSUME Inv, NEW p \in Project, NEW row \in Row,
         cat' = [cat EXCEPT ![p] = row],
         row.ver \in 1..src[p].ver,
         row.pub => /\ ~row.removed
                    /\ row.risk = "none" \/ (row.risk = "high" /\ row.override),
         cat[p] # None => /\ cat[p].ver <= row.ver
                          /\ Hash(row) # Hash(cat[p]) => ~row.override
  PROVE  RowsFit
<1>1. cat' \in [Project -> Row \cup {None}]
  BY DEF Inv, TypeOK
<1>2. ASSUME NEW q \in Project
      PROVE  /\ cat'[q] # None =>
                  /\ cat'[q].ver \in 1..src[q].ver
                  /\ cat'[q].pub =>
                       /\ ~cat'[q].removed
                       /\ \/ cat'[q].risk = "none"
                          \/ cat'[q].risk = "high" /\ cat'[q].override
             /\ cat[q] # None =>
                  /\ cat'[q] # None /\ cat'[q].ver >= cat[q].ver
                  /\ Hash(cat'[q]) # Hash(cat[q]) => ~cat'[q].override
  <2>1. CASE q = p
    <3>1. cat'[q] = row
      BY <2>1 DEF Inv, TypeOK
    <3>2. cat[q] # None => cat[q] \in Row
      BY DEF Inv, TypeOK
    <3> QED BY <2>1, <3>1, <3>2, NoRowTyped DEF Row
  <2>2. CASE q # p
    <3>1. cat'[q] = cat[q]
      BY <2>2 DEF Inv, TypeOK
    <3>2. cat[q] # None => cat[q] \in Row
      BY DEF Inv, TypeOK
    <3> QED BY <3>1, <3>2 DEF Inv, TypeOK, PublishedIsAllowed, Row
  <2> QED BY <2>1, <2>2
<1> QED BY <1>1, <1>2 DEF RowsFit, PublishedIsAllowed,
           ArtifactNeverGoesBack, OverrideIsNotInherited

LEMMA UpsertRow ==
  ASSUME Inv, NEW p \in Project, NEW item \in Item,
         item.ver \in 1..src[p].ver, Upsert(p, item)
  PROVE  /\ RowsFit
         /\ since' \in [Reconciler -> SUBSET Project]
<1> DEFINE row == IF cat[p] = None THEN NoRow ELSE cat[p]
<1>1. row \in Row
  BY NoRowTyped DEF Inv, TypeOK
<1>2. CASE Supersedes(item, row) /\ Projected(item, row) # row
  <2>1. /\ cat' = [cat EXCEPT ![p] = Projected(item, row)]
        /\ since' = [w \in Reconciler |-> since[w] \cup {p}]
    BY <1>2 DEF Upsert
  <2> DEFINE new == Projected(item, row)
  <2>2. new \in Row
    BY <1>1 DEF Projected, Row, Item, Overridden, Published, Clean, Eligible
  <2>3. /\ new.ver = item.ver
        /\ new.pub => /\ ~new.removed
                      /\ \/ new.risk = "none"
                         \/ new.risk = "high" /\ new.override
    BY <1>1 DEF Projected, Published, Overridden, Clean, Eligible, Row, Item
  <2>4. /\ row.ver <= new.ver
        /\ Hash(new) # Hash(row) => ~new.override
    BY <1>2 DEF Projected, Overridden, Supersedes, Hash
  <2>5. RowsFit
    BY <2>1, <2>2, <2>3, <2>4, OneRow
  <2>6. since' \in [Reconciler -> SUBSET Project]
    BY <2>1 DEF Inv, TypeOK
  <2> QED BY <2>5, <2>6
<1>3. CASE ~(Supersedes(item, row) /\ Projected(item, row) # row)
  <2>1. cat' = cat /\ since' = since
    BY <1>3 DEF Upsert
  <2> QED BY <2>1, UnchangedRows DEF Inv, TypeOK
<1> QED BY <1>2, <1>3

LEMMA ModerateRow ==
  ASSUME Inv, NEW p \in Project, NEW a \in Actions, Moderate(p, a)
  PROVE  /\ RowsFit
         /\ since' \in [Reconciler -> SUBSET Project]
<1>1. cat[p] \in Row /\ cat[p] # None
  BY DEF Moderate, Inv, TypeOK
<1> DEFINE override == CASE a = "override" -> TRUE
                         [] a = "no override" -> FALSE
                         [] OTHER -> cat[p].override
           removed == CASE a = "remove" -> TRUE
                        [] a = "restore" -> FALSE
                        [] OTHER -> cat[p].removed
           pub == /\ ~removed
                  /\ \/ Clean(cat[p]) /\ ~cat[p].missing
                     \/ override /\ Eligible(cat[p])
           row == [cat[p] EXCEPT !.override = override, !.removed = removed,
                                 !.pub = pub]
<1>2. override \in BOOLEAN /\ removed \in BOOLEAN /\ pub \in BOOLEAN
  BY <1>1 DEF Row, Actions
<1>3. cat' = [cat EXCEPT ![p] = row]
  BY <1>1 DEF Moderate, Inv, TypeOK
<1> HIDE DEF override, removed
<1>4. row \in Row
  BY <1>1, <1>2 DEF Row
<1>5. /\ row.ver = cat[p].ver /\ row.meta = cat[p].meta
      /\ row.pub => /\ ~row.removed
                    /\ row.risk = "none" \/ (row.risk = "high" /\ row.override)
  BY <1>1, <1>2 DEF Row, Clean, Eligible
<1>6. /\ row.ver \in 1..src[p].ver
      /\ cat[p].ver <= row.ver /\ Hash(row) = Hash(cat[p])
  BY <1>1, <1>5 DEF Inv, TypeOK, Hash, Row
<1> HIDE DEF row
<1>7. RowsFit
  BY <1>1, <1>3, <1>4, <1>5, <1>6, OneRow
<1>8. since' \in [Reconciler -> SUBSET Project]
  BY DEF Moderate, Inv, TypeOK
<1> QED BY <1>7, <1>8

LEMMA FinalizeRows ==
  ASSUME Inv, NEW w \in Reconciler, Finalize(w)
  PROVE  /\ RowsFit
         /\ since' \in [Reconciler -> SUBSET Project]
<1>1. ASSUME NEW p \in Project
      PROVE  \/ cat'[p] = cat[p]
             \/ /\ cat[p] # None /\ cat[p] \in Row
                /\ cat'[p] = [cat[p] EXCEPT !.pub = FALSE, !.missing = TRUE]
  BY DEF Finalize, Hidden, Inv, TypeOK
<1>2. cat' \in [Project -> Row \cup {None}]
  <2>1. ASSUME NEW r \in Row
        PROVE  [r EXCEPT !.pub = FALSE, !.missing = TRUE] \in Row
    BY DEF Row
  <2>2. ASSUME NEW p \in Project
        PROVE  cat'[p] \in Row \cup {None}
    <3>1. cat[p] \in Row \cup {None}
      BY DEF Inv, TypeOK
    <3> QED BY <1>1, <2>1, <3>1
  <2>3. cat' = [p \in Project |-> cat'[p]]
    BY DEF Finalize
  <2> QED BY <2>2, <2>3
<1>3. ASSUME NEW p \in Project
      PROVE  /\ cat'[p] # None =>
                  /\ cat'[p].ver \in 1..src[p].ver
                  /\ cat'[p].pub =>
                       /\ ~cat'[p].removed
                       /\ \/ cat'[p].risk = "none"
                          \/ cat'[p].risk = "high" /\ cat'[p].override
             /\ cat[p] # None =>
                  /\ cat'[p] # None /\ cat'[p].ver >= cat[p].ver
                  /\ Hash(cat'[p]) # Hash(cat[p]) => ~cat'[p].override
  <2>1. CASE cat'[p] = cat[p]
    <3>1. cat[p] # None => cat[p] \in Row
      BY DEF Inv, TypeOK
    <3> QED BY <2>1, <3>1 DEF Inv, TypeOK, PublishedIsAllowed, Row
  <2>2. CASE cat'[p] # cat[p]
    <3>1. /\ cat[p] # None /\ cat[p] \in Row
          /\ cat'[p] = [cat[p] EXCEPT !.pub = FALSE, !.missing = TRUE]
      BY <2>2, <1>1
    <3>2. /\ cat'[p].ver = cat[p].ver /\ cat'[p].meta = cat[p].meta
          /\ cat'[p].pub = FALSE /\ cat'[p] \in Row
      BY <3>1 DEF Row
    <3>3. cat[p].ver \in 1..src[p].ver /\ cat[p].ver \in Nat
      BY <3>1 DEF Inv, TypeOK, Row
    <3> QED BY <3>1, <3>2, <3>3, NoRowTyped DEF Hash
  <2> QED BY <2>1, <2>2
<1>4. RowsFit
  BY <1>2, <1>3 DEF RowsFit, PublishedIsAllowed, ArtifactNeverGoesBack,
                    OverrideIsNotInherited
<1>5. since' \in [Reconciler -> SUBSET Project]
  BY DEF Finalize, Hidden, Inv, TypeOK
<1> QED BY <1>4, <1>5

-----------------------------------------------------------------------------
(* The steps of the source, of the operators and of the workers. *)

LEMMA InitInv == Init => Inv
<1> SUFFICES ASSUME Init PROVE Inv
  OBVIOUS
<1> USE ConstantsAssumption DEF ConstantsAssumption
<1>1. TypeOK
  <2>1. NoJob \in Job /\ Gone \in Item
    BY DEF NoJob, Job, Gone, Item
  <2> QED BY <2>1 DEF Init, TypeOK, Cursor, Gone
<1>2. Read
  BY DEF Init, Read, SyncedFrom, ReadBy, NoJob, Cursor
<1>3. Sweeps
  BY DEF Init, Sweeps, SweptBy, Sweeping
<1>4. PublishedIsAllowed
  BY DEF Init, PublishedIsAllowed
<1> QED BY <1>1, <1>2, <1>3, <1>4 DEF Inv

\* A change of the source: the versions of a project only grow, and who
\* sweeps is told what went away.
LEMMA ChangeStep ==
  ASSUME Inv, NEW p \in Project, NEW row \in Item, Change(p, row),
         row.ver >= src[p].ver, row.u <= now + 1, row.here => row.ver > 0,
         hints' \subseteq Project
  PROVE  Inv' /\ RowsFit
<1>1. RowsFit
  BY UnchangedRows DEF Change
<1>2. /\ now' = now + 1 /\ now \in Nat
      /\ src' \in [Project -> Item]
      /\ src' = [src EXCEPT ![p] = row]
  BY DEF Change, Inv, TypeOK
<1>3. \A q \in Project : /\ src[q].ver \in Nat /\ src'[q].ver \in Nat
                         /\ src[q].ver <= src'[q].ver
                         /\ src'[q].u <= now'
                         /\ src'[q].here => src'[q].ver > 0
  BY <1>2 DEF Inv, TypeOK, Item
<1>4. TypeOK'
  <2>1. \A q \in Project : cat'[q] # None => cat'[q].ver \in 1..src'[q].ver
    BY <1>3 DEF Inv, TypeOK, Change
  <2>2. absent' \in [Reconciler -> SUBSET Project]
    BY DEF Change, Inv, TypeOK
  <2>3. cursor' = cursor /\ cursor.u \in Nat /\ cursor.u <= now'
    BY <1>2 DEF Change, cycles, Inv, TypeOK, Cursor
  <2> QED BY <1>2, <1>3, <2>1, <2>2, <2>3 DEF Change, cycles, bounds, Inv,
             TypeOK
<1>5. Read'
  <2>1. ASSUME NEW c \in Consumer, sync'[c] # None
        PROVE  /\ sync'[c] \in [p : Project, item : Item]
               /\ sync'[c].item.ver \in 1..src'[sync'[c].p].ver
    BY <1>3, <2>1 DEF Change, Inv, Read, SyncedFrom, ReadBy
  <2>2. ASSUME NEW w \in Reconciler
        PROVE  /\ at'[w] = "write" =>
                    /\ job'[w].p \in Project /\ job'[w].item \in Item
                    /\ job'[w].item.ver \in 1..src'[job'[w].p].ver
    BY <1>3 DEF Change, cycles, Inv, Read, SyncedFrom, ReadBy
  <2>3. ASSUME NEW w \in Reconciler
        PROVE  /\ at'[w] # "idle" =>
                    job'[w].cur \in Cursor /\ job'[w].cur.u <= now'
               /\ job'[w].high <= now'
    <3>1. job[w] \in Job
      BY DEF Inv, TypeOK
    <3> QED BY <1>2, <3>1 DEF Change, cycles, Inv, Read, SyncedFrom, ReadBy,
               Job, Cursor
  <2> QED BY <2>1, <2>2, <2>3 DEF Read, SyncedFrom, ReadBy
<1>6. Sweeps'
  <2>1. ASSUME NEW w \in Reconciler
        PROVE  /\ absent[w] \subseteq absent'[w]
               /\ at'[w] = at[w] /\ job'[w] = job[w]
               /\ \A q \in Project :
                    ~src'[q].here => ~src[q].here \/ q \in absent'[w]
    BY <1>2 DEF Change, cycles, Inv, TypeOK
  <2> QED BY <2>1 DEF Inv, Sweeps, SweptBy, Sweeping, Decided
<1> QED BY <1>1, <1>4, <1>5, <1>6 DEF Inv, RowsFit

LEMMA HereSet ==
  ASSUME NEW r \in Item
  PROVE  /\ [r EXCEPT !.here = FALSE] \in Item
         /\ [r EXCEPT !.here = TRUE] \in Item
BY DEF Item

LEMMA SourceStep ==
  ASSUME Inv, NEW p \in Project,
         Analyse(p) \/ Enrich(p) \/ Withdraw(p) \/ Restore(p)
  PROVE  Inv' /\ RowsFit
<1>1. src[p] \in Item /\ now \in Nat /\ src[p].u <= now
  BY DEF Inv, TypeOK
<1>2. CASE Analyse(p)
  <2>1. PICK risk \in Risks :
          Change(p, [here |-> TRUE, ver |-> src[p].ver + 1,
                     meta |-> src[p].meta, risk |-> risk, u |-> now + 1])
    BY <1>2 DEF Analyse
  <2> DEFINE row == [here |-> TRUE, ver |-> src[p].ver + 1,
                     meta |-> src[p].meta, risk |-> risk, u |-> now + 1]
  <2>2. /\ row \in Item /\ row.ver >= src[p].ver /\ row.u <= now + 1
        /\ row.ver > 0
    BY <1>1 DEF Item
  <2>3. hints' \subseteq Project
    BY <1>2 DEF Analyse, Inv, TypeOK
  <2> QED BY <2>1, <2>2, <2>3, ChangeStep
<1>3. CASE Enrich(p)
  <2> DEFINE row == [src[p] EXCEPT !.meta = 1]
  <2>1. /\ row \in Item /\ row.ver >= src[p].ver /\ row.u <= now + 1
        /\ row.here => row.ver > 0
    BY <1>1 DEF Item, Inv, TypeOK
  <2>2. Change(p, row) /\ hints' \subseteq Project
    BY <1>3 DEF Enrich, Inv, TypeOK
  <2> QED BY <2>1, <2>2, ChangeStep
<1>4. CASE Withdraw(p)
  <2> DEFINE row == [src[p] EXCEPT !.here = FALSE]
  <2>1. /\ row \in Item /\ row.ver >= src[p].ver /\ row.u <= now + 1
        /\ row.here = FALSE
    <3>1. row \in Item
      BY <1>1, HereSet
    <3> QED BY <1>1, <3>1 DEF Item
  <2>2. Change(p, row) /\ hints' \subseteq Project
    BY <1>4 DEF Withdraw, Inv, TypeOK
  <2> QED BY <2>1, <2>2, ChangeStep
<1>5. CASE Restore(p)
  <2> DEFINE row == [src[p] EXCEPT !.here = TRUE]
  <2>1. /\ row \in Item /\ row.ver >= src[p].ver /\ row.u <= now + 1
        /\ row.ver > 0
    <3>1. row \in Item
      BY <1>1, HereSet
    <3> QED BY <1>1, <1>5, <3>1 DEF Item, Restore
  <2>2. Change(p, row) /\ hints' \subseteq Project
    BY <1>5 DEF Restore, Inv, TypeOK
  <2> QED BY <2>1, <2>2, ChangeStep
<1> QED BY <1>2, <1>3, <1>4, <1>5

\* Steps that touch the catalog and leave the source, the cycles and what
\* they were told alone.
LEMMA CatalogStep ==
  ASSUME Inv, RowsFit, since' \in [Reconciler -> SUBSET Project],
         UNCHANGED <<source, cycles, absent>>, hints' \subseteq Project,
         sync' \in [Consumer -> [p : Project, item : Item] \cup {None}],
         \A c \in Consumer : sync'[c] = sync[c] \/ sync'[c] = None,
         moderations' \in 0..MaxModerations, trouble' \in 0..Trouble
  PROVE  Inv'
<1>1. TypeOK'
  BY DEF Inv, TypeOK, RowsFit, source, cycles
<1>2. Read'
  BY DEF Inv, Read, SyncedFrom, ReadBy, source, cycles
<1>3. Sweeps'
  BY DEF Inv, Sweeps, SweptBy, Sweeping, Decided, source, cycles
<1> QED BY <1>1, <1>2, <1>3 DEF Inv, RowsFit

LEMMA ModerateStep ==
  ASSUME Inv, NEW p \in Project, NEW a \in Actions, Moderate(p, a)
  PROVE  Inv' /\ RowsFit
<1>1. RowsFit /\ since' \in [Reconciler -> SUBSET Project]
  BY ModerateRow
<1>2. UNCHANGED <<source, cycles, absent, sync, hints, trouble>>
  BY DEF Moderate
<1>3. moderations' \in 0..MaxModerations
  <2>1. moderations > 0 /\ moderations' = moderations - 1
    BY DEF Moderate
  <2> QED BY <2>1, ConstantsAssumption DEF Inv, TypeOK, ConstantsAssumption
<1>4. Inv'
  BY <1>1, <1>2, <1>3, CatalogStep DEF Inv, TypeOK
<1> QED BY <1>1, <1>4

LEMMA ConsumerStep ==
  ASSUME Inv, NEW c \in Consumer, Follow(c) \/ SyncFails(c)
  PROVE  Inv' /\ RowsFit
<1>1. CASE SyncRead(c)
  <2>1. RowsFit
    BY <1>1, UnchangedRows DEF SyncRead
  <2>2. PICK p \in hints :
          /\ hints' = hints \ {p}
          /\ IF src[p].here /\ ~Known(p, src[p])
             THEN sync' = [sync EXCEPT ![c] = [p |-> p, item |-> src[p]]]
             ELSE UNCHANGED sync
    BY <1>1 DEF SyncRead
  <2>3. p \in Project /\ src[p] \in Item
    BY DEF Inv, TypeOK
  <2>4. src[p].here => src[p].ver \in 1..src[p].ver
    BY <2>3 DEF Inv, TypeOK, Item
  <2>5. TypeOK'
    BY <1>1, <2>2, <2>3 DEF SyncRead, Inv, TypeOK, source, cycles, bounds
  <2>6. Read'
    <3>1. ASSUME NEW d \in Consumer, sync'[d] # None
          PROVE  /\ sync'[d] \in [p : Project, item : Item]
                 /\ sync'[d].item.ver \in 1..src[sync'[d].p].ver
      <4>1. CASE sync'[d] = sync[d]
        BY <3>1, <4>1 DEF Inv, Read, SyncedFrom, ReadBy
      <4>2. CASE sync'[d] # sync[d]
        <5>1. src[p].here /\ sync'[d] = [p |-> p, item |-> src[p]]
          BY <4>2, <2>2 DEF Inv, TypeOK
        <5> QED BY <5>1, <2>3, <2>4
      <4> QED BY <4>1, <4>2
    <3> QED BY <1>1, <3>1 DEF SyncRead, Inv, Read, SyncedFrom, ReadBy, source,
               cycles
  <2>7. Sweeps'
    BY <1>1
    DEF SyncRead, Inv, Sweeps, SweptBy, Sweeping, Decided, source, cycles
  <2> QED BY <2>1, <2>5, <2>6, <2>7 DEF Inv, RowsFit
<1>2. CASE SyncWrite(c)
  <2>1. /\ sync[c].p \in Project /\ sync[c].item \in Item
        /\ sync[c].item.ver \in 1..src[sync[c].p].ver
    BY <1>2 DEF SyncWrite, Inv, Read, SyncedFrom, ReadBy
  <2>2. RowsFit /\ since' \in [Reconciler -> SUBSET Project]
    BY <1>2, <2>1, UpsertRow DEF SyncWrite
  <2>3. /\ sync' \in [Consumer -> [p : Project, item : Item] \cup {None}]
        /\ \A d \in Consumer : sync'[d] = sync[d] \/ sync'[d] = None
    BY <1>2 DEF SyncWrite, Inv, TypeOK
  <2>4. Inv'
    BY <1>2, <2>2, <2>3, CatalogStep DEF SyncWrite, bounds, Inv, TypeOK
  <2> QED BY <2>2, <2>4
<1>3. CASE SyncFails(c)
  <2>1. RowsFit
    BY <1>3, UnchangedRows DEF SyncFails
  <2>2. sync[c].p \in Project
    BY <1>3 DEF SyncFails, Inv, Read, SyncedFrom, ReadBy
  <2>3. /\ sync' \in [Consumer -> [p : Project, item : Item] \cup {None}]
        /\ \A d \in Consumer : sync'[d] = sync[d] \/ sync'[d] = None
    BY <1>3 DEF SyncFails, Inv, TypeOK
  <2>4. hints' \subseteq Project /\ trouble' \in 0..Trouble
    <3>1. hints \subseteq Project /\ trouble \in 0..Trouble
      BY DEF Inv, TypeOK
    <3>2. hints' \subseteq Project
      BY <1>3, <2>2, <3>1 DEF SyncFails
    <3>3. trouble' \in 0..Trouble
      BY <1>3, <3>1, ConstantsAssumption DEF SyncFails, ConstantsAssumption
    <3> QED BY <3>2, <3>3
  <2>5. Inv'
    BY <1>3, <2>1, <2>3, <2>4, CatalogStep DEF SyncFails, Inv, TypeOK
  <2> QED BY <2>1, <2>5
<1> QED BY <1>1, <1>2, <1>3 DEF Follow

-----------------------------------------------------------------------------
(* The steps of a reconciler. *)

CycleAt == {"idle", "lease", "page", "write", "renew", "finalize", "hide",
           "release", "abort", "save"}

\* What a step of one reconciler has to show.
LEMMA CycleStep ==
  ASSUME Inv, RowsFit, NEW w \in Reconciler,
         UNCHANGED <<source, hints, sync, moderations>>,
         at' \in [Reconciler -> CycleAt], job' \in [Reconciler -> Job],
         since' \in [Reconciler -> SUBSET Project],
         absent' \in [Reconciler -> SUBSET Project],
         lease' \in [by : Reconciler \cup {None}, runs : BOOLEAN],
         cursor' \in Cursor, cursor'.u <= now, trouble' \in 0..Trouble,
         \A v \in Reconciler \ {w} :
           at'[v] = at[v] /\ job'[v] = job[v] /\ absent'[v] = absent[v],
         ReadBy(w)', SweptBy(w)'
  PROVE  Inv'
<1>1. TypeOK'
  BY DEF Inv, TypeOK, RowsFit, source, CycleAt
<1>2. Read'
  <2>1. \A c \in Consumer : SyncedFrom(c)'
    BY DEF Inv, Read, SyncedFrom, source
  <2>2. \A v \in Reconciler \ {w} : ReadBy(v)'
    BY DEF Inv, Read, ReadBy, source
  <2> QED BY <2>1, <2>2 DEF Read
<1>3. Sweeps'
  <2>1. \A v \in Reconciler \ {w} : SweptBy(v)'
    BY DEF Inv, Sweeps, SweptBy, Sweeping, Decided, source
  <2> QED BY <2>1 DEF Sweeps
<1> QED BY <1>1, <1>2, <1>3 DEF Inv, RowsFit

\* A step that only moves on.
LEMMA MoveStep ==
  ASSUME Inv, NEW w \in Reconciler, NEW to \in CycleAt, Moves(w, to),
         UNCHANGED <<source, hints, cat, cursor, job, since, absent, sync,
                     moderations>>,
         lease' \in [by : Reconciler \cup {None}, runs : BOOLEAN],
         trouble' \in 0..Trouble,
         to # "idle" => at[w] # "idle",
         to \in {"idle", "page", "hide", "release", "abort", "save"},
         to = "page" => at[w] = "renew",
         to = "hide" => at[w] = "finalize"
  PROVE  Inv' /\ RowsFit
<1>1. RowsFit
  BY UnchangedRows
<1>2. /\ at' \in [Reconciler -> CycleAt] /\ at'[w] = to
      /\ \A v \in Reconciler \ {w} : at'[v] = at[v]
  BY DEF Moves, Inv, TypeOK, CycleAt
<1>3. ReadBy(w)'
  BY <1>2 DEF Inv, Read, ReadBy, source
<1>4. SweptBy(w)'
  BY <1>2 DEF Inv, Sweeps, SweptBy, Sweeping, Decided, source
<1>5. cursor' \in Cursor /\ cursor'.u <= now
  BY DEF Inv, TypeOK
<1>6. Inv'
  BY <1>1, <1>2, <1>3, <1>4, <1>5, CycleStep DEF Inv, TypeOK
<1> QED BY <1>1, <1>6

LEMMA LoadStep ==
  ASSUME Inv, NEW w \in Reconciler, Load(w)
  PROVE  Inv' /\ RowsFit
<1> DEFINE full == ~cursor.set \/ ~cursor.recent
                     \/ Cardinality(Here) < cursor.count
           row == [NoJob EXCEPT !.cur = cursor, !.count = Cardinality(Here),
                                !.full = full]
<1>1. RowsFit
  BY UnchangedRows DEF Load
<1>2. Cardinality(Here) \in Nat
  BY ConstantsAssumption, FS_CardinalityType, FS_Subset
  DEF Here, ConstantsAssumption
<1>3. /\ row \in Job /\ row.p = 0 /\ row.high = 0 /\ row.cur = cursor
      /\ cursor \in Cursor
  <2>1. full \in BOOLEAN
    OBVIOUS
  <2> HIDE DEF full
  <2> QED BY <1>2, <2>1 DEF NoJob, Job, Inv, TypeOK
<1>4. job' = [job EXCEPT ![w] = row]
  BY DEF Load
<1> HIDE DEF row
<1>5. /\ at' \in [Reconciler -> CycleAt] /\ at'[w] = "lease"
      /\ \A v \in Reconciler \ {w} : at'[v] = at[v]
  BY DEF Load, Moves, Inv, TypeOK, CycleAt
<1>6. /\ job' \in [Reconciler -> Job] /\ job'[w] = row
      /\ \A v \in Reconciler \ {w} : job'[v] = job[v]
  BY <1>3, <1>4 DEF Inv, TypeOK
<1>7. ReadBy(w)'
  <2>1. now' = now /\ now \in Nat /\ cursor.u <= now
    BY DEF Load, source, Inv, TypeOK
  <2> QED BY <1>3, <1>5, <1>6, <2>1 DEF ReadBy
<1>8. SweptBy(w)'
  BY <1>3, <1>5, <1>6 DEF SweptBy, Sweeping
<1>9. Inv'
  BY <1>1, <1>5, <1>6, <1>7, <1>8, CycleStep DEF Load, bounds, Inv, TypeOK
<1> QED BY <1>1, <1>9

LEMMA AcquireStep ==
  ASSUME Inv, NEW w \in Reconciler, Acquire(w)
  PROVE  Inv' /\ RowsFit
<1>1. at[w] = "lease" /\ job[w] \in Job
  BY DEF Acquire, Inv, TypeOK
<1>2. CASE lease.by \in {None, w} \/ ~lease.runs
  <2> DEFINE from == IF job[w].cur.u > Overlap
                     THEN job[w].cur.u - Overlap - 1 ELSE 0
             row == [job[w] EXCEPT !.high = job[w].cur.u, !.u = from]
  <2>1. /\ lease' = [by |-> w, runs |-> TRUE]
        /\ job' = [job EXCEPT ![w] = row]
        /\ since' = [since EXCEPT ![w] = {}]
        /\ absent' = [absent EXCEPT ![w] = Project \ Here]
        /\ Moves(w, "page")
    BY <1>1, <1>2 DEF Acquire, Inv, TypeOK
  <2>2. job[w].cur \in Cursor /\ job[w].cur.u <= now /\ job[w].p = 0
    BY <1>1 DEF Inv, Read, ReadBy, Sweeps, SweptBy
  <2>3. from \in Nat /\ job[w].cur.u \in Nat
    BY <2>2, ConstantsAssumption DEF Cursor, ConstantsAssumption
  <2> HIDE DEF from
  <2>4. /\ row \in Job /\ row.p = 0 /\ row.high = job[w].cur.u
        /\ row.cur = job[w].cur
    BY <1>1, <2>2, <2>3 DEF Job
  <2> HIDE DEF row
  <2>5. RowsFit
    BY UnchangedRows DEF Acquire
  <2>6. /\ at' \in [Reconciler -> CycleAt] /\ at'[w] = "page"
        /\ \A v \in Reconciler \ {w} : at'[v] = at[v]
    BY <2>1 DEF Moves, Inv, TypeOK, CycleAt
  <2>7. /\ job' \in [Reconciler -> Job] /\ job'[w] = row
        /\ absent' \in [Reconciler -> SUBSET Project]
        /\ absent'[w] = Project \ Here
        /\ since' \in [Reconciler -> SUBSET Project]
        /\ \A v \in Reconciler \ {w} :
             job'[v] = job[v] /\ absent'[v] = absent[v]
    BY <2>1, <2>4 DEF Inv, TypeOK
  <2>8. ReadBy(w)'
    BY <2>2, <2>4, <2>6, <2>7 DEF Acquire, source, ReadBy
  <2>9. SweptBy(w)'
    <3>1. \A p \in Project : ~(p <= 0)
      BY ConstantsAssumption DEF ConstantsAssumption
    <3> QED BY <2>4, <2>6, <2>7, <3>1 DEF Acquire, source, SweptBy, Sweeping,
               Here
  <2>10. Inv'
    BY <2>1, <2>5, <2>6, <2>7, <2>8, <2>9, CycleStep
       DEF Acquire, bounds, Inv, TypeOK
  <2> QED BY <2>5, <2>10
<1>3. CASE ~(lease.by \in {None, w} \/ ~lease.runs)
  <2>1. /\ Moves(w, "idle") /\ lease' = lease
        /\ UNCHANGED <<source, hints, cat, cursor, job, since, absent, sync,
                       moderations, trouble>>
    BY <1>3 DEF Acquire, bounds
  <2> QED BY <2>1, MoveStep DEF CycleAt, Inv, TypeOK
<1> QED BY <1>2, <1>3

\* One row of the keyset: in a full sweep nothing between the old key and the
\* new one was left out.
LEMMA PageStep ==
  ASSUME Inv, NEW w \in Reconciler, Page(w)
  PROVE  Inv' /\ RowsFit
<1>1. /\ at[w] = "page" /\ job[w] \in Job /\ Here \subseteq Project
      /\ Left(w) \subseteq Here
      /\ job[w].full => \A q \in Here : q > job[w].p => q \in Left(w)
  BY DEF Page, Inv, TypeOK, Left, Here
<1>2. RowsFit
  BY UnchangedRows DEF Page
<1>3. Project \subseteq Nat /\ job[w].p \in Nat
  <2>1. job[w].p \in Project \cup {0}
    BY <1>1 DEF Job
  <2>2. Project \subseteq Nat
    BY ConstantsAssumption DEF ConstantsAssumption
  <2>3. job[w].p \in Project => job[w].p \in Nat
    BY <2>2
  <2> QED BY <2>1, <2>2, <2>3
<1>4. /\ job[w].cur \in Cursor /\ job[w].cur.u <= now
      /\ job[w].high \in Nat /\ job[w].high <= now /\ now \in Nat
      /\ \A q \in Project : ~src[q].here => q \in absent[w]
      /\ job[w].full => \A q \in Project : q <= job[w].p => Decided(w, q)
  BY <1>1 DEF Inv, TypeOK, Read, ReadBy, Sweeps, SweptBy, Sweeping, Job
<1>5. CASE Left(w) = {}
  <2> DEFINE to == IF ~job[w].full THEN "release"
                   ELSE IF job[w].seen = {} THEN "abort" ELSE "finalize"
  <2>1. Moves(w, to) /\ job' = job
    BY <1>1, <1>5 DEF Page
  <2>2. to \in {"release", "abort", "finalize"}
        /\ (to = "finalize" => job[w].full)
    OBVIOUS
  <2> HIDE DEF to
  <2>3. CASE to # "finalize"
    <3>1. to \in {"release", "abort"} /\ to \in CycleAt
      BY <2>2, <2>3 DEF CycleAt
    <3>2. UNCHANGED <<source, hints, cat, cursor, job, since, absent, sync,
                      moderations, trouble, lease>>
      BY <2>1 DEF Page, bounds
    <3>3. /\ to \in {"idle", "page", "hide", "release", "abort", "save"}
          /\ to # "page" /\ to # "hide" /\ at[w] # "idle"
      BY <1>1, <3>1
    <3>4. /\ lease' \in [by : Reconciler \cup {None}, runs : BOOLEAN]
          /\ trouble' \in 0..Trouble
      BY <3>2 DEF Inv, TypeOK
    <3> QED BY <2>1, <3>1, <3>2, <3>3, <3>4, MoveStep
  <2>4. CASE to = "finalize"
    <3>1. ASSUME NEW q \in Project
          PROVE  Decided(w, q)
      <4>1. CASE q <= job[w].p
        BY <1>4, <2>2, <2>4, <4>1
      <4>2. CASE q > job[w].p
        BY <1>1, <1>4, <1>5, <2>2, <2>4, <4>2 DEF Decided, Here
      <4> QED BY <1>3, <4>1, <4>2
    <3>2. /\ at' \in [Reconciler -> CycleAt] /\ at'[w] = "finalize"
          /\ \A v \in Reconciler \ {w} : at'[v] = at[v]
      BY <2>1, <2>4 DEF Moves, Inv, TypeOK, CycleAt
    <3>3. UNCHANGED <<source, hints, cursor, job, since, absent, sync,
                      moderations, trouble, lease>>
      BY <2>1 DEF Page, bounds
    <3>4. ReadBy(w)'
      BY <1>1, <3>2, <3>3 DEF Inv, Read, ReadBy, source
    <3>5. SweptBy(w)'
      BY <1>4, <3>1, <3>2, <3>3 DEF SweptBy, Sweeping, Decided, source
    <3>6. Inv'
      BY <1>2, <3>2, <3>3, <3>4, <3>5, CycleStep DEF Inv, TypeOK
    <3> QED BY <1>2, <3>6
  <2> QED BY <2>3, <2>4
<1>6. CASE Left(w) # {}
  <2> DEFINE p == CHOOSE q \in Left(w) :
                    \A r \in Left(w) : Before(q, r, job[w].full)
             item == IF Known(p, src[p]) THEN None ELSE src[p]
             u == IF job[w].full THEN job[w].u ELSE src[p].u
             high == Max({job[w].high, src[p].u})
             row == [job[w] EXCEPT !.u = u, !.p = p,
                       !.seen = job[w].seen \cup {p}, !.high = high,
                       !.item = item]
             to == IF Known(p, src[p]) THEN "renew" ELSE "write"
  <2>1. p \in Left(w) /\ (job[w].full => \A r \in Left(w) : p <= r)
    BY <1>6, NextRow DEF Inv
  <2>2. job' = [job EXCEPT ![w] = row] /\ Moves(w, to)
    BY <1>1, <1>6 DEF Page, Seen
  <2> HIDE DEF p
  <2>3. /\ p \in Project /\ src[p].here /\ src[p] \in Item
        /\ src[p].ver \in 1..src[p].ver
        /\ src[p].u \in Nat /\ src[p].u <= now
    BY <1>1, <2>1 DEF Here, Inv, TypeOK, Item
  <2>4. high \in Nat /\ high <= now
    BY <1>4, <2>3, MaxOfTwo
  <2>5. item \in Item \cup {None} /\ u \in Nat /\ to \in {"renew", "write"}
        /\ (to = "write" => item = src[p])
    BY <1>1, <2>3 DEF Job
  <2> HIDE DEF high, item, u, to
  <2>6. /\ row \in Job /\ row.p = p /\ row.seen = job[w].seen \cup {p}
        /\ row.high = high /\ row.cur = job[w].cur /\ row.full = job[w].full
        /\ row.item = item
    BY <1>1, <2>3, <2>4, <2>5 DEF Job
  <2> HIDE DEF row
  <2>7. /\ at' \in [Reconciler -> CycleAt] /\ at'[w] = to
        /\ \A v \in Reconciler \ {w} : at'[v] = at[v]
    BY <2>2, <2>5 DEF Moves, Inv, TypeOK, CycleAt
  <2>8. /\ job' \in [Reconciler -> Job] /\ job'[w] = row
        /\ \A v \in Reconciler \ {w} : job'[v] = job[v]
    BY <2>2, <2>6 DEF Inv, TypeOK
  <2>9. UNCHANGED <<source, hints, cursor, since, absent, sync, moderations,
                    trouble, lease>>
    BY DEF Page, bounds
  <2>10. ReadBy(w)'
    BY <1>4, <2>3, <2>4, <2>5, <2>6, <2>7, <2>8, <2>9 DEF ReadBy, source
  <2>11. SweptBy(w)'
    <3>1. ASSUME NEW q \in Project, job[w].full, q <= p
          PROVE  q \in row.seen \/ q \in absent[w]
      <4>1. CASE q <= job[w].p
        BY <1>4, <3>1, <4>1, <2>6 DEF Decided
      <4>2. CASE q > job[w].p /\ src[q].here
        <5>1. q \in Left(w)
          BY <1>1, <3>1, <4>2 DEF Here
        <5>2. p <= q /\ q \in Nat /\ p \in Nat
          BY <1>3, <2>1, <2>3, <3>1, <5>1
        <5> QED BY <3>1, <5>2, <2>6
      <4>3. CASE ~src[q].here
        BY <1>4, <4>3
      <4> QED BY <1>3, <4>1, <4>2, <4>3
    <3>2. job'[w].full => \A q \in Project : q <= job'[w].p =>
            q \in job'[w].seen \/ q \in absent'[w]
      BY <2>6, <2>8, <2>9, <3>1
    <3> QED BY <1>4, <2>5, <2>7, <2>9, <3>2
            DEF SweptBy, Sweeping, Decided, source
  <2>12. Inv'
    BY <1>2, <2>7, <2>8, <2>9, <2>10, <2>11, CycleStep DEF Inv, TypeOK
  <2> QED BY <1>2, <2>12
<1> QED BY <1>5, <1>6

LEMMA WriteStep ==
  ASSUME Inv, NEW w \in Reconciler, Write(w)
  PROVE  Inv' /\ RowsFit
<1>1. /\ at[w] = "write" /\ job[w] \in Job
      /\ job[w].p \in Project /\ job[w].item \in Item
      /\ job[w].item.ver \in 1..src[job[w].p].ver
  BY DEF Write, Inv, TypeOK, Read, ReadBy
<1>2. RowsFit /\ since' \in [Reconciler -> SUBSET Project]
  BY <1>1, UpsertRow DEF Write
<1> DEFINE row == [job[w] EXCEPT !.item = None]
<1>3. /\ row \in Job /\ row.p = job[w].p /\ row.seen = job[w].seen
      /\ row.high = job[w].high /\ row.cur = job[w].cur
      /\ row.full = job[w].full
  BY <1>1 DEF Job
<1>4. job' = [job EXCEPT ![w] = row] /\ Moves(w, "renew")
  BY DEF Write
<1> HIDE DEF row
<1>5. /\ at' \in [Reconciler -> CycleAt] /\ at'[w] = "renew"
      /\ \A v \in Reconciler \ {w} : at'[v] = at[v]
  BY <1>4 DEF Moves, Inv, TypeOK, CycleAt
<1>6. /\ job' \in [Reconciler -> Job] /\ job'[w] = row
      /\ \A v \in Reconciler \ {w} : job'[v] = job[v]
  BY <1>3, <1>4 DEF Inv, TypeOK
<1>7. UNCHANGED <<source, hints, cursor, absent, sync, moderations, trouble,
                  lease>>
  BY DEF Write, bounds
<1>8. ReadBy(w)'
  BY <1>1, <1>3, <1>5, <1>6, <1>7 DEF Inv, Read, ReadBy, source
<1>9. SweptBy(w)'
  BY <1>1, <1>3, <1>5, <1>6, <1>7
     DEF Inv, Sweeps, SweptBy, Sweeping, Decided, source
<1>10. Inv'
  BY <1>2, <1>5, <1>6, <1>7, <1>8, <1>9, CycleStep DEF Inv, TypeOK
<1> QED BY <1>2, <1>10

LEMMA FinalizeStep ==
  ASSUME Inv, NEW w \in Reconciler, Finalize(w)
  PROVE  Inv' /\ RowsFit
<1>1. RowsFit /\ since' \in [Reconciler -> SUBSET Project]
  BY FinalizeRows
<1>2. at[w] = "hide" /\ Moves(w, "release")
  BY DEF Finalize
<1>3. /\ at' \in [Reconciler -> CycleAt] /\ at'[w] = "release"
      /\ \A v \in Reconciler \ {w} : at'[v] = at[v]
  BY <1>2 DEF Moves, Inv, TypeOK, CycleAt
<1>4. UNCHANGED <<source, hints, cursor, job, absent, sync, moderations,
                  trouble, lease>>
  BY DEF Finalize, bounds
<1>5. ReadBy(w)' /\ SweptBy(w)'
  BY <1>2, <1>3, <1>4 DEF Inv, Read, ReadBy, SweptBy, Sweeping, source
<1>6. Inv'
  BY <1>1, <1>3, <1>4, <1>5, CycleStep DEF Inv, TypeOK
<1> QED BY <1>1, <1>6

LEMMA SaveStep ==
  ASSUME Inv, NEW w \in Reconciler, Save(w)
  PROVE  Inv' /\ RowsFit
<1>1. RowsFit
  BY UnchangedRows DEF Save
<1>2. /\ at[w] = "save" /\ job[w] \in Job /\ now \in Nat
      /\ job[w].cur \in Cursor /\ job[w].cur.u <= now /\ job[w].high <= now
      /\ job[w].cur.u \in Nat /\ job[w].high \in Nat
  BY DEF Save, Inv, TypeOK, Read, ReadBy, Job, Cursor
<1>3. cursor' \in Cursor /\ cursor'.u <= now
  <2> DEFINE u == Max({job[w].cur.u, job[w].high})
             recent == job[w].full \/ job[w].cur.recent
  <2>1. u \in Nat /\ u <= now
    BY <1>2, MaxOfTwo
  <2>2. recent \in BOOLEAN /\ job[w].count \in Nat
    BY <1>2 DEF Job, Cursor
  <2>3. cursor' = [set |-> TRUE, u |-> u, count |-> job[w].count,
                   recent |-> recent]
    BY DEF Save
  <2> HIDE DEF u, recent
  <2> QED BY <2>1, <2>2, <2>3 DEF Cursor
<1>4. NoJob \in Job /\ NoJob.high = 0
  BY DEF NoJob, Job
<1>5. /\ at' \in [Reconciler -> CycleAt] /\ at'[w] = "idle"
      /\ \A v \in Reconciler \ {w} : at'[v] = at[v]
  BY DEF Save, Moves, Inv, TypeOK, CycleAt
<1>6. /\ job' \in [Reconciler -> Job] /\ job'[w] = NoJob
      /\ \A v \in Reconciler \ {w} : job'[v] = job[v]
  BY <1>4 DEF Save, Inv, TypeOK
<1>7. UNCHANGED <<source, hints, since, absent, sync, moderations, trouble,
                  lease>>
  BY DEF Save, bounds
<1>8. ReadBy(w)' /\ SweptBy(w)'
  BY <1>2, <1>4, <1>5, <1>6, <1>7 DEF ReadBy, SweptBy, Sweeping, source
<1>9. Inv'
  BY <1>1, <1>3, <1>5, <1>6, <1>7, <1>8, CycleStep DEF Inv, TypeOK
<1> QED BY <1>1, <1>9

LEMMA ReconcilerStep ==
  ASSUME Inv, NEW w \in Reconciler, Cycle(w) \/ Fails(w)
  PROVE  Inv' /\ RowsFit
<1>1. CASE Renew(w) \/ RenewLast(w)
  <2>1. UNCHANGED <<source, hints, cat, cursor, job, since, absent, sync,
                    moderations, trouble, lease>>
    BY <1>1 DEF Renew, RenewLast, bounds
  <2>2. CASE Renew(w) /\ Renewed(w)
    BY <2>1, <2>2, MoveStep DEF Renew, CycleAt, Inv, TypeOK
  <2>3. CASE RenewLast(w) /\ Renewed(w)
    BY <2>1, <2>3, MoveStep DEF RenewLast, CycleAt, Inv, TypeOK
  <2>4. CASE ~Renewed(w)
    <3>1. Moves(w, "abort") /\ at[w] # "idle"
      BY <1>1, <2>4 DEF Renew, RenewLast
    <3> QED BY <2>1, <3>1, MoveStep DEF CycleAt, Inv, TypeOK
  <2> QED BY <1>1, <2>2, <2>3, <2>4
<1>2. CASE Release(w)
  <2>1. UNCHANGED <<source, hints, cat, cursor, job, since, absent, sync,
                    moderations, trouble>>
    BY <1>2 DEF Release, bounds
  <2>2. lease' \in [by : Reconciler \cup {None}, runs : BOOLEAN]
    BY <1>2 DEF Release, Inv, TypeOK
  <2>3. at[w] # "idle" /\ (Moves(w, "save") \/ Moves(w, "idle"))
    BY <1>2 DEF Release
  <2> QED BY <2>1, <2>2, <2>3, MoveStep DEF CycleAt, Inv, TypeOK
<1>3. CASE Fails(w)
  <2>1. UNCHANGED <<source, hints, cat, cursor, job, since, absent, sync,
                    moderations, lease>>
    BY <1>3 DEF Fails
  <2>2. trouble' \in 0..Trouble
    <3>1. trouble > 0 /\ trouble' = trouble - 1
      BY <1>3 DEF Fails
    <3> QED BY <3>1, ConstantsAssumption DEF ConstantsAssumption, Inv, TypeOK
  <2>3. at[w] # "idle" /\ (Moves(w, "abort") \/ Moves(w, "idle"))
    BY <1>3 DEF Fails, Moves
  <2> QED BY <2>1, <2>2, <2>3, MoveStep DEF CycleAt, Inv, TypeOK
<1> QED BY <1>1, <1>2, <1>3, LoadStep, AcquireStep, PageStep, WriteStep,
           FinalizeStep, SaveStep DEF Cycle

LEMMA TimeStep ==
  ASSUME Inv, Expire \/ SixHours
  PROVE  Inv' /\ RowsFit
<1>1. CASE Expire
  <2>1. RowsFit
    BY <1>1, UnchangedRows DEF Expire
  <2>2. trouble' \in 0..Trouble
    <3>1. trouble' = trouble \/ (trouble > 0 /\ trouble' = trouble - 1)
      BY <1>1 DEF Expire
    <3> QED BY <3>1, ConstantsAssumption DEF ConstantsAssumption, Inv, TypeOK
  <2>3. lease' \in [by : Reconciler \cup {None}, runs : BOOLEAN]
    BY <1>1 DEF Expire, Inv, TypeOK
  <2>4. UNCHANGED <<source, hints, cat, cursor, at, job, since, absent, sync,
                    moderations>>
    BY <1>1 DEF Expire
  <2>5. TypeOK'
    BY <2>2, <2>3, <2>4 DEF Inv, TypeOK, source
  <2>6. Read' /\ Sweeps'
    BY <2>4 DEF Inv, Read, SyncedFrom, ReadBy, Sweeps, SweptBy, Sweeping,
                Decided, source
  <2> QED BY <2>1, <2>5, <2>6 DEF Inv, RowsFit
<1>2. CASE SixHours
  <2>1. RowsFit
    BY <1>2, UnchangedRows DEF SixHours
  <2>2. cursor' \in Cursor /\ cursor'.u <= now
    BY <1>2 DEF SixHours, Inv, TypeOK, Cursor
  <2>3. UNCHANGED <<source, hints, cat, lease, at, since, absent, sync,
                    moderations, trouble>>
    BY <1>2 DEF SixHours, bounds
  <2>4. ASSUME NEW w \in Reconciler
        PROVE  /\ job'[w] \in Job
               /\ job'[w].p = job[w].p /\ job'[w].seen = job[w].seen
               /\ job'[w].full = job[w].full /\ job'[w].item = job[w].item
               /\ job'[w].high = job[w].high
               /\ job[w].cur \in Cursor /\ job[w].cur.u <= now =>
                    job'[w].cur \in Cursor /\ job'[w].cur.u <= now
    <3>1. job[w] \in Job
      BY DEF Inv, TypeOK
    <3>2. CASE job[w].cur = None
      BY <1>2, <3>1, <3>2 DEF SixHours
    <3>3. CASE job[w].cur # None
      <4>1. /\ job[w].cur \in Cursor
            /\ job'[w] = [job[w] EXCEPT !.cur = [job[w].cur EXCEPT
                                                   !.recent = FALSE]]
        BY <1>2, <3>1, <3>3 DEF SixHours, Job
      <4> DEFINE cur == [job[w].cur EXCEPT !.recent = FALSE]
      <4>2. cur \in Cursor /\ cur.u = job[w].cur.u
        BY <4>1 DEF Cursor
      <4> HIDE DEF cur
      <4>3. job'[w] = [job[w] EXCEPT !.cur = cur]
        BY <4>1 DEF cur
      <4> QED BY <3>1, <4>2, <4>3 DEF Job
    <3> QED BY <3>2, <3>3
  <2>5. job' \in [Reconciler -> Job]
    <3>1. job' = [w \in Reconciler |-> job'[w]]
      BY <1>2 DEF SixHours
    <3> QED BY <2>4, <3>1
  <2>6. TypeOK'
    BY <2>2, <2>3, <2>5 DEF Inv, TypeOK, source
  <2>7. Read'
    <3>1. \A c \in Consumer : SyncedFrom(c)'
      BY <2>3 DEF Inv, Read, SyncedFrom, source
    <3>2. \A w \in Reconciler : ReadBy(w)'
      BY <2>3, <2>4 DEF Inv, Read, ReadBy, source
    <3> QED BY <3>1, <3>2 DEF Read
  <2>8. Sweeps'
    BY <2>3, <2>4 DEF Inv, Sweeps, SweptBy, Sweeping, Decided, source
  <2> QED BY <2>1, <2>6, <2>7, <2>8 DEF Inv, RowsFit
<1> QED BY <1>1, <1>2

-----------------------------------------------------------------------------
(* The results. *)

LEMMA NextInv == Inv /\ [Next]_vars => Inv' /\ RowsFit
<1> SUFFICES ASSUME Inv, [Next]_vars PROVE Inv' /\ RowsFit
  OBVIOUS
<1>1. CASE UNCHANGED vars
  <2>1. TypeOK'
    BY <1>1 DEF vars, Inv, TypeOK
  <2>2. Read' /\ Sweeps'
    BY <1>1 DEF vars, Inv, Read, SyncedFrom, ReadBy, Sweeps, SweptBy,
                Sweeping, Decided
  <2>3. RowsFit
    BY <1>1, UnchangedRows DEF vars
  <2> QED BY <2>1, <2>2, <2>3 DEF Inv, RowsFit
<1>2. CASE Next
  BY <1>2, SourceStep, ModerateStep, ConsumerStep, ReconcilerStep, TimeStep
     DEF Next
<1> QED BY <1>1, <1>2

\* The inductive invariant of the catalog: its types, what workers have read,
\* how far sweeps have come, and that what is published may be.
THEOREM CatalogInvariant == Spec => []Inv
<1> QED BY InitInv, NextInv, PTL DEF Spec

\* Only FinalizeFeedProjectReconcile hides: what it hides was neither seen by
\* the sweep nor in the source all the time, since every project was decided
\* when the pages were exhausted.
LEMMA HidesTheAbsent == Inv /\ [Next]_vars => PresentIsNotHidden
<1> SUFFICES ASSUME Inv, [Next]_vars,
                    NEW w \in Reconciler, at[w] = "hide", at'[w] = "release",
                    NEW p \in Project, cat'[p] # cat[p]
             PROVE  p \in absent[w]
  BY DEF PresentIsNotHidden
<1>1. at \in [Reconciler -> CycleAt]
  BY DEF Inv, TypeOK, CycleAt
<1>2. at' # at
  OBVIOUS
<1>3. PICK v \in Reconciler : Cycle(v) \/ Fails(v)
  BY <1>2 DEF Next, vars, Analyse, Enrich, Withdraw, Restore, Change, cycles,
              Moderate, Follow, SyncRead, SyncWrite, SyncFails, Expire,
              SixHours
<1>4. \E place \in CycleAt : at' = [at EXCEPT ![v] = place]
  BY <1>1, <1>3 DEF Cycle, Load, Acquire, Page, Write, Renew, RenewLast,
     Finalize, Release, Save, Fails, Moves, CycleAt
<1>5. v = w
  BY <1>1, <1>4
<1>6. Finalize(w)
  BY <1>1, <1>3, <1>5 DEF Cycle, Load, Acquire, Page, Write, Renew, RenewLast,
     Release, Save, Fails, Moves
<1>7. p \in Hidden(w)
  BY <1>6 DEF Finalize, Inv, TypeOK
<1>8. Decided(w, p)
  BY DEF Inv, Sweeps, SweptBy
<1> QED BY <1>7, <1>8 DEF Hidden, Decided

\* Every variable keeps to its type, no cursor is ahead of the source, and
\* the catalog projects assessments the source has had.
THEOREM TypeCorrect == Spec => []TypeOK
<1> QED BY CatalogInvariant, PTL DEF Inv

\* Whatever is moderated and reassessed, only clean projects and overridden
\* high risks are published, and nothing that was removed
\* (feed_admin.go, feed_projector.go).
THEOREM PublishedIsAllowedHolds == Spec => []PublishedIsAllowed
<1> QED BY CatalogInvariant, PTL DEF Inv

\* No late write of a consumer or a reconciler takes the artifact back
\* (upsertFeedProjectTx).
THEOREM ArtifactNeverGoesBackHolds == Spec => [][ArtifactNeverGoesBack]_vars
<1>1. Inv /\ [Next]_vars => ArtifactNeverGoesBack
  BY NextInv DEF RowsFit
<1> QED BY <1>1, CatalogInvariant, PTL DEF Spec

\* New evidence is not covered by an older override (upsertFeedProjectTx).
THEOREM OverrideIsNotInheritedHolds == Spec => [][OverrideIsNotInherited]_vars
<1>1. Inv /\ [Next]_vars => OverrideIsNotInherited
  BY NextInv DEF RowsFit
<1> QED BY <1>1, CatalogInvariant, PTL DEF Spec

\* A sweep hides no project that was in the source as long as it ran, however
\* its pages interleave with changes and with other sweeps (Reconcile).
THEOREM PresentIsNotHiddenHolds == Spec => [][PresentIsNotHidden]_vars
<1> QED BY HidesTheAbsent, CatalogInvariant, PTL DEF Spec

\* All of it as the run checks it.
THEOREM CatalogSafeHolds == Spec => CatalogSafe
<1>1. Inv /\ [Next]_vars =>
        ArtifactNeverGoesBack /\ OverrideIsNotInherited /\ PresentIsNotHidden
  BY NextInv, HidesTheAbsent DEF RowsFit
<1> QED BY <1>1, CatalogInvariant, PTL DEF Spec, CatalogSafe, Inv
-----------------------------------------------------------------------------
(***************************************************************************)
(* Proofs about AuthorEmails, for any number of authors, mails, addresses  *)
(* and overlapping invocations and any bounds.  The inductive invariant    *)
(* EmailInv: an invocation between its claim and its last update is        *)
(* the only owner of its row (Owned), that a turn belongs to one           *)
(* invocation and to a subscription that cannot give another (Turned),     *)
(* and that what the paid invocations may still send fits the budget       *)
(* (Budgeted).                                                             *)
(***************************************************************************)

\* Between the claim of a row and the last update of it.
Working == {"eligible", "budget", "turn", "access", "profile", "active",
            "send", "sent", "uncertain"}
Owns(w, s) == wk[w].at \in Working /\ Mail(w) = s

\* Between the turn and the hand-over.
HoldsTurn(w) == wk[w].at \in {"access", "profile", "active", "send"}

Paid == {w \in Worker :
           wk[w].paid /\ wk[w].at \in {"turn", "access", "profile", "active",
                                       "send"}}

HistoryType ==
  /\ handed \in [Subject -> Nat] /\ turns \in [Tokens -> Nat] /\ today \in Nat
  /\ \A w \in Worker : wk[w].at \notin {"idle", "pick"} => Mail(w) \in Subject

\* A row that is worked on has one owner, and only its owner ends it.
Owned ==
  /\ \A w \in Worker, s \in Subject :
       Owns(w, s) => mail[s].state \in {"sending", "uncertain"}
  /\ \A v, w \in Worker, s \in Subject : Owns(v, s) /\ Owns(w, s) => v = w

\* What waits, or was not handed over by its owner, was not handed over.
NotYet ==
  /\ \A s \in Subject : mail[s].state \in {"none", "pending"} => handed[s] = 0
  /\ \A w \in Worker, s \in Subject :
       Owns(w, s) /\ wk[w].at \notin {"sent", "uncertain"} => handed[s] = 0

\* A row of the subscriptions has a token of its own.
Tokened ==
  /\ \A u \in User : sub[u] # NoSub => sub[u].token \in Tokens
  /\ \A u, v \in User : sub[u].token = sub[v].token /\ sub[u] # NoSub => u = v

\* A turn is held by one invocation, was not used and cannot be taken again;
\* a used one cannot be taken again either.
Turned ==
  /\ \A w \in Worker : HoldsTurn(w) =>
       wk[w].sub.token \in Tokens /\ turns[wk[w].sub.token] = 0
  /\ \A v, w \in Worker :
       HoldsTurn(v) /\ HoldsTurn(w) /\ wk[v].sub.token = wk[w].sub.token
         => v = w
  /\ \A w \in Worker, u \in User :
       HoldsTurn(w) /\ sub[u].token = wk[w].sub.token => sub[u].recent
  /\ \A u \in User, t \in Tokens :
       sub[u].token = t /\ turns[t] # 0 => sub[u].recent

Budgeted == today + Cardinality(Paid) <= used /\ used <= Cap

EmailInv == /\ EmailTypeOK /\ HistoryType /\ Owned /\ NotYet /\ MailedOnce
       /\ NoReenrolment /\ Tokened /\ Turned /\ OneTurn /\ Budgeted
-----------------------------------------------------------------------------
(* What the helpers of the actions do.                                     *)

LEMMA TokensAreNumbers == Tokens \subseteq Nat \ {0}
BY FS_CardinalityType, EmailAssumption DEF Tokens, EmailAssumption

LEMMA Defaults ==
  NoSub \in SubType /\ NoMail \in MailType /\ NoLookup \in JobType
    /\ Idle \in Invocation
BY DEF NoSub, SubType, NoMail, MailType, NoLookup, JobType, Idle, Invocation,
  Places, Final

LEMMA Moved ==
  ASSUME EmailTypeOK, NEW w \in Worker, NEW a \in Places, To(w, a)
  PROVE  /\ wk' \in [Worker -> Invocation]
         /\ \A v \in Worker : v # w => wk'[v] = wk[v]
         /\ wk'[w].at = a /\ wk'[w].mail = wk[w].mail
         /\ wk'[w].sub = wk[w].sub /\ wk'[w].paid = wk[w].paid
<1>1. wk[w] \in Invocation
  BY DEF EmailTypeOK
<1>2. [wk[w] EXCEPT !.at = a] \in Invocation
  BY <1>1 DEF Invocation
<1>3. wk'[w] = [wk[w] EXCEPT !.at = a]
  BY DEF To, EmailTypeOK
<1> QED BY <1>1, <1>2, <1>3 DEF To, EmailTypeOK, Invocation

LEMMA IsDone ==
  ASSUME EmailTypeOK, NEW w \in Worker, Done(w)
  PROVE  /\ wk' \in [Worker -> Invocation]
         /\ \A v \in Worker : v # w => wk'[v] = wk[v]
         /\ wk'[w] = Idle /\ wk'[w].at = "idle"
BY Defaults DEF Done, EmailTypeOK, Idle

States == {"none", "pending", "sending"} \cup Final

LEMMA IsSet ==
  ASSUME EmailTypeOK, NEW w \in Worker, Mail(w) \in Subject, NEW x \in States,
         Set(w, x)
  PROVE  /\ mail' \in [Subject -> MailType]
         /\ \A s \in Subject : s # Mail(w) => mail'[s] = mail[s]
         /\ mail'[Mail(w)].state = x
<1>1. [state |-> x, old |-> FALSE] \in MailType
  BY DEF States, MailType
<1> QED BY <1>1 DEF Set, EmailTypeOK

LEMMA IsSwept ==
  ASSUME EmailTypeOK, mail' = [s \in Subject |-> Swept(mail[s])]
  PROVE  /\ mail' \in [Subject -> MailType]
         /\ \A s \in Subject :
              \/ mail'[s].state = mail[s].state
              \/ mail[s].state = "sending" /\ mail'[s].state = "uncertain"
<1>1. ASSUME NEW s \in Subject
      PROVE  Swept(mail[s]) \in MailType
  <2>1. mail[s] \in MailType
    BY DEF EmailTypeOK
  <2>2. [state |-> "uncertain", old |-> FALSE] \in MailType
    BY DEF MailType, Final
  <2> QED BY <2>1, <2>2 DEF Swept
<1>2. ASSUME NEW s \in Subject
      PROVE  \/ Swept(mail[s]).state = mail[s].state
             \/ mail[s].state = "sending" /\ Swept(mail[s]).state = "uncertain"
  BY DEF Swept
<1> QED BY <1>1, <1>2
-----------------------------------------------------------------------------
(* Types.                                                                  *)

Types == EmailTypeOK /\ HistoryType

LEMMA AuthorTypes ==
  ASSUME Types,
         \/ \E u \in User : \/ Unsubscribe(u)
                            \/ \E a \in Address : Subscribe(u, a)
                            \/ \E a \in Address \cup {Null} :
                                 ChangeProfile(u, a)
         \/ \E s \in Subject : Lookup(s) \/ Enrol(s) \/ Enqueue(s) \/ Ages(s)
         \/ Midnight \/ DayPasses
  PROVE  Types'
<1> USE EmailAssumption DEF EmailAssumption, Types
<1>1. ASSUME NEW u \in User, Unsubscribe(u)
      PROVE  Types'
  <2>1. mail' \in [Subject -> MailType]
    <3>1. ASSUME NEW s \in Subject
          PROVE  [mail[s] EXCEPT !.state = "cancelled"] \in MailType
      BY DEF EmailTypeOK, MailType, Final
    <3> QED BY <1>1, <3>1 DEF Unsubscribe, EmailTypeOK
  <2>2. sub' \in [User -> SubType]
    BY <1>1, Defaults DEF Unsubscribe, EmailTypeOK
  <2>3. choices' \in 0..MaxChoices
    BY <1>1 DEF Unsubscribe, Choose, EmailTypeOK
  <2> QED
    BY <1>1, <2>1, <2>2, <2>3
    DEF Unsubscribe, Choose, EmailTypeOK, HistoryType, history, Mail
<1>2. ASSUME NEW u \in User, NEW a \in Address, Subscribe(u, a)
      PROVE  Types'
  <2>1. PICK t \in Tokens : sub' = [sub EXCEPT ![u] = Upserted(u, t, a)]
    BY <1>2 DEF Subscribe
  <2>2. Upserted(u, t, a) \in SubType
    <3>1. sub[u] \in SubType
      BY DEF EmailTypeOK
    <3>2. [sub[u] EXCEPT !.source = "verified", !.email = a] \in SubType
      BY <3>1 DEF SubType
    <3>3. [token |-> t, source |-> "verified", email |-> a,
           recent |-> FALSE] \in SubType
      BY DEF SubType
    <3> QED BY <3>2, <3>3 DEF Upserted
  <2>3. sub' \in [User -> SubType]
    BY <2>1, <2>2 DEF EmailTypeOK
  <2>4. choices' \in 0..MaxChoices
    BY <1>2 DEF Subscribe, Choose, EmailTypeOK
  <2> QED
    BY <1>2, <2>3, <2>4
    DEF Subscribe, Choose, EmailTypeOK, HistoryType, history, Mail
<1>3. ASSUME NEW u \in User, NEW a \in Address \cup {Null},
             ChangeProfile(u, a)
      PROVE  Types'
  <2>1. choices' \in 0..MaxChoices
    BY <1>3 DEF ChangeProfile, Choose, EmailTypeOK
  <2> QED
    BY <1>3, <2>1
    DEF ChangeProfile, Choose, EmailTypeOK, HistoryType, history, Mail
<1>4. ASSUME NEW s \in Subject, NEW to \in {"idle", "enrol", "queue"},
             NEW a \in Address \cup {Null}, JobTo(s, to, a)
      PROVE  lookup' \in [Subject -> JobType]
  <2>1. [at |-> to, email |-> a] \in JobType
    BY DEF JobType
  <2> QED BY <1>4, <2>1 DEF JobTo, EmailTypeOK
<1>5. ASSUME NEW s \in Subject, Lookup(s)
      PROVE  Types'
  <2>1. AuthorOf[s] \in User
    OBVIOUS
  <2>2. public[AuthorOf[s]] \in Address \cup {Null}
    BY <2>1 DEF EmailTypeOK
  <2>3. lookup' \in [Subject -> JobType]
    BY <1>4, <1>5, <2>2 DEF Lookup, Author
  <2> QED
    BY <1>5, <2>3
    DEF Lookup, OthersStay, EmailTypeOK, HistoryType, history, Mail
<1>6. ASSUME NEW s \in Subject, Enrol(s)
      PROVE  Types'
  <2>1. lookup' \in [Subject -> JobType]
    BY <1>4, <1>6 DEF Enrol
  <2>2. lookup[s].email \in Address \cup {Null}
    BY DEF EmailTypeOK, JobType
  <2>3. ASSUME NEW t \in Tokens
        PROVE  [token |-> t, source |-> "public", email |-> lookup[s].email,
                recent |-> FALSE] \in SubType
    BY <2>2 DEF SubType
  <2>4. sub' \in [User -> SubType]
    BY <1>6, <2>3 DEF Enrol, EmailTypeOK
  <2> QED
    BY <1>6, <2>1, <2>4
    DEF Enrol, OthersStay, EmailTypeOK, HistoryType, history, Mail
<1>7. ASSUME NEW s \in Subject, Enqueue(s)
      PROVE  Types'
  <2>1. lookup' \in [Subject -> JobType]
    BY <1>4, <1>7 DEF Enqueue
  <2>2. [NoMail EXCEPT !.state = "pending"] \in MailType
    BY DEF NoMail, MailType
  <2>3. mail' \in [Subject -> MailType]
    BY <1>7, <2>2 DEF Enqueue, EmailTypeOK
  <2> QED
    BY <1>7, <2>1, <2>3
    DEF Enqueue, OthersStay, EmailTypeOK, HistoryType, history, Mail
<1>8. ASSUME NEW s \in Subject, Ages(s)
      PROVE  Types'
  <2>1. [mail[s] EXCEPT !.old = TRUE] \in MailType
    BY DEF EmailTypeOK, MailType
  <2>2. mail' \in [Subject -> MailType]
    BY <1>8, <2>1 DEF Ages, EmailTypeOK
  <2>3. deaths' \in 0..MaxDeaths
    BY <1>8 DEF Ages, EmailTypeOK
  <2> QED
    BY <1>8, <2>2, <2>3 DEF Ages, EmailTypeOK, HistoryType, history, Mail
<1>9. CASE Midnight
  <2>1. ASSUME NEW w \in Worker
        PROVE  [wk[w] EXCEPT !.paid = FALSE] \in Invocation
    BY DEF EmailTypeOK, Invocation
  <2>2. wk' \in [Worker -> Invocation]
    BY <1>9, <2>1 DEF Midnight
  <2>3. \A w \in Worker : wk'[w].at = wk[w].at /\ wk'[w].mail = wk[w].mail
    BY <1>9, <2>1 DEF Midnight, EmailTypeOK, Invocation
  <2> QED BY <1>9, <2>2, <2>3 DEF Midnight, EmailTypeOK, HistoryType, Mail
<1>10. CASE DayPasses
  <2>1. ASSUME NEW u \in User
        PROVE  [sub[u] EXCEPT !.recent = FALSE] \in SubType
    <3>1. sub[u] \in SubType
      BY DEF EmailTypeOK
    <3> QED BY <3>1 DEF SubType
  <2> QED BY <1>10, <2>1 DEF DayPasses, EmailTypeOK, HistoryType, Mail
<1> QED BY <1>1, <1>2, <1>3, <1>5, <1>6, <1>7, <1>8, <1>9, <1>10

LEMMA CronTypes ==
  ASSUME Types, NEW w \in Worker,
         \/ Begin(w) \/ Step(w) \/ Die(w) \/ \E s \in Subject : Claim(w, s)
  PROVE  Types'
<1> USE DEF Types
<1>1. ASSUME wk' \in [Worker -> Invocation], mail' \in [Subject -> MailType],
             sub' \in [User -> SubType], used' \in Nat,
             UNCHANGED <<optout, public, lookup, choices, history>>,
             deaths' \in 0..MaxDeaths,
             \A v \in Worker : v # w => wk'[v] = wk[v],
             wk'[w].at \notin {"idle", "pick"} => wk'[w].mail \in Subject
      PROVE  Types'
  BY <1>1 DEF EmailTypeOK, HistoryType, history, Mail
<1>2. CASE Begin(w)
  <2>1. mail' \in [Subject -> MailType]
    BY <1>2, IsSwept DEF Begin
  <2> QED
    BY <1>1, <1>2, <2>1, Moved DEF Begin, CronStays, EmailTypeOK, Places
<1>3. CASE Die(w)
  <2>1. deaths' \in 0..MaxDeaths
    BY <1>3, EmailAssumption DEF Die, EmailTypeOK, EmailAssumption
  <2> QED
    BY <1>1, <1>3, <2>1, IsDone DEF Die, EmailTypeOK, tables
<1>4. ASSUME NEW s \in Subject, Claim(w, s)
      PROVE  Types'
  <2>1. [Idle EXCEPT !.at = "eligible", !.mail = s] \in Invocation
    BY Defaults DEF Idle, Invocation, Places
  <2>2. [state |-> "sending", old |-> FALSE] \in MailType
    BY DEF MailType
  <2>3. wk' \in [Worker -> Invocation] /\ mail' \in [Subject -> MailType]
    BY <1>4, <2>1, <2>2 DEF Claim, EmailTypeOK
  <2>4. wk'[w].mail = s
    BY <1>4 DEF Claim, EmailTypeOK, Idle
  <2> QED
    BY <1>1, <1>4, <2>3, <2>4 DEF Claim, CronStays, EmailTypeOK
<1> DEFINE Working2 == wk[w].at \notin {"idle", "pick"}
<1>5. CASE Leave(w)
  BY <1>1, <1>5, IsDone DEF Leave, CronStays, EmailTypeOK, tables
<1>6. ASSUME Working2, Cancel(w)
      PROVE  /\ wk' \in [Worker -> Invocation]
             /\ mail' \in [Subject -> MailType]
             /\ \A v \in Worker : v # w => wk'[v] = wk[v]
             /\ wk'[w].at = "pick"
  BY <1>6, Moved, IsSet DEF Cancel, HistoryType, States, Final, Places, Mail
<1>7. CASE Recheck(w)
  <2>1. Working2
    BY <1>7 DEF Recheck, At
  <2> QED
    BY <1>1, <1>6, <1>7, <2>1, Moved
    DEF Recheck, CronStays, EmailTypeOK, HistoryType, Places, Mail
<1>8. CASE Pay(w)
  <2>1. Working2
    BY <1>8 DEF Pay, At
  <2>2. CASE CanPay(used)
    <3>1. [wk[w] EXCEPT !.at = "turn", !.paid = TRUE] \in Invocation
      BY DEF EmailTypeOK, Invocation, Places
    <3>2. wk' \in [Worker -> Invocation]
      BY <1>8, <2>2, <3>1 DEF Pay, EmailTypeOK
    <3>3. wk'[w].mail = wk[w].mail
      BY <1>8, <2>2, <3>1 DEF Pay, EmailTypeOK, Invocation
    <3>4. \A v \in Worker : v # w => wk'[v] = wk[v]
      BY <1>8, <2>2 DEF Pay, EmailTypeOK
    <3> QED
      BY <1>1, <1>8, <2>1, <2>2, <3>2, <3>3, <3>4
      DEF Pay, CronStays, EmailTypeOK, HistoryType, Mail
  <2>3. CASE ~CanPay(used)
    BY <1>1, <1>8, <2>1, <2>3, IsDone, IsSet
    DEF Pay, CronStays, EmailTypeOK, HistoryType, States
  <2> QED BY <2>2, <2>3
<1>9. CASE Turn(w)
  <2>1. Working2
    BY <1>9 DEF Turn, At
  <2>2. Mail(w) \in Subject /\ Author(Mail(w)) \in User
    BY <2>1, EmailAssumption DEF HistoryType, Author, EmailAssumption
  <2>3. CASE HasTurn(sub[Author(Mail(w))])
    <3> DEFINE row == sub[Author(Mail(w))]
    <3>1. row \in SubType
      BY <2>2 DEF EmailTypeOK
    <3>2. [row EXCEPT !.recent = TRUE] \in SubType
      BY <3>1 DEF SubType
    <3>3. sub' \in [User -> SubType]
      BY <1>9, <2>3, <3>2 DEF Turn, EmailTypeOK
    <3>4. [wk[w] EXCEPT !.at = "access", !.sub = row] \in Invocation
      BY <3>1 DEF EmailTypeOK, Invocation, Places
    <3>5. wk' \in [Worker -> Invocation]
      BY <1>9, <2>3, <3>4 DEF Turn, EmailTypeOK
    <3>6. wk'[w].mail = wk[w].mail
      BY <1>9, <2>3, <3>4 DEF Turn, EmailTypeOK, Invocation
    <3>7. \A v \in Worker : v # w => wk'[v] = wk[v]
      BY <1>9, <2>3 DEF Turn, EmailTypeOK
    <3> QED
      BY <1>1, <1>9, <2>2, <2>3, <3>3, <3>5, <3>6, <3>7
      DEF Turn, CronStays, EmailTypeOK, Mail
  <2>4. CASE ~HasTurn(sub[Author(Mail(w))])
    BY <1>1, <1>6, <1>9, <2>1, <2>4 DEF Turn, CronStays, EmailTypeOK
  <2> QED BY <2>3, <2>4
<1>10. CASE Access(w)
  <2>1. Working2
    BY <1>10 DEF Access, At
  <2> QED
    BY <1>1, <1>10, <2>1, Moved, IsSet
    DEF Access, CronStays, EmailTypeOK, HistoryType, Places, Mail, States, Final
<1>11. CASE Profile(w)
  <2>1. Working2
    BY <1>11 DEF Profile, At
  <2> QED
    BY <1>1, <1>11, <2>1, Moved, IsSet
    DEF Profile, CronStays, EmailTypeOK, HistoryType, Places, Mail, States,
        Final
<1>12. CASE Forget(w)
  <2>1. sub' \in [User -> SubType]
    BY <1>12, Defaults DEF Forget, EmailTypeOK
  <2> QED
    BY <1>1, <1>12, <2>1, Moved DEF Forget, CronStays, EmailTypeOK, Places
<1>13. CASE Active(w)
  <2>1. Working2
    BY <1>13 DEF Active, At
  <2> QED
    BY <1>1, <1>6, <1>13, <2>1, Moved
    DEF Active, CronStays, EmailTypeOK, HistoryType, Places, Mail
<1>14. CASE Send(w)
  <2>1. Mail(w) \in Subject
    BY <1>14 DEF Send, At, HistoryType
  <2>2. /\ wk' \in [Worker -> Invocation]
        /\ \A v \in Worker : v # w => wk'[v] = wk[v]
        /\ wk'[w].mail = wk[w].mail
    BY <1>14, Moved DEF Send, Places
  <2>3. handed' \in [Subject -> Nat]
    <3>1. handed[Mail(w)] + 1 \in Nat
      BY <2>1 DEF HistoryType
    <3> QED BY <1>14, <3>1 DEF Send, HistoryType
  <2>5. turns' \in [Tokens -> Nat]
    <3>1. wk[w].sub.token \in Tokens => turns[wk[w].sub.token] + 1 \in Nat
      BY DEF HistoryType
    <3> QED BY <1>14, <3>1 DEF Send, HistoryType
  <2>4. today' \in Nat
    BY <1>14 DEF Send, HistoryType
  <2> QED
    BY <1>14, <2>1, <2>2, <2>3, <2>4, <2>5
    DEF Send, CronStays, tables, EmailTypeOK, HistoryType, Mail
<1>15. CASE Record(w)
  <2>1. Working2
    BY <1>15 DEF Record
  <2> QED
    BY <1>1, <1>15, <2>1, Moved, IsSet
    DEF Record, CronStays, EmailTypeOK, HistoryType, Places, States, Final
<1> QED
  BY <1>2, <1>3, <1>4, <1>5, <1>7, <1>8, <1>9, <1>10, <1>11, <1>12, <1>13,
     <1>14, <1>15 DEF Step

-----------------------------------------------------------------------------
(* The owner of a row.                                                     *)

\* An invocation goes on with its row, ends it, or has none.
GoesOn(w) ==
  /\ wk[w].at \in Working /\ wk'[w].at \in Working
  /\ wk'[w].mail = wk[w].mail /\ mail' = mail
  /\ \/ /\ wk[w].at \notin {"sent", "uncertain"} /\ handed' = handed
        /\ wk'[w].at \notin {"sent", "uncertain"}
     \/ /\ wk[w].at = "send" /\ wk'[w].at \in {"sent", "uncertain"}
        /\ handed' = [handed EXCEPT ![Mail(w)] = handed[Mail(w)] + 1]
Ends(w) ==
  /\ wk[w].at \in Working /\ wk'[w].at \notin Working /\ handed' = handed
  /\ \A s \in Subject : s # Mail(w) => mail'[s] = mail[s]
  /\ \/ mail'[Mail(w)].state \in Final
     \/ mail'[Mail(w)].state = "pending" /\ wk[w].at = "budget"
Rests(w) ==
  wk[w].at \notin Working /\ wk'[w].at \notin Working /\ mail' = mail
    /\ handed' = handed

LEMMA OwnerSteps ==
  ASSUME Types, NEW w \in Worker, Step(w)
  PROVE  /\ \A v \in Worker : v # w => wk'[v] = wk[v]
         /\ GoesOn(w) \/ Ends(w) \/ Rests(w)
<1> USE DEF Types
<1> DEFINE Shape == /\ \A v \in Worker : v # w => wk'[v] = wk[v]
                    /\ GoesOn(w) \/ Ends(w) \/ Rests(w)
<1>1. ASSUME wk[w].at \in Working, Cancel(w), handed' = handed
      PROVE  Shape
  <2>1. Mail(w) \in Subject
    BY <1>1 DEF Working, HistoryType
  <2>2. /\ \A v \in Worker : v # w => wk'[v] = wk[v]
        /\ wk'[w].at = "pick"
    BY <1>1, Moved DEF Cancel, Places
  <2>3. /\ \A s \in Subject : s # Mail(w) => mail'[s] = mail[s]
        /\ mail'[Mail(w)].state = "cancelled"
    BY <1>1, <2>1, IsSet DEF Cancel, States, Final
  <2> QED BY <1>1, <2>2, <2>3 DEF Ends, Working, Final
<1>2. ASSUME wk[w].at \in Working, NEW x \in Final, NEW a \in {"pick","forget"},
             Set(w, x), To(w, a), handed' = handed
      PROVE  Shape
  <2>1. Mail(w) \in Subject
    BY <1>2 DEF Working, HistoryType
  <2>2. /\ \A v \in Worker : v # w => wk'[v] = wk[v]
        /\ wk'[w].at = a
    BY <1>2, Moved DEF Places
  <2>3. /\ \A s \in Subject : s # Mail(w) => mail'[s] = mail[s]
        /\ mail'[Mail(w)].state = x
    BY <1>2, <2>1, IsSet DEF States
  <2> QED BY <1>2, <2>2, <2>3 DEF Ends, Working
<1>3. ASSUME wk[w].at \in Working \ {"sent", "uncertain"},
             NEW a \in Working \ {"sent", "uncertain"}, To(w, a),
             mail' = mail, handed' = handed
      PROVE  Shape
  BY <1>3, Moved DEF GoesOn, Working, Places
<1>4. CASE Leave(w)
  BY <1>4, IsDone DEF Leave, At, tables, history, Rests, Working
<1>5. CASE Recheck(w)
  <2>1. wk[w].at = "eligible" /\ handed' = handed
    BY <1>5 DEF Recheck, At, history
  <2>2. Cancel(w) \/ (To(w, "budget") /\ mail' = mail)
    BY <1>5 DEF Recheck
  <2> QED BY <1>1, <1>3, <2>1, <2>2 DEF Working
<1>6. CASE Pay(w)
  <2>1. wk[w].at = "budget" /\ handed' = handed
    BY <1>6 DEF Pay, At, history
  <2>2. CASE CanPay(used)
    <3>1. /\ wk'[w] = [wk[w] EXCEPT !.at = "turn", !.paid = TRUE]
          /\ \A v \in Worker : v # w => wk'[v] = wk[v]
      BY <1>6, <2>2 DEF Pay, EmailTypeOK
    <3>2. wk[w] \in Invocation
      BY DEF EmailTypeOK
    <3>3. wk'[w].at = "turn" /\ wk'[w].mail = wk[w].mail
      BY <3>1, <3>2 DEF Invocation
    <3> QED
      BY <1>6, <2>1, <2>2, <3>1, <3>3 DEF Pay, GoesOn, Working
  <2>3. CASE ~CanPay(used)
    <3>1. Mail(w) \in Subject
      BY <2>1 DEF HistoryType
    <3>2. Set(w, "pending") /\ Done(w)
      BY <1>6, <2>3 DEF Pay
    <3>3. /\ \A s \in Subject : s # Mail(w) => mail'[s] = mail[s]
          /\ mail'[Mail(w)].state = "pending"
      BY <3>1, <3>2, IsSet DEF States
    <3> QED BY <2>1, <3>2, <3>3, IsDone DEF Ends, Working
  <2> QED BY <2>2, <2>3
<1>7. CASE Turn(w)
  <2>1. wk[w].at = "turn" /\ handed' = handed
    BY <1>7 DEF Turn, At, history
  <2> DEFINE row == sub[Author(Mail(w))]
  <2>2. CASE HasTurn(row)
    <3>1. /\ wk'[w] = [wk[w] EXCEPT !.at = "access", !.sub = row]
          /\ \A v \in Worker : v # w => wk'[v] = wk[v]
          /\ mail' = mail
      BY <1>7, <2>2 DEF Turn, EmailTypeOK
    <3>2. wk[w] \in Invocation
      BY DEF EmailTypeOK
    <3>3. wk'[w].at = "access" /\ wk'[w].mail = wk[w].mail
      BY <3>1, <3>2 DEF Invocation
    <3> QED BY <2>1, <3>1, <3>3 DEF GoesOn, Working
  <2>3. CASE ~HasTurn(row)
    BY <1>1, <1>7, <2>1, <2>3 DEF Turn, Working
  <2> QED BY <2>2, <2>3
<1>8. CASE Access(w)
  <2>1. wk[w].at = "access" /\ handed' = handed
    BY <1>8 DEF Access, At, history
  <2>2. \/ \E a \in {"profile", "active"} : To(w, a) /\ mail' = mail
        \/ Set(w, "uncertain") /\ To(w, "pick")
    BY <1>8 DEF Access
  <2> QED BY <1>2, <1>3, <2>1, <2>2 DEF Working, Final
<1>9. CASE Profile(w)
  <2>1. wk[w].at = "profile" /\ handed' = handed
    BY <1>9 DEF Profile, At, history
  <2>2. \/ To(w, "active") /\ mail' = mail
        \/ Set(w, "cancelled") /\ To(w, "forget")
        \/ Set(w, "uncertain") /\ To(w, "pick")
    BY <1>9 DEF Profile
  <2> QED BY <1>2, <1>3, <2>1, <2>2 DEF Working, Final
<1>10. CASE Forget(w)
  BY <1>10, Moved DEF Forget, At, history, Rests, Working, Places
<1>11. CASE Active(w)
  <2>1. wk[w].at = "active" /\ handed' = handed
    BY <1>11 DEF Active, At, history
  <2>2. Cancel(w) \/ (To(w, "send") /\ mail' = mail)
    BY <1>11 DEF Active
  <2> QED BY <1>1, <1>3, <2>1, <2>2 DEF Working
<1>12. CASE Send(w)
  <2>1. PICK answer \in {"sent", "uncertain"} : To(w, answer)
    BY <1>12 DEF Send
  <2> QED
    BY <1>12, <2>1, Moved DEF Send, At, tables, GoesOn, Working, Places
<1>13. CASE Record(w)
  <2>1. wk[w].at \in {"sent", "uncertain"} /\ handed' = handed
    BY <1>13 DEF Record, history
  <2>2. Set(w, wk[w].at) /\ To(w, "pick")
    BY <1>13 DEF Record
  <2> QED BY <1>2, <2>1, <2>2 DEF Working, Final
<1> QED
  BY <1>4, <1>5, <1>6, <1>7, <1>8, <1>9, <1>10, <1>11, <1>12, <1>13 DEF Step

Claims == Owned /\ NotYet /\ MailedOnce

\* What the step of an owner means for its row and for the others.
LEMMA OwnerClaims ==
  ASSUME Types, Claims, NEW w \in Worker, Step(w)
  PROVE  Claims' /\ SettledIsFinal
<1>1. \A v \in Worker : v # w => wk'[v] = wk[v]
  BY OwnerSteps
<1>2. CASE Rests(w)
  <2>1. \A v \in Worker, s \in Subject : Owns(v, s)' => Owns(v, s) /\ v # w
    BY <1>1, <1>2 DEF Rests, Owns, Mail
  <2> QED
    BY <1>1, <1>2, <2>1
    DEF Rests, Claims, Owned, NotYet, MailedOnce, SettledIsFinal
<1>3. CASE GoesOn(w)
  <2>1. \A v \in Worker, s \in Subject : Owns(v, s)' <=> Owns(v, s)
    BY <1>1, <1>3 DEF GoesOn, Owns, Mail
  <2>2. Owned' /\ SettledIsFinal
    BY <1>3, <2>1 DEF GoesOn, Claims, Owned, SettledIsFinal
  <2>3. Owns(w, Mail(w)) /\ Mail(w) \in Subject
    BY <1>3 DEF GoesOn, Owns, Working, Types, HistoryType
  <2>4. CASE handed' = handed
    <3>1. \A v \in Worker : wk'[v].at \notin {"sent", "uncertain"} =>
            wk[v].at \notin {"sent", "uncertain"}
      BY <1>1, <1>3, <2>4, <2>3 DEF GoesOn, Types, HistoryType
    <3> QED
      BY <1>3, <2>1, <2>2, <2>4, <3>1
      DEF GoesOn, Claims, NotYet, MailedOnce
  <2>5. CASE /\ wk[w].at = "send" /\ wk'[w].at \in {"sent", "uncertain"}
             /\ handed' = [handed EXCEPT ![Mail(w)] = handed[Mail(w)] + 1]
    <3>1. handed[Mail(w)] = 0
      BY <2>3, <2>5 DEF Claims, NotYet
    <3>2. handed'[Mail(w)] = 1
      BY <2>3, <2>5, <3>1 DEF Types, HistoryType
    <3>3. \A s \in Subject : s # Mail(w) => handed'[s] = handed[s]
      BY <2>5 DEF Types, HistoryType
    <3>4. MailedOnce'
      BY <3>2, <3>3 DEF Claims, MailedOnce
    <3>5. mail[Mail(w)].state \notin {"none", "pending"} /\ mail' = mail
      BY <1>3, <2>3 DEF Claims, Owned, GoesOn
    <3>6. ASSUME NEW v \in Worker, NEW s \in Subject, Owns(v, s)',
                 wk'[v].at \notin {"sent", "uncertain"}
          PROVE  handed'[s] = 0
      <4>1. v # w
        BY <2>5, <3>6
      <4>2. Owns(v, s) /\ wk[v].at \notin {"sent", "uncertain"}
        BY <1>1, <2>1, <3>6, <4>1
      <4>3. s # Mail(w)
        BY <2>3, <4>1, <4>2 DEF Claims, Owned
      <4> QED BY <3>3, <4>2, <4>3 DEF Claims, NotYet
    <3>7. NotYet'
      BY <3>3, <3>5, <3>6 DEF Claims, NotYet
    <3> QED BY <2>2, <3>4, <3>7 DEF Claims
  <2> QED BY <1>3, <2>4, <2>5 DEF GoesOn
<1>4. CASE Ends(w)
  <2>1. Owns(w, Mail(w)) /\ Mail(w) \in Subject
    BY <1>4 DEF Ends, Owns, Working, Types, HistoryType
  <2>2. \A v \in Worker, s \in Subject :
          Owns(v, s)' => Owns(v, s) /\ v # w /\ s # Mail(w)
    BY <1>1, <1>4, <2>1 DEF Ends, Owns, Mail, Claims, Owned
  <2>3. mail[Mail(w)].state \in {"sending", "uncertain"}
    BY <2>1 DEF Claims, Owned
  <2>4. \A s \in Subject : s # Mail(w) => mail'[s] = mail[s]
    BY <1>4 DEF Ends
  <2>5. Owned' /\ SettledIsFinal
    BY <2>2, <2>3, <2>4 DEF Claims, Owned, SettledIsFinal
  <2>6. wk[w].at = "budget" => handed[Mail(w)] = 0
    BY <2>1 DEF Claims, NotYet
  <2>7. mail'[Mail(w)].state \in {"none", "pending"} => handed[Mail(w)] = 0
    BY <1>4, <2>6 DEF Ends, Final
  <2>8. NotYet'
    BY <1>1, <1>4, <2>2, <2>4, <2>7 DEF Ends, Claims, NotYet
  <2> QED BY <1>4, <2>5, <2>8 DEF Ends, Claims, MailedOnce
<1> QED BY <1>2, <1>3, <1>4, OwnerSteps

LEMMA OtherClaims ==
  ASSUME Types, Claims, [EmailNext]_emailVars,
         \A w \in Worker : ~Step(w)
  PROVE  Claims' /\ SettledIsFinal
<1> USE DEF Types
<1>1. ASSUME handed' = handed,
             \A v \in Worker, s \in Subject : Owns(v, s)' =>
               Owns(v, s) /\ (wk'[v].at \notin {"sent", "uncertain"} =>
                              wk[v].at \notin {"sent", "uncertain"}),
             \A s \in Subject :
               \/ mail'[s].state = mail[s].state
               \/ mail[s].state = "sending" /\ mail'[s].state = "uncertain"
               \/ mail[s].state = "pending" /\ mail'[s].state = "cancelled"
               \/ mail[s].state = "none" /\ mail'[s].state = "pending"
      PROVE  Claims' /\ SettledIsFinal
  <2>1. ASSUME NEW v \in Worker, NEW s \in Subject, Owns(v, s)'
        PROVE  mail'[s].state \in {"sending", "uncertain"}
    <3>1. mail[s].state \in {"sending", "uncertain"}
      BY <1>1, <2>1 DEF Claims, Owned
    <3> QED BY <1>1, <3>1
  <2>2. Owned'
    BY <1>1, <2>1 DEF Claims, Owned
  <2>3. NotYet' /\ MailedOnce'
    BY <1>1 DEF Claims, NotYet, MailedOnce
  <2> QED BY <1>1, <2>2, <2>3 DEF Claims, SettledIsFinal
<1>2. ASSUME UNCHANGED <<wk, handed>>,
             \A s \in Subject :
               \/ mail'[s].state = mail[s].state
               \/ mail[s].state = "pending" /\ mail'[s].state = "cancelled"
               \/ mail[s].state = "none" /\ mail'[s].state = "pending"
      PROVE  Claims' /\ SettledIsFinal
  <2>1. \A v \in Worker, s \in Subject : Owns(v, s)' <=> Owns(v, s)
    BY <1>2 DEF Owns, Mail
  <2> QED BY <1>1, <1>2, <2>1
<1>8. ASSUME NEW u \in User, Unsubscribe(u)
      PROVE  Claims' /\ SettledIsFinal
  BY <1>2, <1>8 DEF Unsubscribe, Choose, history, EmailTypeOK, MailType
<1>9. ASSUME NEW s \in Subject, Lookup(s) \/ Enrol(s) \/ Enqueue(s) \/ Ages(s)
      PROVE  Claims' /\ SettledIsFinal
  <2>1. [NoMail EXCEPT !.state = "pending"].state = "pending"
    BY DEF NoMail
  <2>2. [mail[s] EXCEPT !.old = TRUE].state = mail[s].state
    BY DEF EmailTypeOK, MailType
  <2> QED
    BY <1>2, <1>9, <2>1, <2>2
    DEF Lookup, Enrol, Enqueue, Ages, OthersStay, history, EmailTypeOK
<1>10. ASSUME NEW u \in User,
              \/ \E a \in Address : Subscribe(u, a)
              \/ \E a \in Address \cup {Null} : ChangeProfile(u, a)
       PROVE  Claims' /\ SettledIsFinal
  BY <1>2, <1>10 DEF Subscribe, ChangeProfile, Choose, history
<1>11. CASE DayPasses
  BY <1>2, <1>11 DEF DayPasses
<1>3. CASE Midnight
  <2>1. \A v \in Worker : wk'[v].at = wk[v].at /\ wk'[v].mail = wk[v].mail
    <3>1. ASSUME NEW v \in Worker
          PROVE  [wk[v] EXCEPT !.paid = FALSE].at = wk[v].at
                   /\ [wk[v] EXCEPT !.paid = FALSE].mail = wk[v].mail
      BY DEF EmailTypeOK, Invocation
    <3> QED BY <1>3, <3>1 DEF Midnight
  <2>2. \A v \in Worker, s \in Subject : Owns(v, s)' <=> Owns(v, s)
    BY <2>1 DEF Owns, Mail
  <2> QED BY <1>1, <1>3, <2>1, <2>2 DEF Midnight
<1>4. ASSUME NEW w \in Worker, Begin(w)
      PROVE  Claims' /\ SettledIsFinal
  <2>1. \A v \in Worker, s \in Subject : Owns(v, s)' => Owns(v, s) /\ v # w
    BY <1>4, Moved DEF Begin, Owns, Mail, Working, Places
  <2>2. \A v \in Worker : v # w => wk'[v] = wk[v]
    BY <1>4, Moved DEF Begin, Places
  <2> QED
    BY <1>1, <1>4, <2>1, <2>2, IsSwept DEF Begin, history
<1>5. ASSUME NEW w \in Worker, Die(w)
      PROVE  Claims' /\ SettledIsFinal
  <2>1. \A v \in Worker, s \in Subject : Owns(v, s)' => Owns(v, s) /\ v # w
    BY <1>5, IsDone DEF Die, Owns, Mail, Working
  <2>2. \A v \in Worker : v # w => wk'[v] = wk[v]
    BY <1>5, IsDone DEF Die
  <2> QED BY <1>1, <1>5, <2>1, <2>2 DEF Die, tables, history
<1>6. ASSUME NEW w \in Worker, NEW s \in Subject, Claim(w, s)
      PROVE  Claims' /\ SettledIsFinal
  <2>1. /\ wk'[w] = [Idle EXCEPT !.at = "eligible", !.mail = s]
        /\ \A v \in Worker : v # w => wk'[v] = wk[v]
        /\ mail'[s].state = "sending"
        /\ \A x \in Subject : x # s => mail'[x] = mail[x]
        /\ handed' = handed /\ mail[s].state = "pending"
        /\ wk[w].at = "pick"
    BY <1>6 DEF Claim, EmailTypeOK, history, Takeable, At
  <2>2. wk'[w].at = "eligible" /\ wk'[w].mail = s
    BY <2>1 DEF Idle
  <2>3. handed[s] = 0 /\ \A v \in Worker : ~Owns(v, s)
    BY <2>1 DEF Claims, NotYet, Owned
  <2>4. \A v \in Worker, x \in Subject :
          Owns(v, x)' <=> (v = w /\ x = s) \/ (v # w /\ Owns(v, x))
    BY <2>1, <2>2 DEF Owns, Mail, Working
  <2>5. Owned'
    BY <2>1, <2>3, <2>4 DEF Claims, Owned
  <2>6. NotYet'
    BY <2>1, <2>2, <2>3, <2>4 DEF Claims, NotYet
  <2> QED
    BY <2>1, <2>5, <2>6 DEF Claims, MailedOnce, SettledIsFinal
<1>7. CASE UNCHANGED emailVars
  BY <1>2, <1>7 DEF emailVars, tables, history
<1> QED
  BY <1>3, <1>4, <1>5, <1>6, <1>7, <1>8, <1>9, <1>10, <1>11 DEF EmailNext

-----------------------------------------------------------------------------
(* Turns and tokens.                                                       *)

TurnInv == Tokened /\ Turned /\ OneTurn /\ NoReenrolment

\* Invocations keep the turns they hold, or give them up.
KeepTurns ==
  \A v \in Worker : HoldsTurn(v)' =>
    HoldsTurn(v) /\ wk'[v].sub = wk[v].sub

\* Rows are dropped, or keep their token and their turn.
KeepRows ==
  \A u \in User :
    \/ sub'[u] = NoSub
    \/ /\ sub[u] # NoSub /\ sub'[u].token = sub[u].token
       /\ sub'[u].recent = sub[u].recent

LEMMA TurnsKept ==
  ASSUME Types, TurnInv, KeepTurns, KeepRows, turns' = turns
  PROVE  Tokened' /\ Turned' /\ OneTurn'
<1> USE DEF TurnInv
<1>1. Tokened'
  <2>1. ASSUME NEW u \in User, sub'[u] # NoSub
        PROVE  sub[u] # NoSub /\ sub'[u].token = sub[u].token
                 /\ sub'[u].token \in Tokens
    BY <2>1 DEF KeepRows, Tokened
  <2>2. NoSub.token \notin Tokens
    BY TokensAreNumbers DEF NoSub
  <2>3. \A u, v \in User : sub'[u].token = sub'[v].token /\ sub'[u] # NoSub
          => u = v
    <3>1. ASSUME NEW u \in User, NEW v \in User, sub'[u] # NoSub,
                 sub'[u].token = sub'[v].token
          PROVE  u = v
      <4>1. sub'[v] # NoSub
        BY <2>1, <2>2, <3>1
      <4> QED BY <2>1, <3>1, <4>1 DEF Tokened
    <3> QED BY <3>1
  <2> QED BY <2>1, <2>3 DEF Tokened
<1>2. ASSUME NEW u \in User, NEW t \in Tokens, sub'[u].token = t
      PROVE  sub[u].token = t /\ sub'[u].recent = sub[u].recent
  BY <1>2, TokensAreNumbers DEF KeepRows, NoSub
<1>3. Turned'
  <2>1. ASSUME NEW w \in Worker, HoldsTurn(w)'
        PROVE  wk'[w].sub.token \in Tokens /\ turns'[wk'[w].sub.token] = 0
    BY <2>1 DEF KeepTurns, Turned
  <2>2. ASSUME NEW w \in Worker, HoldsTurn(w)', NEW u \in User,
               sub'[u].token = wk'[w].sub.token
        PROVE  sub'[u].recent
    BY <1>2, <2>1, <2>2 DEF KeepTurns, Turned
  <2>3. \A v, w \in Worker :
          HoldsTurn(v)' /\ HoldsTurn(w)'
            /\ wk'[v].sub.token = wk'[w].sub.token => v = w
    BY DEF KeepTurns, Turned
  <2>4. \A u \in User, t \in Tokens :
          sub'[u].token = t /\ turns'[t] # 0 => sub'[u].recent
    BY <1>2 DEF Turned
  <2> QED BY <2>1, <2>2, <2>3, <2>4 DEF Turned
<1> QED BY <1>1, <1>3 DEF OneTurn

\* A new row has a token that nobody holds.
LEMMA NewRow ==
  ASSUME Types, TurnInv, NEW u \in User, NEW t \in Tokens, Fresh(t),
         sub[u] = NoSub, NEW row \in SubType, row.token = t,
         sub' = [sub EXCEPT ![u] = row], UNCHANGED <<wk, turns>>
  PROVE  Tokened' /\ Turned' /\ OneTurn'
<1> USE DEF TurnInv
<1>1. sub'[u] = row /\ \A v \in User : v # u => sub'[v] = sub[v]
  BY DEF Types, EmailTypeOK
<1>2. Tokened'
  <2>1. \A v \in User : sub'[v] # NoSub => sub'[v].token \in Tokens
    BY <1>1 DEF Tokened
  <2>2. \A v \in User : v # u => sub'[v].token # sub'[u].token
    BY <1>1 DEF Fresh
  <2>3. \A v, x \in User : sub'[v].token = sub'[x].token /\ sub'[v] # NoSub
          => v = x
    BY <1>1, <2>2 DEF Tokened
  <2> QED BY <2>1, <2>3 DEF Tokened
<1>3. \A w \in Worker : wk[w].sub.token # t
  BY DEF Fresh
<1>4. \A w \in Worker : HoldsTurn(w)' <=> HoldsTurn(w)
  BY DEF HoldsTurn
<1>5. ASSUME NEW w \in Worker, HoldsTurn(w), NEW v \in User,
             sub'[v].token = wk[w].sub.token
      PROVE  sub'[v].recent
  BY <1>1, <1>3, <1>5 DEF Turned
<1>6. ASSUME NEW v \in User, NEW x \in Tokens, sub'[v].token = x,
             turns[x] # 0
      PROVE  sub'[v].recent
  BY <1>1, <1>6 DEF Turned, Fresh
<1>7. Turned'
  BY <1>4, <1>5, <1>6 DEF Turned
<1> QED BY <1>2, <1>7 DEF OneTurn

LEMMA TakesTurn ==
  ASSUME Types, TurnInv, NEW w \in Worker, Turn(w),
         HasTurn(sub[Author(Mail(w))])
  PROVE  Tokened' /\ Turned' /\ OneTurn' /\ NoReenrolment'
<1> USE DEF TurnInv
<1> DEFINE u == Author(Mail(w))
           row == sub[u]
<1>1. u \in User /\ Mail(w) \in Subject
  BY EmailAssumption
  DEF Turn, At, Types, HistoryType, Author, EmailAssumption
<1>2. row \in SubType /\ row # NoSub /\ ~row.recent
  BY <1>1 DEF HasTurn, Types, EmailTypeOK
<1>3. /\ sub' = [sub EXCEPT ![u] = [row EXCEPT !.recent = TRUE]]
      /\ wk' = [wk EXCEPT ![w] = [wk[w] EXCEPT !.at = "access", !.sub = row]]
      /\ turns' = turns /\ optout' = optout
  BY DEF Turn, history
<1> HIDE DEF u
<1>4. /\ \A v \in User : v # u => sub'[v] = sub[v]
      /\ sub'[u].token = row.token /\ sub'[u].recent
  <2>1. [row EXCEPT !.recent = TRUE].token = row.token
          /\ [row EXCEPT !.recent = TRUE].recent
    BY <1>2 DEF SubType
  <2> QED BY <1>1, <1>3, <2>1 DEF Types, EmailTypeOK
<1>5. /\ \A v \in Worker : v # w => wk'[v] = wk[v]
      /\ wk'[w].at = "access" /\ wk'[w].sub = row
  <2>1. [wk[w] EXCEPT !.at = "access", !.sub = row].at = "access"
          /\ [wk[w] EXCEPT !.at = "access", !.sub = row].sub = row
    BY DEF Types, EmailTypeOK, Invocation
  <2> QED BY <1>3, <2>1 DEF Types, EmailTypeOK
<1>6. row.token \in Tokens /\ turns[row.token] = 0
  BY <1>1, <1>2 DEF Tokened, Turned
<1>7. \A v \in User : sub'[v].token = sub[v].token
  BY <1>4
<1>8. \A v \in User : sub[v].token = row.token => v = u
  BY <1>1, <1>2 DEF Tokened
<1>9. \A v \in Worker : HoldsTurn(v) => wk[v].sub.token # row.token
  BY <1>1, <1>2 DEF Turned
<1>10. \A v \in Worker : v # w => (HoldsTurn(v)' <=> HoldsTurn(v))
  BY <1>5 DEF HoldsTurn
<1>11. \A v \in User : sub'[v] # NoSub => sub[v] # NoSub
  BY <1>2, <1>4
<1>12. Tokened'
  <2>1. \A v \in User : sub'[v] # NoSub => sub'[v].token \in Tokens
    BY <1>7, <1>11 DEF Tokened
  <2>2. \A v, x \in User : sub'[v].token = sub'[x].token /\ sub'[v] # NoSub
          => v = x
    BY <1>7, <1>11 DEF Tokened
  <2> QED BY <2>1, <2>2 DEF Tokened
<1>13. Turned'
  <2>1. \A v \in Worker : HoldsTurn(v)' =>
          wk'[v].sub.token \in Tokens /\ turns'[wk'[v].sub.token] = 0
    BY <1>3, <1>5, <1>6, <1>10 DEF Turned
  <2>2. \A v, x \in Worker :
          HoldsTurn(v)' /\ HoldsTurn(x)'
            /\ wk'[v].sub.token = wk'[x].sub.token => v = x
    BY <1>5, <1>9, <1>10 DEF Turned
  <2>3. \A v \in User : sub[v].recent => sub'[v].recent
    BY <1>4
  <2>4. \A v \in Worker, x \in User :
          HoldsTurn(v)' /\ sub'[x].token = wk'[v].sub.token => sub'[x].recent
    BY <1>4, <1>5, <1>7, <1>8, <1>10, <2>3 DEF Turned
  <2>5. \A v \in User, t \in Tokens :
          sub'[v].token = t /\ turns'[t] # 0 => sub'[v].recent
    BY <1>3, <1>7, <2>3 DEF Turned
  <2> QED BY <2>1, <2>2, <2>4, <2>5 DEF Turned
<1> QED
  BY <1>1, <1>2, <1>3, <1>4, <1>12, <1>13 DEF OneTurn, NoReenrolment

LEMMA HandsOver ==
  ASSUME Types, TurnInv, NEW w \in Worker, Send(w)
  PROVE  Tokened' /\ Turned' /\ OneTurn'
<1> USE DEF TurnInv
<1> DEFINE t == wk[w].sub.token
<1>1. HoldsTurn(w)
  BY DEF Send, At, HoldsTurn
<1>2. t \in Tokens /\ turns[t] = 0
  BY <1>1 DEF Turned
<1>3. /\ \A v \in Worker : v # w => wk'[v] = wk[v]
      /\ wk'[w].at \in {"sent", "uncertain"}
  BY Moved DEF Send, Types, Places
<1>4. sub' = sub
  BY DEF Send, tables
<1>5. turns'[t] = 1 /\ \A x \in Tokens : x # t => turns'[x] = turns[x]
  BY <1>2 DEF Send, Types, HistoryType
<1>6. ~HoldsTurn(w)'
  BY <1>3 DEF HoldsTurn
<1>7. \A v \in Worker : HoldsTurn(v)' =>
        HoldsTurn(v) /\ v # w /\ wk'[v].sub = wk[v].sub
  BY <1>3, <1>6 DEF HoldsTurn
<1>8. Turned'
  <2>1. ASSUME NEW v \in Worker, HoldsTurn(v)'
        PROVE  wk'[v].sub.token \in Tokens /\ turns'[wk'[v].sub.token] = 0
    <3>1. wk[v].sub.token # t /\ wk[v].sub.token \in Tokens
            /\ turns[wk[v].sub.token] = 0
      BY <1>1, <1>7, <2>1 DEF Turned
    <3> QED BY <1>5, <1>7, <2>1, <3>1
  <2>2. \A v, x \in Worker :
          HoldsTurn(v)' /\ HoldsTurn(x)'
            /\ wk'[v].sub.token = wk'[x].sub.token => v = x
    BY <1>7 DEF Turned
  <2>3. \A v \in Worker, x \in User :
          HoldsTurn(v)' /\ sub'[x].token = wk'[v].sub.token => sub'[x].recent
    BY <1>4, <1>7 DEF Turned
  <2>4. \A v \in User : sub[v].token = t => sub[v].recent
    BY <1>1 DEF Turned
  <2>5. \A v \in User, x \in Tokens :
          sub'[v].token = x /\ turns'[x] # 0 => sub'[v].recent
    BY <1>4, <1>5, <2>4 DEF Turned
  <2> QED BY <2>1, <2>2, <2>3, <2>5 DEF Turned
<1>9. OneTurn'
  BY <1>5 DEF OneTurn
<1> QED BY <1>4, <1>8, <1>9 DEF Tokened

LEMMA NewDay ==
  ASSUME Types, TurnInv, DayPasses
  PROVE  Tokened' /\ Turned' /\ OneTurn' /\ NoReenrolment'
<1> USE DEF TurnInv
<1>1. \A u \in User : sub'[u].token = sub[u].token
                        /\ (sub[u] = NoSub <=> sub'[u] = NoSub)
  <2>1. ASSUME NEW u \in User
        PROVE  /\ [sub[u] EXCEPT !.recent = FALSE].token = sub[u].token
               /\ sub[u] = NoSub => [sub[u] EXCEPT !.recent = FALSE] = NoSub
    <3>1. sub[u] \in SubType
      BY DEF Types, EmailTypeOK
    <3>2. [sub[u] EXCEPT !.recent = FALSE].token = sub[u].token
      BY <3>1 DEF SubType
    <3>3. ~sub[u].recent => [sub[u] EXCEPT !.recent = FALSE] = sub[u]
      BY <3>1 DEF SubType
    <3> QED BY <3>2, <3>3 DEF NoSub
  <2>2. ASSUME NEW u \in User, sub[u] # NoSub
        PROVE  [sub[u] EXCEPT !.recent = FALSE] # NoSub
    <3>1. sub[u].token \in Tokens
      BY <2>2 DEF Tokened
    <3>2. NoSub.token = 0 /\ 0 \notin Tokens
      BY TokensAreNumbers DEF NoSub
    <3> QED BY <2>1, <3>1, <3>2
  <2> QED BY <2>1, <2>2 DEF DayPasses
<1>2. \A w \in Worker : ~HoldsTurn(w)'
  BY DEF DayPasses, HoldsTurn, Idle
<1>3. \A t \in Tokens : turns'[t] = 0
  BY DEF DayPasses
<1>4. Tokened'
  BY <1>1 DEF Tokened
<1>5. Turned'
  BY <1>2, <1>3 DEF Turned
<1>6. OneTurn'
  BY <1>3 DEF OneTurn
<1>7. NoReenrolment'
  <2>1. optout' = optout /\ optout \subseteq User
    BY DEF DayPasses, Types, EmailTypeOK
  <2> QED BY <1>1, <2>1 DEF NoReenrolment
<1> QED BY <1>4, <1>5, <1>6, <1>7

\* Everything else keeps the turns it holds and the rows it does not drop.
LEMMA TurnStep ==
  ASSUME Types, TurnInv, [EmailNext]_emailVars
  PROVE  TurnInv'
<1> USE DEF TurnInv
<1>1. ASSUME UNCHANGED <<sub, turns, optout>>, KeepTurns
      PROVE  TurnInv'
  <2>1. KeepRows
    BY <1>1 DEF KeepRows
  <2> QED BY <1>1, <2>1, TurnsKept DEF NoReenrolment
<1>2. ASSUME UNCHANGED wk
      PROVE  KeepTurns
  BY <1>2 DEF KeepTurns, HoldsTurn
<1>3. ASSUME NEW w \in Worker, NEW a \in Places, To(w, a),
             a \in {"access", "profile", "active", "send"} => HoldsTurn(w)
      PROVE  KeepTurns
  <2>1. /\ \A v \in Worker : v # w => wk'[v] = wk[v]
        /\ wk'[w].at = a /\ wk'[w].sub = wk[w].sub
    BY <1>3, Moved DEF Types
  <2> QED BY <1>3, <2>1 DEF KeepTurns, HoldsTurn
<1>4. ASSUME NEW w \in Worker, Done(w)
      PROVE  KeepTurns
  <2>1. /\ \A v \in Worker : v # w => wk'[v] = wk[v]
        /\ wk'[w].at = "idle"
    BY <1>4, IsDone DEF Types
  <2> QED BY <2>1 DEF KeepTurns, HoldsTurn
<1>5. ASSUME NEW u \in User, Unsubscribe(u)
      PROVE  TurnInv'
  <2>1. sub' = [sub EXCEPT ![u] = NoSub] /\ optout' = optout \cup {u}
          /\ UNCHANGED <<wk, turns>>
    BY <1>5 DEF Unsubscribe, Choose, history
  <2>2. KeepRows
    BY <2>1 DEF KeepRows, Types, EmailTypeOK
  <2>3. NoReenrolment'
    BY <2>1 DEF NoReenrolment, Types, EmailTypeOK
  <2> QED BY <1>2, <2>1, <2>2, <2>3, TurnsKept
<1>6. ASSUME NEW u \in User, NEW a \in Address, Subscribe(u, a)
      PROVE  TurnInv'
  <2>1. PICK t \in Tokens :
          Fresh(t) /\ sub' = [sub EXCEPT ![u] = Upserted(u, t, a)]
    BY <1>6 DEF Subscribe
  <2>2. optout' = optout \ {u} /\ UNCHANGED <<wk, turns>>
    BY <1>6 DEF Subscribe, Choose, history
  <2>3. NoReenrolment'
    BY <2>1, <2>2 DEF NoReenrolment, Types, EmailTypeOK
  <2>4. CASE sub[u] = NoSub
    <3> DEFINE row == [token |-> t, source |-> "verified", email |-> a,
                       recent |-> FALSE]
    <3>1. row \in SubType /\ row.token = t
      BY DEF SubType
    <3>2. Upserted(u, t, a) = row
      BY <2>4 DEF Upserted
    <3> HIDE DEF row
    <3>3. sub' = [sub EXCEPT ![u] = row]
      BY <2>1, <3>2
    <3>4. Tokened' /\ Turned' /\ OneTurn'
      BY <2>1, <2>2, <2>4, <3>1, <3>3, NewRow
    <3> QED BY <2>3, <3>4
  <2>5. CASE sub[u] # NoSub
    <3> DEFINE row == [sub[u] EXCEPT !.source = "verified", !.email = a]
    <3>1. sub[u] \in SubType
      BY DEF Types, EmailTypeOK
    <3>2. row.token = sub[u].token /\ row.recent = sub[u].recent
      BY <3>1 DEF SubType
    <3>3. Upserted(u, t, a) = row
      BY <2>5 DEF Upserted
    <3> HIDE DEF row
    <3>4. KeepRows
      BY <2>1, <2>5, <3>2, <3>3 DEF KeepRows, Types, EmailTypeOK
    <3>5. Tokened' /\ Turned' /\ OneTurn'
      BY <1>2, <2>2, <3>4, TurnsKept
    <3> QED BY <2>3, <3>5
  <2> QED BY <2>4, <2>5
<1>7. ASSUME NEW u \in User, NEW a \in Address \cup {Null},
             ChangeProfile(u, a)
      PROVE  TurnInv'
  BY <1>1, <1>2, <1>7 DEF ChangeProfile, Choose, history
<1>8. ASSUME NEW s \in Subject, Lookup(s) \/ Enqueue(s) \/ Ages(s)
      PROVE  TurnInv'
  BY <1>1, <1>2, <1>8 DEF Lookup, Enqueue, Ages, OthersStay, history
<1>9. ASSUME NEW s \in Subject, Enrol(s)
      PROVE  TurnInv'
  <2> DEFINE u == Author(s)
  <2>1. u \in User
    BY EmailAssumption DEF Author, EmailAssumption
  <2>2. UNCHANGED <<optout, wk, turns>>
    BY <1>9 DEF Enrol, OthersStay, history
  <2>3. CASE MayEnrol(u)
    <3>1. PICK t \in Tokens :
            /\ Fresh(t)
            /\ sub' = [sub EXCEPT ![u] =
                 [token |-> t, source |-> "public", email |-> lookup[s].email,
                  recent |-> FALSE]]
      BY <1>9, <2>3 DEF Enrol
    <3> DEFINE row == [token |-> t, source |-> "public",
                       email |-> lookup[s].email, recent |-> FALSE]
    <3>2. lookup[s].email \in Address \cup {Null}
      BY DEF Types, EmailTypeOK, JobType
    <3>3. row \in SubType /\ row.token = t
      BY <3>2 DEF SubType
    <3> HIDE DEF row
    <3>4. sub' = [sub EXCEPT ![u] = row]
      BY <3>1 DEF row
    <3>5. sub[u] = NoSub /\ u \notin optout
      BY <2>3 DEF MayEnrol
    <3> HIDE DEF u
    <3>6. Tokened' /\ Turned' /\ OneTurn'
      BY <2>1, <2>2, <3>1, <3>3, <3>4, <3>5, NewRow
    <3>7. NoReenrolment'
      BY <2>1, <2>2, <3>4, <3>5 DEF NoReenrolment, Types, EmailTypeOK
    <3> QED BY <3>6, <3>7
  <2>4. CASE ~MayEnrol(u)
    BY <1>1, <1>2, <1>9, <2>2, <2>4 DEF Enrol
  <2> QED BY <2>3, <2>4
<1>10. CASE Midnight
  <2>1. ASSUME NEW v \in Worker
        PROVE  wk'[v].at = wk[v].at /\ wk'[v].sub = wk[v].sub
    <3>1. [wk[v] EXCEPT !.paid = FALSE].at = wk[v].at
            /\ [wk[v] EXCEPT !.paid = FALSE].sub = wk[v].sub
      BY DEF Types, EmailTypeOK, Invocation
    <3> QED BY <1>10, <3>1 DEF Midnight
  <2>2. KeepTurns
    BY <2>1 DEF KeepTurns, HoldsTurn
  <2> QED BY <1>1, <1>10, <2>2 DEF Midnight
<1>11. ASSUME NEW w \in Worker, Begin(w)
       PROVE  TurnInv'
  BY <1>1, <1>3, <1>11 DEF Begin, Places, CronStays, history
<1>12. ASSUME NEW w \in Worker, Die(w)
       PROVE  TurnInv'
  BY <1>1, <1>4, <1>12 DEF Die, tables, history
<1>13. ASSUME NEW w \in Worker, NEW s \in Subject, Claim(w, s)
       PROVE  TurnInv'
  <2>1. /\ \A v \in Worker : v # w => wk'[v] = wk[v]
        /\ wk'[w].at = "eligible"
    BY <1>13 DEF Claim, Types, EmailTypeOK, Idle
  <2>2. KeepTurns
    BY <2>1 DEF KeepTurns, HoldsTurn
  <2> QED BY <1>1, <1>13, <2>2 DEF Claim, history
<1>14. ASSUME NEW w \in Worker, Cancel(w)
       PROVE  KeepTurns
  BY <1>3, <1>14 DEF Cancel, Places
<1>15. ASSUME NEW w \in Worker, Leave(w) \/ Recheck(w) \/ Access(w)
                \/ Profile(w) \/ Active(w) \/ Record(w)
       PROVE  TurnInv'
  <2>1. KeepTurns
    BY <1>3, <1>4, <1>14, <1>15
    DEF Leave, Recheck, Access, Profile, Active, Record, At, HoldsTurn,
        Places
  <2> QED
    BY <1>1, <1>15, <2>1
    DEF Leave, Recheck, Access, Profile, Active, Record, tables, history
<1>16. ASSUME NEW w \in Worker, Pay(w)
       PROVE  TurnInv'
  <2>1. CASE CanPay(used)
    <3>1. [wk[w] EXCEPT !.at = "turn", !.paid = TRUE].at = "turn"
      BY DEF Types, EmailTypeOK, Invocation
    <3>2. /\ \A v \in Worker : v # w => wk'[v] = wk[v]
          /\ wk'[w].at = "turn"
      BY <1>16, <2>1, <3>1 DEF Pay, Types, EmailTypeOK
    <3>3. KeepTurns
      BY <3>2 DEF KeepTurns, HoldsTurn
    <3> QED BY <1>1, <1>16, <3>3 DEF Pay, history
  <2>2. CASE ~CanPay(used)
    BY <1>1, <1>4, <1>16, <2>2 DEF Pay, history
  <2> QED BY <2>1, <2>2
<1>17. ASSUME NEW w \in Worker, Turn(w)
       PROVE  TurnInv'
  <2>1. CASE HasTurn(sub[Author(Mail(w))])
    BY <1>17, <2>1, TakesTurn
  <2>2. CASE ~HasTurn(sub[Author(Mail(w))])
    BY <1>1, <1>14, <1>17, <2>2 DEF Turn, history
  <2> QED BY <2>1, <2>2
<1>18. ASSUME NEW w \in Worker, Forget(w)
       PROVE  TurnInv'
  <2>1. KeepTurns
    BY <1>3, <1>18 DEF Forget, Places
  <2>2. KeepRows
    BY <1>18 DEF Forget, KeepRows, Types, EmailTypeOK
  <2>3. optout' = optout /\ turns' = turns
    BY <1>18 DEF Forget, history
  <2>4. \A u \in User : sub[u] = NoSub => sub'[u] = NoSub
    BY <2>2 DEF KeepRows
  <2>5. NoReenrolment'
    BY <2>3, <2>4 DEF NoReenrolment, Types, EmailTypeOK
  <2> QED BY <2>1, <2>2, <2>3, <2>5, TurnsKept
<1>19. ASSUME NEW w \in Worker, Send(w)
       PROVE  TurnInv'
  BY <1>19, HandsOver DEF NoReenrolment, Send, CronStays, tables
<1>20. CASE DayPasses
  BY <1>20, NewDay
<1>21. CASE UNCHANGED emailVars
  BY <1>1, <1>2, <1>21 DEF emailVars, tables, history
<1> QED
  BY <1>5, <1>6, <1>7, <1>8, <1>9, <1>10, <1>11, <1>12, <1>13, <1>15, <1>16,
     <1>17, <1>18, <1>19, <1>20, <1>21 DEF EmailNext, Step

-----------------------------------------------------------------------------
(* The budget.                                                             *)

MaySend(w) ==
  wk[w].paid /\ wk[w].at \in {"turn", "access", "profile", "active", "send"}

LEMMA PaidIsFinite ==
  IsFiniteSet(Paid) /\ Cardinality(Paid) \in Nat
<1>1. IsFiniteSet(Paid)
  BY EmailAssumption, FS_Subset DEF Paid, EmailAssumption
<1> QED BY <1>1, FS_CardinalityType

LEMMA FewerPaid ==
  ASSUME Types, Budgeted, used' = used, today' = today,
         \A v \in Worker : MaySend(v)' => MaySend(v)
  PROVE  Budgeted'
<1>1. Paid' \subseteq Paid
  BY DEF Paid, MaySend
<1>2. Cardinality(Paid') <= Cardinality(Paid) /\ Cardinality(Paid') \in Nat
  BY <1>1, PaidIsFinite, FS_Subset, FS_CardinalityType
<1>3. today \in Nat /\ used \in Nat
  BY DEF Types, EmailTypeOK, HistoryType
<1>4. today + Cardinality(Paid') <= used
  BY <1>2, <1>3, PaidIsFinite DEF Budgeted
<1> QED BY <1>4 DEF Budgeted

LEMMA BudgetStep ==
  ASSUME Types, Budgeted, [EmailNext]_emailVars
  PROVE  Budgeted'
<1>1. ASSUME UNCHANGED <<used, today>>, NEW w \in Worker, NEW a \in Places,
             To(w, a),
             a \in {"turn", "access", "profile", "active", "send"} =>
               wk[w].at \in {"turn", "access", "profile", "active", "send"}
      PROVE  Budgeted'
  <2>1. /\ \A v \in Worker : v # w => wk'[v] = wk[v]
        /\ wk'[w].at = a /\ wk'[w].paid = wk[w].paid
    BY <1>1, Moved DEF Types
  <2>2. \A v \in Worker : MaySend(v)' => MaySend(v)
    BY <1>1, <2>1 DEF MaySend
  <2> QED BY <1>1, <2>2, FewerPaid
<1>2. ASSUME UNCHANGED <<used, today>>, NEW w \in Worker, Done(w)
      PROVE  Budgeted'
  <2>1. /\ \A v \in Worker : v # w => wk'[v] = wk[v]
        /\ wk'[w].at = "idle"
    BY <1>2, IsDone DEF Types
  <2>2. \A v \in Worker : MaySend(v)' => MaySend(v)
    BY <2>1 DEF MaySend
  <2> QED BY <1>2, <2>2, FewerPaid
<1>3. ASSUME UNCHANGED <<used, today, wk>>
      PROVE  Budgeted'
  <2>1. \A v \in Worker : MaySend(v)' => MaySend(v)
    BY <1>3 DEF MaySend
  <2> QED BY <1>3, <2>1, FewerPaid
<1>4. ASSUME NEW u \in User, Unsubscribe(u)
      PROVE  Budgeted'
  BY <1>3, <1>4 DEF Unsubscribe, Choose, history
<1>5. ASSUME NEW u \in User,
             \/ \E a \in Address : Subscribe(u, a)
             \/ \E a \in Address \cup {Null} : ChangeProfile(u, a)
      PROVE  Budgeted'
  BY <1>3, <1>5 DEF Subscribe, ChangeProfile, Choose, history
<1>6. ASSUME NEW s \in Subject, Lookup(s) \/ Enrol(s) \/ Enqueue(s) \/ Ages(s)
      PROVE  Budgeted'
  BY <1>3, <1>6 DEF Lookup, Enrol, Enqueue, Ages, OthersStay, history
<1>7. CASE Midnight
  <2>1. used' = 0 /\ today' = 0
    BY <1>7 DEF Midnight
  <2>2. ASSUME NEW v \in Worker
        PROVE  ~wk'[v].paid
    <3>1. [wk[v] EXCEPT !.paid = FALSE].paid = FALSE
      BY DEF Types, EmailTypeOK, Invocation
    <3> QED BY <1>7, <3>1 DEF Midnight
  <2>3. Paid' = {}
    BY <2>2 DEF Paid
  <2>4. Cardinality(Paid') = 0
    BY <2>3, FS_EmptySet
  <2> QED BY <2>1, <2>4, EmailAssumption DEF Budgeted, EmailAssumption
<1>8. CASE DayPasses
  BY <1>3, <1>8 DEF DayPasses
<1>9. ASSUME NEW w \in Worker, Begin(w)
      PROVE  Budgeted'
  BY <1>1, <1>9 DEF Begin, Places, history
<1>10. ASSUME NEW w \in Worker, Die(w)
       PROVE  Budgeted'
  BY <1>2, <1>10 DEF Die, tables, history
<1>11. ASSUME NEW w \in Worker, NEW s \in Subject, Claim(w, s)
       PROVE  Budgeted'
  <2>1. /\ \A v \in Worker : v # w => wk'[v] = wk[v]
        /\ wk'[w].at = "eligible"
    BY <1>11 DEF Claim, Types, EmailTypeOK, Idle
  <2>2. \A v \in Worker : MaySend(v)' => MaySend(v)
    BY <2>1 DEF MaySend
  <2> QED BY <1>11, <2>2, FewerPaid DEF Claim, history
<1>12. ASSUME NEW w \in Worker, Cancel(w), UNCHANGED <<used, today>>
       PROVE  Budgeted'
  BY <1>1, <1>12 DEF Cancel, Places
<1>13. ASSUME NEW w \in Worker, Leave(w) \/ Recheck(w) \/ Access(w)
                \/ Profile(w) \/ Forget(w) \/ Active(w) \/ Record(w)
       PROVE  Budgeted'
  <2>1. UNCHANGED <<used, today>>
    BY <1>13 DEF Leave, Recheck, Access, Profile, Forget, Active, Record,
                 tables, history
  <2> QED
    BY <1>1, <1>2, <1>12, <1>13, <2>1
    DEF Leave, Recheck, Access, Profile, Forget, Active, Record, At, Places
<1>14. ASSUME NEW w \in Worker, Turn(w)
       PROVE  Budgeted'
  <2> DEFINE row == sub[Author(Mail(w))]
  <2>1. UNCHANGED <<used, today>> /\ wk[w].at = "turn"
    BY <1>14 DEF Turn, At, history
  <2>2. CASE HasTurn(row)
    <3>1. wk' = [wk EXCEPT ![w] = [wk[w] EXCEPT !.at = "access", !.sub = row]]
      BY <1>14, <2>2 DEF Turn
    <3>2. [wk[w] EXCEPT !.at = "access", !.sub = row].paid = wk[w].paid
      BY DEF Types, EmailTypeOK, Invocation
    <3>3. /\ \A v \in Worker : v # w => wk'[v] = wk[v]
          /\ wk'[w].paid = wk[w].paid
      BY <3>1, <3>2 DEF Types, EmailTypeOK
    <3>4. \A v \in Worker : MaySend(v)' => MaySend(v)
      BY <2>1, <3>3 DEF MaySend
    <3> QED BY <2>1, <3>4, FewerPaid
  <2>3. CASE ~HasTurn(row)
    BY <1>12, <1>14, <2>1, <2>3 DEF Turn
  <2> QED BY <2>2, <2>3
<1>15. ASSUME NEW w \in Worker, Pay(w)
       PROVE  Budgeted'
  <2>1. wk[w].at = "budget" /\ today' = today
    BY <1>15 DEF Pay, At, history
  <2>2. CASE CanPay(used)
    <3>1. [wk[w] EXCEPT !.at = "turn", !.paid = TRUE].at = "turn"
            /\ [wk[w] EXCEPT !.at = "turn", !.paid = TRUE].paid
      BY DEF Types, EmailTypeOK, Invocation
    <3>2. /\ \A v \in Worker : v # w => wk'[v] = wk[v]
          /\ wk'[w].at = "turn" /\ wk'[w].paid
      BY <1>15, <2>2, <3>1 DEF Pay, Types, EmailTypeOK
    <3>3. w \notin Paid
      BY <2>1 DEF Paid
    <3>4. Paid' = Paid \cup {w}
      BY <3>2, <3>3 DEF Paid
    <3>5. Cardinality(Paid') = Cardinality(Paid) + 1
      BY <3>3, <3>4, PaidIsFinite, FS_AddElement
    <3>6. used' = used + 1 /\ used < Cap
      BY <1>15, <2>2 DEF Pay, CanPay
    <3>7. today \in Nat /\ used \in Nat /\ Cap \in Nat
      BY EmailAssumption DEF Types, EmailTypeOK, HistoryType, EmailAssumption
    <3>8. used' <= Cap
      BY <3>6, <3>7
    <3>9. today' + Cardinality(Paid') <= used'
      BY <2>1, <3>5, <3>6, <3>7, PaidIsFinite DEF Budgeted
    <3> QED BY <3>8, <3>9 DEF Budgeted
  <2>3. CASE ~CanPay(used)
    BY <1>2, <1>15, <2>1, <2>3 DEF Pay
  <2> QED BY <2>2, <2>3
<1>16. ASSUME NEW w \in Worker, Send(w)
       PROVE  Budgeted'
  <2>1. /\ wk[w].at = "send" /\ used' = used
        /\ today' = IF wk[w].paid THEN today + 1 ELSE today
    BY <1>16 DEF Send, At, tables
  <2>2. /\ \A v \in Worker : v # w => wk'[v] = wk[v]
        /\ wk'[w].at \in {"sent", "uncertain"}
    BY <1>16, Moved DEF Send, Types, Places
  <2>3. \A v \in Worker : MaySend(v)' => MaySend(v) /\ v # w
    BY <2>2 DEF MaySend
  <2>4. CASE wk[w].paid
    <3>1. w \in Paid
      BY <2>1, <2>4 DEF Paid
    <3>2. Paid' = Paid \ {w}
      BY <2>2 DEF Paid
    <3>3. Cardinality(Paid') = Cardinality(Paid) - 1
      BY <3>1, <3>2, PaidIsFinite, FS_RemoveElement
    <3>4. today \in Nat /\ used \in Nat
      BY DEF Types, EmailTypeOK, HistoryType
    <3>5. today' + Cardinality(Paid') <= used'
      BY <2>1, <2>4, <3>3, <3>4, PaidIsFinite DEF Budgeted
    <3> QED BY <2>1, <3>5 DEF Budgeted
  <2>5. CASE ~wk[w].paid
    BY <2>1, <2>3, <2>5, FewerPaid
  <2> QED BY <2>4, <2>5
<1>17. CASE UNCHANGED emailVars
  BY <1>3, <1>17 DEF emailVars, tables, history
<1> QED
  BY <1>4, <1>5, <1>6, <1>7, <1>8, <1>9, <1>10, <1>11, <1>13, <1>14, <1>15,
     <1>16, <1>17 DEF EmailNext, Step

-----------------------------------------------------------------------------
(* The theorems.                                                           *)

LEMMA EmailInvInit == EmailInit => EmailInv
<1> SUFFICES ASSUME EmailInit PROVE EmailInv
  OBVIOUS
<1> USE DEF EmailInit
<1>1. EmailTypeOK
  <2>1. deaths \in 0..MaxDeaths /\ choices \in 0..MaxChoices
    BY EmailAssumption DEF EmailAssumption
  <2> QED BY <2>1, Defaults DEF EmailTypeOK
<1>2. HistoryType
  BY DEF HistoryType, Idle
<1>3. Owned /\ NotYet /\ MailedOnce
  BY DEF Owned, NotYet, MailedOnce, Owns, Working, Idle
<1>4. NoReenrolment /\ Tokened
  BY DEF NoReenrolment, Tokened
<1>5. Turned /\ OneTurn
  BY DEF Turned, OneTurn, HoldsTurn, Idle
<1>6. Budgeted
  <2>1. Paid = {}
    BY DEF Paid, Idle
  <2>2. Cardinality(Paid) = 0
    BY <2>1, FS_EmptySet
  <2> QED BY <2>2, EmailAssumption DEF Budgeted, EmailAssumption
<1> QED BY <1>1, <1>2, <1>3, <1>4, <1>5, <1>6 DEF EmailInv

LEMMA InvStep ==
  ASSUME EmailInv, [EmailNext]_emailVars
  PROVE  EmailInv' /\ SettledIsFinal
<1>1. Types /\ Claims /\ TurnInv /\ Budgeted
  BY DEF EmailInv, Types, Claims, TurnInv
<1>2. Types'
  <2>1. CASE UNCHANGED emailVars
    BY <1>1, <2>1
    DEF Types, EmailTypeOK, HistoryType, emailVars, tables, history, Mail
  <2> QED BY <1>1, <2>1, AuthorTypes, CronTypes DEF EmailNext
<1>3. Claims' /\ SettledIsFinal
  BY <1>1, OwnerClaims, OtherClaims
<1>4. TurnInv' /\ Budgeted'
  BY <1>1, TurnStep, BudgetStep
<1> QED BY <1>2, <1>3, <1>4 DEF EmailInv, Types, Claims, TurnInv

\* The inductive invariant holds in every reachable state (sendAuthorEmails
\* beside every other writer of its tables).
THEOREM EmailInvariant == EmailSpec => []EmailInv
<1>1. EmailInv /\ [EmailNext]_emailVars => EmailInv'
  BY InvStep
<1> QED BY EmailInvInit, <1>1, PTL DEF EmailSpec

\* Only the last question before the hand-over lets a mail go out.
LEMMA SendsStep ==
  ASSUME EmailInv, [EmailNext]_emailVars
  PROVE  SendsForSubscriber
<1> DEFINE NoNewSend ==
          \A w \in Worker : wk'[w].at = "send" => wk[w].at = "send"
<1>1. EmailTypeOK
  BY DEF EmailInv
<1>2. ASSUME NEW v \in Worker, NEW a \in Places \ {"send"}, To(v, a)
      PROVE  NoNewSend
  BY <1>1, <1>2, Moved
<1>3. ASSUME NEW v \in Worker, Done(v)
      PROVE  NoNewSend
  BY <1>1, <1>3, IsDone
<1>4. ASSUME UNCHANGED wk
      PROVE  NoNewSend
  BY <1>4
<1>5. ASSUME NEW v \in Worker, Begin(v) \/ Die(v) \/ Leave(v) \/ Recheck(v)
               \/ Access(v) \/ Profile(v) \/ Forget(v) \/ Record(v)
      PROVE  NoNewSend
  BY <1>2, <1>3, <1>5
  DEF Begin, Die, Leave, Recheck, Cancel, Access, Profile, Forget, Record,
      Places
<1>6. ASSUME NEW v \in Worker, Send(v)
      PROVE  NoNewSend
  BY <1>2, <1>6 DEF Send, Places
<1>7. ASSUME NEW v \in Worker, NEW row \in Invocation, row.at # "send",
             wk' = [wk EXCEPT ![v] = row]
      PROVE  NoNewSend
  BY <1>1, <1>7 DEF EmailTypeOK
<1>8. ASSUME NEW v \in Worker, NEW s \in Subject, Claim(v, s)
      PROVE  NoNewSend
  <2>1. [Idle EXCEPT !.at = "eligible", !.mail = s] \in Invocation
          /\ [Idle EXCEPT !.at = "eligible", !.mail = s].at = "eligible"
    BY Defaults DEF Idle, Invocation, Places
  <2> QED BY <1>7, <1>8, <2>1 DEF Claim
<1>9. ASSUME NEW v \in Worker, Pay(v)
      PROVE  NoNewSend
  <2>1. [wk[v] EXCEPT !.at = "turn", !.paid = TRUE] \in Invocation
          /\ [wk[v] EXCEPT !.at = "turn", !.paid = TRUE].at = "turn"
    BY <1>1 DEF EmailTypeOK, Invocation, Places
  <2> QED BY <1>3, <1>7, <1>9, <2>1 DEF Pay
<1>10. ASSUME NEW v \in Worker, Turn(v)
       PROVE  NoNewSend
  <2> DEFINE row == [wk[v] EXCEPT !.at = "access", !.sub = sub[Author(Mail(v))]]
  <2>1. Author(Mail(v)) \in User
    BY <1>10, EmailAssumption
    DEF Turn, At, EmailInv, HistoryType, Author, EmailAssumption
  <2>2. row \in Invocation /\ row.at = "access"
    BY <1>1, <2>1 DEF EmailTypeOK, Invocation, Places
  <2> QED BY <1>2, <1>7, <1>10, <2>2 DEF Turn, Cancel, Places
<1>11. ASSUME NEW v \in Worker, Active(v)
       PROVE  SendsForSubscriber
  <2>1. CASE StillActive(Author(Mail(v)), wk[v].sub.token)
    <3>1. \A w \in Worker : w # v => wk'[w] = wk[w]
      BY <1>1, <1>11, <2>1, Moved DEF Active, Places
    <3>2. wk'[v].sub = wk[v].sub /\ sub' = sub
      BY <1>1, <1>11, <2>1, Moved DEF Active, Places
    <3> QED BY <2>1, <3>1, <3>2 DEF SendsForSubscriber, StillActive
  <2>2. CASE ~StillActive(Author(Mail(v)), wk[v].sub.token)
    BY <1>2, <1>11, <2>2 DEF Active, Cancel, Places, SendsForSubscriber
  <2> QED BY <2>1, <2>2
<1>12. ASSUME Midnight PROVE NoNewSend
  <2>1. ASSUME NEW w \in Worker
        PROVE  [wk[w] EXCEPT !.paid = FALSE].at = wk[w].at
    BY <1>1 DEF EmailTypeOK, Invocation
  <2> QED BY <1>12, <2>1 DEF Midnight
<1>13. ASSUME DayPasses PROVE NoNewSend
  BY <1>4, <1>13 DEF DayPasses
<1>14. ASSUME NEW u \in User,
              \/ Unsubscribe(u) \/ \E a \in Address : Subscribe(u, a)
              \/ \E a \in Address \cup {Null} : ChangeProfile(u, a)
       PROVE  NoNewSend
  BY <1>4, <1>14 DEF Unsubscribe, Subscribe, ChangeProfile, Choose
<1>15. ASSUME NEW s \in Subject,
              Lookup(s) \/ Enrol(s) \/ Enqueue(s) \/ Ages(s)
       PROVE  NoNewSend
  BY <1>4, <1>15 DEF Lookup, Enrol, Enqueue, Ages, OthersStay
<1>16. ASSUME UNCHANGED emailVars PROVE NoNewSend
  BY <1>4, <1>16 DEF emailVars
<1>17. NoNewSend => SendsForSubscriber
  BY DEF SendsForSubscriber
<1> QED
  BY <1>5, <1>6, <1>8, <1>9, <1>10, <1>11, <1>12, <1>13, <1>14, <1>15, <1>16,
     <1>17 DEF EmailNext, Step

\* Every variable keeps to its type (the CHECKs of the migrations).
THEOREM EmailTypeCorrect == EmailSpec => []EmailTypeOK
BY EmailInvariant, PTL DEF EmailInv

\* A mail is given to the provider at most once, whatever invocations
\* overlap, are lost or are taken for lost (sendAuthorEmails).
THEOREM MailedOnceHolds == EmailSpec => []MailedOnce
BY EmailInvariant, PTL DEF EmailInv

\* A subscription gets at most one mail in 24 hours, across invocations and
\* repositories (the turn taken from author_subscriptions).
THEOREM OneTurnHolds == EmailSpec => []OneTurn
BY EmailInvariant, PTL DEF EmailInv

\* No lookup under way and no later job enrols an author who opted out
\* (discoverPublicRecipient).
THEOREM NoReenrolmentHolds == EmailSpec => []NoReenrolment
BY EmailInvariant, PTL DEF EmailInv

\* The day's budget counts every mail that was paid for from it, and keeps
\* to the cap (email_daily_budget).
THEOREM BudgetCountsHolds == EmailSpec => []BudgetCounts
<1>1. EmailInv => BudgetCounts
  <2> SUFFICES ASSUME EmailInv PROVE BudgetCounts
    OBVIOUS
  <2>1. today \in Nat /\ used \in Nat
    BY DEF EmailInv, EmailTypeOK, HistoryType
  <2> QED BY <2>1, PaidIsFinite DEF EmailInv, Budgeted, BudgetCounts
<1> QED BY <1>1, EmailInvariant, PTL

\* A mail is handed over for the subscription its turn was taken from (the
\* last question of sendAuthorEmails before the provider).
THEOREM SendsForSubscriberHolds == EmailSpec => [][SendsForSubscriber]_emailVars
<1>1. EmailInv /\ [EmailNext]_emailVars => SendsForSubscriber
  BY SendsStep
<1> QED BY <1>1, EmailInvariant, PTL DEF EmailSpec

\* A mail that was sent or cancelled stays so, whatever a slow invocation
\* still writes (the unconditional updates of author_emails).
THEOREM SettledIsFinalHolds == EmailSpec => [][SettledIsFinal]_emailVars
<1>1. EmailInv /\ [EmailNext]_emailVars => SettledIsFinal
  BY InvStep
<1> QED BY <1>1, EmailInvariant, PTL DEF EmailSpec

\* All of them at once: the property that is model-checked.
THEOREM EmailSafeHolds == EmailSpec => EmailSafe
BY EmailTypeCorrect, MailedOnceHolds, OneTurnHolds, BudgetCountsHolds,
   NoReenrolmentHolds, SendsForSubscriberHolds, SettledIsFinalHolds, PTL
DEF EmailSafe

(***************************************************************************)
(* Proofs about ReviewJobs, for any repositories, deliveries, levels and   *)
(* times.  The inductive invariant ReviewInv says of each row that it is   *)
(* of the kind its identifier asks for and that the lease of a running one *)
(* fits its age, so that a job found in the dead letters again is past its *)
(* budget (Sane); of the execution, what GitHub shows at each place        *)
(* (ExecFits); and of a discovery, that a repository it should find has a  *)
(* job, or lies on its page or behind it (Listed).                         *)
(***************************************************************************)

\* The row of a job: fresh, purged, or of the kind its identifier asks for;
\* while it runs, what is left of its lease fits its age.
Sound(i, row, buried) ==
  /\ row.state = "none" => row = NoEntry
  /\ row.state = "purged" => row = Purged
  /\ row.state \notin {"none", "purged"} =>
       (row.kind = "discover" <=> i \in Discovery)
  /\ row.kind = "discover" => row.repo = Missing
  /\ row.state = "running" =>
       /\ row.age \in 0..Budget
       /\ row.age = Budget \/ row.age + row.lease >= Lease
  /\ row.why = "buried" => i \in buried
  /\ i \in buried => row.state \in {"running", "failed"}
Sane(table, buried) ==
  /\ table \in [Ids -> RowType]
  /\ \A i \in Ids : Sound(i, table[i], buried)

Reviewing == {"issue", "score", "apply", "strip", "comment", "mail"}
\* What has been done for the job under way.
ExecFits ==
  /\ exec.at = "idle" => exec = NoExec
  /\ exec # NoExec => exec.id \in Ids /\ Mine.state = "running"
  /\ exec.at \in {"discover", "put"} => Mine.kind = "discover"
  /\ exec.at \in {"token", "labels"} => Mine.kind # "discover"
  /\ exec.at \in Reviewing => Mine.kind = "label"
  /\ exec.at = "score" => Mine.score = Missing
  /\ exec.at \in {"apply", "strip", "comment", "mail"} => Mine.score \in Level
  /\ exec.at = "strip" => Mine.repo \in Repo /\ Mine.score \in tags[Mine.repo]
  /\ exec.at \in {"comment", "mail"} =>
       Mine.repo \in Repo /\ tags[Mine.repo] = {Mine.score}
  /\ exec.at = "mail" =>
       comment[Mine.repo] = Mine.score /\ posted[Mine.repo] = 1
  /\ exec.at # "idle" /\ exec.id \in dead => exec.at \in {"bury", "drop"}
  /\ exec.at = "drop" => exec.id \in dead

\* A repository the discovery d should find and has no job for yet lies on
\* the page it is at, or behind it; while the page is at hand, among what is
\* still to be admitted, or behind the page.
Listing(d) == exec.at = "put" /\ exec.id = d
Ahead(d, r) ==
  /\ jobs[d].state # "done"
  /\ (jobs[d].page - 1) * PageSize < Position(r)
  /\ Listing(d) => \/ r \in exec.todo
                   \/ exec.full /\ jobs[d].page * PageSize < Position(r)
Listed(d) ==
  d \notin shrunk =>
    /\ roster[d] \subseteq member
    /\ \A r \in roster[d] \ Archived :
         jobs[<<d, r>>].state # "none" \/ Ahead(d, r)

ExecTyped ==
  /\ exec \in [at : JobPlace, id : Ids \cup {Missing}, todo : SUBSET Repo,
               full : BOOLEAN]
WorldTyped ==
  /\ hooks \subseteq Opened \cup Discovery \cup {<<"suspended", Missing>>}
                       \cup {<<"removed", r>> : r \in Repo}
  /\ installed \in BOOLEAN /\ member \subseteq Repo /\ open \subseteq Repo
  /\ enabled \in BOOLEAN /\ faults \in 0..ReviewTrouble
WrittenTyped ==
  /\ ready \subseteq Repo /\ tags \in [Repo -> SUBSET Level]
  /\ comment \in [Repo -> Level \cup {Missing}] /\ posted \in [Repo -> Nat]
  /\ OneComment
ListTyped == roster \in [Discovery -> SUBSET Repo] /\ shrunk \subseteq Discovery

ReviewInv ==
  /\ Sane(jobs, dead)
  /\ queue \subseteq Ids /\ dead \subseteq Ids
  /\ ExecTyped /\ WorldTyped /\ WrittenTyped /\ ListTyped
  /\ ExecFits
  /\ \A d \in Discovery : Listed(d)

-----------------------------------------------------------------------------
(* Rows.                                                                   *)

LEMMA Times ==
  /\ Lease \in Nat \ {0} /\ Budget \in Nat \ {0} /\ ScoreWindow \in Nat \ {0}
  /\ PageSize \in Nat \ {0} /\ ScoreWindow < Budget /\ Budget < Lease
  /\ MaxAttempts \in Nat /\ ReviewTrouble \in Nat
BY TimeAssumption DEF TimeAssumption

\* A row keeps its type when its fields do.
LEMMA RowKept ==
  ASSUME NEW row \in RowType,
         NEW s \in State, NEW l \in 0..Lease,
         NEW a \in {Unstarted} \cup 0..Budget,
         NEW d \in Nat, NEW n \in 0..MaxAttempts,
         NEW v \in Level \cup {Missing},
         NEW p \in Nat \ {0}, NEW w \in {"-", "access", "buried"},
         NEW k \in Kind, NEW r \in Repo \cup {Missing}
  PROVE  /\ [row EXCEPT !.state = s, !.kind = k, !.repo = r] \in RowType
         /\ [row EXCEPT !.state = s, !.lease = l] \in RowType
         /\ [row EXCEPT !.state = s, !.lease = l, !.age = a] \in RowType
         /\ [row EXCEPT !.age = a, !.due = d, !.lease = l] \in RowType
         /\ [row EXCEPT !.state = s, !.lease = l, !.why = w] \in RowType
         /\ [row EXCEPT !.state = s, !.lease = l, !.due = d, !.attempts = n]
              \in RowType
         /\ [row EXCEPT !.state = s, !.lease = l, !.due = d, !.page = p]
              \in RowType
         /\ [row EXCEPT !.score = v] \in RowType
<1>1. /\ [row EXCEPT !.state = s, !.kind = k, !.repo = r] \in RowType
      /\ [row EXCEPT !.state = s, !.lease = l] \in RowType
      /\ [row EXCEPT !.score = v] \in RowType
  BY DEF RowType
<1>2. /\ [row EXCEPT !.state = s, !.lease = l, !.age = a] \in RowType
      /\ [row EXCEPT !.age = a, !.due = d, !.lease = l] \in RowType
      /\ [row EXCEPT !.state = s, !.lease = l, !.why = w] \in RowType
  BY DEF RowType
<1>3. /\ [row EXCEPT !.state = s, !.lease = l, !.due = d, !.attempts = n]
              \in RowType
      /\ [row EXCEPT !.state = s, !.lease = l, !.due = d, !.page = p]
              \in RowType
  BY DEF RowType
<1>. QED BY <1>1, <1>2, <1>3

LEMMA NoEntrySound ==
  ASSUME NEW i \in Ids, NEW buried, i \notin buried
  PROVE  /\ NoEntry \in RowType /\ Sound(i, NoEntry, buried)
         /\ Purged \in RowType /\ Sound(i, Purged, buried)
<1>1. NoEntry \in RowType /\ Purged \in RowType
  BY Times DEF NoEntry, Purged, RowType, State, Kind, Unstarted
<1>. QED BY <1>1 DEF Sound, NoEntry, Purged

\* What a webhook, and anyone but the execution, does to a row.
Changed(row, new) ==
  \/ new = row
  \/ /\ row.state = "none" /\ new.state = "pending"
     /\ new.score = Missing /\ new.page = 1
  \/ row.state = "pending"
       /\ new = [row EXCEPT !.state = "cancelled", !.lease = 0]
Quietly(row, new) ==
  \/ Changed(row, new)
  \/ row.state \in {"pending", "done", "cancelled"} /\ new = Purged
  \/ row.state \in {"pending", "running"} /\ new = Older(row)

LEMMA AdmittedSane ==
  ASSUME NEW buried, Sane(jobs, buried), NEW i \in Ids, NEW k \in Kind,
         NEW r \in Repo \cup {Missing},
         k = "discover" <=> i \in Discovery, k = "discover" => r = Missing
  PROVE  /\ Sane(Admitted(jobs, i, k, r), buried)
         /\ \A j \in Ids : Changed(jobs[j], Admitted(jobs, i, k, r)[j])
         /\ Admitted(jobs, i, k, r)[i].state # "none"
         /\ \A j \in Ids \ {i} : Admitted(jobs, i, k, r)[j] = jobs[j]
<1>1. CASE jobs[i].state # "none"
  BY <1>1 DEF Admitted, Changed
<1>2. CASE jobs[i].state = "none"
  <2> DEFINE new == [NoEntry EXCEPT !.state = "pending", !.kind = k, !.repo = r]
  <2>1. Admitted(jobs, i, k, r) = [jobs EXCEPT ![i] = new]
    BY <1>2 DEF Admitted
  <2>2. /\ new.state = "pending" /\ new.kind = k /\ new.repo = r
        /\ new.score = Missing /\ new.page = 1 /\ new.why = "-"
    BY DEF NoEntry
  <2>3. new \in RowType
    <3>1. NoEntry \in RowType /\ "pending" \in State
      BY Times DEF NoEntry, RowType, State, Kind, Unstarted
    <3>. QED BY <3>1 DEF RowType
  <2>4. i \notin buried
    BY <1>2 DEF Sane, Sound
  <2>5. Sound(i, new, buried)
    BY <2>2, <2>4 DEF Sound
  <2> HIDE DEF new
  <2>6. Sane([jobs EXCEPT ![i] = new], buried)
    BY <2>3, <2>5 DEF Sane
  <2>7. \A j \in Ids : Changed(jobs[j], [jobs EXCEPT ![i] = new][j])
    BY <1>2, <2>2 DEF Changed, Sane
  <2>8. /\ [jobs EXCEPT ![i] = new][i].state # "none"
        /\ \A j \in Ids \ {i} : [jobs EXCEPT ![i] = new][j] = jobs[j]
    BY <2>2 DEF Sane
  <2>. QED BY <2>1, <2>6, <2>7, <2>8
<1>. QED BY <1>1, <1>2

LEMMA CancelledSane ==
  ASSUME NEW buried, Sane(jobs, buried), NEW S
  PROVE  /\ Sane(CancelledIn(jobs, S), buried)
         /\ \A j \in Ids : Changed(jobs[j], CancelledIn(jobs, S)[j])
<1> DEFINE new(i) == [jobs[i] EXCEPT !.state = "cancelled", !.lease = 0]
<1>1. \A i \in Ids : jobs[i] \in RowType /\ Sound(i, jobs[i], buried)
  BY DEF Sane
<1>2. ASSUME NEW i \in Ids, jobs[i].state = "pending"
      PROVE  new(i) \in RowType /\ Sound(i, new(i), buried)
  <2>1. new(i) \in RowType
    <3>1. jobs[i] \in RowType /\ "cancelled" \in State /\ 0 \in 0..Lease
      BY <1>1, Times DEF State, Terminal
    <3>. QED BY <3>1, RowKept DEF RowType
  <2>2. /\ new(i).state = "cancelled" /\ new(i).kind = jobs[i].kind
        /\ new(i).repo = jobs[i].repo /\ new(i).why = jobs[i].why
    BY <1>1 DEF RowType
  <2>3. i \notin buried
    BY <1>1, <1>2 DEF Sound
  <2> HIDE DEF new
  <2>. QED BY <1>1, <1>2, <2>1, <2>2, <2>3 DEF Sound
<1>3. CancelledIn(jobs, S) =
        [i \in Ids |-> IF i \in S /\ jobs[i].state = "pending"
                       THEN new(i) ELSE jobs[i]]
  BY DEF CancelledIn
<1>4. \A i \in Ids : jobs[i].state = "pending" => Changed(jobs[i], new(i))
  BY DEF Changed
<1> HIDE DEF new
<1>5. \A j \in Ids : Changed(jobs[j], CancelledIn(jobs, S)[j])
  <2>1. \A j \in Ids : Changed(jobs[j], jobs[j])
    BY DEF Changed
  <2>. QED BY <1>3, <1>4, <2>1
<1>6. Sane(CancelledIn(jobs, S), buried)
  BY <1>1, <1>2, <1>3 DEF Sane
<1>. QED BY <1>5, <1>6

\* A dispatch purges rows that have ended and keeps the others.
LEMMA DispatchedSane ==
  ASSUME NEW table, Sane(table, dead), Dispatched(table),
         \A j \in Ids : Changed(jobs[j], table[j]), queue \subseteq Ids
  PROVE  /\ Sane(jobs', dead) /\ queue' \subseteq Ids
         /\ \A j \in Ids : Quietly(jobs[j], jobs'[j])
         /\ \A j \in Ids : table[j].state # "none" => jobs'[j].state # "none"
<1>1. CASE jobs' = table /\ UNCHANGED queue
  BY <1>1 DEF Quietly
<1>2. ASSUME queue' = queue \cup DueIn(table),
             NEW old \in SUBSET Purgeable(table),
             jobs' = [i \in Ids |-> IF i \in old THEN Purged ELSE table[i]]
      PROVE  /\ Sane(jobs', dead) /\ queue' \subseteq Ids
             /\ \A j \in Ids : Quietly(jobs[j], jobs'[j])
             /\ \A j \in Ids :
                  table[j].state # "none" => jobs'[j].state # "none"
  <2>1. queue' \subseteq Ids
    BY <1>2 DEF DueIn
  <2>2. ASSUME NEW j \in Ids
        PROVE  /\ jobs'[j] \in RowType /\ Sound(j, jobs'[j], dead)
               /\ Quietly(jobs[j], jobs'[j])
               /\ table[j].state # "none" => jobs'[j].state # "none"
    <3>1. CASE j \in old
      <4>1. jobs'[j] = Purged /\ table[j].state \in {"done", "cancelled"}
        BY <1>2, <3>1 DEF Purgeable
      <4>2. j \notin dead
        BY <4>1 DEF Sane, Sound
      <4>3. jobs[j].state \in {"pending", "done", "cancelled"}
        BY <4>1 DEF Changed
      <4>4. Purged.state = "purged"
        BY DEF Purged, NoEntry
      <4>. QED BY <4>1, <4>2, <4>3, <4>4, NoEntrySound DEF Quietly
    <3>2. CASE j \notin old
      BY <1>2, <3>2 DEF Sane, Quietly
    <3>. QED BY <3>1, <3>2
  <2>3. jobs' = [j \in Ids |-> jobs'[j]]
    BY <1>2
  <2>4. jobs' \in [Ids -> RowType]
    BY <2>2, <2>3
  <2>. QED BY <2>1, <2>2, <2>4 DEF Sane
<1>. QED BY <1>1, <1>2 DEF Dispatched

LEMMA OlderSane ==
  ASSUME NEW i \in Ids, NEW row \in RowType, Sound(i, row, dead),
         row.state \in {"pending", "running"}
  PROVE  Older(row) \in RowType /\ Sound(i, Older(row), dead)
<1> DEFINE a == IF row.age \in {Unstarted, Budget} THEN row.age ELSE row.age + 1
           d == Less(row.due)
           l == Less(row.lease)
<1>1. /\ row.age \in {Unstarted} \cup 0..Budget /\ row.due \in Nat
      /\ row.lease \in 0..Lease
  BY DEF RowType
<1>2. /\ a \in {Unstarted} \cup 0..Budget
      /\ row.state = "running" => a \in 0..Budget
  BY <1>1, Times DEF Unstarted, Sound
<1>3. d \in Nat /\ l \in 0..Lease
  BY <1>1, Times DEF Less
<1>4. ASSUME row.state = "running"
      PROVE  a = Budget \/ a + l >= Lease
  <2>1. /\ row.age \in 0..Budget
        /\ row.age = Budget \/ row.age + row.lease >= Lease
    BY <1>4 DEF Sound
  <2>. QED BY <2>1, <1>1, Times DEF Less, Unstarted
<1>5. Older(row) = [row EXCEPT !.age = a, !.due = d, !.lease = l]
  BY <1>1 DEF Older, RowType
<1> DEFINE new == [row EXCEPT !.age = a, !.due = d, !.lease = l]
<1>6. /\ new.state = row.state /\ new.kind = row.kind /\ new.repo = row.repo
      /\ new.why = row.why /\ new.age = a /\ new.lease = l
  BY DEF RowType
<1>7. new \in RowType
  BY <1>2, <1>3 DEF RowType
<1> HIDE DEF a, d, l, new
<1>8. Sound(i, new, dead)
  BY <1>2, <1>4, <1>6 DEF Sound
<1>9. Older(row) = new
  BY <1>5 DEF new
<1>. QED BY <1>7, <1>8, <1>9

-----------------------------------------------------------------------------
(* What anyone but the execution does.                                     *)

Elsewhere == UNCHANGED <<dead, exec, github, written, discoveries>>

LEMMA HooksTell ==
  ASSUME ReviewInv, Hook
  PROVE  /\ Sane(jobs', dead) /\ queue' \subseteq Ids
         /\ \A j \in Ids : Quietly(jobs[j], jobs'[j])
         /\ UNCHANGED <<hooks, enabled, faults>> /\ Elsewhere
<1>1. ASSUME NEW o \in Opened, HookOpened(o)
      PROVE  \E table : /\ Answered(table) /\ Sane(table, dead)
                        /\ \A j \in Ids : Changed(jobs[j], table[j])
  <2>1. o \in Ids /\ o \notin Discovery /\ RepoOf[o] \in Repo
    BY SetAssumption DEF SetAssumption, Ids
  <2>. QED BY <1>1, <2>1, AdmittedSane DEF HookOpened, ReviewInv, Kind
<1>2. ASSUME NEW d \in Discovery, HookDiscovery(d)
      PROVE  \E table : /\ Answered(table) /\ Sane(table, dead)
                        /\ \A j \in Ids : Changed(jobs[j], table[j])
  <2>1. d \in Ids
    BY DEF Ids
  <2>. QED BY <1>2, <2>1, AdmittedSane DEF HookDiscovery, ReviewInv, Kind
<1>3. ASSUME HookSuspended \/ \E r \in Repo : HookRemoved(r)
      PROVE  \E table : /\ Answered(table) /\ Sane(table, dead)
                        /\ \A j \in Ids : Changed(jobs[j], table[j])
  BY <1>3, CancelledSane DEF HookSuspended, HookRemoved, ReviewInv
<1>4. PICK table : /\ Answered(table) /\ Sane(table, dead)
                   /\ \A j \in Ids : Changed(jobs[j], table[j])
  BY <1>1, <1>2, <1>3 DEF Hook
<1>. QED
  BY <1>4, DispatchedSane DEF Answered, ReviewInv, Elsewhere, github, written,
    discoveries

LEMMA OthersTell ==
  ASSUME ReviewInv, Cron \/ \E x \in Retry : \E i \in Ids : RetryFailed(x, i)
  PROVE  /\ Sane(jobs', dead) /\ queue' \subseteq Ids
         /\ \A j \in Ids : Quietly(jobs[j], jobs'[j])
         /\ UNCHANGED <<hooks, enabled, faults>> /\ Elsewhere
<1>1. ASSUME Cron
      PROVE  \E table : /\ Dispatched(table) /\ Sane(table, dead)
                        /\ \A j \in Ids : Changed(jobs[j], table[j])
  BY <1>1 DEF Cron, ReviewInv, Changed
<1>2. ASSUME NEW x \in Retry, NEW i \in Ids, RetryFailed(x, i)
      PROVE  \E table : /\ Dispatched(table) /\ Sane(table, dead)
                        /\ \A j \in Ids : Changed(jobs[j], table[j])
  <2>1. x \in Ids /\ x \notin Discovery
    BY SetAssumption DEF SetAssumption, Ids
  <2>2. /\ jobs[i] \in RowType /\ Sound(i, jobs[i], dead)
        /\ jobs[i].repo \in Repo
    BY <1>2 DEF RetryFailed, ReviewInv, Sane, WorldTyped
  <2>3. jobs[i].kind \in Kind /\ jobs[i].kind # "discover"
    <3>1. Missing \notin Repo
      BY SetAssumption DEF SetAssumption
    <3>. QED BY <2>2, <3>1 DEF Sound, RowType
  <2>. QED
    BY <1>2, <2>1, <2>2, <2>3, AdmittedSane DEF RetryFailed, ReviewInv, Answered
<1>3. PICK table : /\ Dispatched(table) /\ Sane(table, dead)
                   /\ \A j \in Ids : Changed(jobs[j], table[j])
  BY <1>1, <1>2
<1>. QED
  BY <1>3, DispatchedSane DEF Cron, RetryFailed, Answered, ReviewInv, Elsewhere,
    github, written, discoveries

LEMMA TimePasses ==
  ASSUME ReviewInv, Tick
  PROVE  /\ Sane(jobs', dead) /\ queue' \subseteq Ids
         /\ \A j \in Ids : Quietly(jobs[j], jobs'[j])
         /\ UNCHANGED <<hooks, enabled, faults>> /\ Elsewhere
<1>1. jobs' = [i \in Ids |-> IF jobs[i].state \in {"pending", "running"}
                             THEN Older(jobs[i]) ELSE jobs[i]]
  BY DEF Tick
<1>2. ASSUME NEW i \in Ids
      PROVE  /\ jobs'[i] \in RowType /\ Sound(i, jobs'[i], dead)
             /\ Quietly(jobs[i], jobs'[i])
  <2>1. jobs[i] \in RowType /\ Sound(i, jobs[i], dead)
    BY DEF ReviewInv, Sane
  <2>2. CASE jobs[i].state \in {"pending", "running"}
    BY <1>1, <2>1, <2>2, OlderSane DEF Quietly
  <2>3. CASE jobs[i].state \notin {"pending", "running"}
    BY <1>1, <2>1, <2>3 DEF Quietly, Changed
  <2>. QED BY <2>2, <2>3
<1>3. jobs' \in [Ids -> RowType]
  BY <1>1, <1>2
<1>. QED
  BY <1>2, <1>3 DEF Tick, ReviewInv, Sane, Elsewhere, github, written,
    discoveries

-----------------------------------------------------------------------------
(* InPlace in the list.                                                     *)

LEMMA PlacesIn ==
  ASSUME NEW S \in SUBSET Repo, NEW r \in S
  PROVE  /\ Cardinality({q \in S : Rank[q] <= Rank[r]}) \in Nat
         /\ Cardinality({q \in S : Rank[q] <= Rank[r]}) >= 1
         /\ Cardinality({q \in S : Rank[q] <= Rank[r]}) <= Cardinality(S)
         /\ Cardinality(S) \in Nat
<1> DEFINE before == {q \in S : Rank[q] <= Rank[r]}
<1>1. IsFiniteSet(S)
  <2>1. IsFiniteSet(Repo)
    BY SetAssumption DEF SetAssumption
  <2>. QED BY <2>1, FS_Subset
<1>2. before \subseteq S /\ r \in before
  BY SetAssumption DEF SetAssumption
<1>3. IsFiniteSet(before)
  BY <1>1, <1>2, FS_Subset
<1>4. Cardinality(before) \in Nat /\ Cardinality(S) \in Nat
  BY <1>1, <1>3, FS_CardinalityType
<1>5. Cardinality(before) <= Cardinality(S)
  BY <1>1, <1>2, FS_Subset
<1>6. Cardinality(before) # 0
  BY <1>2, <1>3, FS_EmptySet
<1> HIDE DEF before
<1>7. {q \in S : Rank[q] <= Rank[r]} = before
  BY DEF before
<1>. QED BY <1>4, <1>5, <1>6, <1>7

LEMMA InPlace ==
  ASSUME member \subseteq Repo, NEW r \in member
  PROVE  /\ Position(r) \in Nat /\ Position(r) >= 1
         /\ Position(r) <= Cardinality(member)
         /\ Cardinality(member) \in Nat
BY PlacesIn DEF Position

\* More repositories move none towards the front.
LEMMA PlacesGrow ==
  ASSUME member \subseteq Repo, member' \subseteq Repo,
         member \subseteq member',
         NEW r \in member
  PROVE  Position(r) <= Position(r)'
<1> DEFINE before == {q \in member : Rank[q] <= Rank[r]}
           after == {q \in member' : Rank[q] <= Rank[r]}
<1>1. IsFiniteSet(after)
  <2>1. IsFiniteSet(Repo)
    BY SetAssumption DEF SetAssumption
  <2>. QED BY <2>1, FS_Subset
<1>2. before \subseteq after
  OBVIOUS
<1>3. Cardinality(before) <= Cardinality(after)
  BY <1>1, <1>2, FS_Subset
<1>. QED BY <1>3 DEF Position

LEMMA FirstPage == \A n \in Nat : n >= 1 => (1 - 1) * PageSize < n
<1>1. (1 - 1) * PageSize = 0
  BY Times
<1>. QED BY <1>1

LEMMA ListedKept ==
  ASSUME ReviewInv,
         \A j \in Ids : jobs[j].state # "none" => jobs'[j].state # "none",
         member' = member, roster' = roster, shrunk' = shrunk,
         \A d \in Discovery :
           /\ \/ jobs'[d].page = jobs[d].page
              \/ jobs'[d].page = 1 /\ ~(exec'.at = "put" /\ exec'.id = d)
           /\ jobs'[d].state = "done" => jobs[d].state = "done",
         exec'.at = "put" => exec' = exec
  PROVE  \A d \in Discovery : Listed(d)'
<1> SUFFICES ASSUME NEW d \in Discovery PROVE Listed(d)'
  OBVIOUS
<1>0. /\ jobs'[d].page = jobs[d].page \/ (jobs'[d].page = 1 /\ ~Listing(d)')
      /\ jobs'[d].state = "done" => jobs[d].state = "done"
      /\ Listing(d)' => Listing(d) /\ exec'.todo = exec.todo
                          /\ exec'.full = exec.full
  <2>1. Listing(d)' <=> exec'.at = "put" /\ exec'.id = d
    BY DEF Listing
  <2>2. Listing(d) <=> exec.at = "put" /\ exec.id = d
    BY DEF Listing
  <2>3. Listing(d)' => exec' = exec
    BY <2>1
  <2>4. Listing(d)' => Listing(d)
    BY <2>1, <2>2, <2>3
  <2>8. \/ jobs'[d].page = jobs[d].page
        \/ jobs'[d].page = 1 /\ ~(exec'.at = "put" /\ exec'.id = d)
    OBVIOUS
  <2>5. jobs'[d].page = jobs[d].page \/ (jobs'[d].page = 1 /\ ~Listing(d)')
    BY <2>1, <2>8
  <2>6. jobs'[d].state = "done" => jobs[d].state = "done"
    OBVIOUS
  <2>7. Listing(d)' => exec'.todo = exec.todo /\ exec'.full = exec.full
    BY <2>3
  <2>. QED BY <2>4, <2>5, <2>6, <2>7
<1>1. SUFFICES ASSUME d \notin shrunk
      PROVE  /\ roster[d] \subseteq member
             /\ \A r \in roster[d] \ Archived :
                  jobs'[<<d, r>>].state # "none" \/ Ahead(d, r)'
  BY DEF Listed
<1>2. Listed(d) /\ roster[d] \subseteq member /\ roster[d] \subseteq Repo
  BY <1>1 DEF ReviewInv, Listed, ListTyped
<1>3. ASSUME NEW r \in roster[d] \ Archived
      PROVE  jobs'[<<d, r>>].state # "none" \/ Ahead(d, r)'
  <2>1. <<d, r>> \in Ids /\ r \in member
    BY <1>2 DEF Ids
  <2>2. jobs[<<d, r>>].state # "none" \/ Ahead(d, r)
    BY <1>1, <1>2 DEF Listed
  <2>3. CASE jobs[<<d, r>>].state # "none"
    BY <2>1, <2>3
  <2>4. CASE Ahead(d, r)
    <3>1. Position(r)' = Position(r)
      BY DEF Position
    <3>2. Position(r) \in Nat /\ Position(r) >= 1
      BY <2>1, InPlace DEF ReviewInv, WorldTyped
    <3>3. (jobs'[d].page - 1) * PageSize < Position(r)
      BY <1>0, <2>4, <3>2, FirstPage DEF Ahead
    <3>4. Listing(d)' => \/ r \in exec'.todo
                         \/ exec'.full /\ jobs'[d].page * PageSize < Position(r)
      BY <1>0, <2>4 DEF Ahead
    <3>5. jobs'[d].state # "done"
      BY <1>0, <2>4 DEF Ahead
    <3>. QED BY <3>1, <3>3, <3>4, <3>5 DEF Ahead
  <2>. QED BY <2>2, <2>3, <2>4
<1>. QED BY <1>2, <1>3

-----------------------------------------------------------------------------
(* What a step may do to a row that others look at.                        *)

Stays == ScoreIsKept /\ TerminalIsFinal /\ FinishedIsVisible

LEMMA QuietRow ==
  ASSUME NEW i \in Ids, NEW row \in RowType, NEW new \in RowType,
         Sound(i, row, dead), Sound(i, new, dead), Quietly(row, new)
  PROVE  /\ row.state = "running" =>
              /\ new.state = "running" /\ new.kind = row.kind
              /\ new.repo = row.repo /\ new.score = row.score
         /\ new.page = row.page \/ (new.page = 1 /\ row.state # "running")
         /\ new.state = "done" => row.state = "done"
         /\ row.state # "none" => new.state # "none"
         /\ row.score # Missing /\ new.state # "purged" => new.score = row.score
         /\ row.state \in Terminal =>
              \/ new.state = row.state
              \/ new.state = "purged" /\ row.state # "failed"
<1>1. CASE new = row
  BY <1>1
<1>2. CASE /\ row.state = "none" /\ new.state = "pending"
           /\ new.score = Missing /\ new.page = 1
  <2>1. row = NoEntry
    BY <1>2 DEF Sound
  <2>. QED BY <1>2, <2>1 DEF NoEntry, Terminal
<1>3. CASE /\ row.state = "pending"
           /\ new = [row EXCEPT !.state = "cancelled", !.lease = 0]
  <2>1. /\ new.state = "cancelled" /\ new.page = row.page
        /\ new.score = row.score
    BY <1>3 DEF RowType
  <2>. QED BY <1>3, <2>1 DEF Terminal
<1>4. CASE row.state \in {"pending", "done", "cancelled"} /\ new = Purged
  <2>1. new.state = "purged" /\ new.page = 1
    BY <1>4 DEF Purged, NoEntry
  <2>. QED BY <1>4, <2>1 DEF Terminal
<1>5. CASE row.state \in {"pending", "running"} /\ new = Older(row)
  <2>1. /\ new.state = row.state /\ new.kind = row.kind /\ new.repo = row.repo
        /\ new.score = row.score /\ new.page = row.page
    BY <1>5 DEF Older, RowType
  <2>. QED BY <1>5, <2>1 DEF Terminal
<1>. QED BY <1>1, <1>2, <1>3, <1>4, <1>5 DEF Quietly, Changed

LEMMA QuietRows ==
  ASSUME Sane(jobs, dead), Sane(jobs', dead),
         \A j \in Ids : Quietly(jobs[j], jobs'[j])
  PROVE  \A j \in Ids :
           /\ jobs[j].state = "running" =>
                /\ jobs'[j].state = "running" /\ jobs'[j].kind = jobs[j].kind
                /\ jobs'[j].repo = jobs[j].repo
                /\ jobs'[j].score = jobs[j].score
           /\ \/ jobs'[j].page = jobs[j].page
              \/ jobs'[j].page = 1 /\ jobs[j].state # "running"
           /\ jobs'[j].state = "done" => jobs[j].state = "done"
           /\ jobs[j].state # "none" => jobs'[j].state # "none"
           /\ jobs[j].score # Missing /\ jobs'[j].state # "purged"
                => jobs'[j].score = jobs[j].score
           /\ jobs[j].state \in Terminal =>
                \/ jobs'[j].state = jobs[j].state
                \/ jobs'[j].state = "purged" /\ jobs[j].state # "failed"
BY QuietRow DEF Sane

LEMMA QuietKeeps ==
  ASSUME ReviewInv, Sane(jobs', dead), queue' \subseteq Ids, Elsewhere,
         \A j \in Ids : Quietly(jobs[j], jobs'[j]),
         UNCHANGED <<hooks, enabled, faults>>
  PROVE  ReviewInv' /\ Stays /\ ScoreNeverFatal
<1>1. /\ dead' = dead /\ exec' = exec
      /\ installed' = installed /\ member' = member /\ open' = open
      /\ ready' = ready /\ tags' = tags /\ comment' = comment
      /\ posted' = posted
      /\ roster' = roster /\ shrunk' = shrunk
  BY DEF Elsewhere, github, written, discoveries
<1>2. \A j \in Ids :
           /\ jobs[j].state = "running" =>
                /\ jobs'[j].state = "running" /\ jobs'[j].kind = jobs[j].kind
                /\ jobs'[j].repo = jobs[j].repo
                /\ jobs'[j].score = jobs[j].score
           /\ \/ jobs'[j].page = jobs[j].page
              \/ jobs'[j].page = 1 /\ jobs[j].state # "running"
           /\ jobs'[j].state = "done" => jobs[j].state = "done"
           /\ jobs[j].state # "none" => jobs'[j].state # "none"
  BY QuietRows DEF ReviewInv
<1>3. ExecFits'
  <2>1. exec # NoExec =>
          /\ exec.id \in Ids /\ Mine.state = "running"
          /\ Mine'.state = Mine.state /\ Mine'.kind = Mine.kind
          /\ Mine'.repo = Mine.repo /\ Mine'.score = Mine.score
    BY <1>1, <1>2 DEF Mine, ReviewInv, ExecFits
  <2>2. CASE exec = NoExec
    BY <1>1, <2>2 DEF ExecFits, NoExec, Reviewing
  <2>3. CASE exec # NoExec
    BY <1>1, <2>1, <2>3 DEF ExecFits, ReviewInv
  <2>. QED BY <2>2, <2>3
<1>4. \A d \in Discovery :
        /\ \/ jobs'[d].page = jobs[d].page
           \/ jobs'[d].page = 1 /\ ~(exec'.at = "put" /\ exec'.id = d)
        /\ jobs'[d].state = "done" => jobs[d].state = "done"
  <2> SUFFICES ASSUME NEW d \in Discovery
      PROVE  /\ \/ jobs'[d].page = jobs[d].page
                \/ jobs'[d].page = 1 /\ ~(exec'.at = "put" /\ exec'.id = d)
             /\ jobs'[d].state = "done" => jobs[d].state = "done"
    OBVIOUS
  <2>2. d \in Ids
    BY DEF Ids
  <2>3. Listing(d) => jobs[d].state = "running"
    BY DEF ReviewInv, ExecFits, Listing, Mine, NoExec
  <2>5. \/ jobs'[d].page = jobs[d].page
        \/ jobs'[d].page = 1 /\ ~(exec'.at = "put" /\ exec'.id = d)
    BY <1>1, <1>2, <2>2, <2>3 DEF Listing
  <2>6. jobs'[d].state = "done" => jobs[d].state = "done"
    BY <1>2, <2>2
  <2>. QED BY <2>5, <2>6
<1>9. \A d \in Discovery : Listed(d)'
  BY <1>1, <1>2, <1>4, ListedKept
<1>5. Stays
  <2>1. ScoreIsKept
    BY QuietRows DEF ReviewInv, ScoreIsKept
  <2>2. TerminalIsFinal
    BY QuietRows DEF ReviewInv, TerminalIsFinal
  <2>3. FinishedIsVisible
    BY <1>2 DEF FinishedIsVisible
  <2>. QED BY <2>1, <2>2, <2>3 DEF Stays
<1>6. ExecTyped' /\ WorldTyped' /\ WrittenTyped' /\ ListTyped'
  BY <1>1 DEF ReviewInv, ExecTyped, WorldTyped, WrittenTyped, ListTyped,
    OneComment
<1>7. ScoreNeverFatal
  BY <1>1 DEF ScoreNeverFatal
<1>8. Sane(jobs', dead') /\ dead' \subseteq Ids
  BY <1>1 DEF ReviewInv
<1>. QED BY <1>3, <1>5, <1>6, <1>7, <1>8, <1>9 DEF ReviewInv

-----------------------------------------------------------------------------
(* GitHub and the deployment.                                              *)

LEMMA WorldKeeps ==
  ASSUME ReviewInv, World \/ \E on \in BOOLEAN : Deploy(on)
  PROVE  ReviewInv' /\ Stays /\ ScoreNeverFatal
<1>1. /\ jobs' = jobs /\ queue' = queue /\ dead' = dead /\ exec' = exec
      /\ ready' = ready /\ tags' = tags /\ comment' = comment
      /\ posted' = posted
      /\ roster' = roster
  BY DEF World, Open, Close, RemoveRepo, Install, Suspend, Happens, Deploy,
    written, github, discoveries
<1>2. WorldTyped'
  <2>1. ASSUME NEW on \in BOOLEAN, Deploy(on) PROVE WorldTyped'
    BY <2>1, Times DEF Deploy, ReviewInv, WorldTyped, github
  <2>2. ASSUME NEW o \in Opened, Open(o) PROVE WorldTyped'
    BY <2>2, SetAssumption
    DEF Open, ReviewInv, WorldTyped, Happens, SetAssumption
  <2>3. ASSUME NEW r \in Repo, Close(r) \/ RemoveRepo(r) PROVE WorldTyped'
    BY <2>3 DEF Close, RemoveRepo, ReviewInv, WorldTyped, Happens
  <2>4. ASSUME NEW d \in Discovery, NEW S \in SUBSET Repo, Install(d, S)
        PROVE WorldTyped'
    BY <2>4 DEF Install, ReviewInv, WorldTyped, Happens
  <2>5. ASSUME Suspend PROVE WorldTyped'
    BY <2>5 DEF Suspend, ReviewInv, WorldTyped, Happens
  <2>. QED BY <2>1, <2>2, <2>3, <2>4, <2>5 DEF World
<1>3. \/ member \subseteq member' /\ shrunk' = shrunk
      \/ shrunk' = Discovery
  BY DEF World, Open, Close, RemoveRepo, Install, Suspend, Happens, Deploy,
    github, discoveries
<1>4. \A d \in Discovery : Listed(d)'
  <2>1. SUFFICES ASSUME NEW d \in Discovery, d \notin shrunk'
        PROVE  /\ roster[d] \subseteq member'
               /\ \A r \in roster[d] \ Archived :
                    jobs[<<d, r>>].state # "none" \/ Ahead(d, r)'
    BY <1>1 DEF Listed
  <2>2. member \subseteq member' /\ d \notin shrunk
    BY <1>3, <2>1
  <2>3. /\ roster[d] \subseteq member
        /\ \A r \in roster[d] \ Archived :
             jobs[<<d, r>>].state # "none" \/ Ahead(d, r)
    BY <2>2 DEF ReviewInv, Listed
  <2>4. ASSUME NEW r \in roster[d] \ Archived, Ahead(d, r)
        PROVE  Ahead(d, r)'
    <3>1. Position(r) <= Position(r)'
      BY <1>2, <2>2, <2>3, PlacesGrow DEF ReviewInv, WorldTyped
    <3>2. Position(r) \in Nat /\ Position(r)' \in Nat
      <4>1. r \in member /\ r \in member'
        BY <2>2, <2>3
      <4>2. Position(r) \in Nat
        BY <4>1, InPlace DEF ReviewInv, WorldTyped
      <4>3. member' \subseteq Repo
        BY <1>2 DEF WorldTyped
      <4>4. Cardinality({q \in member' : Rank[q] <= Rank[r]}) \in Nat
        BY <4>1, <4>3, PlacesIn
      <4>. QED BY <4>1, <4>2, <4>4 DEF Position
    <3>3. d \in Ids /\ jobs[d].page \in Nat
      BY DEF ReviewInv, Sane, RowType, Ids
    <3> DEFINE here == (jobs[d].page - 1) * PageSize
               there == jobs[d].page * PageSize
    <3>4. here \in Int /\ there \in Int
      BY <3>3, Times
    <3>5. /\ here < Position(r)
          /\ Listing(d) => r \in exec.todo \/ (exec.full /\ there < Position(r))
          /\ jobs[d].state # "done"
      BY <2>4 DEF Ahead
    <3>6. here' = here /\ there' = there /\ (Listing(d)' <=> Listing(d))
      BY <1>1 DEF Listing
    <3> HIDE DEF here, there
    <3>7. here < Position(r)' /\ (there < Position(r) => there < Position(r)')
      BY <3>1, <3>2, <3>4, <3>5
    <3>8. here' < Position(r)'
      BY <3>6, <3>7
    <3>9. Listing(d)' => \/ r \in exec'.todo
                         \/ exec'.full /\ there' < Position(r)'
      <4>1. CASE ~Listing(d)
        BY <3>6, <4>1
      <4>2. CASE r \in exec.todo
        <5>1. exec'.todo = exec.todo
          BY <1>1
        <5>. QED BY <4>2, <5>1
      <4>3. CASE exec.full /\ there < Position(r)
        BY <1>1, <3>6, <3>7, <4>3
      <4>. QED BY <3>5, <4>1, <4>2, <4>3
    <3>. QED BY <1>1, <3>5, <3>8, <3>9 DEF Ahead, here, there
  <2>. QED BY <2>2, <2>3, <2>4
<1>5. Stays /\ ScoreNeverFatal
  BY <1>1 DEF Stays, ScoreIsKept, TerminalIsFinal, FinishedIsVisible,
    ScoreNeverFatal
<1>6. ListTyped' /\ WrittenTyped' /\ ExecTyped'
  BY <1>1, <1>3 DEF ReviewInv, ListTyped, WrittenTyped, ExecTyped, OneComment
<1>7. ExecFits'
  BY <1>1 DEF ReviewInv, ExecFits, Mine
<1>. QED BY <1>1, <1>2, <1>4, <1>5, <1>6, <1>7 DEF ReviewInv

-----------------------------------------------------------------------------
(* The execution.                                                          *)

\* The job under way.
LEMMA Under ==
  ASSUME ReviewInv, exec.at # "idle"
  PROVE  /\ exec # NoExec /\ exec.id \in Ids /\ Mine = jobs[exec.id]
         /\ Mine \in RowType /\ Sound(exec.id, Mine, dead)
         /\ Mine.state = "running"
         /\ exec.at \notin {"bury", "drop"} => exec.id \notin dead
         /\ Mine.kind \in Kind /\ Mine.repo \in Repo \cup {Missing}
         /\ Mine.score \in Level \cup {Missing} /\ Mine.page \in Nat \ {0}
         /\ Mine.attempts \in 0..MaxAttempts /\ Mine.age \in 0..Budget
<1>1. exec # NoExec
  BY DEF NoExec
<1>2. exec.id \in Ids /\ Mine.state = "running"
  BY <1>1 DEF ReviewInv, ExecFits
<1>3. Mine = jobs[exec.id] /\ Mine \in RowType /\ Sound(exec.id, Mine, dead)
  BY <1>2 DEF ReviewInv, Sane, Mine
<1>4. exec.at \notin {"bury", "drop"} => exec.id \notin dead
  BY DEF ReviewInv, ExecFits
<1>5. /\ Mine.kind \in Kind /\ Mine.repo \in Repo \cup {Missing}
      /\ Mine.score \in Level \cup {Missing} /\ Mine.page \in Nat \ {0}
      /\ Mine.attempts \in 0..MaxAttempts
  BY <1>3 DEF RowType
<1>6. Mine.age \in 0..Budget
  BY <1>2, <1>3 DEF Sound
<1>. QED BY <1>1, <1>2, <1>3, <1>4, <1>5, <1>6

\* What a step of the execution leaves alone, or keeps to its type.
Rest ==
  /\ member' = member /\ roster' = roster /\ shrunk' = shrunk
  /\ queue' \subseteq Ids /\ WorldTyped' /\ WrittenTyped'

LEMMA QuietRest ==
  ASSUME ReviewInv, Quiet, UNCHANGED discoveries
  PROVE  /\ WorldTyped' /\ dead' = dead /\ faults' = faults
         /\ member' = member /\ open' = open /\ installed' = installed
         /\ roster' = roster /\ shrunk' = shrunk
BY DEF Quiet, discoveries, github, ReviewInv, WorldTyped

\* The execution changes its row.
LEMMA MineChanged ==
  ASSUME ReviewInv, exec.at # "idle", NEW new \in RowType, NEW buried,
         dead \subseteq buried, buried \subseteq dead \cup {exec.id},
         Sound(exec.id, new, buried), jobs' = [jobs EXCEPT ![exec.id] = new]
  PROVE  /\ Sane(jobs', buried)
         /\ jobs'[exec.id] = new
         /\ \A j \in Ids \ {exec.id} : jobs'[j] = jobs[j]
<1>1. exec.id \in Ids
  BY Under
<1>2. jobs \in [Ids -> RowType] /\ \A j \in Ids : Sound(j, jobs[j], dead)
  BY DEF ReviewInv, Sane
<1>3. jobs'[exec.id] = new /\ \A j \in Ids \ {exec.id} : jobs'[j] = jobs[j]
  BY <1>1, <1>2
<1>4. jobs' \in [Ids -> RowType]
  BY <1>1, <1>2
<1>5. ASSUME NEW j \in Ids PROVE Sound(j, jobs'[j], buried)
  <2>1. CASE j = exec.id
    BY <1>3, <2>1
  <2>2. CASE j # exec.id
    <3>1. jobs'[j] = jobs[j] /\ (j \in buried <=> j \in dead)
      BY <1>3, <2>2
    <3>. QED BY <1>2, <3>1 DEF Sound
  <2>. QED BY <2>1, <2>2
<1>. QED BY <1>3, <1>4, <1>5 DEF Sane

\* It ends, having changed its row.
LEMMA Leaves ==
  ASSUME ReviewInv, exec.at # "idle", exec' = NoExec, Rest, dead' = dead,
         NEW new \in RowType, Sound(exec.id, new, dead),
         jobs' = [jobs EXCEPT ![exec.id] = new],
         new.state \in {"pending", "done", "failed", "cancelled"},
         new.score = Mine.score, new.page = Mine.page,
         new.state = "done" =>
           /\ exec.id \notin Discovery
           /\ Mine.kind = "label" =>
                /\ tags'[Mine.repo] = {Mine.score}
                /\ comment'[Mine.repo] = Mine.score /\ posted'[Mine.repo] = 1
  PROVE  ReviewInv' /\ Stays /\ ScoreNeverFatal
<1>1. /\ Sane(jobs', dead) /\ jobs'[exec.id] = new
      /\ \A j \in Ids \ {exec.id} : jobs'[j] = jobs[j]
  BY MineChanged
<1>2. exec.id \in Ids /\ Mine = jobs[exec.id] /\ Mine.state = "running"
  BY Under
<1>3. \A j \in Ids : jobs[j].state # "none" => jobs'[j].state # "none"
  BY <1>1
<1>4. \A d \in Discovery :
        /\ \/ jobs'[d].page = jobs[d].page
           \/ jobs'[d].page = 1 /\ ~(exec'.at = "put" /\ exec'.id = d)
        /\ jobs'[d].state = "done" => jobs[d].state = "done"
  <2>1. \A d \in Discovery : d \in Ids
    BY DEF Ids
  <2>. QED BY <1>1, <1>2, <2>1
<1>5. exec'.at # "put" /\ exec'.at # "bury" /\ exec'.at = "idle"
  BY DEF NoExec
<1>6. \A d \in Discovery : Listed(d)'
  BY <1>3, <1>4, <1>5, ListedKept DEF Rest
<1>7. ExecFits' /\ ExecTyped'
  BY <1>5 DEF ExecFits, ExecTyped, NoExec, Reviewing, JobPlace
<1>8. ListTyped'
  BY DEF Rest, ListTyped, ReviewInv
<1>9. ScoreIsKept /\ TerminalIsFinal
  BY <1>1, <1>2 DEF ScoreIsKept, TerminalIsFinal, Terminal
<1>10. FinishedIsVisible
  BY <1>1, <1>2 DEF FinishedIsVisible
<1>11. ScoreNeverFatal
  BY <1>5 DEF ScoreNeverFatal
<1>. QED
  BY <1>1, <1>6, <1>7, <1>8, <1>9, <1>10, <1>11 DEF ReviewInv, Stays, Rest

\* It goes on to another place.
LEMMA ToPlace ==
  ASSUME ReviewInv, exec.at # "idle", NEW place \in JobPlace \ {"put"},
         Goto(place), jobs' = jobs, dead' = dead, Rest, ExecFits',
         exec.at = "score" /\ faults' = faults => place # "bury"
  PROVE  ReviewInv' /\ Stays /\ ScoreNeverFatal
<1>1. /\ exec'.at = place /\ exec'.id = exec.id /\ exec'.todo = exec.todo
      /\ exec'.full = exec.full /\ ExecTyped'
  BY DEF Goto, ReviewInv, ExecTyped
<1>2. \A d \in Discovery : Listed(d)'
  BY <1>1, ListedKept DEF Rest
<1>3. Stays /\ ScoreNeverFatal
  BY <1>1 DEF Stays, ScoreIsKept, TerminalIsFinal, FinishedIsVisible,
    ScoreNeverFatal
<1>4. ListTyped' /\ Sane(jobs', dead')
  BY DEF Rest, ListTyped, ReviewInv
<1>. QED BY <1>1, <1>2, <1>3, <1>4 DEF ReviewInv, Rest

\* finish.
LEMMA Finishes ==
  ASSUME ReviewInv, exec.at # "idle", Rest, dead' = dead,
         NEW s \in {"done", "failed", "cancelled"},
         NEW w \in {"-", "access", "buried"}, Finish(s, w),
         w = "buried" => exec.id \in dead,
         exec.id \in dead => s = "failed",
         s = "done" =>
           /\ exec.id \notin Discovery
           /\ Mine.kind = "label" =>
                /\ tags'[Mine.repo] = {Mine.score}
                /\ comment'[Mine.repo] = Mine.score /\ posted'[Mine.repo] = 1
  PROVE  ReviewInv' /\ Stays /\ ScoreNeverFatal
<1> DEFINE new == [Mine EXCEPT !.state = s, !.lease = 0, !.why = w]
<1>1. /\ exec.id \in Ids /\ Mine \in RowType /\ Sound(exec.id, Mine, dead)
      /\ Mine.state = "running" /\ Mine = jobs[exec.id]
  BY Under
<1>2. /\ new.state = s /\ new.kind = Mine.kind /\ new.repo = Mine.repo
      /\ new.score = Mine.score /\ new.page = Mine.page /\ new.why = w
  BY <1>1 DEF RowType
<1>3. new \in RowType
  <2>1. s \in State /\ 0 \in 0..Lease
    BY Times DEF State, Terminal
  <2>. QED BY <1>1, <2>1, Times DEF RowType
<1>4. jobs' = [jobs EXCEPT ![exec.id] = new] /\ exec' = NoExec
  BY DEF Finish, SetMine
<1> HIDE DEF new
<1>5. Sound(exec.id, new, dead)
  BY <1>1, <1>2 DEF Sound
<1>6. new.state \in {"pending", "done", "failed", "cancelled"}
  BY <1>2
<1>. QED BY <1>2, <1>3, <1>4, <1>5, <1>6, Leaves

\* A retry.
LEMMA Retries ==
  ASSUME ReviewInv, exec.at # "idle", Rest, dead' = dead,
         exec.id \notin dead, NEW n \in Nat, Mine.attempts < MaxAttempts,
         Requeue(n)
  PROVE  ReviewInv' /\ Stays /\ ScoreNeverFatal
<1> DEFINE new == [Mine EXCEPT !.state = "pending", !.lease = 0, !.due = n,
                               !.attempts = Mine.attempts + 1]
<1>1. /\ exec.id \in Ids /\ Mine \in RowType /\ Sound(exec.id, Mine, dead)
      /\ Mine.state = "running" /\ Mine = jobs[exec.id]
      /\ Mine.attempts \in 0..MaxAttempts
  BY Under
<1>2. /\ new.state = "pending" /\ new.kind = Mine.kind /\ new.repo = Mine.repo
      /\ new.score = Mine.score /\ new.page = Mine.page /\ new.why = Mine.why
  BY <1>1 DEF RowType
<1>3. new \in RowType
  <2>1. "pending" \in State /\ 0 \in 0..Lease
    BY Times DEF State, Terminal
  <2>2. Mine.attempts + 1 \in 0..MaxAttempts
    BY <1>1, Times
  <2>. QED BY <1>1, <2>1, <2>2 DEF RowType
<1>4. jobs' = [jobs EXCEPT ![exec.id] = new] /\ exec' = NoExec
  BY DEF Requeue, SetMine
<1> HIDE DEF new
<1>5. Sound(exec.id, new, dead)
  BY <1>1, <1>2 DEF Sound
<1>6. new.state \in {"pending", "done", "failed", "cancelled"}
  BY <1>2
<1>. QED BY <1>2, <1>3, <1>4, <1>5, <1>6, Leaves

\* A failed call: the job fails, is retried, or is to be buried.
LEMMA CaughtRetryKeeps ==
  ASSUME ReviewInv, exec.at \notin {"idle", "bury", "drop"}, Quiet,
         UNCHANGED discoveries, WrittenTyped', NEW n \in Delays, CaughtRetry(n),
         exec.at = "score" => Fits(n)
  PROVE  ReviewInv' /\ Stays /\ ScoreNeverFatal
<1>1. /\ WorldTyped' /\ dead' = dead /\ member' = member /\ roster' = roster
      /\ shrunk' = shrunk
  BY QuietRest
<1>2. exec.id \in Ids /\ exec.id \notin dead
  BY Under
<1>3. CASE Fits(n)
  <2>1. Requeue(n) /\ Mine.attempts < MaxAttempts /\ n \in Nat
    BY <1>3, TimeAssumption DEF CaughtRetry, Fits, TimeAssumption
  <2>2. Rest
    BY <1>1, <1>2, <2>1 DEF Rest, Requeue, ReviewInv
  <2>. QED BY <1>1, <1>2, <2>1, <2>2, Retries
<1>4. CASE ~Fits(n)
  <2>1. Goto("bury") /\ jobs' = jobs /\ queue' = queue
    BY <1>4 DEF CaughtRetry, ToBury
  <2>2. Rest
    BY <1>1, <2>1 DEF Rest, ReviewInv
  <2>3. exec'.at = "bury" /\ exec'.id = exec.id
    BY <2>1 DEF Goto, ReviewInv, ExecTyped
  <2>4. ExecFits'
    <3>1. exec.id \in Ids /\ Mine.state = "running"
      BY Under
    <3>2. Mine' = Mine
      BY <2>1, <2>3 DEF Mine
    <3>. QED BY <1>1, <2>3, <3>1, <3>2 DEF ExecFits, Reviewing
  <2>5. "bury" \in JobPlace \ {"put"}
    BY DEF JobPlace
  <2>6. exec.at # "score"
    BY <1>4
  <2>. QED BY <1>1, <2>1, <2>2, <2>4, <2>5, <2>6, ToPlace
<1>. QED BY <1>3, <1>4

LEMMA CaughtKeeps ==
  ASSUME ReviewInv, exec.at \notin {"idle", "bury", "drop", "score"}, Quiet,
         UNCHANGED discoveries, WrittenTyped', NEW a, Caught(a)
  PROVE  ReviewInv' /\ Stays /\ ScoreNeverFatal
<1>1. CASE Finish("failed", "access") /\ UNCHANGED queue
  <2>1. Rest /\ dead' = dead
    BY <1>1, QuietRest DEF Rest, ReviewInv
  <2>. QED BY <1>1, <2>1, Finishes
<1>2. CASE \E n \in Delays : CaughtRetry(n)
  BY <1>2, CaughtRetryKeeps
<1>. QED BY <1>1, <1>2 DEF Caught

LEMMA ThrowsKeeps ==
  ASSUME ReviewInv, Throws
  PROVE  ReviewInv' /\ Stays /\ ScoreNeverFatal
<1>1. /\ Goto("bury") /\ jobs' = jobs /\ queue' = queue /\ dead' = dead
      /\ exec.at \in JobPlace \ {"idle", "bury", "drop"}
      /\ member' = member /\ roster' = roster /\ shrunk' = shrunk
      /\ ready' = ready /\ tags' = tags /\ comment' = comment
      /\ posted' = posted /\ faults' # faults
  BY DEF Throws, ToBury, github, written, discoveries, ReviewInv, WorldTyped
<1>2. Rest
  <2>1. WorldTyped'
    BY Times DEF Throws, github, ReviewInv, WorldTyped
  <2>. QED BY <1>1, <2>1 DEF Rest, ReviewInv, WrittenTyped, OneComment
<1>3. exec'.at = "bury" /\ exec'.id = exec.id
  BY <1>1 DEF Goto, ReviewInv, ExecTyped
<1>4. ExecFits'
  <2>1. exec.id \in Ids /\ Mine.state = "running"
    BY <1>1, Under
  <2>2. Mine' = Mine
    BY <1>1, <1>3 DEF Mine
  <2>. QED BY <1>1, <1>3, <2>1, <2>2 DEF ExecFits, Reviewing
<1>5. "bury" \in JobPlace \ {"put"}
  BY DEF JobPlace
<1>. QED BY <1>1, <1>2, <1>4, <1>5, ToPlace

LEMMA CrashKeeps ==
  ASSUME ReviewInv, Crash
  PROVE  ReviewInv' /\ Stays /\ ScoreNeverFatal
<1>1. /\ exec' = NoExec /\ jobs' = jobs /\ dead' = dead
      /\ member' = member /\ roster' = roster /\ shrunk' = shrunk
      /\ ready' = ready /\ tags' = tags /\ comment' = comment
      /\ posted' = posted
  BY DEF Crash, github, written, discoveries
<1>2. queue' \subseteq Ids
  BY DEF Crash, ReviewInv, ExecFits
<1>3. WorldTyped'
  BY Times DEF Crash, github, ReviewInv, WorldTyped
<1>4. exec'.at = "idle"
  BY <1>1 DEF NoExec
<1>5. \A d \in Discovery : Listed(d)'
  BY <1>1, <1>4, ListedKept
<1>6. ExecFits' /\ ExecTyped'
  BY <1>1, <1>4 DEF ExecFits, ExecTyped, NoExec, Reviewing, JobPlace
<1>7. WrittenTyped' /\ ListTyped'
  BY <1>1 DEF ReviewInv, WrittenTyped, OneComment, ListTyped
<1>8. Stays /\ ScoreNeverFatal
  BY <1>1, <1>4 DEF Stays, ScoreIsKept, TerminalIsFinal, FinishedIsVisible,
    ScoreNeverFatal
<1>. QED BY <1>1, <1>2, <1>3, <1>5, <1>6, <1>7, <1>8 DEF ReviewInv

LEMMA DeliverKeeps ==
  ASSUME ReviewInv, NEW i \in Ids, Deliver(i)
  PROVE  ReviewInv' /\ Stays /\ ScoreNeverFatal
<1>1. /\ dead' = dead /\ faults' = faults /\ exec = NoExec
      /\ member' = member /\ roster' = roster /\ shrunk' = shrunk
      /\ ready' = ready /\ tags' = tags /\ comment' = comment
      /\ posted' = posted /\ queue' \subseteq Ids
  BY DEF Deliver, github, written, discoveries, ReviewInv
<1>2. WorldTyped' /\ WrittenTyped' /\ ListTyped' /\ dead' \subseteq Ids
  BY DEF Deliver, github, written, discoveries, ReviewInv, WorldTyped,
    WrittenTyped, OneComment, ListTyped
<1>3. exec.at = "idle"
  BY <1>1 DEF NoExec
<1>4. ScoreNeverFatal
  BY <1>3 DEF ScoreNeverFatal
<1>5. CASE jobs' = jobs /\ exec' = exec
  <2>1. \A d \in Discovery : Listed(d)'
    BY <1>1, <1>5, ListedKept
  <2>2. ExecFits' /\ ExecTyped' /\ Sane(jobs', dead')
    BY <1>1, <1>3, <1>5
    DEF ReviewInv, ExecFits, ExecTyped, NoExec, Reviewing
  <2>3. Stays
    BY <1>5 DEF Stays, ScoreIsKept, TerminalIsFinal, FinishedIsVisible
  <2>. QED BY <1>1, <1>2, <1>4, <2>1, <2>2, <2>3 DEF ReviewInv
<1>6. CASE /\ Claimable(i)
           /\ jobs' = [jobs EXCEPT ![i] = Claimed(jobs[i])]
           /\ exec' = [NoExec EXCEPT !.at = First(Claimed(jobs[i])), !.id = i]
  <2> DEFINE row == jobs[i]
             new == Claimed(row)
             age == IF row.age = Unstarted THEN 0 ELSE row.age
  <2>1. /\ row \in RowType /\ Sound(i, row, dead)
        /\ \/ row.state = "pending"
           \/ row.state = "running" /\ row.lease = 0
    BY <1>6 DEF ReviewInv, Sane, Claimable, DueIn
  <2>2. age \in 0..Budget
    BY <2>1, Times DEF RowType, Unstarted
  <2>3. new = [row EXCEPT !.state = "running", !.lease = Lease, !.age = age]
    BY DEF Claimed
  <2>4. /\ new.state = "running" /\ new.lease = Lease /\ new.age = age
        /\ new.kind = row.kind /\ new.repo = row.repo /\ new.why = row.why
        /\ new.score = row.score /\ new.page = row.page
    BY <2>1, <2>3 DEF RowType
  <2>5. new \in RowType
    <3>1. "running" \in State /\ Lease \in 0..Lease
      BY Times DEF State
    <3>2. age \in {Unstarted} \cup 0..Budget
      BY <2>2
    <3>3. row \in RowType
      BY <2>1
    <3> HIDE DEF age, new, row
    <3>. QED BY <2>3, <3>1, <3>2, <3>3 DEF RowType
  <2>6. i \in dead => age = Budget
    BY <2>1, Times DEF Sound, Unstarted
  <2> HIDE DEF new, age
  <2>7. Sound(i, new, dead)
    <3>1. age + Lease >= Lease
      BY <2>2, Times
    <3>. QED BY <2>1, <2>2, <2>4, <3>1 DEF Sound
  <2>8. jobs' = [jobs EXCEPT ![i] = new]
    BY <1>6 DEF new
  <2>9. Sane(jobs', dead)
    BY <2>5, <2>7, <2>8 DEF ReviewInv, Sane
  <2>10. jobs'[i] = new /\ \A j \in Ids \ {i} : jobs'[j] = jobs[j]
    BY <2>8 DEF ReviewInv, Sane
  <2>11. /\ exec'.at = First(new) /\ exec'.id = i /\ exec'.todo = {}
         /\ exec'.full = FALSE
         /\ exec' = [NoExec EXCEPT !.at = First(new), !.id = i]
    BY <1>6 DEF NoExec, new
  <2>12. /\ First(new) \in {"bury", "discover", "token"}
         /\ First(new) = "discover" => new.kind = "discover"
         /\ First(new) = "token" => new.kind # "discover"
         /\ age = Budget => First(new) = "bury"
    <3>1. new.age >= Budget <=> age = Budget
      BY <2>2, <2>4, Times
    <3>. QED BY <3>1 DEF First
  <2>13. ExecTyped'
    BY <2>11, <2>12 DEF ExecTyped, NoExec, JobPlace
  <2>14. ExecFits'
    <3>1. Mine' = new
      BY <2>10, <2>11 DEF Mine
    <3>. QED
      BY <1>1, <2>4, <2>6, <2>11, <2>12, <3>1 DEF ExecFits, Reviewing
  <2>15. \A j \in Ids : jobs[j].state # "none" => jobs'[j].state # "none"
    BY <2>4, <2>10
  <2>16. \A d \in Discovery :
          /\ \/ jobs'[d].page = jobs[d].page
             \/ jobs'[d].page = 1 /\ ~(exec'.at = "put" /\ exec'.id = d)
          /\ jobs'[d].state = "done" => jobs[d].state = "done"
    <3>1. \A d \in Discovery : d \in Ids
      BY DEF Ids
    <3>. QED BY <2>4, <2>10, <3>1
  <2>17. exec'.at # "put"
    BY <2>11, <2>12
  <2>18. \A d \in Discovery : Listed(d)'
    BY <1>1, <2>15, <2>16, <2>17, ListedKept
  <2>19. Stays
    BY <2>1, <2>4, <2>10
    DEF Stays, ScoreIsKept, TerminalIsFinal, FinishedIsVisible, Terminal
  <2>. QED
    BY <1>1, <1>2, <1>4, <2>9, <2>13, <2>14, <2>18, <2>19 DEF ReviewInv
<1>. QED BY <1>5, <1>6 DEF Deliver

-----------------------------------------------------------------------------
(* The steps of a label job.                                               *)

LEMMA Reached ==
  ASSUME ReviewInv, NEW a \in Answers(Reachable), a \in {"ok", "lost"}
  PROVE  Mine.repo \in Repo
<1>1. Reachable
  BY DEF Answers
<1>. QED BY <1>1 DEF Reachable, ReviewInv, WorldTyped

LEMMA Placed ==
  ASSUME ReviewInv, exec.at \notin {"idle", "bury", "drop"}, dead' = dead,
         jobs' = jobs, NEW place, Goto(place)
  PROVE  /\ exec'.at = place /\ exec'.id = exec.id /\ Mine' = Mine
         /\ exec'.id \notin dead' /\ exec'.id \in Ids
         /\ Mine'.state = "running"
<1>1. exec.id \in Ids /\ exec.id \notin dead /\ Mine.state = "running"
  BY Under
<1>2. exec'.at = place /\ exec'.id = exec.id
  BY DEF Goto, ReviewInv, ExecTyped
<1>3. Mine' = Mine
  BY <1>2 DEF Mine
<1>. QED BY <1>1, <1>2, <1>3

LEMMA TokenKeeps ==
  ASSUME ReviewInv, Token
  PROVE  ReviewInv' /\ Stays /\ ScoreNeverFatal
<1>1. /\ exec.at = "token" /\ Quiet /\ UNCHANGED written
      /\ UNCHANGED discoveries
  BY DEF Token, StepAt
<1>2. WrittenTyped'
  BY <1>1 DEF written, ReviewInv, WrittenTyped, OneComment
<1>3. ASSUME NEW a, Caught(a) PROVE ReviewInv' /\ Stays /\ ScoreNeverFatal
  BY <1>1, <1>2, <1>3, CaughtKeeps
<1>4. CASE UNCHANGED queue /\ Finish("cancelled", "-")
  <2>1. Rest /\ dead' = dead
    BY <1>1, <1>2, <1>4, QuietRest DEF Rest, ReviewInv
  <2>2. exec.id \notin dead
    BY <1>1, Under
  <2>. QED BY <1>1, <1>4, <2>1, <2>2, Finishes
<1>5. CASE UNCHANGED queue /\ Goto("labels") /\ UNCHANGED jobs
  <2>1. Rest /\ dead' = dead
    BY <1>1, <1>2, <1>5, QuietRest DEF Rest, ReviewInv
  <2>2. ExecFits'
    <3>1. Mine.kind # "discover"
      BY <1>1 DEF ReviewInv, ExecFits
    <3>2. /\ exec'.at = "labels" /\ exec'.id = exec.id /\ Mine' = Mine
          /\ exec'.id \notin dead' /\ exec'.id \in Ids
          /\ Mine'.state = "running"
      BY <1>1, <1>5, <2>1, Placed
    <3>. QED BY <3>1, <3>2 DEF ExecFits, Reviewing
  <2>. QED BY <1>1, <1>5, <2>1, <2>2, ToPlace DEF JobPlace
<1>. QED BY <1>3, <1>4, <1>5 DEF Token

LEMMA LabelsKeeps ==
  ASSUME ReviewInv, InitializeLabels
  PROVE  ReviewInv' /\ Stays /\ ScoreNeverFatal
<1>1. /\ exec.at = "labels" /\ Quiet /\ UNCHANGED discoveries
      /\ tags' = tags /\ comment' = comment /\ posted' = posted
  BY DEF InitializeLabels, StepAt
<1>2. PICK a \in Answers(Reachable) :
        /\ ready' = IF a \in {"ok", "lost"} THEN ready \cup {Mine.repo}
                    ELSE ready
        /\ IF a # "ok" THEN Caught(a)
           ELSE /\ UNCHANGED queue
                /\ IF Mine.kind = "initialize" THEN Finish("done", "-")
                   ELSE Goto("issue") /\ UNCHANGED jobs
  BY DEF InitializeLabels
<1>3. WrittenTyped'
  BY <1>1, <1>2, Reached DEF ReviewInv, WrittenTyped, OneComment
<1>4. CASE a # "ok"
  BY <1>1, <1>2, <1>3, <1>4, CaughtKeeps
<1>5. CASE a = "ok" /\ Mine.kind = "initialize"
  <2>1. Finish("done", "-") /\ Rest /\ dead' = dead
    BY <1>1, <1>2, <1>3, <1>5, QuietRest DEF Rest, ReviewInv
  <2>2. exec.id \notin dead /\ exec.id \notin Discovery
    <3>1. exec.id \notin dead /\ Sound(exec.id, Mine, dead)
          /\ Mine.state = "running"
      BY <1>1, Under
    <3>. QED BY <1>5, <3>1 DEF Sound
  <2>. QED BY <1>1, <1>5, <2>1, <2>2, Finishes
<1>6. CASE a = "ok" /\ Mine.kind # "initialize"
  <2>1. Goto("issue") /\ jobs' = jobs /\ Rest /\ dead' = dead
    BY <1>1, <1>2, <1>3, <1>6, QuietRest DEF Rest, ReviewInv
  <2>2. ExecFits'
    <3>1. Mine.kind = "label"
      <4>1. Mine.kind # "discover" /\ Mine.kind \in Kind
        BY <1>1, Under DEF ReviewInv, ExecFits
      <4>. QED BY <1>6, <4>1 DEF Kind
    <3>2. /\ exec'.at = "issue" /\ exec'.id = exec.id /\ Mine' = Mine
          /\ exec'.id \notin dead' /\ exec'.id \in Ids
          /\ Mine'.state = "running"
      BY <1>1, <2>1, Placed
    <3>. QED BY <3>1, <3>2 DEF ExecFits, Reviewing
  <2>. QED BY <1>1, <2>1, <2>2, ToPlace DEF JobPlace
<1>. QED BY <1>4, <1>5, <1>6

LEMMA IssueKeeps ==
  ASSUME ReviewInv, ReadIssue
  PROVE  ReviewInv' /\ Stays /\ ScoreNeverFatal
<1>1. /\ exec.at = "issue" /\ Quiet /\ UNCHANGED written
      /\ UNCHANGED discoveries
  BY DEF ReadIssue, StepAt
<1>2. WrittenTyped'
  BY <1>1 DEF written, ReviewInv, WrittenTyped, OneComment
<1>3. ASSUME NEW a, Caught(a) PROVE ReviewInv' /\ Stays /\ ScoreNeverFatal
  BY <1>1, <1>2, <1>3, CaughtKeeps
<1>4. CASE UNCHANGED queue /\ Finish("cancelled", "-")
  <2>1. Rest /\ dead' = dead
    BY <1>1, <1>2, <1>4, QuietRest DEF Rest, ReviewInv
  <2>2. exec.id \notin dead
    BY <1>1, Under
  <2>. QED BY <1>1, <1>4, <2>1, <2>2, Finishes
<1>5. CASE UNCHANGED queue /\ Goto(AfterIssue(Mine)) /\ UNCHANGED jobs
  <2> DEFINE place == AfterIssue(Mine)
  <2>1. Rest /\ dead' = dead /\ Goto(place)
    BY <1>1, <1>2, <1>5, QuietRest DEF Rest, ReviewInv
  <2>2. /\ place \in {"score", "apply"}
        /\ place = "score" => Mine.score = Missing
        /\ place = "apply" => Mine.score \in Level
    BY <1>1, Under DEF AfterIssue
  <2> HIDE DEF place
  <2>3. ExecFits'
    <3>1. Mine.kind = "label"
      BY <1>1 DEF ReviewInv, ExecFits, Reviewing
    <3>2. /\ exec'.at = place /\ exec'.id = exec.id /\ Mine' = Mine
          /\ exec'.id \notin dead' /\ exec'.id \in Ids
          /\ Mine'.state = "running"
      BY <1>1, <1>5, <2>1, Placed
    <3>. QED BY <2>2, <3>1, <3>2 DEF ExecFits, Reviewing
  <2>4. place \in JobPlace \ {"put"}
    BY <2>2 DEF JobPlace
  <2>. QED BY <1>1, <1>5, <2>1, <2>3, <2>4, ToPlace
<1>. QED BY <1>3, <1>4, <1>5 DEF ReadIssue

LEMMA ScoreKeeps ==
  ASSUME ReviewInv, Score
  PROVE  ReviewInv' /\ Stays /\ ScoreNeverFatal
<1>1. /\ exec.at = "score" /\ Quiet /\ UNCHANGED written
      /\ UNCHANGED discoveries
  BY DEF Score, StepAt
<1>2. WrittenTyped'
  BY <1>1 DEF written, ReviewInv, WrittenTyped, OneComment
<1>3. /\ exec.id \in Ids /\ Mine = jobs[exec.id] /\ Mine \in RowType
      /\ Sound(exec.id, Mine, dead) /\ Mine.state = "running"
      /\ exec.id \notin dead /\ Mine.age \in 0..Budget
  BY <1>1, Under
<1>4. Mine.score = Missing /\ Mine.kind = "label"
  BY <1>1 DEF ReviewInv, ExecFits, Reviewing
<1>5. ASSUME NEW l \in Level, KeepScore(l)
      PROVE  ReviewInv' /\ Stays /\ ScoreNeverFatal
  <2> DEFINE new == [Mine EXCEPT !.score = l]
  <2>1. /\ new.state = "running" /\ new.kind = "label" /\ new.score = l
        /\ new.repo = Mine.repo /\ new.page = Mine.page /\ new.why = Mine.why
        /\ new.age = Mine.age /\ new.lease = Mine.lease
    BY <1>3, <1>4 DEF RowType
  <2>2. new \in RowType
    BY <1>3 DEF RowType
  <2>3. jobs' = [jobs EXCEPT ![exec.id] = new] /\ queue' = queue
    BY <1>5 DEF KeepScore, SetMine
  <2> HIDE DEF new
  <2>4. Sound(exec.id, new, dead)
    BY <1>3, <1>4, <2>1 DEF Sound
  <2>5. /\ Sane(jobs', dead) /\ jobs'[exec.id] = new
        /\ \A j \in Ids \ {exec.id} : jobs'[j] = jobs[j]
    BY <1>1, <2>2, <2>3, <2>4, MineChanged
  <2>6. /\ exec'.at = "apply" /\ exec'.id = exec.id /\ ExecTyped'
    BY <1>5 DEF KeepScore, Goto, ReviewInv, ExecTyped, JobPlace
  <2>7. Mine' = new
    BY <2>5, <2>6 DEF Mine
  <2>8. /\ WorldTyped' /\ dead' = dead /\ member' = member
        /\ roster' = roster /\ shrunk' = shrunk
    BY <1>1, QuietRest
  <2>9. ExecFits'
    BY <1>3, <2>1, <2>6, <2>7, <2>8 DEF ExecFits, Reviewing
  <2>10. \A j \in Ids : jobs[j].state # "none" => jobs'[j].state # "none"
    BY <2>1, <2>5
  <2>11. \A d \in Discovery :
          /\ \/ jobs'[d].page = jobs[d].page
             \/ jobs'[d].page = 1 /\ ~(exec'.at = "put" /\ exec'.id = d)
          /\ jobs'[d].state = "done" => jobs[d].state = "done"
    <3>1. \A d \in Discovery : d \in Ids
      BY DEF Ids
    <3>. QED BY <1>3, <2>1, <2>5, <3>1
  <2>12. \A d \in Discovery : Listed(d)'
    BY <2>6, <2>8, <2>10, <2>11, ListedKept
  <2>13. Stays
    BY <1>3, <1>4, <2>1, <2>5
    DEF Stays, ScoreIsKept, TerminalIsFinal, FinishedIsVisible, Terminal
  <2>14. ScoreNeverFatal /\ ListTyped' /\ queue' \subseteq Ids
    BY <2>3, <2>6, <2>8 DEF ScoreNeverFatal, ReviewInv, ListTyped
  <2>. QED
    BY <1>2, <2>5, <2>6, <2>8, <2>9, <2>12, <2>13, <2>14 DEF ReviewInv
<1>6. ASSUME NEW n \in Delays, ScoreRetries(n), CaughtRetry(n)
      PROVE  ReviewInv' /\ Stays /\ ScoreNeverFatal
  <2>1. n \in Nat
    BY TimeAssumption DEF TimeAssumption
  <2>2. Fits(n)
    BY <1>3, <1>6, <2>1, Times DEF Fits, ScoreRetries
  <2>. QED BY <1>1, <1>2, <1>6, <2>2, CaughtRetryKeeps
<1>7. Unavailable \in Level
  BY SetAssumption DEF SetAssumption
<1>. QED BY <1>5, <1>6, <1>7 DEF Score

LEMMA ApplyKeeps ==
  ASSUME ReviewInv, Apply
  PROVE  ReviewInv' /\ Stays /\ ScoreNeverFatal
<1>1. /\ exec.at = "apply" /\ Quiet /\ UNCHANGED discoveries
      /\ ready' = ready /\ comment' = comment /\ posted' = posted
  BY DEF Apply, StepAt
<1>2. PICK a \in Answers(Reachable) :
        /\ tags' = IF a \in {"ok", "lost"}
                   THEN [tags EXCEPT ![Mine.repo] = @ \cup {Mine.score}]
                   ELSE tags
        /\ IF a # "ok" THEN Caught(a)
           ELSE Goto("strip") /\ UNCHANGED <<jobs, queue>>
  BY DEF Apply
<1>3. Mine.score \in Level /\ Mine.kind = "label"
  BY <1>1 DEF ReviewInv, ExecFits, Reviewing
<1>4. WrittenTyped'
  <2>1. tags' \in [Repo -> SUBSET Level]
    BY <1>2, <1>3, Reached DEF ReviewInv, WrittenTyped
  <2>. QED BY <1>1, <2>1 DEF ReviewInv, WrittenTyped, OneComment
<1>5. CASE a # "ok"
  BY <1>1, <1>2, <1>4, <1>5, CaughtKeeps
<1>6. CASE a = "ok"
  <2>1. Goto("strip") /\ jobs' = jobs /\ Rest /\ dead' = dead
    BY <1>1, <1>2, <1>4, <1>6, QuietRest DEF Rest, ReviewInv
  <2>2. Mine.repo \in Repo /\ Mine.score \in tags'[Mine.repo]
    <3>1. Mine.repo \in Repo
      BY <1>6, Reached
    <3>. QED BY <1>2, <1>6, <3>1 DEF ReviewInv, WrittenTyped
  <2>3. /\ exec'.at = "strip" /\ exec'.id = exec.id /\ Mine' = Mine
        /\ exec'.id \notin dead' /\ exec'.id \in Ids
        /\ Mine'.state = "running"
    BY <1>1, <2>1, Placed
  <2>4. ExecFits'
    BY <1>3, <2>2, <2>3 DEF ExecFits, Reviewing
  <2>. QED BY <1>1, <2>1, <2>4, ToPlace DEF JobPlace
<1>. QED BY <1>5, <1>6

LEMMA StripKeeps ==
  ASSUME ReviewInv, Strip
  PROVE  ReviewInv' /\ Stays /\ ScoreNeverFatal
<1>1. /\ exec.at = "strip" /\ Quiet /\ UNCHANGED discoveries
      /\ ready' = ready /\ comment' = comment /\ posted' = posted
  BY DEF Strip, StepAt
<1>2. PICK a \in Answers(Reachable) :
        /\ IF a = "ok"
           THEN tags' = [tags EXCEPT ![Mine.repo] = Stripped(@, Mine.score)]
           ELSE \E gone \in SUBSET (tags[Mine.repo] \ {Mine.score}) :
                  tags' = [tags EXCEPT ![Mine.repo] = @ \ gone]
        /\ IF a # "ok" THEN Caught(a)
           ELSE Goto("comment") /\ UNCHANGED <<jobs, queue>>
  BY DEF Strip
<1>3. /\ Mine.score \in Level /\ Mine.kind = "label" /\ Mine.repo \in Repo
      /\ Mine.score \in tags[Mine.repo] /\ tags \in [Repo -> SUBSET Level]
  BY <1>1 DEF ReviewInv, ExecFits, Reviewing, WrittenTyped
<1>4. CASE a # "ok"
  <2>1. tags' \in [Repo -> SUBSET Level]
    BY <1>2, <1>3, <1>4
  <2>2. WrittenTyped'
    BY <1>1, <2>1 DEF ReviewInv, WrittenTyped, OneComment
  <2>. QED BY <1>1, <1>2, <1>4, <2>2, CaughtKeeps
<1>5. CASE a = "ok"
  <2>1. /\ tags' \in [Repo -> SUBSET Level]
        /\ tags'[Mine.repo] = {Mine.score}
    BY <1>2, <1>3, <1>5 DEF Stripped
  <2>2. WrittenTyped'
    BY <1>1, <2>1 DEF ReviewInv, WrittenTyped, OneComment
  <2>3. Goto("comment") /\ jobs' = jobs /\ Rest /\ dead' = dead
    BY <1>1, <1>2, <1>5, <2>2, QuietRest DEF Rest, ReviewInv
  <2>4. /\ exec'.at = "comment" /\ exec'.id = exec.id /\ Mine' = Mine
        /\ exec'.id \notin dead' /\ exec'.id \in Ids
        /\ Mine'.state = "running"
    BY <1>1, <2>3, Placed
  <2>5. ExecFits'
    BY <1>3, <2>1, <2>4 DEF ExecFits, Reviewing
  <2>. QED BY <1>1, <2>3, <2>5, ToPlace DEF JobPlace
<1>. QED BY <1>4, <1>5

LEMMA CommentKeeps ==
  ASSUME ReviewInv, Comment
  PROVE  ReviewInv' /\ Stays /\ ScoreNeverFatal
<1>1. /\ exec.at = "comment" /\ Quiet /\ UNCHANGED discoveries
      /\ ready' = ready /\ tags' = tags
  BY DEF Comment, StepAt
<1>2. PICK a \in Answers(Reachable) :
        /\ IF a \in {"ok", "lost"}
           THEN /\ comment' = [comment EXCEPT ![Mine.repo] = Mine.score]
                /\ posted' = [posted EXCEPT ![Mine.repo] = Comments(@)]
           ELSE UNCHANGED <<comment, posted>>
        /\ IF a # "ok" THEN Caught(a)
           ELSE Goto("mail") /\ UNCHANGED <<jobs, queue>>
  BY DEF Comment
<1>3. /\ Mine.score \in Level /\ Mine.kind = "label" /\ Mine.repo \in Repo
      /\ tags[Mine.repo] = {Mine.score}
      /\ comment \in [Repo -> Level \cup {Missing}]
      /\ posted \in [Repo -> Nat] /\ \A r \in Repo : posted[r] <= 1
  BY <1>1 DEF ReviewInv, ExecFits, Reviewing, WrittenTyped, OneComment
<1>4. Comments(posted[Mine.repo]) = 1
  <2>1. posted[Mine.repo] \in Nat /\ posted[Mine.repo] <= 1
    BY <1>3
  <2>. QED BY <2>1 DEF Comments
<1>5. WrittenTyped'
  <2>1. comment' \in [Repo -> Level \cup {Missing}]
    BY <1>2, <1>3
  <2>2. posted' \in [Repo -> Nat] /\ \A r \in Repo : posted'[r] <= 1
    BY <1>2, <1>3, <1>4
  <2>. QED BY <1>1, <2>1, <2>2 DEF ReviewInv, WrittenTyped, OneComment
<1>6. CASE a # "ok"
  BY <1>1, <1>2, <1>5, <1>6, CaughtKeeps
<1>7. CASE a = "ok"
  <2>1. comment'[Mine.repo] = Mine.score /\ posted'[Mine.repo] = 1
    BY <1>2, <1>3, <1>4, <1>7
  <2>2. Goto("mail") /\ jobs' = jobs /\ Rest /\ dead' = dead
    BY <1>1, <1>2, <1>5, <1>7, QuietRest DEF Rest, ReviewInv
  <2>3. /\ exec'.at = "mail" /\ exec'.id = exec.id /\ Mine' = Mine
        /\ exec'.id \notin dead' /\ exec'.id \in Ids
        /\ Mine'.state = "running"
    BY <1>1, <2>2, Placed
  <2>4. ExecFits'
    BY <1>1, <1>3, <2>1, <2>3 DEF ExecFits, Reviewing
  <2>. QED BY <1>1, <2>2, <2>4, ToPlace DEF JobPlace
<1>. QED BY <1>6, <1>7

LEMMA MailKeeps ==
  ASSUME ReviewInv, QueueMail
  PROVE  ReviewInv' /\ Stays /\ ScoreNeverFatal
<1>1. /\ exec.at = "mail" /\ Finish("done", "-") /\ Quiet /\ queue' = queue
      /\ tags' = tags /\ comment' = comment /\ posted' = posted
      /\ ready' = ready /\ UNCHANGED discoveries
  BY DEF QueueMail, StepAt, written
<1>2. Rest /\ dead' = dead
  BY <1>1, QuietRest DEF Rest, ReviewInv, WrittenTyped, OneComment
<1>3. /\ Mine.kind = "label" /\ tags[Mine.repo] = {Mine.score}
      /\ comment[Mine.repo] = Mine.score /\ posted[Mine.repo] = 1
  BY <1>1 DEF ReviewInv, ExecFits, Reviewing
<1>4. exec.id \notin dead /\ exec.id \notin Discovery
  <2>1. /\ exec.id \notin dead /\ Sound(exec.id, Mine, dead)
        /\ Mine.state = "running"
    BY <1>1, Under
  <2>. QED BY <1>3, <2>1 DEF Sound
<1>. QED BY <1>1, <1>2, <1>3, <1>4, Finishes

-----------------------------------------------------------------------------
(* Jobs that cannot be retried.                                            *)

LEMMA BuryKeeps ==
  ASSUME ReviewInv, Bury
  PROVE  ReviewInv' /\ Stays /\ ScoreNeverFatal
<1>1. /\ exec.at = "bury" /\ dead' = dead \cup {exec.id} /\ jobs' = jobs
      /\ queue' = queue /\ member' = member /\ roster' = roster
      /\ shrunk' = shrunk
  BY DEF Bury, StepAt, github, discoveries
<1>2. WorldTyped' /\ WrittenTyped' /\ ListTyped'
  BY DEF Bury, github, written, discoveries, ReviewInv, WorldTyped,
    WrittenTyped, OneComment, ListTyped
<1>3. /\ exec.id \in Ids /\ Mine = jobs[exec.id] /\ Mine \in RowType
      /\ Sound(exec.id, Mine, dead) /\ Mine.state = "running"
  BY <1>1, Under
<1>4. Sane(jobs', dead')
  <2>1. Sound(exec.id, Mine, dead')
    BY <1>1, <1>3 DEF Sound
  <2>2. jobs' = [jobs EXCEPT ![exec.id] = Mine]
    BY <1>1, <1>3 DEF ReviewInv, Sane
  <2>. QED BY <1>1, <1>3, <2>1, <2>2, MineChanged
<1>5. /\ exec'.at = "drop" /\ exec'.id = exec.id /\ ExecTyped'
  BY DEF Bury, Goto, ReviewInv, ExecTyped, JobPlace
<1>6. Mine' = Mine
  BY <1>1, <1>5 DEF Mine
<1>7. ExecFits'
  BY <1>1, <1>3, <1>5, <1>6 DEF ExecFits, Reviewing
<1>8. \A d \in Discovery : Listed(d)'
  BY <1>1, <1>5, ListedKept
<1>9. Stays /\ ScoreNeverFatal
  BY <1>1 DEF Stays, ScoreIsKept, TerminalIsFinal, FinishedIsVisible,
    ScoreNeverFatal
<1>10. queue' \subseteq Ids /\ dead' \subseteq Ids
  BY <1>1, <1>3 DEF ReviewInv
<1>. QED
  BY <1>2, <1>4, <1>5, <1>7, <1>8, <1>9, <1>10 DEF ReviewInv

LEMMA DropKeeps ==
  ASSUME ReviewInv, Drop
  PROVE  ReviewInv' /\ Stays /\ ScoreNeverFatal
<1>1. /\ exec.at = "drop" /\ Finish("failed", "buried") /\ Quiet
      /\ queue' = queue /\ tags' = tags /\ comment' = comment
      /\ posted' = posted /\ ready' = ready /\ UNCHANGED discoveries
  BY DEF Drop, StepAt, written
<1>2. Rest /\ dead' = dead
  BY <1>1, QuietRest DEF Rest, ReviewInv, WrittenTyped, OneComment
<1>3. exec.id \in dead
  BY <1>1 DEF ReviewInv, ExecFits
<1>. QED BY <1>1, <1>2, <1>3, Finishes

-----------------------------------------------------------------------------
(* Discoveries.                                                            *)

LEMMA Discovering ==
  ASSUME ReviewInv, exec.at \in {"discover", "put"}
  PROVE  /\ exec.id \in Discovery /\ exec.id \in Ids /\ Mine = jobs[exec.id]
         /\ Mine.state = "running" /\ Mine.page \in Nat \ {0}
         /\ exec.id \notin dead /\ Mine.kind = "discover" /\ Mine \in RowType
<1>1. /\ exec.id \in Ids /\ Mine = jobs[exec.id] /\ Mine.state = "running"
      /\ Sound(exec.id, Mine, dead) /\ exec.id \notin dead
      /\ Mine.page \in Nat \ {0} /\ Mine \in RowType
  BY Under
<1>2. Mine.kind = "discover"
  BY DEF ReviewInv, ExecFits
<1>. QED BY <1>1, <1>2 DEF Sound

\* A page of the list, and what is behind it.
LEMMA Paged ==
  ASSUME member \subseteq Repo, NEW p \in Nat \ {0}, NEW r \in member,
         (p - 1) * PageSize < Position(r)
  PROVE  r \in ListPage(p) \/ (Full(p) /\ p * PageSize < Position(r))
<1>1. /\ Position(r) \in Nat /\ Position(r) <= Cardinality(member)
      /\ Cardinality(member) \in Nat
  BY InPlace
<1> DEFINE there == p * PageSize
<1>2. there \in Nat
  BY Times
<1>3. CASE Position(r) <= there
  BY <1>3 DEF ListPage
<1>4. CASE there < Position(r)
  <2> HIDE DEF there
  <2>1. there <= Cardinality(member)
    BY <1>1, <1>2, <1>4
  <2>. QED BY <1>4, <2>1 DEF Full, there
<1> HIDE DEF there
<1>. QED BY <1>1, <1>2, <1>3, <1>4

LEMMA PageRead ==
  ASSUME ReviewInv, exec.at = "discover", Quiet, jobs' = jobs, queue' = queue,
         exec' = [exec EXCEPT !.at = "put",
                    !.todo = ListPage(Mine.page) \ Archived,
                    !.full = Full(Mine.page)],
         roster' = IF Mine.page = 1
                   THEN [roster EXCEPT ![exec.id] = member] ELSE roster,
         shrunk' = IF Mine.page = 1 THEN shrunk \ {exec.id} ELSE shrunk,
         WrittenTyped'
  PROVE  ReviewInv' /\ Stays /\ ScoreNeverFatal
<1>1. /\ exec.id \in Discovery /\ exec.id \in Ids /\ Mine = jobs[exec.id]
      /\ Mine.state = "running" /\ Mine.page \in Nat \ {0}
      /\ exec.id \notin dead /\ Mine.kind = "discover"
  BY Discovering
<1>2. /\ WorldTyped' /\ dead' = dead /\ member' = member
      /\ member \subseteq Repo
  BY DEF Quiet, github, ReviewInv, WorldTyped
<1>3. /\ exec'.at = "put" /\ exec'.id = exec.id
      /\ exec'.todo = ListPage(Mine.page) \ Archived
      /\ exec'.full = Full(Mine.page)
  BY DEF ReviewInv, ExecTyped
<1>4. ExecTyped'
  <2>1. ListPage(Mine.page) \subseteq Repo
    BY <1>2 DEF ListPage
  <2>2. Full(Mine.page) \in BOOLEAN
    BY DEF Full
  <2>3. "put" \in JobPlace
    BY DEF JobPlace
  <2>. QED BY <2>1, <2>2, <2>3 DEF ReviewInv, ExecTyped
<1>5. ListTyped'
  BY <1>2 DEF ReviewInv, ListTyped
<1>6. ExecFits'
  <2>1. Mine' = Mine
    BY <1>3 DEF Mine
  <2>. QED BY <1>1, <1>2, <1>3, <2>1 DEF ExecFits, Reviewing
<1>7. ASSUME NEW d \in Discovery PROVE Listed(d)'
  <2>1. SUFFICES ASSUME d \notin shrunk'
        PROVE  /\ roster'[d] \subseteq member
               /\ \A r \in roster'[d] \ Archived :
                    jobs[<<d, r>>].state # "none" \/ Ahead(d, r)'
    BY <1>2 DEF Listed
  <2>2. CASE d # exec.id
    <3>1. roster'[d] = roster[d] /\ d \notin shrunk
      BY <2>1, <2>2 DEF ReviewInv, ListTyped
    <3>2. roster[d] \subseteq member
      BY <3>1 DEF ReviewInv, Listed
    <3>3. ASSUME NEW r \in roster[d] \ Archived
          PROVE  jobs[<<d, r>>].state # "none" \/ Ahead(d, r)'
      <4>1. jobs[<<d, r>>].state # "none" \/ Ahead(d, r)
        BY <3>1 DEF ReviewInv, Listed
      <4>2. ASSUME Ahead(d, r) PROVE Ahead(d, r)'
        <5>1. /\ jobs'[d].state # "done"
              /\ (jobs'[d].page - 1) * PageSize < Position(r)
          BY <4>2 DEF Ahead
        <5>2. Position(r)' = Position(r)
          BY <1>2 DEF Position
        <5>3. ~Listing(d)'
          BY <1>3, <2>2 DEF Listing
        <5>. QED BY <5>1, <5>2, <5>3 DEF Ahead
      <4>. QED BY <4>1, <4>2
    <3>. QED BY <3>1, <3>2, <3>3
  <2>3. CASE d = exec.id
    <3>1. /\ roster'[d] \subseteq member
          /\ \A r \in roster'[d] \ Archived :
               \/ jobs[<<d, r>>].state # "none"
               \/ (Mine.page - 1) * PageSize < Position(r)
      <4>1. CASE Mine.page = 1
        <5>1. roster'[d] = member
          BY <1>1, <2>3, <4>1 DEF ReviewInv, ListTyped
        <5>2. \A r \in member : Position(r) \in Nat /\ Position(r) >= 1
          BY <1>2, InPlace
        <5>3. \A r \in member : (Mine.page - 1) * PageSize < Position(r)
          BY <4>1, <5>2, FirstPage
        <5>. QED BY <5>1, <5>3
      <4>2. CASE Mine.page # 1
        <5>1. roster' = roster /\ d \notin shrunk
          BY <2>1, <4>2
        <5>2. /\ roster[d] \subseteq member
              /\ \A r \in roster[d] \ Archived :
                   jobs[<<d, r>>].state # "none" \/ Ahead(d, r)
          BY <5>1 DEF ReviewInv, Listed
        <5>. QED BY <1>1, <2>3, <5>1, <5>2 DEF Ahead
      <4>. QED BY <4>1, <4>2
    <3>2. ASSUME NEW r \in roster'[d] \ Archived,
                 (Mine.page - 1) * PageSize < Position(r)
          PROVE  Ahead(d, r)'
      <4>1. r \in member
        BY <3>1
      <4>2. \/ r \in ListPage(Mine.page)
            \/ Full(Mine.page) /\ Mine.page * PageSize < Position(r)
        BY <1>1, <1>2, <3>2, <4>1, Paged
      <4>3. Position(r)' = Position(r)
        BY <1>2 DEF Position
      <4>4. jobs'[d] = Mine
        BY <1>1, <2>3
      <4>5. \/ r \in exec'.todo
            \/ exec'.full /\ jobs'[d].page * PageSize < Position(r)
        BY <1>3, <4>2, <4>4
      <4>. QED BY <1>1, <3>2, <4>3, <4>4, <4>5 DEF Ahead
    <3>. QED BY <3>1, <3>2
  <2>. QED BY <2>2, <2>3
<1>8. Stays /\ ScoreNeverFatal
  BY <1>3 DEF Stays, ScoreIsKept, TerminalIsFinal, FinishedIsVisible,
    ScoreNeverFatal
<1>9. Sane(jobs', dead') /\ queue' \subseteq Ids /\ dead' \subseteq Ids
  BY <1>2 DEF ReviewInv
<1>. QED
  BY <1>2, <1>4, <1>5, <1>6, <1>7, <1>8, <1>9 DEF ReviewInv

LEMMA DiscoverKeeps ==
  ASSUME ReviewInv, Discover
  PROVE  ReviewInv' /\ Stays /\ ScoreNeverFatal
<1>1. exec.at = "discover" /\ Quiet /\ UNCHANGED written
  BY DEF Discover, StepAt
<1>2. WrittenTyped'
  BY <1>1 DEF written, ReviewInv, WrittenTyped, OneComment
<1>3. ASSUME NEW a, Caught(a), UNCHANGED discoveries
      PROVE  ReviewInv' /\ Stays /\ ScoreNeverFatal
  BY <1>1, <1>2, <1>3, CaughtKeeps
<1>4. CASE /\ exec' = [exec EXCEPT !.at = "put",
                  !.todo = ListPage(Mine.page) \ Archived,
                  !.full = Full(Mine.page)]
           /\ roster' = IF Mine.page = 1
                        THEN [roster EXCEPT ![exec.id] = member] ELSE roster
           /\ shrunk' = IF Mine.page = 1 THEN shrunk \ {exec.id} ELSE shrunk
           /\ UNCHANGED <<jobs, queue>>
  BY <1>1, <1>2, <1>4, PageRead
<1>. QED BY <1>3, <1>4 DEF Discover

LEMMA PutKeeps ==
  ASSUME ReviewInv, NEW r \in Repo, Put(r)
  PROVE  ReviewInv' /\ Stays /\ ScoreNeverFatal
<1>1. /\ exec.at = "put" /\ r \in exec.todo /\ Quiet /\ queue' = queue
      /\ ready' = ready /\ tags' = tags /\ comment' = comment
      /\ posted' = posted /\ UNCHANGED discoveries
      /\ jobs' = Admitted(jobs, <<exec.id, r>>, "initialize", r)
  BY DEF Put, StepAt, written
<1>2. /\ exec.id \in Discovery /\ exec.id \in Ids /\ Mine = jobs[exec.id]
      /\ Mine.state = "running" /\ Mine.page \in Nat \ {0}
      /\ exec.id \notin dead /\ Mine.kind = "discover"
  BY <1>1, Discovering
<1>3. /\ WorldTyped' /\ dead' = dead /\ member' = member
      /\ roster' = roster /\ shrunk' = shrunk
  BY <1>1, QuietRest
<1>4. <<exec.id, r>> \in Ids /\ <<exec.id, r>> \notin Discovery
  BY <1>2, SetAssumption DEF SetAssumption, Ids
<1>5. /\ Sane(jobs', dead)
      /\ \A j \in Ids : Changed(jobs[j], jobs'[j])
      /\ jobs'[<<exec.id, r>>].state # "none"
      /\ \A j \in Ids \ {<<exec.id, r>>} : jobs'[j] = jobs[j]
  BY <1>1, <1>4, AdmittedSane DEF ReviewInv, Kind
<1>6. \A d \in Discovery : d \in Ids /\ jobs'[d] = jobs[d]
  BY <1>4, <1>5 DEF Ids
<1>7. \A j \in Ids : Quietly(jobs[j], jobs'[j])
  BY <1>5 DEF Quietly
<1>8. \A j \in Ids : jobs[j].state # "none" => jobs'[j].state # "none"
  BY <1>5, <1>7, QuietRows DEF ReviewInv
<1>9. /\ exec'.at = "put" /\ exec'.id = exec.id /\ exec'.full = exec.full
      /\ exec'.todo = exec.todo \ {r} /\ ExecTyped'
  BY <1>1 DEF Put, ReviewInv, ExecTyped
<1>10. ExecFits'
  <2>1. Mine' = Mine
    BY <1>2, <1>6, <1>9 DEF Mine
  <2>. QED BY <1>2, <1>3, <1>9, <2>1 DEF ExecFits, Reviewing
<1>11. ASSUME NEW d \in Discovery PROVE Listed(d)'
  <2>1. SUFFICES ASSUME d \notin shrunk
        PROVE  /\ roster[d] \subseteq member
               /\ \A q \in roster[d] \ Archived :
                    jobs'[<<d, q>>].state # "none" \/ Ahead(d, q)'
    BY <1>3 DEF Listed
  <2>2. /\ roster[d] \subseteq member /\ roster[d] \subseteq Repo
        /\ \A q \in roster[d] \ Archived :
             jobs[<<d, q>>].state # "none" \/ Ahead(d, q)
    BY <2>1 DEF ReviewInv, Listed, ListTyped
  <2>3. ASSUME NEW q \in roster[d] \ Archived
        PROVE  jobs'[<<d, q>>].state # "none" \/ Ahead(d, q)'
    <3>1. <<d, q>> \in Ids
      BY <2>2 DEF Ids
    <3>2. CASE jobs[<<d, q>>].state # "none"
      BY <1>8, <3>1, <3>2
    <3>3. CASE d = exec.id /\ q = r
      BY <1>5, <3>3
    <3>4. CASE Ahead(d, q) /\ ~(d = exec.id /\ q = r)
      <4>1. Position(q)' = Position(q)
        BY <1>3 DEF Position
      <4>2. jobs'[d] = jobs[d]
        BY <1>6
      <4>3. /\ jobs'[d].state # "done"
            /\ (jobs'[d].page - 1) * PageSize < Position(q)
        BY <3>4, <4>2 DEF Ahead
      <4>4. d = exec.id =>
              \/ q \in exec'.todo
              \/ exec'.full /\ jobs'[d].page * PageSize < Position(q)
        BY <1>1, <1>9, <3>4, <4>2 DEF Ahead, Listing
      <4>5. Listing(d)' => d = exec.id
        BY <1>9 DEF Listing
      <4>. QED BY <4>1, <4>3, <4>4, <4>5 DEF Ahead
    <3>. QED BY <2>2, <3>2, <3>3, <3>4
  <2>. QED BY <2>2, <2>3
<1>12. Stays
  <2>1. ScoreIsKept /\ TerminalIsFinal
    BY <1>5, <1>7, QuietRows DEF ReviewInv, ScoreIsKept, TerminalIsFinal
  <2>2. FinishedIsVisible
    BY <1>5, <1>7, QuietRows DEF ReviewInv, FinishedIsVisible
  <2>. QED BY <2>1, <2>2 DEF Stays
<1>13. ScoreNeverFatal
  BY <1>1 DEF ScoreNeverFatal
<1>14. WrittenTyped' /\ ListTyped'
  BY <1>1, <1>3 DEF ReviewInv, WrittenTyped, OneComment, ListTyped
<1>. QED
  BY <1>1, <1>3, <1>5, <1>9, <1>10, <1>11, <1>12, <1>13, <1>14 DEF ReviewInv

LEMMA TurnPageKeeps ==
  ASSUME ReviewInv, TurnPage
  PROVE  ReviewInv' /\ Stays /\ ScoreNeverFatal
<1>1. /\ exec.at = "put" /\ exec.todo = {} /\ Quiet /\ queue' = queue
      /\ ready' = ready /\ tags' = tags /\ comment' = comment
      /\ posted' = posted /\ UNCHANGED discoveries
  BY DEF TurnPage, StepAt, written
<1>2. /\ exec.id \in Discovery /\ exec.id \in Ids /\ Mine = jobs[exec.id]
      /\ Mine.state = "running" /\ Mine.page \in Nat \ {0}
      /\ exec.id \notin dead /\ Mine.kind = "discover" /\ Mine \in RowType
      /\ Sound(exec.id, Mine, dead)
  BY <1>1, Discovering, Under
<1>3. /\ WorldTyped' /\ dead' = dead /\ member' = member
      /\ roster' = roster /\ shrunk' = shrunk
  BY <1>1, QuietRest
<1>4. PICK new \in RowType :
        /\ jobs' = [jobs EXCEPT ![exec.id] = new] /\ exec' = NoExec
        /\ Sound(exec.id, new, dead) /\ new.score = Mine.score
        /\ new.kind = "discover"
        /\ \/ exec.full /\ new.state = "pending" /\ new.page = Mine.page + 1
           \/ ~exec.full /\ new.state = "done" /\ new.page = Mine.page
  <2>1. CASE exec.full
    <3> DEFINE new == [Mine EXCEPT !.state = "pending", !.lease = 0, !.due = 0,
                                   !.page = Mine.page + 1]
    <3>1. jobs' = [jobs EXCEPT ![exec.id] = new] /\ exec' = NoExec
      BY <2>1 DEF TurnPage, SetMine
    <3>2. /\ new.state = "pending" /\ new.page = Mine.page + 1
          /\ new.kind = Mine.kind /\ new.score = Mine.score
          /\ new.repo = Mine.repo /\ new.why = Mine.why
      BY <1>2 DEF RowType
    <3>3. new \in RowType
      <4>1. /\ "pending" \in State /\ 0 \in 0..Lease /\ 0 \in Nat
            /\ Mine.page + 1 \in Nat \ {0}
        BY <1>2, Times DEF State
      <4>. QED BY <1>2, <4>1 DEF RowType
    <3> HIDE DEF new
    <3>4. Sound(exec.id, new, dead)
      BY <1>2, <3>2 DEF Sound
    <3>. QED BY <1>2, <2>1, <3>1, <3>2, <3>3, <3>4
  <2>2. CASE ~exec.full
    <3> DEFINE new == [Mine EXCEPT !.state = "done", !.lease = 0, !.why = "-"]
    <3>1. jobs' = [jobs EXCEPT ![exec.id] = new] /\ exec' = NoExec
      BY <2>2 DEF TurnPage, SetMine, Finish
    <3>2. /\ new.state = "done" /\ new.page = Mine.page /\ new.why = "-"
          /\ new.kind = Mine.kind /\ new.score = Mine.score
          /\ new.repo = Mine.repo
      BY <1>2 DEF RowType
    <3>3. new \in RowType
      <4>1. "done" \in State /\ 0 \in 0..Lease
        BY Times DEF State, Terminal
      <4>. QED BY <1>2, <4>1 DEF RowType
    <3> HIDE DEF new
    <3>4. Sound(exec.id, new, dead)
      BY <1>2, <3>2 DEF Sound
    <3>. QED BY <1>2, <2>2, <3>1, <3>2, <3>3, <3>4
  <2>. QED BY <2>1, <2>2
<1>5. /\ Sane(jobs', dead) /\ jobs'[exec.id] = new
      /\ \A j \in Ids \ {exec.id} : jobs'[j] = jobs[j]
  BY <1>1, <1>4, MineChanged
<1>6. \A j \in Ids : jobs[j].state # "none" => jobs'[j].state # "none"
  BY <1>4, <1>5
<1>7. exec'.at = "idle" /\ ExecTyped' /\ ExecFits'
  BY <1>4 DEF ExecFits, ExecTyped, NoExec, Reviewing, JobPlace
<1>8. ASSUME NEW d \in Discovery PROVE Listed(d)'
  <2>1. SUFFICES ASSUME d \notin shrunk
        PROVE  /\ roster[d] \subseteq member
               /\ \A q \in roster[d] \ Archived :
                    jobs'[<<d, q>>].state # "none" \/ Ahead(d, q)'
    BY <1>3 DEF Listed
  <2>2. /\ roster[d] \subseteq member /\ roster[d] \subseteq Repo
        /\ \A q \in roster[d] \ Archived :
             jobs[<<d, q>>].state # "none" \/ Ahead(d, q)
    BY <2>1 DEF ReviewInv, Listed, ListTyped
  <2>3. ASSUME NEW q \in roster[d] \ Archived
        PROVE  jobs'[<<d, q>>].state # "none" \/ Ahead(d, q)'
    <3>1. <<d, q>> \in Ids /\ d \in Ids
      BY <2>2 DEF Ids
    <3>2. CASE jobs[<<d, q>>].state # "none"
      BY <1>6, <3>1, <3>2
    <3>3. CASE Ahead(d, q)
      <4>1. Position(q)' = Position(q)
        BY <1>3 DEF Position
      <4>2. ~Listing(d)'
        BY <1>7 DEF Listing
      <4>3. /\ jobs'[d].state # "done"
            /\ (jobs'[d].page - 1) * PageSize < Position(q)
        <5>1. CASE d # exec.id
          BY <1>5, <3>1, <3>3, <5>1 DEF Ahead
        <5>2. CASE d = exec.id
          <6>1. exec.full /\ Mine.page * PageSize < Position(q)
            BY <1>1, <1>2, <3>3, <5>2 DEF Ahead, Listing
          <6>2. new.state = "pending" /\ new.page - 1 = Mine.page
            BY <1>2, <1>4, <6>1
          <6>. QED BY <1>5, <5>2, <6>1, <6>2
        <5>. QED BY <5>1, <5>2
      <4>. QED BY <4>1, <4>2, <4>3 DEF Ahead
    <3>. QED BY <2>2, <3>2, <3>3
  <2>. QED BY <2>2, <2>3
<1>9. Stays
  BY <1>2, <1>4, <1>5
  DEF Stays, ScoreIsKept, TerminalIsFinal, FinishedIsVisible, Terminal
<1>10. ScoreNeverFatal
  BY <1>1 DEF ScoreNeverFatal
<1>11. /\ WrittenTyped' /\ ListTyped'
       /\ queue' \subseteq Ids /\ dead' \subseteq Ids
  BY <1>1, <1>3 DEF ReviewInv, WrittenTyped, OneComment, ListTyped
<1>. QED
  BY <1>3, <1>5, <1>7, <1>8, <1>9, <1>10, <1>11 DEF ReviewInv

-----------------------------------------------------------------------------
(* The jobs, together.                                                     *)

LEMMA ReviewStep ==
  ASSUME ReviewInv, [ReviewNext]_reviewVars
  PROVE  ReviewInv' /\ [Stays /\ ScoreNeverFatal]_reviewVars
<1>1. CASE World \/ \E on \in BOOLEAN : Deploy(on)
  BY <1>1, WorldKeeps
<1>2. CASE Hook
  BY <1>2, HooksTell, QuietKeeps
<1>3. CASE Cron \/ \E x \in Retry : \E i \in Ids : RetryFailed(x, i)
  BY <1>3, OthersTell, QuietKeeps
<1>4. CASE Tick
  BY <1>4, TimePasses, QuietKeeps
<1>5. CASE \E i \in Ids : Deliver(i)
  BY <1>5, DeliverKeeps
<1>6. CASE Throws \/ Crash
  BY <1>6, ThrowsKeeps, CrashKeeps
<1>7. CASE JobStep
  <2>1. CASE Discover \/ TurnPage \/ \E r \in Repo : Put(r)
    BY <2>1, DiscoverKeeps, TurnPageKeeps, PutKeeps
  <2>2. CASE Token \/ InitializeLabels \/ ReadIssue \/ Score
    BY <2>2, TokenKeeps, LabelsKeeps, IssueKeeps, ScoreKeeps
  <2>3. CASE Apply \/ Strip \/ Comment \/ QueueMail
    BY <2>3, ApplyKeeps, StripKeeps, CommentKeeps, MailKeeps
  <2>4. CASE Bury \/ Drop
    BY <2>4, BuryKeeps, DropKeeps
  <2>. QED BY <1>7, <2>1, <2>2, <2>3, <2>4 DEF JobStep
<1>8. CASE UNCHANGED reviewVars
  <2>1. /\ jobs' = jobs /\ queue' = queue /\ dead' = dead /\ exec' = exec
        /\ hooks' = hooks /\ installed' = installed /\ member' = member
        /\ open' = open /\ ready' = ready /\ tags' = tags
        /\ comment' = comment /\ posted' = posted /\ enabled' = enabled
        /\ faults' = faults /\ roster' = roster /\ shrunk' = shrunk
    BY <1>8 DEF reviewVars, github, written, discoveries
  <2>2. \A d \in Discovery : Listed(d)'
    BY <2>1, ListedKept
  <2>3. ExecFits'
    BY <2>1 DEF ReviewInv, ExecFits, Mine
  <2>. QED
    BY <1>8, <2>1, <2>2, <2>3 DEF ReviewInv, ExecTyped, WorldTyped,
      WrittenTyped, ListTyped, OneComment
<1>. QED
  BY <1>1, <1>2, <1>3, <1>4, <1>5, <1>6, <1>7, <1>8 DEF ReviewNext

\* At every moment each row and what the execution has done fit each other,
\* and a discovery's page is not behind a repository that it should find
\* and that has no job (platform/github-app/src/jobs.ts).
THEOREM ReviewInvariant == ReviewSpec => []ReviewInv
<1>1. ReviewInit => ReviewInv
  <2> SUFFICES ASSUME ReviewInit PROVE ReviewInv
    OBVIOUS
  <2>1. Sane(jobs, dead)
    BY NoEntrySound DEF ReviewInit, Sane
  <2>2. ExecTyped /\ ExecFits
    BY DEF ReviewInit, ExecTyped, ExecFits, NoExec, JobPlace, Reviewing
  <2>3. member \subseteq Repo
    BY SetAssumption DEF SetAssumption, ReviewInit
  <2>4. WorldTyped
    BY <2>3, Times DEF ReviewInit, WorldTyped
  <2>5. WrittenTyped
    BY DEF ReviewInit, WrittenTyped, OneComment
  <2>6. ListTyped /\ \A d \in Discovery : Listed(d)
    BY DEF ReviewInit, ListTyped, Listed
  <2>. QED
    BY <2>1, <2>2, <2>4, <2>5, <2>6 DEF ReviewInit, ReviewInv
<1>2. ReviewInv /\ [ReviewNext]_reviewVars => ReviewInv'
  BY ReviewStep
<1>. QED BY <1>1, <1>2, PTL DEF ReviewSpec

\* An issue has at most one comment, which with the label shows the stored
\* score when the job is done; scores stay and terminal states too, trouble
\* with the score alone buries nothing, the dead letters are the jobs that
\* could not be retried, and a finished discovery has a job for each
\* repository (platform/github-app/src/jobs.ts, review.ts).
THEOREM ReviewSafeHolds == ReviewSpec => ReviewSafe
<1>1. ReviewInv =>
        ReviewTypeOK /\ OneComment /\ DeadLetters /\ DiscoveryComplete
  <2> SUFFICES ASSUME ReviewInv
      PROVE ReviewTypeOK /\ OneComment /\ DeadLetters /\ DiscoveryComplete
    OBVIOUS
  <2>1. ReviewTypeOK
    <3>1. exec # NoExec => exec.id \in Ids
      BY DEF ReviewInv, ExecFits
    <3>. QED
      BY <3>1 DEF ReviewInv, ReviewTypeOK, Sane, ExecTyped, WorldTyped,
        WrittenTyped, ListTyped
  <2>2. OneComment
    BY DEF ReviewInv, WrittenTyped
  <2>3. DeadLetters
    BY DEF ReviewInv, Sane, Sound, DeadLetters
  <2>4. DiscoveryComplete
    <3> SUFFICES ASSUME NEW d \in Discovery, jobs[d].state = "done",
                        d \notin shrunk, NEW r \in roster[d] \ Archived
        PROVE  jobs[<<d, r>>].state # "none"
      BY DEF DiscoveryComplete
    <3>1. jobs[<<d, r>>].state # "none" \/ Ahead(d, r)
      BY DEF ReviewInv, Listed
    <3>. QED BY <3>1 DEF Ahead
  <2>. QED BY <2>1, <2>2, <2>3, <2>4
<1>2. ReviewInv /\ [ReviewNext]_reviewVars =>
        [/\ FinishedIsVisible /\ ScoreIsKept
         /\ ScoreNeverFatal /\ TerminalIsFinal]_reviewVars
  BY ReviewStep DEF Stays
<1>. QED
  BY <1>1, <1>2, ReviewInvariant, PTL DEF ReviewSpec, ReviewSafe

-----------------------------------------------------------------------------
(***************************************************************************)
(* Proofs about GorseProjection, for any users, projects, relays, workers  *)
(* and bounds.  The inductive invariant GorseInv says of each row that its *)
(* message stays what it was and that the message of a deletion names the  *)
(* row of its tombstone (RowInv, TombInv), of a worker that it is at a     *)
(* place its message leads to (WorkInv), of a relay that what it has sent  *)
(* is carried or handled before it says so (LostInv), and of the one       *)
(* worker that whom the recommender knows, or is about to hear of, has a   *)
(* profile or a tombstone, and is unknown when the tombstone goes          *)
(* (EraseInv).                                                             *)
(***************************************************************************)

Topic == {"project", "profile", "save", "unsave", "delete"}
Message ==
  {m \in [topic : Topic, u : FeedUser \cup {NoOne}, r : FeedRepo \cup {NoOne},
          id : Nat] :
     /\ m.topic # "project" => m.u \in FeedUser
     /\ m.topic \in {"project", "save", "unsave"} => m.r \in FeedRepo}
OutRow ==
  {row \in [msg : Message, state : {"ready", "held", "later", "done", "gone"},
          by : Relay \cup {NoOne}, free : BOOLEAN, tied : BOOLEAN] :
     row.state = "held" => row.by \in Relay}
OutIds == 1..Len(outbox)
\* A message of a deletion names the row it was first queued with.
RowInv ==
  /\ outbox \in Seq(OutRow)
  /\ \A i \in OutIds : outbox[i].msg.topic = "delete" =>
       /\ outbox[i].msg.id \in OutIds
       /\ outbox[outbox[i].msg.id].msg = outbox[i].msg
Tomb == [u : FeedUser, id : Nat, version : Nat]
TombInv ==
  /\ IsFiniteSet(tombs) /\ tombs \subseteq Tomb
  /\ \A t \in tombs :
       /\ t.version <= MaxFacts - facts /\ t.id \in OutIds
       /\ outbox[t.id].msg = Msg("delete", t.u, NoOne, t.id)
FactInv ==
  /\ facts \in 0..MaxFacts
  /\ profile \in [FeedUser -> Nat] /\ project \in [FeedRepo -> Nat]
  /\ \A u \in FeedUser : profile[u] <= MaxFacts - facts
RelayInv ==
  /\ batch \in [Relay -> SUBSET OutIds] /\ sent \in [Relay -> Nat]
  /\ \A q \in Relay : sent[q] \in batch[q] \cup {0}
WorkStep ==
  {"idle", "user", "put user", "item", "put item", "feedback", "unsave",
   "erase", "forget", "ack"}
Suits(topic, step) ==
  /\ step \in {"user", "put user"} => topic \in {"profile", "save"}
  /\ step \in {"item", "put item"} => topic \in {"project", "save"}
  /\ step = "feedback" => topic = "save"
  /\ step = "unsave" => topic = "unsave"
  /\ step \in {"erase", "forget"} => topic = "delete"
WorkFits(w) ==
  /\ work[w].at = "idle" => work[w] = NoWork
  /\ work[w].at # "idle" =>
       work[w].id \in OutIds /\ Suits(MsgOf(w).topic, work[w].at)
Work == [id : Nat, at : WorkStep, user : Nat, item : Nat]
WorkInv ==
  /\ messages \in Seq(OutIds) /\ handled \subseteq OutIds
  /\ work \in [GorseWorker -> Work]
  /\ \A w \in GorseWorker : WorkFits(w)
CopyInv ==
  gorse \in [user : [FeedUser -> Nat], item : [FeedRepo -> Nat],
             saves : SUBSET (FeedUser \X FeedRepo)]
\* What a relay has published is carried or handled before it says so.
LostInv ==
  /\ NothingLost
  /\ \A q \in Relay : sent[q] # 0 => sent[q] \in Carried \cup handled
\* Whom the recommender knows, or is about to hear of.
Shown(u) == gorse.user[u] # 0 \/ \E s \in gorse.saves : s[1] = u
Told(u) == \E w \in GorseWorker : work[w].at = "put user" /\ MsgOf(w).u = u
Ending(u) == \E t \in tombs : t.u = u
EraseInv ==
  /\ \A u \in FeedUser : Shown(u) \/ Told(u) => profile[u] > 0 \/ Ending(u)
  /\ \A w \in GorseWorker : work[w].at = "forget" => ~Shown(MsgOf(w).u)
GorseInv ==
  /\ RowInv /\ TombInv /\ FactInv /\ RelayInv /\ WorkInv /\ CopyInv
  /\ live \in BOOLEAN /\ LostInv /\ (OneWorker => EraseInv)

LEMMA Largest ==
  ASSUME NEW S \in SUBSET Nat, S # {}, NEW b \in Nat, \A n \in S : n <= b
  PROVE  Max(S) \in S /\ \A n \in S : n <= Max(S)
<1> DEFINE T == {k \in 0..b : b - k \in S}
<1>1. T \in SUBSET Nat /\ T # {}
  <2>1. PICK n \in S : TRUE
    OBVIOUS
  <2>2. b - n \in 0..b /\ b - (b - n) = n
    BY <2>1
  <2>3. b - n \in T
    BY <2>2
  <2>4. T \in SUBSET Nat
    OBVIOUS
  <2> QED BY <2>3, <2>4
<1>2. PICK k \in T : \A l \in T : k <= l
  <2> HIDE DEF T
  <2> QED BY <1>1, Smallest
<1>3. b - k \in S /\ k \in Nat /\ k <= b
  BY <1>2
<1>4. ASSUME NEW n \in S
      PROVE  n <= b - k
  <2>1. b - n \in 0..b /\ b - (b - n) = n
    OBVIOUS
  <2>2. k <= b - n
    BY <2>1, <1>2
  <2> QED BY <2>2, <1>3
<1>5. \E m \in S : \A n \in S : m >= n
  BY <1>3, <1>4
<1>6. Max(S) \in S /\ \A n \in S : Max(S) >= n
  BY <1>5 DEF Max
<1> QED BY <1>6

LEMMA Least ==
  ASSUME NEW S \in SUBSET Nat, S # {}
  PROVE  Min(S) \in S
<1>1. \E m \in S : \A n \in S : m =< n
  BY Smallest
<1> QED BY <1>1 DEF Min

-----------------------------------------------------------------------------
(* The outbox. *)

\* What every step leaves of the rows that are there.
OutMsgs ==
  /\ outbox' \in Seq(OutRow) /\ Len(outbox) <= Len(outbox')
  /\ \A i \in OutIds : outbox'[i].msg = outbox[i].msg
\* What most steps leave of them: nothing is called delivered.
OutKept ==
  /\ OutMsgs
  /\ \A i \in OutIds : outbox'[i].state = "done" => outbox[i].state = "done"
  /\ \A i \in OutIds' : i \notin OutIds => outbox'[i].state # "done"

LEMMA OutKeepsMsgs == OutKept => OutMsgs
BY DEF OutKept

LEMMA OutLen ==
  ASSUME GorseInv
  PROVE  /\ Len(outbox) \in Nat /\ RowIds = OutIds /\ outbox \in Seq(OutRow)
         /\ \A i \in OutIds : outbox[i] \in OutRow /\ outbox[i].msg \in Message
<1>1. outbox \in Seq(OutRow)
  BY DEF GorseInv, RowInv
<1>2. /\ Len(outbox) \in Nat /\ DOMAIN outbox = 1..Len(outbox)
      /\ \A i \in 1..Len(outbox) : outbox[i] \in OutRow
  BY <1>1
<1> QED BY <1>1, <1>2 DEF RowIds, OutIds, OutRow

LEMMA OutNew ==
  ASSUME NEW m \in Message, NEW tied \in BOOLEAN
  PROVE  /\ OutboxRow(m, tied) \in OutRow
         /\ OutboxRow(m, tied).state = "ready" /\ OutboxRow(m, tied).msg = m
BY DEF OutboxRow, OutRow

LEMMA AppendKept ==
  ASSUME GorseInv, NEW m \in Message, NEW tied \in BOOLEAN, Append1(m, tied)
  PROVE  /\ OutKept /\ Len(outbox') = Len(outbox) + 1
         /\ \A i \in OutIds : outbox'[i] = outbox[i]
         /\ outbox'[Len(outbox) + 1].msg = m
<1> DEFINE row == OutboxRow(m, tied)
<1>1. row \in OutRow /\ row.state = "ready" /\ row.msg = m
  BY OutNew
<1> HIDE DEF row
<1>2. outbox' = Append(outbox, row) /\ outbox \in Seq(OutRow)
  BY OutLen DEF Append1, row
<1>3. /\ outbox' \in Seq(OutRow) /\ Len(outbox') = Len(outbox) + 1
      /\ \A i \in 1..Len(outbox) : outbox'[i] = outbox[i]
      /\ outbox'[Len(outbox) + 1] = row
  BY <1>1, <1>2, AppendProperties
<1>4. \A i \in OutIds' : i \notin OutIds => i = Len(outbox) + 1
  BY <1>3, OutLen DEF OutIds
<1> QED BY <1>1, <1>3, <1>4, OutLen DEF OutKept, OutMsgs, OutIds

LEMMA AppendRowInv ==
  ASSUME GorseInv, NEW m \in Message, NEW tied \in BOOLEAN, Append1(m, tied),
         m.topic = "delete" => m.id = Len(outbox) + 1
  PROVE  RowInv'
<1>1. /\ OutKept /\ Len(outbox') = Len(outbox) + 1
      /\ \A i \in OutIds : outbox'[i] = outbox[i]
      /\ outbox'[Len(outbox) + 1].msg = m
  BY AppendKept
<1>2. OutIds' = OutIds \cup {Len(outbox) + 1} /\ Len(outbox) \in Nat
  BY <1>1, OutLen DEF OutIds
<1>3. ASSUME NEW i \in OutIds', outbox'[i].msg.topic = "delete"
      PROVE  /\ outbox'[i].msg.id \in OutIds'
             /\ outbox'[outbox'[i].msg.id].msg = outbox'[i].msg
  <2>1. CASE i \in OutIds
    BY <2>1, <1>1, <1>2, <1>3 DEF GorseInv, RowInv
  <2>2. CASE i = Len(outbox) + 1
    BY <2>2, <1>1, <1>2, <1>3
  <2> QED BY <2>1, <2>2, <1>2
<1> QED BY <1>1, <1>3 DEF RowInv, OutKept, OutMsgs, OutIds

LEMMA KeptRelays ==
  ASSUME GorseInv, OutMsgs, UNCHANGED relays
  PROVE  RelayInv'
<1>1. OutIds \subseteq OutIds'
  BY OutLen DEF OutMsgs, OutIds
<1>2. batch' = batch /\ sent' = sent
  BY DEF relays
<1> QED BY <1>1, <1>2 DEF GorseInv, RelayInv

LEMMA KeptFits ==
  ASSUME GorseInv, OutMsgs, NEW w \in GorseWorker, work'[w] = work[w]
  PROVE  WorkFits(w)' /\ (work[w].at # "idle" => MsgOf(w)' = MsgOf(w))
<1>1. WorkFits(w) /\ OutIds \subseteq OutIds'
  BY OutLen DEF GorseInv, WorkInv, OutMsgs, OutIds
<1>2. work[w].at # "idle" => outbox'[work[w].id].msg = outbox[work[w].id].msg
  BY <1>1 DEF WorkFits, OutMsgs
<1> QED BY <1>1, <1>2 DEF WorkFits, MsgOf

LEMMA KeptWork ==
  ASSUME GorseInv, OutMsgs, UNCHANGED <<messages, work, handled>>
  PROVE  WorkInv'
<1>1. OutIds \subseteq OutIds'
  BY OutLen DEF OutMsgs, OutIds
<1>2. messages' \in Seq(OutIds')
  <2>1. messages \in Seq(OutIds)
    BY DEF GorseInv, WorkInv
  <2>2. messages \in Seq(OutIds')
    BY <2>1, <1>1, SeqMonotonic
  <2> QED BY <2>2
<1>3. \A w \in GorseWorker : WorkFits(w)'
  BY KeptFits
<1> QED BY <1>1, <1>2, <1>3 DEF GorseInv, WorkInv

LEMMA KeptLost ==
  ASSUME GorseInv, OutKept, UNCHANGED <<messages, work, handled, sent>>
  PROVE  LostInv'
<1>1. Carried' = Carried
  BY DEF Carried
<1>2. RowIds' = OutIds'
  BY DEF OutKept, OutMsgs, RowIds, OutIds
<1>3. ASSUME NEW i \in OutIds', outbox'[i].state = "done"
      PROVE  i \in Carried \cup handled
  BY <1>3, OutLen DEF OutKept, OutMsgs, GorseInv, LostInv, NothingLost
<1> QED BY <1>1, <1>2, <1>3 DEF GorseInv, LostInv, NothingLost

\* Profiles that go leave a tombstone, and a tombstone stays.
LEMMA KeptErase ==
  ASSUME GorseInv, OutMsgs, UNCHANGED <<gorse, work>>, tombs \subseteq tombs',
         \A u \in FeedUser : profile[u] > 0 =>
           profile'[u] > 0 \/ \E t \in tombs' : t.u = u
  PROVE  OneWorker => EraseInv'
<1> SUFFICES ASSUME OneWorker
             PROVE  EraseInv'
  OBVIOUS
<1>1. \A w \in GorseWorker : work[w].at # "idle" => MsgOf(w)' = MsgOf(w)
  BY KeptFits
<1>2. EraseInv
  BY DEF GorseInv
<1>3. \A u \in FeedUser : Told(u)' => Told(u)
  BY <1>1 DEF Told
<1>4. \A u : Shown(u)' <=> Shown(u)
  BY DEF Shown
<1>5. \A u \in FeedUser : Ending(u) => Ending(u)'
  BY DEF Ending
<1>6. \A u \in FeedUser : Shown(u)' \/ Told(u)' => profile'[u] > 0 \/ Ending(u)'
  BY <1>2, <1>3, <1>4, <1>5 DEF EraseInv, Ending
<1>7. \A w \in GorseWorker : work'[w].at = "forget" => ~Shown(MsgOf(w).u)'
  BY <1>1, <1>2, <1>4 DEF EraseInv, Shown
<1> QED BY <1>6, <1>7 DEF EraseInv

-----------------------------------------------------------------------------
(* Facts. *)

LEMMA FirstVersionFits ==
  ASSUME GorseInv, NEW u \in FeedUser
  PROVE  /\ FirstVersion(u) \in 1..(MaxFacts - facts + 1)
         /\ MaxFacts - facts \in Nat
<1> DEFINE ended == {t.version : t \in {d \in tombs : d.u = u}}
<1>1. MaxFacts - facts \in Nat
  BY GorseAssumption DEF GorseAssumption, GorseInv, FactInv
<1>2. ended \in SUBSET Nat /\ \A n \in ended : n <= MaxFacts - facts
  BY DEF GorseInv, TombInv, Tomb
<1>3. FirstVersion(u) = IF ended = {} THEN 1 ELSE 1 + Max(ended)
  BY DEF FirstVersion
<1> HIDE DEF ended
<1>4. ended # {} => Max(ended) \in ended
  BY <1>1, <1>2, Largest
<1>5. CASE ended = {}
  BY <1>1, <1>3, <1>5
<1>6. CASE ended # {}
  <2>1. Max(ended) \in Nat /\ Max(ended) <= MaxFacts - facts
    BY <1>2, <1>4, <1>6
  <2> QED BY <1>1, <1>3, <1>6, <2>1
<1> QED BY <1>5, <1>6

LEMMA KeptTombs ==
  ASSUME GorseInv, OutMsgs, tombs' \subseteq tombs,
         facts' \in {facts, facts - 1}
  PROVE  TombInv'
<1>1. IsFiniteSet(tombs')
  BY FS_Subset DEF GorseInv, TombInv
<1>2. OutIds \subseteq OutIds'
  BY OutLen DEF OutMsgs, OutIds
<1>3. facts \in Nat /\ MaxFacts \in Nat
  BY GorseAssumption DEF GorseAssumption, GorseInv, FactInv
<1>4. ASSUME NEW t \in tombs'
      PROVE  /\ t \in Tomb /\ t.version <= MaxFacts - facts'
             /\ t.id \in OutIds'
             /\ outbox'[t.id].msg = Msg("delete", t.u, NoOne, t.id)
  <2>1. /\ t \in Tomb /\ t.version <= MaxFacts - facts /\ t.id \in OutIds
        /\ outbox[t.id].msg = Msg("delete", t.u, NoOne, t.id)
    BY <1>4 DEF GorseInv, TombInv
  <2>2. t.version \in Nat
    BY <2>1 DEF Tomb
  <2> QED BY <2>1, <2>2, <1>2, <1>3 DEF OutMsgs
<1> QED BY <1>1, <1>4 DEF TombInv

\* A fact that queues a row, or none, and changes no tombstone.
LEMMA FactStep ==
  ASSUME GorseInv, Fact, OutKept, RowInv', tombs' = tombs,
         profile' \in [FeedUser -> Nat], project' \in [FeedRepo -> Nat],
         \A u \in FeedUser : profile'[u] \in profile[u]..(MaxFacts - facts')
  PROVE  GorseInv'
<1>1. /\ UNCHANGED relays /\ UNCHANGED <<messages, work, handled, sent>>
      /\ UNCHANGED <<gorse, work, live>> /\ facts > 0 /\ facts' = facts - 1
  BY DEF Fact, relays, side
<1>2. RelayInv'
  BY <1>1, KeptRelays, OutKeepsMsgs
<1>3. WorkInv'
  BY <1>1, KeptWork, OutKeepsMsgs
<1>4. LostInv'
  BY <1>1, KeptLost
<1>5. TombInv'
  BY <1>1, KeptTombs, OutKeepsMsgs
<1>6. FactInv'
  BY <1>1, GorseAssumption DEF GorseInv, FactInv, GorseAssumption
<1>7. OneWorker => EraseInv'
  <2>1. \A u \in FeedUser : profile[u] > 0 => profile'[u] > 0
    BY DEF GorseInv, FactInv
  <2> QED BY <1>1, <2>1, KeptErase, OutKeepsMsgs
<1>8. CopyInv' /\ live' \in BOOLEAN
  BY <1>1 DEF GorseInv, CopyInv
<1> QED BY <1>2, <1>3, <1>4, <1>5, <1>6, <1>7, <1>8 DEF GorseInv

\* Profiles stay below the number of facts so far.
LEMMA FactBound ==
  ASSUME GorseInv, Fact
  PROVE  /\ MaxFacts - facts' = MaxFacts - facts + 1
         /\ MaxFacts - facts \in Nat
         /\ \A u \in FeedUser :
              profile[u] \in Nat /\ profile[u] <= MaxFacts - facts
BY GorseAssumption DEF GorseAssumption, GorseInv, FactInv, Fact

LEMMA EvaluateStep ==
  ASSUME GorseInv, NEW r \in FeedRepo, Evaluate(r)
  PROVE  GorseInv'
<1> DEFINE m == Msg("project", NoOne, r, 0)
<1>1. m \in Message /\ m.topic = "project"
  BY DEF Msg, Message, Topic
<1>2. Fact /\ Append1(m, FALSE) /\ UNCHANGED <<profile, saved, tombs>>
  BY DEF Evaluate
<1> HIDE DEF m
<1>3. OutKept /\ RowInv'
  BY <1>1, <1>2, AppendKept, AppendRowInv
<1>4. project' \in [FeedRepo -> Nat]
  BY DEF Evaluate, GorseInv, FactInv
<1>5. profile' \in [FeedUser -> Nat]
  BY <1>2 DEF GorseInv, FactInv
<1>6. \A u \in FeedUser : profile'[u] \in profile[u]..(MaxFacts - facts')
  BY <1>2, FactBound
<1> QED BY <1>2, <1>3, <1>4, <1>5, <1>6, FactStep

LEMMA LoginStep ==
  ASSUME GorseInv, NEW u \in FeedUser, Login(u)
  PROVE  GorseInv'
<1> DEFINE m == Msg("profile", u, NoOne, FirstVersion(u))
<1>1. /\ FirstVersion(u) \in 1..(MaxFacts - facts + 1)
      /\ MaxFacts - facts \in Nat
  BY FirstVersionFits
<1>2. m \in Message /\ m.topic = "profile"
  BY <1>1 DEF Msg, Message, Topic
<1>3. /\ Fact
      /\ Append1(m, FALSE) \/ outbox' = outbox
      /\ UNCHANGED <<project, saved, tombs>> /\ profile[u] = 0
      /\ profile' = [profile EXCEPT ![u] = FirstVersion(u)]
  BY DEF Login
<1>4. Fact
  BY DEF Login
<1> HIDE DEF m
<1>5. OutKept /\ RowInv'
  <2>1. CASE Append1(m, FALSE)
    BY <2>1, <1>2, AppendKept, AppendRowInv
  <2>2. CASE outbox' = outbox
    BY <2>2, OutLen DEF OutKept, OutMsgs, GorseInv, RowInv, OutIds
  <2> QED BY <1>3, <2>1, <2>2
<1>6. profile' \in [FeedUser -> Nat] /\ project' \in [FeedRepo -> Nat]
  BY <1>1, <1>3 DEF GorseInv, FactInv
<1>7. \A v \in FeedUser : profile'[v] \in profile[v]..(MaxFacts - facts')
  BY <1>1, <1>3, <1>4, FactBound DEF GorseInv, FactInv
<1> QED BY <1>3, <1>4, <1>5, <1>6, <1>7, FactStep

LEMMA PreferStep ==
  ASSUME GorseInv, NEW u \in FeedUser, Prefer(u)
  PROVE  GorseInv'
<1> DEFINE m == Msg("profile", u, NoOne, 0)
<1>1. m \in Message /\ m.topic = "profile"
  BY DEF Msg, Message, Topic
<1>2. /\ Fact /\ Append1(m, FALSE) /\ UNCHANGED <<project, saved, tombs>>
      /\ profile' = [profile EXCEPT ![u] = @ + 1]
  BY DEF Prefer
<1> HIDE DEF m
<1>3. OutKept /\ RowInv'
  BY <1>1, <1>2, AppendKept, AppendRowInv
<1>4. profile' \in [FeedUser -> Nat] /\ project' \in [FeedRepo -> Nat]
  BY <1>2 DEF GorseInv, FactInv
<1>5. \A v \in FeedUser : profile'[v] \in profile[v]..(MaxFacts - facts')
  BY <1>2, FactBound DEF GorseInv, FactInv
<1> QED BY <1>2, <1>3, <1>4, <1>5, FactStep

LEMMA SaveProjectStep ==
  ASSUME GorseInv, NEW u \in FeedUser, NEW r \in FeedRepo, SaveProject(u, r)
  PROVE  GorseInv'
<1>1. PICK topic \in {"save", "unsave"} : Append1(Msg(topic, u, r, 0), TRUE)
  BY DEF SaveProject
<1> DEFINE m == Msg(topic, u, r, 0)
<1>2. m \in Message /\ m.topic # "delete"
  BY <1>1 DEF Msg, Message, Topic
<1>3. /\ Fact /\ Append1(m, TRUE) /\ UNCHANGED <<profile, project, tombs>>
  BY <1>1 DEF SaveProject
<1> HIDE DEF m
<1>4. OutKept /\ RowInv'
  BY <1>2, <1>3, AppendKept, AppendRowInv
<1>5. profile' \in [FeedUser -> Nat] /\ project' \in [FeedRepo -> Nat]
  BY <1>3 DEF GorseInv, FactInv
<1>6. \A v \in FeedUser : profile'[v] \in profile[v]..(MaxFacts - facts')
  BY <1>3, FactBound
<1> QED BY <1>3, <1>4, <1>5, <1>6, FactStep
\* The rows of the user's events are gone, and the deletion is queued.
LEMMA DeleteRows ==
  ASSUME GorseInv, NEW u \in FeedUser, Delete(u)
  PROVE  /\ OutKept /\ RowInv' /\ Len(outbox') = Len(outbox) + 1
         /\ outbox'[Len(outbox) + 1].msg
              = Msg("delete", u, NoOne, Len(outbox) + 1)
<1> DEFINE m == Msg("delete", u, NoOne, Len(outbox) + 1)
           row == OutboxRow(m, FALSE)
           left == [i \in OutIds |->
                      IF outbox[i].tied /\ outbox[i].msg.u = u
                      THEN [outbox[i] EXCEPT !.state = "gone"]
                      ELSE outbox[i]]
<1>1. /\ Len(outbox) \in Nat /\ RowIds = OutIds
      /\ \A i \in OutIds : outbox[i] \in OutRow
  BY OutLen
<1>2. m \in Message /\ m.topic = "delete" /\ m.id = Len(outbox) + 1
  BY <1>1 DEF Msg, Message, Topic
<1>3. row \in OutRow /\ row.state = "ready" /\ row.msg = m
  BY <1>2, OutNew
<1>4. \A i \in OutIds : /\ left[i] \in OutRow /\ left[i].msg = outbox[i].msg
                        /\ left[i].state = "done" => outbox[i].state = "done"
  BY <1>1 DEF OutRow
<1>5. left \in Seq(OutRow) /\ Len(left) = Len(outbox)
  BY <1>1, <1>4 DEF OutIds
<1>6. outbox' = Append(left, row)
  BY <1>1 DEF Delete
<1> HIDE DEF m, row, left
<1>7. /\ outbox' \in Seq(OutRow) /\ Len(outbox') = Len(outbox) + 1
      /\ \A i \in OutIds : outbox'[i] = left[i]
      /\ outbox'[Len(outbox) + 1] = row
  BY <1>3, <1>5, <1>6, AppendProperties DEF OutIds
<1>8. OutIds' = OutIds \cup {Len(outbox) + 1}
  BY <1>1, <1>7 DEF OutIds
<1>9. \A i \in OutIds : outbox'[i].msg = outbox[i].msg
  BY <1>4, <1>7
<1>10. OutKept
  BY <1>1, <1>3, <1>4, <1>7, <1>8, <1>9 DEF OutKept, OutMsgs
<1>11. ASSUME NEW i \in OutIds', outbox'[i].msg.topic = "delete"
       PROVE  /\ outbox'[i].msg.id \in OutIds'
              /\ outbox'[outbox'[i].msg.id].msg = outbox'[i].msg
  <2>1. CASE i \in OutIds
    <3>1. /\ outbox[i].msg.id \in OutIds
          /\ outbox[outbox[i].msg.id].msg = outbox[i].msg
      BY <2>1, <1>9, <1>11 DEF GorseInv, RowInv
    <3> QED BY <3>1, <2>1, <1>8, <1>9
  <2>2. CASE i = Len(outbox) + 1
    BY <2>2, <1>2, <1>3, <1>7, <1>8
  <2> QED BY <2>1, <2>2, <1>8
<1> QED BY <1>3, <1>7, <1>10, <1>11 DEF RowInv, m

LEMMA DeleteStep ==
  ASSUME GorseInv, NEW u \in FeedUser, Delete(u)
  PROVE  GorseInv'
<1> DEFINE version ==
      IF profile[u] < FirstVersion(u) - 1 THEN FirstVersion(u) - 1
      ELSE IF profile[u] = 0 THEN 1 ELSE profile[u]
    tomb == [u |-> u, id |-> Len(outbox) + 1, version |-> version]
<1>1. /\ UNCHANGED relays /\ UNCHANGED <<messages, work, handled, sent>>
      /\ UNCHANGED <<gorse, work, live, project>>
      /\ facts > 0 /\ facts' = facts - 1
      /\ profile' = [profile EXCEPT ![u] = 0]
      /\ tombs' = tombs \cup {tomb}
  BY DEF Delete, Fact, relays, side
<1>2. /\ OutKept /\ RowInv' /\ Len(outbox') = Len(outbox) + 1
      /\ outbox'[Len(outbox) + 1].msg
           = Msg("delete", u, NoOne, Len(outbox) + 1)
  BY DeleteRows
<1>3. /\ FirstVersion(u) \in 1..(MaxFacts - facts + 1)
      /\ MaxFacts - facts \in Nat
      /\ profile[u] \in Nat /\ profile[u] <= MaxFacts - facts
      /\ MaxFacts - facts' = MaxFacts - facts + 1
  <2>1. Fact
    BY DEF Delete
  <2> QED BY <2>1, FirstVersionFits, FactBound
<1>4. version \in Nat /\ version <= MaxFacts - facts'
  BY <1>3
<1>5. /\ tomb \in Tomb /\ tomb.u = u /\ tomb.id = Len(outbox) + 1
      /\ tomb.version = version
  BY <1>4, OutLen DEF Tomb
<1> HIDE DEF version, tomb
<1>6. TombInv'
  <2>1. IsFiniteSet(tombs')
    BY <1>1, FS_AddElement DEF GorseInv, TombInv
  <2>2. OutIds' = OutIds \cup {Len(outbox) + 1} /\ Len(outbox) \in Nat
    BY <1>2, OutLen DEF OutIds
  <2>3. ASSUME NEW t \in tombs
        PROVE  /\ t \in Tomb /\ t.version <= MaxFacts - facts'
               /\ t.id \in OutIds'
               /\ outbox'[t.id].msg = Msg("delete", t.u, NoOne, t.id)
    <3>1. /\ t \in Tomb /\ t.version <= MaxFacts - facts /\ t.id \in OutIds
          /\ outbox[t.id].msg = Msg("delete", t.u, NoOne, t.id)
      BY DEF GorseInv, TombInv
    <3>2. t.version \in Nat
      BY <3>1 DEF Tomb
    <3>3. outbox'[t.id].msg = outbox[t.id].msg
      BY <3>1, <1>2 DEF OutKept, OutMsgs
    <3> QED BY <3>1, <3>2, <3>3, <2>2, <1>3
  <2>4. /\ tomb.version <= MaxFacts - facts' /\ tomb.id \in OutIds'
        /\ outbox'[tomb.id].msg = Msg("delete", tomb.u, NoOne, tomb.id)
    BY <1>2, <1>4, <1>5, <2>2
  <2> QED BY <1>1, <1>5, <2>1, <2>3, <2>4 DEF TombInv
<1>7. FactInv'
  <2>1. \A v \in FeedUser : profile'[v] \in Nat
                            /\ profile'[v] <= MaxFacts - facts'
    <3>1. Fact
      BY DEF Delete
    <3> QED BY <1>1, <3>1, FactBound DEF GorseInv, FactInv
  <2> QED BY <1>1, <2>1, GorseAssumption
          DEF GorseInv, FactInv, GorseAssumption
<1>8. RelayInv' /\ WorkInv' /\ LostInv'
  BY <1>1, <1>2, KeptRelays, OutKeepsMsgs, KeptWork, OutKeepsMsgs, KeptLost
<1>9. OneWorker => EraseInv'
  <2>1. tombs \subseteq tombs' /\ tomb \in tombs'
    BY <1>1
  <2>2. \A v \in FeedUser : profile[v] > 0 =>
          profile'[v] > 0 \/ \E t \in tombs' : t.u = v
    BY <1>1, <1>5, <2>1 DEF GorseInv, FactInv
  <2> QED BY <1>1, <1>2, <2>1, <2>2, KeptErase, OutKeepsMsgs
<1>10. CopyInv' /\ live' \in BOOLEAN
  BY <1>1 DEF GorseInv, CopyInv
<1> QED BY <1>2, <1>6, <1>7, <1>8, <1>9, <1>10 DEF GorseInv
-----------------------------------------------------------------------------
(* The rebuild. *)

LEMMA ImageIsFinite ==
  ASSUME NEW S, IsFiniteSet(S), NEW T, NEW f \in [S -> T]
  PROVE  IsFiniteSet({f[x] : x \in S})
<1> DEFINE I == {f[x] : x \in S}
<1>1. f \in Surjection(S, I)
  BY DEF Surjection
<1> QED BY <1>1, FS_Surjection

LEMMA OrderIsSeq ==
  ASSUME NEW S, IsFiniteSet(S), NEW T, S \subseteq T, NEW q \in SetToSeqs(S)
  PROVE  q \in Seq(T)
<1>1. Cardinality(S) \in Nat
  BY FS_CardinalityType
<1>2. q \in [1..Cardinality(S) -> T]
  BY DEF SetToSeqs
<1> QED BY <1>1, <1>2

\* What a rebuild may queue.
Replay ==
  {m \in Message : m.topic = "delete" =>
     m.id \in OutIds /\ outbox[m.id].msg = m}

LEMMA RequeuedRows ==
  ASSUME NEW q \in Seq(Replay)
  PROVE  /\ Requeued(q) \in Seq(OutRow) /\ Len(Requeued(q)) = Len(q)
         /\ \A n \in 1..Len(q) : /\ Requeued(q)[n].msg = q[n]
                                 /\ Requeued(q)[n].state = "ready"
<1>1. /\ Len(q) \in Nat /\ DOMAIN q = 1..Len(q)
      /\ \A n \in 1..Len(q) : q[n] \in Replay
  OBVIOUS
<1>2. \A n \in 1..Len(q) : /\ OutboxRow(q[n], FALSE) \in OutRow
                           /\ OutboxRow(q[n], FALSE).msg = q[n]
                           /\ OutboxRow(q[n], FALSE).state = "ready"
  BY <1>1, OutNew DEF Replay
<1>3. Requeued(q) = [n \in 1..Len(q) |-> OutboxRow(q[n], FALSE)]
  BY <1>1 DEF Requeued
<1>4. Requeued(q) \in [1..Len(q) -> OutRow]
  BY <1>2, <1>3
<1>5. Requeued(q) \in Seq(OutRow) /\ Len(Requeued(q)) = Len(q)
  BY <1>1, <1>4
<1> QED BY <1>2, <1>3, <1>5

LEMMA RebuildQueues ==
  ASSUME GorseInv, Rebuild
  PROVE  \E q \in Seq(Replay) : outbox' = outbox \o Requeued(q)
<1> DEFINE Catalogued == {p \in FeedRepo : project[p] > 0}
    Profiled == {v \in FeedUser : profile[v] > 0}
    Ended == {Msg("delete", t.u, NoOne, t.id) : t \in tombs}
    Items == {Msg("project", NoOne, r, 0) : r \in Catalogued}
    Users == {Msg("profile", u, NoOne, 0) : u \in Profiled}
<1>1. PICK ends \in SetToSeqs(Ended), items \in SetToSeqs(Items),
           users \in SetToSeqs(Users), events \in SetToSeqs(Events) :
        outbox' = outbox \o Requeued(ends \o items \o users
                    \o [n \in DOMAIN events |-> outbox[events[n]].msg])
  BY DEF Rebuild
<1>2. ends \in Seq(Replay)
  <2>1. \A t \in tombs : Msg("delete", t.u, NoOne, t.id) \in Replay
    BY DEF GorseInv, TombInv, Tomb, Msg, Message, Topic, Replay
  <2>2. IsFiniteSet(Ended)
    <3> DEFINE f == [t \in tombs |-> Msg("delete", t.u, NoOne, t.id)]
    <3>1. Ended = {f[t] : t \in tombs} /\ f \in [tombs -> Replay]
      BY <2>1
    <3>2. IsFiniteSet(tombs)
      BY DEF GorseInv, TombInv
    <3> HIDE DEF Ended, f
    <3> QED BY <3>1, <3>2, ImageIsFinite
  <2>3. Ended \subseteq Replay
    BY <2>1
  <2> HIDE DEF Ended
  <2> QED BY <2>2, <2>3, OrderIsSeq
<1>3. items \in Seq(Replay)
  <2>1. \A r \in Catalogued : Msg("project", NoOne, r, 0) \in Replay
    BY DEF Msg, Message, Topic, Replay
  <2>2. IsFiniteSet(Items)
    <3> DEFINE f == [r \in Catalogued |-> Msg("project", NoOne, r, 0)]
    <3>1. Items = {f[r] : r \in Catalogued} /\ f \in [Catalogued -> Replay]
      BY <2>1
    <3>2. IsFiniteSet(Catalogued)
      BY GorseAssumption, FS_Subset DEF GorseAssumption
    <3> HIDE DEF Items, f, Catalogued
    <3> QED BY <3>1, <3>2, ImageIsFinite
  <2>3. Items \subseteq Replay
    BY <2>1
  <2> HIDE DEF Items
  <2> QED BY <2>2, <2>3, OrderIsSeq
<1>4. users \in Seq(Replay)
  <2>1. \A u \in Profiled : Msg("profile", u, NoOne, 0) \in Replay
    BY DEF Msg, Message, Topic, Replay
  <2>2. IsFiniteSet(Users)
    <3> DEFINE f == [u \in Profiled |-> Msg("profile", u, NoOne, 0)]
    <3>1. Users = {f[u] : u \in Profiled} /\ f \in [Profiled -> Replay]
      BY <2>1
    <3>2. IsFiniteSet(Profiled)
      BY GorseAssumption, FS_Subset DEF GorseAssumption
    <3> HIDE DEF Users, f, Profiled
    <3> QED BY <3>1, <3>2, ImageIsFinite
  <2>3. Users \subseteq Replay
    BY <2>1
  <2> HIDE DEF Users
  <2> QED BY <2>2, <2>3, OrderIsSeq
<1> DEFINE past == [n \in DOMAIN events |-> outbox[events[n]].msg]
<1>5. past \in Seq(Replay)
  <2>1. Events \subseteq OutIds /\ Len(outbox) \in Nat
    BY OutLen DEF Events
  <2>2. IsFiniteSet(OutIds)
    BY <2>1, FS_Interval DEF OutIds
  <2>3. events \in Seq(OutIds)
    BY <2>1, <2>2, FS_Subset, OrderIsSeq
  <2>4. \A i \in OutIds : outbox[i].msg \in Replay
    BY OutLen DEF GorseInv, RowInv, Replay
  <2>5. /\ Len(events) \in Nat /\ DOMAIN events = 1..Len(events)
        /\ \A n \in 1..Len(events) : events[n] \in OutIds
    BY <2>3
  <2>6. past \in [1..Len(events) -> Replay]
    BY <2>4, <2>5
  <2> HIDE DEF past
  <2> QED BY <2>5, <2>6
<1> HIDE DEF Ended, Items, Users, past
<1>6. ends \o items \o users \o past \in Seq(Replay)
  BY <1>2, <1>3, <1>4, <1>5, ConcatProperties
<1> QED BY <1>1, <1>6 DEF past

LEMMA RebuildStep ==
  ASSUME GorseInv, Rebuild
  PROVE  GorseInv'
<1>1. PICK q \in Seq(Replay) : outbox' = outbox \o Requeued(q)
  BY RebuildQueues
<1>2. /\ Requeued(q) \in Seq(OutRow) /\ Len(Requeued(q)) = Len(q)
      /\ \A n \in 1..Len(q) : /\ Requeued(q)[n].msg = q[n]
                              /\ Requeued(q)[n].state = "ready"
  BY RequeuedRows
<1>3. Len(q) \in Nat /\ \A n \in 1..Len(q) : q[n] \in Replay
  OBVIOUS
<1>4. /\ outbox' \in Seq(OutRow) /\ Len(outbox') = Len(outbox) + Len(q)
      /\ \A i \in 1..Len(outbox) + Len(q) :
           outbox'[i] = IF i <= Len(outbox) THEN outbox[i]
                        ELSE Requeued(q)[i - Len(outbox)]
  <2> DEFINE new == Requeued(q)
  <2>1. /\ outbox \in Seq(OutRow) /\ new \in Seq(OutRow)
        /\ outbox' = outbox \o new /\ Len(new) = Len(q)
    BY <1>1, <1>2, OutLen
  <2> HIDE DEF new
  <2>2. /\ outbox \o new \in Seq(OutRow)
        /\ Len(outbox \o new) = Len(outbox) + Len(new)
        /\ \A i \in 1..Len(outbox) + Len(new) :
             (outbox \o new)[i] = IF i <= Len(outbox) THEN outbox[i]
                                  ELSE new[i - Len(outbox)]
    BY <2>1, ConcatProperties
  <2> QED BY <2>1, <2>2 DEF new
<1>5. OutIds \subseteq OutIds' /\ \A i \in OutIds : outbox'[i] = outbox[i]
  BY <1>3, <1>4, OutLen DEF OutIds
<1>6. ASSUME NEW i \in OutIds', i \notin OutIds
      PROVE  outbox'[i].state = "ready" /\ outbox'[i].msg \in Replay
  <2>1. i - Len(outbox) \in 1..Len(q) /\ i \in 1..Len(outbox) + Len(q)
        /\ ~(i <= Len(outbox))
    BY <1>3, <1>4, <1>6, OutLen DEF OutIds
  <2>2. outbox'[i] = Requeued(q)[i - Len(outbox)]
    BY <2>1, <1>4
  <2> QED BY <2>1, <2>2, <1>2, <1>3
<1>7. OutKept
  BY <1>3, <1>4, <1>5, <1>6, OutLen DEF OutKept, OutMsgs
<1>8. RowInv'
  <2>1. ASSUME NEW i \in OutIds', outbox'[i].msg.topic = "delete"
        PROVE  /\ outbox'[i].msg.id \in OutIds'
               /\ outbox'[outbox'[i].msg.id].msg = outbox'[i].msg
    <3>1. outbox'[i].msg \in Replay
      <4>1. CASE i \in OutIds
        BY <4>1, <1>5, OutLen DEF GorseInv, RowInv, Replay
      <4> QED BY <4>1, <1>6
    <3>2. /\ outbox'[i].msg.id \in OutIds
          /\ outbox[outbox'[i].msg.id].msg = outbox'[i].msg
      BY <2>1, <3>1 DEF Replay
    <3> QED BY <3>2, <1>5
  <2> QED BY <2>1, <1>4 DEF RowInv
<1>9. /\ UNCHANGED relays /\ UNCHANGED <<messages, work, handled, sent>>
      /\ UNCHANGED <<gorse, work, live, project, profile, tombs, facts>>
  BY DEF Rebuild, relays, side, business
<1>10. RelayInv' /\ WorkInv' /\ LostInv' /\ TombInv'
  BY <1>7, <1>9, KeptRelays, KeptWork, KeptLost, KeptTombs, OutKeepsMsgs
<1>11. OneWorker => EraseInv'
  BY <1>7, <1>9, KeptErase, OutKeepsMsgs
<1>12. FactInv' /\ CopyInv' /\ live' \in BOOLEAN
  BY <1>9 DEF GorseInv, FactInv, CopyInv
<1> QED BY <1>8, <1>10, <1>11, <1>12 DEF GorseInv

LEMMA SameIsKept ==
  ASSUME GorseInv, outbox' = outbox
  PROVE  OutKept /\ RowInv' /\ OutIds' = OutIds
BY OutLen DEF OutKept, OutMsgs, GorseInv, RowInv, OutIds

LEMMA EnableStep ==
  ASSUME GorseInv, Enable
  PROVE  GorseInv'
<1>1. /\ outbox' = outbox /\ live' = TRUE
      /\ UNCHANGED relays /\ UNCHANGED <<messages, work, handled, sent>>
      /\ UNCHANGED <<gorse, work, project, profile, tombs, facts>>
  BY DEF Enable, relays, side, business
<1>2. OutKept /\ RowInv'
  BY <1>1, SameIsKept
<1>3. RelayInv' /\ WorkInv' /\ LostInv' /\ TombInv'
  BY <1>1, <1>2, KeptRelays, KeptWork, KeptLost, KeptTombs, OutKeepsMsgs
<1>4. OneWorker => EraseInv'
  BY <1>1, <1>2, KeptErase, OutKeepsMsgs
<1>5. FactInv' /\ CopyInv' /\ live' \in BOOLEAN
  BY <1>1 DEF GorseInv, FactInv, CopyInv
<1> QED BY <1>2, <1>3, <1>4, <1>5 DEF GorseInv
-----------------------------------------------------------------------------
(* The relays. *)

LEMMA RowsRewritten ==
  ASSUME GorseInv, outbox' \in [OutIds -> OutRow],
         \A i \in OutIds : outbox'[i].msg = outbox[i].msg
  PROVE  /\ OutMsgs /\ Len(outbox') = Len(outbox) /\ OutIds' = OutIds
         /\ RowIds' = OutIds
<1>1. Len(outbox) \in Nat
  BY OutLen
<1>2. outbox' \in Seq(OutRow) /\ Len(outbox') = Len(outbox)
  BY <1>1 DEF OutIds
<1> QED BY <1>1, <1>2 DEF OutMsgs, OutIds, RowIds

LEMMA MessagesKept ==
  ASSUME GorseInv, OutMsgs, messages' \in Seq(OutIds'),
         UNCHANGED <<work, handled>>
  PROVE  WorkInv'
<1>1. OutIds \subseteq OutIds'
  BY OutLen DEF OutMsgs, OutIds
<1>2. \A w \in GorseWorker : WorkFits(w)'
  BY KeptFits
<1> QED BY <1>1, <1>2 DEF GorseInv, WorkInv

\* What relays leave alone.
LEMMA RelayTouches ==
  ASSUME GorseInv, outbox' \in [OutIds -> OutRow],
         \A i \in OutIds : outbox'[i].msg = outbox[i].msg,
         messages' \in Seq(OutIds),
         UNCHANGED <<business, tombs, side, live, facts>>
  PROVE  /\ RowInv' /\ TombInv' /\ FactInv' /\ WorkInv' /\ CopyInv'
         /\ live' \in BOOLEAN /\ (OneWorker => EraseInv')
         /\ OutIds' = OutIds /\ RowIds' = OutIds
<1>1. /\ OutMsgs /\ Len(outbox') = Len(outbox) /\ OutIds' = OutIds
      /\ RowIds' = OutIds
  BY RowsRewritten
<1>2. /\ UNCHANGED <<work, handled>> /\ UNCHANGED <<gorse, work>>
      /\ UNCHANGED <<tombs, profile, project, facts, live>>
  BY DEF business, side
<1>3. RowInv'
  <2>1. ASSUME NEW i \in OutIds', outbox'[i].msg.topic = "delete"
        PROVE  /\ outbox'[i].msg.id \in OutIds'
               /\ outbox'[outbox'[i].msg.id].msg = outbox'[i].msg
    <3>1. outbox'[i].msg = outbox[i].msg
      BY <1>1
    <3>2. /\ outbox[i].msg.id \in OutIds
          /\ outbox[outbox[i].msg.id].msg = outbox[i].msg
      BY <1>1, <2>1, <3>1 DEF GorseInv, RowInv
    <3> QED BY <1>1, <3>1, <3>2
  <2> QED BY <1>1, <2>1 DEF RowInv, OutMsgs
<1>4. TombInv'
  BY <1>1, <1>2, KeptTombs
<1>5. FactInv' /\ CopyInv' /\ live' \in BOOLEAN
  BY <1>2 DEF GorseInv, FactInv, CopyInv
<1>6. WorkInv'
  BY <1>1, <1>2, MessagesKept
<1>7. OneWorker => EraseInv'
  BY <1>1, <1>2, KeptErase
<1> QED BY <1>1, <1>3, <1>4, <1>5, <1>6, <1>7

LEMMA CarriedAppended ==
  ASSUME GorseInv, NEW i \in OutIds, messages' = Append(messages, i),
         UNCHANGED work
  PROVE  Carried' = Carried \cup {i} /\ messages' \in Seq(OutIds)
<1>1. messages \in Seq(OutIds)
  BY DEF GorseInv, WorkInv
<1>2. /\ messages' \in Seq(OutIds) /\ Len(messages') = Len(messages) + 1
      /\ \A n \in 1..Len(messages) : messages'[n] = messages[n]
      /\ messages'[Len(messages) + 1] = i
  BY <1>1, AppendProperties
<1>3. /\ Len(messages) \in Nat /\ DOMAIN messages = 1..Len(messages)
      /\ DOMAIN messages' = 1..(Len(messages) + 1)
  BY <1>1, <1>2
<1>4. DOMAIN messages' = DOMAIN messages \cup {Len(messages) + 1}
  BY <1>3
<1> QED BY <1>2, <1>3, <1>4 DEF Carried

LEMMA BatchFits ==
  ASSUME GorseInv, NEW o \in Relay
  PROVE  /\ batch[o] \subseteq OutIds /\ OutIds \subseteq Nat
         /\ sent[o] \in batch[o] \cup {0}
         /\ batch[o] # {} => Min(batch[o]) \in batch[o]
<1>1. batch[o] \subseteq OutIds /\ sent[o] \in batch[o] \cup {0}
  BY DEF GorseInv, RelayInv
<1>2. OutIds \subseteq Nat
  BY DEF OutIds
<1> QED BY <1>1, <1>2, Least

LEMMA ClaimStep ==
  ASSUME GorseInv, NEW o \in Relay, ClaimRows(o)
  PROVE  GorseInv'
<1> DEFINE mine == {i \in RowIds : ClaimableRow(i)}
<1>1. /\ sent[o] = 0
      /\ batch' = [batch EXCEPT ![o] = mine]
      /\ outbox' = [i \in RowIds |->
           IF i \in mine THEN Taken(outbox[i], o) ELSE outbox[i]]
      /\ UNCHANGED <<business, tombs, side, live, facts>>
      /\ UNCHANGED <<sent, messages>>
  BY DEF ClaimRows, Relaying
<1>2. mine \subseteq OutIds
  BY OutLen
<1> HIDE DEF mine
<1>3. ASSUME NEW i \in OutIds
      PROVE  /\ outbox'[i] \in OutRow /\ outbox'[i].msg = outbox[i].msg
             /\ outbox'[i].state = "done" => outbox[i].state = "done"
  <2>1. outbox[i] \in OutRow
    BY OutLen
  <2>2. outbox'[i] = IF i \in mine THEN Taken(outbox[i], o) ELSE outbox[i]
    BY <1>1, OutLen
  <2>3. /\ Taken(outbox[i], o) \in OutRow
        /\ Taken(outbox[i], o).msg = outbox[i].msg
        /\ Taken(outbox[i], o).state = "held"
    BY <2>1 DEF Taken, OutRow
  <2> QED BY <2>1, <2>2, <2>3
<1>4. outbox' \in [OutIds -> OutRow]
  <2>1. outbox' = [i \in OutIds |-> outbox'[i]]
    BY <1>1, OutLen
  <2> QED BY <2>1, <1>3
<1>5. messages' \in Seq(OutIds)
  BY <1>1 DEF GorseInv, WorkInv
<1>6. /\ RowInv' /\ TombInv' /\ FactInv' /\ WorkInv' /\ CopyInv'
      /\ live' \in BOOLEAN /\ (OneWorker => EraseInv')
      /\ OutIds' = OutIds /\ RowIds' = OutIds
  BY <1>1, <1>3, <1>4, <1>5, RelayTouches
<1>7. RelayInv'
  BY <1>1, <1>2, <1>6 DEF GorseInv, RelayInv
<1>8. LostInv'
  <2>1. OutMsgs
    BY <1>3, <1>4, RowsRewritten
  <2>2. OutKept
    BY <2>1, <1>3, <1>6 DEF OutKept
  <2>3. UNCHANGED <<messages, work, handled, sent>>
    BY <1>1 DEF side
  <2> QED BY <2>2, <2>3, KeptLost
<1> QED BY <1>6, <1>7, <1>8 DEF GorseInv

LEMMA PublishStep ==
  ASSUME GorseInv, NEW o \in Relay, Publish(o)
  PROVE  GorseInv'
<1> DEFINE i == Min(batch[o])
<1>1. /\ sent' = [sent EXCEPT ![o] = i] /\ messages' = Append(messages, i)
      /\ UNCHANGED <<business, tombs, side, live, facts>>
      /\ UNCHANGED <<outbox, batch>> /\ batch[o] # {}
  BY DEF Publish, Relaying
<1>2. i \in batch[o] /\ i \in OutIds /\ i \in Nat
  BY <1>1, BatchFits
<1> HIDE DEF i
<1>3. Carried' = Carried \cup {i} /\ messages' \in Seq(OutIds)
  BY <1>1, <1>2, CarriedAppended DEF side
<1>4. outbox' \in [OutIds -> OutRow]
  BY <1>1, OutLen DEF OutIds
<1>5. /\ RowInv' /\ TombInv' /\ FactInv' /\ WorkInv' /\ CopyInv'
      /\ live' \in BOOLEAN /\ (OneWorker => EraseInv')
      /\ OutIds' = OutIds /\ RowIds' = OutIds
  BY <1>1, <1>3, <1>4, RelayTouches
<1>6. RelayInv'
  BY <1>1, <1>2, <1>5 DEF GorseInv, RelayInv
<1>7. LostInv'
  <2>1. handled' = handled /\ RowIds' = RowIds
    BY <1>1 DEF side, RowIds
  <2> QED BY <2>1, <1>1, <1>3 DEF GorseInv, RelayInv, LostInv, NothingLost
<1> QED BY <1>5, <1>6, <1>7 DEF GorseInv
\* A row that is written by its lease or its relay.
LEMMA RowRewritten ==
  ASSUME GorseInv, NEW i \in OutIds, NEW row \in OutRow,
         row.msg = outbox[i].msg, outbox' = [outbox EXCEPT ![i] = row]
  PROVE  /\ outbox' \in [OutIds -> OutRow]
         /\ \A k \in OutIds : outbox'[k].msg = outbox[k].msg
         /\ \A k \in OutIds : k # i => outbox'[k] = outbox[k]
         /\ outbox'[i] = row
<1>1. outbox \in [OutIds -> OutRow]
  BY OutLen DEF OutIds
<1> QED BY <1>1

LEMMA PublishFailsStep ==
  ASSUME GorseInv, NEW o \in Relay, PublishFails(o)
  PROVE  GorseInv'
<1> DEFINE i == Min(batch[o])
    row == [outbox[i] EXCEPT !.state = "later", !.by = NoOne]
<1>1. /\ messages' \in {messages, Append(messages, i)}
      /\ outbox' = IF ~Held(o, i) THEN outbox
           ELSE [outbox EXCEPT ![i].state = "later", ![i].by = NoOne]
      /\ batch' = [batch EXCEPT ![o] = @ \ {i}]
      /\ UNCHANGED <<business, tombs, side, live, facts>>
      /\ UNCHANGED sent /\ batch[o] # {} /\ sent[o] = 0
  BY DEF PublishFails, Relaying
<1>2. i \in batch[o] /\ i \in OutIds /\ i \in Nat
  BY <1>1, BatchFits
<1>3. outbox[i] \in OutRow /\ outbox \in [OutIds -> OutRow]
  BY <1>2, OutLen DEF OutIds
<1>4. row \in OutRow /\ row.msg = outbox[i].msg /\ row.state = "later"
  <2> HIDE DEF i
  <2> QED BY <1>3 DEF OutRow
<1>5. outbox' = outbox \/ outbox' = [outbox EXCEPT ![i] = row]
  <2> HIDE DEF i
  <2> QED BY <1>1, <1>2, <1>3
<1> HIDE DEF i, row
<1>6. /\ outbox' \in [OutIds -> OutRow]
      /\ \A k \in OutIds : outbox'[k].msg = outbox[k].msg
      /\ \A k \in OutIds : outbox'[k].state = "done" => outbox[k].state = "done"
  <2>1. CASE outbox' = outbox
    BY <2>1, <1>3
  <2>2. CASE outbox' = [outbox EXCEPT ![i] = row]
    <3>1. /\ outbox' \in [OutIds -> OutRow]
          /\ \A k \in OutIds : outbox'[k].msg = outbox[k].msg
          /\ \A k \in OutIds : k # i => outbox'[k] = outbox[k]
          /\ outbox'[i] = row
      BY <2>2, <1>2, <1>4, RowRewritten
    <3> QED BY <3>1, <1>4
  <2> QED BY <1>5, <2>1, <2>2
<1>7. messages' \in Seq(OutIds) /\ Carried \subseteq Carried'
  <2>1. CASE messages' = messages
    BY <2>1, <1>1 DEF GorseInv, WorkInv, Carried, side
  <2>2. CASE messages' = Append(messages, i)
    BY <2>2, <1>1, <1>2, CarriedAppended DEF side
  <2> QED BY <1>1, <2>1, <2>2
<1>8. /\ RowInv' /\ TombInv' /\ FactInv' /\ WorkInv' /\ CopyInv'
      /\ live' \in BOOLEAN /\ (OneWorker => EraseInv')
      /\ OutIds' = OutIds /\ RowIds' = OutIds
  BY <1>1, <1>6, <1>7, RelayTouches
<1>9. RelayInv'
  BY <1>1, <1>2, <1>8 DEF GorseInv, RelayInv
<1>10. LostInv'
  <2>1. handled' = handled /\ RowIds = OutIds
    BY <1>1, OutLen DEF side
  <2> QED BY <2>1, <1>1, <1>6, <1>7, <1>8 DEF GorseInv, LostInv, NothingLost
<1> QED BY <1>8, <1>9, <1>10 DEF GorseInv

LEMMA CompleteStep ==
  ASSUME GorseInv, NEW o \in Relay, Complete(o)
  PROVE  GorseInv'
<1> DEFINE i == sent[o]
    row == [outbox[i] EXCEPT !.state = "done", !.by = NoOne, !.free = FALSE]
<1>1. /\ i > 0 /\ sent' = [sent EXCEPT ![o] = 0]
      /\ UNCHANGED <<business, tombs, side, live, facts>>
      /\ UNCHANGED messages
  BY DEF Complete, Relaying
<1>2. i \in batch[o] /\ i \in OutIds /\ i \in Carried \cup handled
  BY <1>1, BatchFits DEF GorseInv, LostInv
<1>3. outbox[i] \in OutRow /\ outbox \in [OutIds -> OutRow]
  BY <1>2, OutLen DEF OutIds
<1>4. row \in OutRow /\ row.msg = outbox[i].msg
  <2> HIDE DEF i
  <2> QED BY <1>3 DEF OutRow
<1>5. /\ outbox' = outbox \/ outbox' = [outbox EXCEPT ![i] = row]
      /\ \/ batch' = [batch EXCEPT ![o] = @ \ {i}]
         \/ batch' = [batch EXCEPT ![o] = {}]
  <2>1. CASE Held(o, i)
    <3>1. /\ outbox' = [outbox EXCEPT ![i].state = "done",
                          ![i].by = NoOne, ![i].free = FALSE]
          /\ batch' = [batch EXCEPT ![o] = @ \ {i}]
      BY <2>1 DEF Complete
    <3> HIDE DEF i
    <3> QED BY <3>1, <1>2, <1>3
  <2>2. CASE ~Held(o, i)
    BY <2>2 DEF Complete
  <2> QED BY <2>1, <2>2
<1> HIDE DEF i, row
<1>6. /\ outbox' \in [OutIds -> OutRow]
      /\ \A k \in OutIds : outbox'[k].msg = outbox[k].msg
      /\ \A k \in OutIds : k # i => outbox'[k] = outbox[k]
  <2>1. CASE outbox' = outbox
    BY <2>1, <1>3
  <2>2. CASE outbox' = [outbox EXCEPT ![i] = row]
    BY <2>2, <1>2, <1>4, RowRewritten
  <2> QED BY <1>5, <2>1, <2>2
<1>7. messages' \in Seq(OutIds) /\ Carried' = Carried /\ handled' = handled
  BY <1>1 DEF GorseInv, WorkInv, Carried, side
<1>8. /\ RowInv' /\ TombInv' /\ FactInv' /\ WorkInv' /\ CopyInv'
      /\ live' \in BOOLEAN /\ (OneWorker => EraseInv')
      /\ OutIds' = OutIds /\ RowIds' = OutIds
  BY <1>1, <1>6, <1>7, RelayTouches
<1>9. RelayInv'
  <2>1. batch' \in [Relay -> SUBSET OutIds] /\ sent' \in [Relay -> Nat]
    BY <1>1, <1>5 DEF GorseInv, RelayInv
  <2>2. \A q \in Relay : sent'[q] \in batch'[q] \cup {0}
    BY <1>1, <1>5 DEF GorseInv, RelayInv
  <2> QED BY <2>1, <2>2, <1>8 DEF RelayInv
<1>10. LostInv'
  <2>1. RowIds = OutIds
    BY OutLen
  <2>2. \A k \in OutIds :
          outbox'[k].state = "done" => k \in Carried \cup handled
    BY <2>1, <1>2, <1>6 DEF GorseInv, LostInv, NothingLost
  <2>3. \A q \in Relay : sent'[q] # 0 => sent'[q] \in Carried \cup handled
    BY <1>1 DEF GorseInv, LostInv, RelayInv
  <2> QED BY <2>2, <2>3, <1>7, <1>8 DEF LostInv, NothingLost
<1> QED BY <1>8, <1>9, <1>10 DEF GorseInv

LEMMA RelayDiesStep ==
  ASSUME GorseInv, NEW o \in Relay, RelayDies(o)
  PROVE  GorseInv'
<1>1. /\ batch' = [batch EXCEPT ![o] = {}] /\ sent' = [sent EXCEPT ![o] = 0]
      /\ UNCHANGED <<business, tombs, side, live, facts>>
      /\ UNCHANGED <<outbox, messages>>
  BY DEF RelayDies, Relaying
<1>2. /\ outbox' \in [OutIds -> OutRow] /\ messages' \in Seq(OutIds)
      /\ \A k \in OutIds : outbox'[k].msg = outbox[k].msg
  BY <1>1, OutLen DEF OutIds, GorseInv, WorkInv
<1>3. /\ RowInv' /\ TombInv' /\ FactInv' /\ WorkInv' /\ CopyInv'
      /\ live' \in BOOLEAN /\ (OneWorker => EraseInv')
      /\ OutIds' = OutIds /\ RowIds' = OutIds
  BY <1>1, <1>2, RelayTouches
<1>4. RelayInv'
  BY <1>1, <1>3 DEF GorseInv, RelayInv
<1>5. LostInv'
  <2>1. Carried' = Carried /\ handled' = handled /\ RowIds = OutIds
    BY <1>1, OutLen DEF Carried, side
  <2> QED BY <2>1, <1>1, <1>3 DEF GorseInv, RelayInv, LostInv, NothingLost
<1> QED BY <1>3, <1>4, <1>5 DEF GorseInv

\* A lease runs out, or the next attempt is due.
LEMMA LeaseStep ==
  ASSUME GorseInv, NEW i \in RowIds, Lapse(i) \/ Due(i)
  PROVE  GorseInv'
<1>1. /\ UNCHANGED <<business, tombs, side, live, facts>>
      /\ UNCHANGED relays /\ UNCHANGED messages
  BY DEF Lapse, Due
<1>2. i \in OutIds /\ outbox[i] \in OutRow /\ outbox \in [OutIds -> OutRow]
  BY OutLen DEF OutIds
<1>3. PICK row \in OutRow : /\ row.msg = outbox[i].msg /\ row.state # "done"
                            /\ outbox' = [outbox EXCEPT ![i] = row]
  <2>1. CASE Lapse(i)
    <3> DEFINE row == [outbox[i] EXCEPT !.free = TRUE]
    <3>1. row \in OutRow /\ row.msg = outbox[i].msg /\ row.state # "done"
      BY <1>2, <2>1 DEF OutRow, Lapse
    <3>2. outbox' = [outbox EXCEPT ![i] = row]
      BY <1>2, <2>1 DEF Lapse
    <3> HIDE DEF row
    <3> QED BY <3>1, <3>2
  <2>2. CASE Due(i)
    <3> DEFINE row == [outbox[i] EXCEPT !.state = "ready"]
    <3>1. row \in OutRow /\ row.msg = outbox[i].msg /\ row.state # "done"
      BY <1>2, <2>2 DEF OutRow, Due
    <3>2. outbox' = [outbox EXCEPT ![i] = row]
      BY <1>2, <2>2 DEF Due
    <3> HIDE DEF row
    <3> QED BY <3>1, <3>2
  <2> QED BY <2>1, <2>2
<1>4. /\ outbox' \in [OutIds -> OutRow] /\ messages' \in Seq(OutIds)
      /\ \A k \in OutIds : outbox'[k].msg = outbox[k].msg
      /\ \A k \in OutIds : outbox'[k].state = "done" => outbox[k].state = "done"
  <2>1. /\ outbox' \in [OutIds -> OutRow]
        /\ \A k \in OutIds : outbox'[k].msg = outbox[k].msg
        /\ \A k \in OutIds : k # i => outbox'[k] = outbox[k]
        /\ outbox'[i] = row
    BY <1>2, <1>3, RowRewritten
  <2> QED BY <2>1, <1>1, <1>3 DEF GorseInv, WorkInv
<1>5. /\ RowInv' /\ TombInv' /\ FactInv' /\ WorkInv' /\ CopyInv'
      /\ live' \in BOOLEAN /\ (OneWorker => EraseInv')
      /\ OutIds' = OutIds /\ RowIds' = OutIds
  BY <1>1, <1>4, RelayTouches
<1>6. RelayInv'
  BY <1>1, <1>5 DEF GorseInv, RelayInv, relays
<1>7. LostInv'
  <2>1. /\ Carried' = Carried /\ handled' = handled /\ RowIds = OutIds
        /\ sent' = sent
    BY <1>1, OutLen DEF Carried, side, relays
  <2> QED BY <2>1, <1>4, <1>5 DEF GorseInv, LostInv, NothingLost
<1> QED BY <1>5, <1>6, <1>7 DEF GorseInv
-----------------------------------------------------------------------------
(* The workers. *)

\* A worker goes on to what is moved its work, and erases all the same.
LEMMA WorkerKeeps ==
  ASSUME GorseInv, Handling, tombs' \subseteq tombs, NEW w \in GorseWorker,
         NEW next \in Work, work' = [work EXCEPT ![w] = next],
         next.at = "idle" => next = NoWork,
         next.at # "idle" =>
           next.id \in OutIds /\ Suits(outbox[next.id].msg.topic, next.at),
         messages' \in Seq(OutIds), handled' \subseteq OutIds,
         \A k \in Carried \cup handled :
           k # 0 => k \in Carried' \cup handled',
         CopyInv', OneWorker => EraseInv'
  PROVE  GorseInv'
<1>1. /\ outbox' = outbox /\ UNCHANGED relays /\ sent' = sent
      /\ UNCHANGED <<profile, project, facts, live>>
  BY DEF Handling, business, relays
<1>2. OutKept /\ OutMsgs /\ RowInv' /\ OutIds' = OutIds
  BY <1>1, SameIsKept, OutKeepsMsgs
<1>3. RelayInv' /\ TombInv'
  BY <1>1, <1>2, KeptRelays, KeptTombs
<1>4. FactInv' /\ live' \in BOOLEAN
  BY <1>1 DEF GorseInv, FactInv
<1>5. work \in [GorseWorker -> Work]
  BY DEF GorseInv, WorkInv
<1>6. work'[w] = next /\ work' \in [GorseWorker -> Work]
  BY <1>5
<1>7. ASSUME NEW v \in GorseWorker
      PROVE  WorkFits(v)'
  <2>1. CASE v = w
    BY <2>1, <1>1, <1>2, <1>6 DEF WorkFits, MsgOf
  <2>2. CASE v # w
    <3>1. work'[v] = work[v]
      BY <2>2, <1>5
    <3> QED BY <3>1, <1>2, KeptFits
  <2> QED BY <2>1, <2>2
<1>8. WorkInv'
  BY <1>2, <1>6, <1>7 DEF WorkInv
<1>9. LostInv'
  <2>1. RowIds' = RowIds
    BY <1>1 DEF RowIds
  <2>2. \A i \in RowIds : i # 0
    BY OutLen DEF OutIds
  <2> QED BY <2>1, <2>2, <1>1 DEF GorseInv, LostInv, NothingLost
<1> QED BY <1>2, <1>3, <1>4, <1>8, <1>9 DEF GorseInv

\* The recommender hears only of users whose profile was read.
LEMMA WorkerErases ==
  ASSUME GorseInv, Handling, tombs' = tombs, NEW w \in GorseWorker,
         NEW next \in Work, work' = [work EXCEPT ![w] = next],
         \A u \in FeedUser : Shown(u)' =>
           \/ Shown(u)
           \/ work[w].at = "put user" /\ MsgOf(w).u = u,
         next.at = "put user" => profile[outbox[next.id].msg.u] > 0,
         next.at = "forget" => ~Shown(outbox[next.id].msg.u)'
  PROVE  OneWorker => EraseInv'
<1> SUFFICES ASSUME OneWorker
             PROVE  EraseInv'
  OBVIOUS
<1>1. \A v \in GorseWorker : v = w
  BY DEF OneWorker
<1>2. work'[w] = next /\ outbox' = outbox /\ profile' = profile
  BY DEF Handling, business, GorseInv, WorkInv
<1>3. MsgOf(w)' = outbox[next.id].msg
  BY <1>2 DEF MsgOf
<1>4. EraseInv
  BY DEF GorseInv
<1>5. ASSUME NEW u \in FeedUser, Shown(u)' \/ Told(u)'
      PROVE  profile'[u] > 0 \/ Ending(u)'
  <2>1. CASE Told(u)'
    <3>1. next.at = "put user" /\ outbox[next.id].msg.u = u
      BY <2>1, <1>1, <1>2, <1>3 DEF Told
    <3> QED BY <3>1, <1>2
  <2>2. CASE Shown(u)'
    <3>1. Shown(u) \/ Told(u)
      BY <2>2 DEF Told
    <3>2. profile[u] > 0 \/ Ending(u)
      BY <3>1, <1>4 DEF EraseInv
    <3> QED BY <3>2, <1>2 DEF Ending
  <2> QED BY <1>5, <2>1, <2>2
<1>6. ASSUME NEW v \in GorseWorker, work'[v].at = "forget"
      PROVE  ~Shown(MsgOf(v).u)'
  <2>1. v = w /\ next.at = "forget"
    BY <1>1, <1>2, <1>6
  <2>2. ~Shown(outbox[next.id].msg.u)'
    BY <2>1
  <2>3. MsgOf(v)' = outbox[next.id].msg
    BY <2>1, <1>3
  <2> QED BY <2>2, <2>3, <1>2 DEF Shown
<1> QED BY <1>5, <1>6 DEF EraseInv

LEMMA WorkOf ==
  ASSUME GorseInv, NEW w \in GorseWorker
  PROVE  /\ work[w] \in Work /\ WorkFits(w) /\ messages \in Seq(OutIds)
         /\ handled \subseteq OutIds
         /\ work[w].at # "idle" =>
              /\ work[w].id \in OutIds /\ MsgOf(w) \in Message
              /\ MsgOf(w) = outbox[work[w].id].msg
              /\ Suits(MsgOf(w).topic, work[w].at)
BY OutLen DEF GorseInv, WorkInv, WorkFits, MsgOf

\* A step within the handling of one message.
LEMMA HandlingStep ==
  ASSUME GorseInv, Handling, tombs' \subseteq tombs, NEW w \in GorseWorker,
         work[w].at # "idle", NEW next \in Work, next.id = work[w].id,
         work' = [work EXCEPT ![w] = next], next.at # "idle",
         Suits(MsgOf(w).topic, next.at), UNCHANGED <<messages, handled>>,
         CopyInv', OneWorker => EraseInv'
  PROVE  GorseInv'
<1>1. /\ next.id \in OutIds /\ Suits(outbox[next.id].msg.topic, next.at)
      /\ messages' \in Seq(OutIds) /\ handled' \subseteq OutIds
  BY WorkOf
<1>2. \A v \in GorseWorker : work'[v].id = work[v].id
  BY DEF GorseInv, WorkInv
<1>3. Carried' = Carried
  BY <1>2 DEF Carried
<1> QED BY <1>1, <1>3, WorkerKeeps

LEMMA TakeStep ==
  ASSUME GorseInv, NEW w \in GorseWorker, Take(w)
  PROVE  GorseInv'
<1> DEFINE i == Head(messages)
    next == [NoWork EXCEPT !.id = i,
               !.at = IF live THEN FirstStep(outbox[i].msg.topic) ELSE "ack"]
<1>1. /\ work[w] = NoWork /\ messages # <<>>
      /\ work' = [work EXCEPT ![w] = next] /\ messages' = Tail(messages)
      /\ Handling /\ UNCHANGED <<tombs, handled, gorse>>
  BY DEF Take
<1>2. /\ messages \in Seq(OutIds) /\ handled \subseteq OutIds
  BY WorkOf
<1>3. /\ i \in OutIds /\ messages' \in Seq(OutIds)
      /\ Len(messages') = Len(messages) - 1
      /\ \A n \in 1..Len(messages') : messages'[n] = messages[n + 1]
  BY <1>1, <1>2, HeadTailProperties
<1>4. outbox[i].msg.topic \in Topic /\ i \in Nat /\ i # 0
  BY <1>3, OutLen DEF Message, OutIds
<1>5. /\ next \in Work /\ next.id = i
      /\ next.at \in {"item", "user", "unsave", "erase", "ack"}
      /\ Suits(outbox[i].msg.topic, next.at)
  <2> HIDE DEF i
  <2> QED BY <1>4 DEF NoWork, Work, WorkStep, FirstStep, Topic, Suits
<1>6. ASSUME NEW k \in Carried \cup handled, k # 0
      PROVE  k \in Carried' \cup handled'
  <2>1. CASE k \in handled
    BY <2>1, <1>1
  <2>2. ASSUME NEW v \in GorseWorker, k = work[v].id
        PROVE  k \in Carried'
    <3>1. v # w
      BY <2>2, <1>1, <1>6 DEF NoWork
    <3>2. work'[v] = work[v]
      BY <3>1, <1>1 DEF GorseInv, WorkInv
    <3> QED BY <2>2, <3>2 DEF Carried
  <2>3. ASSUME NEW n \in 1..Len(messages), k = messages[n]
        PROVE  k \in Carried'
    <3>1. CASE n = 1
      <4>1. k = i /\ work'[w].id = i
        BY <2>3, <3>1, <1>1, <1>2, <1>5 DEF GorseInv, WorkInv
      <4> QED BY <4>1 DEF Carried
    <3>2. CASE n # 1
      <4>1. /\ n - 1 \in 1..Len(messages') /\ (n - 1) + 1 = n
            /\ DOMAIN messages' = 1..Len(messages')
        BY <2>3, <3>2, <1>2, <1>3
      <4> QED BY <4>1, <2>3, <1>3 DEF Carried
    <3> QED BY <3>1, <3>2
  <2>4. DOMAIN messages = 1..Len(messages)
    BY <1>2
  <2> QED BY <2>1, <2>2, <2>3, <2>4 DEF Carried
<1>7. CopyInv'
  BY <1>1 DEF GorseInv, CopyInv
<1> HIDE DEF next, i
<1>8. OneWorker => EraseInv'
  <2>1. \A u \in FeedUser : Shown(u)' => Shown(u)
    BY <1>1 DEF Shown
  <2>2. next.at # "put user" /\ next.at # "forget"
    BY <1>5
  <2> QED BY <2>1, <2>2, <1>1, <1>5, WorkerErases
<1> QED BY <1>1, <1>2, <1>3, <1>5, <1>6, <1>7, <1>8, WorkerKeeps

LEMMA AckStep ==
  ASSUME GorseInv, NEW w \in GorseWorker, Ack(w)
  PROVE  GorseInv'
<1>1. /\ work[w].at = "ack" /\ handled' = handled \cup {work[w].id}
      /\ work' = [work EXCEPT ![w] = NoWork]
      /\ Handling /\ UNCHANGED <<tombs, messages, gorse>>
  BY DEF Ack
<1>2. /\ messages' \in Seq(OutIds) /\ handled' \subseteq OutIds
      /\ NoWork \in Work /\ NoWork.at = "idle"
  BY <1>1, WorkOf DEF NoWork, Work, WorkStep
<1>3. ASSUME NEW k \in Carried \cup handled, k # 0
      PROVE  k \in Carried' \cup handled'
  <2>1. ASSUME NEW v \in GorseWorker, k = work[v].id, v # w
        PROVE  k \in Carried'
    <3>1. work'[v] = work[v]
      BY <2>1, <1>1 DEF GorseInv, WorkInv
    <3> QED BY <2>1, <3>1 DEF Carried
  <2> QED BY <2>1, <1>1 DEF Carried
<1>4. CopyInv'
  BY <1>1 DEF GorseInv, CopyInv
<1>5. OneWorker => EraseInv'
  <2>1. \A u \in FeedUser : Shown(u)' => Shown(u)
    BY <1>1 DEF Shown
  <2> QED BY <2>1, <1>1, <1>2, WorkerErases
<1> QED BY <1>1, <1>2, <1>3, <1>4, <1>5, WorkerKeeps

LEMMA NackStep ==
  ASSUME GorseInv, NEW w \in GorseWorker, Nack(w)
  PROVE  GorseInv'
<1>1. /\ work[w] # NoWork /\ messages' = <<work[w].id>> \o messages
      /\ work' = [work EXCEPT ![w] = NoWork]
      /\ Handling /\ UNCHANGED <<tombs, handled, gorse>>
  BY DEF Nack, Returned
<1>2. /\ handled' \subseteq OutIds /\ messages \in Seq(OutIds)
      /\ NoWork \in Work /\ NoWork.at = "idle"
      /\ work[w].id \in OutIds
  BY <1>1, WorkOf DEF NoWork, Work, WorkStep, WorkFits
<1> DEFINE i == work[w].id
           one == <<i>>
<1>3. one \in Seq(OutIds) /\ Len(one) = 1 /\ one[1] = i
  BY <1>2
<1> HIDE DEF one
<1>4. /\ one \o messages \in Seq(OutIds)
      /\ Len(one \o messages) = Len(one) + Len(messages)
      /\ \A n \in 1..Len(one) + Len(messages) : (one \o messages)[n] =
           IF n <= Len(one) THEN one[n] ELSE messages[n - Len(one)]
  BY <1>2, <1>3, ConcatProperties
<1>5. messages' = one \o messages
  BY <1>1 DEF one
<1>6. /\ messages' \in Seq(OutIds) /\ messages'[1] = i
      /\ 1 \in DOMAIN messages'
      /\ \A n \in 1..Len(messages) : /\ n + 1 \in DOMAIN messages'
                                     /\ messages'[n + 1] = messages[n]
  BY <1>2, <1>3, <1>4, <1>5
<1>7. ASSUME NEW k \in Carried \cup handled, k # 0
      PROVE  k \in Carried' \cup handled'
  <2>1. CASE k = i
    BY <2>1, <1>6 DEF Carried
  <2>2. ASSUME NEW v \in GorseWorker, k = work[v].id, v # w
        PROVE  k \in Carried'
    <3>1. work'[v] = work[v]
      BY <2>2, <1>1 DEF GorseInv, WorkInv
    <3> QED BY <2>2, <3>1 DEF Carried
  <2>3. ASSUME NEW n \in 1..Len(messages), k = messages[n]
        PROVE  k \in Carried'
    BY <2>3, <1>6 DEF Carried
  <2>4. DOMAIN messages = 1..Len(messages)
    BY <1>2
  <2> QED BY <2>1, <2>2, <2>3, <2>4, <1>1 DEF Carried
<1>8. CopyInv'
  BY <1>1 DEF GorseInv, CopyInv
<1>9. OneWorker => EraseInv'
  <2>1. \A u \in FeedUser : Shown(u)' => Shown(u)
    BY <1>1 DEF Shown
  <2> QED BY <2>1, <1>1, <1>2, WorkerErases
<1> QED BY <1>1, <1>2, <1>6, <1>7, <1>8, <1>9, WorkerKeeps

\* A step that reads or writes and leaves the versions it has read.
LEMMA GoesStep ==
  ASSUME GorseInv, Handling, tombs' = tombs, NEW w \in GorseWorker,
         work[w].at # "idle", NEW to \in WorkStep, Goes(w, to),
         to \notin {"idle", "put user"}, Suits(MsgOf(w).topic, to),
         UNCHANGED <<messages, handled>>, CopyInv',
         \A u \in FeedUser : Shown(u)' =>
           \/ Shown(u)
           \/ work[w].at = "put user" /\ MsgOf(w).u = u,
         to = "forget" => ~Shown(MsgOf(w).u)'
  PROVE  GorseInv'
<1>1. PICK onward \in Work :
         /\ onward.id = work[w].id /\ onward.at = to
         /\ work' = [work EXCEPT ![w] = onward]
  <2> DEFINE moved == [work[w] EXCEPT !.at = to]
  <2>1. moved \in Work /\ moved.id = work[w].id /\ moved.at = to
    BY WorkOf DEF Work
  <2>2. work' = [work EXCEPT ![w] = moved]
    BY DEF Goes
  <2> HIDE DEF moved
  <2> QED BY <2>1, <2>2
<1>2. OneWorker => EraseInv'
  <2>1. outbox' = outbox /\ work'[w].id = onward.id
    BY <1>1 DEF Handling, GorseInv, WorkInv
  <2>2. MsgOf(w)' = outbox[onward.id].msg
    BY <2>1 DEF MsgOf
  <2>3. ASSUME onward.at = "forget"
        PROVE  ~Shown(outbox[onward.id].msg.u)'
    <3>1. ~Shown(MsgOf(w).u)'
      BY <2>3, <1>1
    <3> QED BY <3>1, <2>1, <2>2 DEF Shown
  <2> QED BY <1>1, <2>3, WorkerErases
<1> QED BY <1>1, <1>2, HandlingStep

LEMMA AfterUser ==
  ASSUME GorseInv, NEW w \in GorseWorker, work[w].at \in {"user", "put user"}
  PROVE  /\ After(w, "user") \in {"ack", "item"}
         /\ Suits(MsgOf(w).topic, After(w, "user"))
BY WorkOf DEF After, Suits

LEMMA ReadUserStep ==
  ASSUME GorseInv, NEW w \in GorseWorker, ReadUser(w)
  PROVE  GorseInv'
<1>1. /\ work[w].at = "user" /\ Handling
      /\ UNCHANGED <<tombs, messages, handled, gorse>>
  BY DEF ReadUser
<1>2. CopyInv' /\ \A u \in FeedUser : Shown(u)' => Shown(u)
  BY <1>1 DEF GorseInv, CopyInv, Shown
<1>3. MsgOf(w).u \in FeedUser /\ MsgOf(w) = outbox[work[w].id].msg
  BY <1>1, WorkOf DEF Suits, Message
<1>4. CASE profile[MsgOf(w).u] = 0
  <2>1. /\ Goes(w, After(w, "user")) /\ After(w, "user") \in {"ack", "item"}
        /\ Suits(MsgOf(w).topic, After(w, "user"))
    BY <1>1, <1>4, AfterUser DEF ReadUser
  <2> QED BY <1>1, <1>2, <2>1, GoesStep DEF WorkStep
<1>5. CASE profile[MsgOf(w).u] # 0
  <2> DEFINE onward ==
        [work[w] EXCEPT !.at = "put user", !.user = profile[MsgOf(w).u]]
  <2>1. profile[MsgOf(w).u] \in Nat
    BY <1>3 DEF GorseInv, FactInv
  <2>2. /\ onward \in Work /\ onward.id = work[w].id /\ onward.at = "put user"
    BY <2>1, WorkOf DEF Work, WorkStep
  <2>3. work' = [work EXCEPT ![w] = onward]
    BY <1>1, <1>5 DEF ReadUser
  <2> HIDE DEF onward
  <2>4. OneWorker => EraseInv'
    <3>1. profile[outbox[onward.id].msg.u] > 0
      <4>1. outbox[onward.id].msg = MsgOf(w)
        BY <1>3, <2>2
      <4>2. profile[MsgOf(w).u] > 0
        BY <1>5, <2>1
      <4> QED BY <4>1, <4>2
    <3> QED BY <1>1, <1>2, <2>2, <2>3, <3>1, WorkerErases
  <2>5. Suits(MsgOf(w).topic, "put user")
    BY <1>1, WorkOf DEF Suits
  <2> QED BY <1>1, <1>2, <2>2, <2>3, <2>4, <2>5, HandlingStep
<1> QED BY <1>4, <1>5

LEMMA PutUserStep ==
  ASSUME GorseInv, NEW w \in GorseWorker, PutUser(w)
  PROVE  GorseInv'
<1>1. /\ work[w].at = "put user" /\ Handling /\ Goes(w, After(w, "user"))
      /\ UNCHANGED <<tombs, messages, handled>>
      /\ gorse' = [gorse EXCEPT !.user[MsgOf(w).u] = work[w].user]
  BY DEF PutUser
<1>2. MsgOf(w).u \in FeedUser /\ work[w].user \in Nat
  BY <1>1, WorkOf DEF Suits, Message, Work
<1>3. CopyInv'
  BY <1>1, <1>2 DEF GorseInv, CopyInv
<1>4. \A u \in FeedUser : Shown(u)' => Shown(u) \/ MsgOf(w).u = u
  BY <1>1 DEF Shown, GorseInv, CopyInv
<1>5. /\ After(w, "user") \in {"ack", "item"}
      /\ Suits(MsgOf(w).topic, After(w, "user"))
  BY <1>1, AfterUser
<1> QED BY <1>1, <1>3, <1>4, <1>5, GoesStep DEF WorkStep

LEMMA ReadItemStep ==
  ASSUME GorseInv, NEW w \in GorseWorker, ReadItem(w)
  PROVE  GorseInv'
<1>1. /\ work[w].at = "item" /\ Handling
      /\ UNCHANGED <<tombs, messages, handled, gorse>>
  BY DEF ReadItem
<1>2. CopyInv' /\ \A u \in FeedUser : Shown(u)' => Shown(u)
  BY <1>1 DEF GorseInv, CopyInv, Shown
<1>3. MsgOf(w).r \in FeedRepo
  BY <1>1, WorkOf DEF Suits, Message
<1>4. CASE project[MsgOf(w).r] = 0
  <2>1. Goes(w, "ack") /\ Suits(MsgOf(w).topic, "ack")
    BY <1>1, <1>4 DEF ReadItem, Suits
  <2> QED BY <1>1, <1>2, <2>1, GoesStep DEF WorkStep
<1>5. CASE project[MsgOf(w).r] # 0
  <2> DEFINE onward ==
        [work[w] EXCEPT !.at = "put item", !.item = project[MsgOf(w).r]]
  <2>1. project[MsgOf(w).r] \in Nat
    BY <1>3 DEF GorseInv, FactInv
  <2>2. /\ onward \in Work /\ onward.id = work[w].id /\ onward.at = "put item"
    BY <2>1, WorkOf DEF Work, WorkStep
  <2>3. work' = [work EXCEPT ![w] = onward]
    BY <1>1, <1>5 DEF ReadItem
  <2> HIDE DEF onward
  <2>4. OneWorker => EraseInv'
    BY <1>1, <1>2, <2>2, <2>3, WorkerErases
  <2>5. Suits(MsgOf(w).topic, "put item")
    BY <1>1, WorkOf DEF Suits
  <2> QED BY <1>1, <1>2, <2>2, <2>3, <2>4, <2>5, HandlingStep
<1> QED BY <1>4, <1>5

LEMMA PutItemStep ==
  ASSUME GorseInv, NEW w \in GorseWorker, PutItem(w)
  PROVE  GorseInv'
<1>1. /\ work[w].at = "put item" /\ Handling /\ Goes(w, After(w, "item"))
      /\ UNCHANGED <<tombs, messages, handled>>
      /\ gorse' = [gorse EXCEPT !.item[MsgOf(w).r] = work[w].item]
  BY DEF PutItem
<1>2. MsgOf(w).r \in FeedRepo /\ work[w].item \in Nat
  BY <1>1, WorkOf DEF Suits, Message, Work
<1>3. CopyInv' /\ \A u \in FeedUser : Shown(u)' => Shown(u)
  BY <1>1, <1>2 DEF GorseInv, CopyInv, Shown
<1>4. /\ After(w, "item") \in {"ack", "feedback"}
      /\ Suits(MsgOf(w).topic, After(w, "item"))
  BY DEF After, Suits
<1> QED BY <1>1, <1>3, <1>4, GoesStep DEF WorkStep

LEMMA PutFeedbackStep ==
  ASSUME GorseInv, NEW w \in GorseWorker, PutFeedback(w)
  PROVE  GorseInv'
<1> DEFINE pair == <<MsgOf(w).u, MsgOf(w).r>>
<1>1. /\ work[w].at = "feedback" /\ Handling /\ Goes(w, "ack")
      /\ UNCHANGED <<tombs, messages, handled>>
      /\ \/ gorse' = gorse
         \/ /\ gorse.user[MsgOf(w).u] # 0
            /\ gorse' = [gorse EXCEPT !.saves = @ \cup {pair}]
  BY DEF PutFeedback
<1>2. pair \in FeedUser \X FeedRepo /\ pair[1] = MsgOf(w).u
  BY <1>1, WorkOf DEF Suits, Message
<1> HIDE DEF pair
<1>3. CopyInv'
  BY <1>1, <1>2 DEF GorseInv, CopyInv
<1>4. \A u \in FeedUser : Shown(u)' => Shown(u)
  BY <1>1, <1>2 DEF GorseInv, CopyInv, Shown
<1>5. Suits(MsgOf(w).topic, "ack")
  BY DEF Suits
<1> QED BY <1>1, <1>3, <1>4, <1>5, GoesStep DEF WorkStep

LEMMA DeleteFeedbackStep ==
  ASSUME GorseInv, NEW w \in GorseWorker, DeleteFeedback(w)
  PROVE  GorseInv'
<1>1. /\ work[w].at = "unsave" /\ Handling /\ Goes(w, "ack")
      /\ UNCHANGED <<tombs, messages, handled>>
      /\ gorse' = [gorse EXCEPT !.saves = @ \ {<<MsgOf(w).u, MsgOf(w).r>>}]
  BY DEF DeleteFeedback
<1>2. CopyInv'
  BY <1>1 DEF GorseInv, CopyInv
<1>3. \A u \in FeedUser : Shown(u)' => Shown(u)
  BY <1>1 DEF GorseInv, CopyInv, Shown
<1>4. Suits(MsgOf(w).topic, "ack")
  BY DEF Suits
<1> QED BY <1>1, <1>2, <1>3, <1>4, GoesStep DEF WorkStep

LEMMA DeleteUserStep ==
  ASSUME GorseInv, NEW w \in GorseWorker, DeleteUser(w)
  PROVE  GorseInv'
<1> DEFINE gone == MsgOf(w).u
<1>1. /\ work[w].at = "erase" /\ Handling /\ Goes(w, "forget")
      /\ UNCHANGED <<tombs, messages, handled>>
      /\ gorse' = [gorse EXCEPT !.user[gone] = 0,
                     !.saves = {s \in @ : s[1] # gone}]
  BY DEF DeleteUser
<1>2. /\ gone \in FeedUser /\ gone = outbox[work[w].id].msg.u
      /\ MsgOf(w).topic = "delete" /\ outbox' = outbox
  BY <1>1, WorkOf DEF Suits, Message, Handling
<1> HIDE DEF gone
<1>3. /\ gorse'.user = [gorse.user EXCEPT ![gone] = 0]
      /\ gorse'.saves = {s \in gorse.saves : s[1] # gone}
      /\ CopyInv'
  BY <1>1, <1>2 DEF GorseInv, CopyInv
<1>4. gorse.user \in [FeedUser -> Nat]
  BY DEF GorseInv, CopyInv
<1>5. \A u \in FeedUser : Shown(u)' => Shown(u)
  BY <1>2, <1>3, <1>4 DEF Shown
<1>6. ~Shown(MsgOf(w).u)'
  <2>1. gorse'.user[gone] = 0
    BY <1>2, <1>3, <1>4
  <2>2. ~ \E s \in gorse'.saves : s[1] = gone
    BY <1>3
  <2>3. work'[w].id = work[w].id
    BY <1>1 DEF Goes, GorseInv, WorkInv
  <2>4. MsgOf(w)'.u = gone
    BY <1>2, <2>3 DEF MsgOf
  <2> QED BY <2>1, <2>2, <2>4 DEF Shown
<1>7. Suits(MsgOf(w).topic, "forget")
  BY <1>2 DEF Suits
<1> QED BY <1>1, <1>3, <1>5, <1>6, <1>7, GoesStep DEF WorkStep

\* The tombstone goes when nothing is left of the user.
LEMMA MarkDeletedStep ==
  ASSUME GorseInv, NEW w \in GorseWorker, MarkDeleted(w)
  PROVE  GorseInv'
<1>1. /\ work[w].at = "forget" /\ Handling /\ Goes(w, "ack")
      /\ UNCHANGED <<messages, handled, gorse>>
      /\ tombs' = {t \in tombs : t.id # MsgOf(w).id}
  BY DEF MarkDeleted
<1>2. PICK onward \in Work :
        /\ onward.id = work[w].id /\ onward.at = "ack"
        /\ work' = [work EXCEPT ![w] = onward]
  <2> DEFINE moved == [work[w] EXCEPT !.at = "ack"]
  <2>1. moved \in Work /\ moved.id = work[w].id /\ moved.at = "ack"
    BY WorkOf DEF Work, WorkStep
  <2>2. work' = [work EXCEPT ![w] = moved]
    BY <1>1 DEF Goes
  <2> HIDE DEF moved
  <2> QED BY <2>1, <2>2
<1>3. CopyInv'
  BY <1>1 DEF GorseInv, CopyInv
<1>4. /\ outbox' = outbox /\ profile' = profile
      /\ outbox[work[w].id].msg = MsgOf(w) /\ work[w].id \in OutIds
      /\ MsgOf(w).topic = "delete"
  BY <1>1, WorkOf DEF Handling, business, Suits
<1>5. ASSUME NEW t \in tombs, t.id = MsgOf(w).id
      PROVE  t.u = MsgOf(w).u
  <2>1. outbox[t.id].msg = Msg("delete", t.u, NoOne, t.id)
    BY DEF GorseInv, TombInv
  <2>2. outbox[MsgOf(w).id].msg = MsgOf(w)
    BY <1>4 DEF GorseInv, RowInv
  <2> QED BY <2>1, <2>2, <1>5 DEF Msg
<1>6. ASSUME OneWorker
      PROVE  EraseInv'
  <2>1. /\ \A v \in GorseWorker : v = w
        /\ work'[w].at = "ack"
    BY <1>2, <1>6 DEF OneWorker, GorseInv, WorkInv
  <2>2. EraseInv
    BY <1>6 DEF GorseInv
  <2>3. ~Shown(MsgOf(w).u)
    BY <1>1, <2>2 DEF EraseInv
  <2>4. ASSUME NEW u \in FeedUser, Shown(u)' \/ Told(u)'
        PROVE  profile'[u] > 0 \/ Ending(u)'
    <3>1. Shown(u)
      BY <1>1, <2>1, <2>4 DEF Shown, Told
    <3>2. u # MsgOf(w).u
      BY <2>3, <3>1
    <3>3. profile[u] > 0 \/ Ending(u)
      BY <2>2, <3>1 DEF EraseInv
    <3>4. Ending(u) => Ending(u)'
      BY <1>1, <1>5, <3>2 DEF Ending
    <3> QED BY <1>4, <3>3, <3>4
  <2> QED BY <2>1, <2>4 DEF EraseInv
<1>7. Suits(MsgOf(w).topic, "ack")
  BY DEF Suits
<1>8. tombs' \subseteq tombs
  BY <1>1
<1> QED BY <1>1, <1>2, <1>3, <1>6, <1>7, <1>8, HandlingStep

-----------------------------------------------------------------------------
(* Every state. *)

LEMMA GorseStarts == GorseInit => GorseInv
<1> SUFFICES ASSUME GorseInit
             PROVE  GorseInv
  OBVIOUS
<1> USE GorseAssumption DEF GorseInit, GorseAssumption
<1>1. RowInv
  BY DEF RowInv, OutIds
<1>2. TombInv
  BY FS_EmptySet DEF TombInv
<1>3. FactInv
  BY DEF FactInv
<1>4. RelayInv
  BY DEF RelayInv
<1>5. WorkInv
  BY DEF WorkInv, WorkFits, NoWork, Work, WorkStep
<1>6. CopyInv
  BY DEF CopyInv
<1>7. LostInv
  BY DEF LostInv, NothingLost, RowIds
<1>8. EraseInv
  BY DEF EraseInv, Shown, Told, NoWork
<1> QED BY <1>1, <1>2, <1>3, <1>4, <1>5, <1>6, <1>7, <1>8 DEF GorseInv

LEMMA WorkerStepKeeps ==
  ASSUME GorseInv, NEW w \in GorseWorker, WorkerStep(w) \/ Nack(w)
  PROVE  GorseInv'
BY TakeStep, ReadUserStep, PutUserStep, ReadItemStep, PutItemStep,
   PutFeedbackStep, DeleteFeedbackStep, DeleteUserStep, MarkDeletedStep,
   AckStep, NackStep DEF WorkerStep

LEMMA GorseStep == GorseInv /\ [GorseNext]_gorseVars => GorseInv'
<1> SUFFICES ASSUME GorseInv, [GorseNext]_gorseVars
             PROVE  GorseInv'
  OBVIOUS
<1>1. ASSUME NEW r \in FeedRepo, Evaluate(r)
      PROVE  GorseInv'
  BY <1>1, EvaluateStep
<1>2. ASSUME NEW u \in FeedUser, Login(u) \/ Prefer(u) \/ Delete(u)
      PROVE  GorseInv'
  BY <1>2, LoginStep, PreferStep, DeleteStep
<1>3. ASSUME NEW u \in FeedUser, NEW r \in FeedRepo, SaveProject(u, r)
      PROVE  GorseInv'
  BY <1>3, SaveProjectStep
<1>4. CASE Rebuild \/ Enable
  BY <1>4, RebuildStep, EnableStep
<1>5. ASSUME NEW o \in Relay, RelayStep(o) \/ PublishFails(o) \/ RelayDies(o)
      PROVE  GorseInv'
  BY <1>5, ClaimStep, PublishStep, CompleteStep, PublishFailsStep,
     RelayDiesStep DEF RelayStep
<1>6. ASSUME NEW i \in RowIds, Lapse(i) \/ Due(i)
      PROVE  GorseInv'
  BY <1>6, LeaseStep
<1>7. ASSUME NEW w \in GorseWorker, WorkerStep(w) \/ Nack(w)
      PROVE  GorseInv'
  BY <1>7, WorkerStepKeeps
<1>8. CASE UNCHANGED gorseVars
  <2>1. /\ outbox' = outbox /\ tombs' = tombs /\ UNCHANGED relays
        /\ UNCHANGED <<messages, work, handled, sent>>
        /\ UNCHANGED <<gorse, work>> /\ facts' = facts
        /\ UNCHANGED <<profile, project, live>>
    BY <1>8 DEF gorseVars, relays
  <2>2. OutKept /\ OutMsgs /\ RowInv'
    BY <2>1, SameIsKept, OutKeepsMsgs
  <2>3. RelayInv' /\ TombInv' /\ WorkInv' /\ LostInv'
    BY <2>1, <2>2, KeptRelays, KeptTombs, KeptWork, KeptLost
  <2>4. FactInv' /\ CopyInv' /\ live' \in BOOLEAN
    BY <2>1 DEF GorseInv, FactInv, CopyInv
  <2>5. OneWorker => EraseInv'
    BY <2>1, <2>2, KeptErase
  <2> QED BY <2>2, <2>3, <2>4, <2>5 DEF GorseInv
<1> QED BY <1>1, <1>2, <1>3, <1>4, <1>5, <1>6, <1>7, <1>8 DEF GorseNext

\* Every state, of any number of users, projects, relays and workers, has the
\* invariant: the rows of the outbox and the messages about them keep their
\* subject, what a relay says it has delivered is on its way or handled, and a
\* single worker shows the recommender only whom PostgreSQL still has a profile
\* or a tombstone of (feed_outbox.go, feed_gorse_projection.go).
THEOREM GorseInvariant == GorseSpec => []GorseInv
<1>1. GorseInit => GorseInv
  BY GorseStarts
<1>2. GorseInv /\ [GorseNext]_gorseVars => GorseInv'
  BY GorseStep
<1> QED BY <1>1, <1>2, PTL DEF GorseSpec

LEMMA GorseMeans ==
  ASSUME GorseInv
  PROVE  GorseSafe
<1>1. GorseTypeOK
  <2>1. \A i \in RowIds :
          /\ outbox[i].state \in {"ready", "held", "later", "done", "gone"}
          /\ outbox[i].state = "held" => outbox[i].by \in Relay
    BY OutLen DEF OutRow
  <2>2. \A o \in Relay :
          batch[o] \subseteq RowIds /\ sent[o] \in batch[o] \cup {0}
    BY OutLen DEF GorseInv, RelayInv
  <2>3. ASSUME NEW k \in Carried
        PROVE  k \in RowIds \cup {0}
    <3>1. CASE \E n \in DOMAIN messages : k = messages[n]
      BY <3>1, OutLen DEF GorseInv, WorkInv
    <3>2. ASSUME NEW w \in GorseWorker, k = work[w].id
          PROVE  k \in OutIds \cup {0}
      BY <3>2, WorkOf DEF WorkFits, NoWork
    <3> QED BY <3>1, <3>2, OutLen DEF Carried
  <2>4. handled \subseteq RowIds
    BY OutLen DEF GorseInv, WorkInv
  <2>5. /\ \A u \in FeedUser : gorse.user[u] \in Nat
        /\ gorse.saves \subseteq FeedUser \X FeedRepo
    BY DEF GorseInv, CopyInv
  <2> QED BY <2>1, <2>2, <2>3, <2>4, <2>5 DEF GorseTypeOK
<1>2. NothingLost
  BY DEF GorseInv, LostInv
<1>3. ASSUME OneWorker
      PROVE  ErasedForGood
  <2>1. EraseInv
    BY <1>3 DEF GorseInv
  <2>2. ASSUME NEW u \in FeedUser, profile[u] = 0, \A t \in tombs : t.u # u
        PROVE  ~Shown(u)
    BY <2>1, <2>2 DEF EraseInv, Ending
  <2> QED BY <2>2 DEF Shown, ErasedForGood
<1> QED BY <1>1, <1>2, <1>3 DEF GorseSafe

\* A row the outbox calls delivered reached a worker or is on its way, and what
\* a deleted profile left in the recommender stays erased.
THEOREM GorseSafeHolds == GorseSpec => []GorseSafe
<1>1. GorseInv => GorseSafe
  BY GorseMeans
<1>2. GorseSpec => []GorseInv
  BY GorseInvariant
<1> QED BY <1>1, <1>2, PTL
=============================================================================
