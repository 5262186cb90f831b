---------------------------- MODULE AnalysisProofs ----------------------------
(***************************************************************************)
(* Proofs about AnalysisWorker, for any runs, keys and repositories,       *)
(* finitely many deliveries at a time and any bounds.                      *)
(***************************************************************************)
EXTENDS AnalysisWorker, FiniteSetTheorems, TLAPS

Followed == {"poll", "update", "prepare", "artifacts", "finalizing", "commit"}
Ends == {"ack", "retry", "dead", "park"}
Refreshes == {"pass", "create", "park", "attached"}
Failures == Terminal \ {"completed"}
Errors == {"none", "analysis_timeout", "other"}

\* What a delivery remembers fits what it is doing.
Fits(x) ==
  /\ x.at = "idle" => x.run = None
  /\ x.at # "idle" => x.run \in Run /\ x.attempt < MaxAttempts
  /\ x.at \in Followed => x.view.thread \in Try
  /\ x.at = "prepare" => x.view.try < AutomaticRetries

Fitting == \A w \in Worker : Fits(worker[w])

\* The copies of a job fit the bound.
Counted == \A r \in Run : Copies(r) <= MaxCopies

\* Only what was accepted is delivered, and a run is inserted before.
Known ==
  /\ \A m \in Job : ready[m] > 0 => m.run \in accepted
  /\ \A w \in Worker : worker[w].at # "idle" => worker[w].run \in accepted
  /\ \A r \in Run : request[r] \in {"start", "insert"} =>
       table[r] = Absent /\ r \notin accepted

BaseInv == TypeOK /\ Fitting /\ Counted /\ Known
-----------------------------------------------------------------------------
(* The copies of a job.                                                    *)

LEMMA Bounds ==
  /\ MaxAttempts \in Nat /\ MaxAttempts > 0
  /\ MaxCopies \in Nat /\ MaxCopies > 0
  /\ MaxTry \in Nat /\ MaxTry >= 1 /\ 0 \in Try /\ 1 \in Try
  /\ MaxCreates \in Nat /\ MaxCreates > 0 /\ Limit \in Nat /\ Limit > 0
  /\ IsFiniteSet(Worker)
  /\ None \notin Run /\ None \notin Try
BY WorkerAssumption DEF WorkerAssumption, StoreAssumption, Try

\* The jobs of r when q is what is ready, and the deliveries of r when a
\* delivery is doing what h says.
Queued(q, r) ==
  {copy \in (0 .. MaxAttempts - 1) \X (1 .. MaxCopies) :
     copy[2] <= q[[run |-> r, attempt |-> copy[1]]]}
Handled(h, r) == {w \in Worker : h[w].run = r}

LEMMA CopiesAre ==
  ASSUME NEW r
  PROVE  /\ Waiting(r) = Queued(ready, r) /\ Waiting(r)' = Queued(ready', r)
         /\ InHand(r) = Handled(worker, r) /\ InHand(r)' = Handled(worker', r)
         /\ Copies(r) = Cardinality(Handled(worker, r))
                        + Cardinality(Queued(ready, r))
         /\ Copies(r)' = Cardinality(Handled(worker', r))
                         + Cardinality(Queued(ready', r))
BY DEF Waiting, Queued, InHand, Handled, Copies

LEMMA HandledFinite ==
  ASSUME NEW h, NEW r
  PROVE  /\ IsFiniteSet(Handled(h, r))
         /\ Cardinality(Handled(h, r)) \in Nat
         /\ \A w \in Worker : h[w].run = r => Cardinality(Handled(h, r)) > 0
<1>1. Handled(h, r) \subseteq Worker
  BY DEF Handled
<1>2. IsFiniteSet(Handled(h, r))
  BY <1>1, Bounds, FS_Subset
<1>3. Cardinality(Handled(h, r)) \in Nat
  BY <1>2, FS_CardinalityType
<1>4. Handled(h, r) # {} => Cardinality(Handled(h, r)) > 0
  BY <1>2, <1>3, FS_EmptySet
<1>5. \A w \in Worker : h[w].run = r => Handled(h, r) # {}
  BY DEF Handled
<1>. QED BY <1>2, <1>3, <1>4, <1>5

LEMMA QueuedFinite ==
  ASSUME NEW q, NEW r
  PROVE  IsFiniteSet(Queued(q, r)) /\ Cardinality(Queued(q, r)) \in Nat
<1>1. IsFiniteSet(0 .. MaxAttempts - 1) /\ IsFiniteSet(1 .. MaxCopies)
  BY Bounds, FS_Interval
<1>2. IsFiniteSet((0 .. MaxAttempts - 1) \X (1 .. MaxCopies))
  BY <1>1, FS_Product
<1>3. Queued(q, r) \subseteq (0 .. MaxAttempts - 1) \X (1 .. MaxCopies)
  BY DEF Queued
<1>4. IsFiniteSet(Queued(q, r))
  BY <1>2, <1>3, FS_Subset
<1>. QED BY <1>4, FS_CardinalityType

\* Every copy of a job is counted.
LEMMA QueuedAll ==
  ASSUME NEW q \in [Job -> 0 .. MaxCopies], NEW m \in Job
  PROVE  q[m] <= Cardinality(Queued(q, m.run))
<1> DEFINE f == [i \in 1 .. q[m] |-> <<m.attempt, i>>]
<1>1. m = [run |-> m.run, attempt |-> m.attempt]
      /\ m.attempt \in 0 .. MaxAttempts - 1 /\ m.run \in Run
  BY DEF Job
<1>2. q[m] \in 0 .. MaxCopies
  OBVIOUS
<1>3. \A i \in 1 .. q[m] : <<m.attempt, i>> \in Queued(q, m.run)
  BY <1>1, <1>2, Bounds DEF Queued
<1>4. f \in Injection(1 .. q[m], Queued(q, m.run))
  BY <1>3 DEF Injection, IsInjective
<1>5. Cardinality(1 .. q[m]) = q[m]
  BY <1>2, Bounds, FS_Interval
<1> HIDE DEF f
<1>6. Cardinality(1 .. q[m]) <= Cardinality(Queued(q, m.run))
  BY <1>4, QueuedFinite, FS_Injection
<1>. QED BY <1>5, <1>6

LEMMA QueuedAnother ==
  ASSUME NEW q \in [Job -> 0 .. MaxCopies], NEW m \in Job, q[m] < MaxCopies
  PROVE  LET p == [q EXCEPT ![m] = @ + 1]
         IN /\ p \in [Job -> 0 .. MaxCopies] /\ p[m] > 0
            /\ Cardinality(Queued(p, m.run))
                 = Cardinality(Queued(q, m.run)) + 1
            /\ \A r : r # m.run => Queued(p, r) = Queued(q, r)
<1> DEFINE p == [q EXCEPT ![m] = @ + 1]
<1> DEFINE c == <<m.attempt, q[m] + 1>>
<1>1. m = [run |-> m.run, attempt |-> m.attempt]
      /\ m.attempt \in 0 .. MaxAttempts - 1 /\ m.run \in Run
  BY DEF Job
<1>2. q[m] \in 0 .. MaxCopies /\ p[m] = q[m] + 1
      /\ \A n \in Job : n # m => p[n] = q[n]
  OBVIOUS
<1>3. p \in [Job -> 0 .. MaxCopies]
  BY <1>2, Bounds
<1>4. c \notin Queued(q, m.run)
  BY <1>1, <1>2 DEF Queued
<1>5. Queued(p, m.run) = Queued(q, m.run) \cup {c}
  <2>1. ASSUME NEW a \in 0 .. MaxAttempts - 1, NEW i \in 1 .. MaxCopies
        PROVE  i <= p[[run |-> m.run, attempt |-> a]]
                 <=> i <= q[[run |-> m.run, attempt |-> a]] \/ <<a, i>> = c
    <3> DEFINE n == [run |-> m.run, attempt |-> a]
    <3>1. n \in Job /\ n.attempt = a /\ q[n] \in 0 .. MaxCopies
      BY <1>1 DEF Job
    <3>2. CASE n = m
      BY <1>1, <1>2, <3>1, <3>2
    <3>3. CASE n # m
      BY <1>1, <1>2, <3>1, <3>3
    <3>. QED BY <3>2, <3>3
  <2>2. c \in (0 .. MaxAttempts - 1) \X (1 .. MaxCopies)
    BY <1>1, <1>2, Bounds
  <2>. QED BY <2>1, <2>2 DEF Queued
<1>6. ASSUME NEW r, r # m.run PROVE Queued(p, r) = Queued(q, r)
  <2>1. ASSUME NEW a PROVE p[[run |-> r, attempt |-> a]]
                             = q[[run |-> r, attempt |-> a]]
    BY <1>6
  <2> HIDE DEF p
  <2>. QED BY <2>1 DEF Queued
<1> HIDE DEF c
<1>7. Cardinality(Queued(p, m.run)) = Cardinality(Queued(q, m.run)) + 1
  BY <1>4, <1>5, QueuedFinite, FS_AddElement
<1>8. p[m] > 0
  BY <1>2
<1> HIDE DEF p
<1>. QED BY <1>3, <1>6, <1>7, <1>8 DEF p

LEMMA QueuedFewer ==
  ASSUME NEW q \in [Job -> 0 .. MaxCopies], NEW m \in Job, q[m] > 0
  PROVE  LET p == [q EXCEPT ![m] = @ - 1]
         IN /\ p \in [Job -> 0 .. MaxCopies]
            /\ Cardinality(Queued(p, m.run))
                 = Cardinality(Queued(q, m.run)) - 1
            /\ \A r : r # m.run => Queued(p, r) = Queued(q, r)
<1> DEFINE p == [q EXCEPT ![m] = @ - 1]
<1>1. p[m] = q[m] - 1 /\ q[m] \in 0 .. MaxCopies
      /\ \A n \in Job : n # m => p[n] = q[n]
  OBVIOUS
<1>2. p \in [Job -> 0 .. MaxCopies] /\ p[m] < MaxCopies
  BY <1>1, Bounds
<1>3. q = [p EXCEPT ![m] = @ + 1]
  <2>1. q[m] = p[m] + 1
    BY <1>1
  <2>2. DOMAIN p = Job /\ DOMAIN q = Job
    OBVIOUS
  <2> HIDE DEF p
  <2>. QED BY <1>1, <1>2, <2>1, <2>2
<1> HIDE DEF p
<1>4. /\ Cardinality(Queued(q, m.run)) = Cardinality(Queued(p, m.run)) + 1
      /\ \A r : r # m.run => Queued(q, r) = Queued(p, r)
  BY <1>2, <1>3, QueuedAnother
<1>5. Cardinality(Queued(p, m.run)) = Cardinality(Queued(q, m.run)) - 1
  BY <1>4, QueuedFinite
<1>. QED BY <1>2, <1>4, <1>5 DEF p

\* A delivery that changes hands, or what is done with it.
LEMMA HandledSame ==
  ASSUME NEW h \in [Worker -> Handling], NEW w \in Worker,
         NEW x \in Handling, x.run = h[w].run, NEW r
  PROVE  Handled([h EXCEPT ![w] = x], r) = Handled(h, r)
<1> DEFINE g == [h EXCEPT ![w] = x]
<1>1. \A v \in Worker : g[v].run = h[v].run
  OBVIOUS
<1> HIDE DEF g
<1>2. Handled(g, r) = Handled(h, r)
  BY <1>1 DEF Handled
<1>. QED BY <1>2 DEF g

LEMMA HandledChange ==
  ASSUME NEW h \in [Worker -> Handling], NEW w \in Worker,
         NEW x \in Handling, NEW r \in Run
  PROVE  LET g == [h EXCEPT ![w] = x]
         IN /\ h[w].run = r /\ x.run = None =>
                 Cardinality(Handled(g, r)) = Cardinality(Handled(h, r)) - 1
            /\ h[w].run = None /\ x.run = r =>
                 Cardinality(Handled(g, r)) = Cardinality(Handled(h, r)) + 1
            /\ h[w].run # r /\ x.run # r => Handled(g, r) = Handled(h, r)
<1> DEFINE g == [h EXCEPT ![w] = x]
<1>1. /\ g[w].run = x.run /\ \A v \in Worker : v # w => g[v].run = h[v].run
  OBVIOUS
<1>2. r # None
  BY Bounds
<1> HIDE DEF g
<1>3. ASSUME h[w].run = r, x.run = None
      PROVE  Cardinality(Handled(g, r)) = Cardinality(Handled(h, r)) - 1
  <2>1. Handled(h, r) = Handled(g, r) \cup {w} /\ w \notin Handled(g, r)
    BY <1>1, <1>2, <1>3 DEF Handled
  <2>2. IsFiniteSet(Handled(g, r)) /\ Cardinality(Handled(g, r)) \in Nat
    BY HandledFinite
  <2>. QED BY <2>1, <2>2, FS_AddElement
<1>4. ASSUME h[w].run = None, x.run = r
      PROVE  Cardinality(Handled(g, r)) = Cardinality(Handled(h, r)) + 1
  <2>1. Handled(g, r) = Handled(h, r) \cup {w} /\ w \notin Handled(h, r)
    BY <1>1, <1>2, <1>4 DEF Handled
  <2>2. IsFiniteSet(Handled(h, r))
    BY HandledFinite
  <2>. QED BY <2>1, <2>2, FS_AddElement
<1>5. ASSUME h[w].run # r, x.run # r PROVE Handled(g, r) = Handled(h, r)
  BY <1>1, <1>5 DEF Handled
<1>. QED BY <1>3, <1>4, <1>5 DEF g

-----------------------------------------------------------------------------
(* What a step does to the copies: it keeps to their number, or there was  *)
(* room for another one.                                                   *)

Keeps == \A r \in Run : Copies(r)' <= Copies(r)
Adds(m) ==
  /\ Copies(m.run) < MaxCopies
  /\ Copies(m.run)' = Copies(m.run) + 1
  /\ \A r \in Run : r # m.run => Copies(r)' = Copies(r)

LEMMA CopiesType == \A r : Copies(r) \in Nat /\ Copies(r)' \in Nat
BY CopiesAre, HandledFinite, QueuedFinite

LEMMA KeepsCount ==
  ASSUME Counted, Keeps \/ \E m \in Job : Adds(m)
  PROVE  Counted'
BY CopiesType, Bounds DEF Counted, Keeps, Adds

\* There is room where another copy is counted.
LEMMA Room ==
  ASSUME TypeOK, NEW m \in Job, NEW n \in Nat, n > 0,
         Cardinality(Queued(ready, m.run)) + n <= MaxCopies
  PROVE  ready[m] < MaxCopies
<1>1. ready[m] <= Cardinality(Queued(ready, m.run)) /\ ready[m] \in Nat
  BY QueuedAll, Bounds DEF TypeOK
<1>. QED BY <1>1, QueuedFinite, Bounds

LEMMA PublishAdds ==
  ASSUME TypeOK, NEW m \in Job, Publish(m), UNCHANGED worker
  PROVE  /\ Adds(m) /\ ready' \in [Job -> 0 .. MaxCopies] /\ ready'[m] > 0
         /\ accepted' = accepted \cup {m.run}
<1>1. m.run \in Run
  BY DEF Job
<1>2. Cardinality(Queued(ready, m.run)) + 1 <= MaxCopies
  BY CopiesAre, HandledFinite, QueuedFinite, Bounds DEF Publish
<1>3. ready[m] < MaxCopies
  BY <1>2, Room
<1>4. ready \in [Job -> 0 .. MaxCopies]
      /\ ready' = [ready EXCEPT ![m] = @ + 1]
  BY DEF TypeOK, Publish
<1>5. /\ ready' \in [Job -> 0 .. MaxCopies] /\ ready'[m] > 0
      /\ Cardinality(Queued(ready', m.run))
           = Cardinality(Queued(ready, m.run)) + 1
      /\ \A r : r # m.run => Queued(ready', r) = Queued(ready, r)
  BY <1>3, <1>4, QueuedAnother
<1>6. Adds(m)
  <2>1. \A r : Handled(worker', r) = Handled(worker, r)
    BY DEF Handled
  <2>2. Copies(m.run)' = Copies(m.run) + 1
    <3>1. Copies(m.run)' = Cardinality(Handled(worker, m.run))
                           + Cardinality(Queued(ready', m.run))
      BY <2>1, CopiesAre
    <3>. QED BY <1>5, <3>1, CopiesAre, HandledFinite, QueuedFinite
  <2>3. \A r \in Run : r # m.run => Copies(r)' = Copies(r)
    BY <1>5, <2>1, CopiesAre
  <2>. QED BY <2>2, <2>3 DEF Adds, Publish
<1>. QED BY <1>5, <1>6 DEF Publish

LEMMA DeliverKeeps ==
  ASSUME TypeOK, NEW w \in Worker, NEW m \in Job, NEW x \in Handling,
         worker[w].run = None, worker' = [worker EXCEPT ![w] = x],
         x.run = m.run, ready[m] > 0, ready' = [ready EXCEPT ![m] = @ - 1]
  PROVE  Keeps /\ ready' \in [Job -> 0 .. MaxCopies]
<1>1. m.run \in Run /\ m.run # None
  BY Bounds DEF Job
<1>2. worker \in [Worker -> Handling] /\ ready \in [Job -> 0 .. MaxCopies]
  BY DEF TypeOK
<1>3. /\ ready' \in [Job -> 0 .. MaxCopies]
      /\ Cardinality(Queued(ready', m.run))
           = Cardinality(Queued(ready, m.run)) - 1
      /\ \A r : r # m.run => Queued(ready', r) = Queued(ready, r)
  <2> DEFINE p == [ready EXCEPT ![m] = @ - 1]
  <2>1. /\ p \in [Job -> 0 .. MaxCopies]
        /\ Cardinality(Queued(p, m.run)) = Cardinality(Queued(ready, m.run)) - 1
        /\ \A r : r # m.run => Queued(p, r) = Queued(ready, r)
    BY <1>2, QueuedFewer
  <2>2. ready' = p
    OBVIOUS
  <2> HIDE DEF p
  <2>. QED BY <2>1, <2>2
<1>4. Cardinality(Handled(worker', m.run))
        = Cardinality(Handled(worker, m.run)) + 1
  BY <1>1, <1>2, HandledChange
<1>5. \A r \in Run : r # m.run => Handled(worker', r) = Handled(worker, r)
  BY <1>1, <1>2, Bounds, HandledChange
<1>6. ASSUME NEW r \in Run PROVE Copies(r)' <= Copies(r)
  <2>. /\ Copies(r) = Cardinality(Handled(worker, r))
                      + Cardinality(Queued(ready, r))
       /\ Copies(r)' = Cardinality(Handled(worker', r))
                       + Cardinality(Queued(ready', r))
    BY CopiesAre
  <2>. /\ Cardinality(Handled(worker, r)) \in Nat
       /\ Cardinality(Queued(ready, r)) \in Nat
    BY HandledFinite, QueuedFinite
  <2>1. CASE r = m.run
    BY <1>3, <1>4, <2>1
  <2>2. CASE r # m.run
    <3>1. Copies(r)' = Copies(r)
      BY <1>3, <1>5, <2>2
    <3>. QED BY <3>1, CopiesType
  <2>. QED BY <2>1, <2>2
<1>. QED BY <1>3, <1>6 DEF Keeps

\* A delivery that goes on.
LEMMA ContinueKeeps ==
  ASSUME TypeOK, NEW w \in Worker, NEW x \in Handling,
         worker' = [worker EXCEPT ![w] = x], x.run = worker[w].run,
         UNCHANGED ready
  PROVE  Keeps
<1>1. \A r : Handled(worker', r) = Handled(worker, r)
  BY HandledSame DEF TypeOK
<1>2. \A r : Copies(r)' = Copies(r)
  BY <1>1, CopiesAre
<1>. QED BY <1>2, CopiesType DEF Keeps

LEMMA IdleIs == Idle \in Handling /\ Absent \in Row /\ Idle.run = None
               /\ Idle.at = "idle" /\ Idle.view = Absent /\ Fits(Idle)
BY Bounds DEF Idle, Handling, Absent, Row, Place, Status, Terminal, Occupying,
  Fits, Followed

\* A delivery that ends: its copy is dropped, goes back as m, or does so
\* twice.
LEMMA LeaveKeeps ==
  ASSUME TypeOK, NEW w \in Worker, NEW m \in Job,
         worker[w].run = m.run, worker' = [worker EXCEPT ![w] = Idle]
  PROVE  /\ ready' = ready => Keeps
         /\ Counted /\ ready' = [ready EXCEPT ![m] = @ + 1] =>
              Keeps /\ ready' \in [Job -> 0 .. MaxCopies] /\ ready'[m] > 0
         /\ \A n \in Job :
              Counted /\ Copies(m.run) < MaxCopies /\ n.run = m.run /\
              ready' = [[ready EXCEPT ![m] = @ + 1] EXCEPT ![n] = @ + 1] =>
                 Adds(m) /\ ready' \in [Job -> 0 .. MaxCopies]
                 /\ ready'[n] > 0
<1>. m.run \in Run /\ m.run # None
  BY Bounds DEF Job
<1>. worker \in [Worker -> Handling] /\ ready \in [Job -> 0 .. MaxCopies]
  BY DEF TypeOK
<1>. DEFINE H == Cardinality(Handled(worker, m.run))
            Q == Cardinality(Queued(ready, m.run))
<1>1. Cardinality(Handled(worker', m.run)) = H - 1
  BY IdleIs, HandledChange
<1>2. \A r \in Run : r # m.run => Handled(worker', r) = Handled(worker, r)
  BY IdleIs, Bounds, HandledChange
<1>3. H \in Nat /\ H > 0 /\ Q \in Nat /\ Copies(m.run) = H + Q
  BY HandledFinite, QueuedFinite, CopiesAre
<1>4. Copies(m.run)' = (H - 1) + Cardinality(Queued(ready', m.run))
  BY <1>1, CopiesAre
<1>. HIDE DEF H, Q
<1>5. ASSUME ready' = ready PROVE Keeps
  <2>1. Copies(m.run)' <= Copies(m.run)
    BY <1>3, <1>4, <1>5 DEF Q
  <2>2. \A r \in Run : r # m.run => Copies(r)' = Copies(r)
    BY <1>2, <1>5, CopiesAre
  <2>. QED BY <2>1, <2>2, CopiesType DEF Keeps
<1>6. ASSUME Counted
      PROVE  LET p == [ready EXCEPT ![m] = @ + 1]
             IN /\ p \in [Job -> 0 .. MaxCopies] /\ p[m] > 0
                /\ Cardinality(Queued(p, m.run)) = Q + 1
                /\ \A r : r # m.run => Queued(p, r) = Queued(ready, r)
  <2>1. Q + 1 <= MaxCopies
    BY <1>3, <1>6, Bounds DEF Counted
  <2>2. ready[m] < MaxCopies
    BY <2>1, Room DEF Q
  <2>. QED BY <2>2, QueuedAnother DEF Q
<1>7. ASSUME Counted, ready' = [ready EXCEPT ![m] = @ + 1]
      PROVE  Keeps /\ ready' \in [Job -> 0 .. MaxCopies] /\ ready'[m] > 0
  <2>1. /\ ready' \in [Job -> 0 .. MaxCopies] /\ ready'[m] > 0
        /\ Cardinality(Queued(ready', m.run)) = Q + 1
        /\ \A r : r # m.run => Queued(ready', r) = Queued(ready, r)
    BY <1>6, <1>7
  <2>2. Copies(m.run)' <= Copies(m.run)
    BY <1>3, <1>4, <2>1
  <2>3. \A r \in Run : r # m.run => Copies(r)' = Copies(r)
    BY <1>2, <2>1, CopiesAre
  <2>. QED BY <2>1, <2>2, <2>3, CopiesType DEF Keeps
<1>8. ASSUME NEW n \in Job, Counted, Copies(m.run) < MaxCopies,
             n.run = m.run,
             ready' = [[ready EXCEPT ![m] = @ + 1] EXCEPT ![n] = @ + 1]
      PROVE  Adds(m) /\ ready' \in [Job -> 0 .. MaxCopies] /\ ready'[n] > 0
  <2> DEFINE p == [ready EXCEPT ![m] = @ + 1]
  <2>1. /\ p \in [Job -> 0 .. MaxCopies]
        /\ Cardinality(Queued(p, m.run)) = Q + 1
        /\ \A r : r # m.run => Queued(p, r) = Queued(ready, r)
    BY <1>6, <1>8
  <2>2. ready' = [p EXCEPT ![n] = @ + 1]
    BY <1>8
  <2> HIDE DEF p
  <2>3. p[n] < MaxCopies
    <3>1. p[n] <= Cardinality(Queued(p, n.run)) /\ p[n] \in Nat
      BY <2>1, QueuedAll, Bounds
    <3>. QED BY <1>3, <1>8, <2>1, <3>1, Bounds
  <2>4. /\ ready' \in [Job -> 0 .. MaxCopies] /\ ready'[n] > 0
        /\ Cardinality(Queued(ready', m.run)) = Q + 2
        /\ \A r : r # m.run => Queued(ready', r) = Queued(p, r)
    <3>1. /\ ready' \in [Job -> 0 .. MaxCopies] /\ ready'[n] > 0
          /\ Cardinality(Queued(ready', n.run))
               = Cardinality(Queued(p, n.run)) + 1
          /\ \A r : r # n.run => Queued(ready', r) = Queued(p, r)
      BY <2>1, <2>2, <2>3, QueuedAnother
    <3>2. Cardinality(Queued(ready', m.run))
            = Cardinality(Queued(p, m.run)) + 1
      BY <1>8, <3>1
    <3>3. \A r : r # m.run => Queued(ready', r) = Queued(p, r)
      BY <1>8, <3>1
    <3>4. Cardinality(Queued(ready', m.run)) = Q + 2
      BY <1>3, <2>1, <3>2
    <3>. QED BY <3>1, <3>3, <3>4
  <2>5. Copies(m.run)' = Copies(m.run) + 1
    BY <1>3, <1>4, <2>4
  <2>6. ASSUME NEW r \in Run, r # m.run
        PROVE  Copies(r)' = Copies(r)
    <3>1. Queued(ready', r) = Queued(ready, r)
      BY <2>1, <2>4, <2>6
    <3>2. Handled(worker', r) = Handled(worker, r)
      BY <1>2, <2>6
    <3>. QED BY <3>1, <3>2, CopiesAre
  <2>. QED BY <1>8, <2>4, <2>5, <2>6 DEF Adds
<1>. QED BY <1>5, <1>7, <1>8

-----------------------------------------------------------------------------
(* What the statements do to a row.                                        *)

LEMMA RowFields ==
  ASSUME NEW row \in Row
  PROVE  /\ row.status \in Status /\ row.active \in BOOLEAN
         /\ row.try \in Try /\ row.thread \in Try \cup {None}
         /\ row.result \in Try \cup {None}
         /\ row.attempts \in 0 .. MaxCreates
BY DEF Row

\* The parts of a row that tell runs apart are kept.
Alike(new, old) ==
  /\ new \in Row
  /\ new.status = old.status /\ new.thread = old.thread
  /\ new.active = old.active /\ new.try = old.try
  /\ new.result = old.result

LEMMA AttemptedRow ==
  ASSUME NEW row \in Row
  PROVE  Alike(Attempted(row), row)
<1>1. (IF row.attempts < MaxCreates THEN row.attempts + 1 ELSE row.attempts)
        \in 0 .. MaxCreates
  BY RowFields, Bounds
<1>. QED BY <1>1 DEF Attempted, Alike, Row

LEMMA StartedRow ==
  ASSUME NEW row \in Row
  PROVE  Alike(Started(row), row)
BY DEF Started, Alike, Row

LEMMA StatusRow ==
  ASSUME NEW row \in Row, NEW s \in Status
  PROVE  LET new == [row EXCEPT !.status = s]
         IN /\ new \in Row /\ new.status = s /\ new.thread = row.thread
            /\ new.active = row.active /\ new.result = row.result
BY DEF Row

LEMMA RequeuedRow ==
  ASSUME NEW row \in Row, NEW t \in Try
  PROVE  /\ Requeued(row, t) \in Row /\ Requeued(row, t).status = "queued"
         /\ Requeued(row, t).active /\ Requeued(row, t).thread = None
         /\ Requeued(row, t).try = t
<1>1. 0 \in 0 .. MaxCreates /\ "queued" \in Status
  BY Bounds DEF Status
<1>2. Requeued(row, t) \in Row
  BY <1>1 DEF Requeued, Row
<1>. QED BY <1>2 DEF Requeued, Row

LEMMA ViewRow ==
  ASSUME NEW row \in Row
  PROVE  /\ View(row) \in Row /\ View(row).status = row.status
         /\ View(row).thread = row.thread /\ View(row).try = row.try
BY DEF View, Row

\* Only the row of r is written, and becomes new.
Becomes(r, new) ==
  /\ table' \in [Run -> Row]
  /\ table'[r] = new
  /\ \A q \in Run : q # r => table'[q] = table[q]

LEMMA SetBecomes ==
  ASSUME TypeOK, NEW r \in Run, NEW new \in Row, Set(r, new)
  PROVE  Becomes(r, new)
BY DEF TypeOK, StoreTypeOK, Set, Becomes

LEMMA SameBecomes ==
  ASSUME TypeOK, NEW r \in Run, UNCHANGED table
  PROVE  Becomes(r, table[r])
BY DEF TypeOK, StoreTypeOK, Becomes

LEMMA TableRow ==
  ASSUME TypeOK, NEW r \in Run
  PROVE  table[r] \in Row /\ table[r].status \in Status
         /\ (Open(table[r]) <=> table[r].status \in Occupying \cup {"queued"})
BY DEF TypeOK, StoreTypeOK, Row, Open, Status, Occupying, Terminal

\* What becomes of the row of r, in a step that leaves assessments alone: an
\* open row stays open with its key or ends, and only a run that runs or
\* failed is taken back to the queue, when its key is free.
Turn(r) ==
  \/ table'[r] = table[r]
  \/ /\ Open(table[r]) /\ Open(table'[r])
     /\ table'[r].active = table[r].active
  \/ /\ Open(table[r]) /\ table'[r].status \in Failures
     /\ ~table'[r].active
  \/ /\ table[r].status \in {"running", "failed"} /\ KeyFree(r)
     /\ table'[r].status = "queued" /\ table'[r].active
     /\ table'[r].thread = None

Turns(r) ==
  /\ table' \in [Run -> Row]
  /\ \A q \in Run : q # r => table'[q] = table[q]
  /\ Turn(r)

\* It stays open, with the status s and the thread t.
Stays(r, s, t) ==
  /\ Turns(r) /\ Open(table[r]) /\ Open(table'[r])
  /\ table'[r].status = s /\ table'[r].thread = t

LEMMA ReserveStays ==
  ASSUME TypeOK, NEW r \in Run, Reserve(r)
  PROVE  /\ Stays(r, "creating_thread", table[r].thread)
         /\ \/ table[r].status = "creating_thread"
            \/ table[r].status = "queued" /\ Occupied < Limit
<1> DEFINE tried == Attempted(table[r])
<1>1. table[r] \in Row /\ table[r].status \in Status
  BY TableRow
<1>2. Alike(tried, table[r])
  BY <1>1, AttemptedRow
<1> HIDE DEF tried
<1>3. CASE Reclaimable(table[r])
  <2>1. Set(r, tried) /\ tried \in Row
    BY <1>2, <1>3 DEF Reserve, tried, Alike
  <2>2. Becomes(r, tried)
    BY <2>1, SetBecomes
  <2>. QED BY <1>2, <1>3, <2>2 DEF Becomes, Stays, Turns, Turn, Reclaimable,
             Alike, Open, Terminal
<1>4. CASE ~Reclaimable(table[r])
  <2> DEFINE begun == Started(tried)
  <2> DEFINE new == [begun EXCEPT !.status = "creating_thread"]
  <2>1. Alike(begun, tried)
    BY <1>2, StartedRow DEF Alike
  <2>2. /\ new \in Row /\ new.status = "creating_thread"
        /\ new.thread = begun.thread /\ new.active = begun.active
    BY <2>1, StatusRow DEF Alike, Status, Occupying
  <2>3. Set(r, new)
    BY <1>4 DEF Reserve, tried
  <2> HIDE DEF begun, new
  <2>4. Becomes(r, new)
    BY <2>2, <2>3, SetBecomes
  <2>5. table[r].status = "queued" /\ Occupied < Limit
    BY <1>4 DEF Reserve, Reservable
  <2>. QED BY <1>2, <2>1, <2>2, <2>4, <2>5 DEF Becomes, Stays, Turns, Turn,
             Alike, Open, Terminal
<1>. QED BY <1>3, <1>4

LEMMA ScheduleStays ==
  ASSUME TypeOK, NEW r \in Run, Schedule(r)
  PROVE  Stays(r, "queued", None)
<1> DEFINE new == [table[r] EXCEPT !.status = "queued", !.wait = "pending"]
<1>1. table[r] \in Row
  BY TableRow
<1>2. /\ new \in Row /\ new.status = "queued"
      /\ new.thread = table[r].thread /\ new.active = table[r].active
  BY <1>1 DEF Row, Status
<1>3. Set(r, new)
  BY DEF Schedule
<1> HIDE DEF new
<1>4. Becomes(r, new)
  BY <1>2, <1>3, SetBecomes
<1>. QED BY <1>2, <1>4 DEF Becomes, Stays, Turns, Turn, Schedule, Schedulable,
           Open, Terminal

LEMMA AttachStays ==
  ASSUME TypeOK, NEW r \in Run, NEW t \in Try, Attach(r, t)
  PROVE  Stays(r, "running", t)
<1> DEFINE begun == Started(table[r])
<1> DEFINE new == [begun EXCEPT !.status = "running", !.thread = t,
                                !.wait = "none"]
<1>1. Alike(begun, table[r])
  BY TableRow, StartedRow
<1>2. begun \in Row
  BY <1>1 DEF Alike
<1>3. /\ new \in Row /\ new.status = "running" /\ new.thread = t
      /\ new.active = begun.active
  <2> HIDE DEF begun
  <2>. QED BY <1>2 DEF Row, Status, Occupying
<1>4. Set(r, new)
  BY DEF Attach
<1> HIDE DEF begun, new
<1>5. Becomes(r, new)
  BY <1>3, <1>4, SetBecomes
<1>. QED BY <1>1, <1>3, <1>5 DEF Becomes, Stays, Turns, Turn, Attach,
           Attachable, Alike, Open, Terminal

LEMMA PrepareTurns ==
  ASSUME TypeOK, NEW r \in Run, NEW t \in Try, NEW n \in Try,
         Prepare(r, t, n)
  PROVE  /\ Turns(r) /\ table'[r] = Requeued(table[r], n)
         /\ table'[r].status = "queued" /\ table'[r].thread = None
<1>1. /\ Requeued(table[r], n) \in Row
      /\ Requeued(table[r], n).status = "queued"
      /\ Requeued(table[r], n).active
      /\ Requeued(table[r], n).thread = None
  BY TableRow, RequeuedRow
<1>2. Becomes(r, Requeued(table[r], n))
  BY <1>1, SetBecomes DEF Prepare
<1>. QED BY <1>1, <1>2 DEF Becomes, Turns, Turn, Prepare, Preparable

LEMMA UpdateTurns ==
  ASSUME TypeOK, NEW r \in Run, NEW s \in {"running", "finalizing"},
         Update(r, s, None)
  PROVE  \/ Stays(r, s, table[r].thread)
         \/ UNCHANGED table /\ Turns(r) /\ ~Open(table[r])
<1>1. table[r] \in Row
  BY TableRow
<1>2. CASE Open(table[r])
  <2> DEFINE new == [table[r] EXCEPT !.status = s]
  <2>1. /\ new \in Row /\ new.status = s
        /\ new.thread = table[r].thread /\ new.active = table[r].active
    BY <1>1, StatusRow DEF Status, Occupying
  <2>2. Set(r, new)
    BY <1>2 DEF Update, Expected
  <2> HIDE DEF new
  <2>3. Becomes(r, new)
    BY <2>1, <2>2, SetBecomes
  <2>. QED BY <1>2, <2>1, <2>3 DEF Becomes, Stays, Turns, Turn, Open, Terminal
<1>3. CASE ~Open(table[r])
  <2>1. UNCHANGED table
    BY <1>3 DEF Update
  <2>. QED BY <1>3, <2>1, SameBecomes DEF Becomes, Turns, Turn
<1>. QED BY <1>2, <1>3

LEMMA FailTurns ==
  ASSUME TypeOK, NEW r \in Run, NEW s \in Failures, NEW e \in Errors,
         Fail(r, s, e, None)
  PROVE  Turns(r) /\ ~Open(table'[r])
<1>1. table[r] \in Row
  BY TableRow
<1>2. CASE Open(table[r])
  <2> DEFINE new == [table[r] EXCEPT !.status = s, !.active = FALSE,
                                     !.wait = "none", !.error = e]
  <2>1. new \in Row /\ new.status = s /\ ~new.active
    <3>1. /\ s \in Status
          /\ e \in {"none", "analysis_timeout", "mosoo_run_failed", "other"}
      BY DEF Status, Failures, Terminal, Errors
    <3>. QED BY <1>1, <3>1 DEF Row
  <2>2. Set(r, new)
    BY <1>2 DEF Fail, Expected
  <2> HIDE DEF new
  <2>3. Becomes(r, new)
    BY <2>1, <2>2, SetBecomes
  <2>. QED BY <1>2, <2>1, <2>3 DEF Becomes, Turns, Turn, Open, Failures
<1>3. CASE ~Open(table[r])
  <2>1. UNCHANGED table
    BY <1>3 DEF Fail
  <2>. QED BY <1>3, <2>1, SameBecomes DEF Becomes, Turns, Turn
<1>. QED BY <1>2, <1>3

LEMMA FinalizeEnds ==
  ASSUME TypeOK, NEW r \in Run, NEW t \in Try, Finalize(r, t)
  PROVE  /\ table' \in [Run -> Row]
         /\ \A q \in Run : q # r => table'[q] = table[q]
         /\ Open(table[r]) /\ table'[r].status = "completed"
         /\ ~table'[r].active /\ table'[r].result = t
<1> DEFINE new == [table[r] EXCEPT !.status = "completed",
                                   !.active = FALSE, !.result = t]
<1>1. table[r] \in Row
  BY TableRow
<1>2. new \in Row /\ new.status = "completed" /\ ~new.active
      /\ new.result = t
  BY <1>1 DEF Row, Status, Terminal
<1>3. Set(r, new)
  BY DEF Finalize
<1> HIDE DEF new
<1>4. Becomes(r, new)
  BY <1>2, <1>3, SetBecomes
<1>. QED BY <1>2, <1>4 DEF Becomes, Finalize

-----------------------------------------------------------------------------
(* What a delivery that goes on remembers.                                 *)

Whole(at, run, attempt, view, next, end, error) ==
  [at |-> at, run |-> run, attempt |-> attempt, view |-> view,
   next |-> next, end |-> end, error |-> error]

LEMMA WholeIdle ==
  ASSUME NEW p, NEW r, NEW a, NEW v
  PROVE  [Idle EXCEPT !.at = p, !.run = r, !.attempt = a, !.view = v]
           = Whole(p, r, a, v, "pass", "failed", "none")
<1>. DEFINE s1 == [Idle EXCEPT !.at = p]
            s2 == [s1 EXCEPT !.run = r]
            s3 == [s2 EXCEPT !.attempt = a]
            s4 == [s3 EXCEPT !.view = v]
<1>1. s1 = Whole(p, None, 0, Absent, "pass", "failed", "none")
  BY DEF Whole, Idle
<1>. HIDE DEF s1
<1>2. s2 = Whole(p, r, 0, Absent, "pass", "failed", "none")
  BY <1>1 DEF Whole
<1>. HIDE DEF s2
<1>3. s3 = Whole(p, r, a, Absent, "pass", "failed", "none")
  BY <1>2 DEF Whole
<1>. HIDE DEF s3
<1>4. s4 = Whole(p, r, a, v, "pass", "failed", "none")
  BY <1>3 DEF Whole
<1>. QED BY <1>4 DEF s1, s2, s3

LEMMA WholeNext ==
  ASSUME NEW p, NEW r, NEW a, NEW v, NEW n
  PROVE  [Whole(p, r, a, v, "pass", "failed", "none") EXCEPT !.next = n]
           = Whole(p, r, a, v, n, "failed", "none")
BY DEF Whole

Note(w, place, row, next, end, error) ==
  Whole(place, worker[w].run, worker[w].attempt,
        IF place \in Ends THEN Absent ELSE View(row), next, end, error)

Notes(w, place, row, next, end, error) ==
  worker' = [worker EXCEPT ![w] = Note(w, place, row, next, end, error)]

LEMMA NotesAre ==
  ASSUME NEW w, NEW place, NEW row, NEW next, NEW end, NEW error
  PROVE  /\ GoWith(w, place, row)
              <=> Notes(w, place, row, "pass", "failed", "none")
         /\ Go(w, place)
              <=> Notes(w, place, worker[w].view, "pass", "failed", "none")
         /\ Refresh(w, next)
              <=> Notes(w, "reload", worker[w].view, next, "failed", "none")
         /\ DoomWith(w, end, error, row)
              <=> Notes(w, "fail", row, "pass", end, error)
         /\ Doom(w, end, error)
              <=> Notes(w, "fail", worker[w].view, "pass", end, error)
<1>1. ASSUME NEW p, NEW v
      PROVE  Moved(w, p, v) = Note(w, p, v, "pass", "failed", "none")
  BY WholeIdle DEF Moved, Ends, Note
<1>2. ASSUME NEW v
      PROVE  [Moved(w, "reload", v) EXCEPT !.next = next]
               = Note(w, "reload", v, next, "failed", "none")
  BY <1>1, WholeNext DEF Note
<1>3. ASSUME NEW v
      PROVE  [Moved(w, "fail", v) EXCEPT !.end = end, !.error = error]
               = Note(w, "fail", v, "pass", end, error)
  <2> DEFINE seen == IF "fail" \in Ends THEN Absent ELSE View(v)
  <2> DEFINE r == worker[w].run
  <2> DEFINE a == worker[w].attempt
  <2>1. Moved(w, "fail", v) = Whole("fail", r, a, seen, "pass", "failed",
                                    "none")
    BY <1>1 DEF Note
  <2>2. Note(w, "fail", v, "pass", end, error)
          = Whole("fail", r, a, seen, "pass", end, error)
    BY DEF Note
  <2> HIDE DEF seen, r, a
  <2> DEFINE s1 == [Moved(w, "fail", v) EXCEPT !.end = end]
             s2 == [s1 EXCEPT !.error = error]
  <2>3. s1 = Whole("fail", r, a, seen, "pass", end, "none")
    BY <2>1 DEF Whole
  <2> HIDE DEF s1
  <2>4. s2 = Whole("fail", r, a, seen, "pass", end, error)
    BY <2>3 DEF Whole
  <2>. QED BY <2>2, <2>4 DEF s1
<1>. QED BY <1>1, <1>2, <1>3 DEF GoWith, Go, Refresh, DoomWith, Doom, Notes

\* w goes on with x in mind.
Goes(w, x) ==
  /\ worker' = [worker EXCEPT ![w] = x]
  /\ x \in Handling /\ Fits(x)
  /\ x.at # "idle" /\ x.run = worker[w].run
  /\ x.attempt = worker[w].attempt

\* A place row leads to.
Leads(place, row) ==
  /\ place \in Place \ {"idle"}
  /\ place \in Followed => row.thread \in Try
  /\ place = "prepare" => row.try < AutomaticRetries

\* A delivery that is at work.
AtWork(w) ==
  /\ TypeOK /\ Fits(worker[w]) /\ worker[w].at # "idle"

LEMMA WorkFacts ==
  ASSUME NEW w \in Worker, AtWork(w)
  PROVE  /\ worker[w] \in Handling /\ worker[w].run \in Run
         /\ worker[w].attempt \in 0 .. MaxAttempts - 1
         /\ worker[w].view \in Row /\ worker[w].at \in Place
         /\ worker[w].end \in Failures /\ worker[w].error \in Errors
         /\ table[worker[w].run] \in Row /\ Held(w) \in Job
         /\ Held(w).run = worker[w].run
         /\ Held(w).attempt = worker[w].attempt
<1>1. worker[w] \in Handling
  BY DEF AtWork, TypeOK
<1>2. worker[w].run \in Run /\ worker[w].attempt < MaxAttempts
  BY DEF AtWork, Fits
<1>3. worker[w].attempt \in 0 .. MaxAttempts - 1
  BY <1>1, <1>2, Bounds DEF Handling
<1>4. table[worker[w].run] \in Row
  BY <1>2, TableRow DEF AtWork
<1>5. Held(w) \in Job /\ Held(w).run = worker[w].run
      /\ Held(w).attempt = worker[w].attempt
  BY <1>2, <1>3 DEF Held, Job
<1>6. /\ worker[w].view \in Row /\ worker[w].at \in Place
      /\ worker[w].end \in Failures /\ worker[w].error \in Errors
  BY <1>1 DEF Handling, Failures, Errors
<1>. QED BY <1>1, <1>2, <1>3, <1>4, <1>5, <1>6

LEMMA NotesGo ==
  ASSUME NEW w \in Worker, AtWork(w), NEW row \in Row, NEW place,
         Leads(place, row), NEW next \in Refreshes, NEW end \in Failures,
         NEW error \in Errors, Notes(w, place, row, next, end, error)
  PROVE  \E x : /\ Goes(w, x) /\ x.at = place /\ x.next = next
                /\ place \in Ends => x.view.status = "absent"
                /\ place \notin Ends => /\ x.view.status = row.status
                                        /\ x.view.thread = row.thread
                                        /\ x.view.try = row.try
<1> DEFINE seen == IF place \in Ends THEN Absent ELSE View(row)
<1> DEFINE x == Note(w, place, row, next, end, error)
<1>1. seen \in Row
  BY IdleIs, ViewRow
<1>2. /\ place \in Ends => seen.status = "absent"
      /\ place \notin Ends => /\ seen.status = row.status
                              /\ seen.thread = row.thread
                              /\ seen.try = row.try
  BY ViewRow DEF Absent
<1>3. x.view = seen /\ x.at = place /\ x.run = worker[w].run
      /\ x.attempt = worker[w].attempt /\ x.next = next
  BY DEF Note, Whole
<1>4. x \in Handling
  <2> HIDE DEF seen
  <2>1. x = [at |-> place, run |-> worker[w].run,
             attempt |-> worker[w].attempt, view |-> seen, next |-> next,
             end |-> end, error |-> error]
    BY DEF Note, Whole, seen
  <2>2. worker[w].attempt \in 0 .. MaxAttempts
    BY WorkFacts DEF Handling
  <2>. QED BY <1>1, <2>1, <2>2, WorkFacts DEF Handling, Leads, Refreshes,
             Failures, Errors
<1> HIDE DEF seen
<1>5. place \in Followed \cup {"prepare"} => place \notin Ends
  BY DEF Followed, Ends
<1>6. Fits(x)
  <2> HIDE DEF x
  <2>1. worker[w].attempt < MaxAttempts
    BY DEF AtWork, Fits
  <2>. QED BY <1>2, <1>3, <1>5, <2>1, WorkFacts DEF Fits, Leads
<1>7. worker' = [worker EXCEPT ![w] = x]
  BY DEF Notes
<1> HIDE DEF x
<1>8. Goes(w, x)
  BY <1>3, <1>4, <1>6, <1>7 DEF Goes, Leads
<1>. QED BY <1>2, <1>3, <1>8

-----------------------------------------------------------------------------
(* What a step of a delivery that goes on brings about.                    *)

\* An evaluation with valid artifacts keeps them.
ThreadsKept ==
  /\ remote' \in [Run -> [Try -> ThreadState]]
  /\ \A r \in Run, t \in Try : remote[r][t] = "valid" => remote'[r][t] = "valid"

Writes(w) ==
  Turns(worker[w].run) /\ UNCHANGED assessment /\ ThreadsKept

\* Its run is completed, with the artifacts of the thread it has followed.
Completes(w) ==
  LET r == worker[w].run
  IN /\ worker[w].at = "commit"
     /\ table' \in [Run -> Row]
     /\ \A q \in Run : q # r => table'[q] = table[q]
     /\ Open(table[r]) /\ table'[r].status = "completed"
     /\ ~table'[r].active /\ table'[r].result = worker[w].view.thread
     /\ assessment' = [assessment EXCEPT ![RepoOfRun(r)] = r]
     /\ UNCHANGED remote

\* A delivery that is not going to forget an open run.
Trusted(x) == x.at # "ack" /\ x.view.status \notin Terminal

\* A delivery that finds its run open is trusted if it was, or has reopened
\* it.
CarriesOn(w, x) ==
  LET r == worker[w].run
  IN Open(table'[r]) /\ (Open(table[r]) => Trusted(worker[w])) => Trusted(x)

\* What is committed is valid.
Backs(x) ==
  x.at = "commit" => remote'[x.run][x.view.thread] = "valid"

\* A row has a thread from the time it runs, and a delivery that nobody
\* interferes with finds the row where it left it.
Staged(row) ==
  /\ row.status \in {"running", "finalizing"} => row.thread # None
  /\ row.status \in {"absent", "queued", "creating_thread"} =>
       row.thread = None
Agrees(x, row) ==
  /\ \/ x.at \in {"create", "attach", "schedule"}
     \/ x.at = "reload" /\ x.next = "create"
     => row.status = "creating_thread"
  /\ \/ x.at \in Followed
     \/ x.at = "reload" /\ x.next = "attached"
     => row.status \in {"running", "finalizing"}

Orderly(w, x) ==
  LET old == table[worker[w].run]
      new == table'[worker[w].run]
  IN healthy /\ Staged(old) /\ Agrees(worker[w], old) =>
       /\ Staged(new) /\ Agrees(x, new)
       /\ new.status \in Occupying =>
            old.status \in Occupying \/ Occupied < Limit

Effect(w) ==
  /\ UNCHANGED <<request, broker, dead, weather>>
  /\ Writes(w) \/ Completes(w)
  /\ \E x : Goes(w, x) /\ CarriesOn(w, x) /\ Backs(x) /\ Orderly(w, x)

LEMMA ThreadsStay ==
  ASSUME TypeOK, UNCHANGED remote
  PROVE  ThreadsKept
BY DEF TypeOK, StoreTypeOK, ThreadsKept

LEMMA StayWrites ==
  ASSUME NEW w \in Worker, AtWork(w), UNCHANGED <<table, assessment, remote>>
  PROVE  Writes(w) /\ table' = table
<1>1. Turns(worker[w].run)
  BY WorkFacts, SameBecomes DEF AtWork, Becomes, Turns, Turn
<1>. QED BY <1>1, ThreadsStay DEF Writes, AtWork

\* The delivery goes on where it wants, with the row it knows.
LEMMA GoGoes ==
  ASSUME NEW w \in Worker, AtWork(w), NEW place, Leads(place, worker[w].view),
         Go(w, place)
  PROVE  \E x : /\ Goes(w, x) /\ x.at = place /\ x.next = "pass"
                /\ place \in Ends => x.view.status = "absent"
                /\ place \notin Ends =>
                     /\ x.view.status = worker[w].view.status
                     /\ x.view.thread = worker[w].view.thread
                     /\ x.view.try = worker[w].view.try
<1>1. Notes(w, place, worker[w].view, "pass", "failed", "none")
  BY NotesAre
<1>. QED BY <1>1, NotesGo, WorkFacts DEF Refreshes, Failures, Terminal, Errors

LEMMA RetryGoes ==
  ASSUME NEW w \in Worker, AtWork(w), Go(w, "retry")
  PROVE  \E x : Goes(w, x) /\ x.at = "retry" /\ x.view.status = "absent"
<1>1. Leads("retry", worker[w].view)
  BY DEF Leads, Followed, Place
<1>. QED BY <1>1, GoGoes DEF Ends

LEMMA RefreshGoes ==
  ASSUME NEW w \in Worker, AtWork(w), NEW next \in Refreshes,
         Refresh(w, next)
  PROVE  \E x : Goes(w, x) /\ x.at = "reload" /\ x.next = next
                /\ x.view.status = worker[w].view.status
<1>1. Notes(w, "reload", worker[w].view, next, "failed", "none")
  BY NotesAre
<1>2. Leads("reload", worker[w].view) /\ "reload" \notin Ends
  BY DEF Leads, Followed, Place, Ends
<1>. QED BY <1>1, <1>2, NotesGo, WorkFacts DEF Failures, Terminal, Errors

LEMMA DoomGoes ==
  ASSUME NEW w \in Worker, AtWork(w), NEW row \in Row, NEW end \in Failures,
         NEW error \in Errors, DoomWith(w, end, error, row)
  PROVE  \E x : Goes(w, x) /\ x.at = "fail" /\ x.next = "pass"
                /\ x.view.status = row.status
<1>1. Notes(w, "fail", row, "pass", end, error)
  BY NotesAre
<1>2. Leads("fail", row) /\ "fail" \notin Ends
  BY DEF Leads, Followed, Place, Ends
<1>. QED BY <1>1, <1>2, NotesGo DEF Refreshes

LEMMA PassGoes ==
  ASSUME NEW w \in Worker, AtWork(w), NEW row \in Row, Pass(w, row)
  PROVE  \E x : /\ Goes(w, x) /\ x.next = "pass"
                /\ \/ x.at = "ack" /\ row.status \in Terminal
                   \/ /\ x.at \in {"fail", "poll", "reserve"}
                      /\ row.status \notin Terminal
                      /\ x.view.status = row.status
                      /\ x.at = "poll" => row.thread # None
<1>1. CASE row.status \in Terminal
  <2>1. Notes(w, "ack", row, "pass", "failed", "none")
    BY <1>1, NotesAre DEF Pass
  <2>2. Leads("ack", row)
    BY DEF Leads, Followed, Place
  <2>. QED BY <1>1, <2>1, <2>2, NotesGo DEF Refreshes, Failures, Terminal,
             Errors
<1>2. CASE /\ row.status \notin Terminal
           /\ \/ DoomWith(w, "expired", "analysis_timeout", row)
              \/ DoomWith(w, "failed", "other", row)
  BY <1>2, DoomGoes DEF Failures, Terminal, Errors
<1>3. CASE /\ row.status \notin Terminal /\ row.thread # None
           /\ GoWith(w, "poll", row)
  <2>1. Notes(w, "poll", row, "pass", "failed", "none")
    BY <1>3, NotesAre
  <2>2. Leads("poll", row) /\ "poll" \notin Ends
    BY <1>3, RowFields DEF Leads, Followed, Place, Ends
  <2>. QED BY <1>3, <2>1, <2>2, NotesGo DEF Refreshes, Failures, Terminal,
             Errors
<1>4. CASE row.status \notin Terminal /\ GoWith(w, "reserve", row)
  <2>1. Notes(w, "reserve", row, "pass", "failed", "none")
    BY <1>4, NotesAre
  <2>2. Leads("reserve", row) /\ "reserve" \notin Ends
    BY DEF Leads, Followed, Place, Ends
  <2>. QED BY <1>4, <2>1, <2>2, NotesGo DEF Refreshes, Failures, Terminal,
             Errors
<1>. QED BY <1>1, <1>2, <1>3, <1>4 DEF Pass

-----------------------------------------------------------------------------
(* The steps of a delivery that goes on, one by one.                       *)

\* Nothing is written, and the delivery remembers x.
LEMMA ReadsOnly ==
  ASSUME NEW w \in Worker, AtWork(w), UNCHANGED <<store, request, broker, dead,
           weather>>, NEW x, Goes(w, x), x.at # "commit",
         Open(table[worker[w].run]) /\ Trusted(worker[w]) => Trusted(x),
         healthy /\ Staged(table[worker[w].run])
           /\ Agrees(worker[w], table[worker[w].run])
           => Agrees(x, table[worker[w].run])
  PROVE  Effect(w)
<1>1. Writes(w) /\ table' = table
  BY StayWrites DEF store
<1>2. CarriesOn(w, x)
  BY <1>1 DEF CarriesOn
<1>3. Orderly(w, x)
  BY <1>1 DEF Orderly
<1>4. Backs(x)
  BY DEF Backs
<1>. QED BY <1>1, <1>2, <1>3, <1>4 DEF Effect

\* A delivery that is to be retried.
LEMMA GivesUp ==
  ASSUME NEW x, x.at = "retry", x.view.status = "absent", NEW row
  PROVE  Trusted(x) /\ Agrees(x, row) /\ x.at # "commit"
BY DEF Trusted, Terminal, Agrees, Followed

LEMMA LoadEffect ==
  ASSUME NEW w \in Worker, AtWork(w), Load(w)
  PROVE  Effect(w)
<1>1. table[worker[w].run] \in Row
  BY WorkFacts
<1>2. PICK x : /\ Goes(w, x) /\ x.next = "pass"
               /\ \/ x.at = "ack" /\ table[worker[w].run].status \in Terminal
                  \/ /\ x.at \in {"fail", "poll", "reserve"}
                     /\ table[worker[w].run].status \notin Terminal
                     /\ x.view.status = table[worker[w].run].status
                     /\ x.at = "poll" => table[worker[w].run].thread # None
  BY <1>1, PassGoes DEF Load
<1>3. Open(table[worker[w].run]) => Trusted(x)
  BY <1>2 DEF Open, Trusted
<1>4. Staged(table[worker[w].run]) => Agrees(x, table[worker[w].run])
  BY <1>2, TableRow, WorkFacts DEF Staged, Agrees, Followed, AtWork, Status,
    Occupying
<1>. QED BY <1>2, <1>3, <1>4, ReadsOnly DEF Load

LEMMA ReloadEffect ==
  ASSUME NEW w \in Worker, AtWork(w), Reload(w)
  PROVE  Effect(w)
<1>. DEFINE me == worker[w]
            old == table[me.run]
<1>1. PICK row \in {old} \cup (IF healthy THEN {} ELSE {me.view}) :
        CASE me.next = "pass" -> Pass(w, row)
          [] me.next = "attached" ->
               IF row.thread = None THEN Go(w, "retry") ELSE Pass(w, row)
          [] OTHER -> GoWith(w, me.next, row)
  BY DEF Reload
<1>2. row \in Row /\ old \in Row /\ (row = old \/ (~healthy /\ row = me.view))
  BY <1>1, WorkFacts
<1>3. UNCHANGED <<store, request, broker, dead, weather>> /\ me.at = "reload"
  BY DEF Reload, On
<1>4. CASE Pass(w, row)
  <2>1. PICK x : /\ Goes(w, x) /\ x.next = "pass"
                 /\ \/ x.at = "ack" /\ row.status \in Terminal
                    \/ /\ x.at \in {"fail", "poll", "reserve"}
                       /\ row.status \notin Terminal
                       /\ x.view.status = row.status
                       /\ x.at = "poll" => row.thread # None
    BY <1>2, <1>4, PassGoes
  <2>2. Open(old) /\ Trusted(me) => Trusted(x)
    BY <1>2, <2>1 DEF Open, Trusted
  <2>3. healthy /\ Staged(old) => Agrees(x, old)
    BY <1>2, <2>1, TableRow, WorkFacts DEF Staged, Agrees, Followed, AtWork,
      Status, Occupying
  <2>. QED BY <1>3, <2>1, <2>2, <2>3, ReadsOnly
<1>5. CASE Go(w, "retry")
  BY <1>3, <1>5, RetryGoes, GivesUp, ReadsOnly
<1>6. CASE me.next \in {"create", "park"} /\ GoWith(w, me.next, row)
  <2>1. Leads(me.next, row)
    BY <1>6 DEF Leads, Followed, Place
  <2>2. Notes(w, me.next, row, "pass", "failed", "none")
    BY <1>6, NotesAre
  <2>3. PICK x : /\ Goes(w, x) /\ x.at = me.next
                 /\ x.at \in Ends => x.view.status = "absent"
                 /\ x.at \notin Ends => x.view.status = row.status
    BY <1>2, <2>1, <2>2, NotesGo DEF Refreshes, Failures, Terminal, Errors
  <2>4. Open(old) /\ Trusted(me) => Trusted(x)
    BY <1>2, <1>6, <2>3 DEF Open, Trusted, Ends, Terminal
  <2>5. Agrees(me, old) => Agrees(x, old)
    BY <1>3, <1>6, <2>3 DEF Agrees, Followed
  <2>. QED BY <1>3, <1>6, <2>3, <2>4, <2>5, ReadsOnly
<1>7. me.next \in Refreshes
  BY WorkFacts DEF Handling, Refreshes
<1>. QED BY <1>1, <1>4, <1>5, <1>6, <1>7 DEF Refreshes

LEMMA CallFailsEffect ==
  ASSUME NEW w \in Worker, AtWork(w), CallFails(w)
  PROVE  Effect(w)
BY RetryGoes, GivesUp, ReadsOnly DEF CallFails

\* What a written row leaves to be shown.
LEMMA WritesRow ==
  ASSUME NEW w \in Worker, AtWork(w), Writes(w),
         UNCHANGED <<request, broker, dead, weather>>,
         NEW x, Goes(w, x), CarriesOn(w, x), x.at # "commit", Orderly(w, x)
  PROVE  Effect(w)
BY DEF Effect, Backs

LEMMA FailRunEffect ==
  ASSUME NEW w \in Worker, AtWork(w), FailRun(w)
  PROVE  Effect(w)
<1>. DEFINE r == worker[w].run
<1>1. Turns(r) /\ ~Open(table'[r])
  BY WorkFacts, FailTurns DEF FailRun, AtWork
<1>2. Writes(w) /\ UNCHANGED <<request, broker, dead, weather>>
  BY <1>1, ThreadsStay DEF FailRun, Writes, AtWork
<1>3. PICK x : Goes(w, x) /\ x.at \in {"reload", "retry"}
               /\ (x.at = "reload" => x.next = "pass")
  <2>1. CASE Refresh(w, "pass")
    BY <2>1, RefreshGoes DEF Refreshes
  <2>2. CASE Go(w, "retry")
    BY <2>2, RetryGoes
  <2>. QED BY <2>1, <2>2 DEF FailRun, Refreshed
<1>4. CarriesOn(w, x)
  BY <1>1 DEF CarriesOn
<1>5. table'[r].status \in Status /\ table'[r].status \notin
        {"queued"} \cup Occupying /\ table[r].status \in Status
  <2>1. table'[r] \in Row
    BY <1>1, WorkFacts DEF Turns
  <2>. QED BY <1>1, <2>1, RowFields, WorkFacts DEF Open, Terminal, Occupying
<1>6. Orderly(w, x)
  <2>1. Staged(table[r]) => Staged(table'[r])
    BY <1>1, <1>5 DEF Staged, Turns, Turn, Occupying, Failures, Terminal, Open
  <2>. QED BY <1>3, <1>5, <2>1 DEF Orderly, Agrees, Followed
<1>. QED BY <1>2, <1>3, <1>4, <1>6, WritesRow

\* A delivery whose run stays open goes on as before, or gives up.
LEMMA StaysCarried ==
  ASSUME NEW w \in Worker, NEW s, NEW t, Stays(worker[w].run, s, t), NEW x,
         x.at # "ack",
         x.view.status \in {worker[w].view.status, "absent"}
  PROVE  CarriesOn(w, x)
BY DEF Stays, CarriesOn, Trusted, Terminal

LEMMA ReserveSlotEffect ==
  ASSUME NEW w \in Worker, AtWork(w), ReserveSlot(w)
  PROVE  Effect(w)
<1>. DEFINE r == worker[w].run
<1>1. UNCHANGED <<assessment, remote, request, broker, dead, weather>>
      /\ worker[w].at = "reserve"
  BY DEF ReserveSlot, On
<1>2. CASE Reserve(r) /\ Refreshed(w, "create")
  <2>1. /\ Stays(r, "creating_thread", table[r].thread)
        /\ \/ table[r].status = "creating_thread"
           \/ table[r].status = "queued" /\ Occupied < Limit
    BY <1>2, WorkFacts, ReserveStays DEF AtWork
  <2>2. Writes(w)
    BY <1>1, <2>1, ThreadsStay DEF Writes, AtWork, Stays
  <2>3. PICK x : /\ Goes(w, x)
                 /\ \/ x.at = "reload" /\ x.next = "create"
                    \/ ~healthy /\ x.at = "retry"
                 /\ x.view.status \in {worker[w].view.status, "absent"}
    <3>1. CASE Refresh(w, "create")
      BY <3>1, RefreshGoes DEF Refreshes
    <3>2. CASE ~healthy /\ Go(w, "retry")
      BY <3>2, RetryGoes
    <3>. QED BY <1>2, <3>1, <3>2 DEF Refreshed
  <2>4. CarriesOn(w, x)
    BY <2>1, <2>3, StaysCarried
  <2>5. Orderly(w, x)
    BY <2>1, <2>3 DEF Orderly, Staged, Agrees, Followed, Stays, Occupying
  <2>. QED BY <1>1, <2>2, <2>3, <2>4, <2>5, WritesRow
<1>3. CASE Refresh(w, "park") /\ UNCHANGED table
  <2>1. PICK x : /\ Goes(w, x) /\ x.at = "reload" /\ x.next = "park"
                 /\ x.view.status = worker[w].view.status
    BY <1>3, RefreshGoes DEF Refreshes
  <2>. QED BY <1>1, <1>3, <2>1, ReadsOnly DEF Trusted, Agrees, Followed, store
<1>. QED BY <1>2, <1>3 DEF ReserveSlot

LEMMA CreateKeeps ==
  ASSUME TypeOK, NEW r \in Run, NEW t \in Try, CreateThread(r, t)
  PROVE  ThreadsKept
<1>1. remote \in [Run -> [Try -> ThreadState]] /\ "running" \in ThreadState
  BY DEF TypeOK, StoreTypeOK, ThreadState
<1>2. CASE remote[r][t] = "absent"
  <2>1. remote' = [remote EXCEPT ![r][t] = "running"]
    BY <1>2 DEF CreateThread
  <2>. QED BY <1>1, <1>2, <2>1 DEF ThreadsKept
<1>3. CASE remote[r][t] # "absent"
  BY <1>1, <1>3 DEF CreateThread, ThreadsKept
<1>. QED BY <1>2, <1>3

LEMMA CreateEffect ==
  ASSUME NEW w \in Worker, AtWork(w), Create(w)
  PROVE  Effect(w)
<1>. DEFINE r == worker[w].run
<1>1. UNCHANGED <<table, assessment, request, broker, dead, weather>>
      /\ worker[w].at = "create"
  BY DEF Create, On
<1>2. ThreadsKept
  <2>1. worker[w].view.try \in Try
    BY WorkFacts, RowFields
  <2>2. \/ CreateThread(r, worker[w].view.try)
        \/ UNCHANGED remote
    BY DEF Create
  <2>. QED BY <2>1, <2>2, CreateKeeps, ThreadsStay, WorkFacts DEF AtWork
<1>3. Writes(w) /\ table' = table
  <2>1. Turns(r)
    BY <1>1, WorkFacts, SameBecomes DEF AtWork, Becomes, Turns, Turn
  <2>. QED BY <1>1, <1>2, <2>1 DEF Writes
<1>4. PICK x : /\ Goes(w, x)
               /\ x.at \in {"attach", "fail", "schedule"}
               /\ x.view.status = worker[w].view.status
  <2>1. CASE \/ Go(w, "attach") \/ Go(w, "schedule")
    <3>1. \A p \in {"attach", "schedule"} :
            Leads(p, worker[w].view) /\ p \notin Ends
      BY DEF Leads, Place, Followed, Ends
    <3>. QED BY <2>1, <3>1, GoGoes
  <2>2. CASE Doom(w, "failed", "other")
    BY <2>2, DoomGoes, WorkFacts DEF Doom, Failures, Terminal, Errors
  <2>3. Go(w, "attach") \/ Go(w, "schedule") \/ Doom(w, "failed", "other")
    BY DEF Create
  <2>. QED BY <2>1, <2>2, <2>3
<1>5. CarriesOn(w, x)
  BY <1>3, <1>4 DEF CarriesOn, Trusted
<1>6. Orderly(w, x)
  BY <1>1, <1>3, <1>4 DEF Orderly, Agrees, Followed
<1>. QED BY <1>1, <1>3, <1>4, <1>5, <1>6, WritesRow

LEMMA ScheduleEffect ==
  ASSUME NEW w \in Worker, AtWork(w), ScheduleRetry(w)
  PROVE  Effect(w)
<1>. DEFINE r == worker[w].run
<1>1. UNCHANGED <<assessment, remote, request, broker, dead, weather>>
      /\ worker[w].at = "schedule"
  BY DEF ScheduleRetry, On
<1>2. CASE Schedule(r) /\ Answered(w, "park")
  <2>1. Stays(r, "queued", None)
    BY <1>2, WorkFacts, ScheduleStays DEF AtWork
  <2>2. Writes(w)
    BY <1>1, <2>1, ThreadsStay DEF Writes, AtWork, Stays
  <2>3. PICK x : Goes(w, x) /\ x.at \in {"park", "retry"}
                 /\ x.view.status = "absent"
    <3>1. CASE Go(w, "park")
      <4>1. Leads("park", worker[w].view) /\ "park" \in Ends
        BY DEF Leads, Place, Followed, Ends
      <4>. QED BY <3>1, <4>1, GoGoes
    <3>2. CASE Go(w, "retry")
      BY <3>2, RetryGoes
    <3>. QED BY <1>2, <3>1, <3>2 DEF Answered
  <2>4. CarriesOn(w, x)
    BY <2>1, <2>3, StaysCarried
  <2>5. Orderly(w, x)
    BY <2>1, <2>3 DEF Orderly, Staged, Agrees, Followed, Stays, Occupying
  <2>. QED BY <1>1, <2>2, <2>3, <2>4, <2>5, WritesRow
<1>3. CASE Go(w, "retry") /\ UNCHANGED table
  BY <1>1, <1>3, RetryGoes, GivesUp, ReadsOnly DEF store
<1>. QED BY <1>2, <1>3 DEF ScheduleRetry

LEMMA AttachEffect ==
  ASSUME NEW w \in Worker, AtWork(w), AttachThread(w)
  PROVE  Effect(w)
<1>. DEFINE r == worker[w].run
<1>1. UNCHANGED <<assessment, remote, request, broker, dead, weather>>
      /\ worker[w].at = "attach"
  BY DEF AttachThread, On
<1>2. CASE Attach(r, worker[w].view.try) /\ Refreshed(w, "attached")
  <2>1. worker[w].view.try \in Try
    BY WorkFacts, RowFields
  <2>2. Stays(r, "running", worker[w].view.try)
    BY <1>2, <2>1, WorkFacts, AttachStays DEF AtWork
  <2>3. Writes(w)
    BY <1>1, <2>2, ThreadsStay DEF Writes, AtWork, Stays
  <2>4. PICK x : /\ Goes(w, x)
                 /\ \/ x.at = "reload" /\ x.next = "attached"
                    \/ x.at = "retry"
                 /\ x.view.status \in {worker[w].view.status, "absent"}
    <3>1. CASE Refresh(w, "attached")
      BY <3>1, RefreshGoes DEF Refreshes
    <3>2. CASE Go(w, "retry")
      BY <3>2, RetryGoes
    <3>. QED BY <1>2, <3>1, <3>2 DEF Refreshed
  <2>5. CarriesOn(w, x)
    BY <2>2, <2>4, StaysCarried
  <2>6. Orderly(w, x)
    BY <1>1, <2>1, <2>2, <2>4, Bounds
    DEF Orderly, Staged, Agrees, Followed, Stays, Occupying
  <2>. QED BY <1>1, <2>3, <2>4, <2>5, <2>6, WritesRow
<1>3. CASE Go(w, "retry") /\ UNCHANGED table
  BY <1>1, <1>3, RetryGoes, GivesUp, ReadsOnly DEF store
<1>. QED BY <1>2, <1>3 DEF AttachThread

\* The run is doomed with the row the delivery knows.
LEMMA DoomsGo ==
  ASSUME NEW w \in Worker, AtWork(w), NEW end \in Failures,
         Doom(w, end, "other")
  PROVE  \E x : Goes(w, x) /\ x.at = "fail"
                /\ x.view.status = worker[w].view.status
<1>1. DoomWith(w, end, "other", worker[w].view) /\ worker[w].view \in Row
  BY WorkFacts DEF Doom
<1>. QED BY <1>1, DoomGoes DEF Errors

LEMMA PollEffect ==
  ASSUME NEW w \in Worker, AtWork(w), Poll(w)
  PROVE  Effect(w)
<1>. DEFINE me == worker[w]
<1>1. UNCHANGED <<store, request, broker, dead, weather>> /\ me.at = "poll"
  BY DEF Poll, On
<1>2. me.view.thread \in Try
  BY <1>1 DEF AtWork, Fits, Followed
<1>3. PICK x : /\ Goes(w, x)
               /\ \/ x.at \in {"update", "artifacts", "prepare", "fail"}
                  \/ x.at = "reload" /\ x.next = "pass"
               /\ x.view.status = me.view.status
  <2>1. CASE Go(w, "update") \/ Go(w, "artifacts")
    <3>1. \A p \in {"update", "artifacts"} :
            Leads(p, me.view) /\ p \notin Ends
      BY <1>2 DEF Leads, Place, Followed, Ends
    <3>. QED BY <2>1, <3>1, GoGoes
  <2>2. CASE me.view.try < AutomaticRetries /\ Go(w, "prepare")
    <3>1. Leads("prepare", me.view) /\ "prepare" \notin Ends
      BY <1>2, <2>2 DEF Leads, Place, Followed, Ends
    <3>. QED BY <2>2, <3>1, GoGoes
  <2>3. CASE \E end \in {"failed", "cancelled", "expired"} :
               Doom(w, end, "other")
    BY <2>3, DoomsGo DEF Failures, Terminal
  <2>4. CASE Refresh(w, "pass")
    BY <2>4, RefreshGoes DEF Refreshes
  <2>. QED BY <2>1, <2>2, <2>3, <2>4 DEF Poll
<1>4. Trusted(me) => Trusted(x)
  BY <1>3 DEF Trusted
<1>5. Agrees(me, table[me.run]) => Agrees(x, table[me.run])
  BY <1>1, <1>3 DEF Agrees, Followed
<1>. QED BY <1>1, <1>3, <1>4, <1>5, ReadsOnly

LEMMA UpdateEffect ==
  ASSUME NEW w \in Worker, AtWork(w), UpdateState(w)
  PROVE  Effect(w)
<1>. DEFINE r == worker[w].run
<1>1. UNCHANGED <<assessment, remote, request, broker, dead, weather>>
      /\ worker[w].at = "update" /\ Update(r, "running", None)
  BY DEF UpdateState, On
<1>2. PICK x : /\ Goes(w, x)
               /\ \/ x.at = "reload" /\ x.next = "pass"
                  \/ x.at = "retry"
               /\ x.view.status \in {worker[w].view.status, "absent"}
  <2>1. CASE Refresh(w, "pass")
    BY <2>1, RefreshGoes DEF Refreshes
  <2>2. CASE Go(w, "retry")
    BY <2>2, RetryGoes
  <2>. QED BY <2>1, <2>2 DEF UpdateState, Refreshed
<1>3. \/ Stays(r, "running", table[r].thread)
      \/ UNCHANGED table /\ Turns(r) /\ ~Open(table[r])
  BY <1>1, WorkFacts, UpdateTurns DEF AtWork
<1>4. Writes(w)
  BY <1>1, <1>3, ThreadsStay DEF Writes, AtWork, Stays
<1>5. CarriesOn(w, x)
  <2>1. CASE Stays(r, "running", table[r].thread)
    BY <1>2, <2>1, StaysCarried
  <2>2. CASE UNCHANGED table /\ ~Open(table[r])
    BY <2>2 DEF CarriesOn
  <2>. QED BY <1>3, <2>1, <2>2
<1>6. Orderly(w, x)
  BY <1>1, <1>2, <1>3 DEF Orderly, Staged, Agrees, Followed, Stays, Occupying
<1>. QED BY <1>1, <1>2, <1>4, <1>5, <1>6, WritesRow

LEMMA PrepareEffect ==
  ASSUME NEW w \in Worker, AtWork(w), PrepareRetry(w)
  PROVE  Effect(w)
<1>. DEFINE r == worker[w].run
            row == worker[w].view
            new == Requeued(table[r], row.try + 1)
<1>1. UNCHANGED <<assessment, remote, request, broker, dead, weather>>
      /\ worker[w].at = "prepare"
  BY DEF PrepareRetry, On
<1>2. row.thread \in Try /\ row.try + 1 \in Try
  <2>1. row.thread \in Try /\ row.try < 1
    BY <1>1 DEF AtWork, Fits, Followed, AutomaticRetries
  <2>2. row.try \in Try
    BY WorkFacts, RowFields
  <2>. QED BY <2>1, <2>2, Bounds DEF Try
<1>3. CASE Prepare(r, row.thread, row.try + 1)
           /\ (Pass(w, new) \/ Go(w, "retry"))
  <2>1. /\ Turns(r) /\ table'[r] = new
        /\ table'[r].status = "queued" /\ table'[r].thread = None
    BY <1>2, <1>3, WorkFacts, PrepareTurns DEF AtWork
  <2>2. Writes(w)
    BY <1>1, <2>1, ThreadsStay DEF Writes, AtWork
  <2>3. new \in Row /\ new.status = "queued" /\ new.thread = None
    BY <1>2, WorkFacts, RequeuedRow
  <2>4. PICK x : Goes(w, x) /\ x.at \in {"fail", "reserve", "retry"}
                 /\ x.view.status \in {"queued", "absent"}
    <3> HIDE DEF new
    <3>1. CASE Pass(w, new)
      BY <2>3, <3>1, PassGoes DEF Terminal
    <3>2. CASE Go(w, "retry")
      BY <3>2, RetryGoes
    <3>. QED BY <1>3, <3>1, <3>2
  <2>5. CarriesOn(w, x)
    BY <2>4 DEF CarriesOn, Trusted, Terminal
  <2>6. Orderly(w, x)
    BY <2>1, <2>4 DEF Orderly, Staged, Agrees, Followed, Occupying
  <2>. QED BY <1>1, <2>2, <2>4, <2>5, <2>6, WritesRow
<1>4. CASE Go(w, "retry") /\ UNCHANGED table
  BY <1>1, <1>4, RetryGoes, GivesUp, ReadsOnly DEF store
<1>5. CASE Refresh(w, "pass") /\ UNCHANGED table
  <2>1. PICK x : /\ Goes(w, x) /\ x.at = "reload" /\ x.next = "pass"
                 /\ x.view.status = worker[w].view.status
    BY <1>5, RefreshGoes DEF Refreshes
  <2>. QED BY <1>1, <1>5, <2>1, ReadsOnly DEF Trusted, Agrees, Followed, store
<1>. QED BY <1>3, <1>4, <1>5 DEF PrepareRetry

LEMMA ArtifactsEffect ==
  ASSUME NEW w \in Worker, AtWork(w), ReadArtifacts(w)
  PROVE  Effect(w)
<1>. DEFINE me == worker[w]
<1>1. UNCHANGED <<store, request, broker, dead, weather>>
      /\ me.at = "artifacts"
  BY DEF ReadArtifacts, On
<1>2. PICK x : /\ Goes(w, x)
               /\ \/ x.at \in {"finalizing", "fail"}
                  \/ x.at = "reload" /\ x.next = "pass"
               /\ x.view.status = me.view.status
  <2>1. CASE Go(w, "finalizing")
    <3>1. Leads("finalizing", me.view) /\ "finalizing" \notin Ends
      BY <1>1 DEF Leads, Place, Followed, Ends, AtWork, Fits
    <3>. QED BY <2>1, <3>1, GoGoes
  <2>2. CASE Doom(w, "failed", "other")
    BY <2>2, DoomsGo DEF Failures, Terminal
  <2>3. CASE Refresh(w, "pass")
    BY <2>3, RefreshGoes DEF Refreshes
  <2>. QED BY <2>1, <2>2, <2>3 DEF ReadArtifacts
<1>3. Trusted(me) => Trusted(x)
  BY <1>2 DEF Trusted
<1>4. Agrees(me, table[me.run]) => Agrees(x, table[me.run])
  BY <1>1, <1>2 DEF Agrees, Followed
<1>. QED BY <1>1, <1>2, <1>3, <1>4, ReadsOnly

LEMMA FinalizingEffect ==
  ASSUME NEW w \in Worker, AtWork(w), MarkFinalizing(w)
  PROVE  Effect(w)
<1>. DEFINE r == worker[w].run
            me == worker[w]
<1>1. UNCHANGED <<assessment, remote, request, broker, dead, weather>>
      /\ me.at = "finalizing" /\ Update(r, "finalizing", None)
  BY DEF MarkFinalizing, On
<1>2. PICK x : /\ Goes(w, x)
               /\ \/ x.at \in {"fail", "retry"}
                  \/ /\ x.at = "commit" /\ x.view.thread = me.view.thread
                     /\ remote[r][me.view.thread] = "valid"
               /\ x.view.status \in {me.view.status, "absent"}
  <2>1. CASE Snapshot(w) = "valid" /\ Go(w, "commit")
    <3>1. Leads("commit", me.view) /\ "commit" \notin Ends
      BY <1>1 DEF Leads, Place, Followed, Ends, AtWork, Fits
    <3>. QED BY <2>1, <3>1, GoGoes DEF Snapshot
  <2>2. CASE Doom(w, "failed", "other")
    BY <2>2, DoomsGo DEF Failures, Terminal
  <2>3. CASE Go(w, "retry")
    BY <2>3, RetryGoes
  <2>. QED BY <2>1, <2>2, <2>3 DEF MarkFinalizing
<1>3. \/ Stays(r, "finalizing", table[r].thread)
      \/ UNCHANGED table /\ Turns(r) /\ ~Open(table[r])
  BY <1>1, WorkFacts, UpdateTurns DEF AtWork
<1>4. Writes(w)
  BY <1>1, <1>3, ThreadsStay DEF Writes, AtWork, Stays
<1>5. CarriesOn(w, x)
  <2>1. CASE Stays(r, "finalizing", table[r].thread)
    BY <1>2, <2>1, StaysCarried
  <2>2. CASE UNCHANGED table /\ ~Open(table[r])
    BY <2>2 DEF CarriesOn
  <2>. QED BY <1>3, <2>1, <2>2
<1>6. Orderly(w, x)
  BY <1>1, <1>2, <1>3 DEF Orderly, Staged, Agrees, Followed, Stays, Occupying
<1>7. Backs(x)
  BY <1>1, <1>2 DEF Backs, Goes
<1>. QED BY <1>1, <1>2, <1>4, <1>5, <1>6, <1>7 DEF Effect

LEMMA CommitEffect ==
  ASSUME NEW w \in Worker, AtWork(w), Commit(w)
  PROVE  Effect(w)
<1>. DEFINE r == worker[w].run
            me == worker[w]
<1>1. UNCHANGED <<remote, request, broker, dead, weather>>
      /\ me.at = "commit" /\ me.view.thread \in Try
  BY DEF Commit, On, AtWork, Fits, Followed
<1>2. ASSUME Go(w, "ack") PROVE \E x : Goes(w, x) /\ x.at = "ack"
  <2>1. Leads("ack", me.view)
    BY DEF Leads, Place, Followed
  <2>. QED BY <1>2, <2>1, GoGoes
<1>3. ASSUME Doom(w, "failed", "other")
      PROVE  \E x : /\ Goes(w, x) /\ x.at = "fail"
                    /\ x.view.status = me.view.status
  BY <1>3, DoomsGo DEF Failures, Terminal
<1>4. CASE /\ Finalize(r, me.view.thread)
           /\ Go(w, "ack") \/ Doom(w, "failed", "other")
  <2>1. PICK x : Goes(w, x) /\ x.at \in {"ack", "fail"}
    BY <1>2, <1>3, <1>4
  <2>2. /\ table' \in [Run -> Row]
        /\ \A q \in Run : q # r => table'[q] = table[q]
        /\ Open(table[r]) /\ table'[r].status = "completed"
        /\ ~table'[r].active /\ table'[r].result = me.view.thread
    BY <1>1, <1>4, WorkFacts, FinalizeEnds DEF AtWork
  <2>3. Completes(w)
    BY <1>1, <1>4, <2>2 DEF Completes, Finalize
  <2>4. CarriesOn(w, x) /\ Backs(x)
    BY <2>1, <2>2 DEF CarriesOn, Open, Terminal, Backs
  <2>5. Orderly(w, x)
    BY <2>1, <2>2 DEF Orderly, Staged, Agrees, Followed, Occupying
  <2>. QED BY <1>1, <2>1, <2>3, <2>4, <2>5 DEF Effect
<1>5. CASE /\ table[r].status = "completed" /\ Go(w, "ack")
           /\ UNCHANGED <<table, assessment>>
  <2>1. ~Open(table[r])
    BY <1>5 DEF Open, Terminal
  <2>. QED BY <1>1, <1>2, <1>5, <2>1, ReadsOnly DEF Agrees, Followed, store
<1>6. CASE Doom(w, "failed", "other") /\ UNCHANGED <<table, assessment>>
  BY <1>1, <1>3, <1>6, ReadsOnly DEF Trusted, Agrees, Followed, store
<1>. QED BY <1>4, <1>5, <1>6 DEF Commit

-----------------------------------------------------------------------------
(* The end of a delivery.                                                  *)

\* The delivery is over: its job was acknowledged with nothing more to do,
\* was buried, or is at the broker again.
Leaves(w) ==
  LET r == worker[w].run
  IN /\ UNCHANGED <<store, request, weather>>
     /\ worker' = [worker EXCEPT ![w] = Idle]
     /\ ready' \in [Job -> 0 .. MaxCopies]
     /\ \A m \in Job : /\ m.run # r => ready'[m] = ready[m]
                       /\ ready[m] > 0 => ready'[m] > 0
     /\ accepted' \in {accepted, accepted \cup {r}}
     /\ dead' \in {dead, dead \cup {r}}
     /\ Keeps \/ (~healthy /\ \E m \in Job : Adds(m))
     /\ \/ worker[w].at = "ack"
        \/ r \in dead'
        \/ \E m \in Job : m.run = r /\ ready'[m] > 0

LEMMA RequeueLeaves ==
  ASSUME NEW w \in Worker, AtWork(w), Counted, Requeue(w),
         UNCHANGED <<store, request, accepted, weather>>,
         dead' \in {dead, dead \cup {worker[w].run}}
  PROVE  Leaves(w)
<1>1. /\ worker' = [worker EXCEPT ![w] = Idle]
      /\ ready' = [ready EXCEPT ![Held(w)] = @ + 1]
      /\ ready \in [Job -> 0 .. MaxCopies]
  BY DEF Requeue, AtWork, TypeOK
<1>2. Held(w) \in Job /\ Held(w).run = worker[w].run
  BY WorkFacts
<1>3. Keeps /\ ready' \in [Job -> 0 .. MaxCopies] /\ ready'[Held(w)] > 0
  <2>1. PICK m \in Job : m = Held(w)
    BY <1>2
  <2>. QED BY <1>1, <1>2, <2>1, LeaveKeeps DEF AtWork
<1>4. \A m \in Job : /\ m.run # worker[w].run => ready'[m] = ready[m]
                     /\ ready[m] > 0 => ready'[m] > 0
  BY <1>1, <1>2, Bounds
<1>. QED BY <1>1, <1>2, <1>3, <1>4 DEF Leaves

LEMMA AcknowledgeLeaves ==
  ASSUME NEW w \in Worker, AtWork(w), Acknowledge(w),
         UNCHANGED <<store, request, accepted, weather>>,
         \/ worker[w].at = "ack" /\ dead' = dead
         \/ dead' = dead \cup {worker[w].run}
  PROVE  Leaves(w)
<1>1. /\ worker' = [worker EXCEPT ![w] = Idle] /\ ready' = ready
      /\ ready \in [Job -> 0 .. MaxCopies]
  BY DEF Acknowledge, AtWork, TypeOK
<1>2. Held(w) \in Job /\ Held(w).run = worker[w].run
  BY WorkFacts
<1>3. Keeps
  <2>1. PICK m \in Job : m = Held(w)
    BY <1>2
  <2>. QED BY <1>1, <1>2, <2>1, LeaveKeeps DEF AtWork
<1>. QED BY <1>1, <1>3 DEF Leaves

LEMMA ReplaceLeaves ==
  ASSUME NEW w \in Worker, AtWork(w), Counted, NEW m \in Job,
         m.run = worker[w].run, Replace(w, m),
         UNCHANGED <<store, request, dead, weather>>
  PROVE  Leaves(w)
<1>1. /\ worker' = [worker EXCEPT ![w] = Idle]
      /\ accepted' = accepted \cup {worker[w].run}
      /\ ready \in [Job -> 0 .. MaxCopies]
  BY DEF Replace, AtWork, TypeOK
<1>2. PICK h \in Job : h = Held(w) /\ h.run = m.run
  BY WorkFacts
<1>3. CASE ready' = [ready EXCEPT ![m] = @ + 1]
  <2>1. Keeps /\ ready' \in [Job -> 0 .. MaxCopies] /\ ready'[m] > 0
    BY <1>1, <1>3, LeaveKeeps DEF AtWork
  <2>2. \A n \in Job : /\ n.run # m.run => ready'[n] = ready[n]
                       /\ ready[n] > 0 => ready'[n] > 0
    BY <1>1, <1>3, Bounds
  <2>. QED BY <1>1, <2>1, <2>2 DEF Leaves
<1>4. CASE /\ ~healthy /\ Copies(m.run) < MaxCopies
           /\ ready' = [[ready EXCEPT ![m] = @ + 1] EXCEPT ![h] = @ + 1]
  <2>1. Adds(m) /\ ready' \in [Job -> 0 .. MaxCopies] /\ ready'[h] > 0
    BY <1>1, <1>2, <1>4, LeaveKeeps DEF AtWork
  <2>2. \A n \in Job : /\ n.run # m.run => ready'[n] = ready[n]
                       /\ ready[n] > 0 => ready'[n] > 0
    BY <1>1, <1>2, <1>4, Bounds
  <2>. QED BY <1>1, <1>2, <1>4, <2>1, <2>2 DEF Leaves
<1>. QED BY <1>2, <1>3, <1>4 DEF Replace

\* One step of a delivery.
LEMMA WorkKinds ==
  ASSUME NEW w \in Worker, BaseInv, Work(w) \/ CallFails(w) \/ Crash(w)
  PROVE  worker[w].at # "idle" /\ AtWork(w) /\ (Effect(w) \/ Leaves(w))
<1>1. worker[w].at # "idle"
  BY DEF Work, Load, Reload, FailRun, ReserveSlot, Park, Create,
    ScheduleRetry, AttachThread, Poll, UpdateState, PrepareRetry,
    ReadArtifacts, MarkFinalizing, Commit, Ack, Retry, Bury, CallFails, Crash,
    On
<1>2. AtWork(w) /\ Counted
  BY <1>1 DEF AtWork, BaseInv, Fitting
<1>. SUFFICES Effect(w) \/ Leaves(w)
  BY <1>1, <1>2
<1>3. CASE Ack(w)
  BY <1>2, <1>3, AcknowledgeLeaves DEF Ack, On
<1>4. CASE Bury(w)
  BY <1>2, <1>4, AcknowledgeLeaves, RequeueLeaves DEF Bury
<1>5. CASE Crash(w)
  BY <1>2, <1>5, RequeueLeaves DEF Crash
<1>6. CASE Park(w)
  <2>1. CASE Replace(w, Held(w))
    BY <1>2, <1>6, <2>1, ReplaceLeaves, WorkFacts DEF Park
  <2>2. CASE Go(w, "retry") /\ UNCHANGED broker
    BY <1>2, <1>6, <2>2, RetryGoes, GivesUp, ReadsOnly DEF Park
  <2>. QED BY <1>6, <2>1, <2>2 DEF Park
<1>7. CASE Retry(w)
  <2>1. CASE Go(w, "dead") /\ UNCHANGED broker
    <3>1. Leads("dead", worker[w].view) /\ "dead" \in Ends
      BY DEF Leads, Place, Followed, Ends
    <3>2. PICK x : Goes(w, x) /\ x.at = "dead" /\ x.view.status = "absent"
      BY <1>2, <2>1, <3>1, GoGoes
    <3>. QED BY <1>2, <1>7, <2>1, <3>2, ReadsOnly
             DEF Retry, Trusted, Terminal, Agrees, Followed
  <2>2. CASE worker[w].attempt + 1 < MaxAttempts
             /\ Replace(w, [Held(w) EXCEPT !.attempt = @ + 1])
    <3> DEFINE m == [Held(w) EXCEPT !.attempt = @ + 1]
    <3>1. m = [run |-> worker[w].run, attempt |-> worker[w].attempt + 1]
      BY DEF Held
    <3>2. m \in Job /\ m.run = worker[w].run
      BY <1>2, <2>2, <3>1, WorkFacts, Bounds DEF Job
    <3> HIDE DEF m
    <3>3. Replace(w, m)
      BY <2>2 DEF m
    <3>. QED BY <1>2, <1>7, <3>2, <3>3, ReplaceLeaves DEF Retry
  <2>3. CASE Requeue(w) /\ UNCHANGED accepted
    BY <1>2, <1>7, <2>3, RequeueLeaves DEF Retry
  <2>. QED BY <1>7, <2>1, <2>2, <2>3 DEF Retry
<1>8. CASE ~(Ack(w) \/ Bury(w) \/ Crash(w) \/ Park(w) \/ Retry(w))
  BY <1>2, <1>8, LoadEffect, ReloadEffect, CallFailsEffect, FailRunEffect,
    ReserveSlotEffect, CreateEffect, ScheduleEffect, AttachEffect, PollEffect,
    UpdateEffect, PrepareEffect, ArtifactsEffect, FinalizingEffect,
    CommitEffect DEF Work
<1>. QED BY <1>3, <1>4, <1>5, <1>6, <1>7, <1>8

-----------------------------------------------------------------------------
(* The other steps.                                                        *)

\* w takes job m.
Takes(w, m) ==
  /\ UNCHANGED <<store, request, accepted, dead, weather>>
  /\ worker[w].at = "idle" /\ ready[m] > 0 /\ Keeps
  /\ ready' \in [Job -> 0 .. MaxCopies]
  /\ \A n \in Job : /\ n.run # m.run => ready'[n] = ready[n]
                    /\ ready'[n] <= ready[n]
  /\ \E x : /\ worker' = [worker EXCEPT ![w] = x]
            /\ x \in Handling /\ Fits(x) /\ x.at = "load" /\ x.run = m.run
            /\ x.view = Absent

LEMMA DeliverTakes ==
  ASSUME BaseInv, NEW w \in Worker, NEW m \in Job, Deliver(w, m)
  PROVE  Takes(w, m)
<1>. DEFINE s1 == [Idle EXCEPT !.at = "load"]
            s2 == [s1 EXCEPT !.run = m.run]
            x == [s2 EXCEPT !.attempt = m.attempt]
<1>1. m.run \in Run /\ m.attempt \in 0 .. MaxAttempts - 1
  BY DEF Job
<1>2. s1 = Whole("load", None, 0, Absent, "pass", "failed", "none")
  BY DEF Whole, Idle
<1>. HIDE DEF s1
<1>3. s2 = Whole("load", m.run, 0, Absent, "pass", "failed", "none")
  BY <1>2 DEF Whole
<1>. HIDE DEF s2
<1>4. x = Whole("load", m.run, m.attempt, Absent, "pass", "failed", "none")
  BY <1>3 DEF Whole
<1>5. worker' = [worker EXCEPT ![w] = x]
  BY DEF Deliver, s1, s2
<1>. HIDE DEF x
<1>6. /\ x.at = "load" /\ x.run = m.run /\ x.attempt = m.attempt
      /\ x.view = Absent /\ x.next = "pass" /\ x.end = "failed"
  BY <1>4 DEF Whole
<1>7. x \in Handling
  <2>1. m.attempt \in 0 .. MaxAttempts /\ Absent \in Row
    BY <1>1, Bounds, IdleIs
  <2>. QED BY <1>1, <1>4, <2>1 DEF Whole, Handling, Place, Terminal
<1>8. Fits(x)
  BY <1>1, <1>6, Bounds DEF Fits, Followed
<1>9. worker[w].at = "idle" /\ worker[w].run = None /\ ready[m] > 0
      /\ ready' = [ready EXCEPT ![m] = @ - 1]
      /\ ready \in [Job -> 0 .. MaxCopies]
  BY DEF Deliver, On, BaseInv, Fitting, Fits, TypeOK
<1>10. Keeps /\ ready' \in [Job -> 0 .. MaxCopies]
  BY <1>5, <1>6, <1>7, <1>9, DeliverKeeps DEF BaseInv
<1>11. \A n \in Job : /\ n.run # m.run => ready'[n] = ready[n]
                      /\ ready'[n] <= ready[n]
  BY <1>9, Bounds
<1>. QED BY <1>5, <1>6, <1>7, <1>8, <1>9, <1>10, <1>11 DEF Takes, Deliver

\* The request of r moves, and may insert the run or publish its job.
Inserts(r) ==
  /\ request[r] = "insert" /\ request'[r] \in {"publish", "done"}
  /\ table[r] = Absent /\ r \notin accepted
  /\ ~Taken(KeyOf[r]) /\ UNCHANGED broker
  /\ table' \in [Run -> Row]
  /\ \A q \in Run : q # r => table'[q] = table[q]
  /\ table'[r].status = "queued" /\ table'[r].active
  /\ table'[r].thread = None
Publishes(r) ==
  /\ UNCHANGED table
  /\ request[r] \notin {"start", "insert"}
  /\ request'[r] \notin {"start", "insert"}
  /\ accepted' = accepted \cup {r}
  /\ \/ request[r] = "publish" /\ request'[r] = "done"
     \/ "reconcile" \in trouble
  /\ ready' \in [Job -> 0 .. MaxCopies]
  /\ \E m \in Job : /\ m.run = r /\ Adds(m) /\ ready'[m] > 0
                    /\ \A n \in Job : n # m => ready'[n] = ready[n]
Asks(r) ==
  /\ UNCHANGED <<assessment, remote, dead, worker, weather>>
  /\ request' \in [Run -> {"start", "insert", "publish", "done"}]
  /\ \A q \in Run : q # r => request'[q] = request[q]
  /\ \/ /\ UNCHANGED <<table, broker>>
        /\ request'[r] \in {"start", "insert"} => request[r] = "start"
        /\ request[r] = "done" => request'[r] = "done"
     \/ Inserts(r)
     \/ Publishes(r)

LEMMA AskMoves ==
  ASSUME TypeOK, NEW r \in Run,
         NEW p \in {"start", "insert", "publish", "done"}, Ask(r, p)
  PROVE  /\ request' \in [Run -> {"start", "insert", "publish", "done"}]
         /\ request'[r] = p
         /\ \A q \in Run : q # r => request'[q] = request[q]
BY DEF Ask, TypeOK

LEMMA InsertRow ==
  ASSUME TypeOK, NEW r \in Run, Insert(r)
  PROVE  /\ ~Taken(KeyOf[r]) /\ table' \in [Run -> Row]
         /\ \A q \in Run : q # r => table'[q] = table[q]
         /\ table'[r].status = "queued" /\ table'[r].active
         /\ table'[r].thread = None
<1>. DEFINE s1 == [Absent EXCEPT !.status = "queued"]
            new == [s1 EXCEPT !.active = TRUE]
<1>1. s1 \in Row /\ s1.status = "queued" /\ s1.thread = None
  <2>1. Absent \in Row /\ Absent.thread = None /\ "queued" \in Status
    BY IdleIs DEF Absent, Status
  <2>. QED BY <2>1 DEF Row
<1>. HIDE DEF s1
<1>2. new \in Row /\ new.status = "queued" /\ new.thread = None
      /\ new.active = TRUE
  BY <1>1 DEF Row
<1>3. Set(r, new) /\ ~Taken(KeyOf[r])
  BY DEF Insert, s1
<1>. HIDE DEF new
<1>4. Becomes(r, new)
  BY <1>2, <1>3, SetBecomes
<1>. QED BY <1>2, <1>3, <1>4 DEF Becomes

LEMMA PublishPublishes ==
  ASSUME TypeOK, NEW r \in Run, Publish([run |-> r, attempt |-> 0]),
         UNCHANGED <<table, worker>>,
         request[r] \notin {"start", "insert"},
         request'[r] \notin {"start", "insert"},
         \/ request[r] = "publish" /\ request'[r] = "done"
         \/ "reconcile" \in trouble
  PROVE  Publishes(r)
<1>1. PICK m \in Job : m = [run |-> r, attempt |-> 0] /\ m.run = r
  BY Bounds DEF Job
<1>2. Publish(m)
  BY <1>1
<1>3. /\ Adds(m) /\ ready' \in [Job -> 0 .. MaxCopies] /\ ready'[m] > 0
      /\ accepted' = accepted \cup {m.run}
  BY <1>2, PublishAdds
<1>4. \A n \in Job : n # m => ready'[n] = ready[n]
  BY <1>2 DEF Publish, TypeOK
<1>. QED BY <1>1, <1>3, <1>4 DEF Publishes

LEMMA RequestKinds ==
  ASSUME BaseInv, NEW r \in Run, Submit(r) \/ Reconcile(r)
  PROVE  Asks(r)
<1>. USE DEF BaseInv
<1>1. CASE Lookup(r)
  <2>1. PICK p \in {"insert", "done"} : Ask(r, p)
    BY <1>1 DEF Lookup
  <2>. QED BY <1>1, <2>1, AskMoves DEF Lookup, store, broker, Asks
<1>2. CASE Admit(r)
  <2>1. PICK p \in {"publish", "done"} : /\ Ask(r, p)
                                         /\ Insert(r) \/ UNCHANGED table
    BY <1>2 DEF Admit
  <2>2. /\ request[r] = "insert" /\ table[r] = Absent /\ r \notin accepted
        /\ UNCHANGED <<assessment, remote, dead, worker, weather>>
        /\ UNCHANGED broker
    BY <1>2 DEF Admit, Known
  <2>3. CASE Insert(r)
    BY <2>1, <2>2, <2>3, AskMoves, InsertRow DEF Asks, Inserts
  <2>4. CASE UNCHANGED table
    BY <2>1, <2>2, <2>4, AskMoves DEF Asks
  <2>. QED BY <2>1, <2>3, <2>4
<1>3. CASE Enqueue(r)
  <2>1. /\ request[r] = "publish" /\ Ask(r, "done")
        /\ UNCHANGED <<table, assessment, remote, dead, worker, weather>>
        /\ \/ Publish([run |-> r, attempt |-> 0])
           \/ UNCHANGED broker
    BY <1>3 DEF Enqueue, PublishFails, store
  <2>2. /\ request' \in [Run -> {"start", "insert", "publish", "done"}]
        /\ request'[r] = "done"
        /\ \A q \in Run : q # r => request'[q] = request[q]
    BY <2>1, AskMoves
  <2>3. CASE Publish([run |-> r, attempt |-> 0])
    BY <2>1, <2>2, <2>3, PublishPublishes DEF Asks
  <2>4. CASE UNCHANGED broker
    BY <2>1, <2>2, <2>4 DEF Asks
  <2>. QED BY <2>1, <2>3, <2>4
<1>4. CASE Reconcile(r)
  <2>1. table[r] # Absent
    BY <1>4 DEF Reconcile, Reconciliable, Absent
  <2>2. request[r] \notin {"start", "insert"} /\ request' = request
    BY <1>4, <2>1 DEF Known, Reconcile
  <2>3. Publishes(r)
    BY <1>4, <2>2, PublishPublishes DEF Reconcile, store
  <2>. QED BY <1>4, <2>2, <2>3 DEF Asks, Reconcile, store, TypeOK
<1>. QED BY <1>1, <1>2, <1>3, <1>4 DEF Submit

\* Time passes, the evaluator moves, or calls begin or cease to fail.
Surroundings ==
  /\ UNCHANGED <<assessment, request, broker, dead, worker, trouble>>
  /\ ThreadsKept
  /\ \/ UNCHANGED table
     \/ \E r \in Run : /\ Turns(r)
                       /\ table'[r].status = table[r].status
                       /\ table'[r].thread = table[r].thread
  /\ healthy' \in BOOLEAN
  /\ healthy' = healthy \/ "failures" \in trouble

LEMMA TimeTurns ==
  ASSUME TypeOK, NEW r \in Run, ComeDue(r) \/ RunOver(r)
  PROVE  /\ Turns(r) /\ table'[r].status = table[r].status
         /\ table'[r].thread = table[r].thread
<1>1. table[r] \in Row
  BY TableRow
<1>2. PICK new \in Row : /\ Set(r, new) /\ new.status = table[r].status
                         /\ new.thread = table[r].thread
                         /\ new.active = table[r].active
  <2>1. CASE ComeDue(r)
    <3> DEFINE new == [table[r] EXCEPT !.wait = "due"]
    <3>1. /\ new \in Row /\ new.status = table[r].status
          /\ new.thread = table[r].thread /\ new.active = table[r].active
      BY <1>1 DEF Row
    <3>2. Set(r, new)
      BY <2>1 DEF ComeDue
    <3> HIDE DEF new
    <3>. QED BY <3>1, <3>2
  <2>2. CASE RunOver(r)
    <3> DEFINE new == [table[r] EXCEPT !.clock = "overdue"]
    <3>1. /\ new \in Row /\ new.status = table[r].status
          /\ new.thread = table[r].thread /\ new.active = table[r].active
      BY <1>1 DEF Row
    <3>2. Set(r, new)
      BY <2>2 DEF RunOver
    <3> HIDE DEF new
    <3>. QED BY <3>1, <3>2
  <2>. QED BY <2>1, <2>2
<1>3. Becomes(r, new)
  BY <1>2, SetBecomes
<1>. QED BY <1>2, <1>3 DEF Becomes, Turns, Turn, ComeDue, RunOver, Open

LEMMA EvaluatorKeeps ==
  ASSUME TypeOK, NEW r \in Run, Evaluator(r)
  PROVE  ThreadsKept
<1>1. PICK t \in Try : Evaluate(r, t) \/ CommitArtifacts(r, t)
  BY DEF Evaluator
<1>2. PICK s \in ThreadState : /\ remote' = [remote EXCEPT ![r][t] = s]
                               /\ remote[r][t] # "valid"
  BY <1>1 DEF Evaluate, CommitArtifacts, ThreadState, Evaluated
<1>. QED BY <1>2 DEF ThreadsKept, TypeOK, StoreTypeOK

LEMMA SurroundingsKind ==
  ASSUME TypeOK,
         \/ \E r \in Run : Time(r) \/ Evaluator(r)
         \/ Weather
         \/ UNCHANGED vars
  PROVE  Surroundings
<1>1. ASSUME NEW r \in Run, Time(r) PROVE Surroundings
  BY <1>1, TimeTurns, ThreadsStay DEF Time, Surroundings, broker, weather,
    TypeOK
<1>2. ASSUME NEW r \in Run, Evaluator(r) PROVE Surroundings
  BY <1>2, EvaluatorKeeps DEF Evaluator, Surroundings, broker, weather, TypeOK
<1>3. CASE Weather
  BY <1>3, ThreadsStay DEF Weather, Surroundings, broker, store, TypeOK
<1>4. CASE UNCHANGED vars
  BY <1>4, ThreadsStay DEF vars, Surroundings, broker, TypeOK
<1>. QED BY <1>1, <1>2, <1>3, <1>4

\* The five kinds of steps.
LEMMA Kinds ==
  ASSUME BaseInv, [Next]_vars
  PROVE  \/ \E w \in Worker : worker[w].at # "idle" /\ AtWork(w) /\ Effect(w)
         \/ \E w \in Worker : worker[w].at # "idle" /\ AtWork(w) /\ Leaves(w)
         \/ \E w \in Worker, m \in Job : Takes(w, m)
         \/ \E r \in Run : Asks(r)
         \/ Surroundings
<1>1. ASSUME NEW w \in Worker, Work(w) \/ CallFails(w) \/ Crash(w)
      PROVE  worker[w].at # "idle" /\ AtWork(w) /\ (Effect(w) \/ Leaves(w))
  BY <1>1, WorkKinds
<1>2. ASSUME NEW w \in Worker, NEW m \in Job, Deliver(w, m)
      PROVE  Takes(w, m)
  BY <1>2, DeliverTakes
<1>3. ASSUME NEW r \in Run, Submit(r) \/ Reconcile(r) PROVE Asks(r)
  BY <1>3, RequestKinds
<1>4. ASSUME \/ \E r \in Run : Time(r) \/ Evaluator(r)
             \/ Weather
             \/ UNCHANGED vars
      PROVE  Surroundings
  BY <1>4, SurroundingsKind DEF BaseInv
<1>. QED BY <1>1, <1>2, <1>3, <1>4 DEF Next

-----------------------------------------------------------------------------
(* Types, fitting deliveries and the count of copies.                      *)

LEMMA EffectBase ==
  ASSUME BaseInv, NEW w \in Worker, worker[w].at # "idle", AtWork(w),
         Effect(w)
  PROVE  BaseInv'
<1>. DEFINE r == worker[w].run
<1>1. PICK x : Goes(w, x)
  BY DEF Effect
<1>2. /\ worker' = [worker EXCEPT ![w] = x] /\ x \in Handling /\ Fits(x)
      /\ x.at # "idle" /\ x.run = r /\ r \in Run
  BY <1>1, WorkFacts DEF Goes
<1>3. UNCHANGED <<request, ready, accepted, dead, healthy, trouble>>
  BY DEF Effect, broker, weather
<1>4. /\ table' \in [Run -> Row]
      /\ \A q \in Run : q # r => table'[q] = table[q]
      /\ assessment' \in [Repo -> Run \cup {None}]
      /\ remote' \in [Run -> [Try -> ThreadState]]
  <2>1. CASE Writes(w)
    BY <2>1 DEF Writes, Turns, ThreadsKept, BaseInv, TypeOK, StoreTypeOK
  <2>2. CASE Completes(w)
    BY <1>2, <2>2 DEF Completes, BaseInv, TypeOK, StoreTypeOK
  <2>. QED BY <2>1, <2>2 DEF Effect
<1>5. TypeOK'
  BY <1>2, <1>3, <1>4 DEF BaseInv, TypeOK, StoreTypeOK
<1>6. \A v \in Worker : worker'[v] = IF v = w THEN x ELSE worker[v]
  BY <1>2 DEF BaseInv, TypeOK
<1>7. Fitting'
  <2>1. \A v \in Worker : Fits(worker'[v])
    BY <1>2, <1>6 DEF BaseInv, Fitting
  <2>. QED BY <2>1 DEF Fitting, Fits
<1>8. Counted'
  BY <1>2, <1>3, ContinueKeeps, KeepsCount DEF BaseInv
<1>9. Known'
  <2>1. r \in accepted
    BY DEF BaseInv, Known
  <2>2. \A v \in Worker : worker'[v].at # "idle" => worker'[v].run \in accepted
    BY <1>2, <1>6, <2>1 DEF BaseInv, Known
  <2>3. \A q \in Run : request[q] \in {"start", "insert"} =>
          table'[q] = Absent /\ q \notin accepted
    BY <1>4, <2>1 DEF BaseInv, Known
  <2>. QED BY <1>3, <2>2, <2>3 DEF BaseInv, Known
<1>. QED BY <1>5, <1>7, <1>8, <1>9 DEF BaseInv

LEMMA LeavesBase ==
  ASSUME BaseInv, NEW w \in Worker, worker[w].at # "idle", AtWork(w),
         Leaves(w)
  PROVE  BaseInv'
<1>. DEFINE r == worker[w].run
<1>1. /\ worker' = [worker EXCEPT ![w] = Idle] /\ Idle \in Handling
      /\ Fits(Idle) /\ Idle.at = "idle" /\ r \in Run /\ r \in accepted
  BY IdleIs, WorkFacts DEF Leaves, BaseInv, Known
<1>2. UNCHANGED <<table, assessment, remote, request, healthy, trouble>>
      /\ accepted' = accepted
  BY <1>1 DEF Leaves, store, weather
<1>3. TypeOK'
  BY <1>1, <1>2 DEF Leaves, BaseInv, TypeOK, StoreTypeOK
<1>4. \A v \in Worker : worker'[v] = IF v = w THEN Idle ELSE worker[v]
  BY <1>1 DEF BaseInv, TypeOK
<1>5. Fitting'
  <2>1. \A v \in Worker : Fits(worker'[v])
    BY <1>1, <1>4 DEF BaseInv, Fitting
  <2>. QED BY <2>1 DEF Fitting, Fits
<1>6. Counted'
  BY KeepsCount DEF Leaves, BaseInv
<1>7. Known'
  <2>1. \A m \in Job : ready'[m] > 0 => m.run \in accepted
    BY <1>1 DEF Leaves, BaseInv, Known
  <2>2. \A v \in Worker : worker'[v].at # "idle" => worker'[v].run \in accepted
    BY <1>1, <1>4 DEF BaseInv, Known
  <2>. QED BY <1>2, <2>1, <2>2 DEF BaseInv, Known
<1>. QED BY <1>3, <1>5, <1>6, <1>7 DEF BaseInv

LEMMA TakesBase ==
  ASSUME BaseInv, NEW w \in Worker, NEW m \in Job, Takes(w, m)
  PROVE  BaseInv'
<1>1. PICK x : /\ worker' = [worker EXCEPT ![w] = x] /\ x \in Handling
               /\ Fits(x) /\ x.at = "load" /\ x.run = m.run
  BY DEF Takes
<1>2. UNCHANGED <<table, assessment, remote, request, accepted, dead, healthy,
                  trouble>>
  BY DEF Takes, store, weather
<1>3. TypeOK'
  BY <1>1, <1>2 DEF Takes, BaseInv, TypeOK, StoreTypeOK
<1>4. \A v \in Worker : worker'[v] = IF v = w THEN x ELSE worker[v]
  BY <1>1 DEF BaseInv, TypeOK
<1>5. Fitting'
  <2>1. \A v \in Worker : Fits(worker'[v])
    BY <1>1, <1>4 DEF BaseInv, Fitting
  <2>. QED BY <2>1 DEF Fitting, Fits
<1>6. Counted'
  BY KeepsCount DEF Takes, BaseInv
<1>7. Known'
  <2>1. \A n \in Job : ready'[n] > 0 => ready[n] > 0
    <3>1. \A n \in Job : ready'[n] \in Nat /\ ready[n] \in Nat
      BY Bounds DEF Takes, BaseInv, TypeOK
    <3>. QED BY <3>1 DEF Takes
  <2>2. m.run \in accepted
    BY DEF Takes, BaseInv, Known
  <2>3. \A v \in Worker : worker'[v].at # "idle" => worker'[v].run \in accepted
    BY <1>1, <1>4, <2>2 DEF BaseInv, Known
  <2>. QED BY <1>2, <2>1, <2>3 DEF BaseInv, Known
<1>. QED BY <1>3, <1>5, <1>6, <1>7 DEF BaseInv

LEMMA SameCount ==
  ASSUME Counted, UNCHANGED <<ready, worker>>
  PROVE  Counted'
<1>1. \A r : Copies(r)' = Copies(r)
  BY CopiesAre
<1>. QED BY <1>1 DEF Counted

LEMMA AsksBase ==
  ASSUME BaseInv, NEW r \in Run, Asks(r)
  PROVE  BaseInv'
<1>1. /\ table' \in [Run -> Row]
      /\ \A q \in Run : q # r => table'[q] = table[q]
      /\ ready' \in [Job -> 0 .. MaxCopies]
      /\ accepted' \in SUBSET Run
  BY DEF Asks, Inserts, Publishes, BaseInv, TypeOK, StoreTypeOK, broker
<1>2. UNCHANGED <<assessment, remote, dead, worker, healthy, trouble>>
      /\ request' \in [Run -> {"start", "insert", "publish", "done"}]
      /\ \A q \in Run : q # r => request'[q] = request[q]
  BY DEF Asks, weather
<1>3. TypeOK'
  BY <1>1, <1>2 DEF BaseInv, TypeOK, StoreTypeOK
<1>4. Fitting'
  BY <1>2 DEF BaseInv, Fitting, Fits
<1>5. Counted'
  BY <1>2, SameCount, KeepsCount DEF Asks, Inserts, Publishes, BaseInv, broker
<1>6. Known'
  <2>1. \A q \in Run : request'[q] \in {"start", "insert"} =>
          table'[q] = Absent /\ q \notin accepted'
    <3>1. ASSUME NEW q \in Run, q # r, request'[q] \in {"start", "insert"}
          PROVE  table'[q] = Absent /\ q \notin accepted'
      <4>1. table[q] = Absent /\ q \notin accepted
        BY <1>2, <3>1 DEF BaseInv, Known
      <4>. QED BY <1>1, <3>1, <4>1 DEF Asks, Inserts, Publishes, broker
    <3>2. ASSUME request'[r] \in {"start", "insert"}
          PROVE  table'[r] = Absent /\ r \notin accepted'
      BY <3>2 DEF Asks, Inserts, Publishes, BaseInv, Known, broker
    <3>. QED BY <3>1, <3>2
  <2>2. accepted \subseteq accepted'
    BY DEF Asks, Inserts, Publishes, broker
  <2>3. \A n \in Job : ready'[n] > 0 => n.run \in accepted'
    BY <2>2 DEF Asks, Inserts, Publishes, BaseInv, Known, broker
  <2>4. \A w \in Worker : worker'[w].at # "idle" => worker'[w].run \in accepted'
    BY <1>2, <2>2 DEF BaseInv, Known
  <2>. QED BY <2>1, <2>3, <2>4 DEF Known
<1>. QED BY <1>3, <1>4, <1>5, <1>6 DEF BaseInv

LEMMA SurroundingsBase ==
  ASSUME BaseInv, Surroundings
  PROVE  BaseInv'
<1>1. UNCHANGED <<assessment, request, ready, accepted, dead, worker, trouble>>
      /\ healthy' \in BOOLEAN
      /\ remote' \in [Run -> [Try -> ThreadState]]
  BY DEF Surroundings, broker, ThreadsKept
<1>2. /\ table' \in [Run -> Row]
      /\ \A q \in Run : table[q] = Absent => table'[q] = Absent
  <2>1. CASE UNCHANGED table
    BY <2>1 DEF BaseInv, TypeOK, StoreTypeOK
  <2>2. CASE \E r \in Run : Turns(r)
    <3>1. PICK r \in Run : Turns(r)
      BY <2>2
    <3>2. table[r] = Absent => table'[r] = Absent
      BY <3>1 DEF Turns, Turn, Open, Absent
    <3>. QED BY <3>1, <3>2 DEF Turns
  <2>. QED BY <2>1, <2>2 DEF Surroundings
<1>3. TypeOK'
  BY <1>1, <1>2 DEF BaseInv, TypeOK, StoreTypeOK
<1>4. Fitting' /\ Known'
  BY <1>1, <1>2 DEF BaseInv, Fitting, Fits, Known
<1>5. Counted'
  BY <1>1, SameCount DEF BaseInv
<1>. QED BY <1>3, <1>4, <1>5 DEF BaseInv

LEMMA BaseNext ==
  ASSUME BaseInv, [Next]_vars
  PROVE  BaseInv'
BY Kinds, EffectBase, LeavesBase, TakesBase, AsksBase, SurroundingsBase

LEMMA BaseInit ==
  ASSUME Init
  PROVE  BaseInv
<1>1. TypeOK
  <2>1. \A r \in Run : table[r] = Absent
    BY DEF Init, StoreInit
  <2>2. table \in [Run -> Row] /\ remote \in [Run -> [Try -> ThreadState]]
    BY IdleIs DEF Init, StoreInit, ThreadState
  <2>3. worker \in [Worker -> Handling]
    BY IdleIs DEF Init
  <2>4. ready \in [Job -> 0 .. MaxCopies]
    BY Bounds DEF Init
  <2>. QED BY <2>2, <2>3, <2>4 DEF Init, StoreInit, TypeOK, StoreTypeOK
<1>2. Fitting
  BY IdleIs DEF Init, Fitting
<1>3. Counted
  <2>1. ASSUME NEW r \in Run PROVE Copies(r) = 0
    <3>1. Handled(worker, r) = {}
      BY IdleIs, Bounds DEF Init, Handled
    <3>2. Queued(ready, r) = {}
      BY DEF Init, Queued, Job
    <3>3. Cardinality({}) = 0
      BY FS_EmptySet
    <3>. QED BY <3>1, <3>2, <3>3, CopiesAre
  <2>. QED BY <2>1, Bounds DEF Counted
<1>4. Known
  BY IdleIs DEF Init, StoreInit, Known
<1>. QED BY <1>1, <1>2, <1>3, <1>4 DEF BaseInv

\* The types are kept; above all, the broker never holds more copies of a
\* run's job than its bound, and a delivery that follows a thread has one.
THEOREM AnalysisTypes == Spec => []BaseInv
BY BaseInit, BaseNext, PTL DEF Spec

-----------------------------------------------------------------------------
(* What a step does to a row: one key has one open run, an end is final.   *)

\* The row of r is inserted, or completed.
Arrives(r) ==
  /\ table[r] = Absent /\ ~Taken(KeyOf[r])
  /\ table'[r].status = "queued" /\ table'[r].active
Succeeds(r) ==
  Open(table[r]) /\ table'[r].status = "completed" /\ ~table'[r].active

LEMMA OneRow ==
  ASSUME BaseInv, [Next]_vars
  PROVE  \/ UNCHANGED table
         \/ \E r \in Run : /\ \A q \in Run : q # r => table'[q] = table[q]
                           /\ Turn(r) \/ Arrives(r) \/ Succeeds(r)
<1>1. ASSUME NEW w \in Worker, AtWork(w), Effect(w)
      PROVE  LET r == worker[w].run
             IN /\ r \in Run /\ \A q \in Run : q # r => table'[q] = table[q]
                /\ Turn(r) \/ Succeeds(r)
  BY <1>1, WorkFacts DEF Effect, Writes, Completes, Turns, Succeeds
<1>2. ASSUME NEW w \in Worker, Leaves(w) PROVE UNCHANGED table
  BY <1>2 DEF Leaves, store
<1>3. ASSUME NEW w \in Worker, NEW m \in Job, Takes(w, m)
      PROVE  UNCHANGED table
  BY <1>3 DEF Takes, store
<1>4. ASSUME NEW r \in Run, Asks(r)
      PROVE  \/ UNCHANGED table
             \/ /\ \A q \in Run : q # r => table'[q] = table[q]
                /\ Arrives(r)
  BY <1>4 DEF Asks, Inserts, Publishes, Arrives
<1>5. ASSUME Surroundings
      PROVE  \/ UNCHANGED table
             \/ \E r \in Run : /\ \A q \in Run : q # r => table'[q] = table[q]
                               /\ Turn(r)
  BY <1>5 DEF Surroundings, Turns
<1>. QED BY <1>1, <1>2, <1>3, <1>4, <1>5, Kinds

\* An open run holds its key, which no other run holds.
Keyed ==
  /\ \A r \in Run : Open(table[r]) => table[r].active
  /\ \A r, q \in Run :
       table[r].active /\ table[q].active /\ KeyOf[r] = KeyOf[q] => r = q

LEMMA KeyedNext ==
  ASSUME BaseInv, Keyed, [Next]_vars
  PROVE  Keyed'
<1>1. CASE UNCHANGED table
  BY <1>1 DEF Keyed, Open
<1>2. CASE \E r \in Run : /\ \A q \in Run : q # r => table'[q] = table[q]
                          /\ Turn(r) \/ Arrives(r) \/ Succeeds(r)
  <2>1. PICK r \in Run : /\ \A q \in Run : q # r => table'[q] = table[q]
                         /\ Turn(r) \/ Arrives(r) \/ Succeeds(r)
    BY <1>2
  <2>2. Open(table'[r]) => table'[r].active
    BY <2>1 DEF Keyed, Turn, Arrives, Succeeds, Open, Terminal, Failures
  <2>3. ASSUME table'[r].active
        PROVE  \/ table[r].active
               \/ \A q \in Run : q # r /\ KeyOf[q] = KeyOf[r] =>
                                  ~table[q].active
    BY <2>1, <2>3 DEF Keyed, Turn, Arrives, Succeeds, KeyFree, Taken
  <2>4. \A q, p \in Run :
          table'[q].active /\ table'[p].active /\ KeyOf[q] = KeyOf[p] => q = p
    BY <2>1, <2>3 DEF Keyed
  <2>5. \A q \in Run : Open(table'[q]) => table'[q].active
    BY <2>1, <2>2 DEF Keyed
  <2>. QED BY <2>4, <2>5 DEF Keyed, Open
<1>. QED BY <1>1, <1>2, OneRow

LEMMA EndIsFinalNext ==
  ASSUME BaseInv, [Next]_vars
  PROVE  EndIsFinal
BY OneRow DEF EndIsFinal, Turn, Arrives, Succeeds, Open, Terminal, Absent

-----------------------------------------------------------------------------
(* An assessment is backed by valid artifacts.                             *)

\* Only what is valid is committed.
Validated ==
  \A w \in Worker :
    worker[w].at = "commit" =>
      remote[worker[w].run][worker[w].view.thread] = "valid"

Backed == AssessmentIsBacked /\ Validated

\* Without a run that completes, what is backed stays so.
LEMMA StaysBacked ==
  ASSUME BaseInv, AssessmentIsBacked, ThreadsKept, UNCHANGED assessment,
         \A r \in Run :
           /\ table[r].status = "completed" => table'[r] = table[r]
           /\ table'[r].status = "completed" => table[r].status = "completed"
  PROVE  AssessmentIsBacked'
<1>1. \A p \in Repo : assessment[p] # None =>
        /\ assessment[p] \in Run /\ RepoOfRun(assessment[p]) = p
        /\ table[assessment[p]].status = "completed"
  BY DEF AssessmentIsBacked, BaseInv, TypeOK, StoreTypeOK
<1>2. \A p \in Repo : assessment'[p] # None =>
        /\ RepoOfRun(assessment'[p]) = p
        /\ table'[assessment'[p]].status = "completed"
  BY <1>1
<1>3. ASSUME NEW r \in Run, table'[r].status = "completed"
      PROVE  /\ table'[r].result # None
             /\ remote'[r][table'[r].result] = "valid"
             /\ assessment'[RepoOfRun(r)] # None
  <2>1. table'[r] = table[r] /\ table[r].status = "completed"
    BY <1>3
  <2>2. table[r].result \in Try
    BY <2>1, TableRow, RowFields DEF AssessmentIsBacked, BaseInv
  <2>. QED BY <2>1, <2>2 DEF AssessmentIsBacked, ThreadsKept
<1>. QED BY <1>2, <1>3 DEF AssessmentIsBacked, RepoOfRun

LEMMA TurnCompletesNone ==
  ASSUME NEW r, Turn(r)
  PROVE  /\ table[r].status = "completed" => table'[r] = table[r]
         /\ table'[r].status = "completed" => table[r].status = "completed"
BY DEF Turn, Open, Terminal, Failures

LEMMA BackedNext ==
  ASSUME BaseInv, Backed, [Next]_vars
  PROVE  Backed'
<1>1. ASSUME NEW w \in Worker, AtWork(w), Effect(w) PROVE Backed'
  <2> DEFINE r == worker[w].run
  <2>1. PICK x : Goes(w, x) /\ Backs(x)
    BY <1>1 DEF Effect
  <2>2. r \in Run /\ table[r] \in Row
    BY <1>1, WorkFacts
  <2>3. ThreadsKept
    BY <1>1, ThreadsStay DEF Effect, Writes, Completes, BaseInv
  <2>4. Validated'
    <3>1. ASSUME NEW v \in Worker, worker'[v].at = "commit"
          PROVE  remote'[worker'[v].run][worker'[v].view.thread] = "valid"
      <4>1. CASE v = w
        BY <2>1, <3>1, <4>1 DEF Goes, Backs, BaseInv, TypeOK
      <4>2. CASE v # w
        <5>1. worker'[v] = worker[v]
          BY <2>1, <4>2 DEF Goes, BaseInv, TypeOK
        <5>2. worker[v].run \in Run /\ worker[v].view.thread \in Try
          BY <3>1, <5>1 DEF BaseInv, Fitting, Fits, Followed
        <5>. QED BY <2>3, <3>1, <5>1, <5>2 DEF Backed, Validated, ThreadsKept
      <4>. QED BY <4>1, <4>2
    <3>. QED BY <3>1 DEF Validated
  <2>5. AssessmentIsBacked'
    <3>1. CASE Writes(w)
      <4>1. \A q \in Run :
              /\ table[q].status = "completed" => table'[q] = table[q]
              /\ table'[q].status = "completed" =>
                   table[q].status = "completed"
        BY <2>2, <3>1, TurnCompletesNone DEF Writes, Turns
      <4>. QED BY <2>3, <3>1, <4>1, StaysBacked DEF Writes, Backed
    <3>2. CASE Completes(w)
      <4>1. /\ worker[w].view.thread \in Try
            /\ remote[r][worker[w].view.thread] = "valid"
        BY <1>1, <3>2 DEF Completes, Backed, Validated, AtWork, Fits, Followed
      <4>2. /\ table'[r].status = "completed"
            /\ table'[r].result = worker[w].view.thread
            /\ \A q \in Run : q # r => table'[q] = table[q]
            /\ assessment' = [assessment EXCEPT ![RepoOfRun(r)] = r]
            /\ UNCHANGED remote /\ table[r].status # "completed"
        BY <3>2 DEF Completes, Open, Terminal
      <4>3. /\ RepoOfRun(r) \in Repo /\ r # None
            /\ assessment \in [Repo -> Run \cup {None}]
        BY <2>2, Bounds, WorkerAssumption DEF WorkerAssumption,
          StoreAssumption, RepoOfRun, BaseInv, TypeOK, StoreTypeOK
      <4>4. \A p \in Repo : assessment'[p] # None =>
              /\ RepoOfRun(assessment'[p]) = p
              /\ table'[assessment'[p]].status = "completed"
        BY <2>2, <4>2, <4>3 DEF Backed, AssessmentIsBacked
      <4>5. \A q \in Run : table'[q].status = "completed" =>
              /\ table'[q].result # None
              /\ remote'[q][table'[q].result] = "valid"
              /\ assessment'[RepoOfRun(q)] # None
        BY <4>1, <4>2, <4>3, Bounds DEF Backed, AssessmentIsBacked
      <4>. QED BY <4>4, <4>5 DEF AssessmentIsBacked, RepoOfRun
    <3>. QED BY <1>1, <3>1, <3>2 DEF Effect
  <2>. QED BY <2>4, <2>5 DEF Backed
<1>2. ASSUME UNCHANGED assessment, ThreadsKept,
             \A q \in Run :
               /\ table[q].status = "completed" => table'[q] = table[q]
               /\ table'[q].status = "completed" =>
                    table[q].status = "completed",
             \A v \in Worker :
               worker'[v] = worker[v] \/ worker'[v].at # "commit"
      PROVE  Backed'
  <2>1. ASSUME NEW v \in Worker, worker'[v].at = "commit"
        PROVE  remote'[worker'[v].run][worker'[v].view.thread] = "valid"
    <3>1. worker'[v] = worker[v]
      BY <1>2, <2>1
    <3>2. worker[v].run \in Run /\ worker[v].view.thread \in Try
      BY <2>1, <3>1 DEF BaseInv, Fitting, Fits, Followed
    <3>. QED BY <1>2, <2>1, <3>1, <3>2 DEF Backed, Validated, ThreadsKept
  <2>. QED BY <1>2, <2>1, StaysBacked DEF Backed, Validated
<1>3. ASSUME NEW w \in Worker, AtWork(w), Leaves(w) PROVE Backed'
  BY <1>2, <1>3, ThreadsStay, IdleIs DEF Leaves, store, BaseInv, TypeOK
<1>4. ASSUME NEW w \in Worker, NEW m \in Job, Takes(w, m) PROVE Backed'
  BY <1>2, <1>4, ThreadsStay DEF Takes, store, BaseInv, TypeOK
<1>5. ASSUME NEW r \in Run, Asks(r) PROVE Backed'
  <2>1. \A q \in Run :
          /\ table[q].status = "completed" => table'[q] = table[q]
          /\ table'[q].status = "completed" => table[q].status = "completed"
    BY <1>5 DEF Asks, Inserts, Publishes, Absent
  <2>2. ThreadsKept
    BY <1>5, ThreadsStay DEF Asks, BaseInv
  <2>. QED BY <1>2, <1>5, <2>1, <2>2 DEF Asks
<1>6. ASSUME Surroundings PROVE Backed'
  <2>1. \A q \in Run :
          /\ table[q].status = "completed" => table'[q] = table[q]
          /\ table'[q].status = "completed" => table[q].status = "completed"
    BY <1>6, TurnCompletesNone DEF Surroundings, Turns
  <2>. QED BY <1>2, <1>6, <2>1 DEF Surroundings
<1>. QED BY <1>1, <1>3, <1>4, <1>5, <1>6, Kinds

-----------------------------------------------------------------------------
(* An accepted run that is open is not left behind.                        *)

\* It was buried, its job is at the broker, or a delivery looks after it.
Kept(r) ==
  \/ r \in dead
  \/ \E m \in Job : m.run = r /\ ready[m] > 0
  \/ \E w \in Worker : worker[w].run = r /\ Trusted(worker[w])
CarriedInv == \A r \in accepted : Open(table[r]) => Kept(r)

LEMMA CarriedNext ==
  ASSUME BaseInv, CarriedInv, [Next]_vars
  PROVE  CarriedInv'
<1>. accepted \subseteq Run /\ worker \in [Worker -> Handling]
  BY DEF BaseInv, TypeOK
<1>1. ASSUME NEW w \in Worker, AtWork(w), Effect(w) PROVE CarriedInv'
  <2>. PICK r \in Run : r = worker[w].run
    BY <1>1, WorkFacts
  <2>1. PICK x : Goes(w, x) /\ CarriesOn(w, x)
    BY <1>1 DEF Effect
  <2>2. /\ \A v \in Worker : worker'[v] = IF v = w THEN x ELSE worker[v]
        /\ x.run = r
    BY <2>1 DEF Goes
  <2>3. UNCHANGED <<ready, accepted, dead>>
        /\ \A q \in Run : q # r => table'[q] = table[q]
    BY <1>1 DEF Effect, Writes, Completes, Turns, broker
  <2>4. ASSUME NEW q \in accepted, Open(table'[q]), q # r
        PROVE  Kept(q)'
    BY <2>2, <2>3, <2>4 DEF CarriedInv, Kept
  <2>5. ASSUME r \in accepted, Open(table'[r]) PROVE Kept(r)'
    <3>1. CASE Trusted(x)
      BY <2>2, <3>1 DEF Kept
    <3>2. CASE ~Trusted(x)
      <4>1. Open(table[r]) /\ ~Trusted(worker[w])
        BY <2>1, <2>5, <3>2 DEF CarriesOn
      <4>. QED BY <2>2, <2>3, <2>5, <4>1 DEF CarriedInv, Kept
    <3>. QED BY <3>1, <3>2
  <2>6. \A q \in accepted : Open(table'[q]) => Kept(q)'
    BY <2>4, <2>5
  <2>. QED BY <2>3, <2>6 DEF CarriedInv, Open
<1>2. ASSUME NEW w \in Worker, AtWork(w), Leaves(w) PROVE CarriedInv'
  <2>. PICK r \in Run : r = worker[w].run
    BY <1>2, WorkFacts
  <2>1. /\ \A v \in Worker : worker'[v] = IF v = w THEN Idle ELSE worker[v]
        /\ table' = table /\ accepted' \in {accepted, accepted \cup {r}}
        /\ dead' \in {dead, dead \cup {r}}
        /\ \A m \in Job : ready[m] > 0 => ready'[m] > 0
    BY <1>2 DEF Leaves, store
  <2>2. r \in accepted
    BY <1>2 DEF BaseInv, Known, AtWork
  <2>3. ASSUME NEW q \in accepted, Open(table[q]), q # r PROVE Kept(q)'
    BY <2>1, <2>3 DEF CarriedInv, Kept
  <2>4. ASSUME Open(table[r]) PROVE Kept(r)'
    <3>1. CASE worker[w].at = "ack"
      BY <2>1, <2>2, <2>4, <3>1 DEF CarriedInv, Kept, Trusted
    <3>2. CASE r \in dead' \/ \E m \in Job : m.run = r /\ ready'[m] > 0
      BY <3>2 DEF Kept
    <3>. QED BY <1>2, <3>1, <3>2 DEF Leaves
  <2>5. \A q \in accepted : Open(table[q]) => Kept(q)'
    BY <2>3, <2>4
  <2>. QED BY <2>1, <2>2, <2>5 DEF CarriedInv, Open
<1>3. ASSUME NEW w \in Worker, NEW m \in Job, Takes(w, m) PROVE CarriedInv'
  <2>1. PICK x : /\ worker' = [worker EXCEPT ![w] = x] /\ x.at = "load"
                 /\ x.run = m.run /\ x.view = Absent
    BY <1>3 DEF Takes
  <2>2. /\ \A v \in Worker : worker'[v] = IF v = w THEN x ELSE worker[v]
        /\ Trusted(x) /\ UNCHANGED <<table, accepted, dead>>
        /\ \A n \in Job : n.run # m.run => ready'[n] = ready[n]
        /\ worker[w].run = None
    BY <1>3, <2>1 DEF Takes, store, Trusted, Absent, Terminal, BaseInv,
      Fitting, Fits
  <2>3. Kept(m.run)'
    BY <2>1, <2>2 DEF Kept
  <2>4. ASSUME NEW q \in accepted, Open(table[q]), q # m.run PROVE Kept(q)'
    BY <2>2, <2>4, Bounds DEF CarriedInv, Kept
  <2>5. \A q \in accepted : Open(table[q]) => Kept(q)'
    BY <2>3, <2>4
  <2>. QED BY <2>2, <2>5 DEF CarriedInv, Open
<1>4. ASSUME NEW r \in Run, Asks(r) PROVE CarriedInv'
  <2>1. UNCHANGED <<dead, worker>>
    BY <1>4 DEF Asks
  <2>2. CASE UNCHANGED <<table, broker>>
    BY <2>1, <2>2 DEF broker, CarriedInv, Kept, Open
  <2>3. CASE Inserts(r)
    BY <2>1, <2>3 DEF Inserts, broker, CarriedInv, Kept, Open
  <2>4. CASE Publishes(r)
    <3>1. /\ UNCHANGED table /\ accepted' = accepted \cup {r}
          /\ \E m \in Job : m.run = r /\ ready'[m] > 0
          /\ \A m \in Job : ready[m] > 0 => ready'[m] > 0
      BY <2>4 DEF Publishes
    <3>2. Kept(r)'
      BY <3>1 DEF Kept
    <3>3. \A q \in accepted : Open(table[q]) => Kept(q)'
      BY <2>1, <3>1 DEF CarriedInv, Kept
    <3>. QED BY <3>1, <3>2, <3>3 DEF CarriedInv, Open
  <2>. QED BY <1>4, <2>2, <2>3, <2>4 DEF Asks
<1>5. ASSUME Surroundings PROVE CarriedInv'
  <2>1. UNCHANGED <<ready, accepted, dead, worker>>
        /\ \A q \in Run : table'[q].status = table[q].status
    BY <1>5 DEF Surroundings, broker, Turns
  <2>2. \A q \in accepted : Open(table'[q]) => Open(table[q])
    BY <2>1 DEF Open
  <2>. QED BY <2>1, <2>2 DEF CarriedInv, Kept, Open
<1>. QED BY <1>1, <1>2, <1>3, <1>4, <1>5, Kinds

LEMMA KeptIsCarried ==
  ASSUME BaseInv, CarriedInv
  PROVE  OpenIsCarried
<1>1. ASSUME NEW r \in Run, NEW m \in Job, m.run = r, ready[m] > 0
      PROVE  Copies(r) > 0
  <2>1. ready[m] <= Cardinality(Queued(ready, r)) /\ ready[m] \in Nat
    BY <1>1, QueuedAll, Bounds DEF BaseInv, TypeOK
  <2>. QED BY <1>1, <2>1, CopiesAre, HandledFinite, QueuedFinite
<1>2. ASSUME NEW r \in Run, NEW w \in Worker, worker[w].run = r
      PROVE  Copies(r) > 0
  <2>1. Cardinality(Handled(worker, r)) > 0
    BY <1>2, HandledFinite
  <2>. QED BY <2>1, CopiesAre, HandledFinite, QueuedFinite
<1>. QED BY <1>1, <1>2 DEF CarriedInv, Kept, OpenIsCarried, Carried, BaseInv,
         TypeOK

-----------------------------------------------------------------------------
(* With one delivery of a run at a time, the slots bound what runs.        *)

Busy == {r \in Run : table[r].status \in Occupying}

\* A run has one delivery, which finds the row as it left it.
Settled ==
  /\ healthy
  /\ \A r \in Run : request[r] # "done" => r \notin accepted
  /\ \A r \in Run : Copies(r) <= 1
  /\ \A r \in Run : Staged(table[r])
  /\ \A w \in Worker :
       worker[w].at # "idle" => Agrees(worker[w], table[worker[w].run])
  /\ IsFiniteSet(Busy)
  /\ SlotBound
AloneInv == Alone => Settled

LEMMA OneDelivery ==
  ASSUME NEW r, Copies(r) <= 1, NEW v \in Worker, NEW w \in Worker,
         worker[v].run = r, worker[w].run = r
  PROVE  v = w
<1>. SUFFICES ASSUME v # w PROVE FALSE
  OBVIOUS
<1>1. {v, w} \subseteq Handled(worker, r)
  BY DEF Handled
<1>2. Cardinality({v}) = 1 /\ IsFiniteSet({v})
  BY FS_Singleton
<1>3. Cardinality({v} \cup {w}) = Cardinality({v}) + 1
  BY <1>2, FS_AddElement
<1>4. {v} \cup {w} \subseteq Handled(worker, r)
  BY <1>1
<1>5. Cardinality({v} \cup {w}) <= Cardinality(Handled(worker, r))
  BY <1>4, HandledFinite, FS_Subset
<1>6. Cardinality(Handled(worker, r)) >= 2
  BY <1>2, <1>3, <1>5, HandledFinite
<1>. QED BY <1>6, CopiesAre, HandledFinite, QueuedFinite

LEMMA NoneAccepted ==
  ASSUME BaseInv, NEW r \in Run, r \notin accepted
  PROVE  Copies(r) = 0
<1>1. Handled(worker, r) = {}
  BY Bounds DEF BaseInv, Known, Fitting, Fits, Handled
<1>2. Queued(ready, r) = {}
  <2>1. ASSUME NEW a \in 0 .. MaxAttempts - 1, NEW i \in 1 .. MaxCopies
        PROVE  ~(i <= ready[[run |-> r, attempt |-> a]])
    <3> DEFINE m == [run |-> r, attempt |-> a]
    <3>1. m \in Job /\ m.run = r
      BY DEF Job
    <3> HIDE DEF m
    <3>2. ready[m] \in Nat /\ ~(ready[m] > 0)
      BY <3>1, Bounds DEF BaseInv, TypeOK, Known
    <3>. QED BY <3>2 DEF m
  <2>. QED BY <2>1 DEF Queued
<1>3. Cardinality({}) = 0
  BY FS_EmptySet
<1>. QED BY <1>1, <1>2, <1>3, CopiesAre

LEMMA BusyStep ==
  ASSUME IsFiniteSet(Busy), SlotBound, NEW r \in Run,
         \A q \in Run : q # r => table'[q].status = table[q].status,
         table'[r].status \in Occupying =>
           table[r].status \in Occupying \/ Occupied < Limit
  PROVE  IsFiniteSet(Busy)' /\ SlotBound'
<1>1. Occupied = Cardinality(Busy) /\ Occupied' = Cardinality(Busy')
  BY DEF Occupied, Busy
<1>2. Cardinality(Busy) \in Nat
  BY FS_CardinalityType
<1>3. CASE table'[r].status \in Occupying => table[r].status \in Occupying
  <2>1. Busy' \subseteq Busy
    BY <1>3 DEF Busy
  <2>2. IsFiniteSet(Busy') /\ Cardinality(Busy') <= Cardinality(Busy)
    BY <2>1, FS_Subset
  <2>3. Cardinality(Busy') \in Nat
    BY <2>2, FS_CardinalityType
  <2>. QED BY <1>1, <1>2, <2>2, <2>3, Bounds DEF SlotBound
<1>4. CASE /\ table'[r].status \in Occupying
           /\ table[r].status \notin Occupying
  <2>1. Busy' = Busy \cup {r} /\ r \notin Busy
    BY <1>4 DEF Busy
  <2>2. IsFiniteSet(Busy') /\ Cardinality(Busy') = Cardinality(Busy) + 1
    BY <2>1, FS_AddElement
  <2>. QED BY <1>1, <1>2, <1>4, <2>2, Bounds DEF SlotBound
<1>. QED BY <1>3, <1>4

LEMMA SettledNext ==
  ASSUME BaseInv, Alone, Settled, [Next]_vars
  PROVE  Settled'
<1>. worker \in [Worker -> Handling] /\ accepted \subseteq Run
  BY DEF BaseInv, TypeOK
<1>1. ASSUME NEW w \in Worker, AtWork(w), Effect(w) PROVE Settled'
  <2>. PICK r \in Run : r = worker[w].run
    BY <1>1, WorkFacts
  <2>1. PICK x : Goes(w, x) /\ Orderly(w, x)
    BY <1>1 DEF Effect
  <2>2. /\ \A v \in Worker : worker'[v] = IF v = w THEN x ELSE worker[v]
        /\ x.run = r /\ worker' = [worker EXCEPT ![w] = x] /\ x \in Handling
    BY <2>1 DEF Goes
  <2>3. /\ UNCHANGED <<request, ready, accepted, healthy>>
        /\ \A q \in Run : q # r => table'[q] = table[q]
    BY <1>1 DEF Effect, Writes, Completes, Turns, broker, weather
  <2>4. /\ Staged(table'[r]) /\ Agrees(x, table'[r])
        /\ table'[r].status \in Occupying =>
             table[r].status \in Occupying \/ Occupied < Limit
    BY <1>1, <2>1 DEF Orderly, Settled, AtWork
  <2>5. \A q \in Run : Copies(q)' <= 1
    <3>1. Keeps
      BY <2>2, <2>3, ContinueKeeps DEF BaseInv
    <3>. QED BY <3>1, CopiesType DEF Keeps, Settled
  <2>6. \A q \in Run : Staged(table'[q])
    BY <2>3, <2>4 DEF Settled
  <2>7. \A v \in Worker :
          worker'[v].at # "idle" => Agrees(worker'[v], table'[worker'[v].run])
    <3>1. ASSUME NEW v \in Worker, v # w, worker[v].at # "idle"
          PROVE  Agrees(worker[v], table'[worker[v].run])
      <4>1. worker[v].run \in Run
        BY <3>1 DEF BaseInv, Fitting, Fits
      <4>2. worker[v].run # r
        BY <3>1, OneDelivery DEF Settled
      <4>. QED BY <2>3, <3>1, <4>1, <4>2 DEF Settled
    <3>. QED BY <2>2, <2>4, <3>1
  <2>8. IsFiniteSet(Busy)' /\ SlotBound'
    BY <2>3, <2>4, BusyStep DEF Settled
  <2>. QED BY <2>3, <2>5, <2>6, <2>7, <2>8 DEF Settled, Staged, Agrees
<1>2. ASSUME UNCHANGED <<table, request, healthy>>, Keeps,
             accepted' = accepted,
             \A v \in Worker :
               \/ worker'[v] = worker[v]
               \/ worker'[v].at \in {"idle", "load"}
      PROVE  Settled'
  <2>1. \A q \in Run : Copies(q)' <= 1
    BY <1>2, CopiesType DEF Keeps, Settled
  <2>2. \A v \in Worker :
          worker'[v].at # "idle" => Agrees(worker'[v], table'[worker'[v].run])
    BY <1>2 DEF Settled, Agrees, Followed
  <2>3. Busy' = Busy /\ (SlotBound' <=> SlotBound)
    BY <1>2 DEF Busy, SlotBound, Occupied
  <2>. QED BY <1>2, <2>1, <2>2, <2>3 DEF Settled, Staged, Agrees
<1>3. ASSUME NEW w \in Worker, AtWork(w), Leaves(w) PROVE Settled'
  <2>1. worker[w].run \in accepted
    BY <1>3 DEF BaseInv, Known, AtWork
  <2>2. accepted' = accepted
    BY <1>3, <2>1 DEF Leaves
  <2>. QED BY <1>2, <1>3, <2>2, IdleIs
           DEF Leaves, Settled, store, weather
<1>4. ASSUME NEW w \in Worker, NEW m \in Job, Takes(w, m) PROVE Settled'
  BY <1>2, <1>4 DEF Takes, store, weather
<1>5. ASSUME NEW r \in Run, Asks(r) PROVE Settled'
  <2>1. /\ UNCHANGED <<worker, healthy>>
        /\ \A q \in Run : q # r => request'[q] = request[q]
    BY <1>5 DEF Asks, weather
  <2>2. CASE /\ UNCHANGED <<table, broker>>
             /\ request[r] = "done" => request'[r] = "done"
    <3>1. \A q \in Run : Copies(q)' = Copies(q)
      BY <2>1, <2>2, CopiesAre DEF broker
    <3>2. Busy' = Busy /\ (SlotBound' <=> SlotBound)
      BY <2>2 DEF Busy, SlotBound, Occupied
    <3>. QED BY <2>1, <2>2, <3>1, <3>2 DEF Settled, Staged, Agrees, broker
  <2>3. CASE Inserts(r)
    <3>1. \A q \in Run : Copies(q)' = Copies(q)
      BY <2>1, <2>3, CopiesAre DEF Inserts, broker
    <3>2. /\ \A q \in Run : q # r => table'[q] = table[q]
          /\ table'[r].status = "queued" /\ table'[r].thread = None
          /\ r \notin accepted /\ accepted' = accepted
      BY <2>3 DEF Inserts, broker
    <3>3. IsFiniteSet(Busy)' /\ SlotBound'
      BY <3>2, BusyStep DEF Settled, Occupying
    <3>4. \A q \in Run : Staged(table'[q])
      BY <3>2 DEF Settled, Staged
    <3>5. ASSUME NEW v \in Worker, worker[v].at # "idle"
          PROVE  Agrees(worker[v], table'[worker[v].run])
      <4>1. worker[v].run \in accepted /\ worker[v].run # r
        BY <3>2, <3>5 DEF BaseInv, Known
      <4>. QED BY <3>2, <3>5, <4>1 DEF Settled
    <3>. QED BY <2>1, <3>1, <3>2, <3>3, <3>4, <3>5
             DEF Settled, Staged, Agrees
  <2>4. CASE Publishes(r)
    <3>1. /\ request[r] = "publish" /\ request'[r] = "done"
          /\ UNCHANGED table /\ accepted' = accepted \cup {r}
      BY <2>4 DEF Publishes, Alone
    <3>2. Copies(r) = 0
      BY <3>1, NoneAccepted DEF Settled
    <3>3. \A q \in Run : Copies(q)' <= 1
      BY <2>4, <3>2, CopiesType DEF Publishes, Adds, Settled
    <3>4. Busy' = Busy /\ (SlotBound' <=> SlotBound)
      BY <3>1 DEF Busy, SlotBound, Occupied
    <3>. QED BY <2>1, <3>1, <3>3, <3>4 DEF Settled, Staged, Agrees
  <2>. QED BY <1>5, <2>2, <2>3, <2>4 DEF Asks
<1>6. ASSUME Surroundings PROVE Settled'
  <2>1. /\ UNCHANGED <<request, ready, accepted, worker>>
        /\ healthy' = healthy
        /\ \A q \in Run : /\ table'[q].status = table[q].status
                          /\ table'[q].thread = table[q].thread
    BY <1>6 DEF Surroundings, broker, Turns, Alone
  <2>2. \A q \in Run : Copies(q)' = Copies(q)
    BY <2>1, CopiesAre
  <2>3. Busy' = Busy /\ (SlotBound' <=> SlotBound)
    BY <2>1 DEF Busy, SlotBound, Occupied
  <2>4. \A v \in Worker :
          worker[v].at # "idle" => Agrees(worker[v], table'[worker[v].run])
    BY <2>1 DEF Settled, Agrees, BaseInv, Fitting, Fits
  <2>5. \A q \in Run : Staged(table'[q])
    BY <2>1 DEF Settled, Staged
  <2>. QED BY <2>1, <2>2, <2>3, <2>4, <2>5 DEF Settled, Staged, Agrees
<1>. QED BY <1>1, <1>3, <1>4, <1>5, <1>6, Kinds

LEMMA AloneNext ==
  ASSUME BaseInv, AloneInv, [Next]_vars
  PROVE  AloneInv'
<1>1. UNCHANGED trouble
  BY Kinds DEF Effect, Leaves, Takes, Asks, Surroundings, weather
<1>. QED BY <1>1, SettledNext DEF AloneInv, Alone

-----------------------------------------------------------------------------
(* The whole invariant.                                                    *)

Inv == BaseInv /\ Keyed /\ Backed /\ CarriedInv /\ AloneInv

LEMMA InvInit ==
  ASSUME Init
  PROVE  Inv
<1>1. BaseInv
  BY BaseInit
<1>2. \A r \in Run : table[r].status = "absent" /\ ~table[r].active
                    /\ Staged(table[r])
  BY DEF Init, StoreInit, Absent, Staged
<1>3. Keyed
  BY <1>2 DEF Keyed, Open
<1>4. Backed
  BY <1>2, IdleIs DEF Init, StoreInit, Backed, AssessmentIsBacked, Validated
<1>5. CarriedInv
  BY DEF Init, CarriedInv
<1>6. Settled
  <2>1. \A r \in Run : Copies(r) = 0
    BY <1>1, NoneAccepted DEF Init
  <2>2. Busy = {}
    BY <1>2 DEF Busy, Occupying
  <2>3. IsFiniteSet(Busy) /\ Cardinality(Busy) = 0
    BY <2>2, FS_EmptySet
  <2>4. SlotBound
    BY <2>3, Bounds DEF SlotBound, Occupied, Busy
  <2>. QED BY <1>2, <2>1, <2>3, <2>4, IdleIs DEF Init, Settled
<1>. QED BY <1>1, <1>3, <1>4, <1>5, <1>6 DEF Inv, AloneInv

LEMMA InvNext ==
  ASSUME Inv, [Next]_vars
  PROVE  Inv'
BY BaseNext, KeyedNext, BackedNext, CarriedNext, AloneNext DEF Inv

LEMMA InvImplies ==
  ASSUME Inv
  PROVE  /\ TypeOK /\ OneOpenRun /\ AssessmentIsBacked /\ OpenIsCarried
         /\ Alone => SlotBound /\ ThreadIsKnown
<1>1. OneOpenRun
  BY DEF Inv, Keyed, OneOpenRun
<1>2. OpenIsCarried
  BY KeptIsCarried DEF Inv
<1>3. Alone => SlotBound /\ ThreadIsKnown
  BY DEF Inv, AloneInv, Settled, Staged, ThreadIsKnown
<1>. QED BY <1>1, <1>2, <1>3 DEF Inv, BaseInv, Backed

\* Whatever fails, dies or is published twice: a key has one open run, what
\* an assessment points at has valid artifacts, an accepted run that is open
\* has a delivery or was buried, and an end is final.  When a run has one
\* delivery and its lease lasts, no more runs are evaluated than there are
\* slots and a run in evaluation has a thread.
THEOREM AnalysisWorkerSafeHolds == Spec => AnalysisWorkerSafe
<1>1. Spec => []Inv
  BY InvInit, InvNext, PTL DEF Spec
<1>2. Inv => /\ TypeOK /\ OneOpenRun /\ AssessmentIsBacked /\ OpenIsCarried
             /\ Alone => SlotBound /\ ThreadIsKnown
  BY InvImplies
<1>3. Inv /\ [Next]_vars => [EndIsFinal]_vars
  BY EndIsFinalNext DEF Inv
<1>. QED BY <1>1, <1>2, <1>3, PTL DEF Spec, AnalysisWorkerSafe
=============================================================================
