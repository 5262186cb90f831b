----------------------------- MODULE ScanProofs -----------------------------
(***************************************************************************)
(* Proofs about ScanJobs, for any requests, jobs, finitely many deliveries *)
(* at a time and any bounds; and, from JobRow on, about PublicScanJobs,    *)
(* for any finite sets of scans and workers and any positive bounds.  The  *)
(* inductive invariant of the latter, RowsInv, says that the two rows of a *)
(* scan fit each other (Consistent), that a token belongs to one worker    *)
(* and to the scan it claimed (Tokened), that live slots lie below the     *)
(* capacity (SlotsFit), and that admission keeps to its bound.             *)
(*                                                                         *)
(* From Prepared on, about CommitVerification, for any number of commits,  *)
(* any workers and moves of the lease: FactsInv says that the open and     *)
(* complete ranges partition the history once there is a first one         *)
(* (RangesFit), what a row has counted (RowFits), and what a worker's next *)
(* write still has in common with the cursor it read (Doing).              *)
(***************************************************************************)
EXTENDS ScanJobs, PublicScanJobs, CommitVerification, Integers,
        FiniteSetTheorems, TLAPS

\* What a worker is handling.
Handled ==
  \A w \in Worker :
    /\ worker[w].at = "idle" => worker[w].job = None
    /\ worker[w].at # "idle" =>
         worker[w].job \in Job /\ worker[w].attempt < MaxAttempts
    /\ worker[w].at = "persist" => worker[w].scan \in Snapshot

\* The copies of a message fit the bound.
Bounded == \A m \in Message : Copies(m) <= MaxCopies

TypeInv == TypeOK /\ Handled /\ Bounded

\* There is a copy of the message.
HeldBy(m) == {w \in Holding : Held(w) = m}
Has(m) == ready[m] > 0 \/ HeldBy(m) # {}
-----------------------------------------------------------------------------
(* What the actions do to a worker.                                        *)

Places == {"idle", "begin", "collect", "persist", "complete", "retry",
           "retried", "ack", "report", "bury", "release"}

\* Only w moves.
Moves(w) ==
  /\ worker' \in [Worker -> WorkerState]
  /\ \A v \in Worker : v # w => worker'[v] = worker[v]

\* It goes on with the same message.
GoesOn(w, place) ==
  /\ Moves(w)
  /\ worker'[w].at = place
  /\ worker'[w].job = worker[w].job
  /\ worker'[w].attempt = worker[w].attempt

LEMMA WorkerIsState ==
  ASSUME TypeOK, NEW w \in Worker
  PROVE  worker[w] \in WorkerState
BY DEF TypeOK

LEMMA NoneApart == None \notin Snapshot \cup Job \cup Request
BY ScanAssumption DEF ScanAssumption

LEMMA IdleIsState == Idle \in WorkerState
BY ScanAssumption DEF ScanAssumption, Idle, WorkerState, Attempt

LEMMA StepGoesOn ==
  ASSUME TypeOK, NEW w \in Worker, NEW place \in Places, Step(w, place)
  PROVE  /\ GoesOn(w, place)
         /\ worker'[w].scan = worker[w].scan
         /\ worker'[w].failure = worker[w].failure
<1>1. worker[w] \in WorkerState
  BY WorkerIsState
<1>2. [worker[w] EXCEPT !.at = place] \in WorkerState
  BY <1>1 DEF WorkerState, Places
<1>3. worker' = [worker EXCEPT ![w] = [worker[w] EXCEPT !.at = place]]
  BY DEF Step, TypeOK
<1>4. worker'[w] = [worker[w] EXCEPT !.at = place]
  BY <1>3 DEF TypeOK
<1>5. Moves(w)
  BY <1>2, <1>3 DEF Moves, TypeOK
<1>. QED BY <1>1, <1>4, <1>5 DEF GoesOn, WorkerState

LEMMA FailsGoesOn ==
  ASSUME TypeOK, NEW w \in Worker, NEW place \in Places,
         NEW failure \in {"transient", "permanent", "conflict"},
         Fails(w, failure, place)
  PROVE  GoesOn(w, place) /\ worker'[w].failure = failure
<1>1. worker[w] \in WorkerState
  BY WorkerIsState
<1> DEFINE row == [worker[w] EXCEPT !.at = place, !.failure = failure]
<1>2. row \in WorkerState
  BY <1>1 DEF WorkerState, Places
<1>3. worker' = [worker EXCEPT ![w] = row]
  BY DEF Fails, TypeOK
<1>4. /\ row.at = place /\ row.job = worker[w].job
      /\ row.attempt = worker[w].attempt /\ row.failure = failure
  BY <1>1 DEF WorkerState
<1> HIDE DEF row
<1>5. worker'[w] = row
  BY <1>3 DEF TypeOK
<1>6. Moves(w)
  BY <1>2, <1>3 DEF Moves, TypeOK
<1>. QED BY <1>4, <1>5, <1>6 DEF GoesOn

LEMMA CollectGoesOn ==
  ASSUME TypeOK, NEW w \in Worker, NEW s \in Snapshot,
         worker' = [worker EXCEPT ![w].at = "persist", ![w].scan = s]
  PROVE  /\ GoesOn(w, "persist") /\ worker'[w].scan = s
         /\ worker'[w].failure = worker[w].failure
<1>1. worker[w] \in WorkerState
  BY WorkerIsState
<1> DEFINE row == [worker[w] EXCEPT !.at = "persist", !.scan = s]
<1>2. row \in WorkerState
  BY <1>1 DEF WorkerState
<1>3. worker' = [worker EXCEPT ![w] = row]
  BY DEF TypeOK
<1>4. /\ row.at = "persist" /\ row.job = worker[w].job /\ row.scan = s
      /\ row.attempt = worker[w].attempt /\ row.failure = worker[w].failure
  BY <1>1 DEF WorkerState
<1> HIDE DEF row
<1>5. worker'[w] = row
  BY <1>3 DEF TypeOK
<1>6. Moves(w)
  BY <1>2, <1>3 DEF Moves, TypeOK
<1>. QED BY <1>4, <1>5, <1>6 DEF GoesOn

\* It has nothing to do any more.
Rests(w) == Moves(w) /\ worker'[w] = Idle

LEMMA IdleRests ==
  ASSUME TypeOK, NEW w \in Worker, worker' = [worker EXCEPT ![w] = Idle]
  PROVE  Rests(w)
BY IdleIsState DEF Rests, Moves, TypeOK

\* It has given its message back, and may have the lock to release.
Leaves(w) ==
  /\ Moves(w)
  /\ \/ worker'[w] = Idle
     \/ /\ worker'[w] = [Idle EXCEPT !.at = "release", !.job = worker[w].job]
        /\ FlightLock(worker[w].job)
        /\ worker[w].failure # "transient"

LEMMA SettleLeaves ==
  ASSUME TypeOK, NEW w \in Worker, Settle(w)
  PROVE  Leaves(w)
<1>1. worker[w] \in WorkerState
  BY WorkerIsState
<1> DEFINE row == [Idle EXCEPT !.at = "release", !.job = worker[w].job]
<1>2. row \in WorkerState
  <2>1. worker[w].job \in Job \cup {None}
    BY <1>1 DEF WorkerState
  <2>. QED BY <2>1, IdleIsState DEF WorkerState
<1> HIDE DEF row
<1>3. CASE worker[w].failure = "transient" \/ ~FlightLock(worker[w].job)
  <2>1. worker' = [worker EXCEPT ![w] = Idle]
    BY <1>3 DEF Settle
  <2>. QED BY <2>1, IdleRests DEF Rests, Leaves
<1>4. CASE ~(worker[w].failure = "transient" \/ ~FlightLock(worker[w].job))
  <2>1. worker' = [worker EXCEPT ![w] = row]
    BY <1>4 DEF Settle, row
  <2>2. worker'[w] = row /\ Moves(w)
    BY <1>2, <2>1 DEF Moves, TypeOK
  <2>. QED BY <1>4, <2>2 DEF Leaves, row
<1>. QED BY <1>3, <1>4

LEMMA DeliverTakes ==
  ASSUME TypeOK, NEW w \in Worker, NEW m \in Message, Deliver(w, m)
  PROVE  /\ Moves(w) /\ worker'[w].at = "begin"
         /\ worker'[w].job = m.job /\ worker'[w].attempt = m.attempt
         /\ worker'[w].failure = "none"
<1> DEFINE row == [Idle EXCEPT !.at = "begin", !.job = m.job,
                               !.attempt = m.attempt]
<1>1. row \in WorkerState
  <2>1. m.job \in Job /\ m.attempt \in Attempt
    BY ScanAssumption DEF ScanAssumption, Message, Attempt
  <2>. QED BY <2>1, IdleIsState DEF WorkerState
<1>2. /\ row.at = "begin" /\ row.job = m.job /\ row.attempt = m.attempt
      /\ row.failure = "none"
  BY DEF Idle
<1>3. worker' = [worker EXCEPT ![w] = row]
  BY DEF Deliver
<1> HIDE DEF row
<1>4. worker'[w] = row /\ Moves(w)
  BY <1>1, <1>3 DEF Moves, TypeOK
<1>. QED BY <1>2, <1>4

-----------------------------------------------------------------------------
(* Messages.  A step leaves them alone, publishes one, delivers one,       *)
(* returns one to the broker or drops one by its acknowledgement.          *)

Same(w) ==
  /\ w \in Holding' <=> w \in Holding
  /\ w \in Holding => Held(w)' = Held(w)

Still == ready' = ready /\ \A v \in Worker : Same(v)
Adds(m) ==
  /\ Copies(m) < MaxCopies
  /\ ready' = [ready EXCEPT ![m] = @ + 1]
  /\ \A v \in Worker : Same(v)
Takes(w, m) ==
  /\ ready[m] > 0
  /\ ready' = [ready EXCEPT ![m] = @ - 1]
  /\ w \notin Holding /\ w \in Holding' /\ Held(w)' = m
  /\ \A v \in Worker : v # w => Same(v)
Returns(w) ==
  /\ w \in Holding /\ w \notin Holding'
  /\ ready' = [ready EXCEPT ![Held(w)] = @ + 1]
  /\ \A v \in Worker : v # w => Same(v)
Drops(w) ==
  /\ w \in Holding /\ w \notin Holding'
  /\ ready' = ready
  /\ \A v \in Worker : v # w => Same(v)

LEMMA Counted ==
  ASSUME TypeOK, NEW m \in Message
  PROVE  /\ IsFiniteSet(HeldBy(m)) /\ Cardinality(HeldBy(m)) \in Nat
         /\ Cardinality(HeldBy(m)) = 0 <=> HeldBy(m) = {}
         /\ ready[m] \in Nat
         /\ Copies(m) = ready[m] + Cardinality(HeldBy(m))
<1>1. IsFiniteSet(Worker) /\ HeldBy(m) \subseteq Worker
  BY ScanAssumption DEF ScanAssumption, HeldBy, Holding
<1>2. IsFiniteSet(HeldBy(m))
  BY <1>1, FS_Subset
<1>3. ready[m] \in Nat
  BY ScanAssumption DEF ScanAssumption, TypeOK
<1>. QED BY <1>2, <1>3, FS_CardinalityType, FS_EmptySet DEF Copies, HeldBy

\* There is a copy exactly when copies are counted.
LEMMA HasCopies ==
  ASSUME TypeOK, NEW m \in Message
  PROVE  Has(m) <=> Copies(m) > 0
BY Counted DEF Has

LEMMA HeldIsMessage ==
  ASSUME TypeOK, Handled, NEW w \in Holding
  PROVE  w \in Worker /\ Held(w) \in Message /\ worker[w].job \in Job
<1>1. w \in Worker /\ worker[w].at # "idle"
  BY DEF Holding
<1>2. worker[w].attempt \in 0 .. MaxAttempts - 1
  BY <1>1, WorkerIsState, ScanAssumption
  DEF Handled, WorkerState, Attempt, ScanAssumption
<1>. QED BY <1>1, <1>2 DEF Handled, Held, Message

LEMMA SameHeld ==
  ASSUME NEW W, \A v \in Worker : v \notin W => Same(v), NEW m
  PROVE  \A v : v \notin W => (v \in HeldBy(m)' <=> v \in HeldBy(m))
BY DEF Same, HeldBy, Holding

\* What a step of each kind does to the messages.
Keeps(m) == /\ Has(m)' <=> Has(m)
            /\ Copies(m)' = Copies(m)

LEMMA StillKeeps ==
  ASSUME Still, NEW m \in Message
  PROVE  Keeps(m)
<1>1. \A v : v \in HeldBy(m)' <=> v \in HeldBy(m)
  BY DEF Still, Same, HeldBy, Holding
<1>2. HeldBy(m)' = HeldBy(m)
  BY <1>1
<1>. QED BY <1>2 DEF Keeps, Has, Copies, HeldBy, Still

LEMMA AddsOne ==
  ASSUME TypeOK, NEW a \in Message, Adds(a)
  PROVE  /\ ready' \in [Message -> 0 .. MaxCopies]
         /\ Has(a)' /\ Copies(a)' = Copies(a) + 1
         /\ \A m \in Message : m # a => Keeps(m)
<1>1. ASSUME NEW m \in Message PROVE HeldBy(m)' = HeldBy(m)
  <2>1. \A v : v \in HeldBy(m)' <=> v \in HeldBy(m)
    BY DEF Adds, Same, HeldBy, Holding
  <2>. QED BY <2>1
<1>2. ready'[a] = ready[a] + 1 /\ ready[a] \in Nat
  BY Counted DEF Adds, TypeOK
<1>3. ready'[a] \in 0 .. MaxCopies
  BY <1>2, Counted, ScanAssumption DEF Adds, ScanAssumption
<1>4. ready' \in [Message -> 0 .. MaxCopies]
  BY <1>2, <1>3 DEF Adds, TypeOK
<1>5. Copies(a)' = Copies(a) + 1
  <2>1. Copies(a)' = ready'[a] + Cardinality(HeldBy(a)')
    BY DEF Copies, HeldBy
  <2>. QED BY <1>1, <1>2, <2>1, Counted
<1>6. Has(a)'
  BY <1>2 DEF Has
<1>7. ASSUME NEW m \in Message, m # a PROVE Keeps(m)
  <2>1. ready'[m] = ready[m]
    BY <1>7 DEF Adds, TypeOK
  <2>. QED BY <1>1, <2>1 DEF Keeps, Has, Copies, HeldBy
<1>. QED BY <1>4, <1>5, <1>6, <1>7

\* A copy that w gets, or gives back, is counted elsewhere.
LEMMA OthersHeld ==
  ASSUME NEW w \in Worker, \A v \in Worker : v # w => Same(v), NEW m
  PROVE  HeldBy(m)' \ {w} = HeldBy(m) \ {w}
<1>1. \A v : v \in HeldBy(m)' \ {w} <=> v \in HeldBy(m) \ {w}
  BY DEF Same, HeldBy, Holding
<1>. QED BY <1>1

LEMMA TakesOne ==
  ASSUME TypeOK, NEW w \in Worker, NEW t \in Message, Takes(w, t)
  PROVE  /\ ready' \in [Message -> 0 .. MaxCopies]
         /\ \A m \in Message : Keeps(m)
<1>1. ready'[t] = ready[t] - 1 /\ ready[t] \in Nat /\ ready[t] > 0
  BY Counted DEF Takes, TypeOK
<1>2. ready' \in [Message -> 0 .. MaxCopies]
  BY <1>1, ScanAssumption DEF Takes, TypeOK, ScanAssumption
<1>3. HeldBy(t)' = HeldBy(t) \cup {w} /\ w \notin HeldBy(t)
  <2>1. w \in HeldBy(t)' /\ w \notin HeldBy(t)
    BY DEF Takes, HeldBy
  <2>2. HeldBy(t)' \ {w} = HeldBy(t) \ {w}
    BY OthersHeld DEF Takes
  <2>. QED BY <2>1, <2>2
<1>4. Cardinality(HeldBy(t)') = Cardinality(HeldBy(t)) + 1
  BY <1>3, Counted, FS_AddElement
<1>5. Keeps(t)
  <2>1. Copies(t)' = ready'[t] + Cardinality(HeldBy(t)')
    BY DEF Copies, HeldBy
  <2>2. Copies(t)' = Copies(t)
    BY <1>1, <1>4, <2>1, Counted
  <2>. QED BY <1>1, <1>3, <2>2 DEF Keeps, Has
<1>6. ASSUME NEW m \in Message, m # t PROVE Keeps(m)
  <2>1. ready'[m] = ready[m]
    BY <1>6 DEF Takes, TypeOK
  <2>2. w \notin HeldBy(m)' /\ w \notin HeldBy(m)
    BY <1>6 DEF Takes, HeldBy
  <2>3. HeldBy(m)' = HeldBy(m)
    BY <2>2, OthersHeld DEF Takes
  <2>. QED BY <2>1, <2>3 DEF Keeps, Has, Copies, HeldBy
<1>. QED BY <1>2, <1>5, <1>6

LEMMA LeavesHeld ==
  ASSUME TypeOK, NEW w \in Worker, w \in Holding, w \notin Holding',
         \A v \in Worker : v # w => Same(v), NEW h \in Message, h = Held(w)
  PROVE  /\ HeldBy(h)' = HeldBy(h) \ {w}
         /\ Cardinality(HeldBy(h)') = Cardinality(HeldBy(h)) - 1
         /\ w \in HeldBy(h)
         /\ \A m \in Message : m # h => HeldBy(m)' = HeldBy(m)
<1>1. w \in HeldBy(h)
  BY DEF HeldBy
<1>2. \A m : w \notin HeldBy(m)'
  BY DEF HeldBy
<1>3. ASSUME NEW m PROVE HeldBy(m)' = HeldBy(m) \ {w}
  BY <1>2, OthersHeld
<1>4. \A m : m # h => w \notin HeldBy(m)
  BY DEF HeldBy
<1>5. Cardinality(HeldBy(h) \ {w}) = Cardinality(HeldBy(h)) - 1
  BY <1>1, Counted, FS_RemoveElement
<1>. QED BY <1>1, <1>3, <1>4, <1>5

LEMMA ReturnsOne ==
  ASSUME TypeOK, Handled, Bounded, NEW w \in Worker, Returns(w)
  PROVE  /\ ready' \in [Message -> 0 .. MaxCopies]
         /\ \A m \in Message : Keeps(m)
<1>1. PICK h \in Message : h = Held(w)
  BY HeldIsMessage DEF Returns
<1>2. /\ HeldBy(h)' = HeldBy(h) \ {w}
      /\ Cardinality(HeldBy(h)') = Cardinality(HeldBy(h)) - 1
      /\ w \in HeldBy(h)
      /\ \A m \in Message : m # h => HeldBy(m)' = HeldBy(m)
  BY <1>1, LeavesHeld DEF Returns
<1>3. ready'[h] = ready[h] + 1 /\ ready[h] \in Nat
  BY <1>1, Counted DEF Returns, TypeOK
<1>4. Cardinality(HeldBy(h)) > 0
  BY <1>2, Counted
<1>5. ready'[h] \in 0 .. MaxCopies
  BY <1>3, <1>4, Counted, ScanAssumption DEF Bounded, ScanAssumption
<1>6. ready' \in [Message -> 0 .. MaxCopies]
  BY <1>1, <1>3, <1>5 DEF Returns, TypeOK
<1>7. Keeps(h)
  <2>1. Copies(h)' = ready'[h] + Cardinality(HeldBy(h)')
    BY DEF Copies, HeldBy
  <2>2. Copies(h)' = Copies(h)
    BY <1>2, <1>3, <2>1, Counted
  <2>. QED BY <1>2, <1>3, <2>2 DEF Keeps, Has
<1>8. ASSUME NEW m \in Message, m # h PROVE Keeps(m)
  <2>1. ready'[m] = ready[m]
    BY <1>1, <1>8 DEF Returns, TypeOK
  <2>. QED BY <1>2, <1>8, <2>1 DEF Keeps, Has, Copies, HeldBy
<1>. QED BY <1>6, <1>7, <1>8

LEMMA DropsOne ==
  ASSUME TypeOK, Handled, NEW w \in Worker, Drops(w)
  PROVE  \A m \in Message :
           /\ Copies(m)' <= Copies(m)
           /\ Has(m)' => Has(m)
           /\ m # Held(w) => Keeps(m)
<1>1. PICK h \in Message : h = Held(w)
  BY HeldIsMessage DEF Drops
<1>2. /\ HeldBy(h)' = HeldBy(h) \ {w}
      /\ Cardinality(HeldBy(h)') = Cardinality(HeldBy(h)) - 1
      /\ \A m \in Message : m # h => HeldBy(m)' = HeldBy(m)
  BY <1>1, LeavesHeld DEF Drops
<1>3. Copies(h)' <= Copies(h) /\ (Has(h)' => Has(h))
  <2>1. Copies(h)' = ready'[h] + Cardinality(HeldBy(h)')
    BY DEF Copies, HeldBy
  <2>2. Copies(h)' <= Copies(h)
    BY <1>2, <2>1, Counted DEF Drops
  <2>. QED BY <1>2, <2>2 DEF Has, Drops
<1>4. ASSUME NEW m \in Message, m # h
      PROVE  Keeps(m) /\ Copies(m)' <= Copies(m)
  <2>1. Keeps(m)
    BY <1>2, <1>4 DEF Keeps, Has, Copies, HeldBy, Drops
  <2>. QED BY <2>1, Counted DEF Keeps
<1>. QED BY <1>1, <1>3, <1>4 DEF Keeps

-----------------------------------------------------------------------------
(* Which action does which.                                                *)

LEMMA NobodyMoves ==
  ASSUME worker' = worker
  PROVE  \A v \in Worker : Same(v)
BY DEF Same, Holding, Held

LEMMA GoesOnSame ==
  ASSUME NEW w \in Worker, NEW place \in Places \ {"idle", "release"},
         GoesOn(w, place), worker[w].at \notin {"idle", "release"}
  PROVE  \A v \in Worker : Same(v)
BY DEF GoesOn, Moves, Same, Holding, Held

\* What is left of a delivery.
LEMMA LeavesRow ==
  ASSUME NEW w, Leaves(w) \/ Rests(w)
  PROVE  /\ Moves(w)
         /\ worker'[w].failure = "none"
         /\ \/ worker'[w].at = "idle" /\ worker'[w].job = None
            \/ /\ worker'[w].at = "release" /\ worker'[w].attempt = 0
               /\ worker'[w].job = worker[w].job /\ Leaves(w)
               /\ FlightLock(worker[w].job) /\ worker[w].failure # "transient"
<1>1. CASE worker'[w] = Idle
  BY <1>1 DEF Idle, Leaves, Rests
<1>2. CASE worker'[w] # Idle
  <2> DEFINE row == [Idle EXCEPT !.at = "release", !.job = worker[w].job]
  <2>1. /\ worker'[w] = row /\ Moves(w)
        /\ FlightLock(worker[w].job) /\ worker[w].failure # "transient"
    BY <1>2 DEF Leaves, Rests
  <2>2. /\ row.at = "release" /\ row.job = worker[w].job
        /\ row.attempt = 0 /\ row.failure = "none"
    BY DEF Idle
  <2>3. Leaves(w)
    BY <1>2 DEF Rests
  <2> HIDE DEF row
  <2>. QED BY <2>1, <2>2, <2>3
<1>. QED BY <1>1, <1>2

LEMMA LeavesSame ==
  ASSUME NEW w \in Worker, Leaves(w), worker[w].at \notin {"idle", "release"}
  PROVE  /\ w \in Holding /\ w \notin Holding'
         /\ \A v \in Worker : v # w => Same(v)
<1>1. worker'[w].at \in {"idle", "release"}
  BY LeavesRow
<1>. QED BY <1>1 DEF Leaves, Moves, Same, Holding, Held

LEMMA ReleasedSame ==
  ASSUME NEW w \in Worker, Rests(w), worker[w].at = "release"
  PROVE  \A v \in Worker : Same(v)
BY DEF Rests, Moves, Same, Holding, Held, Idle

LEMMA HandledGoesOn ==
  ASSUME Handled, NEW w \in Worker, NEW place \in Places \ {"idle"},
         GoesOn(w, place), worker[w].at # "idle",
         place = "persist" => worker'[w].scan \in Snapshot
  PROVE  Handled'
BY DEF Handled, GoesOn, Moves

LEMMA HandledLeaves ==
  ASSUME Handled, NEW w \in Worker, Leaves(w) \/ Rests(w),
         worker[w].at # "idle"
  PROVE  Handled'
<1>1. /\ worker'[w].at = "idle" => worker'[w].job = None
      /\ worker'[w].at # "idle" =>
           /\ worker'[w].job = worker[w].job /\ worker'[w].attempt = 0
           /\ worker'[w].at = "release"
  BY LeavesRow
<1>2. worker[w].job \in Job /\ 0 < MaxAttempts
  BY ScanAssumption DEF Handled, ScanAssumption
<1>. QED BY <1>1, <1>2 DEF Handled, Leaves, Rests, Moves

\* The kinds of steps.
Traffic ==
  \/ Still
  \/ \E m \in Message : Adds(m)
  \/ \E w \in Worker, m \in Message : Takes(w, m)
  \/ \E w \in Worker : Returns(w)
  \/ \E w \in Worker : Drops(w)

LEMMA TrafficFits ==
  ASSUME TypeInv, Traffic
  PROVE  ready' \in [Message -> 0 .. MaxCopies] /\ Bounded'
<1>1. ASSUME \A m \in Message : Keeps(m) PROVE Bounded'
  BY <1>1 DEF Keeps, Bounded, TypeInv
<1>2. CASE Still
  BY <1>1, <1>2, StillKeeps DEF Still, TypeInv, TypeOK
<1>3. ASSUME NEW a \in Message, Adds(a)
      PROVE  ready' \in [Message -> 0 .. MaxCopies] /\ Bounded'
  <2>1. Copies(a) \in Nat /\ Copies(a) < MaxCopies
    BY <1>3, Counted DEF TypeInv, Adds
  <2>2. Copies(a)' <= MaxCopies
    BY <1>3, <2>1, AddsOne, ScanAssumption DEF TypeInv, ScanAssumption
  <2>3. \A m \in Message : m # a => Copies(m)' <= MaxCopies
    BY <1>3, AddsOne DEF Keeps, Bounded, TypeInv
  <2>. QED BY <1>3, <2>2, <2>3, AddsOne DEF Bounded, TypeInv
<1>4. ASSUME NEW w \in Worker, NEW m \in Message, Takes(w, m)
      PROVE  ready' \in [Message -> 0 .. MaxCopies] /\ Bounded'
  BY <1>1, <1>4, TakesOne DEF TypeInv
<1>5. ASSUME NEW w \in Worker, Returns(w)
      PROVE  ready' \in [Message -> 0 .. MaxCopies] /\ Bounded'
  BY <1>1, <1>5, ReturnsOne DEF TypeInv
<1>6. ASSUME NEW w \in Worker, Drops(w)
      PROVE  ready' \in [Message -> 0 .. MaxCopies] /\ Bounded'
  <2>1. \A m \in Message : Copies(m)' <= Copies(m) /\ Copies(m) <= MaxCopies
    BY <1>6, DropsOne DEF TypeInv, Bounded
  <2>2. \A m \in Message : Copies(m) \in Nat
    BY Counted DEF TypeInv
  <2>3. \A m \in Message : Copies(m)' \in Int
    <3> TAKE m \in Message
    <3>1. Copies(m)' = ready'[m] + Cardinality(HeldBy(m)')
      BY DEF Copies, HeldBy
    <3>2. ready'[m] \in Nat
      BY <1>6, Counted DEF Drops, TypeInv
    <3>3. HeldBy(m)' \subseteq Worker /\ IsFiniteSet(Worker)
      BY ScanAssumption DEF HeldBy, Holding, ScanAssumption
    <3>4. Cardinality(HeldBy(m)') \in Nat
      BY <3>3, FS_Subset, FS_CardinalityType
    <3>. QED BY <3>1, <3>2, <3>4
  <2>4. Bounded'
    BY <2>1, <2>2, <2>3, ScanAssumption DEF Bounded, ScanAssumption
  <2>. QED BY <1>6, <2>4 DEF Drops, TypeInv, TypeOK
<1>. QED BY <1>2, <1>3, <1>4, <1>5, <1>6 DEF Traffic

\* A publish, answered or not.
LEMMA PublishAdds ==
  ASSUME NEW m \in Message, Publish(m), \A v \in Worker : Same(v)
  PROVE  Adds(m) /\ published' = published \cup {m.job}
BY DEF Publish, Adds

LEMMA FirstMessage ==
  ASSUME NEW r \in Request
  PROVE  /\ JobOf[r] \in Job
         /\ [job |-> JobOf[r], attempt |-> 0] \in Message
BY ScanAssumption DEF ScanAssumption, Message

LEMMA NextMessage ==
  ASSUME TypeInv, NEW w \in Holding, worker[w].attempt + 1 < MaxAttempts
  PROVE  /\ NextAttempt(Held(w)) \in Message
         /\ NextAttempt(Held(w)).job = worker[w].job
         /\ NextAttempt(Held(w)).attempt = worker[w].attempt + 1
<1>1. worker[w].job \in Job /\ worker[w].attempt \in Nat
  BY HeldIsMessage, WorkerIsState DEF TypeInv, WorkerState, Attempt
<1>2. NextAttempt(Held(w)) = [job |-> worker[w].job,
                              attempt |-> worker[w].attempt + 1]
  BY <1>1 DEF NextAttempt, Held
<1>3. worker[w].attempt + 1 \in 0 .. MaxAttempts - 1
  BY <1>1, ScanAssumption DEF ScanAssumption
<1>. QED BY <1>1, <1>2, <1>3 DEF Message

-----------------------------------------------------------------------------
(* What an action of a worker does, as far as the invariants can tell.     *)

GoesEffect(w) ==
  /\ worker[w].at \notin {"idle", "release"}
  /\ Still /\ published' = published
  /\ \E place \in Places \ {"idle", "release", "retried"} :
       /\ GoesOn(w, place)
       /\ place = "persist" => worker'[w].scan \in Snapshot
       /\ place = "complete" => result'[worker[w].job] # None
       /\ place = "ack" => \/ worker[w].at \in {"complete", "retried"}
                           \/ worker[w].job \in dead'
       /\ place = "retry" => ~healthy
       /\ worker'[w].failure = "transient" =>
            worker[w].failure = "transient" \/ ~healthy

RetryEffect(w) ==
  /\ worker[w].at = "retry" /\ worker[w].attempt + 1 < MaxAttempts
  /\ GoesOn(w, "retried")
  /\ worker'[w].failure = worker[w].failure
  /\ Adds(NextAttempt(Held(w)))
  /\ published' = published \cup {worker[w].job}

ReturnEffect(w) ==
  /\ worker[w].at \notin {"idle", "release"} /\ ~healthy
  /\ Returns(w) /\ published' = published
  /\ Leaves(w) \/ Rests(w)

AckEffect(w) ==
  /\ worker[w].at = "ack"
  /\ Drops(w) /\ published' = published
  /\ Leaves(w)

ReleaseEffect(w) ==
  /\ worker[w].at = "release"
  /\ Still /\ published' = published
  /\ Rests(w)

TakeEffect(w, m) ==
  /\ worker[w].at = "idle"
  /\ Takes(w, m) /\ published' = published
  /\ Moves(w)
  /\ worker'[w].at = "begin" /\ worker'[w].job = m.job
  /\ worker'[w].attempt = m.attempt /\ worker'[w].failure = "none"

\* Results and dead letters stay, and a job is reported as completed by a
\* worker that is to do so.
Records(w) ==
  /\ status' \in [Job -> State]
  /\ result' \in [Job -> Snapshot \cup {None}]
  /\ \A j \in Job : result[j] # None => result'[j] = result[j]
  /\ dead' \in SUBSET Job /\ dead \subseteq dead'
  /\ cached' \in BOOLEAN
  /\ \A j \in Job : status'[j] = "completed" =>
       \/ status[j] = "completed"
       \/ worker[w].at = "complete" /\ worker[w].job = j

Effect(w) ==
  \/ GoesEffect(w) \/ RetryEffect(w) \/ ReturnEffect(w) \/ AckEffect(w)
  \/ ReleaseEffect(w) \/ \E m \in Message : TakeEffect(w, m)

WorkerStep(w) ==
  /\ Effect(w) /\ Records(w)
  /\ request' = request
  /\ lock' = lock \/ (worker[w].at = "release" /\ lock' = None)
  /\ conditions' = conditions

LEMMA PutRecords ==
  ASSUME TypeOK, NEW j \in Job, NEW s \in State,
         Put(j, s) \/ UNCHANGED status
  PROVE  /\ status' \in [Job -> State]
         /\ \A i \in Job : status'[i] = status[i] \/ (i = j /\ status'[i] = s)
BY DEF Put, TypeOK

LEMMA SameRecords ==
  ASSUME TypeOK, NEW w, UNCHANGED <<status, result, dead, cached>>
  PROVE  Records(w)
BY DEF Records, TypeOK

LEMMA PutOnly ==
  ASSUME TypeInv, NEW w \in Worker, worker[w].at # "idle", NEW s \in State,
         Put(worker[w].job, s) \/ UNCHANGED status,
         s = "completed" => worker[w].at = "complete",
         UNCHANGED <<result, dead, cached>>
  PROVE  Records(w)
<1>1. worker[w].job \in Job
  BY DEF TypeInv, Handled
<1>. QED BY <1>1, PutRecords DEF Records, TypeInv, TypeOK

\* A worker that goes on.
LEMMA GoesOnEffect ==
  ASSUME NEW w \in Worker, worker[w].at \notin {"idle", "release"},
         UNCHANGED <<ready, published>>,
         NEW place \in Places \ {"idle", "release", "retried"},
         GoesOn(w, place),
         place = "persist" => worker'[w].scan \in Snapshot,
         place = "complete" => result'[worker[w].job] # None,
         place = "ack" => \/ worker[w].at \in {"complete", "retried"}
                          \/ worker[w].job \in dead',
         place = "retry" => ~healthy,
         worker'[w].failure = "transient" =>
           worker[w].failure = "transient" \/ ~healthy
  PROVE  Effect(w)
<1>1. Still
  BY GoesOnSame DEF Still
<1>2. GoesEffect(w)
  BY <1>1 DEF GoesEffect
<1>. QED BY <1>2 DEF Effect

\* A delivery given back.
LEMMA RequeueEffect ==
  ASSUME TypeInv, NEW w \in Worker, worker[w].at \notin {"idle", "release"},
         Requeue(w), ~healthy, published' = published
  PROVE  Effect(w)
<1>1. Leaves(w)
  BY SettleLeaves DEF Requeue, TypeInv
<1>2. Returns(w)
  BY <1>1, LeavesSame DEF Requeue, Returns
<1>3. ReturnEffect(w)
  BY <1>1, <1>2 DEF ReturnEffect
<1>. QED BY <1>3 DEF Effect

LEMMA BeginStep ==
  ASSUME TypeInv, NEW w \in Worker, Begin(w) PROVE WorkerStep(w)
<1>1. worker[w].at = "begin" /\ TypeOK
  BY DEF Begin, On, TypeInv
<1>2. Records(w)
  BY <1>1, PutOnly DEF Begin, PutFails, State, admission
<1>3. CASE Step(w, "collect")
  <2>1. GoesOn(w, "collect") /\ worker'[w].failure = worker[w].failure
    BY <1>1, <1>3, StepGoesOn DEF Places
  <2>2. Effect(w)
    BY <1>1, <2>1, GoesOnEffect DEF Begin, Places
  <2>. QED BY <1>2, <2>2 DEF WorkerStep, Begin, admission, conditions
<1>4. CASE Fails(w, "transient", "retry") /\ ~healthy
  <2>1. GoesOn(w, "retry")
    BY <1>1, <1>4, FailsGoesOn DEF Places
  <2>2. Effect(w)
    BY <1>1, <1>4, <2>1, GoesOnEffect DEF Begin, Places
  <2>. QED BY <1>2, <2>2 DEF WorkerStep, Begin, admission, conditions
<1>. QED BY <1>3, <1>4 DEF Begin, PutFails

LEMMA CollectStep ==
  ASSUME TypeInv, NEW w \in Worker, Collect(w) PROVE WorkerStep(w)
<1>1. worker[w].at = "collect" /\ TypeOK
  BY DEF Collect, On, TypeInv
<1>2. Records(w)
  BY <1>1, SameRecords DEF Collect, admission
<1>3. ASSUME NEW s \in Snapshot,
             worker' = [worker EXCEPT ![w].at = "persist", ![w].scan = s]
      PROVE  Effect(w)
  <2>1. GoesOn(w, "persist") /\ worker'[w].scan = s
          /\ worker'[w].failure = worker[w].failure
    BY <1>1, <1>3, CollectGoesOn
  <2>. QED BY <1>1, <2>1, GoesOnEffect DEF Collect, Places
<1>4. ASSUME Fails(w, "permanent", "report") PROVE Effect(w)
  <2>1. GoesOn(w, "report") /\ worker'[w].failure = "permanent"
    BY <1>1, <1>4, FailsGoesOn DEF Places
  <2>. QED BY <1>1, <2>1, GoesOnEffect DEF Collect, Places
<1>5. ASSUME Fails(w, "transient", "retry"), ~healthy PROVE Effect(w)
  <2>1. GoesOn(w, "retry")
    BY <1>1, <1>5, FailsGoesOn DEF Places
  <2>. QED BY <1>1, <1>5, <2>1, GoesOnEffect DEF Collect, Places
<1>6. Effect(w)
  BY <1>3, <1>4, <1>5 DEF Collect
<1>. QED BY <1>2, <1>6 DEF WorkerStep, Collect, admission, conditions

LEMMA CompleteStep ==
  ASSUME TypeInv, NEW w \in Worker, Complete(w) PROVE WorkerStep(w)
<1>1. worker[w].at = "complete" /\ TypeOK
  BY DEF Complete, On, TypeInv
<1>2. Records(w)
  BY <1>1, PutOnly DEF Complete, PutFails, State, admission
<1>3. ASSUME Step(w, "ack") PROVE Effect(w)
  <2>1. GoesOn(w, "ack") /\ worker'[w].failure = worker[w].failure
    BY <1>1, <1>3, StepGoesOn DEF Places
  <2>. QED BY <1>1, <2>1, GoesOnEffect DEF Complete, Places
<1>4. ASSUME Fails(w, "transient", "retry"), ~healthy PROVE Effect(w)
  <2>1. GoesOn(w, "retry")
    BY <1>1, <1>4, FailsGoesOn DEF Places
  <2>. QED BY <1>1, <1>4, <2>1, GoesOnEffect DEF Complete, Places
<1>5. Effect(w)
  BY <1>3, <1>4 DEF Complete, PutFails
<1>. QED BY <1>2, <1>5 DEF WorkerStep, Complete, admission, conditions

LEMMA PersistStep ==
  ASSUME TypeInv, NEW w \in Worker, Persist(w) PROVE WorkerStep(w)
<1>1. worker[w].at = "persist" /\ TypeOK /\ worker[w].scan \in Snapshot
  BY DEF Persist, On, TypeInv, Handled
<1> DEFINE j == worker[w].job
<1>2. j \in Job
  BY <1>1 DEF TypeInv, Handled
<1>3. /\ Persisted(w) \in [Job -> Snapshot \cup {None}]
      /\ \A i \in Job : result[i] # None => Persisted(w)[i] = result[i]
      /\ Persisted(w)[j] # None
  BY <1>1, <1>2, NoneApart DEF Persisted, TypeOK
<1>4. /\ result' = result \/ result' = Persisted(w)
      /\ cached' \in BOOLEAN /\ UNCHANGED <<status, dead>>
  BY DEF Persist, TypeInv, TypeOK
<1>5. Records(w)
  BY <1>1, <1>3, <1>4 DEF Records, TypeOK
<1>6. ASSUME Step(w, "complete"), result' = Persisted(w) PROVE Effect(w)
  <2>1. GoesOn(w, "complete") /\ worker'[w].failure = worker[w].failure
    BY <1>1, <1>6, StepGoesOn DEF Places
  <2>2. result'[worker[w].job] # None
    BY <1>3, <1>6
  <2>. QED BY <1>1, <2>1, <2>2, GoesOnEffect DEF Persist, Places
<1>7. ASSUME Fails(w, "conflict", "report") PROVE Effect(w)
  <2>1. GoesOn(w, "report") /\ worker'[w].failure = "conflict"
    BY <1>1, <1>7, FailsGoesOn DEF Places
  <2>. QED BY <1>1, <2>1, GoesOnEffect DEF Persist, Places
<1>8. ASSUME Fails(w, "transient", "retry"), ~healthy PROVE Effect(w)
  <2>1. GoesOn(w, "retry")
    BY <1>1, <1>8, FailsGoesOn DEF Places
  <2>. QED BY <1>1, <1>8, <2>1, GoesOnEffect DEF Persist, Places
<1>9. Effect(w)
  BY <1>6, <1>7, <1>8 DEF Persist
<1>. QED BY <1>5, <1>9 DEF WorkerStep, Persist, conditions

LEMMA AckStep ==
  ASSUME TypeInv, NEW w \in Worker, Ack(w) PROVE WorkerStep(w)
<1>1. worker[w].at = "ack" /\ TypeOK
  BY DEF Ack, On, TypeInv
<1>2. Leaves(w)
  BY <1>1, SettleLeaves DEF Ack
<1>3. Drops(w)
  BY <1>1, <1>2, LeavesSame DEF Ack, Drops
<1>4. Effect(w)
  BY <1>1, <1>2, <1>3 DEF Ack, Effect, AckEffect
<1>. QED BY <1>1, <1>4, SameRecords DEF WorkerStep, Ack, admission, conditions

LEMMA ReleaseStep ==
  ASSUME TypeInv, NEW w \in Worker, ReleaseFlight(w) PROVE WorkerStep(w)
<1>1. worker[w].at = "release" /\ TypeOK
  BY DEF ReleaseFlight, On, TypeInv
<1>2. Rests(w)
  BY <1>1, IdleRests DEF ReleaseFlight
<1>3. Still
  BY <1>1, <1>2, ReleasedSame DEF Still, ReleaseFlight
<1>4. Effect(w)
  BY <1>1, <1>2, <1>3 DEF ReleaseFlight, Effect, ReleaseEffect
<1>. QED BY <1>1, <1>4, SameRecords DEF WorkerStep, ReleaseFlight, conditions

LEMMA RetryStep ==
  ASSUME TypeInv, NEW w \in Worker, Retry(w) PROVE WorkerStep(w)
<1>1. worker[w].at = "retry" /\ TypeOK
  BY DEF Retry, On, TypeInv
<1>2. Records(w)
  BY <1>1, SameRecords DEF Retry, admission
<1>3. ASSUME Step(w, "report"), UNCHANGED <<ready, published>> PROVE Effect(w)
  <2>1. GoesOn(w, "report") /\ worker'[w].failure = worker[w].failure
    BY <1>1, <1>3, StepGoesOn DEF Places
  <2>. QED BY <1>1, <1>3, <2>1, GoesOnEffect DEF Places
<1>4. ASSUME Publish(NextAttempt(Held(w))), Step(w, "retried"),
             worker[w].attempt + 1 < MaxAttempts
      PROVE  Effect(w)
  <2>1. GoesOn(w, "retried") /\ worker'[w].failure = worker[w].failure
    BY <1>1, <1>4, StepGoesOn DEF Places
  <2>2. \A v \in Worker : Same(v)
    BY <1>1, <2>1, GoesOnSame DEF Places
  <2>3. w \in Holding
    BY <1>1 DEF Holding
  <2>4. /\ NextAttempt(Held(w)) \in Message
        /\ NextAttempt(Held(w)).job = worker[w].job
    BY <1>4, <2>3, NextMessage
  <2>5. /\ Adds(NextAttempt(Held(w)))
        /\ published' = published \cup {worker[w].job}
    BY <1>4, <2>2, <2>4 DEF Adds, Publish
  <2>. QED BY <1>1, <1>4, <2>1, <2>5 DEF Effect, RetryEffect
<1>5. ASSUME Requeue(w), ~healthy, UNCHANGED published PROVE Effect(w)
  BY <1>1, <1>5, RequeueEffect
<1>6. Effect(w)
  BY <1>3, <1>4, <1>5 DEF Retry
<1>. QED BY <1>2, <1>6 DEF WorkerStep, Retry, admission, conditions

LEMMA RecordRetryStep ==
  ASSUME TypeInv, NEW w \in Worker, RecordRetry(w) PROVE WorkerStep(w)
<1>1. worker[w].at = "retried" /\ TypeOK
  BY DEF RecordRetry, On, TypeInv
<1>2. Records(w)
  BY <1>1, PutOnly DEF RecordRetry, PutFails, State, admission
<1>3. GoesOn(w, "ack") /\ worker'[w].failure = worker[w].failure
  BY <1>1, StepGoesOn DEF RecordRetry, Places
<1>4. Effect(w)
  BY <1>1, <1>3, GoesOnEffect DEF RecordRetry, Places
<1>. QED BY <1>2, <1>4 DEF WorkerStep, RecordRetry, admission, conditions

LEMMA ReportStep ==
  ASSUME TypeInv, NEW w \in Worker, Report(w) PROVE WorkerStep(w)
<1>1. worker[w].at = "report" /\ TypeOK
  BY DEF Report, On, TypeInv
<1>2. Records(w)
  BY <1>1, PutOnly DEF Report, PutFails, State, admission
<1>3. ASSUME Step(w, "bury"), UNCHANGED ready PROVE Effect(w)
  <2>1. GoesOn(w, "bury") /\ worker'[w].failure = worker[w].failure
    BY <1>1, <1>3, StepGoesOn DEF Places
  <2>. QED BY <1>1, <1>3, <2>1, GoesOnEffect DEF Report, Places
<1>4. ASSUME Requeue(w), ~healthy PROVE Effect(w)
  BY <1>1, <1>4, RequeueEffect DEF Report
<1>5. Effect(w)
  BY <1>3, <1>4 DEF Report, PutFails
<1>. QED BY <1>2, <1>5 DEF WorkerStep, Report, admission, conditions

LEMMA BuryStep ==
  ASSUME TypeInv, NEW w \in Worker, Bury(w) PROVE WorkerStep(w)
<1>1. worker[w].at = "bury" /\ TypeOK /\ worker[w].job \in Job
  BY DEF Bury, On, TypeInv, Handled
<1>2. Records(w)
  BY <1>1 DEF Bury, Records, TypeOK, admission
<1>3. ASSUME Step(w, "ack"), dead' = dead \cup {worker[w].job}, UNCHANGED ready
      PROVE  Effect(w)
  <2>1. GoesOn(w, "ack") /\ worker'[w].failure = worker[w].failure
    BY <1>1, <1>3, StepGoesOn DEF Places
  <2>. QED BY <1>1, <1>3, <2>1, GoesOnEffect DEF Bury, Places
<1>4. ASSUME Requeue(w), ~healthy PROVE Effect(w)
  BY <1>1, <1>4, RequeueEffect DEF Bury
<1>5. Effect(w)
  BY <1>3, <1>4 DEF Bury
<1>. QED BY <1>2, <1>5 DEF WorkerStep, Bury, admission, conditions

LEMMA CrashStep ==
  ASSUME TypeInv, NEW w \in Worker, Crash(w) PROVE WorkerStep(w)
<1>1. worker[w].at # "idle" /\ TypeOK /\ ~healthy
  BY DEF Crash, On, TypeInv
<1>2. Rests(w)
  BY <1>1, IdleRests DEF Crash
<1>3. CASE worker[w].at = "release"
  <2>1. w \notin Holding
    BY <1>3 DEF Holding
  <2>2. Still
    BY <1>2, <1>3, <2>1, ReleasedSame DEF Still, Crash
  <2>. QED BY <1>1, <1>2, <1>3, <2>2, SameRecords
           DEF Crash, Effect, ReleaseEffect, WorkerStep, admission, conditions
<1>4. CASE worker[w].at # "release"
  <2>1. Leaves(w)
    BY <1>2 DEF Rests, Leaves
  <2>2. /\ w \in Holding /\ w \notin Holding'
        /\ \A v \in Worker : v # w => Same(v)
    BY <1>1, <1>4, <2>1, LeavesSame
  <2>3. Returns(w)
    BY <2>2 DEF Returns, Crash
  <2>4. Effect(w)
    BY <1>1, <1>2, <1>4, <2>3 DEF Crash, Effect, ReturnEffect
  <2>. QED BY <1>1, <2>4, SameRecords
           DEF Crash, WorkerStep, admission, conditions
<1>. QED BY <1>3, <1>4

LEMMA DeliverStep ==
  ASSUME TypeInv, NEW w \in Worker, NEW m \in Message, Deliver(w, m)
  PROVE  WorkerStep(w)
<1>1. worker[w].at = "idle" /\ TypeOK
  BY DEF Deliver, On, TypeInv
<1>2. /\ Moves(w) /\ worker'[w].at = "begin"
      /\ worker'[w].job = m.job /\ worker'[w].attempt = m.attempt
      /\ worker'[w].failure = "none"
  BY <1>1, DeliverTakes
<1>3. /\ w \notin Holding /\ w \in Holding'
      /\ \A v \in Worker : v # w => Same(v)
  BY <1>1, <1>2 DEF Moves, Same, Holding, Held
<1>4. Held(w)' = m
  BY <1>2 DEF Held, Message
<1>5. Takes(w, m)
  BY <1>3, <1>4 DEF Takes, Deliver
<1>6. Effect(w)
  BY <1>1, <1>2, <1>5 DEF Deliver, Effect, TakeEffect
<1>. QED BY <1>1, <1>6, SameRecords
         DEF Deliver, WorkerStep, admission, conditions

LEMMA WorkerSteps ==
  ASSUME TypeInv, NEW w \in Worker,
         Work(w) \/ Crash(w) \/ \E m \in Message : Deliver(w, m)
  PROVE  WorkerStep(w)
BY BeginStep, CollectStep, PersistStep, CompleteStep, AckStep, ReleaseStep,
   RetryStep, RecordRetryStep, ReportStep, BuryStep, CrashStep, DeliverStep
DEF Work
-----------------------------------------------------------------------------
(* What an admission does.                                                 *)

Tries == {"start", "await", "reacquire"}
Before == Tries \cup {"status", "queue", "publish"}
After == {"withdraw", "done"}

\* Only r moves.
Walks(r, place) ==
  /\ request' \in [Request -> RequestState]
  /\ \A q \in Request : q # r => request'[q] = request[q]
  /\ request'[r].at = place

LEMMA GoWalks ==
  ASSUME TypeOK, NEW r \in Request, NEW place \in Before \cup After,
         Go(r, place)
  PROVE  Walks(r, place) /\ request'[r].locked = request[r].locked
<1>1. request[r] \in RequestState
  BY DEF TypeOK
<1> DEFINE row == [request[r] EXCEPT !.at = place]
<1>2. row \in RequestState
  BY <1>1 DEF RequestState, Before, After, Tries
<1>3. row.at = place /\ row.locked = request[r].locked
  BY <1>1 DEF RequestState
<1>4. request' = [request EXCEPT ![r] = row]
  BY DEF Go, TypeOK
<1> HIDE DEF row
<1>. QED BY <1>2, <1>3, <1>4 DEF Walks, TypeOK

\* It gets the lock.
Locking(r) ==
  /\ request[r].at \in Tries /\ (request[r].at = "start" => r \notin Keyed)
  /\ lock = None /\ lock' = r
  /\ Walks(r, "status") /\ request'[r].locked
  /\ Still /\ published' = published

LEMMA AcquireLocks ==
  ASSUME TypeOK, NEW r \in Request, Acquire(r)
  PROVE  /\ Walks(r, "status") /\ request'[r].locked
         /\ lock = None /\ lock' = r
<1> DEFINE row == [at |-> "status", locked |-> TRUE]
<1>1. row \in RequestState /\ row.at = "status" /\ row.locked
  BY DEF RequestState
<1>2. request' = [request EXCEPT ![r] = row] /\ lock = None /\ lock' = r
  BY DEF Acquire
<1> HIDE DEF row
<1>. QED BY <1>1, <1>2 DEF Walks, TypeOK

\* It goes on and publishes nothing; while calls succeed, only one that holds
\* the lock and ends gives it up.
Walking(r) ==
  /\ \E place \in Before \cup After :
       /\ Walks(r, place)
       /\ place \in Before => request[r].at \in Before
       /\ place \in Tries => request[r].at \in Tries
       /\ place \in {"await", "reacquire"} =>
            (request[r].at = "start" => r \notin Keyed)
       /\ healthy => \/ lock' = lock
                     \/ /\ place = "done" /\ request[r].locked /\ lock' = None
                        /\ request[r].at \in Before
  /\ request'[r].locked = request[r].locked
  /\ lock' \in Request \cup {None}
  /\ Still /\ published' = published

Publishing(r) ==
  /\ request[r].at = "publish"
  /\ \E place \in After : Walks(r, place)
  /\ request'[r].locked = request[r].locked
  /\ Adds([job |-> JobOf[r], attempt |-> 0])
  /\ published' = published \cup {JobOf[r]}
  /\ lock' \in Request \cup {None} /\ (healthy => lock' = lock)

\* A job is never reported as completed here.
Notes ==
  /\ status' \in [Job -> State]
  /\ \A j \in Job : status'[j] = "completed" => status[j] = "completed"

RequestStep(r) ==
  /\ Locking(r) \/ Walking(r) \/ Publishing(r)
  /\ Notes
  /\ cached' = cached /\ dead' = dead /\ result' = result
  /\ worker' = worker /\ conditions' = conditions

LEMMA NobodyPublishes ==
  ASSUME UNCHANGED <<ready, worker>>
  PROVE  Still
BY NobodyMoves DEF Still

LEMMA SameNotes ==
  ASSUME TypeOK, UNCHANGED status PROVE Notes
BY DEF Notes, TypeOK

LEMMA PutNotes ==
  ASSUME TypeOK, NEW r \in Request, NEW s \in State \ {"completed"},
         Put(JobOf[r], s) \/ UNCHANGED status
  PROVE  Notes
<1>1. JobOf[r] \in Job
  BY FirstMessage
<1>. QED BY <1>1, PutRecords DEF Notes

LEMMA WalksOn ==
  ASSUME TypeOK, NEW r \in Request, NEW place \in Before \cup After,
         Go(r, place),
         place \in Before => request[r].at \in Before,
         place \in Tries => request[r].at \in Tries,
         place \in {"await", "reacquire"} =>
           (request[r].at = "start" => r \notin Keyed),
         \/ lock' = lock
         \/ ~healthy /\ lock' \in Request \cup {None}
         \/ /\ place = "done" /\ request[r].locked /\ lock' = None
            /\ request[r].at \in Before,
         UNCHANGED <<ready, published, worker>>
  PROVE  Walking(r)
<1>1. Walks(r, place) /\ request'[r].locked = request[r].locked
  BY GoWalks
<1>2. lock' \in Request \cup {None}
  BY DEF TypeOK
<1>. QED BY <1>1, <1>2, NobodyPublishes DEF Walking

LEMMA ArriveStep ==
  ASSUME TypeOK, NEW r \in Request, Arrive(r) PROVE RequestStep(r)
<1>1. request[r].at = "start" /\ UNCHANGED <<ready, published, worker>>
  BY DEF Arrive, At
<1>2. ASSUME r \notin Keyed, Acquire(r) PROVE Locking(r)
  BY <1>1, <1>2, AcquireLocks, NobodyPublishes DEF Locking, Tries
<1>3. ASSUME Go(r, "done"), UNCHANGED lock PROVE Walking(r)
  BY <1>1, <1>3, WalksOn DEF Before, After, Tries
<1>4. ASSUME r \notin Keyed, Go(r, "await"), UNCHANGED lock PROVE Walking(r)
  BY <1>1, <1>4, WalksOn DEF Before, After, Tries
<1>5. ASSUME AcquireFails(r) PROVE Walking(r)
  <2>1. ~healthy /\ lock' \in Request \cup {None} /\ Go(r, "status")
    BY <1>5 DEF AcquireFails, TypeOK
  <2>. QED BY <1>1, <2>1, WalksOn DEF Before, After, Tries
<1>6. ASSUME Go(r, "status"), UNCHANGED lock PROVE Walking(r)
  BY <1>1, <1>6, WalksOn DEF Before, After, Tries
<1>7. Locking(r) \/ Walking(r)
  BY <1>2, <1>3, <1>4, <1>5, <1>6 DEF Arrive
<1>. QED BY <1>7, SameNotes DEF RequestStep, Arrive, conditions

LEMMA AwaitFlightStep ==
  ASSUME TypeOK, NEW r \in Request, AwaitFlight(r) PROVE RequestStep(r)
<1>1. /\ request[r].at = "await"
      /\ UNCHANGED <<lock, ready, published, worker>>
  BY DEF AwaitFlight, At
<1>2. ASSUME NEW place \in {"done", "reacquire"}, Go(r, place)
      PROVE  Walking(r)
  BY <1>1, <1>2, WalksOn DEF Before, After, Tries
<1>3. Walking(r)
  BY <1>2 DEF AwaitFlight
<1>. QED BY <1>3, SameNotes DEF RequestStep, AwaitFlight, conditions

LEMMA ReacquireStep ==
  ASSUME TypeOK, NEW r \in Request, Reacquire(r) PROVE RequestStep(r)
<1>1. request[r].at = "reacquire" /\ UNCHANGED <<ready, published, worker>>
  BY DEF Reacquire, At
<1>2. ASSUME Acquire(r) PROVE Locking(r)
  BY <1>1, <1>2, AcquireLocks, NobodyPublishes DEF Locking, Tries
<1>3. ASSUME AcquireFails(r) PROVE Walking(r)
  <2>1. ~healthy /\ lock' \in Request \cup {None} /\ Go(r, "status")
    BY <1>3 DEF AcquireFails, TypeOK
  <2>. QED BY <1>1, <2>1, WalksOn DEF Before, After, Tries
<1>4. ASSUME Go(r, "status"), UNCHANGED lock PROVE Walking(r)
  BY <1>1, <1>4, WalksOn DEF Before, After, Tries
<1>5. Locking(r) \/ Walking(r)
  BY <1>2, <1>3, <1>4 DEF Reacquire
<1>. QED BY <1>5, SameNotes DEF RequestStep, Reacquire, conditions

LEMMA ReadStatusStep ==
  ASSUME TypeOK, NEW r \in Request, ReadStatus(r) PROVE RequestStep(r)
<1>1. request[r].at = "status" /\ UNCHANGED <<ready, published, worker>>
  BY DEF ReadStatus, At
<1>2. ASSUME NEW place \in {"done", "queue"}, Go(r, place), UNCHANGED lock
      PROVE  Walking(r)
  BY <1>1, <1>2, WalksOn DEF Before, After, Tries
<1>3. ASSUME Go(r, "done"), request[r].locked, lock' = None
      PROVE  Walking(r)
  BY <1>1, <1>3, WalksOn DEF Before, After, Tries
<1>4. Walking(r)
  BY <1>2, <1>3 DEF ReadStatus
<1>. QED BY <1>4, SameNotes DEF RequestStep, ReadStatus, conditions

LEMMA RecordQueuedStep ==
  ASSUME TypeOK, NEW r \in Request, RecordQueued(r) PROVE RequestStep(r)
<1>1. request[r].at = "queue" /\ UNCHANGED <<ready, published, worker>>
  BY DEF RecordQueued, At
<1>2. ASSUME NEW place \in {"done", "publish"}, Go(r, place), UNCHANGED lock
      PROVE  Walking(r)
  BY <1>1, <1>2, WalksOn DEF Before, After, Tries
<1>3. ASSUME Go(r, "done"), request[r].locked, lock' = None
      PROVE  Walking(r)
  BY <1>1, <1>3, WalksOn DEF Before, After, Tries
<1>4. Walking(r)
  BY <1>2, <1>3 DEF RecordQueued
<1>5. Notes
  BY PutNotes DEF RecordQueued, PutFails, State
<1>. QED BY <1>4, <1>5 DEF RequestStep, RecordQueued, conditions

LEMMA PublishScanStep ==
  ASSUME TypeOK, NEW r \in Request, PublishScan(r) PROVE RequestStep(r)
<1> DEFINE m == [job |-> JobOf[r], attempt |-> 0]
<1>1. request[r].at = "publish" /\ UNCHANGED worker
  BY DEF PublishScan, At
<1>2. lock' \in Request \cup {None} /\ m \in Message /\ m.job = JobOf[r]
  BY FirstMessage DEF PublishScan, TypeOK
<1>3. \/ Publish(m) /\ Go(r, "done") /\ UNCHANGED lock
      \/ Publish(m) /\ Go(r, "withdraw") /\ ~healthy
      \/ UNCHANGED <<ready, published>> /\ Go(r, "withdraw") /\ ~healthy
  BY DEF PublishScan, PublishFails
<1>4. ASSUME Publish(m), NEW place \in After, Go(r, place),
             UNCHANGED lock \/ ~healthy
      PROVE  Publishing(r)
  <2>1. Adds(m) /\ published' = published \cup {JobOf[r]}
    BY <1>1, <1>2, <1>4, NobodyMoves, PublishAdds
  <2>2. Walks(r, place) /\ request'[r].locked = request[r].locked
    BY <1>4, GoWalks
  <2>. QED BY <1>1, <1>2, <1>4, <2>1, <2>2 DEF Publishing
<1>5. ASSUME UNCHANGED <<ready, published>>, Go(r, "withdraw"), ~healthy
      PROVE  Walking(r)
  BY <1>1, <1>2, <1>5, WalksOn DEF Before, After, Tries
<1>6. Walking(r) \/ Publishing(r)
  BY <1>3, <1>4, <1>5 DEF After
<1>. QED BY <1>6, SameNotes DEF RequestStep, PublishScan, conditions

LEMMA WithdrawStep ==
  ASSUME TypeOK, NEW r \in Request, Withdraw(r) PROVE RequestStep(r)
<1>1. /\ request[r].at = "withdraw" /\ Go(r, "done")
      /\ UNCHANGED <<lock, ready, published, worker>>
  BY DEF Withdraw, At
<1>2. Walking(r)
  BY <1>1, WalksOn DEF Before, After, Tries
<1>3. Notes
  BY PutNotes DEF Withdraw, PutFails, State
<1>. QED BY <1>2, <1>3 DEF RequestStep, Withdraw, conditions

LEMMA RequestSteps ==
  ASSUME TypeOK, NEW r \in Request, Admit(r) PROVE RequestStep(r)
BY ArriveStep, AwaitFlightStep, ReacquireStep, ReadStatusStep,
   RecordQueuedStep, PublishScanStep, WithdrawStep
DEF Admit
-----------------------------------------------------------------------------
(* The conditions: a lock expires, or calls begin or cease to fail.        *)

OtherStep ==
  /\ UNCHANGED <<request, status, cached, ready, published, dead, result,
                 worker>>
  /\ lock' \in Request \cup {None}
  /\ healthy' \in BOOLEAN /\ quiet' = FALSE

LEMMA OtherSteps ==
  ASSUME TypeOK, ExpireLock \/ Weather PROVE OtherStep
BY DEF OtherStep, ExpireLock, Weather, TypeOK

\* Every step is one of these.
LEMMA StepKinds ==
  ASSUME TypeInv, Next
  PROVE  \/ \E r \in Request : RequestStep(r)
         \/ \E w \in Worker : WorkerStep(w)
         \/ OtherStep
<1>1. TypeOK
  BY DEF TypeInv
<1>2. ASSUME NEW r \in Request, Admit(r) PROVE RequestStep(r)
  BY <1>1, <1>2, RequestSteps
<1>3. ASSUME NEW w \in Worker,
             Work(w) \/ Crash(w) \/ \E m \in Message : Deliver(w, m)
      PROVE  WorkerStep(w)
  BY <1>3, WorkerSteps
<1>4. ASSUME ExpireLock \/ Weather PROVE OtherStep
  BY <1>1, <1>4, OtherSteps
<1>. QED BY <1>2, <1>3, <1>4 DEF Next

-----------------------------------------------------------------------------
(* Types.                                                                  *)

LEMMA EffectTraffic ==
  ASSUME TypeInv, NEW w \in Worker, Effect(w)
  PROVE  Traffic /\ Moves(w) /\ Handled'
<1>1. CASE GoesEffect(w)
  BY <1>1, HandledGoesOn DEF GoesEffect, Traffic, GoesOn, TypeInv
<1>2. CASE RetryEffect(w)
  <2>1. GoesOn(w, "retried") /\ worker[w].at = "retry" /\ w \in Holding
    BY <1>2 DEF RetryEffect, Holding
  <2>2. NextAttempt(Held(w)) \in Message
    BY <1>2, <2>1, NextMessage DEF RetryEffect
  <2>3. Handled'
    BY <2>1, HandledGoesOn DEF TypeInv, Places
  <2>. QED BY <1>2, <2>1, <2>2, <2>3 DEF RetryEffect, Traffic, GoesOn
<1>3. CASE ReturnEffect(w)
  BY <1>3, HandledLeaves DEF ReturnEffect, Traffic, Leaves, Rests, TypeInv
<1>4. CASE AckEffect(w)
  BY <1>4, HandledLeaves DEF AckEffect, Traffic, Leaves, TypeInv
<1>5. CASE ReleaseEffect(w)
  BY <1>5, HandledLeaves DEF ReleaseEffect, Traffic, Rests, TypeInv
<1>6. ASSUME NEW m \in Message, TakeEffect(w, m)
      PROVE  Traffic /\ Moves(w) /\ Handled'
  <2>1. m.job \in Job /\ m.attempt < MaxAttempts
    BY ScanAssumption DEF Message, ScanAssumption
  <2>2. Handled'
    BY <1>6, <2>1 DEF TakeEffect, Moves, Handled, TypeInv
  <2>. QED BY <1>6, <2>2 DEF TakeEffect, Traffic
<1>. QED BY <1>1, <1>2, <1>3, <1>4, <1>5, <1>6 DEF Effect

LEMMA PublishedJobs ==
  ASSUME TypeInv, NEW w \in Worker, Effect(w)
  PROVE  published' = published
         \/ (worker[w].at = "retry"
             /\ published' = published \cup {worker[w].job})
BY DEF Effect, GoesEffect, RetryEffect, ReturnEffect, AckEffect,
       ReleaseEffect, TakeEffect

LEMMA WorkerTypes ==
  ASSUME TypeInv, NEW w \in Worker, WorkerStep(w) PROVE TypeInv'
<1>1. Traffic /\ Moves(w) /\ Handled'
  BY EffectTraffic DEF WorkerStep
<1>2. ready' \in [Message -> 0 .. MaxCopies] /\ Bounded'
  BY <1>1, TrafficFits
<1>3. published' \in SUBSET Job
  BY PublishedJobs DEF WorkerStep, TypeInv, TypeOK, Handled
<1>4. TypeOK'
  BY <1>1, <1>2, <1>3
  DEF WorkerStep, Records, Moves, TypeInv, TypeOK, conditions
<1>. QED BY <1>1, <1>2, <1>4 DEF TypeInv

LEMMA RequestTypes ==
  ASSUME TypeInv, NEW r \in Request, RequestStep(r) PROVE TypeInv'
<1>1. /\ JobOf[r] \in Job /\ [job |-> JobOf[r], attempt |-> 0] \in Message
  BY FirstMessage
<1>2. Traffic /\ published' \in SUBSET Job
      /\ request' \in [Request -> RequestState]
      /\ lock' \in Request \cup {None}
  <2>1. CASE Locking(r)
    BY <2>1 DEF Locking, Walks, Traffic, TypeInv, TypeOK
  <2>2. CASE Walking(r)
    BY <2>2 DEF Walking, Walks, Traffic, TypeInv, TypeOK
  <2>3. CASE Publishing(r)
    BY <1>1, <2>3 DEF Publishing, Walks, Traffic, TypeInv, TypeOK
  <2>. QED BY <2>1, <2>2, <2>3 DEF RequestStep
<1>3. ready' \in [Message -> 0 .. MaxCopies] /\ Bounded'
  BY <1>2, TrafficFits
<1>4. TypeOK' /\ Handled'
  BY <1>2, <1>3 DEF RequestStep, Notes, TypeInv, TypeOK, Handled, conditions
<1>. QED BY <1>3, <1>4 DEF TypeInv

LEMMA OtherTypes ==
  ASSUME TypeInv, OtherStep PROVE TypeInv'
<1>1. Traffic
  BY NobodyPublishes DEF OtherStep, Traffic
<1>2. Bounded'
  BY <1>1, TrafficFits
<1>3. TypeOK' /\ Handled'
  BY DEF OtherStep, TypeInv, TypeOK, Handled
<1>. QED BY <1>2, <1>3 DEF TypeInv

LEMMA TypeNext ==
  ASSUME TypeInv, Next PROVE TypeInv'
BY StepKinds, WorkerTypes, RequestTypes, OtherTypes

-----------------------------------------------------------------------------
(* Results.                                                                *)

\* A worker about to report a job completed has persisted its result.
Persists ==
  \A w \in Worker :
    worker[w].at = "complete" => result[worker[w].job] # None

ResultInv == CompletedHasResult /\ Persists

LEMMA OthersMove ==
  ASSUME NEW w \in Worker, Effect(w), TypeInv
  PROVE  \A v \in Worker : v # w => worker'[v] = worker[v]
BY EffectTraffic DEF Moves

LEMMA ResultNext ==
  ASSUME TypeInv, ResultInv, Next
  PROVE  ResultInv' /\ ResultIsFinal
<1>1. ASSUME NEW r \in Request, RequestStep(r)
      PROVE  ResultInv' /\ ResultIsFinal
  BY <1>1 DEF RequestStep, Notes, ResultInv, CompletedHasResult, Persists,
              ResultIsFinal
<1>2. ASSUME OtherStep PROVE ResultInv' /\ ResultIsFinal
  BY <1>2 DEF OtherStep, ResultInv, CompletedHasResult, Persists, ResultIsFinal
<1>3. ASSUME NEW w \in Worker, WorkerStep(w)
      PROVE  ResultInv' /\ ResultIsFinal
  <2>1. Effect(w) /\ Records(w)
    BY <1>3 DEF WorkerStep
  <2>2. ResultIsFinal
    BY <2>1 DEF Records, ResultIsFinal
  <2>3. CompletedHasResult'
    BY <2>1 DEF Records, ResultInv, CompletedHasResult, Persists
  <2>4. worker'[w].at = "complete" => result'[worker'[w].job] # None
    <3>1. CASE GoesEffect(w)
      BY <3>1 DEF GoesEffect, GoesOn
    <3>2. CASE RetryEffect(w)
      BY <3>2 DEF RetryEffect, GoesOn
    <3>3. CASE Leaves(w) \/ Rests(w)
      BY <3>3, LeavesRow
    <3>4. CASE \E m \in Message : TakeEffect(w, m)
      BY <3>4 DEF TakeEffect
    <3>. QED BY <2>1, <3>1, <3>2, <3>3, <3>4
         DEF Effect, ReturnEffect, AckEffect, ReleaseEffect
  <2>5. ASSUME NEW v \in Worker, v # w, worker'[v].at = "complete"
        PROVE  result'[worker'[v].job] # None
    <3>1. worker'[v] = worker[v]
      BY <2>1, <2>5, OthersMove
    <3>2. worker[v].job \in Job
      BY <2>5, <3>1 DEF TypeInv, Handled
    <3>. QED BY <2>1, <2>5, <3>1, <3>2 DEF Records, ResultInv, Persists
  <2>6. Persists'
    BY <2>4, <2>5 DEF Persists
  <2>. QED BY <2>2, <2>3, <2>6 DEF ResultInv
<1>. QED BY <1>1, <1>2, <1>3, StepKinds
-----------------------------------------------------------------------------
(* Accepted jobs.                                                          *)

HasOne(j) == \E m \in Message : m.job = j /\ Has(m)
Settled(j) == result[j] # None \/ j \in dead

\* A message, or work on one, is of a job the broker accepted.
Accepted ==
  /\ \A m \in Message : Has(m) => m.job \in published
  /\ \A w \in Worker : worker[w].at # "idle" => worker[w].job \in published

\* A later attempt of w's job is at the broker.
Carried(w) ==
  \E m \in Message :
    m.job = worker[w].job /\ m.attempt > worker[w].attempt /\ Has(m)

\* A worker about to acknowledge its message has settled the job or published
\* the next attempt.
HandedOn ==
  \A w \in Worker : worker[w].at \in {"retried", "ack"} =>
    Settled(worker[w].job) \/ Carried(w)

Kept == \A j \in published : HasOne(j) \/ Settled(j)

KeptInv == Accepted /\ HandedOn /\ Kept

LEMMA QueuedHasOne ==
  ASSUME TypeOK, NEW j \in Job
  PROVE  HasOne(j) <=> Queued(j)
BY HasCopies DEF HasOne, Queued

\* What a step leaves at the broker.
LEMMA AllKeep ==
  ASSUME TypeInv, NEW w \in Worker, Effect(w)
  PROVE  \/ \A m \in Message : Keeps(m)
         \/ RetryEffect(w)
         \/ AckEffect(w)
<1>1. CASE Still
  BY <1>1, StillKeeps
<1>2. CASE Returns(w)
  BY <1>2, ReturnsOne DEF TypeInv
<1>3. ASSUME NEW m \in Message, Takes(w, m)
      PROVE  \A n \in Message : Keeps(n)
  BY <1>3, TakesOne DEF TypeInv
<1>. QED BY <1>1, <1>2, <1>3
         DEF Effect, GoesEffect, ReturnEffect, ReleaseEffect, TakeEffect

LEMMA RetryAdds ==
  ASSUME TypeInv, NEW w \in Worker, RetryEffect(w)
  PROVE  \E a \in Message :
           /\ a.job = worker[w].job /\ a.attempt > worker[w].attempt
           /\ Has(a)' /\ \A m \in Message : m # a => Keeps(m)
<1>1. w \in Holding /\ worker[w].attempt \in Nat
  BY WorkerIsState DEF RetryEffect, Holding, TypeInv, WorkerState, Attempt
<1>2. PICK a \in Message : /\ a = NextAttempt(Held(w))
                           /\ a.job = worker[w].job
                           /\ a.attempt = worker[w].attempt + 1
  BY <1>1, NextMessage DEF RetryEffect
<1>3. Adds(a)
  BY <1>2 DEF RetryEffect
<1>4. Has(a)' /\ \A m \in Message : m # a => Keeps(m)
  BY <1>3, AddsOne DEF TypeInv
<1>. QED BY <1>1, <1>2, <1>4

\* A message is lost only by its acknowledgement.
LEMMA StaysUnlessAcked ==
  ASSUME TypeInv, NEW w \in Worker, Effect(w), NEW m \in Message, Has(m),
         AckEffect(w) => m # Held(w)
  PROVE  Has(m)'
<1>1. CASE \A n \in Message : Keeps(n)
  BY <1>1 DEF Keeps
<1>2. CASE RetryEffect(w)
  BY <1>2, RetryAdds DEF Keeps
<1>3. CASE AckEffect(w)
  BY <1>3, DropsOne DEF AckEffect, TypeInv, Keeps
<1>. QED BY <1>1, <1>2, <1>3, AllKeep

LEMMA SettledStays ==
  ASSUME NEW w \in Worker, Records(w), NEW j \in Job, Settled(j)
  PROVE  Settled(j)'
BY DEF Settled, Records

\* Whoever is carried by a message that is acknowledged is carried by the
\* next one, unless the job is settled.
LEMMA CarriedOn ==
  ASSUME TypeInv, HandedOn, NEW w \in Worker, Effect(w), Records(w),
         NEW j \in Job, NEW n \in Nat,
         NEW m \in Message, m.job = j, m.attempt > n, Has(m)
  PROVE  \/ Settled(j)'
         \/ \E k \in Message : k.job = j /\ k.attempt > n /\ Has(k)'
<1>1. CASE ~(AckEffect(w) /\ m = Held(w))
  BY <1>1, StaysUnlessAcked
<1>2. CASE AckEffect(w) /\ m = Held(w)
  <2>1. worker[w].job = j /\ worker[w].attempt = m.attempt
    BY <1>2 DEF Held
  <2>2. Settled(j) \/ Carried(w)
    BY <1>2, <2>1 DEF HandedOn, AckEffect
  <2>3. ASSUME Carried(w)
        PROVE  \E k \in Message : k.job = j /\ k.attempt > n /\ Has(k)'
    <3>1. PICK k \in Message : /\ k.job = j /\ k.attempt > m.attempt
                               /\ Has(k)
      BY <2>1, <2>3 DEF Carried
    <3>2. m.attempt \in Nat /\ k.attempt \in Nat
      BY ScanAssumption DEF Message, ScanAssumption
    <3>3. Has(k)'
      BY <1>2, <3>1, <3>2, StaysUnlessAcked
    <3>. QED BY <3>1, <3>2, <3>3
  <2>. QED BY <2>2, <2>3, SettledStays
<1>. QED BY <1>1, <1>2

LEMMA WorkerKeepsAccepted ==
  ASSUME TypeInv, Accepted, NEW w \in Worker, Effect(w)
  PROVE  Accepted'
<1>1. published \subseteq published'
  BY PublishedJobs
<1>2. ASSUME NEW m \in Message, Has(m)' PROVE m.job \in published'
  <2>1. CASE \A n \in Message : Keeps(n)
    BY <1>1, <1>2, <2>1 DEF Keeps, Accepted
  <2>2. CASE RetryEffect(w)
    BY <1>1, <1>2, <2>2, RetryAdds DEF RetryEffect, Keeps, Accepted
  <2>3. CASE AckEffect(w)
    BY <1>1, <1>2, <2>3, DropsOne DEF AckEffect, Accepted, TypeInv
  <2>. QED BY <2>1, <2>2, <2>3, AllKeep
<1>3. worker'[w].at # "idle" => worker'[w].job \in published'
  <2>1. CASE GoesEffect(w)
    BY <1>1, <2>1 DEF GoesEffect, GoesOn, Accepted
  <2>2. CASE RetryEffect(w)
    BY <2>2 DEF RetryEffect, GoesOn
  <2>3. CASE worker[w].at # "idle" /\ (Leaves(w) \/ Rests(w))
    BY <1>1, <2>3, LeavesRow DEF Accepted
  <2>4. ASSUME NEW m \in Message, TakeEffect(w, m)
        PROVE  worker'[w].job \in published'
    BY <1>1, <2>4 DEF TakeEffect, Takes, Has, Accepted
  <2>. QED BY <2>1, <2>2, <2>3, <2>4
       DEF Effect, ReturnEffect, AckEffect, ReleaseEffect
<1>4. \A v \in Worker : worker'[v].at # "idle" => worker'[v].job \in published'
  BY <1>1, <1>3, OthersMove DEF Accepted
<1>. QED BY <1>2, <1>4 DEF Accepted

LEMMA WorkerHandsOn ==
  ASSUME TypeInv, ResultInv, HandedOn, NEW w \in Worker, Effect(w), Records(w)
  PROVE  HandedOn'
<1> DEFINE Safely(v) ==
      \/ result'[worker'[v].job] # None \/ worker'[v].job \in dead'
      \/ \E m \in Message : /\ m.job = worker'[v].job
                            /\ m.attempt > worker'[v].attempt /\ Has(m)'
\* A worker that keeps its job and attempt stays on the safe side.
<1>1. ASSUME NEW v \in Worker, worker[v].at # "idle",
             worker'[v].job = worker[v].job,
             worker'[v].attempt = worker[v].attempt,
             Settled(worker[v].job) \/ Carried(v)
      PROVE  Safely(v)
  <2>1. PICK j \in Job : j = worker[v].job
    BY <1>1 DEF TypeInv, Handled
  <2>2. PICK n \in Nat : n = worker[v].attempt
    BY WorkerIsState DEF TypeInv, WorkerState, Attempt
  <2>3. CASE Settled(j)
    <3>1. Settled(j)'
      BY <2>3, SettledStays
    <3>. QED BY <1>1, <2>1, <3>1 DEF Settled
  <2>4. CASE Carried(v)
    <3>1. PICK m \in Message : m.job = j /\ m.attempt > n /\ Has(m)
      BY <2>1, <2>2, <2>4 DEF Carried
    <3>2. \/ Settled(j)'
          \/ \E k \in Message : k.job = j /\ k.attempt > n /\ Has(k)'
      BY <3>1, CarriedOn
    <3>. QED BY <1>1, <2>1, <2>2, <3>2 DEF Settled
  <2>. QED BY <1>1, <2>1, <2>3, <2>4
<1>2. ASSUME NEW v \in Worker, v # w, worker'[v].at \in {"retried", "ack"}
      PROVE  Safely(v)
  <2>1. worker'[v] = worker[v]
    BY <1>2, OthersMove
  <2>2. Settled(worker[v].job) \/ Carried(v)
    BY <1>2, <2>1 DEF HandedOn
  <2> HIDE DEF Safely
  <2>. QED BY <1>1, <1>2, <2>1, <2>2
<1>3. ASSUME worker'[w].at \in {"retried", "ack"} PROVE Safely(w)
  <2>1. CASE GoesEffect(w)
    <3>1. /\ worker'[w].at = "ack" /\ worker'[w].job = worker[w].job
          /\ worker'[w].attempt = worker[w].attempt
          /\ worker[w].at # "idle"
          /\ \/ worker[w].at \in {"complete", "retried"}
             \/ worker[w].job \in dead'
      BY <1>3, <2>1 DEF GoesEffect, GoesOn
    <3>2. CASE worker[w].job \in dead'
      BY <3>1, <3>2
    <3>3. CASE worker[w].at \in {"complete", "retried"}
      <4>1. Settled(worker[w].job) \/ Carried(w)
        BY <3>3 DEF ResultInv, Persists, HandedOn, Settled
      <4> HIDE DEF Safely
      <4>. QED BY <1>1, <3>1, <4>1
    <3>. QED BY <3>1, <3>2, <3>3
  <2>2. CASE RetryEffect(w)
    BY <2>2, RetryAdds DEF RetryEffect, GoesOn
  <2>3. CASE Leaves(w) \/ Rests(w)
    BY <1>3, <2>3, LeavesRow
  <2>4. CASE \E m \in Message : TakeEffect(w, m)
    BY <1>3, <2>4 DEF TakeEffect
  <2>. QED BY <2>1, <2>2, <2>3, <2>4
       DEF Effect, ReturnEffect, AckEffect, ReleaseEffect
<1>. QED BY <1>2, <1>3 DEF HandedOn, Settled, Carried

LEMMA WorkerKeeps ==
  ASSUME TypeInv, ResultInv, KeptInv, NEW w \in Worker, Effect(w), Records(w)
  PROVE  Kept'
<1> SUFFICES ASSUME NEW j \in published' PROVE (HasOne(j) \/ Settled(j))'
  BY DEF Kept
<1>1. j \in Job
  BY PublishedJobs DEF TypeInv, TypeOK, Handled
<1>2. CASE j \in published
  <2>1. CASE Settled(j)
    BY <1>1, <2>1, SettledStays
  <2>2. CASE HasOne(j)
    <3>1. PICK m \in Message : m.job = j /\ Has(m)
      BY <2>2 DEF HasOne
    <3>2. m.attempt > -1 /\ m.attempt \in Nat
      BY ScanAssumption DEF Message, ScanAssumption
    <3>3. CASE ~(AckEffect(w) /\ m = Held(w))
      BY <3>1, <3>3, StaysUnlessAcked DEF HasOne
    <3>4. CASE AckEffect(w) /\ m = Held(w)
      <4>1. worker[w].job = j /\ worker[w].attempt = m.attempt
        BY <3>1, <3>4 DEF Held
      <4>2. Settled(j) \/ Carried(w)
        BY <3>4, <4>1 DEF KeptInv, HandedOn, AckEffect
      <4>3. ASSUME Carried(w) PROVE (HasOne(j) \/ Settled(j))'
        <5>1. PICK k \in Message : /\ k.job = j /\ k.attempt > m.attempt
                                   /\ Has(k)
          BY <4>1, <4>3 DEF Carried
        <5>2. Has(k)'
          BY <3>2, <3>4, <5>1, StaysUnlessAcked
        <5>. QED BY <5>1, <5>2 DEF HasOne
      <4>. QED BY <1>1, <4>2, <4>3, SettledStays
    <3>. QED BY <3>3, <3>4
  <2>. QED BY <1>2, <2>1, <2>2 DEF KeptInv, Kept
<1>3. CASE j \notin published
  <2>1. worker[w].at = "retry" /\ j = worker[w].job
    BY <1>3, PublishedJobs
  <2>. QED BY <1>3, <2>1 DEF KeptInv, Accepted
<1>. QED BY <1>2, <1>3

LEMMA StillKeepsAll ==
  ASSUME TypeInv, KeptInv, Still, published' = published, worker' = worker,
         result' = result, dead' = dead
  PROVE  KeptInv'
<1>1. \A m \in Message : Has(m)' <=> Has(m)
  BY StillKeeps DEF Keeps
<1>2. Accepted'
  BY <1>1 DEF KeptInv, Accepted
<1>3. HandedOn'
  BY <1>1 DEF KeptInv, HandedOn, Settled, Carried
<1>4. Kept'
  BY <1>1 DEF KeptInv, Kept, HasOne, Settled
<1>. QED BY <1>2, <1>3, <1>4 DEF KeptInv

LEMMA PublishingKeeps ==
  ASSUME TypeInv, KeptInv, NEW r \in Request, RequestStep(r), Publishing(r)
  PROVE  KeptInv'
<1>1. PICK a \in Message : a = [job |-> JobOf[r], attempt |-> 0]
  BY FirstMessage
<1>2. Has(a)' /\ \A m \in Message : m # a => Keeps(m)
  BY <1>1, AddsOne DEF Publishing, TypeInv
<1>3. a.job = JobOf[r] /\ published' = published \cup {JobOf[r]}
  BY <1>1 DEF Publishing
<1>4. \A m \in Message : Has(m) => Has(m)'
  BY <1>2 DEF Keeps
<1>5. UNCHANGED <<worker, result, dead>>
  BY DEF RequestStep
<1>6. Accepted'
  BY <1>2, <1>3, <1>5 DEF KeptInv, Accepted, Keeps
<1>7. HandedOn'
  BY <1>4, <1>5 DEF KeptInv, HandedOn, Settled, Carried
<1>8. Kept'
  BY <1>2, <1>3, <1>4, <1>5 DEF KeptInv, Kept, HasOne, Settled
<1>. QED BY <1>6, <1>7, <1>8 DEF KeptInv

LEMMA KeptNext ==
  ASSUME TypeInv, ResultInv, KeptInv, Next
  PROVE  KeptInv'
<1>1. ASSUME NEW r \in Request, RequestStep(r) PROVE KeptInv'
  <2>1. CASE Publishing(r)
    BY <1>1, <2>1, PublishingKeeps
  <2>2. CASE Locking(r) \/ Walking(r)
    BY <1>1, <2>2, StillKeepsAll DEF RequestStep, Locking, Walking
  <2>. QED BY <1>1, <2>1, <2>2 DEF RequestStep
<1>2. ASSUME NEW w \in Worker, WorkerStep(w) PROVE KeptInv'
  BY <1>2, WorkerKeepsAccepted, WorkerHandsOn, WorkerKeeps
  DEF WorkerStep, KeptInv
<1>3. ASSUME OtherStep PROVE KeptInv'
  BY <1>3, NobodyPublishes, StillKeepsAll DEF OtherStep
<1>. QED BY <1>1, <1>2, <1>3, StepKinds
-----------------------------------------------------------------------------
(* The flight lock.                                                        *)

\* Only a request without a key tries the lock, and its job is its own: the
\* broker does not know it before the request has published it.
Locks ==
  /\ \A r \in Request :
       /\ request[r].at \in {"await", "reacquire"} => r \notin Keyed
       /\ request[r].locked => r \notin Keyed /\ request[r].at \notin Tries
       /\ r \notin Keyed /\ request[r].at \in Before =>
            JobOf[r] \notin published
  /\ \A w \in Worker :
       worker[w].at = "release" => FlightLock(worker[w].job)

InFlight(j) ==
  \/ \E m \in Message : m.job = j /\ ready[m] > 0
  \/ \E w \in Worker : worker[w].job = j

\* The lock belongs to the request whose job is under way.
Owner ==
  \A r \in Request : request[r].locked =>
    (request[r].at \in Before \/ InFlight(JobOf[r]) => lock = r)

\* A job that carries the lock has one copy, or one worker.
OneCopy ==
  \A m \in Message : ready[m] > 0 /\ FlightLock(m.job) =>
    /\ ready[m] = 1 /\ m.attempt = 0
    /\ \A w \in Worker : worker[w].job # m.job
OneWorker ==
  \A v, w \in Worker :
    FlightLock(worker[v].job) /\ worker[w].job = worker[v].job => v = w

Flight ==
  quiet =>
    /\ healthy
    /\ \A w \in Worker : worker[w].at # "retry"
    /\ Owner /\ OneCopy /\ OneWorker

LEMMA Alone ==
  ASSUME NEW r \in Request, r \notin Keyed, NEW q \in Request,
         JobOf[q] = JobOf[r]
  PROVE  q = r
BY ScanAssumption DEF ScanAssumption

\* The job of a request that has not published it is nowhere.
LEMMA Unheard ==
  ASSUME TypeInv, Accepted, NEW j \in Job, j \notin published
  PROVE  ~InFlight(j)
<1>1. ASSUME NEW m \in Message, m.job = j PROVE ~(ready[m] > 0)
  BY <1>1 DEF Accepted, Has
<1>2. ASSUME NEW w \in Worker PROVE worker[w].job # j
  BY <1>2, NoneApart DEF TypeInv, Handled, Accepted
<1>. QED BY <1>1, <1>2 DEF InFlight

LEMMA WorkerLocks ==
  ASSUME TypeInv, Accepted, Locks, NEW w \in Worker, WorkerStep(w)
  PROVE  Locks'
<1>1. Effect(w) /\ request' = request
  BY DEF WorkerStep
<1>2. published' = published
  BY <1>1, PublishedJobs DEF Accepted
<1>3. \A j : FlightLock(j)' <=> FlightLock(j)
  BY <1>1 DEF FlightLock
<1>4. ASSUME worker'[w].at = "release"
      PROVE  worker'[w].job = worker[w].job /\ FlightLock(worker[w].job)
  <2>1. CASE Leaves(w) \/ Rests(w)
    BY <1>4, <2>1, LeavesRow
  <2>2. CASE GoesEffect(w) \/ RetryEffect(w)
    BY <1>4, <2>2 DEF GoesEffect, RetryEffect, GoesOn
  <2>3. CASE \E m \in Message : TakeEffect(w, m)
    BY <1>4, <2>3 DEF TakeEffect
  <2>. QED BY <1>1, <2>1, <2>2, <2>3
       DEF Effect, ReturnEffect, AckEffect, ReleaseEffect
<1>5. ASSUME NEW v \in Worker, worker'[v].at = "release"
      PROVE  FlightLock(worker[v].job) /\ worker'[v].job = worker[v].job
  BY <1>1, <1>4, <1>5, OthersMove DEF Locks
<1>6. \A v \in Worker : worker'[v].at = "release" =>
        \E r \in Request : JobOf[r] = worker'[v].job /\ request'[r].locked
  BY <1>1, <1>5 DEF FlightLock
<1>. QED BY <1>1, <1>2, <1>6 DEF Locks, FlightLock

LEMMA RequestLocks ==
  ASSUME TypeInv, Locks, NEW r \in Request, RequestStep(r)
  PROVE  Locks'
<1>1. worker' = worker /\ \A q \in Request : q # r => request'[q] = request[q]
  BY DEF RequestStep, Locking, Walking, Publishing, Walks
<1>2. request[r].locked => request'[r].locked
  BY DEF RequestStep, Locking, Walking, Publishing
<1>3. \A v \in Worker : worker'[v].at = "release" =>
        \E q \in Request : JobOf[q] = worker'[v].job /\ request'[q].locked
  BY <1>1, <1>2 DEF Locks, FlightLock
<1>4. /\ request'[r].at \in {"await", "reacquire"} => r \notin Keyed
      /\ request'[r].locked => r \notin Keyed /\ request'[r].at \notin Tries
      /\ request'[r].at \in Before =>
           request[r].at \in Before /\ published' = published
  <2>1. CASE Locking(r)
    BY <2>1 DEF Locking, Walks, Locks, Tries, Before
  <2>2. CASE Walking(r)
    BY <2>2 DEF Walking, Walks, Locks, Tries, Before, After
  <2>3. CASE Publishing(r)
    BY <2>3 DEF Publishing, Walks, Locks, Tries, Before, After
  <2>. QED BY <2>1, <2>2, <2>3 DEF RequestStep
<1>5. published' \in {published, published \cup {JobOf[r]}}
  BY DEF RequestStep, Locking, Walking, Publishing
<1>6. ASSUME NEW q \in Request, q \notin Keyed, request'[q].at \in Before
      PROVE  JobOf[q] \notin published'
  <2>1. CASE q = r
    BY <1>4, <1>6, <2>1 DEF Locks
  <2>2. CASE q # r
    BY <1>1, <1>5, <1>6, <2>2, Alone DEF Locks
  <2>. QED BY <2>1, <2>2
<1>. QED BY <1>1, <1>3, <1>4, <1>6 DEF Locks, FlightLock

LEMMA LocksNext ==
  ASSUME TypeInv, Accepted, Locks, Next PROVE Locks'
<1>1. ASSUME OtherStep PROVE Locks'
  BY <1>1 DEF OtherStep, Locks, FlightLock
<1>. QED BY <1>1, WorkerLocks, RequestLocks, StepKinds
\* A step that brings nothing under way and leaves the lock keeps all three.
LEMMA FlightRests ==
  ASSUME Owner, OneCopy, OneWorker, request' = request, lock' = lock,
         ready' = ready,
         \A v \in Worker : worker'[v].job \in {worker[v].job, None}
  PROVE  Owner' /\ OneCopy' /\ OneWorker'
<1>1. \A j : FlightLock(j)' <=> FlightLock(j)
  BY DEF FlightLock
<1>2. ~FlightLock(None)
  BY FirstMessage, NoneApart DEF FlightLock
<1>3. \A r \in Request : JobOf[r] # None
  BY FirstMessage, NoneApart
<1>4. \A r \in Request : InFlight(JobOf[r])' => InFlight(JobOf[r])
  BY <1>3 DEF InFlight
<1>5. Owner'
  BY <1>4 DEF Owner
<1>6. \A m \in Message : m.job # None
  BY NoneApart DEF Message
<1>7. OneCopy'
  BY <1>1, <1>6 DEF OneCopy
<1>8. \A v, w \in Worker :
        (\E r \in Request : JobOf[r] = worker'[v].job /\ request'[r].locked)
          /\ worker'[w].job = worker'[v].job
        => v = w
  BY <1>2 DEF OneWorker, FlightLock
<1>9. OneWorker'
  BY <1>8 DEF OneWorker, FlightLock
<1>. QED BY <1>5, <1>7, <1>9

LEMMA ReleaseFlies ==
  ASSUME TypeInv, Accepted, Locks, Owner, OneCopy, OneWorker,
         NEW w \in Worker, WorkerStep(w), ReleaseEffect(w)
  PROVE  Owner' /\ OneCopy' /\ OneWorker'
<1>1. worker'[w].job = None /\ ready' = ready /\ request' = request
  BY DEF ReleaseEffect, Rests, Idle, Still, WorkerStep
<1>2. \A v \in Worker : v # w => worker'[v] = worker[v]
  BY DEF ReleaseEffect, Rests, Moves
<1>3. CASE lock' = lock
  BY <1>1, <1>2, <1>3, FlightRests
<1>4. CASE lock' # lock
  <2>1. PICK r \in Request : JobOf[r] = worker[w].job /\ request[r].locked
    BY DEF ReleaseEffect, Locks, FlightLock
  <2>2. r \notin Keyed /\ JobOf[r] \in published
    BY <2>1 DEF Locks, Accepted, ReleaseEffect
  <2>3. InFlight(JobOf[r]) /\ request[r].at \notin Before
    BY <2>1, <2>2 DEF Locks, InFlight
  <2>4. lock = r
    BY <2>1, <2>3 DEF Owner
  \* Nothing but w was on the job.
  <2>5. ~InFlight(JobOf[r])'
    <3>1. FlightLock(worker[w].job) /\ JobOf[r] # None
      BY <2>1, FirstMessage, NoneApart DEF FlightLock
    <3>2. ASSUME NEW m \in Message, m.job = JobOf[r] PROVE ~(ready'[m] > 0)
      BY <1>1, <2>1, <3>1, <3>2 DEF OneCopy
    <3>3. ASSUME NEW v \in Worker PROVE worker'[v].job # JobOf[r]
      BY <1>1, <1>2, <2>1, <3>1, <3>3 DEF OneWorker
    <3>. QED BY <3>2, <3>3 DEF InFlight
  <2>6. ASSUME NEW q \in Request, request'[q].locked,
               request'[q].at \in Before \/ InFlight(JobOf[q])'
        PROVE  FALSE
    <3>1. request[q].locked /\ JobOf[q] # None
      BY <1>1, <2>6, FirstMessage, NoneApart
    <3>2. InFlight(JobOf[q])' => InFlight(JobOf[q])
      BY <1>1, <1>2, <3>1 DEF InFlight
    <3>3. lock = q
      BY <1>1, <2>6, <3>1, <3>2 DEF Owner
    <3>. QED BY <1>1, <2>3, <2>4, <2>5, <2>6, <3>3
  <2>7. Owner'
    BY <2>6 DEF Owner
  <2>8. OneCopy' /\ OneWorker'
    <3>1. \A j : FlightLock(j)' <=> FlightLock(j)
      BY <1>1 DEF FlightLock
    <3>2. ~FlightLock(None) /\ \A m \in Message : m.job # None
      BY FirstMessage, NoneApart DEF FlightLock, Message
    <3>3. OneCopy'
      BY <1>1, <1>2, <3>1, <3>2 DEF OneCopy
    <3>4. \A u, v \in Worker :
            (\E q \in Request :
               JobOf[q] = worker'[u].job /\ request'[q].locked)
              /\ worker'[v].job = worker'[u].job
            => u = v
      BY <1>1, <1>2, <3>2 DEF OneWorker, FlightLock
    <3>5. OneWorker'
      BY <3>4 DEF OneWorker, FlightLock
    <3>. QED BY <3>3, <3>5
  <2>. QED BY <2>7, <2>8
<1>. QED BY <1>3, <1>4

LEMMA TakeFlies ==
  ASSUME TypeInv, Owner, OneCopy, OneWorker, NEW w \in Worker,
         NEW m \in Message, TakeEffect(w, m), lock' = lock, request' = request
  PROVE  Owner' /\ OneCopy' /\ OneWorker'
<1>1. /\ ready[m] > 0 /\ ready' = [ready EXCEPT ![m] = @ - 1]
      /\ worker'[w].job = m.job
      /\ \A v \in Worker : v # w => worker'[v] = worker[v]
  BY DEF TakeEffect, Takes, Moves
<1>2. /\ ready'[m] = ready[m] - 1 /\ ready[m] \in Nat
      /\ \A n \in Message : n # m => ready'[n] = ready[n]
  BY <1>1, Counted DEF TypeInv, TypeOK
<1>3. \A j : FlightLock(j)' <=> FlightLock(j)
  BY DEF FlightLock
<1>4. FlightLock(m.job) =>
        /\ ready[m] = 1 /\ m.attempt = 0
        /\ \A v \in Worker : worker[v].job # m.job
  BY <1>1 DEF OneCopy
<1>5. \A n \in Message : ready'[n] > 0 => ready[n] > 0
  BY <1>1, <1>2
<1>6. Owner'
  <2>1. \A r \in Request : InFlight(JobOf[r])' => InFlight(JobOf[r])
    BY <1>1, <1>5 DEF InFlight
  <2>. QED BY <2>1 DEF Owner
<1>7. OneCopy'
  <2>1. ASSUME NEW n \in Message, ready'[n] > 0, FlightLock(n.job)
        PROVE  /\ ready'[n] = 1 /\ n.attempt = 0
               /\ \A v \in Worker : worker'[v].job # n.job
    <3>1. /\ ready[n] = 1 /\ n.attempt = 0
          /\ \A v \in Worker : worker[v].job # n.job
      BY <1>5, <2>1 DEF OneCopy
    <3>2. n # m
      BY <1>2, <1>4, <2>1
    <3>3. n.job # m.job
      BY <1>4, <2>1, <3>1, <3>2 DEF Message
    <3>. QED BY <1>1, <1>2, <3>1, <3>2, <3>3
  <2>. QED BY <1>3, <2>1 DEF OneCopy
<1>8. OneWorker'
  <2>1. \A u, v \in Worker :
          (\E q \in Request :
             JobOf[q] = worker'[u].job /\ request'[q].locked)
            /\ worker'[v].job = worker'[u].job
          => u = v
    BY <1>1, <1>4 DEF OneWorker, FlightLock
  <2>. QED BY <2>1 DEF OneWorker, FlightLock
<1>. QED BY <1>6, <1>7, <1>8

LEMMA WorkerFlies ==
  ASSUME TypeInv, Accepted, Locks, Flight, NEW w \in Worker, WorkerStep(w)
  PROVE  Flight'
<1>1. /\ Effect(w) /\ request' = request /\ quiet' = quiet
      /\ healthy' = healthy
      /\ lock' = lock \/ worker[w].at = "release"
  BY DEF WorkerStep, conditions
<1> SUFFICES ASSUME quiet
             PROVE  /\ \A v \in Worker : worker'[v].at # "retry"
                    /\ Owner' /\ OneCopy' /\ OneWorker'
  BY <1>1 DEF Flight
<1>2. /\ healthy /\ Owner /\ OneCopy /\ OneWorker
      /\ \A v \in Worker : worker[v].at # "retry"
  BY DEF Flight
<1>3. \A v \in Worker : v # w => worker'[v] = worker[v]
  BY <1>1, OthersMove
<1>4. CASE GoesEffect(w)
  <2>1. /\ worker'[w].job = worker[w].job /\ worker'[w].at # "retry"
        /\ ready' = ready /\ worker[w].at # "release"
    BY <1>2, <1>4 DEF GoesEffect, GoesOn, Still
  <2>. QED BY <1>1, <1>2, <1>3, <2>1, FlightRests
<1>5. CASE RetryEffect(w)
  BY <1>2, <1>5 DEF RetryEffect
<1>6. CASE ReturnEffect(w)
  BY <1>2, <1>6 DEF ReturnEffect
<1>7. CASE AckEffect(w)
  <2>1. /\ worker'[w].job \in {None, worker[w].job} /\ worker'[w].at # "retry"
        /\ ready' = ready /\ worker[w].at # "release"
    BY <1>7, LeavesRow DEF AckEffect, Drops
  <2>. QED BY <1>1, <1>2, <1>3, <2>1, FlightRests
<1>8. CASE ReleaseEffect(w)
  <2>1. worker'[w].at # "retry"
    BY <1>8 DEF ReleaseEffect, Rests, Idle
  <2>. QED BY <1>2, <1>3, <1>8, <2>1, ReleaseFlies
<1>9. ASSUME NEW m \in Message, TakeEffect(w, m)
      PROVE  /\ \A v \in Worker : worker'[v].at # "retry"
             /\ Owner' /\ OneCopy' /\ OneWorker'
  <2>1. worker'[w].at # "retry" /\ lock' = lock
    BY <1>1, <1>9 DEF TakeEffect
  <2>. QED BY <1>1, <1>2, <1>3, <1>9, <2>1, TakeFlies
<1>. QED BY <1>1, <1>4, <1>5, <1>6, <1>7, <1>8, <1>9 DEF Effect

LEMMA LockingFlies ==
  ASSUME TypeInv, Accepted, Locks, Owner, OneCopy, OneWorker,
         NEW r \in Request, Locking(r), worker' = worker
  PROVE  Owner' /\ OneCopy' /\ OneWorker'
<1>1. /\ r \notin Keyed /\ lock = None /\ lock' = r /\ ready' = ready
      /\ request[r].at \in Before
      /\ \A q \in Request : q # r => request'[q] = request[q]
  BY DEF Locking, Walks, Still, Locks, Tries, Before
<1>2. JobOf[r] \notin published /\ JobOf[r] \in Job
  BY <1>1, FirstMessage DEF Locks
<1>3. ~InFlight(JobOf[r])
  BY <1>2, Unheard
<1>4. \A j : FlightLock(j)' => FlightLock(j) \/ j = JobOf[r]
  BY <1>1 DEF FlightLock
<1>5. Owner'
  <2>1. \A q \in Request : InFlight(JobOf[q])' => InFlight(JobOf[q])
    BY <1>1 DEF InFlight
  <2>. QED BY <1>1, <2>1, NoneApart DEF Owner
<1>6. OneCopy'
  BY <1>1, <1>3, <1>4 DEF OneCopy, InFlight
<1>7. OneWorker'
  BY <1>3, <1>4 DEF OneWorker, InFlight
<1>. QED BY <1>5, <1>6, <1>7

LEMMA SameLocks ==
  ASSUME NEW r \in Request, \E place : Walks(r, place),
         request'[r].locked = request[r].locked
  PROVE  /\ \A q \in Request : request'[q].locked = request[q].locked
         /\ \A j : FlightLock(j)' <=> FlightLock(j)
BY DEF Walks, FlightLock

LEMMA WalkingFlies ==
  ASSUME TypeInv, Accepted, Locks, healthy, Owner, OneCopy, OneWorker,
         NEW r \in Request, Walking(r), worker' = worker
  PROVE  Owner' /\ OneCopy' /\ OneWorker'
<1>1. ready' = ready /\ \A j : FlightLock(j)' <=> FlightLock(j)
  BY SameLocks DEF Walking, Still
<1>2. OneCopy' /\ OneWorker'
  BY <1>1 DEF OneCopy, OneWorker
<1>3. \A q \in Request : InFlight(JobOf[q])' <=> InFlight(JobOf[q])
  BY <1>1 DEF InFlight
<1>4. \A q \in Request : /\ request'[q].locked = request[q].locked
                         /\ q # r => request'[q] = request[q]
  BY SameLocks DEF Walking, Walks
<1>5. CASE lock' = lock
  <2>1. request'[r].at \in Before => request[r].at \in Before
    BY DEF Walking, Walks
  <2>. QED BY <1>2, <1>3, <1>4, <1>5, <2>1 DEF Owner
<1>6. CASE /\ request'[r].at = "done" /\ request[r].locked
           /\ request[r].at \in Before
  <2>1. r \notin Keyed /\ JobOf[r] \notin published /\ JobOf[r] \in Job
    BY <1>6, FirstMessage DEF Locks
  <2>2. ~InFlight(JobOf[r]) /\ request'[r].at \notin Before
    BY <1>6, <2>1, Unheard DEF Before, Tries
  <2>3. lock = r
    BY <1>6 DEF Owner
  <2>4. Owner'
    BY <1>3, <1>4, <2>2, <2>3 DEF Owner
  <2>. QED BY <1>2, <2>4
<1>7. \/ lock' = lock
      \/ /\ request'[r].at = "done" /\ request[r].locked
         /\ request[r].at \in Before
  BY DEF Walking, Walks
<1>. QED BY <1>5, <1>6, <1>7

LEMMA PublishingFlies ==
  ASSUME TypeInv, Accepted, Locks, healthy, Owner, OneCopy, OneWorker,
         NEW r \in Request, Publishing(r), worker' = worker
  PROVE  Owner' /\ OneCopy' /\ OneWorker'
<1>1. PICK a \in Message : a = [job |-> JobOf[r], attempt |-> 0]
  BY FirstMessage
<1>2. /\ lock' = lock /\ ready' = [ready EXCEPT ![a] = @ + 1]
      /\ request[r].at = "publish" /\ a.job = JobOf[r] /\ a.attempt = 0
  BY <1>1 DEF Publishing, Adds
<1>3. /\ ready'[a] = ready[a] + 1 /\ ready[a] \in Nat
      /\ \A n \in Message : n # a => ready'[n] = ready[n]
  BY <1>2, Counted DEF TypeInv, TypeOK
<1>4. /\ \A q \in Request : request'[q].locked = request[q].locked
      /\ \A j : FlightLock(j)' <=> FlightLock(j)
  BY SameLocks DEF Publishing
<1>5. \A q \in Request : q # r => request'[q] = request[q]
  BY DEF Publishing, Walks
\* If the job carries the lock it is r that has it.
<1>6. ASSUME NEW q \in Request, request[q].locked, JobOf[q] = JobOf[r]
      PROVE  q = r /\ r \notin Keyed
  BY <1>6, Alone DEF Locks
<1>7. r \notin Keyed => ~InFlight(JobOf[r])
  BY <1>2, FirstMessage, Unheard DEF Locks, Before
<1>8. Owner'
  <2>1. ASSUME NEW q \in Request, request'[q].locked,
               request'[q].at \in Before \/ InFlight(JobOf[q])'
        PROVE  lock' = q
    <3>1. CASE q = r
      BY <1>2, <1>4, <2>1, <3>1 DEF Owner, Before
    <3>2. CASE q # r
      <4>1. InFlight(JobOf[q])' => InFlight(JobOf[q])
        BY <1>2, <1>3, <1>4, <1>6, <2>1, <3>2 DEF InFlight
      <4>. QED BY <1>2, <1>4, <1>5, <2>1, <3>2, <4>1 DEF Owner
    <3>. QED BY <3>1, <3>2
  <2>. QED BY <2>1 DEF Owner
<1>9. OneCopy'
  <2>1. ASSUME NEW n \in Message, ready'[n] > 0, FlightLock(n.job)
        PROVE  /\ ready'[n] = 1 /\ n.attempt = 0
               /\ \A v \in Worker : worker[v].job # n.job
    <3>1. CASE n = a
      <4>1. ~InFlight(JobOf[r])
        BY <1>2, <1>6, <1>7, <2>1, <3>1 DEF FlightLock
      <4>. QED BY <1>2, <1>3, <3>1, <4>1 DEF InFlight
    <3>2. CASE n # a
      BY <1>3, <2>1, <3>2 DEF OneCopy
    <3>. QED BY <3>1, <3>2
  <2>. QED BY <1>4, <2>1 DEF OneCopy
<1>10. OneWorker'
  BY <1>4 DEF OneWorker
<1>. QED BY <1>8, <1>9, <1>10

LEMMA FlightNext ==
  ASSUME TypeInv, Accepted, Locks, Flight, Next PROVE Flight'
<1>1. ASSUME OtherStep PROVE Flight'
  BY <1>1 DEF OtherStep, Flight
<1>2. ASSUME NEW r \in Request, RequestStep(r) PROVE Flight'
  BY <1>2, LockingFlies, WalkingFlies, PublishingFlies
  DEF RequestStep, Flight, conditions
<1>. QED BY <1>1, <1>2, WorkerFlies, StepKinds
-----------------------------------------------------------------------------
(* The invariant, and what it says.                                        *)

Inv == TypeInv /\ ResultInv /\ KeptInv /\ Locks /\ Flight

LEMMA InitInv == Init => Inv
<1> SUFFICES ASSUME Init PROVE Inv
  OBVIOUS
<1>1. 0 \in 0 .. MaxCopies
  BY ScanAssumption DEF ScanAssumption
<1>2. TypeOK
  BY <1>1, IdleIsState DEF Init, TypeOK, RequestState, State
<1>3. \A w \in Worker : worker[w].at = "idle" /\ worker[w].job = None
  BY DEF Init, Idle
<1>4. \A m \in Message : HeldBy(m) = {} /\ ready[m] = 0
  BY <1>3 DEF HeldBy, Holding, Init
<1>5. \A m \in Message : Copies(m) = 0 /\ ~Has(m)
  BY <1>2, <1>4, Counted DEF Has
<1>6. TypeInv
  BY <1>2, <1>3, <1>5, ScanAssumption
  DEF TypeInv, Handled, Bounded, ScanAssumption
<1>7. ResultInv
  BY <1>3 DEF ResultInv, CompletedHasResult, Persists, Init
<1>8. KeptInv
  BY <1>3, <1>5 DEF KeptInv, Accepted, HandedOn, Kept, Init
<1>9. \A r \in Request : request[r].at = "start" /\ ~request[r].locked
  BY DEF Init
<1>10. Locks
  BY <1>3, <1>9 DEF Locks, Init
<1>11. Flight
  BY <1>3, <1>9 DEF Flight, Owner, OneCopy, OneWorker, FlightLock, Init
<1>. QED BY <1>6, <1>7, <1>8, <1>10, <1>11 DEF Inv

LEMMA InvNext == Inv /\ [Next]_vars => Inv'
<1>1. ASSUME Inv, Next PROVE Inv'
  BY <1>1, TypeNext, ResultNext, KeptNext, LocksNext, FlightNext
  DEF Inv, KeptInv
<1>2. ASSUME Inv, UNCHANGED vars PROVE Inv'
  <2>1. \A m \in Message : Copies(m)' = Copies(m) /\ (Has(m)' <=> Has(m))
    BY <1>2 DEF vars, Copies, Has, HeldBy, Holding, Held
  <2>2. TypeInv'
    BY <1>2, <2>1
    DEF Inv, TypeInv, TypeOK, Handled, Bounded, vars, conditions
  <2>3. ResultInv'
    BY <1>2 DEF Inv, ResultInv, CompletedHasResult, Persists, vars
  <2>4. KeptInv'
    BY <1>2, <2>1 DEF Inv, KeptInv, Accepted, HandedOn, Kept, HasOne,
                      Settled, Carried, vars
  <2>5. Locks' /\ Flight'
    BY <1>2 DEF Inv, Locks, Flight, Owner, OneCopy, OneWorker, FlightLock,
                InFlight, vars, conditions
  <2>. QED BY <2>2, <2>3, <2>4, <2>5 DEF Inv
<1>. QED BY <1>1, <1>2

\* Every record is of its type, the copies of a message fit their bound, and
\* the facts the other theorems rest on hold throughout.
THEOREM ScanInvariant == Spec => []Inv
<1>. QED BY InitInv, InvNext, PTL DEF Spec

LEMMA InvLosesNothing == Inv => NothingLost
BY QueuedHasOne DEF Inv, TypeInv, TypeOK, KeptInv, Kept, Settled, NothingLost

LEMMA QueuedInFlight ==
  ASSUME Inv, NEW j \in Job, Queued(j)
  PROVE  InFlight(j)
<1>1. PICK m \in Message : m.job = j /\ Has(m)
  BY QueuedHasOne DEF Inv, TypeInv, HasOne
<1>2. CASE ready[m] > 0
  BY <1>1, <1>2 DEF InFlight
<1>3. CASE HeldBy(m) # {}
  <2>1. PICK w \in Worker : Held(w) = m
    BY <1>3 DEF HeldBy, Holding
  <2>2. worker[w].job = j
    BY <1>1, <2>1 DEF Held
  <2>. QED BY <2>2 DEF InFlight
<1>. QED BY <1>1, <1>2, <1>3 DEF Has

LEMMA InvFliesSingly == Inv => SingleFlight
<1> SUFFICES ASSUME Inv, quiet, NEW i \in Job, NEW j \in Job,
                    FlightLock(i), FlightLock(j), Queued(i), Queued(j)
             PROVE  i = j
  BY DEF SingleFlight
<1>1. InFlight(i) /\ InFlight(j)
  BY QueuedInFlight
<1>2. PICK q \in Request : JobOf[q] = i /\ request[q].locked
  BY DEF FlightLock
<1>3. PICK r \in Request : JobOf[r] = j /\ request[r].locked
  BY DEF FlightLock
<1>4. lock = q /\ lock = r
  BY <1>1, <1>2, <1>3 DEF Inv, Flight, Owner
<1>. QED BY <1>2, <1>3, <1>4

\* A job whose publish the broker confirmed is at the broker, persisted or in
\* the dead letter queue, whatever calls fail and whichever workers die.
THEOREM NothingLostHolds == Spec => []NothingLost
<1>. QED BY ScanInvariant, InvLosesNothing, PTL

\* A job reported as completed has its result.
THEOREM CompletedHasResultHolds == Spec => []CompletedHasResult
<1>1. Inv => CompletedHasResult
  BY DEF Inv, ResultInv
<1>. QED BY <1>1, ScanInvariant, PTL

\* While nothing has failed and no lock has expired, the jobs that carry the
\* flight lock are under way one at a time.
THEOREM SingleFlightHolds == Spec => []SingleFlight
<1>. QED BY ScanInvariant, InvFliesSingly, PTL

\* A persisted snapshot is never replaced.
THEOREM ResultIsFinalHolds == Spec => [][ResultIsFinal]_vars
<1>1. Inv /\ [Next]_vars => [ResultIsFinal]_vars
  BY ResultNext DEF Inv
<1>. QED BY <1>1, ScanInvariant, PTL DEF Spec

\* What the quick scan promises, in every state and of every step.
THEOREM ScanJobsSafeHolds == Spec => ScanJobsSafe
<1>1. Inv => TypeOK /\ NothingLost /\ CompletedHasResult /\ SingleFlight
  BY InvLosesNothing, InvFliesSingly DEF Inv, TypeInv, ResultInv
<1>2. Inv /\ [Next]_vars => [ResultIsFinal]_vars
  BY ResultNext DEF Inv
<1>. QED BY <1>1, <1>2, ScanInvariant, PTL DEF Spec, ScanJobsSafe

-----------------------------------------------------------------------------
(* Public scans (PublicScanJobs): the rows of a scan and its owner.        *)

JobRow == [state : JobState, phase : 1..Phases, token : Nat,
           lease : {"none", "live", "expired"}, due : BOOLEAN]
RunRow == [state : RunState, quick : BOOLEAN, snapshot : BOOLEAN]
Memory == [at : Place, job : Scan, token : Nat, slot : 0..MaxSlots]

\* What the row of a job says of the row of its run, and the state of a job of
\* its lease.
Consistent(row, entry) ==
  /\ row.state = "none" <=> entry.state = "none"
  /\ row.state = "failed" <=> entry.state = "failed"
  /\ row.state = "complete" <=> entry.state = "complete_public"
  /\ entry.snapshot <=> row.state = "complete"
  /\ row.state = "running" => entry.state = "running"
  /\ row.state = "running" <=> row.lease # "none"
  /\ row.state = "running" <=> row.token # 0
Consistently == \A j \in Scan : Consistent(job[j], run[j])

\* A worker that remembers a claim holds a token nobody else holds; a row or a
\* worker that is not at work holds none.
Tokened ==
  /\ \A w \in ScanWorker : wk[w].at = "idle" <=> wk[w].token = 0
  /\ \A v, w \in ScanWorker :
       wk[v].token = wk[w].token /\ wk[v].token # 0 => v = w
  /\ \A w \in ScanWorker, j \in Scan :
       job[j].token = wk[w].token /\ wk[w].token # 0 => wk[w].job = j

\* Configure looks at the live slots, and only slots within the capacity are
\* taken.
SlotsFit == \A s \in 1..MaxSlots : slot[s].live => s <= capacity

RowsInv == ScanTypeOK /\ Consistently /\ Tokened /\ SlotsFit /\ AdmissionBound
-----------------------------------------------------------------------------
(* The rows an action writes.                                              *)

LEMMA Bounds ==
  /\ MaxSlots \in Nat \ {0} /\ MaxActive \in Nat \ {0}
  /\ Limit \in Nat \ {0} /\ Phases \in Nat \ {0} /\ ScanTrouble \in Nat
  /\ 1 \in 1..Phases /\ 1 \in 1..MaxSlots
BY PublicScanAssumption

LEMMA Defaults ==
  /\ NoJob \in JobRow /\ NoRun \in RunRow /\ NoClaim \in Memory
  /\ Consistent(NoJob, NoRun) /\ NoClaim.token = 0 /\ NoClaim.at = "idle"
<1>1. (CHOOSE j \in Scan : TRUE) \in Scan
  BY PublicScanAssumption
<1>. QED
  BY <1>1, Bounds DEF NoJob, NoRun, NoClaim, JobRow, RunRow, Memory, JobState,
    RunState, Place, NoSlot, Consistent

\* A fresh token is a number no row and no worker has.
LEMMA FreshTokens ==
  ASSUME NEW t \in Tokens, Fresh(t)
  PROVE  /\ t \in Nat \ {0}
         /\ \A j \in Scan : job[j].token # t
         /\ \A w \in ScanWorker : wk[w].token # t
<1>1. t \in Nat \ {0}
  BY DEF Tokens
<1>. QED BY <1>1 DEF Fresh, TokensInUse

\* One scan's rows are written.
Writes(j, row, entry) ==
  job' = [job EXCEPT ![j] = row] /\ run' = [run EXCEPT ![j] = entry]

LEMMA WritesFits ==
  ASSUME ScanTypeOK, Consistently, NEW j \in Scan, NEW row \in JobRow,
         NEW entry \in RunRow, Consistent(row, entry), Writes(j, row, entry)
  PROVE  /\ job' \in [Scan -> JobRow] /\ run' \in [Scan -> RunRow]
         /\ Consistently'
         /\ job'[j] = row /\ run'[j] = entry
         /\ \A i \in Scan \ {j} : job'[i] = job[i] /\ run'[i] = run[i]
<1>1. job \in [Scan -> JobRow] /\ run \in [Scan -> RunRow]
  BY DEF ScanTypeOK, JobRow, RunRow
<1>2. job' \in [Scan -> JobRow] /\ run' \in [Scan -> RunRow]
  BY <1>1 DEF Writes
<1>3. job'[j] = row /\ run'[j] = entry
  BY <1>1 DEF Writes
<1>4. \A i \in Scan \ {j} : job'[i] = job[i] /\ run'[i] = run[i]
  BY <1>1 DEF Writes
<1>5. \A i \in Scan : Consistent(job'[i], run'[i])
  BY <1>3, <1>4 DEF Consistently
<1>. QED BY <1>2, <1>3, <1>4, <1>5 DEF Consistently

\* The rows keep their types and fit each other when none is written.
LEMMA KeepsFits ==
  ASSUME ScanTypeOK, Consistently, UNCHANGED <<job, run>>
  PROVE  /\ job' \in [Scan -> JobRow] /\ run' \in [Scan -> RunRow]
         /\ Consistently'
BY DEF ScanTypeOK, Consistently, JobRow, RunRow
-----------------------------------------------------------------------------
(* What a step does to the two rows of every scan.                         *)

\* The rows of scan k after a step, by who may write them.
Untouched(k) == job'[k] = job[k] /\ run'[k] = run[k]
Admitted(k) == Enqueue(k) /\ job'[k].token = 0
\* Nobody's lease is live: seeds, quarantines, claims and recoveries.
Unleased(k) ==
  /\ job[k].state = "queued" \/ Lapsed(k)
  /\ job'[k].token = 0 \/ job'[k].token = job[k].token
Claimed(w, k) ==
  /\ job[k].state = "queued" \/ Lapsed(k)
  /\ wk[w].at = "idle" /\ wk'[w].job = k
  /\ wk'[w].token = job'[k].token /\ wk'[w].token \in Nat \ {0}
  /\ \A j \in Scan : job[j].token # wk'[w].token
  /\ \A v \in ScanWorker : wk[v].token # wk'[w].token
\* The holder of the token writes, and no other worker moves.
Owned(k) ==
  /\ job[k].state = "running"
  /\ job'[k].token = 0 \/ job'[k].token = job[k].token
  /\ \E w \in ScanWorker :
       /\ wk[w].token = job[k].token
       /\ \A x \in ScanWorker \ {w} : wk'[x] = wk[x]
Timed(k) ==
  /\ run'[k] = run[k]
  /\ \/ job'[k] = [job[k] EXCEPT !.lease = "expired"] /\ job[k].lease = "live"
     \/ job[k].state = "queued" /\ job'[k] = [job[k] EXCEPT !.due = TRUE]

RowEffect(k) ==
  \/ Untouched(k) \/ Admitted(k) \/ Unleased(k) \/ Owned(k) \/ Timed(k)
  \/ \E w \in ScanWorker : Claimed(w, k)

\* The rows keep their shape, every scan's change is one of the above, and only
\* an admission makes a scan active.
RowsStep ==
  /\ job' \in [Scan -> JobRow] /\ run' \in [Scan -> RunRow]
  /\ Consistently'
  /\ \A k \in Scan : RowEffect(k)

LEMMA EnqueueRows ==
  ASSUME ScanTypeOK, Consistently, NEW j \in Scan, Enqueue(j)
  PROVE  RowsStep
<1>. DEFINE row == [NoJob EXCEPT !.state = "queued", !.due = TRUE]
            entry == [run[j] EXCEPT !.state = "queued"]
<1>1. job[j].state = "none" /\ run[j] \in RunRow /\ Consistent(job[j], run[j])
  BY DEF Enqueue, ScanTypeOK, RunRow, Consistently
<1>2. row \in JobRow /\ entry \in RunRow
  BY <1>1, Defaults DEF JobRow, RunRow, JobState, RunState
<1>3. row.state = "queued" /\ row.lease = "none" /\ row.token = 0
  BY DEF NoJob
<1>4. entry.state = "queued" /\ entry.snapshot = run[j].snapshot
  BY <1>1 DEF RunRow
<1>5. Consistent(row, entry)
  BY <1>1, <1>3, <1>4 DEF Consistent
<1>6. Writes(j, row, entry)
  BY DEF Enqueue, Writes, ScanTypeOK
<1>. HIDE DEF row, entry
<1>. QED
  BY <1>1, <1>2, <1>3, <1>5, <1>6, WritesFits
  DEF RowsStep, RowEffect, Untouched, Admitted

LEMMA SeedRows ==
  ASSUME ScanTypeOK, Consistently, NEW j \in Scan, Seed(j)
  PROVE  RowsStep
<1>. DEFINE row == [job[j] EXCEPT !.phase = 2]
            entry == [run[j] EXCEPT !.quick = TRUE]
<1>1. /\ job[j].state = "queued" /\ job[j] \in JobRow /\ run[j] \in RunRow
      /\ Consistent(job[j], run[j]) /\ 2 \in 1..Phases
  BY Bounds DEF Seed, ScanTypeOK, RunRow, JobRow, Consistently
<1>2. row \in JobRow /\ entry \in RunRow
  BY <1>1 DEF JobRow, RunRow
<1>3. /\ row.state = job[j].state /\ row.lease = job[j].lease
      /\ row.token = job[j].token
  BY <1>1 DEF JobRow
<1>4. entry.state = run[j].state /\ entry.snapshot = run[j].snapshot
  BY <1>1 DEF RunRow
<1>5. Consistent(row, entry)
  BY <1>1, <1>3, <1>4 DEF Consistent
<1>6. Writes(j, row, entry)
  BY DEF Seed, Writes, ScanTypeOK
<1>. HIDE DEF row, entry
<1>. QED
  BY <1>1, <1>2, <1>3, <1>5, <1>6, WritesFits
  DEF RowsStep, RowEffect, Untouched, Unleased

LEMMA EndedRow ==
  ASSUME NEW row \in JobRow, NEW x \in JobState
  PROVE  /\ Ended(row, x) \in JobRow /\ Ended(row, x).state = x
         /\ Ended(row, x).lease = "none" /\ Ended(row, x).token = 0
BY DEF Ended, JobRow

LEMMA RequeuedRow ==
  ASSUME NEW row \in JobRow, NEW p \in 1..Phases, NEW d \in BOOLEAN
  PROVE  /\ Requeued(row, p, d) \in JobRow
         /\ Requeued(row, p, d).state = "queued"
         /\ Requeued(row, p, d).lease = "none"
         /\ Requeued(row, p, d).token = 0
BY DEF Requeued, JobRow, JobState

LEMMA QuarantineRows ==
  ASSUME ScanTypeOK, Consistently, NEW j \in Scan, Quarantine(j)
  PROVE  RowsStep
<1>. DEFINE row == Ended(job[j], "failed")
            entry == [run[j] EXCEPT !.state =
                        IF @ \in {"queued", "running"} THEN "failed" ELSE @]
<1>1. /\ job[j].state = "queued" \/ Lapsed(j)
      /\ job[j] \in JobRow /\ run[j] \in RunRow
      /\ Consistent(job[j], run[j])
  BY DEF Quarantine, ScanTypeOK, RunRow, JobRow, Consistently
<1>2. job[j].state \in {"queued", "running"}
  BY <1>1 DEF Lapsed
<1>3. run[j].state \in {"queued", "running"}
  BY <1>1, <1>2 DEF Consistent, RunRow, RunState
<1>4. /\ entry \in RunRow /\ entry.state = "failed"
      /\ entry.snapshot = run[j].snapshot
  BY <1>1, <1>3 DEF RunRow, RunState
<1>5. row \in JobRow /\ row.state = "failed" /\ row.lease = "none"
        /\ row.token = 0
  BY <1>1, EndedRow DEF JobState
<1>6. Consistent(row, entry)
  BY <1>1, <1>2, <1>4, <1>5 DEF Consistent
<1>7. Writes(j, row, entry)
  BY DEF Quarantine, Writes, ScanTypeOK
<1>. HIDE DEF row, entry
<1>. QED
  BY <1>1, <1>4, <1>5, <1>6, <1>7, WritesFits
  DEF RowsStep, RowEffect, Untouched, Unleased

LEMMA ClaimRows ==
  ASSUME ScanTypeOK, Consistently, NEW w \in ScanWorker, NEW j \in Scan,
         Claim(w, j)
  PROVE  /\ RowsStep
         /\ \A k \in Scan \ {j} : job'[k] = job[k] \/ job'[k].token = 0
         /\ \E t \in Nat \ {0} :
              /\ job'[j].token = t
              /\ wk' = [wk EXCEPT ![w] = [at |-> "claimed", job |-> j,
                                           token |-> t, slot |-> NoSlot]]
              /\ \A k \in Scan : job[k].token # t
              /\ \A v \in ScanWorker : wk[v].token # t
<1>1. PICK t \in Tokens :
        /\ Fresh(t)
        /\ job' = [Recovered(j.version) EXCEPT
                      ![j].state = "running", ![j].token = t,
                      ![j].lease = "live"]
        /\ wk' = [wk EXCEPT ![w] = [at |-> "claimed", job |-> j,
                                     token |-> t, slot |-> NoSlot]]
  BY DEF Claim
<1>2. /\ t \in Nat \ {0} /\ \A k \in Scan : job[k].token # t
      /\ \A v \in ScanWorker : wk[v].token # t
  BY <1>1, FreshTokens
<1>3. job \in [Scan -> JobRow] /\ run \in [Scan -> RunRow]
  BY DEF ScanTypeOK, JobRow, RunRow
<1>. DEFINE back == Recovered(j.version)
            row == [back[j] EXCEPT !.state = "running", !.token = t,
                                   !.lease = "live"]
            entry == [run[j] EXCEPT !.state = "running"]
<1>4. \A k \in Scan :
        \/ back[k] = job[k]
        \/ Lapsed(k) /\ back[k] = Requeued(job[k], job[k].phase, job[k].due)
  BY DEF Recovered
<1>5. \A k \in Scan :
        Requeued(job[k], job[k].phase, job[k].due) \in JobRow
  BY <1>3, RequeuedRow DEF JobRow
<1>6. back \in [Scan -> JobRow]
  BY <1>3, <1>4, <1>5 DEF Recovered
<1>7. job' = [back EXCEPT ![j] = row]
  BY <1>1, <1>6
<1>8. row \in JobRow /\ row.state = "running" /\ row.token = t
        /\ row.lease = "live"
  BY <1>2, <1>6 DEF JobRow, JobState
<1>9. /\ entry \in RunRow /\ entry.state = "running"
      /\ entry.snapshot = run[j].snapshot
  BY <1>3 DEF RunRow, RunState
<1>10. run' = [run EXCEPT ![j] = entry]
  BY <1>3 DEF Claim
<1>11. job[j].state = "queued" \/ Lapsed(j)
  BY DEF Claim, Claimable
<1>12. Consistent(job[j], run[j])
  BY DEF Consistently
<1>13. Consistent(row, entry)
  BY <1>2, <1>8, <1>9, <1>11, <1>12 DEF Consistent, Lapsed
<1>. HIDE DEF row, entry
<1>14. /\ job' \in [Scan -> JobRow] /\ run' \in [Scan -> RunRow]
       /\ job'[j] = row /\ run'[j] = entry
       /\ \A k \in Scan \ {j} : job'[k] = back[k] /\ run'[k] = run[k]
  BY <1>3, <1>6, <1>7, <1>8, <1>9, <1>10
<1>. HIDE DEF back
<1>15. ASSUME NEW k \in Scan \ {j}
       PROVE  /\ Consistent(job'[k], run'[k]) /\ RowEffect(k)
              /\ job'[k] = job[k] \/ job'[k].token = 0
  <2>1. Consistent(job[k], run[k])
    BY DEF Consistently
  <2>2. CASE back[k] = job[k]
    BY <2>1, <2>2, <1>14 DEF RowEffect, Untouched
  <2>3. CASE /\ Lapsed(k)
             /\ back[k] = Requeued(job[k], job[k].phase, job[k].due)
    <3>1. /\ back[k].state = "queued" /\ back[k].lease = "none"
          /\ back[k].token = 0
      BY <1>3, <2>3, RequeuedRow DEF JobRow
    <3>. QED
      BY <1>14, <2>1, <2>3, <3>1 DEF Consistent, Lapsed, RowEffect, Unleased
  <2>. QED BY <1>4, <2>2, <2>3
<1>16. wk'[w] = [at |-> "claimed", job |-> j, token |-> t, slot |-> NoSlot]
  BY <1>1 DEF ScanTypeOK
<1>17. wk[w].at = "idle"
  BY DEF Claim
<1>18. RowEffect(j)
  BY <1>2, <1>8, <1>11, <1>14, <1>16, <1>17 DEF RowEffect, Claimed
<1>19. RowsStep
  BY <1>13, <1>14, <1>15, <1>18 DEF RowsStep, Consistently
<1>. QED BY <1>1, <1>2, <1>8, <1>14, <1>15, <1>19

\* What the holder of a token writes to the rows of its scan.
LEMMA OwnerRows ==
  ASSUME ScanTypeOK, Consistently, NEW w \in ScanWorker,
         NEW row \in JobRow, NEW entry \in RunRow,
         job[wk[w].job].state = "running",
         job[wk[w].job].token = wk[w].token,
         Consistent(job[wk[w].job], run[wk[w].job]) => Consistent(row, entry),
         row.token = 0 \/ row.token = wk[w].token,
         Writes(wk[w].job, row, entry),
         \A x \in ScanWorker \ {w} : wk'[x] = wk[x]
  PROVE  RowsStep
<1>. DEFINE j == wk[w].job
<1>1. j \in Scan
  BY DEF ScanTypeOK
<1>2. Consistent(row, entry)
  BY <1>1 DEF Consistently
<1>3. /\ job' \in [Scan -> JobRow] /\ run' \in [Scan -> RunRow]
      /\ Consistently' /\ job'[j] = row
      /\ \A i \in Scan \ {j} : job'[i] = job[i] /\ run'[i] = run[i]
  BY <1>1, <1>2, WritesFits
<1>4. RowEffect(j)
  BY <1>3 DEF RowEffect, Owned
<1>. HIDE DEF j
<1>. QED BY <1>3, <1>4 DEF RowsStep, RowEffect, Untouched

LEMMA Others ==
  ASSUME ScanTypeOK, NEW w \in ScanWorker, NEW m, wk' = [wk EXCEPT ![w] = m]
  PROVE  \A x \in ScanWorker \ {w} : wk'[x] = wk[x]
BY DEF ScanTypeOK

LEMMA OthersAt ==
  ASSUME ScanTypeOK, NEW w \in ScanWorker, NEW a \in Place,
         wk' = [wk EXCEPT ![w].at = a]
  PROVE  /\ \A x \in ScanWorker \ {w} : wk'[x] = wk[x]
         /\ wk' \in [ScanWorker -> Memory]
         /\ wk'[w].at = a /\ wk'[w].token = wk[w].token
         /\ wk'[w].job = wk[w].job /\ wk'[w].slot = wk[w].slot
<1>1. wk[w] \in Memory /\ wk \in [ScanWorker -> Memory]
  BY DEF ScanTypeOK, Memory
<1>2. [wk[w] EXCEPT !.at = a] \in Memory
  BY <1>1 DEF Memory
<1>. QED BY <1>1, <1>2 DEF Memory

LEMMA RowTypes ==
  ASSUME ScanTypeOK, NEW j \in Scan
  PROVE  job[j] \in JobRow /\ run[j] \in RunRow
BY DEF ScanTypeOK, JobRow, RunRow

LEMMA WorkerType ==
  ASSUME ScanTypeOK, NEW w \in ScanWorker
  PROVE  wk[w] \in Memory /\ wk[w].job \in Scan
BY DEF ScanTypeOK, Memory

LEMMA ReleaseClaimRows ==
  ASSUME ScanTypeOK, Consistently, NEW w \in ScanWorker, ReleaseClaim(w)
  PROVE  RowsStep
<1>. DEFINE j == wk[w].job
            row == Requeued(job[j], job[j].phase, job[j].due)
            entry == [run[j] EXCEPT !.state = "queued"]
<1>1. j \in Scan /\ job[j] \in JobRow /\ run[j] \in RunRow
  BY WorkerType, RowTypes
<1>2. CASE ~(/\ job[j].state = "running" /\ job[j].token = wk[w].token
             /\ run[j].state = "running")
  <2>1. UNCHANGED <<job, run>>
    BY <1>2 DEF ReleaseClaim
  <2>. QED BY <2>1, KeepsFits DEF RowsStep, RowEffect, Untouched
<1>3. CASE /\ job[j].state = "running" /\ job[j].token = wk[w].token
           /\ run[j].state = "running"
  <2>1. Writes(j, row, entry)
    BY <1>1, <1>3 DEF ReleaseClaim, Writes, ScanTypeOK
  <2>2. row \in JobRow /\ row.state = "queued" /\ row.lease = "none"
          /\ row.token = 0
    BY <1>1, RequeuedRow DEF JobRow
  <2>3. /\ entry \in RunRow /\ entry.state = "queued"
        /\ entry.snapshot = run[j].snapshot
    BY <1>1 DEF RunRow, RunState
  <2>4. Consistent(job[j], run[j]) => Consistent(row, entry)
    BY <1>3, <2>2, <2>3 DEF Consistent
  <2>5. \A x \in ScanWorker \ {w} : wk'[x] = wk[x]
    BY Others DEF ReleaseClaim
  <2>. HIDE DEF row, entry
  <2>. QED BY <1>3, <2>1, <2>2, <2>3, <2>4, <2>5, OwnerRows
<1>. QED BY <1>2, <1>3

LEMMA SaveQuickRows ==
  ASSUME ScanTypeOK, Consistently, NEW w \in ScanWorker, SaveQuick(w)
  PROVE  RowsStep
<1>. DEFINE j == wk[w].job
            row == job[j]
            entry == [run[j] EXCEPT !.quick = TRUE]
<1>1. j \in Scan /\ job[j] \in JobRow /\ run[j] \in RunRow
  BY WorkerType, RowTypes
<1>2. job[j].state = "running" /\ job[j].token = wk[w].token
  BY DEF SaveQuick, Owns
<1>3. Writes(j, row, entry)
  BY <1>1 DEF SaveQuick, Writes, ScanTypeOK
<1>4. /\ entry \in RunRow /\ entry.state = run[j].state
      /\ entry.snapshot = run[j].snapshot
  BY <1>1 DEF RunRow
<1>5. Consistent(job[j], run[j]) => Consistent(row, entry)
  BY <1>4 DEF Consistent
<1>6. \A x \in ScanWorker \ {w} : wk'[x] = wk[x]
  BY DEF SaveQuick
<1>. HIDE DEF entry
<1>. QED BY <1>1, <1>2, <1>3, <1>4, <1>5, <1>6, OwnerRows

LEMMA SaveProgressRows ==
  ASSUME ScanTypeOK, Consistently, NEW w \in ScanWorker, SaveProgress(w)
  PROVE  RowsStep
<1>. DEFINE j == wk[w].job
            row == Requeued(job[j], job[j].phase + 1, TRUE)
            entry == run[j]
<1>1. j \in Scan /\ job[j] \in JobRow /\ run[j] \in RunRow
  BY WorkerType, RowTypes
<1>2. job[j].state = "running" /\ job[j].token = wk[w].token
  BY DEF SaveProgress, Owns
<1>3. job[j].phase + 1 \in 1..Phases
  BY <1>1, Bounds DEF SaveProgress, JobRow
<1>4. Writes(j, row, entry)
  BY <1>1 DEF SaveProgress, Writes, ScanTypeOK
<1>5. row \in JobRow /\ row.state = "queued" /\ row.lease = "none"
        /\ row.token = 0
  BY <1>1, <1>3, RequeuedRow
<1>6. Consistent(job[j], run[j]) => Consistent(row, entry)
  BY <1>2, <1>5 DEF Consistent
<1>7. \A x \in ScanWorker \ {w} : wk'[x] = wk[x]
  BY OthersAt DEF SaveProgress, Place
<1>. HIDE DEF row
<1>. QED BY <1>1, <1>2, <1>4, <1>5, <1>6, <1>7, OwnerRows

LEMMA CompleteRows ==
  ASSUME ScanTypeOK, Consistently, NEW w \in ScanWorker, CompleteRun(w)
  PROVE  RowsStep
<1>. DEFINE j == wk[w].job
            row == Ended(job[j], "complete")
            entry == [run[j] EXCEPT !.state = "complete_public",
                                    !.snapshot = TRUE]
<1>1. j \in Scan /\ job[j] \in JobRow /\ run[j] \in RunRow
  BY WorkerType, RowTypes
<1>2. job[j].state = "running" /\ job[j].token = wk[w].token
  BY DEF CompleteRun, Owns
<1>3. Writes(j, row, entry)
  BY <1>1 DEF CompleteRun, Writes, ScanTypeOK
<1>4. row \in JobRow /\ row.state = "complete" /\ row.lease = "none"
        /\ row.token = 0
  BY <1>1, EndedRow DEF JobState
<1>5. entry \in RunRow /\ entry.state = "complete_public" /\ entry.snapshot
  BY <1>1 DEF RunRow, RunState
<1>6. Consistent(job[j], run[j]) => Consistent(row, entry)
  BY <1>4, <1>5 DEF Consistent
<1>7. \A x \in ScanWorker \ {w} : wk'[x] = wk[x]
  BY OthersAt DEF CompleteRun, Place
<1>. HIDE DEF row, entry
<1>. QED BY <1>2, <1>3, <1>4, <1>5, <1>6, <1>7, OwnerRows

LEMMA FailRows ==
  ASSUME ScanTypeOK, Consistently, NEW w \in ScanWorker, NEW retry \in BOOLEAN,
         Fail(w, retry)
  PROVE  RowsStep
<1>. DEFINE j == wk[w].job
            row == IF retry THEN Requeued(job[j], job[j].phase, FALSE)
                            ELSE Ended(job[j], "failed")
            entry == [run[j] EXCEPT !.state = IF retry THEN "queued"
                                                       ELSE "failed"]
<1>1. j \in Scan /\ job[j] \in JobRow /\ run[j] \in RunRow
  BY WorkerType, RowTypes
<1>2. job[j].state = "running" /\ job[j].token = wk[w].token
  BY DEF Fail, Owns
<1>3. Writes(j, row, entry)
  BY <1>1 DEF Fail, Writes, ScanTypeOK
<1>4. /\ row \in JobRow /\ row.state = (IF retry THEN "queued" ELSE "failed")
      /\ row.lease = "none" /\ row.token = 0
  <2>1. job[j].phase \in 1..Phases
    BY <1>1 DEF JobRow
  <2>2. CASE retry
    BY <1>1, <2>1, <2>2, RequeuedRow
  <2>3. CASE ~retry
    BY <1>1, <2>3, EndedRow DEF JobState
  <2>. QED BY <2>2, <2>3
<1>5. /\ entry \in RunRow /\ entry.snapshot = run[j].snapshot
      /\ entry.state = (IF retry THEN "queued" ELSE "failed")
  BY <1>1 DEF RunRow, RunState
<1>6. Consistent(job[j], run[j]) => Consistent(row, entry)
  BY <1>2, <1>4, <1>5 DEF Consistent
<1>7. \A x \in ScanWorker \ {w} : wk'[x] = wk[x]
  BY OthersAt DEF Fail, Place
<1>. HIDE DEF row, entry
<1>. QED BY <1>2, <1>3, <1>4, <1>5, <1>6, <1>7, OwnerRows

LEMMA LeaseEndsRows ==
  ASSUME ScanTypeOK, Consistently, NEW j \in Scan, LeaseEnds(j)
  PROVE  RowsStep
<1>. DEFINE row == [job[j] EXCEPT !.lease = "expired"]
            entry == run[j]
<1>1. job[j] \in JobRow /\ run[j] \in RunRow /\ Consistent(job[j], run[j])
  BY RowTypes DEF Consistently
<1>2. /\ row \in JobRow /\ row.state = job[j].state /\ row.lease = "expired"
      /\ row.token = job[j].token
  BY <1>1 DEF JobRow
<1>3. Consistent(row, entry)
  BY <1>1, <1>2 DEF Consistent, LeaseEnds
<1>4. Writes(j, row, entry) /\ job[j].lease = "live"
  BY <1>1 DEF LeaseEnds, Writes, ScanTypeOK
<1>5. /\ job' \in [Scan -> JobRow] /\ run' \in [Scan -> RunRow]
      /\ Consistently' /\ job'[j] = row /\ run'[j] = run[j]
      /\ \A i \in Scan \ {j} : job'[i] = job[i] /\ run'[i] = run[i]
  <2>. HIDE DEF row
  <2>. QED BY <1>1, <1>2, <1>3, <1>4, WritesFits
<1>. QED BY <1>4, <1>5 DEF RowsStep, RowEffect, Untouched, Timed

LEMMA BecomesDueRows ==
  ASSUME ScanTypeOK, Consistently, NEW j \in Scan, BecomesDue(j)
  PROVE  RowsStep
<1>. DEFINE row == [job[j] EXCEPT !.due = TRUE]
            entry == run[j]
<1>1. job[j] \in JobRow /\ run[j] \in RunRow /\ Consistent(job[j], run[j])
  BY RowTypes DEF Consistently
<1>2. /\ row \in JobRow /\ row.state = job[j].state
      /\ row.lease = job[j].lease /\ row.token = job[j].token
  BY <1>1 DEF JobRow
<1>3. Consistent(row, entry)
  BY <1>1, <1>2 DEF Consistent
<1>4. Writes(j, row, entry) /\ job[j].state = "queued"
  BY <1>1 DEF BecomesDue, Writes, ScanTypeOK
<1>5. /\ job' \in [Scan -> JobRow] /\ run' \in [Scan -> RunRow]
      /\ Consistently' /\ job'[j] = row /\ run'[j] = run[j]
      /\ \A i \in Scan \ {j} : job'[i] = job[i] /\ run'[i] = run[i]
  <2>. HIDE DEF row
  <2>. QED BY <1>1, <1>2, <1>3, <1>4, WritesFits
<1>. QED BY <1>4, <1>5 DEF RowsStep, RowEffect, Untouched, Timed

LEMMA RowsNext ==
  ASSUME ScanTypeOK, Consistently, [ScansNext]_scanVars
  PROVE  RowsStep
<1>1. CASE \E j \in Scan : Enqueue(j) \/ Seed(j) \/ Quarantine(j)
  BY <1>1, EnqueueRows, SeedRows, QuarantineRows
<1>2. CASE \E w \in ScanWorker, j \in Scan : Claim(w, j)
  BY <1>2, ClaimRows
<1>3. CASE \E w \in ScanWorker : ReleaseClaim(w) \/ SaveProgress(w)
             \/ CompleteRun(w) \/ SaveQuick(w)
  BY <1>3, ReleaseClaimRows, SaveProgressRows, CompleteRows, SaveQuickRows
<1>4. CASE \E w \in ScanWorker, retry \in BOOLEAN : Fail(w, retry)
  BY <1>4, FailRows
<1>5. CASE \E j \in Scan : LeaseEnds(j) \/ BecomesDue(j)
  BY <1>5, LeaseEndsRows, BecomesDueRows
<1>6. CASE UNCHANGED <<job, run>>
  BY <1>6, KeepsFits DEF RowsStep, RowEffect, Untouched
<1>7. CASE \E c \in 1..MaxSlots : Configure(c)
  BY <1>6, <1>7 DEF Configure
<1>8. CASE \E w \in ScanWorker : \/ AcquireSlot(w) \/ NoSlotFree(w)
             \/ Refused(w) \/ ReleaseSlot(w) \/ Die(w)
  BY <1>6, <1>8 DEF AcquireSlot, NoSlotFree, Refused, ReleaseSlot, Die
<1>9. CASE \E s \in 1..MaxSlots : SlotEnds(s)
  BY <1>6, <1>9 DEF SlotEnds
<1>10. CASE WindowEnds
  BY <1>6, <1>10 DEF WindowEnds
<1>11. CASE UNCHANGED scanVars
  BY <1>6, <1>11 DEF scanVars
<1>. QED
  BY <1>1, <1>2, <1>3, <1>4, <1>5, <1>7, <1>8, <1>9, <1>10, <1>11
  DEF ScansNext, ExecutionStep
-----------------------------------------------------------------------------
(* What a step does to the workers, the slots and the counters.            *)

\* A worker stays, goes on under its token, or forgets it.
Continues(w) ==
  \/ wk'[w] = wk[w]
  \/ /\ wk[w].at # "idle" /\ wk'[w].at # "idle"
     /\ wk'[w].token = wk[w].token /\ wk'[w].job = wk[w].job
  \/ wk'[w] = NoClaim

WorkersStep ==
  /\ wk' \in [ScanWorker -> Memory]
  /\ \/ \A w \in ScanWorker : Continues(w)
     \/ \E w \in ScanWorker, j \in Scan, t \in Nat \ {0} :
          /\ wk'[w].at = "claimed" /\ wk'[w].job = j /\ wk'[w].token = t
          /\ job'[j].token = t
          /\ \A k \in Scan : job[k].token # t
          /\ \A v \in ScanWorker : wk[v].token # t
          /\ \A v \in ScanWorker \ {w} : wk'[v] = wk[v]

LEMMA WorkerMoves ==
  ASSUME ScanTypeOK, NEW w \in ScanWorker, NEW a \in Place \ {"idle"},
         wk[w].at # "idle", wk' = [wk EXCEPT ![w].at = a]
  PROVE  WorkersStep
BY OthersAt DEF WorkersStep, Continues

LEMMA WorkerForgets ==
  ASSUME ScanTypeOK, NEW w \in ScanWorker, wk' = [wk EXCEPT ![w] = NoClaim]
  PROVE  WorkersStep
<1>1. wk \in [ScanWorker -> Memory]
  BY DEF ScanTypeOK, Memory
<1>. QED BY <1>1, Defaults DEF WorkersStep, Continues

LEMMA WorkersStay ==
  ASSUME ScanTypeOK, UNCHANGED wk
  PROVE  WorkersStep
BY DEF WorkersStep, Continues, ScanTypeOK, Memory

LEMMA AcquireWorkers ==
  ASSUME ScanTypeOK, NEW w \in ScanWorker, AcquireSlot(w)
  PROVE  WorkersStep
<1>1. PICK s \in 1..capacity :
        wk' = [wk EXCEPT ![w].at = "slotted", ![w].slot = s]
  BY DEF AcquireSlot
<1>2. s \in 0..MaxSlots
  BY Bounds DEF ScanTypeOK
<1>3. wk[w] \in Memory /\ wk \in [ScanWorker -> Memory]
  BY DEF ScanTypeOK, Memory
<1>4. wk' = [wk EXCEPT ![w] = [wk[w] EXCEPT !.at = "slotted", !.slot = s]]
  BY <1>1, <1>3
<1>5. [wk[w] EXCEPT !.at = "slotted", !.slot = s] \in Memory
  BY <1>2, <1>3 DEF Memory, Place
<1>6. /\ wk' \in [ScanWorker -> Memory] /\ wk'[w].at = "slotted"
      /\ wk'[w].token = wk[w].token /\ wk'[w].job = wk[w].job
      /\ \A v \in ScanWorker \ {w} : wk'[v] = wk[v]
  BY <1>3, <1>4, <1>5 DEF Memory
<1>. QED BY <1>6 DEF WorkersStep, Continues, AcquireSlot

LEMMA ClaimWorkers ==
  ASSUME ScanTypeOK, Consistently, NEW w \in ScanWorker, NEW j \in Scan,
         Claim(w, j)
  PROVE  WorkersStep
<1>1. PICK t \in Nat \ {0} :
        /\ job'[j].token = t
        /\ wk' = [wk EXCEPT ![w] = [at |-> "claimed", job |-> j,
                                     token |-> t, slot |-> NoSlot]]
        /\ \A k \in Scan : job[k].token # t
        /\ \A v \in ScanWorker : wk[v].token # t
  BY ClaimRows
<1>2. [at |-> "claimed", job |-> j, token |-> t, slot |-> NoSlot] \in Memory
  BY Bounds DEF Memory, Place, NoSlot
<1>3. wk \in [ScanWorker -> Memory]
  BY DEF ScanTypeOK, Memory
<1>4. /\ wk' \in [ScanWorker -> Memory] /\ wk'[w].at = "claimed"
      /\ wk'[w].token = t /\ wk'[w].job = j
      /\ \A v \in ScanWorker \ {w} : wk'[v] = wk[v]
  BY <1>1, <1>2, <1>3
<1>. QED BY <1>1, <1>4 DEF WorkersStep

LEMMA WorkersNext ==
  ASSUME ScanTypeOK, Consistently, [ScansNext]_scanVars
  PROVE  WorkersStep
<1>1. CASE \E w \in ScanWorker, j \in Scan : Claim(w, j)
  BY <1>1, ClaimWorkers
<1>2. CASE \E w \in ScanWorker : AcquireSlot(w)
  BY <1>2, AcquireWorkers
<1>3. CASE \E w \in ScanWorker : \/ NoSlotFree(w) \/ SaveProgress(w)
             \/ CompleteRun(w) \/ Refused(w)
  BY <1>3, WorkerMoves
  DEF NoSlotFree, SaveProgress, CompleteRun, Refused, Place
<1>4. CASE \E w \in ScanWorker, retry \in BOOLEAN : Fail(w, retry)
  BY <1>4, WorkerMoves DEF Fail, Place
<1>5. CASE \E w \in ScanWorker : ReleaseClaim(w) \/ ReleaseSlot(w) \/ Die(w)
  BY <1>5, WorkerForgets DEF ReleaseClaim, ReleaseSlot, Die
<1>6. CASE \/ \E j \in Scan : \/ Enqueue(j) \/ Seed(j) \/ Quarantine(j)
                              \/ LeaseEnds(j) \/ BecomesDue(j)
           \/ \E c \in 1..MaxSlots : Configure(c)
           \/ \E w \in ScanWorker : SaveQuick(w)
           \/ \E s \in 1..MaxSlots : SlotEnds(s)
           \/ WindowEnds \/ UNCHANGED scanVars
  BY <1>6, WorkersStay
  DEF Enqueue, Seed, Quarantine, LeaseEnds, BecomesDue, Configure, SaveQuick,
    SlotEnds, WindowEnds, scanVars
<1>. QED
  BY <1>1, <1>2, <1>3, <1>4, <1>5, <1>6 DEF ScansNext, ExecutionStep

LEMMA TokenedNext ==
  ASSUME ScanTypeOK, Tokened, RowsStep, WorkersStep
  PROVE  Tokened'
<1>1. \A k \in Scan : RowEffect(k) /\ job[k].token \in Nat
  BY DEF RowsStep, ScanTypeOK
<1>2. \A w \in ScanWorker : wk[w].token \in Nat /\ wk'[w].token \in Nat
  BY DEF ScanTypeOK, WorkersStep, Memory
<1>3. ASSUME NEW k \in Scan,
             \A w \in ScanWorker : ~Claimed(w, k)
      PROVE  job'[k].token \in {0, job[k].token}
  <2>1. job[k] \in JobRow
    BY RowTypes
  <2>2. CASE Timed(k)
    BY <2>1, <2>2 DEF Timed, JobRow
  <2>. QED BY <1>1, <1>3, <2>2
           DEF RowEffect, Untouched, Admitted, Unleased, Owned
<1>4. CASE \A w \in ScanWorker : Continues(w)
  <2>1. \A w \in ScanWorker :
          /\ wk'[w].token \in {0, wk[w].token}
          /\ wk'[w].token # 0 => wk'[w].job = wk[w].job
          /\ wk'[w].at = "idle" <=> wk'[w].token = 0
    BY <1>4, Defaults DEF Continues, Tokened
  <2>2. \A w \in ScanWorker, k \in Scan : ~Claimed(w, k)
    BY <2>1 DEF Claimed
  <2>3. \A k \in Scan : job'[k].token \in {0, job[k].token}
    BY <1>3, <2>2
  <2>. QED BY <2>1, <2>3 DEF Tokened
<1>5. ASSUME NEW w \in ScanWorker, NEW j \in Scan, NEW t \in Nat \ {0},
             wk'[w].at = "claimed", wk'[w].job = j, wk'[w].token = t,
             job'[j].token = t,
             \A k \in Scan : job[k].token # t,
             \A v \in ScanWorker : wk[v].token # t,
             \A v \in ScanWorker \ {w} : wk'[v] = wk[v]
      PROVE  Tokened'
  <2>1. \A v \in ScanWorker, k \in Scan \ {j} : ~Claimed(v, k)
    BY <1>5 DEF Claimed
  <2>2. \A k \in Scan \ {j} : job'[k].token \in {0, job[k].token}
    BY <1>3, <2>1
  <2>. QED BY <1>5, <2>2 DEF Tokened
<1>. QED BY <1>4, <1>5 DEF WorkersStep

SlotsStep ==
  /\ slot' \in [1..MaxSlots -> [token : Nat, live : BOOLEAN]]
  /\ capacity' \in 1..MaxSlots
  /\ SlotsFit'
  /\ SlotIsKept

LEMMA SlotsNext ==
  ASSUME ScanTypeOK, SlotsFit, [ScansNext]_scanVars
  PROVE  SlotsStep
<1>. DEFINE SlotRow == [token : Nat, live : BOOLEAN]
<1>0. /\ slot \in [1..MaxSlots -> SlotRow] /\ capacity \in 1..MaxSlots
      /\ FreeSlot \in SlotRow /\ FreeSlot.live = FALSE
  BY DEF ScanTypeOK, FreeSlot
<1>1. CASE UNCHANGED <<slot, capacity>>
  BY <1>0, <1>1 DEF SlotsStep, SlotsFit, SlotIsKept
<1>2. ASSUME NEW c \in 1..MaxSlots, Configure(c) PROVE SlotsStep
  <2>1. \A s \in 1..MaxSlots : slot[s].live => s <= c
    <3>1. CASE c < capacity
      BY <1>2, <3>1 DEF Configure, LiveSlots
    <3>2. CASE ~(c < capacity)
      <4>1. capacity <= c
        BY <1>0, <3>2, Bounds
      <4>. QED BY <1>0, <4>1, Bounds DEF SlotsFit
    <3>. QED BY <3>1, <3>2
  <2>2. slot' = slot /\ capacity' = c
    BY <1>2 DEF Configure
  <2>. QED BY <1>0, <2>1, <2>2 DEF SlotsStep, SlotsFit, SlotIsKept
<1>3. ASSUME NEW w \in ScanWorker, AcquireSlot(w) PROVE SlotsStep
  <2>1. PICK s \in 1..capacity :
          /\ ~slot[s].live
          /\ slot' = [slot EXCEPT ![s] = [token |-> wk[w].token,
                                          live |-> TRUE]]
    BY <1>3 DEF AcquireSlot
  <2>2. s \in 1..MaxSlots /\ s <= capacity
    BY <1>0, Bounds
  <2>3. [token |-> wk[w].token, live |-> TRUE] \in SlotRow
    BY DEF ScanTypeOK
  <2>4. /\ slot' \in [1..MaxSlots -> SlotRow]
        /\ \A r \in 1..MaxSlots : r # s => slot'[r] = slot[r]
    BY <1>0, <2>1, <2>2, <2>3
  <2>5. capacity' = capacity
    BY <1>3 DEF AcquireSlot
  <2>. QED
    BY <1>0, <2>1, <2>2, <2>4, <2>5 DEF SlotsStep, SlotsFit, SlotIsKept
<1>4. ASSUME NEW w \in ScanWorker, ReleaseSlot(w) PROVE SlotsStep
  <2>1. /\ slot' = [r \in 1..MaxSlots |->
                     IF r = wk[w].slot /\ slot[r].token = wk[w].token
                       THEN FreeSlot ELSE slot[r]]
        /\ capacity' = capacity
    BY <1>4 DEF ReleaseSlot
  <2>2. wk'[w] = NoClaim
    BY <1>4 DEF ReleaseSlot, ScanTypeOK
  <2>3. \A r \in 1..MaxSlots :
          \/ slot'[r] = slot[r]
          \/ slot'[r] = FreeSlot /\ slot[r].token = wk[w].token
    BY <2>1
  <2>4. slot' \in [1..MaxSlots -> SlotRow]
    BY <1>0, <2>1
  <2>. QED
    BY <1>0, <2>1, <2>2, <2>3, <2>4 DEF SlotsStep, SlotsFit, SlotIsKept
<1>5. ASSUME NEW s \in 1..MaxSlots, SlotEnds(s) PROVE SlotsStep
  <2>1. /\ slot' = [slot EXCEPT ![s] = [slot[s] EXCEPT !.live = FALSE]]
        /\ capacity' = capacity
    BY <1>0, <1>5 DEF SlotEnds
  <2>2. [slot[s] EXCEPT !.live = FALSE] \in SlotRow
    BY <1>0
  <2>3. /\ slot' \in [1..MaxSlots -> SlotRow]
        /\ \A r \in 1..MaxSlots : r # s => slot'[r] = slot[r]
        /\ ~slot'[s].live /\ slot'[s].token = slot[s].token
    BY <1>0, <2>1, <2>2
  <2>. QED BY <1>0, <2>1, <2>3 DEF SlotsStep, SlotsFit, SlotIsKept
<1>. HIDE DEF SlotRow
<1>6. CASE \/ \E j \in Scan : \/ Enqueue(j) \/ Seed(j) \/ Quarantine(j)
                              \/ LeaseEnds(j) \/ BecomesDue(j)
           \/ \E w \in ScanWorker, j \in Scan : Claim(w, j)
           \/ \E w \in ScanWorker, retry \in BOOLEAN : Fail(w, retry)
           \/ \E w \in ScanWorker :
                \/ NoSlotFree(w) \/ ReleaseClaim(w) \/ SaveProgress(w)
                \/ CompleteRun(w) \/ Refused(w) \/ SaveQuick(w) \/ Die(w)
           \/ WindowEnds \/ UNCHANGED scanVars
  <2>1. UNCHANGED <<slot, capacity>>
    BY <1>6
    DEF Enqueue, Seed, Quarantine, LeaseEnds, BecomesDue, Claim, Fail,
      NoSlotFree, ReleaseClaim, SaveProgress, CompleteRun, Refused, SaveQuick,
      Die, WindowEnds, scanVars
  <2>. QED BY <1>1, <2>1
<1>. QED
  BY <1>2, <1>3, <1>4, <1>5, <1>6 DEF ScansNext, ExecutionStep

CountersStep ==
  /\ ahead' \subseteq Scan \X Scan
  /\ spent' \in 0..Limit
  /\ trouble' \in 0..ScanTrouble

LEMMA CountersNext ==
  ASSUME ScanTypeOK, [ScansNext]_scanVars
  PROVE  CountersStep
<1>1. /\ ahead \subseteq Scan \X Scan /\ spent \in 0..Limit
      /\ trouble \in 0..ScanTrouble
  BY DEF ScanTypeOK
<1>2. \A j \in Scan : /\ Without(j) \subseteq Scan \X Scan
                      /\ Behind(j) \subseteq Scan \X Scan
  BY <1>1 DEF Without, Behind
<1>3. ASSUME spent < Limit PROVE spent + 1 \in 0..Limit
  BY <1>1, <1>3, Bounds
<1>4. ASSUME trouble > 0 PROVE trouble - 1 \in 0..ScanTrouble
  BY <1>1, <1>4, Bounds
<1>5. 0 \in 0..Limit
  BY Bounds
<1>6. ASSUME NEW w \in ScanWorker PROVE wk[w].job \in Scan
  BY WorkerType
<1>7. CASE \E j \in Scan : \/ Enqueue(j) \/ Seed(j) \/ Quarantine(j)
                           \/ LeaseEnds(j) \/ BecomesDue(j)
  BY <1>1, <1>2, <1>3, <1>4, <1>7
  DEF Enqueue, Seed, Quarantine, LeaseEnds, BecomesDue, CountersStep
<1>8. CASE \E w \in ScanWorker : \/ SaveProgress(w) \/ CompleteRun(w)
             \/ \E retry \in BOOLEAN : Fail(w, retry)
  BY <1>1, <1>2, <1>4, <1>6, <1>8
  DEF SaveProgress, CompleteRun, Fail, CountersStep
<1>9. CASE \/ \E w \in ScanWorker, j \in Scan : Claim(w, j)
           \/ \E c \in 1..MaxSlots : Configure(c)
           \/ \E s \in 1..MaxSlots : SlotEnds(s)
           \/ \E w \in ScanWorker :
                \/ NoSlotFree(w) \/ ReleaseClaim(w) \/ AcquireSlot(w)
                \/ ReleaseSlot(w) \/ Refused(w) \/ SaveQuick(w) \/ Die(w)
           \/ WindowEnds \/ UNCHANGED scanVars
  BY <1>1, <1>4, <1>5, <1>9
  DEF Claim, Configure, SlotEnds, NoSlotFree, ReleaseClaim, AcquireSlot,
    ReleaseSlot, Refused, SaveQuick, Die, WindowEnds, scanVars, CountersStep
<1>. QED BY <1>7, <1>8, <1>9 DEF ScansNext, ExecutionStep

\* Only an admission makes a scan active, and only while there is room.
ActiveStep ==
  \/ \A k \in Scan : job'[k].state \in Active => job[k].state \in Active
  \/ \E j \in Scan :
       /\ Cardinality(ActiveOf(j.version)) < MaxActive
       /\ \A k \in Scan \ {j} : job'[k] = job[k]

LEMMA ActiveNext ==
  ASSUME ScanTypeOK, Consistently, [ScansNext]_scanVars
  PROVE  ActiveStep
<1>1. ASSUME NEW j \in Scan, Enqueue(j) PROVE ActiveStep
  <2>1. \A k \in Scan \ {j} : job'[k] = job[k]
    BY <1>1 DEF Enqueue, ScanTypeOK
  <2>. QED BY <1>1, <2>1 DEF ActiveStep, Enqueue
<1>2. ASSUME \A k \in Scan : ~Admitted(k) PROVE ActiveStep
  <2>1. ASSUME NEW k \in Scan, job'[k].state \in Active
        PROVE  job[k].state \in Active
    <3>1. job[k] \in JobRow /\ RowEffect(k)
      BY RowTypes, RowsNext DEF RowsStep
    <3>2. CASE Timed(k)
      BY <2>1, <3>1, <3>2 DEF Timed, JobRow
    <3>3. CASE Untouched(k) \/ Unleased(k) \/ Owned(k)
      BY <2>1, <3>3 DEF Untouched, Unleased, Owned, Lapsed, Active
    <3>4. CASE \E w \in ScanWorker : Claimed(w, k)
      BY <3>4 DEF Claimed, Lapsed, Active
    <3>. QED BY <1>2, <3>1, <3>2, <3>3, <3>4 DEF RowEffect
  <2>. QED BY <2>1 DEF ActiveStep
<1>. QED BY <1>1, <1>2 DEF Admitted

LEMMA ActiveFinite ==
  ASSUME NEW v
  PROVE  IsFiniteSet(ActiveOf(v)) /\ IsFiniteSet(ActiveOf(v))'
         /\ Cardinality(ActiveOf(v)) \in Nat
         /\ Cardinality(ActiveOf(v))' \in Nat
<1>1. ActiveOf(v) \subseteq Scan /\ ActiveOf(v)' \subseteq Scan
  BY DEF ActiveOf
<1>. QED BY <1>1, PublicScanAssumption, FS_Subset, FS_CardinalityType

LEMMA AdmissionNext ==
  ASSUME AdmissionBound, ActiveStep
  PROVE  AdmissionBound'
<1>. SUFFICES ASSUME NEW i \in Scan
              PROVE  Cardinality(ActiveOf(i.version))' <= MaxActive
  BY DEF AdmissionBound, ActiveOf
<1>. DEFINE v == i.version
<1>1. Cardinality(ActiveOf(v)) <= MaxActive
  BY DEF AdmissionBound, ActiveOf
<1>2. ASSUME ActiveOf(v)' \subseteq ActiveOf(v)
      PROVE  Cardinality(ActiveOf(v))' <= MaxActive
  BY <1>1, <1>2, ActiveFinite, FS_Subset, Bounds
<1>3. CASE \A k \in Scan : job'[k].state \in Active => job[k].state \in Active
  BY <1>2, <1>3 DEF ActiveOf
<1>4. ASSUME NEW j \in Scan, Cardinality(ActiveOf(j.version)) < MaxActive,
             \A k \in Scan \ {j} : job'[k] = job[k]
      PROVE  Cardinality(ActiveOf(v))' <= MaxActive
  <2>1. CASE j.version # v
    BY <1>2, <1>4, <2>1 DEF ActiveOf
  <2>2. CASE j.version = v
    <3>1. ActiveOf(v)' \subseteq ActiveOf(v) \cup {j}
      BY <1>4 DEF ActiveOf
    <3>2. /\ IsFiniteSet(ActiveOf(v) \cup {j})
          /\ Cardinality(ActiveOf(v) \cup {j}) <= Cardinality(ActiveOf(v)) + 1
      <4>1. IsFiniteSet(ActiveOf(v)) /\ Cardinality(ActiveOf(v)) \in Nat
        BY ActiveFinite
      <4>2. /\ IsFiniteSet(ActiveOf(v) \cup {j})
            /\ \/ Cardinality(ActiveOf(v) \cup {j}) = Cardinality(ActiveOf(v))
               \/ Cardinality(ActiveOf(v) \cup {j})
                    = Cardinality(ActiveOf(v)) + 1
        BY <4>1, FS_AddElement
      <4>. QED BY <4>1, <4>2
    <3>3. Cardinality(ActiveOf(v))' <= Cardinality(ActiveOf(v) \cup {j})
      BY <3>1, <3>2, FS_Subset
    <3>4. Cardinality(ActiveOf(v) \cup {j}) \in Nat
      BY <3>2, FS_CardinalityType
    <3>. QED BY <1>4, <2>2, <3>2, <3>3, <3>4, ActiveFinite, Bounds
  <2>. QED BY <2>1, <2>2
<1>. QED BY <1>3, <1>4 DEF ActiveStep
-----------------------------------------------------------------------------
(* The invariant and what follows from it.                                 *)

LEMMA RowsInvInit == ScansInit => RowsInv
<1>. SUFFICES ASSUME ScansInit PROVE RowsInv
  OBVIOUS
<1>1. ScanTypeOK
  <2>1. job \in [Scan -> JobRow] /\ run \in [Scan -> RunRow]
          /\ wk \in [ScanWorker -> Memory]
    BY Defaults DEF ScansInit
  <2>2. slot \in [1..MaxSlots -> [token : Nat, live : BOOLEAN]]
    BY DEF ScansInit, FreeSlot
  <2>3. /\ ahead \subseteq Scan \X Scan /\ capacity \in 1..MaxSlots
        /\ spent \in 0..Limit /\ trouble \in 0..ScanTrouble
    BY Bounds DEF ScansInit
  <2>. QED BY <2>1, <2>2, <2>3 DEF ScanTypeOK, JobRow, RunRow, Memory
<1>2. Consistently
  BY Defaults DEF ScansInit, Consistently
<1>3. Tokened
  BY Defaults DEF ScansInit, Tokened
<1>4. SlotsFit
  BY DEF ScansInit, SlotsFit, FreeSlot
<1>5. AdmissionBound
  <2>1. \A v : ActiveOf(v) = {}
    BY DEF ScansInit, ActiveOf, NoJob, Active
  <2>2. \A j \in Scan : Cardinality(ActiveOf(j.version)) <= MaxActive
    BY <2>1, FS_EmptySet, Bounds
  <2>. QED BY <2>2 DEF AdmissionBound, ActiveOf
<1>. QED BY <1>1, <1>2, <1>3, <1>4, <1>5 DEF RowsInv

LEMMA RowsInvNext == RowsInv /\ [ScansNext]_scanVars => RowsInv'
<1>. SUFFICES ASSUME RowsInv, [ScansNext]_scanVars PROVE RowsInv'
  OBVIOUS
<1>1. RowsStep /\ WorkersStep /\ SlotsStep /\ CountersStep /\ ActiveStep
  BY RowsNext, WorkersNext, SlotsNext, CountersNext, ActiveNext DEF RowsInv
<1>2. ScanTypeOK'
  BY <1>1
  DEF RowsStep, WorkersStep, SlotsStep, CountersStep, ScanTypeOK, JobRow,
    RunRow, Memory
<1>3. Consistently' /\ SlotsFit'
  BY <1>1 DEF RowsStep, SlotsStep
<1>4. Tokened' /\ AdmissionBound'
  BY <1>1, TokenedNext, AdmissionNext DEF RowsInv
<1>. QED BY <1>2, <1>3, <1>4 DEF RowsInv

\* The invariant of the durable store.
THEOREM PublicScanInvariant == ScansSpec => []RowsInv
<1>. QED BY RowsInvInit, RowsInvNext, PTL DEF ScansSpec

LEMMA RowsFollow == RowsInv => RunFollowsJob
BY DEF RowsInv, Consistently, Consistent, RunFollowsJob

LEMMA RowsOneOwner == RowsInv => OneOwner
<1>. SUFFICES ASSUME RowsInv, NEW v \in ScanWorker, NEW w \in ScanWorker,
                     Owns(v), Owns(w), wk[v].job = wk[w].job
              PROVE  v = w
  BY DEF OneOwner
<1>1. Consistent(job[wk[v].job], run[wk[v].job])
  BY WorkerType DEF RowsInv, Consistently
<1>2. wk[v].token = wk[w].token /\ wk[v].token # 0
  BY <1>1 DEF Owns, Consistent
<1>. QED BY <1>2 DEF RowsInv, Tokened

LEMMA RowsBounds == RowsInv => ExecutionsBounded
<1>. SUFFICES ASSUME RowsInv PROVE Cardinality(LiveSlots) <= capacity
  BY DEF ExecutionsBounded
<1>1. capacity \in Nat /\ capacity \in 1..MaxSlots
  BY Bounds DEF RowsInv, ScanTypeOK
<1>2. LiveSlots \subseteq 1..capacity
  BY <1>1, Bounds DEF RowsInv, SlotsFit, LiveSlots
<1>3. IsFiniteSet(1..capacity) /\ Cardinality(1..capacity) = capacity
  BY <1>1, FS_Interval
<1>. QED BY <1>2, <1>3, FS_Subset

LEMMA KeepsLeases ==
  RowsInv /\ [ScansNext]_scanVars => [LiveLeaseIsKept]_scanVars
<1>. SUFFICES ASSUME RowsInv, [ScansNext]_scanVars, NEW j \in Scan,
                     job[j].lease = "live",
                     job'[j] # job[j] \/ run'[j] # run[j]
              PROVE  \/ job'[j] = [job[j] EXCEPT !.lease = "expired"]
                     \/ \E w \in ScanWorker :
                          /\ wk[w].token = job[j].token
                          /\ \A x \in ScanWorker \ {w} : wk'[x] = wk[x]
  BY DEF LiveLeaseIsKept
<1>1. RowEffect(j)
  BY RowsNext DEF RowsInv, RowsStep
<1>2. Consistent(job[j], run[j])
  BY DEF RowsInv, Consistently
<1>3. job[j].state = "running"
  BY <1>2 DEF Consistent
<1>4. ~Admitted(j) /\ ~Unleased(j) /\ \A w \in ScanWorker : ~Claimed(w, j)
  BY <1>3 DEF Admitted, Enqueue, Unleased, Claimed, Lapsed
<1>. QED BY <1>1, <1>3, <1>4 DEF RowEffect, Untouched, Timed, Owned

LEMMA KeepsEnded == RowsInv /\ [ScansNext]_scanVars => [EndedIsFinal]_scanVars
<1>. SUFFICES ASSUME RowsInv, [ScansNext]_scanVars, NEW j \in Scan,
                     job[j].state \in {"complete", "failed"}
              PROVE  job'[j] = job[j] /\ run'[j] = run[j]
  BY DEF EndedIsFinal
<1>1. RowEffect(j)
  BY RowsNext DEF RowsInv, RowsStep
<1>2. Consistent(job[j], run[j])
  BY DEF RowsInv, Consistently
<1>3. job[j].lease = "none"
  BY <1>2 DEF Consistent, RowsInv, ScanTypeOK
<1>. QED
  BY <1>1, <1>3
  DEF RowEffect, Untouched, Admitted, Enqueue, Unleased, Claimed, Lapsed, Owned,
    Timed

LEMMA KeepsSlots == RowsInv /\ [ScansNext]_scanVars => [SlotIsKept]_scanVars
BY SlotsNext DEF RowsInv, SlotsStep

\* The rows of a scan tell the same story after every transaction.
THEOREM RunFollowsJobHolds == ScansSpec => []RunFollowsJob
<1>. QED BY PublicScanInvariant, RowsFollow, PTL

\* Among workers that come back late, at most one may write for a scan.
THEOREM OneOwnerHolds == ScansSpec => []OneOwner
<1>. QED BY PublicScanInvariant, RowsOneOwner, PTL

\* While a lease is live, only its holder writes the rows of the scan.
THEOREM LiveLeaseIsKeptHolds == ScansSpec => [][LiveLeaseIsKept]_scanVars
<1>. QED BY PublicScanInvariant, KeepsLeases, PTL DEF ScansSpec

\* No more executions than slots configured, however the capacity changes.
THEOREM ExecutionsBoundedHolds == ScansSpec => []ExecutionsBounded
<1>. QED BY PublicScanInvariant, RowsBounds, PTL

\* All that the scans run checks of the durable store.
THEOREM PublicScanSafeHolds == ScansSpec => PublicScanSafe
<1>1. RowsInv => /\ ScanTypeOK /\ RunFollowsJob /\ OneOwner
             /\ ExecutionsBounded /\ AdmissionBound
  BY RowsFollow, RowsOneOwner, RowsBounds DEF RowsInv
<1>2. RowsInv /\ [ScansNext]_scanVars
        => [LiveLeaseIsKept /\ EndedIsFinal /\ SlotIsKept]_scanVars
  BY KeepsLeases, KeepsEnded, KeepsSlots
<1>. QED
  BY <1>1, <1>2, PublicScanInvariant, PTL DEF ScansSpec, PublicScanSafe
-----------------------------------------------------------------------------
(* The commit facts of a durable scan.                                     *)

Prepared == work[<<1, Commits>>].state # "none"
Counting == Open \cup Finished
Inside(q, r) == r[1] <= q[1] /\ q[2] <= r[2]

\* The candidates are found when the cursor passes them, and the first range
\* is there when it passes the preparation.
Gathered ==
  /\ \A c \in 1..Commits : c <= cursor => c \in candidates
  /\ cursor > Commits => Prepared

\* Of a commit, the range that counts it.
CountedIn(r, c) ==
  /\ r \in Counting /\ Covers(r, c)
  /\ \A q \in Counting : Covers(q, c) => q = r

RangesFit ==
  /\ ~Prepared => \A r \in Ranges : work[r].state = "none"
  /\ Prepared => \A c \in 1..Commits : \E r \in Ranges : CountedIn(r, c)
  /\ \A r \in Counting : \A q \in Ranges :
       Inside(q, r) /\ q # r => work[q].state = "none"

\* A row counts the pages before the one it is queued at.
RowFits(r) ==
  /\ work[r].state = "none" => work[r] = NoWork
  /\ work[r].state = "queued" =>
       work[r].page <= Size(r) /\ work[r].count = work[r].page - 1
  /\ work[r].state = "complete" => work[r].count = Size(r)

\* What a worker is about to do belongs to the cursor it read, as long as
\* the lease is its own; and what it has done can be seen.
Doing(w) ==
  LET k == verifier[w]
      mine == holder = w /\ ~ended
  IN /\ k.at # "idle" /\ mine /\ k.op = "upsert" => k.page = cursor + 1
     /\ k.at # "idle" /\ k.op = "prepare" => cursor >= Commits
     /\ k.at # "idle" /\ mine /\ k.op = "prepare" => cursor = Commits
     /\ k.at = "plan" \/ k.op \in {"page", "split", "materialize"} =>
          cursor > Commits
     /\ k.at = "saving" /\ k.op = "upsert" => k.page \in candidates
     /\ k.at = "saving" /\ k.op = "prepare" => Prepared
     /\ k.op = "split" => k.range[1] <= k.cut /\ k.cut < k.range[2]
     /\ k.op = "materialize" => Open = {}
     /\ k.at = "saving" /\ k.op = "materialize" => total = Commits
     /\ k.at = "empty" => k.op = "materialize"
     /\ k.at = "plan" => k.op = "none"

FactsInv ==
  /\ FactsTypeOK
  /\ Gathered
  /\ RangesFit
  /\ \A r \in Ranges : RowFits(r)
  /\ \A w \in Verifier : Doing(w)
  /\ CommitsCountedOnce

LEMMA TheFirstRange ==
  /\ <<1, Commits>> \in Ranges
  /\ <<1, 1>> \in Ranges
BY FactsAssumption DEF FactsAssumption, Ranges

LEMMA RangeEnds ==
  ASSUME NEW r \in Ranges
  PROVE  /\ r[1] \in 1..Commits /\ r[2] \in 1..Commits /\ r[1] <= r[2]
         /\ r = <<r[1], r[2]>>
BY DEF Ranges

LEMMA RangeByEnds ==
  ASSUME NEW a \in 1..Commits, NEW b \in 1..Commits, a <= b
  PROVE  /\ <<a, b>> \in Ranges
         /\ <<a, b>>[1] = a /\ <<a, b>>[2] = b
BY DEF Ranges

\* Rows of the verification work.
Row == [state : {"none", "queued", "superseded", "complete"},
        page : 1..Commits, count : Nat]

LEMMA FetchedRow ==
  /\ NoWork \in Row /\ Fetched \in Row
  /\ NoWork.state = "none"
  /\ Fetched.state = "queued" /\ Fetched.page = 1 /\ Fetched.count = 0
BY FactsAssumption DEF FactsAssumption, Row, NoWork, Fetched

\* The two parts of a range that is split in two.
LEMMA PartsOf ==
  ASSUME NEW r \in Ranges, NEW cut \in Int, r[1] <= cut, cut < r[2]
  PROVE  /\ Parts(r, cut) \subseteq Ranges
         /\ \A q \in Parts(r, cut) : Inside(q, r) /\ q # r /\ Size(q) >= 1
         /\ \A c \in 1..Commits : Covers(r, c) =>
              \E q \in Parts(r, cut) :
                /\ Covers(q, c)
                /\ \A p \in Parts(r, cut) : Covers(p, c) => p = q
<1> DEFINE p == <<r[1], cut>>
           q == <<cut + 1, r[2]>>
<1>1. /\ p \in Ranges /\ p[1] = r[1] /\ p[2] = cut
      /\ q \in Ranges /\ q[1] = cut + 1 /\ q[2] = r[2]
      /\ r[1] \in Int /\ r[2] \in Int
  BY RangeEnds, RangeByEnds, FactsAssumption DEF FactsAssumption
<1>2. Parts(r, cut) = {p, q}
  BY DEF Parts
<1> HIDE DEF p, q
<1>3. Parts(r, cut) \subseteq Ranges
  BY <1>1, <1>2
<1>4. \A x \in Parts(r, cut) : Inside(x, r) /\ x # r /\ Size(x) >= 1
  BY <1>1, <1>2 DEF Inside, Size
<1>5. ASSUME NEW c \in 1..Commits, Covers(r, c)
      PROVE  \E x \in Parts(r, cut) :
               /\ Covers(x, c)
               /\ \A y \in Parts(r, cut) : Covers(y, c) => y = x
  <2>1. c <= cut => Covers(p, c) /\ ~Covers(q, c)
    BY <1>1, <1>5, FactsAssumption DEF FactsAssumption, Covers
  <2>2. c > cut => Covers(q, c) /\ ~Covers(p, c)
    BY <1>1, <1>5, FactsAssumption DEF FactsAssumption, Covers
  <2>3. c <= cut \/ c > cut
    BY FactsAssumption DEF FactsAssumption
  <2> QED
    BY <1>2, <2>1, <2>2, <2>3
<1> QED
  BY <1>3, <1>4, <1>5

-----------------------------------------------------------------------------
(* How the rows of work change.                                            *)

LEMMA PreparedBy ==
  ASSUME FactsInv, NEW w \in Verifier, Prepare(w)
  PROVE  \/ work[<<1, Commits>>].state # "none" /\ work' = work
         \/ /\ \A r \in Ranges : work[r].state = "none"
            /\ work' = [work EXCEPT ![<<1, Commits>>] = Fetched]
<1>1. cursor >= Commits
  BY DEF FactsInv, Doing, Prepare
<1>2. candidates = 1..Commits
  <2>1. candidates \subseteq 1..Commits /\ cursor \in Int /\ Commits \in Int
    BY FactsAssumption DEF FactsInv, FactsTypeOK, FactsAssumption
  <2>2. \A c \in 1..Commits : c <= cursor => c \in candidates
    BY DEF FactsInv, Gathered
  <2>3. \A c \in 1..Commits : c <= cursor
    BY <1>1, <2>1
  <2> QED BY <2>1, <2>2, <2>3
<1>3. Min(1..Commits) = 1 /\ Max(1..Commits) = Commits
  BY FactsAssumption DEF FactsAssumption, Min, Max
<1>4. work' = [work EXCEPT ![<<1, Commits>>] =
                 IF @.state = "none" THEN Fetched ELSE @]
  BY <1>2, <1>3 DEF Prepare
<1>5. CASE Prepared
  BY <1>4, <1>5, TheFirstRange DEF Prepared, FactsInv, FactsTypeOK
<1>6. CASE ~Prepared
  BY <1>4, <1>6, TheFirstRange DEF Prepared, FactsInv, RangesFit,
     FactsTypeOK
<1> QED
  BY <1>5, <1>6

\* The range whose page is recorded.
Counts(r) ==
  /\ r \in Ranges /\ work[r].state = "queued"
  /\ \/ /\ work[r].page = Size(r)
        /\ work' = [work EXCEPT ![r] =
             [state |-> "complete", page |-> work[r].page,
              count |-> work[r].count + 1]]
     \/ /\ work[r].page < Size(r)
        /\ work' = [work EXCEPT ![r] =
             [state |-> "queued", page |-> work[r].page + 1,
              count |-> work[r].count + 1]]

LEMMA RecordedBy ==
  ASSUME FactsInv, NEW w \in Verifier, RecordPage(w)
  PROVE  work' = work \/ \E r \in Ranges : Counts(r)
<1> DEFINE r == verifier[w].range
<1>1. r \in Ranges /\ work[r].page \in Int /\ Size(r) \in Int
  BY RangeEnds DEF FactsInv, FactsTypeOK, Size
<1>2. work[r].state = "queued" => work[r].page <= Size(r)
  BY <1>1 DEF FactsInv, RowFits
<1>3. CASE work[r].state = "queued" /\ work[r].page = verifier[w].page
  <2>1. CASE verifier[w].page = Size(r)
    BY <1>1, <1>3, <2>1 DEF RecordPage, Counts
  <2>2. CASE verifier[w].page # Size(r)
    <3>1. work[r].page < Size(r)
      BY <1>1, <1>2, <1>3, <2>2
    <3>2. work' = [work EXCEPT ![r] =
            [state |-> "queued", page |-> work[r].page + 1,
             count |-> work[r].count + 1]]
      BY <1>3, <2>2 DEF RecordPage
    <3> QED BY <1>1, <1>3, <3>1, <3>2 DEF Counts
  <2> QED BY <2>1, <2>2
<1>4. CASE ~(work[r].state = "queued" /\ work[r].page = verifier[w].page)
  BY <1>4 DEF RecordPage
<1> QED BY <1>3, <1>4

\* The range a worker splits.
Divides(r, cut) ==
  /\ r \in Ranges /\ cut \in 1..Commits /\ r[1] <= cut /\ cut < r[2]
  /\ work[r].state = "queued"
  /\ work' = [q \in Ranges |->
                IF q = r THEN [work[r] EXCEPT !.state = "superseded"]
                ELSE IF q \in Parts(r, cut) /\ work[q].state = "none"
                  THEN Fetched
                ELSE work[q]]

LEMMA SplitBy ==
  ASSUME FactsInv, NEW w \in Verifier, Split(w)
  PROVE  work' = work \/ \E r \in Ranges, cut \in 1..Commits :
                           Divides(r, cut)
<1> DEFINE r == verifier[w].range
           cut == verifier[w].cut
<1>1. r \in Ranges /\ cut \in 1..Commits
  BY DEF FactsInv, FactsTypeOK
<1>2. r[1] <= cut /\ cut < r[2]
  BY DEF FactsInv, Doing, Split
<1>3. CASE work[r].state = "queued" /\ work[r].page = verifier[w].page
  BY <1>1, <1>2, <1>3 DEF Split, Divides
<1>4. CASE ~(work[r].state = "queued" /\ work[r].page = verifier[w].page)
  BY <1>4 DEF Split
<1> QED BY <1>3, <1>4

\* All that happens to the work.
WorkStep ==
  \/ work' = work
  \/ /\ \A r \in Ranges : work[r].state = "none"
     /\ cursor >= Commits
     /\ work' = [work EXCEPT ![<<1, Commits>>] = Fetched]
  \/ \E r \in Ranges : Counts(r)
  \/ \E r \in Ranges, cut \in 1..Commits : Divides(r, cut)

LEMMA WorkSteps == FactsInv /\ [FactsNext]_factVars => WorkStep
<1> SUFFICES ASSUME FactsInv, [FactsNext]_factVars
             PROVE  WorkStep
  OBVIOUS
<1>1. ASSUME NEW w \in Verifier, Prepare(w)
      PROVE  WorkStep
  BY <1>1, PreparedBy DEF WorkStep, FactsInv, Doing, Prepare
<1>2. ASSUME NEW w \in Verifier, RecordPage(w)
      PROVE  WorkStep
  BY <1>2, RecordedBy DEF WorkStep
<1>3. ASSUME NEW w \in Verifier, Split(w)
      PROVE  WorkStep
  BY <1>3, SplitBy DEF WorkStep
<1>4. ASSUME NEW w \in Verifier,
             \/ Take(w) \/ Plan(w) \/ Verify(w) \/ Upsert(w) \/ Dies(w)
             \/ LookUnfinished(w) \/ Materialize(w) \/ Save(w)
      PROVE  work' = work
  BY <1>4 DEF Take, Plan, Verify, Upsert, Dies, LookUnfinished, Materialize,
     Save
<1>5. CASE UNCHANGED factVars
  BY <1>5 DEF factVars, WorkStep
<1> QED
  BY <1>1, <1>2, <1>3, <1>4, <1>5 DEF FactsNext, FactStep, WorkStep

-----------------------------------------------------------------------------
(* The ranges stay a partition.                                            *)

LEMMA CountingIs ==
  ASSUME NEW r
  PROVE  r \in Counting <=>
           r \in Ranges /\ work[r].state \in {"queued", "complete"}
BY DEF Counting, Open, Finished

LEMMA CountingWill ==
  ASSUME NEW r
  PROVE  r \in Counting' <=>
           r \in Ranges /\ work'[r].state \in {"queued", "complete"}
BY DEF Counting, Open, Finished

LEMMA WorkTyped ==
  ASSUME FactsTypeOK
  PROVE  work \in [Ranges -> Row]
BY DEF FactsTypeOK, Row

LEMMA AfterCounts ==
  ASSUME FactsInv, NEW r \in Ranges, Counts(r)
  PROVE  /\ work' \in [Ranges -> Row]
         /\ Counting' = Counting
         /\ \A q \in Ranges : work'[q].state = "none" <=>
                              work[q].state = "none"
         /\ \A q \in Ranges : q # r => work'[q] = work[q]
         /\ work'[r].state = "queued" =>
              /\ work'[r].page <= Size(r)
              /\ work'[r].count = work'[r].page - 1
         /\ work'[r].state = "complete" => work'[r].count = Size(r)
         /\ work'[r].state \in {"queued", "complete"}
<1>1. work \in [Ranges -> Row] /\ work[r] \in Row /\ Size(r) \in 1..Commits
  BY WorkTyped, RangeEnds, FactsAssumption
  DEF FactsInv, Size, FactsAssumption
<1>2. work[r].count = work[r].page - 1 /\ work[r].page \in 1..Commits
  BY <1>1 DEF FactsInv, RowFits, Counts, Row
<1>3. CASE work[r].page = Size(r) /\ work' = [work EXCEPT ![r] =
             [state |-> "complete", page |-> work[r].page,
              count |-> work[r].count + 1]]
  <2> DEFINE one == [state |-> "complete", page |-> work[r].page,
                     count |-> work[r].count + 1]
  <2>1. one \in Row /\ one.state = "complete" /\ one.count = Size(r)
    BY <1>1, <1>2, <1>3 DEF Row
  <2>2. work' = [work EXCEPT ![r] = one]
    BY <1>3
  <2> HIDE DEF one
  <2>3. /\ work' \in [Ranges -> Row]
        /\ work'[r] = one
        /\ \A q \in Ranges : q # r => work'[q] = work[q]
    BY <1>1, <2>1, <2>2
  <2>4. Counting' = Counting
    BY <2>1, <2>3, CountingIs, CountingWill DEF Counts
  <2> QED BY <2>1, <2>3, <2>4 DEF Counts
<1>4. CASE work[r].page < Size(r) /\ work' = [work EXCEPT ![r] =
             [state |-> "queued", page |-> work[r].page + 1,
              count |-> work[r].count + 1]]
  <2> DEFINE one == [state |-> "queued", page |-> work[r].page + 1,
                     count |-> work[r].count + 1]
  <2>1. /\ one \in Row /\ one.state = "queued"
        /\ one.page <= Size(r) /\ one.count = one.page - 1
    <3>1. work[r].page + 1 \in 1..Commits
      BY <1>1, <1>2, <1>4, FactsAssumption DEF FactsAssumption
    <3>2. work[r].count + 1 \in Nat
      BY <1>2, FactsAssumption DEF FactsAssumption
    <3> QED BY <1>1, <1>2, <1>4, <3>1, <3>2 DEF Row
  <2>2. work' = [work EXCEPT ![r] = one]
    BY <1>4
  <2> HIDE DEF one
  <2>3. /\ work' \in [Ranges -> Row]
        /\ work'[r] = one
        /\ \A q \in Ranges : q # r => work'[q] = work[q]
    BY <1>1, <2>1, <2>2
  <2>4. Counting' = Counting
    BY <2>1, <2>3, CountingIs, CountingWill DEF Counts
  <2> QED BY <2>1, <2>3, <2>4 DEF Counts
<1> QED BY <1>3, <1>4 DEF Counts

LEMMA AfterDivides ==
  ASSUME FactsInv, NEW r \in Ranges, NEW cut \in 1..Commits,
         Divides(r, cut)
  PROVE  /\ work' \in [Ranges -> Row]
         /\ r \in Counting /\ work'[r].state = "superseded"
         /\ \A q \in Parts(r, cut) : q \in Ranges /\ work'[q] = Fetched
         /\ \A q \in Ranges : q # r /\ q \notin Parts(r, cut) =>
              work'[q] = work[q]
         /\ \A q \in Counting' :
              q \in Parts(r, cut) \/ (q \in Counting /\ q # r)
<1>1. work \in [Ranges -> Row] /\ work[r] \in Row
  BY WorkTyped DEF FactsInv
<1>2. r \in Counting
  BY CountingIs DEF Divides
<1>3. \A q \in Parts(r, cut) :
        q \in Ranges /\ q # r /\ work[q].state = "none"
  BY <1>2, PartsOf DEF FactsInv, RangesFit, Divides
<1>4. [work[r] EXCEPT !.state = "superseded"] \in Row
  BY <1>1 DEF Row
<1>5. work' \in [Ranges -> Row]
  BY <1>1, <1>4, FetchedRow DEF Divides
<1>6. work'[r].state = "superseded"
  BY <1>1 DEF Divides, Row
<1>7. \A q \in Parts(r, cut) : work'[q] = Fetched
  BY <1>3 DEF Divides
<1>8. \A q \in Ranges : q # r /\ q \notin Parts(r, cut) => work'[q] = work[q]
  BY DEF Divides
<1>9. \A q \in Counting' :
        q \in Parts(r, cut) \/ (q \in Counting /\ q # r)
  BY <1>6, <1>8, CountingIs, CountingWill
<1> QED BY <1>2, <1>3, <1>5, <1>6, <1>7, <1>8, <1>9

LEMMA AfterPrepare ==
  ASSUME FactsInv, \A r \in Ranges : work[r].state = "none",
         work' = [work EXCEPT ![<<1, Commits>>] = Fetched]
  PROVE  /\ work' \in [Ranges -> Row]
         /\ Counting = {} /\ Counting' = {<<1, Commits>>}
         /\ work'[<<1, Commits>>] = Fetched
         /\ \A q \in Ranges : q # <<1, Commits>> => work'[q] = work[q]
<1>1. work \in [Ranges -> Row]
  BY WorkTyped DEF FactsInv
<1>2. /\ work' \in [Ranges -> Row]
      /\ work'[<<1, Commits>>] = Fetched
      /\ \A q \in Ranges : q # <<1, Commits>> => work'[q] = work[q]
  BY <1>1, TheFirstRange, FetchedRow
<1>3. Counting = {}
  BY CountingIs
<1>4. \A q : q \in Counting' <=> q = <<1, Commits>>
  BY <1>2, TheFirstRange, FetchedRow, CountingWill
<1> QED BY <1>2, <1>3, <1>4

LEMMA PartitionNext ==
  ASSUME FactsInv, WorkStep
  PROVE  RangesFit'
<1>1. CASE work' = work
  BY <1>1 DEF FactsInv, RangesFit, Prepared, CountedIn, Counting, Open,
     Finished
<1>2. CASE /\ \A r \in Ranges : work[r].state = "none"
           /\ work' = [work EXCEPT ![<<1, Commits>>] = Fetched]
  <2> DEFINE a == <<1, Commits>>
  <2>1. /\ Counting' = {a} /\ a \in Ranges /\ work'[a] = Fetched
        /\ \A q \in Ranges : q # a => work'[q] = work[q]
    BY <1>2, AfterPrepare, TheFirstRange
  <2>2. Prepared'
    BY <2>1, FetchedRow DEF Prepared
  <2>3. \A c \in 1..Commits : Covers(a, c)
    BY FactsAssumption DEF Covers, FactsAssumption
  <2> HIDE DEF a
  <2>4. \A c \in 1..Commits : CountedIn(a, c)'
    BY <2>1, <2>3 DEF CountedIn
  <2>5. \A q \in Ranges : q # a => work'[q].state = "none"
    BY <1>2, <2>1
  <2> QED BY <2>1, <2>2, <2>4, <2>5 DEF RangesFit
<1>3. ASSUME NEW r \in Ranges, Counts(r)
      PROVE  RangesFit'
  <2>1. /\ Counting' = Counting
        /\ \A q \in Ranges : work'[q].state = "none" <=>
                              work[q].state = "none"
    BY <1>3, AfterCounts
  <2>2. Prepared' <=> Prepared
    BY <2>1, TheFirstRange DEF Prepared
  <2>3. \A q, c : CountedIn(q, c)' <=> CountedIn(q, c)
    BY <2>1 DEF CountedIn
  <2> QED BY <2>1, <2>2, <2>3 DEF FactsInv, RangesFit
<1>4. ASSUME NEW r \in Ranges, NEW cut \in 1..Commits, Divides(r, cut)
      PROVE  RangesFit'
  <2> DEFINE parts == Parts(r, cut)
  <2>1. /\ r \in Counting /\ work'[r].state = "superseded"
        /\ \A q \in parts : q \in Ranges /\ work'[q] = Fetched
        /\ \A q \in Ranges : q # r /\ q \notin parts =>
             work'[q] = work[q]
        /\ \A q \in Counting' : q \in parts \/ (q \in Counting /\ q # r)
    BY <1>4, AfterDivides
  <2>2. /\ \A q \in parts : Inside(q, r) /\ q # r /\ Size(q) >= 1
        /\ \A c \in 1..Commits : Covers(r, c) =>
             \E q \in parts :
               /\ Covers(q, c)
               /\ \A p \in parts : Covers(p, c) => p = q
    BY <1>4, PartsOf DEF Divides
  <2>3. Prepared
    BY <2>1, CountingIs DEF FactsInv, RangesFit
  <2> HIDE DEF parts
  <2>4. Prepared'
    BY <2>1, <2>3, FetchedRow, TheFirstRange DEF Prepared
  <2>5. \A q \in parts, c \in 1..Commits : Covers(q, c) => Covers(r, c)
    BY <2>1, <2>2, RangeEnds, FactsAssumption
    DEF Inside, Covers, FactsAssumption
  <2>6. ASSUME NEW c \in 1..Commits
        PROVE  \E q \in Ranges : CountedIn(q, c)'
    <3>1. PICK o \in Ranges : CountedIn(o, c)
      BY <2>3 DEF FactsInv, RangesFit
    <3>2. CASE o = r
      <4>1. PICK q \in parts : /\ Covers(q, c)
                               /\ \A p \in parts : Covers(p, c) => p = q
        BY <2>2, <3>1, <3>2 DEF CountedIn
      <4>2. q \in Counting' /\ q \in Ranges
        BY <2>1, FetchedRow, CountingWill
      <4>3. \A p \in Counting' : Covers(p, c) => p = q
        BY <2>1, <3>1, <3>2, <4>1 DEF CountedIn
      <4> QED BY <4>1, <4>2, <4>3 DEF CountedIn
    <3>3. CASE o # r
      <4>1. ~Covers(r, c)
        BY <2>1, <3>1, <3>3 DEF CountedIn
      <4>2. o \notin parts
        BY <2>5, <3>1, <4>1 DEF CountedIn
      <4>3. o \in Counting'
        BY <2>1, <3>1, <3>3, <4>2, CountingIs, CountingWill DEF CountedIn
      <4>4. \A p \in Counting' : Covers(p, c) => p = o
        BY <2>1, <2>5, <3>1, <4>1 DEF CountedIn
      <4> QED BY <3>1, <4>3, <4>4 DEF CountedIn
    <3> QED BY <3>2, <3>3
  <2>7. ASSUME NEW p \in Counting', NEW q \in Ranges, Inside(q, p), q # p
        PROVE  work'[q].state = "none"
    <3>0. p \in Ranges
      BY CountingWill
    <3>1. q[1] \in 1..Commits /\ Covers(q, q[1])
      BY RangeEnds, FactsAssumption DEF Covers, FactsAssumption
    <3>2. Covers(p, q[1])
      BY <2>7, <3>0, <3>1, RangeEnds DEF Covers, Inside
    <3>3. CASE p \in parts
      <4>1. Inside(q, r) /\ q # r
        BY <2>2, <2>7, <3>0, <3>3, RangeEnds, FactsAssumption
        DEF Inside, FactsAssumption
      <4>2. q \notin parts
        BY <2>2, <2>5, <3>1, <3>2, <3>3, <2>7
      <4> QED BY <2>1, <4>1, <4>2 DEF FactsInv, RangesFit
    <3>4. CASE p \in Counting /\ p # r
      <4>1. work[q].state = "none"
        BY <2>7, <3>4 DEF FactsInv, RangesFit
      <4>2. q \notin parts
        <5>1. SUFFICES ASSUME q \in parts PROVE FALSE
          OBVIOUS
        <5>2. Covers(r, q[1])
          BY <2>5, <3>1, <5>1
        <5>3. PICK o \in Ranges : CountedIn(o, q[1])
          BY <2>3, <3>1 DEF FactsInv, RangesFit
        <5> QED BY <2>1, <3>2, <3>4, <5>2, <5>3 DEF CountedIn
      <4>3. q # r
        BY <2>1, <4>1, CountingIs
      <4> QED BY <2>1, <4>1, <4>2, <4>3
    <3> QED BY <2>1, <3>3, <3>4
  <2> QED BY <2>4, <2>6, <2>7 DEF RangesFit
<1> QED
  BY <1>1, <1>2, <1>3, <1>4 DEF WorkStep

LEMMA RowsFitNext ==
  ASSUME FactsInv, WorkStep, NEW q \in Ranges
  PROVE  RowFits(q)'
<1>0. Size(q) \in 1..Commits
  BY RangeEnds, FactsAssumption DEF Size, FactsAssumption
<1>1. CASE work' = work
  BY <1>1 DEF FactsInv, RowFits
<1>2. CASE /\ \A r \in Ranges : work[r].state = "none"
           /\ work' = [work EXCEPT ![<<1, Commits>>] = Fetched]
  BY <1>0, <1>2, AfterPrepare, FetchedRow DEF FactsInv, RowFits
<1>3. ASSUME NEW r \in Ranges, Counts(r)
      PROVE  RowFits(q)'
  <2>1. CASE q = r
    BY <1>3, <2>1, AfterCounts DEF RowFits
  <2>2. CASE q # r
    BY <1>3, <2>2, AfterCounts DEF FactsInv, RowFits
  <2> QED BY <2>1, <2>2
<1>4. ASSUME NEW r \in Ranges, NEW cut \in 1..Commits, Divides(r, cut)
      PROVE  RowFits(q)'
  <2>1. CASE q = r
    BY <1>4, <2>1, AfterDivides DEF RowFits
  <2>2. CASE q \in Parts(r, cut)
    BY <1>0, <1>4, <2>2, AfterDivides, FetchedRow DEF RowFits
  <2>3. CASE q # r /\ q \notin Parts(r, cut)
    BY <1>4, <2>3, AfterDivides DEF FactsInv, RowFits
  <2> QED BY <2>1, <2>2, <2>3
<1> QED
  BY <1>1, <1>2, <1>3, <1>4 DEF WorkStep

-----------------------------------------------------------------------------
(* What a step leaves true of the cursor and of the work it read.          *)

LEMMA PreparedStays ==
  ASSUME FactsInv, WorkStep, Prepared
  PROVE  Prepared' /\ (Open = {} => Open' = {})
<1>0. \A r \in Ranges : r \in Open <=> work[r].state = "queued"
  BY DEF Open
<1>1. CASE work' = work
  BY <1>1 DEF Prepared, Open
<1>2. CASE \A r \in Ranges : work[r].state = "none"
  BY <1>2, TheFirstRange DEF Prepared
<1>3. ASSUME NEW r \in Ranges, Counts(r)
      PROVE  Prepared' /\ Open # {}
  BY <1>0, <1>3, AfterCounts, TheFirstRange DEF Prepared, Counts
<1>4. ASSUME NEW r \in Ranges, NEW cut \in 1..Commits, Divides(r, cut)
      PROVE  Prepared' /\ Open # {}
  BY <1>0, <1>4, AfterDivides, FetchedRow, TheFirstRange
  DEF Prepared, Divides
<1> QED BY <1>1, <1>2, <1>3, <1>4 DEF WorkStep

\* Once no range is open the complete ones count every commit once.
LEMMA AllCounted ==
  ASSUME FactsInv, Prepared, Open = {}
  PROVE  Cardinality(CountedPages) = Commits
<1> DEFINE C == 1..Commits
           f == [x \in CountedPages |-> x[1][1] + x[2] - 1]
<1>0. Commits \in Nat
  BY FactsAssumption DEF FactsAssumption
<1>1. Counting = Finished
  BY DEF Counting
<1>2. ASSUME NEW r \in Finished
      PROVE  /\ r \in Ranges /\ r \in Counting
             /\ r[1] \in C /\ r[2] \in C /\ r[1] <= r[2]
             /\ work[r].count = r[2] - r[1] + 1
  BY <1>1, RangeEnds DEF FactsInv, RowFits, Finished, Size
<1>3. ASSUME NEW x \in CountedPages
      PROVE  /\ x[1] \in Finished /\ x[2] \in 1..work[x[1]].count
             /\ x = <<x[1], x[2]>>
             /\ f[x] \in C /\ Covers(x[1], f[x])
             /\ x[2] = f[x] - x[1][1] + 1
  <2>1. PICK r \in Finished : x \in {r} \X (1..work[r].count)
    BY DEF CountedPages
  <2>2. x = <<r, x[2]>> /\ x[1] = r /\ x[2] \in 1..work[r].count
    BY <2>1
  <2>3. f[x] = r[1] + x[2] - 1
    BY <2>2
  <2> QED BY <1>0, <1>2, <2>2, <2>3 DEF Covers
<1>4. \A r \in Finished : \A k \in 1..work[r].count : <<r, k>> \in CountedPages
  BY DEF CountedPages
<1>5. \A c \in C : \E r \in Ranges : CountedIn(r, c)
  BY DEF FactsInv, RangesFit
<1>6. f \in Injection(CountedPages, C)
  <2>1. f \in [CountedPages -> C]
    BY <1>3
  <2>2. ASSUME NEW x \in CountedPages, NEW y \in CountedPages, f[x] = f[y]
        PROVE  x = y
    <3>1. PICK r \in Ranges : CountedIn(r, f[x])
      BY <1>3, <1>5
    <3>2. x[1] = r /\ y[1] = r
      BY <1>1, <1>3, <2>2, <3>1 DEF CountedIn
    <3>3. x[2] = y[2]
      BY <1>3, <2>2, <3>2
    <3> QED BY <1>3, <3>2, <3>3
  <2> HIDE DEF f
  <2> QED BY <2>1, <2>2 DEF Injection, IsInjective
<1>7. f \in Surjection(CountedPages, C)
  <2>1. f \in [CountedPages -> C]
    BY <1>3
  <2>2. ASSUME NEW c \in C
        PROVE  \E x \in CountedPages : f[x] = c
    <3>1. PICK r \in Ranges : CountedIn(r, c)
      BY <1>5
    <3>2. r \in Finished
      BY <1>1, <3>1 DEF CountedIn
    <3>3. c - r[1] + 1 \in 1..work[r].count
      BY <1>0, <1>2, <3>1, <3>2 DEF CountedIn, Covers
    <3>4. <<r, c - r[1] + 1>> \in CountedPages
      BY <1>4, <3>2, <3>3
    <3>5. f[<<r, c - r[1] + 1>>] = c
      BY <1>2, <3>2, <3>4
    <3> QED BY <3>4, <3>5
  <2> HIDE DEF f
  <2> QED BY <2>1, <2>2 DEF Surjection
<1>8. IsFiniteSet(C) /\ Cardinality(C) = Commits
  <2>1. Cardinality(1..Commits) = IF 1 > Commits THEN 0 ELSE Commits - 1 + 1
    BY <1>0, FS_Interval
  <2> QED BY <1>0, <2>1, FS_Interval
<1> HIDE DEF f, C
<1> QED BY <1>6, <1>7, <1>8, FS_Injection

-----------------------------------------------------------------------------
(* The actions, worker by worker.                                          *)

Doer == [at : FactPlace, op : Op, range : Ranges,
         page : 1..Commits, cut : 1..Commits]

LEMMA RestingDoer == Resting \in Doer
BY TheFirstRange, FactsAssumption
DEF Doer, Resting, FactPlace, Op, FactsAssumption

\* Only w moves; it goes on with its step at another place.
Proceeds(w, place) ==
  /\ verifier' \in [Verifier -> Doer]
  /\ verifier'[w] = [verifier[w] EXCEPT !.at = place]
  /\ verifier'[w].at = place
  /\ verifier'[w].op = verifier[w].op
  /\ verifier'[w].range = verifier[w].range
  /\ verifier'[w].page = verifier[w].page
  /\ verifier'[w].cut = verifier[w].cut
  /\ \A v \in Verifier : v # w => verifier'[v] = verifier[v]

LEMMA GoesProceeds ==
  ASSUME FactsTypeOK, NEW w \in Verifier, NEW place \in FactPlace,
         Goes(w, place)
  PROVE  Proceeds(w, place)
<1>1. verifier \in [Verifier -> Doer] /\ verifier[w] \in Doer
  BY DEF FactsTypeOK, Doer
<1>2. [verifier[w] EXCEPT !.at = place] \in Doer
  BY <1>1 DEF Doer
<1> QED
  BY <1>1, <1>2 DEF Proceeds, Goes, Doer

\* It starts a step, or rests.
Becomes(w, k) ==
  /\ k \in Doer
  /\ verifier' \in [Verifier -> Doer]
  /\ verifier'[w] = k
  /\ \A v \in Verifier : v # w => verifier'[v] = verifier[v]

LEMMA RestsBecomes ==
  ASSUME FactsTypeOK, NEW w \in Verifier,
         verifier' = [verifier EXCEPT ![w] = Resting]
  PROVE  Becomes(w, Resting)
BY RestingDoer DEF Becomes, FactsTypeOK, Doer

LEMMA StartBecomes ==
  ASSUME FactsTypeOK, NEW w \in Verifier, NEW op \in Op, NEW r \in Ranges,
         NEW page \in 1..Commits, NEW cut \in 1..Commits,
         Start(w, op, r, page, cut)
  PROVE  Becomes(w, [at |-> "step", op |-> op, range |-> r,
                     page |-> page, cut |-> cut])
BY DEF Becomes, FactsTypeOK, Start, Doer, FactPlace

\* What the others do remains what it was, if only the cursor went on.
LEMMA DoingStays ==
  ASSUME FactsInv, WorkStep, NEW v \in Verifier, verifier'[v] = verifier[v],
         cursor' \in Int, cursor' >= cursor,
         candidates \subseteq candidates',
         holder' = v /\ ~ended' =>
           holder = v /\ ~ended /\ cursor' = cursor,
         total' # total => total' = Commits
  PROVE  Doing(v)'
<1>1. Doing(v) /\ cursor \in Int /\ Commits \in Int
  BY FactsAssumption DEF FactsInv, FactsTypeOK, FactsAssumption
<1>2. Prepared => Prepared' /\ (Open = {} => Open' = {})
  BY PreparedStays
<1>3. cursor > Commits => Prepared
  BY DEF FactsInv, Gathered
<1>4. cursor > Commits => cursor' > Commits
  BY <1>1
<1>5. cursor >= Commits => cursor' >= Commits
  BY <1>1
<1>6. /\ Open = {} /\ cursor > Commits => Open' = {}
  BY <1>2, <1>3
<1> QED
  BY <1>1, <1>2, <1>4, <1>5, <1>6 DEF Doing

\* What a step is shown to preserve beside the partition and its rows.
KeepsFacts ==
  /\ FactsTypeOK'
  /\ Gathered'
  /\ \A v \in Verifier : Doing(v)'
  /\ CommitsCountedOnce'

LEMMA LeaseTypes ==
  ASSUME FactsInv
  PROVE  /\ holder \in Verifier \cup {Nobody} /\ moves \in 0..MaxMoves
         /\ cursor \in 0..(Commits + 1) /\ candidates \subseteq 1..Commits
         /\ work \in [Ranges -> Row] /\ total \in Nat /\ ended \in BOOLEAN
         /\ verifier \in [Verifier -> Doer]
         /\ Commits \in Nat /\ Commits >= 1 /\ MaxMoves \in Nat
         /\ Nobody \notin Verifier
BY FactsAssumption
DEF FactsInv, FactsTypeOK, FactsAssumption, Row, Doer

LEMMA WorkTypedNext ==
  ASSUME FactsInv, WorkStep
  PROVE  work' \in [Ranges -> Row]
BY LeaseTypes, AfterCounts, AfterDivides, AfterPrepare DEF WorkStep

\* Where only the work and a worker's place change.
LEMMA KeepsUnless ==
  ASSUME FactsInv, WorkStep, NEW w \in Verifier,
         UNCHANGED <<holder, moves, cursor, ended>>,
         candidates \subseteq candidates', candidates' \subseteq 1..Commits,
         total' \in Nat, total' # total => total' = Commits,
         verifier' \in [Verifier -> Doer],
         \A v \in Verifier : v # w => verifier'[v] = verifier[v],
         Doing(w)'
  PROVE  KeepsFacts
<1>1. FactsTypeOK'
  BY LeaseTypes, WorkTypedNext DEF FactsTypeOK, Row, Doer
<1>2. Gathered'
  <2>1. cursor > Commits => Prepared'
    BY PreparedStays DEF FactsInv, Gathered
  <2> QED BY <2>1 DEF FactsInv, Gathered
<1>3. ASSUME NEW v \in Verifier
      PROVE  Doing(v)'
  <2>1. CASE v = w
    BY <2>1
  <2>2. CASE v # w
    <3>1. cursor' \in Int /\ cursor' >= cursor
      BY LeaseTypes
    <3> QED BY <2>2, <3>1, DoingStays
  <2> QED BY <2>1, <2>2
<1>4. CommitsCountedOnce'
  BY DEF FactsInv, CommitsCountedOnce
<1> QED BY <1>1, <1>2, <1>3, <1>4 DEF KeepsFacts

LEMMA TakeKeeps ==
  ASSUME FactsInv, WorkStep, NEW w \in Verifier, Take(w)
  PROVE  KeepsFacts
<1>1. /\ FactsTypeOK /\ cursor \in 0..(Commits + 1)
      /\ Commits \in Nat /\ Commits >= 1
  BY LeaseTypes DEF FactsInv
<1>2. /\ holder' = w /\ moves' \in 0..MaxMoves /\ ~ended
      /\ UNCHANGED <<cursor, candidates, work, total, ended>>
  BY LeaseTypes DEF Take
<1>3. /\ verifier' \in [Verifier -> Doer]
      /\ \A v \in Verifier : v # w => verifier'[v] = verifier[v]
      /\ Doing(w)'
  <2>1. CASE cursor < Commits /\ Start(w, "upsert", <<1, 1>>, cursor + 1, 1)
    <3>1. Becomes(w, [at |-> "step", op |-> "upsert", range |-> <<1, 1>>,
                      page |-> cursor + 1, cut |-> 1])
      BY <1>1, <2>1, StartBecomes, TheFirstRange DEF Op
    <3> QED BY <1>2, <3>1 DEF Becomes, Doing
  <2>2. CASE cursor = Commits /\ Start(w, "prepare", <<1, 1>>, 1, 1)
    <3>1. Becomes(w, [at |-> "step", op |-> "prepare", range |-> <<1, 1>>,
                      page |-> 1, cut |-> 1])
      BY <1>1, <2>2, StartBecomes, TheFirstRange DEF Op
    <3> QED BY <1>1, <1>2, <2>2, <3>1 DEF Becomes, Doing
  <2>3. CASE cursor > Commits /\ Goes(w, "plan")
    <3>1. Proceeds(w, "plan")
      BY <1>1, <2>3, GoesProceeds DEF FactPlace
    <3>2. verifier[w].op = "none"
      BY DEF Take, Resting
    <3> QED BY <1>2, <2>3, <3>1, <3>2 DEF Proceeds, Doing
  <2> QED BY <1>1, <2>1, <2>2, <2>3 DEF Take
<1>4. FactsTypeOK'
  BY <1>1, <1>2, <1>3, LeaseTypes DEF FactsTypeOK, Row, Doer
<1>5. Gathered'
  BY <1>2 DEF FactsInv, Gathered, Prepared
<1>6. ASSUME NEW v \in Verifier, v # w
      PROVE  Doing(v)'
  BY <1>1, <1>2, <1>3, <1>6, DoingStays
<1>7. CommitsCountedOnce'
  BY <1>2 DEF CommitsCountedOnce
<1> QED BY <1>3, <1>4, <1>5, <1>6, <1>7 DEF KeepsFacts

LEMMA PlanKeeps ==
  ASSUME FactsInv, WorkStep, NEW w \in Verifier, Plan(w)
  PROVE  KeepsFacts
<1>1. /\ FactsTypeOK /\ cursor > Commits
      /\ Commits \in Nat /\ Commits >= 1
  BY LeaseTypes DEF FactsInv, Doing, Plan
<1>2. UNCHANGED <<holder, moves, cursor, candidates, work, total, ended>>
  BY DEF Plan
<1>3. CASE Open = {} /\ Start(w, "materialize", <<1, 1>>, 1, 1)
  <2>1. Becomes(w, [at |-> "step", op |-> "materialize", range |-> <<1, 1>>,
                    page |-> 1, cut |-> 1])
    BY <1>1, <1>3, StartBecomes, TheFirstRange DEF Op
  <2>2. Doing(w)'
    BY <1>1, <1>2, <1>3, <2>1 DEF Becomes, Doing, Open
  <2> QED BY <1>2, <2>1, <2>2, KeepsUnless, LeaseTypes DEF Becomes
<1>4. ASSUME NEW r \in Open, Start(w, "page", r, work[r].page, 1)
      PROVE  KeepsFacts
  <2>1. r \in Ranges /\ work[r].page \in 1..Commits
    BY LeaseTypes DEF Open, Row
  <2>2. Becomes(w, [at |-> "step", op |-> "page", range |-> r,
                    page |-> work[r].page, cut |-> 1])
    BY <1>1, <1>4, <2>1, StartBecomes DEF Op
  <2>3. Doing(w)'
    BY <1>1, <1>2, <2>2 DEF Becomes, Doing
  <2> QED BY <1>2, <2>2, <2>3, KeepsUnless, LeaseTypes DEF Becomes
<1>5. ASSUME NEW r \in Open, NEW cut \in r[1]..(r[2] - 1),
             Start(w, "split", r, work[r].page, cut)
      PROVE  KeepsFacts
  <2>1. r \in Ranges /\ work[r].page \in 1..Commits
    BY LeaseTypes DEF Open, Row
  <2>2. cut \in 1..Commits /\ r[1] <= cut /\ cut < r[2]
    BY <1>1, <2>1, RangeEnds
  <2>3. Becomes(w, [at |-> "step", op |-> "split", range |-> r,
                    page |-> work[r].page, cut |-> cut])
    BY <1>1, <1>5, <2>1, <2>2, StartBecomes DEF Op
  <2>4. Doing(w)'
    BY <1>1, <1>2, <2>2, <2>3 DEF Becomes, Doing
  <2> QED BY <1>2, <2>3, <2>4, KeepsUnless, LeaseTypes DEF Becomes
<1> QED BY <1>3, <1>4, <1>5 DEF Plan

LEMMA RestingDoes ==
  ASSUME NEW w \in Verifier, verifier'[w] = Resting
  PROVE  Doing(w)'
BY DEF Doing, Resting

LEMMA VerifyKeeps ==
  ASSUME FactsInv, WorkStep, NEW w \in Verifier, Verify(w)
  PROVE  KeepsFacts
<1>1. UNCHANGED <<holder, moves, cursor, candidates, work, total, ended>>
  BY DEF Verify
<1>2. CASE Goes(w, "checked")
  <2>1. Proceeds(w, "checked")
    BY <1>2, GoesProceeds DEF FactsInv, FactPlace
  <2>2. Doing(w)'
    BY <1>1, <2>1
    DEF FactsInv, Doing, Proceeds, Verify, Open, Prepared
  <2> QED BY <1>1, <2>1, <2>2, KeepsUnless, LeaseTypes DEF Proceeds
<1>3. CASE verifier' = [verifier EXCEPT ![w] = Resting]
  <2>1. Becomes(w, Resting)
    BY <1>3, RestsBecomes DEF FactsInv
  <2>2. Doing(w)'
    BY <2>1, RestingDoes DEF Becomes
  <2> QED BY <1>1, <2>1, <2>2, KeepsUnless, LeaseTypes DEF Becomes
<1> QED BY <1>2, <1>3 DEF Verify

LEMMA UpsertKeeps ==
  ASSUME FactsInv, WorkStep, NEW w \in Verifier, Upsert(w)
  PROVE  KeepsFacts
<1>1. /\ UNCHANGED <<holder, moves, cursor, work, total, ended>>
      /\ candidates' = candidates \cup {verifier[w].page}
      /\ verifier[w].page \in 1..Commits
  BY LeaseTypes DEF Upsert, Doer
<1>2. Proceeds(w, "saving")
  BY GoesProceeds DEF Upsert, FactsInv, FactPlace
<1>3. Doing(w)'
  BY <1>1, <1>2 DEF FactsInv, Doing, Proceeds, Upsert
<1> QED BY <1>1, <1>2, <1>3, KeepsUnless, LeaseTypes DEF Proceeds

LEMMA PrepareKeeps ==
  ASSUME FactsInv, WorkStep, NEW w \in Verifier, Prepare(w)
  PROVE  KeepsFacts
<1>1. UNCHANGED <<holder, moves, cursor, candidates, total, ended>>
  BY DEF Prepare
<1>2. Proceeds(w, "saving")
  BY GoesProceeds DEF Prepare, FactsInv, FactPlace
<1>3. Prepared'
  BY PreparedBy, AfterPrepare, FetchedRow DEF Prepared
<1>4. Doing(w)'
  BY <1>1, <1>2, <1>3 DEF FactsInv, Doing, Proceeds, Prepare
<1> QED BY <1>1, <1>2, <1>4, KeepsUnless, LeaseTypes DEF Proceeds

LEMMA RecordPageKeeps ==
  ASSUME FactsInv, WorkStep, NEW w \in Verifier,
         RecordPage(w) \/ Split(w)
  PROVE  KeepsFacts
<1>1. /\ UNCHANGED <<holder, moves, cursor, candidates, total, ended>>
      /\ verifier[w].op \in {"page", "split"}
      /\ verifier[w].at # "idle"
  BY DEF RecordPage, Split
<1>2. Proceeds(w, "saving")
  BY GoesProceeds DEF RecordPage, Split, FactsInv, FactPlace
<1>3. Doing(w)'
  BY <1>1, <1>2 DEF FactsInv, Doing, Proceeds
<1> QED BY <1>1, <1>2, <1>3, KeepsUnless, LeaseTypes DEF Proceeds

LEMMA LookKeeps ==
  ASSUME FactsInv, WorkStep, NEW w \in Verifier, LookUnfinished(w)
  PROVE  KeepsFacts
<1>1. /\ UNCHANGED <<holder, moves, cursor, candidates, work, total, ended>>
      /\ verifier[w].op = "materialize" /\ Open = {}
  BY DEF LookUnfinished, FactsInv, Doing
<1>2. Proceeds(w, "empty")
  BY <1>1, GoesProceeds DEF LookUnfinished, FactsInv, FactPlace
<1>3. Doing(w)'
  BY <1>1, <1>2 DEF FactsInv, Doing, Proceeds, Open
<1> QED BY <1>1, <1>2, <1>3, KeepsUnless, LeaseTypes DEF Proceeds

LEMMA MaterializeKeeps ==
  ASSUME FactsInv, WorkStep, NEW w \in Verifier, Materialize(w)
  PROVE  KeepsFacts
<1>1. /\ UNCHANGED <<holder, moves, cursor, candidates, work, ended>>
      /\ verifier[w].op = "materialize" /\ Open = {}
  BY DEF Materialize, FactsInv, Doing
<1>2. Proceeds(w, "saving")
  BY GoesProceeds DEF Materialize, FactsInv, FactPlace
<1>3. total' = Commits
  BY <1>1, AllCounted DEF Materialize, FactsInv, Doing, Gathered
<1>4. Doing(w)'
  BY <1>1, <1>2, <1>3 DEF FactsInv, Doing, Proceeds, Open
<1> QED BY <1>1, <1>2, <1>3, <1>4, KeepsUnless, LeaseTypes DEF Proceeds

LEMMA DiesKeeps ==
  ASSUME FactsInv, WorkStep, NEW w \in Verifier, Dies(w)
  PROVE  KeepsFacts
<1>1. UNCHANGED <<holder, moves, cursor, candidates, work, total, ended>>
  BY DEF Dies
<1>2. Becomes(w, Resting)
  BY RestsBecomes DEF Dies, FactsInv
<1>3. Doing(w)'
  BY <1>2, RestingDoes DEF Becomes
<1> QED BY <1>1, <1>2, <1>3, KeepsUnless, LeaseTypes DEF Becomes

LEMMA SaveKeeps ==
  ASSUME FactsInv, WorkStep, NEW w \in Verifier, Save(w)
  PROVE  KeepsFacts
<1>1. UNCHANGED <<moves, candidates, work, total>>
  BY DEF Save
<1>2. Becomes(w, Resting)
  BY RestsBecomes DEF Save, FactsInv
<1>3. Doing(w)'
  BY <1>2, RestingDoes DEF Becomes
<1>4. CASE ~(holder = w /\ ~ended)
  <2>1. UNCHANGED <<holder, cursor, ended>>
    BY <1>4 DEF Save
  <2> QED
    BY <1>1, <1>2, <1>3, <2>1, KeepsUnless, LeaseTypes DEF Becomes
<1>5. CASE holder = w /\ ~ended
  <2>1. /\ holder' = Nobody /\ holder' \notin Verifier
        /\ ended' \in BOOLEAN
        /\ ended' => verifier[w].op = "materialize"
        /\ cursor' = IF verifier[w].op \in {"upsert", "prepare"}
                       THEN cursor + 1 ELSE cursor
        /\ verifier[w].at = "saving" /\ Doing(w)
    BY <1>5, LeaseTypes DEF Save, FactsInv
  <2>2. /\ cursor' \in 0..(Commits + 1) /\ cursor' >= cursor
        /\ \A c \in 1..Commits : c <= cursor' => c \in candidates
        /\ cursor' > Commits => Prepared
    <3>1. CASE verifier[w].op = "upsert"
      <4>1. cursor' = cursor + 1 /\ verifier[w].page = cursor + 1
        BY <1>5, <2>1, <3>1 DEF Doing
      <4>2. cursor + 1 \in candidates
        BY <2>1, <3>1, <4>1 DEF Doing
      <4>3. cursor + 1 <= Commits
        BY <4>2, LeaseTypes
      <4>4. \A c \in 1..Commits : c <= cursor => c \in candidates
        BY DEF FactsInv, Gathered
      <4>5. \A c \in 1..Commits : c <= cursor + 1 =>
              c <= cursor \/ c = cursor + 1
        BY LeaseTypes
      <4> QED BY <4>1, <4>2, <4>3, <4>4, <4>5, LeaseTypes
    <3>2. CASE verifier[w].op = "prepare"
      <4>1. cursor' = cursor + 1 /\ cursor = Commits /\ Prepared
        BY <1>5, <2>1, <3>2 DEF Doing
      <4> QED BY <4>1, LeaseTypes DEF FactsInv, Gathered
    <3>3. CASE verifier[w].op \notin {"upsert", "prepare"}
      BY <2>1, <3>3, LeaseTypes DEF FactsInv, Gathered
    <3> QED BY <3>1, <3>2, <3>3
  <2>3. FactsTypeOK'
    BY <1>1, <1>2, <2>1, <2>2, LeaseTypes
    DEF Becomes, FactsTypeOK, Row, Doer
  <2>4. Gathered'
    BY <1>1, <2>2 DEF Gathered, Prepared
  <2>5. ASSUME NEW v \in Verifier, v # w
        PROVE  Doing(v)'
    BY <1>1, <1>2, <2>1, <2>2, <2>5, DoingStays DEF Becomes
  <2>6. CommitsCountedOnce'
    BY <1>1, <2>1 DEF CommitsCountedOnce, Doing
  <2> QED BY <1>3, <2>3, <2>4, <2>5, <2>6 DEF KeepsFacts
<1> QED BY <1>4, <1>5

LEMMA FactsInvInit == FactsInit => FactsInv
<1> SUFFICES ASSUME FactsInit PROVE FactsInv
  OBVIOUS
<1>1. /\ Commits \in Nat /\ Commits >= 1 /\ MaxMoves \in Nat
      /\ \A r \in Ranges : work[r] = NoWork
      /\ \A w \in Verifier : verifier[w] = Resting
  BY FactsAssumption DEF FactsAssumption, FactsInit
<1>2. FactsTypeOK
  <2>1. work \in [Ranges -> Row] /\ verifier \in [Verifier -> Doer]
    BY RestingDoer, FetchedRow DEF FactsInit
  <2>2. /\ holder \in Verifier \cup {Nobody}
        /\ candidates \subseteq 1..Commits /\ ended \in BOOLEAN
    BY DEF FactsInit
  <2>3. moves \in 0..MaxMoves /\ cursor \in 0..(Commits + 1) /\ total \in Nat
    BY <1>1 DEF FactsInit
  <2> QED BY <2>1, <2>2, <2>3 DEF FactsTypeOK, Row, Doer
<1>3. ~Prepared /\ Counting = {}
  BY <1>1, TheFirstRange, FetchedRow, CountingIs DEF Prepared
<1>4. Gathered
  BY <1>1 DEF FactsInit, Gathered
<1>5. RangesFit
  BY <1>1, <1>3, FetchedRow DEF RangesFit
<1>6. \A r \in Ranges : RowFits(r)
  BY <1>1, FetchedRow DEF RowFits
<1>7. \A w \in Verifier : Doing(w)
  BY <1>1 DEF Doing, Resting
<1> QED
  BY <1>2, <1>4, <1>5, <1>6, <1>7
  DEF FactsInv, FactsInit, CommitsCountedOnce

LEMMA FactsInvNext == FactsInv /\ [FactsNext]_factVars => FactsInv'
<1> SUFFICES ASSUME FactsInv, [FactsNext]_factVars
             PROVE  FactsInv'
  OBVIOUS
<1>1. WorkStep
  BY WorkSteps
<1>2. RangesFit' /\ \A r \in Ranges : RowFits(r)'
  BY <1>1, PartitionNext, RowsFitNext
<1>3. ASSUME NEW w \in Verifier, KeepsFacts
      PROVE  FactsInv'
  BY <1>2, <1>3 DEF KeepsFacts, FactsInv
<1>4. CASE UNCHANGED factVars
  BY <1>4
  DEF factVars, FactsInv, FactsTypeOK, Gathered, RangesFit, RowFits, Doing,
      CommitsCountedOnce, Prepared, CountedIn, Counting, Open, Finished
<1>5. CASE FactsNext
  <2>1. PICK w \in Verifier : Take(w) \/ FactStep(w) \/ Dies(w)
    BY <1>5 DEF FactsNext
  <2>2. KeepsFacts
    BY <1>1, <2>1, TakeKeeps, PlanKeeps, VerifyKeeps, UpsertKeeps,
       PrepareKeeps, RecordPageKeeps, LookKeeps, MaterializeKeeps,
       SaveKeeps, DiesKeeps DEF FactStep
  <2> QED BY <1>3, <2>2
<1> QED BY <1>4, <1>5

\* The rows of work partition the history, each counted up to its page, and
\* a worker that still holds the lease acts on the cursor it read.
THEOREM CommitFactsInvariant == FactsSpec => []FactsInv
BY FactsInvInit, FactsInvNext, PTL DEF FactsSpec

LEMMA FactsInvPartitions == FactsInv => RangesPartition
<1> SUFFICES ASSUME FactsInv, cursor > Commits, NEW c \in 1..Commits
             PROVE  Cardinality(RangesOf(c)) = 1
  BY DEF RangesPartition
<1>1. PICK r \in Ranges : CountedIn(r, c)
  BY DEF FactsInv, Gathered, RangesFit
<1>2. RangesOf(c) = {r}
  BY <1>1 DEF RangesOf, CountedIn, Counting
<1> QED BY <1>2, FS_Singleton

\* Whatever a worker without the lease still writes, the published total of a
\* completed scan counts each commit once, and splitting ranges keeps them a
\* partition (db.ts:3878).
THEOREM CommitFactsSafeHolds == FactsSpec => []CommitFactsSafe
<1>1. FactsInv => CommitFactsSafe
  BY FactsInvPartitions DEF FactsInv, CommitFactsSafe
<1> QED BY <1>1, CommitFactsInvariant, PTL
=============================================================================
