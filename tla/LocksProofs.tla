---------------------------- MODULE LocksProofs -----------------------------
(***************************************************************************)
(* Proofs about the admission of scans (ScanAdmission), the restart of the *)
(* backend container (ModeTransition) and the reports of an account        *)
(* (RoastFlight), for all values of the constants.                         *)
(***************************************************************************)
EXTENDS ScanAdmission, ModeTransition, RoastFlight, FiniteSetTheorems, TLAPS

(***************************************************************************)
(* Proofs about ScanAdmission, for any calls, handles and capacity and any *)
(* amount of trouble.  The inductive invariant Inv adds to LockCounts that *)
(* the owners never exceed the capacity (Bounded), that the owner of a     *)
(* handle has its newest turn (OwnerIsNewest), where cached and given      *)
(* results come from (Sources), and, as long as nothing failed, that what  *)
(* was produced is cached or is about to be, by the owner (Untroubled).    *)
(***************************************************************************)

\* A call that has not ended may ask once more.
Patient == \A c \in Call : call[c].at \notin Ended => call[c].tries < Attempts

\* The owners whose lease runs fit the capacity.
Bounded == IsFiniteSet(active) /\ Cardinality(active) <= Capacity

\* Turns are handed out in order, and the owner of a handle has the last one
\* of the handle.
OwnerIsNewest ==
  /\ \A c \in Call : call[c].turn <= turn
  /\ \A c \in active : call[c].turn > 0
  /\ \A c \in active, d \in Call :
       KeyOf[d] = KeyOf[c] => call[d].turn <= call[c].turn

\* A call that was admitted has a turn; what is cached for a handle, and what
\* a call answers with, was produced for that handle by an admitted call.
Sources ==
  /\ \A c \in Call : Working(c) => call[c].turn > 0
  /\ \A k \in Key : cache[k] # None =>
       KeyOf[cache[k]] = k /\ call[cache[k]].turn > 0
  /\ \A c \in Call : call[c].ok \/ call[c].at = "served" =>
       call[c].got # None /\ KeyOf[call[c].got] = KeyOf[c]
         /\ call[call[c].got].turn > 0

\* While nothing has failed, a working call owns its handle, and a handle
\* was produced once if its result is there or its owner has it.
Made(k) ==
  cache[k] # None \/ (lock[k] # None /\ call[lock[k]].at = "publishing")
Untroubled ==
  trouble = Trouble =>
    /\ \A c \in Call : Working(c) => lock[KeyOf[c]] = c
    /\ \A c \in Call : call[c].at = "producing" => made[KeyOf[c]] = 0
    /\ \A k \in Key : made[k] = 0 \/ (made[k] = 1 /\ Made(k))

Inv == /\ TypeOK /\ Patient /\ LockCounts /\ Bounded /\ OwnerIsNewest /\ Sources
       /\ Untroubled
-----------------------------------------------------------------------------
(* What the actions do to the calls.                                       *)

CallAt == Ended \cup {"new", "reading", "asking", "admitted", "producing",
                      "publishing", "releasing"}

\* Only c moves, and it has no new turn.
Moves(c) ==
  /\ call' \in [Call -> CallType]
  /\ \A d \in Call : d # c => call'[d] = call[d]
  /\ call'[c].turn = call[c].turn
  /\ \/ call'[c].tries = call[c].tries \/ call'[c].at \in Ended
     \/ call'[c].tries < Attempts

\* It answers with what it had before.
Keeps(c) == call'[c].ok = call[c].ok /\ call'[c].got = call[c].got

LEMMA IsRow ==
  ASSUME TypeOK, NEW c \in Call
  PROVE  call[c] \in CallType
BY DEF TypeOK

LEMMA GoesTo ==
  ASSUME TypeOK, NEW c \in Call, NEW a \in CallAt, Goes(c, a)
  PROVE  Moves(c) /\ Keeps(c) /\ call'[c].at = a
<1>1. call[c] \in CallType
  BY IsRow
<1>2. [call[c] EXCEPT !.at = a] \in CallType
  BY <1>1 DEF CallType, CallAt
<1>3. call' = [call EXCEPT ![c] = [call[c] EXCEPT !.at = a]]
  BY DEF Goes
<1>4. call'[c] = [call[c] EXCEPT !.at = a]
  BY <1>3 DEF TypeOK
<1>5. /\ call' \in [Call -> CallType]
      /\ \A d \in Call : d # c => call'[d] = call[d]
  BY <1>2, <1>3 DEF TypeOK
<1> QED BY <1>1, <1>4, <1>5 DEF Moves, Keeps, CallType

LEMMA GivesAnswer ==
  ASSUME TypeOK, NEW c \in Call, Answer(c)
  PROVE  /\ Moves(c) /\ Keeps(c)
         /\ call'[c].at = IF call[c].ok THEN "served" ELSE "failed"
BY GoesTo DEF Answer, CallAt, Ended

LEMMA Reads ==
  ASSUME TypeOK, NEW c \in Call, Read(c)
  PROVE  /\ Moves(c) /\ call'[c].ok = call[c].ok
         /\ \/ /\ cache[KeyOf[c]] # None /\ call'[c].at = "served"
               /\ call'[c].got = cache[KeyOf[c]]
            \/ call'[c].at = "asking" /\ call'[c].got = call[c].got
<1>1. CASE cache[KeyOf[c]] # None
  <2> DEFINE then == [call[c] EXCEPT !.at = "served", !.got = cache[KeyOf[c]]]
  <2>1. call[c] \in CallType /\ cache[KeyOf[c]] \in Call \cup {None}
    BY IsRow, CallAssumption DEF TypeOK
  <2>2. /\ then \in CallType /\ then.turn = call[c].turn /\ then.ok = call[c].ok
         /\ then.tries = call[c].tries /\ then.at = "served"
         /\ then.got = cache[KeyOf[c]]
    BY <2>1 DEF CallType, Ended
  <2>3. call' = [call EXCEPT ![c] = then]
    BY <1>1 DEF Read
  <2> HIDE DEF then
  <2> QED BY <1>1, <2>2, <2>3 DEF Moves, TypeOK
<1>2. CASE cache[KeyOf[c]] = None
  BY <1>2, GoesTo DEF Read, Moves, Keeps, CallAt
<1> QED BY <1>1, <1>2

LEMMA Waits ==
  ASSUME TypeOK, Patient, NEW c \in Call, Wait(c)
  PROVE  Moves(c) /\ Keeps(c) /\ call'[c].at \in {"reading", "busy"}
<1> DEFINE at == IF call[c].tries + 1 < Attempts THEN "reading" ELSE "busy"
           then == [call[c] EXCEPT !.tries = call[c].tries + 1, !.at = at]
<1>1. call[c] \in CallType
  BY IsRow
<1>2. /\ at \in {"reading", "busy"}
      /\ at = "reading" => call[c].tries + 1 < Attempts
  OBVIOUS
<1>3. call[c].tries + 1 \in 0..Attempts
  <2>1. call[c].tries < Attempts
    BY DEF Patient, Wait, Ended
  <2>2. call[c].tries \in Nat /\ Attempts \in Nat
    BY <1>1, BoundAssumption DEF CallType
  <2> QED BY <2>1, <2>2
<1> HIDE DEF at
<1>4. then \in CallType
  BY <1>1, <1>2, <1>3 DEF CallType, Ended
<1>5. /\ then.turn = call[c].turn /\ then.ok = call[c].ok
      /\ then.got = call[c].got /\ then.at = at
      /\ then.tries = call[c].tries + 1
  BY <1>1 DEF CallType
<1>6. call' = [call EXCEPT ![c] = then]
  BY DEF Wait, at
<1> HIDE DEF then
<1> QED BY <1>2, <1>4, <1>5, <1>6 DEF Moves, Keeps, TypeOK, Ended

LEMMA Rechecks ==
  ASSUME TypeOK, NEW c \in Call, Recheck(c)
  PROVE  /\ Moves(c)
         /\ call'[c].got = cache[KeyOf[c]]
         /\ call'[c].ok = (cache[KeyOf[c]] # None)
         /\ call'[c].at = IF cache[KeyOf[c]] = None THEN "producing"
                                                    ELSE "releasing"
<1> DEFINE hit == cache[KeyOf[c]]
           at == IF hit = None THEN "producing" ELSE "releasing"
           then == [call[c] EXCEPT !.at = at, !.ok = hit # None, !.got = hit]
<1>1. call[c] \in CallType /\ hit \in Call \cup {None}
  BY IsRow, CallAssumption DEF TypeOK
<1>2. at \in {"producing", "releasing"} /\ (hit # None) \in BOOLEAN
  OBVIOUS
<1>3. then \in CallType
  BY <1>1, <1>2 DEF CallType
<1>4. /\ then.turn = call[c].turn /\ then.ok = (hit # None)
      /\ then.tries = call[c].tries
      /\ then.got = hit /\ then.at = at
  BY <1>1 DEF CallType
<1>5. call' = [call EXCEPT ![c] = then]
  BY DEF Recheck
<1> HIDE DEF then
<1> QED BY <1>3, <1>4, <1>5 DEF Moves, TypeOK

LEMMA Publishes ==
  ASSUME TypeOK, NEW c \in Call, Publish(c)
  PROVE  /\ Moves(c) /\ call'[c].at = "releasing"
         /\ \/ /\ lock[KeyOf[c]] = c /\ cache' = [cache EXCEPT ![KeyOf[c]] = c]
               /\ call'[c].got = c
            \/ Keeps(c) /\ cache' = cache
<1>1. CASE lock[KeyOf[c]] = c
  <2> DEFINE then == [call[c] EXCEPT !.at = "releasing", !.ok = TRUE, !.got = c]
  <2>1. call[c] \in CallType
    BY IsRow
  <2>2. /\ then \in CallType /\ then.turn = call[c].turn /\ then.got = c
        /\ then.at = "releasing" /\ then.tries = call[c].tries
    BY <2>1 DEF CallType
  <2>3. call' = [call EXCEPT ![c] = then]
    BY <1>1 DEF Publish
  <2> HIDE DEF then
  <2> QED BY <1>1, <2>2, <2>3 DEF Moves, TypeOK, Publish
<1>2. CASE lock[KeyOf[c]] # c
  BY <1>2, GoesTo DEF Publish, CallAt
<1> QED BY <1>1, <1>2

LEMMA AdmitsTo ==
  ASSUME TypeOK, NEW c \in Call, NEW a \in CallAt, Admits(c, a)
  PROVE  /\ call' \in [Call -> CallType]
         /\ \A d \in Call : d # c => call'[d] = call[d]
         /\ call'[c].turn = turn + 1 /\ call'[c].at = a /\ Keeps(c)
         /\ call'[c].tries = call[c].tries
<1> DEFINE then == [call[c] EXCEPT !.at = a, !.turn = turn + 1]
<1>1. call[c] \in CallType /\ turn + 1 \in Nat
  BY IsRow DEF TypeOK
<1>2. /\ then \in CallType /\ then.turn = turn + 1 /\ then.ok = call[c].ok
      /\ then.got = call[c].got /\ then.at = a /\ then.tries = call[c].tries
  BY <1>1 DEF CallType, CallAt
<1>3. call' = [call EXCEPT ![c] = then]
  BY DEF Admits
<1> HIDE DEF then
<1> QED BY <1>2, <1>3 DEF TypeOK, Keeps
-----------------------------------------------------------------------------
(* Types.                                                                  *)

Types == TypeOK /\ Patient

\* The steps of c that are not an admission.
Proceeds(c) ==
  \/ Start(c) \/ Read(c) \/ Wait(c) \/ Refuse(c) \/ Recheck(c) \/ Produce(c)
  \/ Publish(c) \/ Release(c) \/ ProducerFails(c) \/ CommandLost(c) \/ Die(c)
  \/ (ReplyLost(c) /\ Goes(c, "releasing"))

LEMMA Movers ==
  ASSUME Types, NEW c \in Call, Proceeds(c)
  PROVE  Moves(c) /\ call[c].at \notin Ended
<1> USE DEF Types
<1>1. call[c].at \notin Ended
  BY DEF Proceeds, Start, Read, Wait, Refuse, Recheck, Produce, Publish,
         Release, ProducerFails, CommandLost, Die, ReplyLost, Admits, Ended
<1>2. Moves(c)
  <2>1. CASE Start(c) \/ Refuse(c) \/ Produce(c) \/ ProducerFails(c)
               \/ Die(c) \/ (ReplyLost(c) /\ Goes(c, "releasing"))
    BY <2>1, GoesTo
    DEF Start, Refuse, Produce, ProducerFails, Die, CallAt, Ended
  <2>2. CASE CommandLost(c)
    BY <2>2, GoesTo, GivesAnswer DEF CommandLost, CallAt, Ended
  <2>3. CASE Release(c)
    BY <2>3, GivesAnswer DEF Release
  <2> QED
    BY <2>1, <2>2, <2>3, Reads, Waits, Rechecks, Publishes DEF Proceeds
<1> QED BY <1>1, <1>2

LEMMA AllSteps ==
  ASSUME [Next]_vars
  PROVE  \/ \E c \in Call : Proceeds(c)
         \/ \E c \in Call : Admit(c) \/ (ReplyLost(c) /\ Admits(c, "busy"))
         \/ \E c \in Call : LeaseEnds(c) \/ LeaseEndsEarly(c)
         \/ \E k \in Key : CooldownEnds(k) \/ Evict(k)
         \/ UNCHANGED vars
<1>1. \A c \in Call : ReplyLost(c) =>
        Admits(c, "busy") \/ Goes(c, "releasing")
  BY DEF ReplyLost
<1> QED BY <1>1 DEF Next, Step, Proceeds

LEMMA TroubleStep ==
  ASSUME TypeOK, [Next]_vars
  PROVE  trouble' \in 0..Trouble /\ trouble' <= trouble
<1>1. trouble' = trouble \/ Spends
  BY DEF Next, Step, vars, Start, Read, Wait, Refuse, Admit, Recheck, Produce,
         Publish, Release, ProducerFails, CommandLost, ReplyLost, Die,
         LeaseEnds, LeaseEndsEarly, CooldownEnds, Evict
<1> QED BY <1>1, BoundAssumption DEF TypeOK, Spends

LEMMA TypeStep ==
  ASSUME Types, [Next]_vars
  PROVE  Types'
<1> USE DEF Types
<1>1. trouble' \in 0..Trouble
  BY TroubleStep
<1>2. ASSUME NEW c \in Call, Proceeds(c)
      PROVE  Types'
  <2>1. Moves(c) /\ call[c].at \notin Ended
    BY <1>2, Movers
  <2>2. Patient'
    BY <2>1 DEF Moves, Patient
  <2>3. lock' \in [Key -> Call \cup {None}] /\ active' \subseteq Call
          /\ cool' \subseteq Key
    <3>1. CASE Release(c)
      BY <3>1, CallAssumption DEF Release, TypeOK
    <3>2. CASE ~Release(c)
      BY <1>2, <3>2
      DEF Proceeds, Start, Read, Wait, Refuse, Recheck, Produce, Publish,
          ProducerFails, CommandLost, Die, ReplyLost, Admits, redis, TypeOK
    <3> QED BY <3>1, <3>2
  <2>4. cache' \in [Key -> Call \cup {None}]
    BY <1>2
    DEF Proceeds, Start, Read, Wait, Refuse, Recheck, Produce, Publish,
        Release, ProducerFails, CommandLost, Die, ReplyLost, Admits, redis,
        TypeOK
  <2>5. turn' = turn
    <3>1. CASE ReplyLost(c) /\ Goes(c, "releasing")
      <4>1. call'[c].at = "releasing"
        BY <3>1, GoesTo DEF CallAt
      <4>2. ~Admits(c, "busy")
        BY <4>1, AdmitsTo DEF CallAt, Ended
      <4> QED BY <3>1, <4>2 DEF ReplyLost, history
    <3> QED
      BY <1>2, <3>1
      DEF Proceeds, Start, Read, Wait, Refuse, Recheck, Produce, Publish,
          Release, ProducerFails, CommandLost, Die, history
  <2>6. made' \in [Key -> Nat]
    <3>1. CASE Produce(c)
      <4>1. made[KeyOf[c]] + 1 \in Nat
        BY CallAssumption DEF TypeOK
      <4> QED BY <3>1, <4>1 DEF Produce, TypeOK
    <3>2. CASE ~Produce(c)
      BY <1>2, <3>2
      DEF Proceeds, Start, Read, Wait, Refuse, Recheck, Publish, Release,
          ProducerFails, CommandLost, Die, ReplyLost, Admits, history, TypeOK
    <3> QED BY <3>1, <3>2
  <2> QED BY <1>1, <2>1, <2>2, <2>3, <2>4, <2>5, <2>6 DEF TypeOK, Moves
<1>3. ASSUME NEW c \in Call, Admit(c) \/ (ReplyLost(c) /\ Admits(c, "busy"))
      PROVE  Types'
  <2>1. PICK a \in {"admitted", "busy"} : Admits(c, a)
    BY <1>3 DEF Admit
  <2>2. /\ call' \in [Call -> CallType]
        /\ \A d \in Call : d # c => call'[d] = call[d]
        /\ call'[c].tries = call[c].tries
    BY <2>1, AdmitsTo DEF CallAt, Ended
  <2>3. Patient'
    BY <2>1, <2>2 DEF Patient, Admits, Ended
  <2>4. turn + 1 \in Nat
    BY DEF TypeOK
  <2> QED
    BY <1>1, <2>1, <2>2, <2>3, <2>4, CallAssumption DEF Admits, TypeOK
<1>4. ASSUME NEW c \in Call, LeaseEnds(c) \/ LeaseEndsEarly(c)
      PROVE  Types'
  BY <1>1, <1>4
  DEF LeaseEnds, LeaseEndsEarly, Lapses, TypeOK, Patient, history
<1>5. ASSUME NEW k \in Key, CooldownEnds(k) \/ Evict(k)
      PROVE  Types'
  BY <1>1, <1>5 DEF CooldownEnds, Evict, TypeOK, Patient, history
<1>6. CASE UNCHANGED vars
  BY <1>6 DEF vars, TypeOK, Patient
<1> QED BY <1>2, <1>3, <1>4, <1>5, <1>6, AllSteps

-----------------------------------------------------------------------------
(* Locks, capacity and turns.                                              *)

Locks == LockCounts /\ Bounded /\ OwnerIsNewest

LEMMA LocksStay ==
  ASSUME Locks, UNCHANGED <<lock, active, turn>>,
         \A d \in Call : call'[d].turn = call[d].turn, TypeOK
  PROVE  Locks'
BY DEF Locks, LockCounts, Bounded, OwnerIsNewest, TypeOK

\* An owner leaves: what it did not hold stays.
LEMMA OwnerLeaves ==
  ASSUME Types, Locks, NEW c \in Call,
         lock' \in [Key -> Call \cup {None}],
         \A k \in Key : lock'[k] = IF lock[k] = c THEN None ELSE lock[k],
         active' = active \ {c}, turn' = turn,
         \A d \in Call : call'[d].turn = call[d].turn
  PROVE  Locks'
<1> USE DEF Types, Locks
<1>1. LockCounts'
  <2>1. \A k \in Key : lock'[k] # None =>
          lock'[k] \in active' /\ KeyOf[lock'[k]] = k
    BY DEF LockCounts
  <2>2. \A d \in active' : KeyOf[d] \in Key /\ lock[KeyOf[d]] = d /\ d # c
    BY CallAssumption DEF LockCounts, TypeOK
  <2>3. \A d \in active' : lock'[KeyOf[d]] = d
    BY <2>2
  <2> QED BY <2>1, <2>3 DEF LockCounts
<1>2. Bounded'
  <2>1. IsFiniteSet(active') /\ Cardinality(active') <= Cardinality(active)
          /\ Cardinality(active') \in Nat /\ Cardinality(active) \in Nat
    BY FS_Subset, FS_CardinalityType DEF Bounded
  <2> QED BY <2>1, BoundAssumption DEF Bounded
<1>3. OwnerIsNewest'
  BY DEF OwnerIsNewest, TypeOK
<1> QED BY <1>1, <1>2, <1>3

LEMMA OwnerComes ==
  ASSUME Types, Locks, NEW c \in Call, NEW a \in CallAt, Admits(c, a)
  PROVE  Locks'
<1> USE DEF Types, Locks
<1>1. /\ \A d \in Call : d # c => call'[d] = call[d]
      /\ call'[c].turn = turn + 1
  BY AdmitsTo
<1>2. /\ lock[KeyOf[c]] = None /\ KeyOf[c] \in Key
      /\ lock' = [lock EXCEPT ![KeyOf[c]] = c]
      /\ active' = active \cup {c} /\ turn' = turn + 1
  BY CallAssumption DEF Admits
<1>3. c \notin active /\ c # None
  BY <1>2, CallAssumption DEF LockCounts
<1>4. LockCounts'
  <2>1. \A k \in Key : lock'[k] = IF k = KeyOf[c] THEN c ELSE lock[k]
    BY <1>2 DEF TypeOK
  <2>2. \A k \in Key : lock'[k] # None =>
          lock'[k] \in active' /\ KeyOf[lock'[k]] = k
    BY <1>2, <2>1 DEF LockCounts
  <2>3. ASSUME NEW d \in active
        PROVE  lock[KeyOf[d]] = d /\ KeyOf[d] \in Key /\ KeyOf[d] # KeyOf[c]
    BY <1>2, <1>3, CallAssumption DEF LockCounts, TypeOK
  <2>4. \A d \in active' : lock'[KeyOf[d]] = d
    BY <1>2, <2>1, <2>3
  <2> QED BY <2>2, <2>4 DEF LockCounts
<1>5. Bounded'
  <2>1. Cardinality(active) < Capacity
    <3>1. Cardinality(active) \in Nat /\ Capacity \in Nat
      BY FS_CardinalityType, BoundAssumption DEF Bounded
    <3> QED BY <3>1 DEF Admits, Full
  <2>2. IsFiniteSet(active') /\ Cardinality(active') = Cardinality(active) + 1
    BY <1>2, <1>3, FS_AddElement DEF Bounded
  <2>3. Cardinality(active) \in Nat /\ Capacity \in Nat
    BY FS_CardinalityType, BoundAssumption DEF Bounded
  <2> QED BY <2>1, <2>2, <2>3 DEF Bounded
<1>6. OwnerIsNewest'
  <2>1. turn \in Nat /\ \A d \in Call : call[d].turn \in Nat
    BY DEF TypeOK, CallType
  <2>2. \A d \in Call : call'[d].turn <= turn'
    BY <1>1, <1>2, <2>1 DEF OwnerIsNewest
  <2>3. \A d \in active' : call'[d].turn > 0
    BY <1>1, <1>2, <2>1 DEF OwnerIsNewest, TypeOK
  <2>4. \A d \in active : KeyOf[d] # KeyOf[c]
    BY <1>2, <1>3, CallAssumption DEF LockCounts, TypeOK
  <2>5. \A d \in active', e \in Call :
          KeyOf[e] = KeyOf[d] => call'[e].turn <= call'[d].turn
    BY <1>1, <1>2, <2>1, <2>2, <2>4 DEF OwnerIsNewest, TypeOK
  <2> QED BY <2>2, <2>3, <2>5 DEF OwnerIsNewest
<1> QED BY <1>4, <1>5, <1>6

LEMMA LockStep ==
  ASSUME Types, Locks, [Next]_vars
  PROVE  Locks'
<1> USE DEF Types
<1>1. ASSUME NEW c \in Call, Proceeds(c)
      PROVE  Locks'
  <2>1. \A d \in Call : call'[d].turn = call[d].turn
    BY <1>1, Movers DEF Moves
  <2>2. turn' = turn
    <3>1. CASE ReplyLost(c) /\ Goes(c, "releasing")
      <4>1. ~Admits(c, "busy")
        BY <3>1, GoesTo, AdmitsTo DEF CallAt, Ended
      <4> QED BY <3>1, <4>1 DEF ReplyLost, history
    <3> QED
      BY <1>1, <3>1
      DEF Proceeds, Start, Read, Wait, Refuse, Recheck, Produce, Publish,
          Release, ProducerFails, CommandLost, Die, history
  <2>3. CASE Release(c)
    <3>1. active' = active \ {c} /\ KeyOf[c] \in Key
      BY <2>3, CallAssumption DEF Release
    <3>2. \A k \in Key : lock[k] = c => k = KeyOf[c]
      BY CallAssumption DEF Locks, LockCounts
    <3>3. \A k \in Key : lock'[k] = IF lock[k] = c THEN None ELSE lock[k]
      BY <2>3, <3>1, <3>2 DEF Release, TypeOK
    <3>4. lock' \in [Key -> Call \cup {None}]
      BY <2>3, <3>1 DEF Release, TypeOK
    <3> QED BY <2>1, <2>2, <3>1, <3>3, <3>4, OwnerLeaves
  <2>4. CASE ~Release(c)
    <3>1. lock' = lock /\ active' = active
      <4>1. ~Admits(c, "busy") \/ ~Goes(c, "releasing")
        BY GoesTo, AdmitsTo DEF CallAt, Ended
      <4> QED
        BY <1>1, <2>4, <4>1
        DEF Proceeds, Start, Read, Wait, Refuse, Recheck, Produce, Publish,
            ProducerFails, CommandLost, Die, ReplyLost, redis
    <3> QED BY <2>1, <2>2, <3>1, LocksStay
  <2> QED BY <2>3, <2>4
<1>2. ASSUME NEW c \in Call, Admit(c) \/ (ReplyLost(c) /\ Admits(c, "busy"))
      PROVE  Locks'
  BY <1>2, OwnerComes DEF Admit, CallAt, Ended
<1>3. ASSUME NEW c \in Call, LeaseEnds(c) \/ LeaseEndsEarly(c)
      PROVE  Locks'
  <2>1. Lapses(c)
    BY <1>3 DEF LeaseEnds, LeaseEndsEarly
  <2>2. lock' \in [Key -> Call \cup {None}]
    BY <2>1 DEF Lapses, TypeOK
  <2> QED BY <2>1, <2>2, OwnerLeaves DEF Lapses, history
<1>4. ASSUME NEW k \in Key, CooldownEnds(k) \/ Evict(k)
      PROVE  Locks'
  BY <1>4, LocksStay DEF CooldownEnds, Evict, history
<1>5. CASE UNCHANGED vars
  BY <1>5, LocksStay DEF vars
<1> QED BY <1>1, <1>2, <1>3, <1>4, <1>5, AllSteps
-----------------------------------------------------------------------------
(* Results: where they come from, and that a newer one stays.              *)

\* Only the owner of a handle sets its result, while it publishes.
LEMMA Caches ==
  ASSUME Types, NEW c \in Call, Proceeds(c)
  PROVE  \A k \in Key :
           \/ cache'[k] = cache[k]
           \/ /\ k = KeyOf[c] /\ cache'[k] = c /\ lock[k] = c
              /\ call[c].at = "publishing"
<1> USE DEF Types
<1>1. CASE ReplyLost(c) /\ Goes(c, "releasing")
  <2>1. ~Admits(c, "busy")
    BY <1>1, GoesTo, AdmitsTo DEF CallAt, Ended
  <2>2. /\ call[c].at = "publishing" /\ lock[KeyOf[c]] = c
        /\ cache' = [cache EXCEPT ![KeyOf[c]] = c]
    BY <1>1, <2>1 DEF ReplyLost
  <2> QED BY <2>2 DEF TypeOK
<1>2. CASE Publish(c)
  <2>1. CASE lock[KeyOf[c]] = c
    BY <1>2, <2>1 DEF Publish, TypeOK
  <2>2. CASE lock[KeyOf[c]] # c
    BY <1>2, <2>2 DEF Publish
  <2> QED BY <2>1, <2>2
<1>3. CASE ~Publish(c) /\ ~(ReplyLost(c) /\ Goes(c, "releasing"))
  BY <1>3
  DEF Proceeds, Start, Read, Wait, Refuse, Recheck, Produce, Release,
      ProducerFails, CommandLost, Die, redis
<1> QED BY <1>1, <1>2, <1>3

\* What a call answers with: what it had, what is cached, or its own.
LEMMA Results ==
  ASSUME Types, NEW c \in Call, Proceeds(c)
  PROVE  \/ Keeps(c) /\ (call'[c].at = "served" => call[c].ok)
         \/ /\ call'[c].got = cache[KeyOf[c]]
            /\ call'[c].ok \/ call'[c].at = "served" =>
                 cache[KeyOf[c]] # None \/ (call[c].ok /\ Keeps(c))
         \/ call'[c].got = c /\ call[c].at = "publishing"
<1> USE DEF Types
<1>1. CASE Start(c) \/ Refuse(c) \/ Produce(c) \/ ProducerFails(c)
             \/ Die(c) \/ (ReplyLost(c) /\ Goes(c, "releasing"))
  BY <1>1, GoesTo
  DEF Start, Refuse, Produce, ProducerFails, Die, CallAt, Ended
<1>2. CASE CommandLost(c)
  BY <1>2, GoesTo, GivesAnswer DEF CommandLost, CallAt, Ended
<1>3. CASE Release(c)
  BY <1>3, GivesAnswer DEF Release
<1>4. CASE Wait(c)
  BY <1>4, Waits
<1>5. CASE Read(c)
  <2>2. /\ call'[c].ok = call[c].ok
        /\ \/ /\ cache[KeyOf[c]] # None /\ call'[c].at = "served"
              /\ call'[c].got = cache[KeyOf[c]]
           \/ call'[c].at = "asking" /\ call'[c].got = call[c].got
    BY <1>5, Reads
  <2> QED BY <2>2 DEF Keeps
<1>6. CASE Recheck(c)
  <2>1. /\ call'[c].got = cache[KeyOf[c]]
        /\ call'[c].ok = (cache[KeyOf[c]] # None)
        /\ call'[c].at = IF cache[KeyOf[c]] = None THEN "producing"
                                                   ELSE "releasing"
    BY <1>6, Rechecks
  <2>2. call'[c].at # "served"
    BY <2>1
  <2> QED BY <2>1, <2>2
<1>7. CASE Publish(c)
  <2>1. /\ call'[c].at = "releasing" /\ call[c].at = "publishing"
        /\ call'[c].got = c \/ Keeps(c)
    BY <1>7, Publishes DEF Publish
  <2> QED BY <2>1
<1> QED BY <1>1, <1>2, <1>3, <1>4, <1>5, <1>6, <1>7 DEF Proceeds

\* Only an admission makes a call work.
LEMMA Works ==
  ASSUME Types, NEW c \in Call, Proceeds(c)
  PROVE  Working(c)' => Working(c)
<1> USE DEF Types
<1>1. CASE Start(c) \/ Refuse(c) \/ Produce(c) \/ ProducerFails(c)
             \/ Die(c) \/ (ReplyLost(c) /\ Goes(c, "releasing"))
  BY <1>1, GoesTo
  DEF Start, Refuse, Produce, ProducerFails, Die, CallAt, Ended, Working
<1>2. CASE CommandLost(c)
  BY <1>2, GoesTo, GivesAnswer DEF CommandLost, CallAt, Ended, Working
<1>3. CASE Release(c)
  BY <1>3, GivesAnswer DEF Release, Working
<1>4. CASE Read(c) \/ Wait(c) \/ Publish(c)
  BY <1>4, Reads, Waits, Publishes DEF Working
<1>5. CASE Recheck(c)
  BY <1>5, Rechecks DEF Working, Recheck
<1> QED BY <1>1, <1>2, <1>3, <1>4, <1>5 DEF Proceeds

LEMMA SourceStep ==
  ASSUME Types, Locks, Sources, [Next]_vars
  PROVE  Sources'
<1> USE DEF Types
<1>1. ASSUME NEW c \in Call, Proceeds(c)
      PROVE  Sources'
  <2>1. /\ \A d \in Call : d # c => call'[d] = call[d]
        /\ \A d \in Call : call'[d].turn = call[d].turn
    BY <1>1, Movers DEF Moves
  <2>2. \A d \in Call : Working(d)' => call'[d].turn > 0
    BY <1>1, <2>1, Works DEF Sources, Working
  <2>3. \A k \in Key : cache[k] # None => cache[k] \in Call
    BY DEF TypeOK
  <2>4. call[c].at = "publishing" => call[c].turn > 0
    BY DEF Sources, Working
  <2>5. \A k \in Key : cache'[k] # None =>
          KeyOf[cache'[k]] = k /\ call'[cache'[k]].turn > 0
    BY <1>1, <2>1, <2>3, <2>4, Caches DEF Sources
  <2>6. ASSUME NEW d \in Call, call'[d].ok \/ call'[d].at = "served"
        PROVE  /\ call'[d].got # None /\ KeyOf[call'[d].got] = KeyOf[d]
               /\ call'[call'[d].got].turn > 0
    <3>1. \A e \in Call : call[e].got \in Call \cup {None}
      BY DEF TypeOK, CallType
    <3>2. ASSUME call'[d].got = call[d].got, call[d].ok \/ call[d].at = "served"
          PROVE  /\ call'[d].got # None /\ KeyOf[call'[d].got] = KeyOf[d]
                 /\ call'[call'[d].got].turn > 0
      BY <2>1, <3>1, <3>2 DEF Sources
    <3>3. CASE d # c
      BY <2>1, <2>6, <3>2, <3>3
    <3>4. CASE d = c /\ Keeps(c) /\ (call'[c].at = "served" => call[c].ok)
      BY <2>6, <3>2, <3>4 DEF Keeps
    <3>5. CASE d = c /\ call'[c].got = cache[KeyOf[c]]
                 /\ cache[KeyOf[c]] # None
      BY <2>1, <2>3, <3>5, CallAssumption DEF Sources
    <3>6. CASE d = c /\ call[c].ok /\ Keeps(c)
      BY <3>2, <3>6 DEF Keeps
    <3>7. CASE d = c /\ call'[c].got = c /\ call[c].at = "publishing"
      BY <2>1, <2>4, <3>7, CallAssumption
    <3> QED BY <1>1, <2>6, <3>3, <3>4, <3>5, <3>6, <3>7, Results
  <2> QED BY <2>2, <2>5, <2>6 DEF Sources
<1>2. ASSUME NEW c \in Call, Admit(c) \/ (ReplyLost(c) /\ Admits(c, "busy"))
      PROVE  Sources'
  <2>1. PICK a \in {"admitted", "busy"} : Admits(c, a)
    BY <1>2 DEF Admit
  <2>2. /\ \A d \in Call : d # c => call'[d] = call[d]
        /\ call'[c].turn = turn + 1 /\ call'[c].at = a /\ Keeps(c)
    BY <2>1, AdmitsTo DEF CallAt, Ended
  <2>3. turn \in Nat /\ cache' = cache
    BY <2>1 DEF TypeOK, Admits
  <2>4. \A d \in Call : call[d].turn > 0 => call'[d].turn > 0
    BY <2>2, <2>3
  <2>5. \A d \in Call : Working(d)' => call'[d].turn > 0
    BY <2>2, <2>3 DEF Sources, Working
  <2>6. \A k \in Key : cache'[k] # None =>
          KeyOf[cache'[k]] = k /\ call'[cache'[k]].turn > 0
    BY <2>3, <2>4 DEF Sources, TypeOK
  <2>7. \A d \in Call : call[d].got \in Call \cup {None}
    BY DEF TypeOK, CallType
  <2>8. \A d \in Call : call'[d].got = call[d].got
          /\ (call'[d].ok \/ call'[d].at = "served" =>
                call[d].ok \/ call[d].at = "served")
    BY <2>2 DEF Keeps
  <2> QED BY <2>4, <2>5, <2>6, <2>7, <2>8 DEF Sources
<1>3. ASSUME NEW c \in Call, LeaseEnds(c) \/ LeaseEndsEarly(c)
      PROVE  Sources'
  BY <1>3 DEF LeaseEnds, LeaseEndsEarly, Lapses, Sources, Working
<1>4. ASSUME NEW k \in Key, CooldownEnds(k)
      PROVE  Sources'
  BY <1>4 DEF CooldownEnds, Sources, Working
<1>5. ASSUME NEW k \in Key, Evict(k)
      PROVE  Sources'
  BY <1>5 DEF Evict, Sources, Working, TypeOK
<1>6. CASE UNCHANGED vars
  BY <1>6 DEF vars, Sources, Working
<1> QED BY <1>1, <1>2, <1>3, <1>4, <1>5, <1>6, AllSteps

\* The cache changes only by its owner, whose turn is the last of the handle.
LEMMA NewestStep ==
  ASSUME Types, Locks, Sources, [Next]_vars
  PROVE  NewestResultStays
<1> USE DEF Types
<1>1. \A c \in Call : call[c].turn \in Nat
  BY DEF TypeOK, CallType
<1>2. \A k \in Key : cache[k] # None => cache[k] \in Call
  BY DEF TypeOK
<1>3. ASSUME NEW c \in Call, Proceeds(c), NEW k \in Key,
             cache[k] # None, cache'[k] # None
      PROVE  call[cache'[k]].turn >= call[cache[k]].turn
  <2>1. CASE cache'[k] = cache[k]
    BY <1>1, <1>2, <1>3, <2>1
  <2>2. CASE k = KeyOf[c] /\ cache'[k] = c /\ lock[k] = c
    <3>1. c \in active
      BY <2>2, CallAssumption DEF Locks, LockCounts
    <3>2. KeyOf[cache[k]] = KeyOf[c] /\ cache[k] \in Call
      BY <1>2, <1>3, <2>2 DEF Sources
    <3>3. call[cache[k]].turn <= call[c].turn
      BY <3>1, <3>2 DEF Locks, OwnerIsNewest
    <3> QED BY <1>1, <2>2, <3>2, <3>3
  <2> QED BY <1>3, <2>1, <2>2, Caches
<1>4. ASSUME NEW c \in Call, Admit(c) \/ (ReplyLost(c) /\ Admits(c, "busy"))
      PROVE  NewestResultStays
  BY <1>1, <1>2, <1>4 DEF Admit, Admits, NewestResultStays
<1>5. ASSUME NEW c \in Call, LeaseEnds(c) \/ LeaseEndsEarly(c)
      PROVE  NewestResultStays
  BY <1>1, <1>2, <1>5
  DEF LeaseEnds, LeaseEndsEarly, Lapses, NewestResultStays
<1>6. ASSUME NEW k \in Key, CooldownEnds(k) \/ Evict(k)
      PROVE  NewestResultStays
  BY <1>1, <1>2, <1>6 DEF CooldownEnds, Evict, NewestResultStays, TypeOK
<1>7. CASE UNCHANGED vars
  BY <1>1, <1>2, <1>7 DEF vars, NewestResultStays
<1> QED BY <1>3, <1>4, <1>5, <1>6, <1>7, AllSteps DEF NewestResultStays
-----------------------------------------------------------------------------
(* One crawl, as long as nothing fails.                                    *)

\* The steps of c that spend no trouble.
Fares(c) ==
  \/ Start(c) \/ Read(c) \/ Wait(c) \/ Refuse(c) \/ Recheck(c) \/ Produce(c)
  \/ Publish(c) \/ Release(c)

LEMMA FairSteps ==
  ASSUME TypeOK, [Next]_vars, trouble' = Trouble
  PROVE  /\ trouble = Trouble
         /\ \/ \E c \in Call : Fares(c) \/ Admit(c) \/ LeaseEnds(c)
            \/ \E k \in Key : CooldownEnds(k)
            \/ UNCHANGED vars
<1>1. trouble \in 0..Trouble /\ trouble' <= trouble
  BY TroubleStep DEF TypeOK
<1>2. trouble = Trouble
  BY <1>1, BoundAssumption
<1>3. ~Spends
  BY <1>2, BoundAssumption DEF Spends
<1> QED
  BY <1>2, <1>3
  DEF Next, Step, Fares, ProducerFails, CommandLost, ReplyLost, Die,
      LeaseEndsEarly, Evict

LEMMA UntroubledStep ==
  ASSUME Types, Locks, Untroubled, [Next]_vars
  PROVE  Untroubled'
<1> SUFFICES ASSUME trouble' = Trouble
             PROVE  /\ \A c \in Call : Working(c)' => lock'[KeyOf[c]] = c
                    /\ \A c \in Call :
                         call'[c].at = "producing" => made'[KeyOf[c]] = 0
                    /\ \A k \in Key :
                         made'[k] = 0 \/ (made'[k] = 1 /\ Made(k)')
  BY DEF Untroubled
<1> DEFINE Goal ==
      /\ \A c \in Call : Working(c)' => lock'[KeyOf[c]] = c
      /\ \A c \in Call : call'[c].at = "producing" => made'[KeyOf[c]] = 0
      /\ \A k \in Key : made'[k] = 0 \/ (made'[k] = 1 /\ Made(k)')
<1> USE DEF Types
<1>1. /\ \A c \in Call : Working(c) => lock[KeyOf[c]] = c
      /\ \A c \in Call : call[c].at = "producing" => made[KeyOf[c]] = 0
      /\ \A k \in Key : made[k] = 0 \/ (made[k] = 1 /\ Made(k))
  BY FairSteps DEF Untroubled
<1>2. /\ \A k \in Key : lock[k] \in Call \cup {None}
      /\ \A k \in Key : cache[k] \in Call \cup {None}
      /\ \A c \in Call : KeyOf[c] \in Key /\ c # None
      /\ \A k \in Key : lock[k] # None => KeyOf[lock[k]] = k
  BY CallAssumption DEF TypeOK, Locks, LockCounts
\* c neither worked nor will, and nothing else moves.
<1>3. ASSUME NEW c \in Call,
             \A d \in Call : d # c => call'[d] = call[d],
             ~Working(c)', call[c].at # "publishing",
             \A d \in Call : d # c /\ lock[KeyOf[d]] = d =>
                             lock'[KeyOf[d]] = d,
             UNCHANGED <<cache, made>>
      PROVE  Goal
  <2>1. \A d \in Call : d # c => (Working(d)' <=> Working(d))
    BY <1>3 DEF Working
  <2>2. \A d \in Call : Working(d)' => lock'[KeyOf[d]] = d
    BY <1>1, <1>3, <2>1
  <2>3. \A d \in Call : call'[d].at = "producing" => made'[KeyOf[d]] = 0
    BY <1>1, <1>3 DEF Working
  <2>4. ASSUME NEW k \in Key, Made(k)
        PROVE  Made(k)'
    <3>1. CASE cache[k] # None
      BY <1>3, <3>1 DEF Made
    <3>2. CASE lock[k] # None /\ call[lock[k]].at = "publishing"
      <4>1. lock[k] \in Call /\ lock[k] # c /\ KeyOf[lock[k]] = k
        BY <1>2, <1>3, <3>2
      <4>2. lock'[k] = lock[k]
        BY <1>3, <4>1
      <4> QED BY <1>3, <3>2, <4>1, <4>2 DEF Made
    <3> QED BY <2>4, <3>1, <3>2 DEF Made
  <2> QED BY <1>1, <1>3, <2>2, <2>3, <2>4
<1>4. ASSUME NEW c \in Call, Start(c) \/ Read(c) \/ Wait(c) \/ Refuse(c)
      PROVE  Goal
  <2>1. /\ \A d \in Call : d # c => call'[d] = call[d]
        /\ call'[c].at \in {"reading", "served", "asking", "busy"}
    BY <1>4, GoesTo, Reads, Waits DEF Start, Refuse, Moves, CallAt, Ended
  <2>2. call[c].at # "publishing" /\ UNCHANGED <<lock, cache, made>>
    BY <1>4 DEF Start, Read, Wait, Refuse, redis, history
  <2>3. ~Working(c)'
    BY <2>1 DEF Working
  <2> QED BY <1>3, <2>1, <2>2, <2>3
<1>5. ASSUME NEW c \in Call, Recheck(c)
      PROVE  Goal
  <2>1. /\ \A d \in Call : d # c => call'[d] = call[d]
        /\ call'[c].at = IF cache[KeyOf[c]] = None THEN "producing"
                                                   ELSE "releasing"
    BY <1>5, Rechecks DEF Moves
  <2>2. call[c].at = "admitted" /\ UNCHANGED <<lock, cache, made>>
    BY <1>5 DEF Recheck, redis, history
  <2>3. lock[KeyOf[c]] = c /\ KeyOf[c] \in Key
    BY <1>1, <1>2, <2>2 DEF Working
  <2>4. CASE cache[KeyOf[c]] # None
    <3>1. ~Working(c)'
      BY <2>1, <2>4 DEF Working
    <3> QED BY <1>3, <2>1, <2>2, <3>1
  <2>5. CASE cache[KeyOf[c]] = None
    <3>1. made[KeyOf[c]] = 0
      BY <1>1, <2>2, <2>3, <2>5 DEF Made
    <3>2. \A k \in Key : Made(k) => Made(k)'
      BY <1>2, <2>1, <2>2 DEF Made
    <3> QED BY <1>1, <2>1, <2>2, <2>3, <3>1, <3>2 DEF Working
  <2> QED BY <2>4, <2>5
<1>6. ASSUME NEW c \in Call, Produce(c)
      PROVE  Goal
  <2>1. /\ \A d \in Call : d # c => call'[d] = call[d]
        /\ call'[c].at = "publishing"
    BY <1>6, GoesTo DEF Produce, Moves, CallAt
  <2>2. /\ call[c].at = "producing" /\ UNCHANGED <<lock, cache>>
        /\ made' = [made EXCEPT ![KeyOf[c]] = made[KeyOf[c]] + 1]
    BY <1>6 DEF Produce, redis
  <2>3. lock[KeyOf[c]] = c /\ KeyOf[c] \in Key /\ made[KeyOf[c]] = 0
    BY <1>1, <1>2, <2>2 DEF Working
  <2>4. \A k \in Key : made'[k] = IF k = KeyOf[c] THEN 1 ELSE made[k]
    BY <2>2, <2>3 DEF TypeOK
  <2>5. \A d \in Call : Working(d)' => lock'[KeyOf[d]] = d
    BY <1>1, <2>1, <2>2, <2>3 DEF Working
  <2>6. \A d \in Call : call'[d].at = "producing" => made'[KeyOf[d]] = 0
    BY <1>1, <1>2, <2>1, <2>3, <2>4 DEF Working
  <2>7. Made(KeyOf[c])'
    BY <1>2, <2>1, <2>2, <2>3 DEF Made
  <2>8. \A k \in Key : Made(k) => Made(k)'
    BY <1>2, <2>1, <2>2 DEF Made
  <2> QED BY <1>1, <2>4, <2>5, <2>6, <2>7, <2>8
<1>7. ASSUME NEW c \in Call, Publish(c)
      PROVE  Goal
  <2>1. /\ \A d \in Call : d # c => call'[d] = call[d]
        /\ call'[c].at = "releasing"
    BY <1>7, Publishes DEF Moves
  <2>2. call[c].at = "publishing" /\ UNCHANGED <<lock, made>>
    BY <1>7 DEF Publish, history
  <2>3. lock[KeyOf[c]] = c /\ KeyOf[c] \in Key
    BY <1>1, <1>2, <2>2 DEF Working
  <2>4. cache' = [cache EXCEPT ![KeyOf[c]] = c]
    BY <1>7, <2>3 DEF Publish
  <2>5. ASSUME NEW k \in Key, Made(k)
        PROVE  Made(k)'
    <3>1. CASE k = KeyOf[c]
      BY <1>2, <2>3, <2>4, <3>1 DEF Made, TypeOK
    <3>2. CASE k # KeyOf[c]
      <4>1. cache'[k] = cache[k] /\ lock'[k] = lock[k]
        BY <2>2, <2>3, <2>4, <3>2 DEF TypeOK
      <4>2. lock[k] # None => lock[k] \in Call /\ lock[k] # c
        BY <1>2, <3>2
      <4> QED BY <2>1, <2>5, <4>1, <4>2 DEF Made
    <3> QED BY <3>1, <3>2
  <2> QED BY <1>1, <2>1, <2>2, <2>5 DEF Working
<1>8. ASSUME NEW c \in Call, Release(c)
      PROVE  Goal
  <2>1. /\ \A d \in Call : d # c => call'[d] = call[d]
        /\ call'[c].at \in Ended
    BY <1>8, GivesAnswer DEF Release, Moves, Ended
  <2>2. ~Working(c)' /\ call[c].at # "publishing"
    BY <1>8, <2>1 DEF Working, Release, Ended
  <2>3. \A d \in Call : d # c /\ lock[KeyOf[d]] = d => lock'[KeyOf[d]] = d
    BY <1>2, <1>8 DEF Release, TypeOK
  <2>4. UNCHANGED <<cache, made>>
    BY <1>8 DEF Release, history
  <2> QED BY <1>3, <2>1, <2>2, <2>3, <2>4
<1>9. ASSUME NEW c \in Call, Admit(c)
      PROVE  Goal
  <2>1. /\ \A d \in Call : d # c => call'[d] = call[d]
        /\ call'[c].at = "admitted"
    BY <1>9, AdmitsTo DEF Admit, CallAt
  <2>2. /\ lock[KeyOf[c]] = None /\ UNCHANGED <<cache, made>>
        /\ lock' = [lock EXCEPT ![KeyOf[c]] = c]
        /\ call[c].at = "asking"
    BY <1>9 DEF Admit, Admits
  <2>3. \A d \in Call : d # c /\ lock[KeyOf[d]] = d => lock'[KeyOf[d]] = d
    BY <1>2, <2>2 DEF TypeOK
  <2>4. lock'[KeyOf[c]] = c
    BY <1>2, <2>2 DEF TypeOK
  <2>5. \A d \in Call : Working(d)' => lock'[KeyOf[d]] = d
    BY <1>1, <2>1, <2>3, <2>4 DEF Working
  <2>6. \A d \in Call : call'[d].at = "producing" => made'[KeyOf[d]] = 0
    BY <1>1, <2>1, <2>2
  <2>7. ASSUME NEW k \in Key, Made(k)
        PROVE  Made(k)'
    <3>1. CASE cache[k] # None
      BY <2>2, <3>1 DEF Made
    <3>2. CASE lock[k] # None /\ call[lock[k]].at = "publishing"
      <4>1. lock[k] \in Call /\ lock[k] # c /\ KeyOf[lock[k]] = k
        BY <1>2, <2>2, <3>2
      <4>2. lock'[k] = lock[k]
        BY <2>3, <4>1
      <4> QED BY <2>1, <3>2, <4>1, <4>2 DEF Made
    <3> QED BY <2>7, <3>1, <3>2 DEF Made
  <2> QED BY <1>1, <2>2, <2>5, <2>6, <2>7
<1>10. ASSUME NEW c \in Call, LeaseEnds(c)
       PROVE  Goal
  <2>1. /\ call' = call /\ call[c].at \in Ended /\ UNCHANGED <<cache, made>>
        /\ lock' = [k \in Key |-> IF lock[k] = c THEN None ELSE lock[k]]
    BY <1>10 DEF LeaseEnds, Lapses, history
  <2>2. ~Working(c)' /\ call[c].at # "publishing"
    BY <2>1 DEF Working, Ended
  <2>3. \A d \in Call : d # c /\ lock[KeyOf[d]] = d => lock'[KeyOf[d]] = d
    BY <1>2, <2>1
  <2> QED BY <1>3, <2>1, <2>2, <2>3
<1>11. ASSUME NEW k \in Key, CooldownEnds(k)
       PROVE  Goal
  BY <1>1, <1>11 DEF CooldownEnds, Working, Made, history
<1>12. ASSUME UNCHANGED vars
       PROVE  Goal
  BY <1>1, <1>12 DEF vars, Working, Made
<1> HIDE DEF Goal
<1>13. \A c \in Call : Fares(c) => Goal
  BY <1>4, <1>5, <1>6, <1>7, <1>8 DEF Fares
<1>14. Goal
  BY <1>9, <1>10, <1>11, <1>12, <1>13, FairSteps
<1> QED BY <1>14 DEF Goal

-----------------------------------------------------------------------------
(* What the invariant says of the properties, and the theorems.            *)

LEMMA InvInit ==
  ASSUME Init
  PROVE  Inv
<1>1. NewCall \in CallType
  BY BoundAssumption DEF NewCall, CallType, Ended
<1>2. TypeOK
  BY <1>1, BoundAssumption, CallAssumption DEF Init, TypeOK
<1>3. \A c \in Call : call[c] = NewCall
  BY DEF Init
<1>4. Patient /\ OwnerIsNewest /\ Sources /\ Untroubled /\ LockCounts
  BY <1>3, BoundAssumption
  DEF Init, NewCall, Patient, OwnerIsNewest, Sources, Untroubled, LockCounts,
      Working, Ended
<1>5. Bounded
  <2>1. IsFiniteSet({}) /\ Cardinality({}) = 0
    BY FS_EmptySet
  <2> QED BY <2>1, BoundAssumption DEF Init, Bounded
<1> QED BY <1>2, <1>4, <1>5 DEF Inv

LEMMA InvStep ==
  ASSUME Inv, [Next]_vars
  PROVE  Inv'
<1>1. Types /\ Locks /\ Sources /\ Untroubled
  BY DEF Inv, Types, Locks
<1>2. Types' /\ Locks' /\ Sources' /\ Untroubled'
  BY <1>1, TypeStep, LockStep, SourceStep, UntroubledStep
<1> QED BY <1>2 DEF Inv, Types, Locks

LEMMA InvBounds ==
  ASSUME Inv
  PROVE  ProducersBounded
<1>1. Cardinality({c \in active : Working(c)}) <= Capacity
  <2>1. /\ Cardinality({c \in active : Working(c)}) <= Cardinality(active)
        /\ IsFiniteSet({c \in active : Working(c)})
    BY FS_Subset DEF Inv, Bounded
  <2>2. /\ Cardinality({c \in active : Working(c)}) \in Nat
        /\ Cardinality(active) \in Nat
    BY <2>1, FS_CardinalityType DEF Inv, Bounded
  <2> QED BY <2>1, <2>2, BoundAssumption DEF Inv, Bounded
<1>2. \A c, d \in active :
        Working(c) /\ Working(d) /\ KeyOf[c] = KeyOf[d] => c = d
  BY DEF Inv, LockCounts
<1> QED BY <1>1, <1>2 DEF ProducersBounded

LEMMA InvServes ==
  ASSUME Inv
  PROVE  ServedIsPublished /\ ProducedOnce
<1>1. ServedIsPublished
  BY DEF Inv, Sources, ServedIsPublished
<1>2. ProducedOnce
  BY DEF Inv, Untroubled, ProducedOnce
<1> QED BY <1>1, <1>2

\* The strengthened invariant holds in every reachable state.
THEOREM AdmissionInvariant == Spec => []Inv
BY InvInit, InvStep, PTL DEF Spec

\* Every variable keeps to its type.
THEOREM AdmissionTypeCorrect == Spec => []TypeOK
<1>1. Inv => TypeOK
  BY DEF Inv
<1> QED BY <1>1, AdmissionInvariant, PTL

\* At most Capacity producers at a time whose lease runs, and one per handle.
THEOREM ProducersBoundedHolds == Spec => []ProducersBounded
<1>1. Inv => ProducersBounded
  BY InvBounds
<1> QED BY <1>1, AdmissionInvariant, PTL

\* Locked exactly while its owner counts against the capacity.
THEOREM LockCountsHolds == Spec => []LockCounts
<1>1. Inv => LockCounts
  BY DEF Inv
<1> QED BY <1>1, AdmissionInvariant, PTL

\* A served call has a result of its own handle, by a call once admitted.
THEOREM ServedIsPublishedHolds == Spec => []ServedIsPublished
<1>1. Inv => ServedIsPublished
  BY InvServes
<1> QED BY <1>1, AdmissionInvariant, PTL

\* Nothing failed: a handle was crawled at most once.
THEOREM ProducedOnceHolds == Spec => []ProducedOnce
<1>1. Inv => ProducedOnce
  BY InvServes
<1> QED BY <1>1, AdmissionInvariant, PTL

\* A result is replaced only by one of a later admission.
THEOREM NewestResultStaysHolds == Spec => [][NewestResultStays]_vars
<1>1. Inv /\ [Next]_vars => [NewestResultStays]_vars
  BY NewestStep DEF Inv, Types, Locks
<1> QED BY <1>1, AdmissionInvariant, PTL DEF Spec

\* What the locks of src/lib/scan-protection.ts promise, all of it.
THEOREM AdmissionSafeHolds == Spec => AdmissionSafe
<1>1. Inv => TypeOK /\ ProducersBounded /\ LockCounts /\ ServedIsPublished
             /\ ProducedOnce
  BY InvBounds, InvServes DEF Inv
<1> QED
  BY <1>1, AdmissionInvariant, NewestResultStaysHolds, PTL DEF AdmissionSafe
-----------------------------------------------------------------------------
(***************************************************************************)
(* Proofs about ModeTransition, for any requests, any number of processes  *)
(* and of evictions of the actor.  The inductive invariant RestartInv adds *)
(* that the lock has one holder until its work and its stop operation have *)
(* settled (OneHolder), that the process a request begins to start after   *)
(* is gone (OldIsGone), and what an answer says of the work and of the     *)
(* processes (Told, Receipts).                                             *)
(***************************************************************************)

\* Work that has not ended, or a stop that has not settled, holds the lock.
Holds(r) == work[r] \in Lifecycle \cup {"settled"}
OneHolder ==
  /\ \A r \in Request : Holds(r) => busy
  /\ \A r, q \in Request : Holds(r) /\ Holds(q) => r = q
  /\ \A r \in stopping : Holds(r)

\* Work is done by an actor of the new mode.
NewMode == \A r \in Request : work[r] \in Lifecycle => actor = "baseline"

\* From the start on, what runs is not what ran when the work began.
OldIsGone ==
  \A r \in Request : work[r] \in {"start", "starting", "verify"} =>
    running = NoProcess \/ running # first[r]

\* Who works for a caller that waits has told the caller nothing.
Told ==
  \A r \in Request :
    /\ work[r] = "new" => answer[r] = "none"
    /\ work[r] \in Lifecycle /\ Live(r) => answer[r] = "none"
    /\ work[r] \in Lifecycle => answer[r] # "restarted"

\* What a receipt is for.
Receipts ==
  \A r \in Request : answer[r] = "restarted" =>
    /\ proven[r] # NoProcess /\ proven[r] # first[r]
    /\ is[proven[r]] = "baseline"

RestartInv ==
  /\ RestartTypeOK /\ OneHolder /\ NewMode /\ OldIsGone /\ Told /\ Receipts
  /\ ForeignIsNotSignalled
-----------------------------------------------------------------------------
(* What the actions do.                                                    *)

\* No process of the past changes, and processes are numbered as they come.
Container ==
  /\ born' \in Process /\ running' \in 0..born' /\ is' \in [Process -> Identity]
  /\ born <= born'
  /\ \A p \in 1..born : is'[p] = is[p]
  /\ running' \in {NoProcess, running} \/ running' > born

LEMMA Launches ==
  ASSUME RestartTypeOK, Launch
  PROVE  Container
<1>1. born \in Nat /\ born + 1 \in Process /\ MaxProcesses \in Nat
  BY BoundsAssumption DEF RestartTypeOK, Process, Launch
<1>2. actor \in Identity
  BY DEF RestartTypeOK, Identity
<1> QED BY <1>1, <1>2 DEF RestartTypeOK, Launch, Container, Process

LEMMA Stays ==
  ASSUME RestartTypeOK, UNCHANGED container
  PROVE  Container
BY BoundsAssumption DEF RestartTypeOK, container, Container, Process, NoProcess

\* Only r works and is told.
Worked(r) ==
  /\ work' \in [Request -> Places] /\ answer' \in [Request -> Answers]
  /\ \A q \in Request : q # r => work'[q] = work[q] /\ answer'[q] = answer[q]
  /\ aborted' \subseteq Request
  /\ \A q \in Request : q # r => (q \in aborted' <=> q \in aborted)

LEMMA WorksAt ==
  ASSUME RestartTypeOK, NEW r \in Request, NEW a \in Places, WorkAt(r, a),
         UNCHANGED <<answer, aborted>>
  PROVE  Worked(r) /\ work'[r] = a
BY DEF RestartTypeOK, WorkAt, Worked

LEMMA IsAnswered ==
  ASSUME RestartTypeOK, NEW r \in Request, NEW a \in Answers, Answered(r, a),
         UNCHANGED work
  PROVE  /\ Worked(r)
         /\ \/ answer[r] = "none" /\ answer'[r] = a /\ r \in aborted'
            \/ answer[r] # "none" /\ UNCHANGED <<answer, aborted>>
BY DEF RestartTypeOK, Answered, Worked

LEMMA HasFailed ==
  ASSUME RestartTypeOK, NEW r \in Request, NEW a \in Answers, Fails(r, a)
  PROVE  /\ Worked(r) /\ work'[r] = "settled"
         /\ \/ answer[r] = "none" /\ answer'[r] = a /\ r \in aborted'
            \/ answer[r] # "none" /\ UNCHANGED <<answer, aborted>>
BY DEF RestartTypeOK, Fails, WorkAt, Answered, Worked, Places

-----------------------------------------------------------------------------
(* The invariant under what happens outside of the requests.               *)

LEMMA OutsideKeeps ==
  ASSUME RestartInv, Container, UNCHANGED <<actor, resets, evidence>>,
         UNCHANGED <<busy, work, stopping, aborted, answer>>,
         edge' \in {"off", "baseline"}
  PROVE  RestartInv'
<1> USE DEF RestartInv
<1>1. RestartTypeOK'
  <2>1. born \in Nat /\ born' \in Nat /\ born <= born'
    BY BoundsAssumption DEF Container, RestartTypeOK, Process
  <2>2. 0..born \subseteq 0..born' /\ 1..born \subseteq 1..born'
    BY <2>1
  <2>3. /\ first' \in [Request -> 0..born'] /\ proven' \in [Request -> 0..born']
        /\ signals' \subseteq Request \X (1..born')
    BY <2>2 DEF RestartTypeOK, evidence
  <2> QED BY <2>3 DEF RestartTypeOK, Container
<1>2. OneHolder' /\ NewMode' /\ Told'
  BY DEF OneHolder, NewMode, Told, Holds, Live
<1>3. OldIsGone'
  BY BoundsAssumption
  DEF OldIsGone, Container, evidence, RestartTypeOK, Process, NoProcess
<1>4. Receipts' /\ ForeignIsNotSignalled'
  <2>1. \A r \in Request : proven[r] # NoProcess => proven[r] \in 1..born
    BY BoundsAssumption DEF RestartTypeOK, Process, NoProcess
  <2>2. \A s \in signals : s[2] \in 1..born
    BY DEF RestartTypeOK
  <2> QED
    BY <2>1, <2>2 DEF Receipts, ForeignIsNotSignalled, Container, evidence
<1> QED BY <1>1, <1>2, <1>3, <1>4

LEMMA WakeKeeps ==
  ASSUME RestartInv, Wake
  PROVE  RestartInv'
BY Launches, OutsideKeeps DEF RestartInv, RestartTypeOK, Wake, settings

LEMMA ExitKeeps ==
  ASSUME RestartInv, Exit
  PROVE  RestartInv'
<1>1. Container
  BY BoundsAssumption
  DEF RestartInv, RestartTypeOK, Exit, Container, Process, NoProcess
<1> QED
  BY <1>1, OutsideKeeps DEF RestartInv, RestartTypeOK, Exit, settings

LEMMA DeployKeeps ==
  ASSUME RestartInv, Deploy
  PROVE  RestartInv'
BY Stays, OutsideKeeps DEF RestartInv, Deploy

LEMMA ResetKeeps ==
  ASSUME RestartInv, Reset
  PROVE  RestartInv'
<1> USE DEF RestartInv
<1>1. \A r \in Request : work'[r] \in {"new", "lost"}
        /\ (work'[r] = "new" => work[r] = "new")
  BY DEF Reset
<1>2. \A r \in Request :
        answer'[r] = answer[r] \/ (answer'[r] = "lost" /\ work[r] # "new")
  BY DEF Reset
<1>3. RestartTypeOK'
  <2>1. work' \in [Request -> Places] /\ answer' \in [Request -> Answers]
    BY DEF Reset, RestartTypeOK, Places, Answers
  <2>2. resets' \in 0..MaxResets
    BY BoundsAssumption DEF Reset, RestartTypeOK
  <2>3. actor' \in {"off", "baseline"} /\ edge' \in {"off", "baseline"}
    BY DEF Reset, RestartTypeOK
  <2> QED
    BY <1>1, <2>1, <2>2, <2>3
    DEF Reset, RestartTypeOK, container, evidence, Lifecycle
<1>4. OneHolder' /\ NewMode' /\ OldIsGone'
  BY <1>1 DEF Reset, OneHolder, NewMode, OldIsGone, Holds, Lifecycle
<1>5. Told'
  BY <1>1, <1>2 DEF Told, Lifecycle
<1>6. Receipts' /\ ForeignIsNotSignalled'
  BY <1>2
  DEF Reset, Receipts, ForeignIsNotSignalled, container, evidence
<1> QED BY <1>3, <1>4, <1>5, <1>6
-----------------------------------------------------------------------------
(* The invariant under the steps of a request.                             *)

Late == {"start", "starting", "verify"}

\* The holder goes on, ends, or tells its caller of a failure.
LEMMA HolderKeeps ==
  ASSUME RestartInv, NEW r \in Request, Worked(r), Holds(r), Container,
         UNCHANGED <<settings, busy, evidence>>, stopping' \subseteq stopping,
         work'[r] \in Lifecycle \cup {"settled"},
         work'[r] \in Lifecycle => work[r] \in Lifecycle,
         work'[r] \in Late => work[r] \in Late \/ running' = NoProcess,
         \/ answer'[r] = answer[r] /\ (r \in aborted' <=> r \in aborted)
         \/ answer'[r] # "restarted" /\ r \in aborted'
  PROVE  RestartInv'
<1> USE DEF RestartInv
<1>1. RestartTypeOK'
  <2>1. born \in Nat /\ born' \in Nat /\ born <= born'
    BY BoundsAssumption DEF Container, RestartTypeOK, Process
  <2>2. 0..born \subseteq 0..born' /\ 1..born \subseteq 1..born'
    BY <2>1
  <2>3. /\ first' \in [Request -> 0..born'] /\ proven' \in [Request -> 0..born']
        /\ signals' \subseteq Request \X (1..born')
    BY <2>2 DEF RestartTypeOK, evidence
  <2>4. /\ stopping' \cup aborted' \subseteq Request
        /\ edge' \in {"off", "baseline"} /\ actor' \in {"off", "baseline"}
        /\ busy' \in BOOLEAN /\ resets' \in 0..MaxResets
    BY DEF RestartTypeOK, Worked, settings
  <2>5. \A q \in Request : work'[q] \in Lifecycle => busy'
    BY DEF Worked, RestartTypeOK
  <2> QED BY <2>3, <2>4, <2>5 DEF RestartTypeOK, Container, Worked
<1>2. OneHolder'
  BY DEF OneHolder, Holds, Worked, RestartTypeOK
<1>3. NewMode'
  BY DEF NewMode, Worked, settings
<1>4. OldIsGone'
  <2>1. ASSUME NEW q \in Request, work[q] \in Late
        PROVE  running' = NoProcess \/ running' # first'[q]
    BY <2>1, BoundsAssumption
    DEF OldIsGone, Container, evidence, RestartTypeOK, Process, NoProcess, Late
  <2> QED BY <2>1 DEF OldIsGone, Worked, Late
<1>5. Told'
  BY DEF Told, Worked, Live, Lifecycle
<1>6. Receipts' /\ ForeignIsNotSignalled'
  <2>1. \A q \in Request : proven[q] # NoProcess => proven[q] \in 1..born
    BY BoundsAssumption DEF RestartTypeOK, Process, NoProcess
  <2>2. \A s \in signals : s[2] \in 1..born
    BY DEF RestartTypeOK
  <2>3. \A q \in Request : answer'[q] = "restarted" => answer[q] = "restarted"
    BY DEF Worked
  <2> QED
    BY <2>1, <2>2, <2>3
    DEF Receipts, ForeignIsNotSignalled, Container, evidence
<1> QED BY <1>1, <1>2, <1>3, <1>4, <1>5, <1>6

Ends(r) ==
  \/ Deadline(r) \/ ProbeFails(r) \/ StopTimeout(r) \/ StartFails(r)
  \/ Aborts(r) \/ StopSettles(r)

LEMMA EndsKeep ==
  ASSUME RestartInv, NEW r \in Request, Ends(r)
  PROVE  RestartInv'
<1> USE DEF RestartInv
<1>1. Container
  BY Stays
  DEF Ends, Deadline, ProbeFails, StopTimeout, StartFails, Aborts, StopSettles
<1>2. Holds(r)
  BY DEF Ends, Deadline, ProbeFails, StopTimeout, StartFails, Aborts,
         StopSettles, OneHolder, Holds, RestartTypeOK, Places, Lifecycle
<1>3. /\ UNCHANGED <<settings, busy, evidence>>
      /\ stopping' \subseteq stopping
  BY DEF Ends, Deadline, ProbeFails, StopTimeout, StartFails, Aborts,
         StopSettles
<1>4. CASE Deadline(r)
  <2>1. /\ Worked(r) /\ work' = work
        /\ \/ answer[r] = "none" /\ answer'[r] = "timeout" /\ r \in aborted'
           \/ answer[r] # "none" /\ UNCHANGED <<answer, aborted>>
    BY <1>4, IsAnswered DEF Deadline, Answers
  <2> QED BY <1>1, <1>2, <1>3, <2>1, HolderKeeps DEF Holds
<1>5. CASE \E a \in {"failed", "stop timeout"} : Fails(r, a)
  <2>1. PICK a \in {"failed", "stop timeout"} : Fails(r, a)
    BY <1>5
  <2>2. /\ Worked(r) /\ work'[r] = "settled"
        /\ \/ answer[r] = "none" /\ answer'[r] = a /\ r \in aborted'
           \/ answer[r] # "none" /\ UNCHANGED <<answer, aborted>>
    BY <2>1, HasFailed DEF Answers
  <2> QED
    BY <1>1, <1>2, <1>3, <2>2, HolderKeeps DEF Lifecycle, Late
<1>6. CASE Aborts(r)
  <2>1. Worked(r) /\ work'[r] = "settled" /\ UNCHANGED <<answer, aborted>>
    BY <1>6, WorksAt DEF Aborts, Places
  <2> QED BY <1>1, <1>2, <1>3, <2>1, HolderKeeps DEF Lifecycle, Late
<1>7. CASE StopSettles(r) /\ ~Fails(r, "failed")
  <2>1. CASE work[r] # "stop"
    <3>1. UNCHANGED <<work, answer, aborted>>
      BY <1>7, <2>1 DEF StopSettles
    <3>2. Worked(r)
      BY <3>1 DEF Worked, RestartTypeOK
    <3> QED BY <1>1, <1>2, <1>3, <3>1, <3>2, HolderKeeps DEF Holds
  <2>2. CASE work[r] = "stop"
    <3>1. Worked(r) /\ work'[r] = "exit" /\ UNCHANGED <<answer, aborted>>
      BY <1>7, <2>2, WorksAt DEF StopSettles, Places, Lifecycle
    <3> QED
      BY <1>1, <1>2, <1>3, <2>2, <3>1, HolderKeeps DEF Lifecycle, Late
  <2> QED BY <2>1, <2>2
<1> QED
  BY <1>4, <1>5, <1>6, <1>7
  DEF Ends, ProbeFails, StopTimeout, StartFails

GoesOn(r) ==
  SeesExit(r) \/ Begin(r) \/ Started(r) \/ ProbeWakes(r) \/ StartLaunches(r)

LEMMA GoesOnKeeps ==
  ASSUME RestartInv, NEW r \in Request, GoesOn(r)
  PROVE  RestartInv'
<1> USE DEF RestartInv
<1>1. /\ Holds(r) /\ work[r] \in Lifecycle
      /\ UNCHANGED <<settings, busy, evidence, stopping, aborted, answer>>
  BY DEF GoesOn, SeesExit, Begin, Started, ProbeWakes, StartLaunches, Holds,
         Lifecycle
<1>2. CASE SeesExit(r)
  <2>1. Worked(r) /\ work'[r] = "start"
    BY <1>2, WorksAt DEF SeesExit, Places, Lifecycle
  <2>2. running' = NoProcess
    BY <1>2 DEF SeesExit, container
  <2> QED
    BY <1>1, <1>2, <2>1, <2>2, Stays, HolderKeeps DEF SeesExit, Lifecycle
<1>3. CASE Begin(r)
  <2>1. Worked(r) /\ work'[r] = "starting" /\ work[r] = "start"
    BY <1>3, WorksAt DEF Begin, Places, Lifecycle
  <2> QED
    BY <1>1, <1>3, <2>1, Stays, HolderKeeps DEF Begin, Lifecycle, Late
<1>4. CASE Started(r)
  <2>1. Worked(r) /\ work'[r] = "verify" /\ work[r] = "starting"
    BY <1>4, WorksAt DEF Started, Places, Lifecycle
  <2> QED
    BY <1>1, <1>4, <2>1, Stays, HolderKeeps DEF Started, Lifecycle, Late
<1>5. CASE ProbeWakes(r) \/ StartLaunches(r)
  <2>1. Launch /\ work' = work
    BY <1>5 DEF ProbeWakes, StartLaunches
  <2>2. Worked(r)
    BY <1>1, <2>1 DEF Worked, RestartTypeOK
  <2> QED BY <1>1, <2>1, <2>2, Launches, HolderKeeps
<1> QED BY <1>2, <1>3, <1>4, <1>5 DEF GoesOn

LEMMA AskKeeps ==
  ASSUME RestartInv, NEW r \in Request, Ask(r)
  PROVE  RestartInv'
<1> USE DEF RestartInv
<1>1. /\ work[r] = "new" /\ answer[r] = "none"
      /\ UNCHANGED <<settings, container, proven, stopping, signals, aborted>>
  BY DEF Ask, Told
<1>2. CASE edge = "off" \/ actor = "off" \/ busy
  <2>1. PICK a \in {"not ready", "invalid", "in progress"} :
          /\ answer' = [answer EXCEPT ![r] = a]
          /\ work' = [work EXCEPT ![r] = "refused"]
          /\ UNCHANGED <<busy, first>>
    BY <1>2 DEF Ask
  <2>2. /\ work'[r] = "refused" /\ answer'[r] = a
        /\ \A q \in Request : q # r =>
             work'[q] = work[q] /\ answer'[q] = answer[q]
        /\ work' \in [Request -> Places] /\ answer' \in [Request -> Answers]
    BY <2>1 DEF RestartTypeOK, Places, Answers
  <2>3. RestartTypeOK'
    BY <1>1, <2>1, <2>2
    DEF RestartTypeOK, settings, container, Lifecycle
  <2>4. OneHolder' /\ NewMode'
    BY <1>1, <2>1, <2>2
    DEF OneHolder, NewMode, Holds, settings, Lifecycle, RestartTypeOK
  <2>6. OldIsGone' /\ Told'
    BY <1>1, <2>1, <2>2 DEF OldIsGone, Told, Live, container, Lifecycle
  <2>5. Receipts' /\ ForeignIsNotSignalled'
    BY <1>1, <2>1, <2>2 DEF Receipts, ForeignIsNotSignalled, container
  <2> QED BY <2>3, <2>4, <2>5, <2>6
<1>3. CASE ~(edge = "off" \/ actor = "off" \/ busy)
  <2>1. PICK a \in {"start", "probe"} :
          /\ work' = [work EXCEPT ![r] = a]
          /\ a = "start" => running = NoProcess
          /\ first' = [first EXCEPT ![r] = running]
          /\ busy' = TRUE /\ answer' = answer
    BY <1>3 DEF Ask, WorkAt
  <2>2. /\ work'[r] = a /\ first'[r] = running
        /\ \A q \in Request : q # r =>
             work'[q] = work[q] /\ first'[q] = first[q]
        /\ work' \in [Request -> Places] /\ first' \in [Request -> 0..born]
    BY <2>1 DEF RestartTypeOK, Places, Lifecycle
  <2>3. RestartTypeOK'
    BY <1>1, <2>1, <2>2
    DEF RestartTypeOK, settings, container, Lifecycle
  <2>4. \A q \in Request : ~Holds(q)
    BY <1>3 DEF OneHolder
  <2>5. OneHolder'
    BY <1>1, <2>1, <2>2, <2>4 DEF OneHolder, Holds, RestartTypeOK
  <2>6. NewMode'
    BY <1>1, <1>3, <2>2, <2>4
    DEF NewMode, Holds, settings, RestartTypeOK
  <2>7. OldIsGone'
    BY <1>1, <2>1, <2>2 DEF OldIsGone, container
  <2>8. Told'
    BY <1>1, <2>1, <2>2 DEF Told, Live, Lifecycle
  <2>9. Receipts' /\ ForeignIsNotSignalled'
    BY <1>1, <2>1, <2>2 DEF Receipts, ForeignIsNotSignalled, container
  <2> QED BY <2>3, <2>5, <2>6, <2>7, <2>8, <2>9
<1> QED BY <1>2, <1>3

LEMMA StopKeeps ==
  ASSUME RestartInv, NEW r \in Request, Stop(r)
  PROVE  RestartInv'
<1> USE DEF RestartInv
<1>1. /\ work[r] = "probe" /\ Live(r) /\ running # NoProcess
      /\ is[running] = actor \/ is[running] = "off"
      /\ UNCHANGED <<settings, container, busy, first, aborted, answer>>
  BY DEF Stop, Accepted
<1>2. /\ work' \in [Request -> Places] /\ work'[r] = "stop"
      /\ \A q \in Request : q # r => work'[q] = work[q]
  BY DEF Stop, WorkAt, RestartTypeOK, Places, Lifecycle
<1>3. running \in 1..born
  BY <1>1, BoundsAssumption DEF RestartTypeOK, Process, NoProcess
<1>4. answer[r] # "restarted"
  BY <1>1 DEF Told, Lifecycle
<1>5. /\ proven' \in [Request -> 0..born]
      /\ \A q \in Request : q # r => proven'[q] = proven[q]
  BY DEF Stop, RestartTypeOK
<1>6. RestartTypeOK'
  BY <1>1, <1>2, <1>3, <1>5
  DEF RestartTypeOK, Stop, settings, container, Lifecycle
<1>7. OneHolder'
  BY <1>1, <1>2 DEF OneHolder, Holds, Lifecycle, Stop, RestartTypeOK
<1>8. NewMode' /\ OldIsGone'
  BY <1>1, <1>2 DEF NewMode, OldIsGone, settings, container, Lifecycle
<1>9. Told'
  BY <1>1, <1>2 DEF Told, Live, Lifecycle
<1>10. Receipts'
  BY <1>1, <1>4, <1>5 DEF Receipts, container
<1>11. ForeignIsNotSignalled'
  <2>1. is[running] # "other"
    BY <1>1 DEF RestartTypeOK
  <2> QED BY <1>1, <2>1 DEF ForeignIsNotSignalled, Stop, container
<1> QED BY <1>6, <1>7, <1>8, <1>9, <1>10, <1>11

LEMMA VerifyKeeps ==
  ASSUME RestartInv, NEW r \in Request, Verify(r)
  PROVE  RestartInv'
<1> USE DEF RestartInv
<1>1. /\ work[r] = "verify" /\ Live(r) /\ running # NoProcess
      /\ is[running] = actor
      /\ UNCHANGED <<settings, container, busy, first, stopping, signals>>
  BY DEF Verify, Accepted
<1>2. /\ Worked(r) /\ work'[r] = "settled"
  BY HasFailed DEF Verify, Answers
<1>3. actor = "baseline" /\ running # first[r]
  BY <1>1 DEF NewMode, OldIsGone, Lifecycle
<1>4. /\ proven' \in [Request -> 0..born] /\ proven'[r] = running
      /\ \A q \in Request : q # r => proven'[q] = proven[q]
  BY DEF Verify, RestartTypeOK
<1>5. RestartTypeOK'
  BY <1>1, <1>2, <1>4
  DEF RestartTypeOK, Worked, settings, container, Lifecycle
<1>6. OneHolder'
  BY <1>1, <1>2 DEF OneHolder, Holds, Lifecycle, Worked, RestartTypeOK
<1>7. NewMode' /\ OldIsGone'
  BY <1>1, <1>2 DEF NewMode, OldIsGone, settings, container, Lifecycle, Worked
<1>8. Told'
  BY <1>1, <1>2 DEF Told, Live, Lifecycle, Worked
<1>9. Receipts' /\ ForeignIsNotSignalled'
  BY <1>1, <1>2, <1>3, <1>4
  DEF Receipts, ForeignIsNotSignalled, container, Worked
<1> QED BY <1>5, <1>6, <1>7, <1>8, <1>9

LEMMA ReleaseKeeps ==
  ASSUME RestartInv, NEW r \in Request, ReleaseLock(r)
  PROVE  RestartInv'
<1> USE DEF RestartInv
<1>1. /\ work[r] = "settled" /\ r \notin stopping /\ busy' = FALSE
      /\ UNCHANGED <<settings, container, evidence, stopping, aborted, answer>>
  BY DEF ReleaseLock, MayRelease
<1>2. /\ work' \in [Request -> Places] /\ work'[r] = "ended"
      /\ \A q \in Request : q # r => work'[q] = work[q]
  BY <1>1 DEF ReleaseLock, RestartTypeOK, Places
<1>3. \A q \in Request : ~Holds(q)'
  BY <1>1, <1>2 DEF OneHolder, Holds, Lifecycle
<1>4. stopping = {}
  BY <1>1 DEF OneHolder, Holds, RestartTypeOK
<1>5. RestartTypeOK'
  BY <1>1, <1>2, <1>3
  DEF RestartTypeOK, settings, container, evidence, Holds
<1>6. OneHolder' /\ NewMode'
  BY <1>1, <1>3, <1>4 DEF OneHolder, NewMode, Holds
<1>7. OldIsGone' /\ Told'
  BY <1>1, <1>2 DEF OldIsGone, Told, Live, container, evidence, Lifecycle
<1>8. Receipts' /\ ForeignIsNotSignalled'
  BY <1>1 DEF Receipts, ForeignIsNotSignalled, container, evidence
<1> QED BY <1>5, <1>6, <1>7, <1>8

-----------------------------------------------------------------------------
(* The theorems.                                                           *)

LEMMA RestartInvInit ==
  ASSUME RestartInit
  PROVE  RestartInv
<1>1. 1 \in Process /\ 0 \in 0..MaxResets /\ MaxResets \in 0..MaxResets
  BY BoundsAssumption DEF Process
<1>2. is \in [Process -> Identity]
  BY DEF RestartInit
<1>3. /\ running \in 0..born /\ born \in Process
      /\ edge \in {"off", "baseline"} /\ actor \in {"off", "baseline"}
      /\ busy = FALSE /\ resets \in 0..MaxResets
      /\ stopping = {} /\ signals = {} /\ aborted = {}
  BY <1>1 DEF RestartInit, NoProcess
<1>4. /\ work \in [Request -> Places] /\ answer \in [Request -> Answers]
      /\ first \in [Request -> 0..born] /\ proven \in [Request -> 0..born]
      /\ \A r \in Request : work[r] \notin Lifecycle
  BY DEF RestartInit, Places, Answers, NoProcess, Lifecycle
<1>5. RestartTypeOK
  BY <1>2, <1>3, <1>4 DEF RestartTypeOK
<1> QED
  BY <1>5
  DEF RestartInit, RestartInv, OneHolder, Holds, NewMode, OldIsGone, Told,
      Receipts, ForeignIsNotSignalled, Lifecycle

LEMMA RestartInvStep ==
  ASSUME RestartInv, [RestartNext]_restartVars
  PROVE  RestartInv'
<1>1. ASSUME NEW r \in Request, RestartStep(r)
      PROVE  RestartInv'
  BY <1>1, EndsKeep, GoesOnKeeps, AskKeeps, StopKeeps, VerifyKeeps,
     ReleaseKeeps
  DEF RestartStep, Ends, GoesOn
<1>2. CASE UNCHANGED restartVars
  <2>1. UNCHANGED <<edge, actor, resets, container, evidence>>
    BY <1>2 DEF restartVars, container, evidence
  <2> QED
    BY <1>2, <2>1, Stays, OutsideKeeps
    DEF RestartInv, RestartTypeOK, restartVars
<1>3. ASSUME Wake \/ Exit \/ Deploy \/ Reset
      PROVE  RestartInv'
  BY <1>3, WakeKeeps, ExitKeeps, DeployKeeps, ResetKeeps
<1> QED BY <1>1, <1>2, <1>3 DEF RestartNext

LEMMA RestartInvImplies ==
  ASSUME RestartInv
  PROVE  ReceiptIsOfNewProcess /\ OneLifecycle
<1>1. ReceiptIsOfNewProcess
  BY DEF RestartInv, Receipts, ReceiptIsOfNewProcess
<1>2. OneLifecycle
  <2> DEFINE H == {r \in Request : work[r] \in Lifecycle \/ r \in stopping}
  <2>1. \A r, q \in H : r = q
    BY DEF RestartInv, OneHolder, Holds
  <2>2. CASE H = {}
    BY <2>2, FS_EmptySet DEF OneLifecycle
  <2>3. CASE H # {}
    <3>1. PICK r \in H : H = {r}
      BY <2>1, <2>3
    <3>2. Cardinality({r}) = 1
      BY FS_Singleton
    <3> QED BY <3>1, <3>2 DEF OneLifecycle
  <2> QED BY <2>2, <2>3
<1> QED BY <1>1, <1>2

LEMMA BeginsForNobodyElse ==
  ASSUME RestartInv, [RestartNext]_restartVars
  PROVE  NothingStartsAfterAnswer
<1> SUFFICES ASSUME NEW r \in Request, work[r] # "starting",
                    work'[r] = "starting"
             PROVE  answer[r] = "none"
  BY DEF NothingStartsAfterAnswer
<1> USE DEF RestartInv
<1>1. Begin(r)
  <2>1. ASSUME NEW q \in Request, RestartStep(q), q # r
        PROVE  FALSE
    BY <2>1
    DEF RestartStep, Ask, Deadline, ProbeWakes, ProbeFails, Stop, StopSettles,
        StopTimeout, SeesExit, Begin, StartLaunches, Started, StartFails,
        Aborts, Verify, ReleaseLock, Fails, WorkAt, RestartTypeOK
  <2>2. ASSUME RestartStep(r), ~Begin(r)
        PROVE  FALSE
    BY <2>2
    DEF RestartStep, Ask, Deadline, ProbeWakes, ProbeFails, Stop, StopSettles,
        StopTimeout, SeesExit, StartLaunches, Started, StartFails,
        Aborts, Verify, ReleaseLock, Fails, WorkAt, RestartTypeOK
  <2>3. ~Wake /\ ~Exit /\ ~Deploy /\ ~Reset /\ ~UNCHANGED restartVars
    BY DEF Wake, Exit, Deploy, Reset, restartVars
  <2> QED BY <2>1, <2>2, <2>3 DEF RestartNext
<1>2. work[r] = "start" /\ Live(r)
  BY <1>1 DEF Begin
<1> QED BY <1>2 DEF Told, Lifecycle

\* The strengthened invariant holds in every reachable state.
THEOREM RestartInvariant == RestartSpec => []RestartInv
BY RestartInvInit, RestartInvStep, PTL DEF RestartSpec

\* A receipt is for a process of the new mode that is not the old one.
THEOREM ReceiptIsOfNewProcessHolds == RestartSpec => []ReceiptIsOfNewProcess
<1>1. RestartInv => ReceiptIsOfNewProcess
  BY RestartInvImplies
<1> QED BY <1>1, RestartInvariant, PTL

\* One lifecycle operation at a time, unsettled stops included.
THEOREM OneLifecycleHolds == RestartSpec => []OneLifecycle
<1>1. RestartInv => OneLifecycle
  BY RestartInvImplies
<1> QED BY <1>1, RestartInvariant, PTL

\* A process of another release is never signalled.
THEOREM ForeignIsNotSignalledHolds == RestartSpec => []ForeignIsNotSignalled
<1>1. RestartInv => ForeignIsNotSignalled
  BY DEF RestartInv
<1> QED BY <1>1, RestartInvariant, PTL

\* No start begins for a caller that was told of a failure.
THEOREM NothingStartsAfterAnswerHolds ==
  RestartSpec => [][NothingStartsAfterAnswer]_restartVars
<1>1. RestartInv /\ [RestartNext]_restartVars
        => [NothingStartsAfterAnswer]_restartVars
  BY BeginsForNobodyElse
<1> QED BY <1>1, RestartInvariant, PTL DEF RestartSpec

\* What the restart of src/platform/runtime/src/transition.ts promises.
THEOREM RestartSafeHolds == RestartSpec => RestartSafe
<1>1. RestartInv => RestartTypeOK /\ ReceiptIsOfNewProcess /\ OneLifecycle
        /\ ForeignIsNotSignalled
  BY RestartInvImplies DEF RestartInv
<1> QED
  BY <1>1, RestartInvariant, NothingStartsAfterAnswerHolds, PTL
  DEF RestartSafe
-----------------------------------------------------------------------------
(* The report of an account.                                               *)

\* A row is there with its snapshot, or not at all.
WholeRow(x) ==
  /\ x.at = 0 <=> x.hash = Nothing
  /\ x.at = 0 => x.roast = Nothing

\* What a scan has read is the row or one before it; the snapshot is still
\* that of the row unless the scan was crossed.
ReadFits(s) ==
  sc[s].at = "read" =>
    /\ WholeRow(sc[s].seen)
    /\ ~crossed => sc[s].seen.hash = row.hash

\* The places where a request knows the write identity of its snapshot.
Identified == {"known", "missed", "cold", "archived", "waiting", "locked",
               "writing"}
\* A stamp stands for one snapshot and the stamps of the row only grow.
IdentityFits(r) ==
  /\ rq[r].at = "looked" => rq[r].hash \in Hash
  /\ rq[r].at \in Identified =>
       /\ rq[r].hash \in Hash
       /\ rq[r].id <= row.at
       /\ rq[r].id = row.at => rq[r].hash = row.hash

\* What a request is about to replay has been stored.
ReplayFits(r) ==
  /\ rq[r].at = "archived" => rq[r].report \in stored
  /\ rq[r].at = "kept" => rq[r].hash \in stored

LeaderPlaces == {"locked", "writing", "kept", "closing"} \cup Over
\* A leader holds the lock until it has ended, and only a leader holds it.
LeadFits(r) ==
  /\ rq[r].leader => rq[r].at \in LeaderPlaces
  /\ rq[r].leader /\ rq[r].at \notin Over => roastLock = r
  /\ roastLock = r =>
       rq[r].leader /\ rq[r].at \notin Over \ {"dead", "keyless"}

RequestFits(r) == IdentityFits(r) /\ ReplayFits(r) /\ LeadFits(r)

RowFits == WholeRow(row) /\ (row.roast # Nothing => row.roast \in stored)

RoastInv ==
  /\ RoastTypeOK
  /\ RowFits
  /\ ReportFitsScore
  /\ ReplayWasStored
  /\ \A s \in 1..Scans : ReadFits(s)
  /\ \A r \in Req : RequestFits(r)

-----------------------------------------------------------------------------
(* How the record of a request changes, field by field.                    *)

Requests == [Req -> RoastRequest]

\* g is f but for the request r.
But(f, g, r) == g \in Requests /\ \A q \in Req : q # r => g[q] = f[q]

LEMMA RoastTypes ==
  ASSUME RoastTypeOK
  PROVE  /\ row \in Row /\ row.at \in 0..Scans
         /\ row.hash \in Hashes /\ row.roast \in Hashes
         /\ rq \in Requests
         /\ \A r \in Req : rq[r] \in RoastRequest
         /\ \A r \in Req : rq[r].hash \in Hashes /\ rq[r].report \in Hashes
                           /\ rq[r].id \in 0..Scans
         /\ \A s \in 1..Scans : HashOf[s] \in Hash /\ sc[s].seen \in Row
         /\ Scans \in Nat /\ Nothing \notin Hash /\ Nothing \notin Req
         /\ Hash \subseteq Hashes
         /\ Hashes = Hash \cup {Nothing}
BY RoastAssumption
DEF RoastTypeOK, RoastAssumption, Row, Requests, RoastRequest, Hashes

\* It moves to a place and keeps the rest.
TurnsTo(r, place) ==
  /\ But(rq, rq', r)
  /\ rq'[r].at = place
  /\ rq'[r].hash = rq[r].hash
  /\ rq'[r].id = rq[r].id
  /\ rq'[r].leader = rq[r].leader

LEMMA Turned ==
  ASSUME RoastTypeOK, NEW r \in Req, NEW place \in RoastPlace,
         Turns(r, place)
  PROVE  TurnsTo(r, place) /\ rq'[r].report = rq[r].report
<1>1. rq \in Requests /\ rq' = [rq EXCEPT ![r].at = place]
  BY RoastTypes DEF Turns
<1> QED BY <1>1 DEF TurnsTo, But, Requests, RoastRequest

LEMMA Reported ==
  ASSUME RoastTypeOK, NEW r \in Req, NEW place \in RoastPlace,
         NEW report \in Hashes,
         rq' = [rq EXCEPT ![r].at = place, ![r].report = report]
  PROVE  TurnsTo(r, place) /\ rq'[r].report = report
<1> DEFINE one == [rq EXCEPT ![r].at = place]
           two == [one EXCEPT ![r].report = report]
<1>1. /\ But(rq, one, r) /\ one[r].at = place
      /\ one[r].hash = rq[r].hash /\ one[r].id = rq[r].id
      /\ one[r].leader = rq[r].leader
  BY RoastTypes DEF But, Requests, RoastRequest
<1>2. rq' = two
  OBVIOUS
<1> HIDE DEF one
<1>3. /\ But(one, two, r) /\ two[r].report = report
      /\ two[r].at = one[r].at /\ two[r].hash = one[r].hash
      /\ two[r].id = one[r].id /\ two[r].leader = one[r].leader
  BY <1>1 DEF But, Requests, RoastRequest
<1> HIDE DEF two
<1> QED BY <1>1, <1>2, <1>3 DEF But, TurnsTo

LEMMA Looked ==
  ASSUME RoastTypeOK, NEW r \in Req, NEW again \in BOOLEAN,
         rq' = [rq EXCEPT ![r].at = "looked", ![r].hash = row.hash,
                          ![r].refresh = again]
  PROVE  /\ But(rq, rq', r)
         /\ rq'[r].at = "looked" /\ rq'[r].hash = row.hash
         /\ rq'[r].leader = rq[r].leader
<1> DEFINE one == [rq EXCEPT ![r].at = "looked"]
           two == [one EXCEPT ![r].hash = row.hash]
           three == [two EXCEPT ![r].refresh = again]
<1>1. /\ But(rq, one, r) /\ one[r].at = "looked"
      /\ one[r].leader = rq[r].leader
  BY RoastTypes DEF But, Requests, RoastRequest, RoastPlace
<1>2. rq' = three
  OBVIOUS
<1> HIDE DEF one
<1>3. /\ But(one, two, r) /\ two[r].hash = row.hash
      /\ two[r].at = one[r].at /\ two[r].leader = one[r].leader
  BY <1>1, RoastTypes DEF But, Requests, RoastRequest
<1> HIDE DEF two
<1>4. /\ But(two, three, r) /\ three[r].hash = two[r].hash
      /\ three[r].at = two[r].at /\ three[r].leader = two[r].leader
  BY <1>3 DEF But, Requests, RoastRequest
<1> HIDE DEF three
<1>5. But(rq, three, r)
  BY <1>1, <1>3, <1>4 DEF But
<1>6. /\ three[r].at = "looked" /\ three[r].hash = row.hash
      /\ three[r].leader = rq[r].leader
  BY <1>1, <1>3, <1>4
<1> QED BY <1>2, <1>5, <1>6

LEMMA IdentifiedBy ==
  ASSUME RoastTypeOK, NEW r \in Req, NEW place \in RoastPlace,
         rq' = [rq EXCEPT ![r].id = row.at, ![r].at = place]
  PROVE  /\ But(rq, rq', r)
         /\ rq'[r].at = place /\ rq'[r].id = row.at
         /\ rq'[r].hash = rq[r].hash /\ rq'[r].leader = rq[r].leader
<1> DEFINE one == [rq EXCEPT ![r].id = row.at]
           two == [one EXCEPT ![r].at = place]
<1>1. /\ But(rq, one, r) /\ one[r].id = row.at
      /\ one[r].hash = rq[r].hash /\ one[r].leader = rq[r].leader
  BY RoastTypes DEF But, Requests, RoastRequest
<1>2. rq' = two
  OBVIOUS
<1> HIDE DEF one
<1>3. /\ But(one, two, r) /\ two[r].at = place
      /\ two[r].hash = one[r].hash /\ two[r].id = one[r].id
      /\ two[r].leader = one[r].leader
  BY <1>1 DEF But, Requests, RoastRequest
<1> HIDE DEF two
<1> QED BY <1>1, <1>2, <1>3 DEF But

LEMMA LeadBy ==
  ASSUME RoastTypeOK, NEW r \in Req, Lead(r)
  PROVE  /\ But(rq, rq', r)
         /\ rq'[r].at = "locked" /\ rq'[r].id = rq[r].id
         /\ rq'[r].hash = rq[r].hash /\ rq'[r].leader = TRUE
<1> DEFINE one == [rq EXCEPT ![r].at = "locked"]
           two == [one EXCEPT ![r].leader = TRUE]
<1>1. /\ But(rq, one, r) /\ one[r].at = "locked"
      /\ one[r].hash = rq[r].hash /\ one[r].id = rq[r].id
  BY RoastTypes DEF But, Requests, RoastRequest, RoastPlace
<1>2. rq' = two
  BY DEF Lead
<1> HIDE DEF one
<1>3. /\ But(one, two, r) /\ two[r].at = one[r].at
      /\ two[r].hash = one[r].hash /\ two[r].id = one[r].id
      /\ two[r].leader = TRUE
  BY <1>1 DEF But, Requests, RoastRequest
<1> HIDE DEF two
<1> QED BY <1>1, <1>2, <1>3 DEF But

-----------------------------------------------------------------------------
(* What a step does to the row.                                            *)

\* The stamp only grows and stands for one snapshot.
RowGoesOn ==
  /\ row' \in Row /\ WholeRow(row')
  /\ row.at <= row'.at
  /\ row'.at = row.at => row'.hash = row.hash
  /\ row'.roast # Nothing => row'.roast \in stored'
  /\ stored \subseteq stored' /\ stored' \subseteq Hash
  /\ (ReportFitsScore)'

\* A request, or Redis, changes the row only by storing a report.
RowLeft == row' = row /\ stored' = stored /\ crossed' = crossed

LEMMA RowLeftGoesOn ==
  ASSUME RoastInv, RowLeft
  PROVE  RowGoesOn
BY RoastTypes
DEF RoastInv, RowLeft, RowGoesOn, RowFits, ReportFitsScore, RoastTypeOK,
    WholeRow

LEMMA PersistGoesOn ==
  ASSUME RoastInv, NEW r \in Req, Persist(r)
  PROVE  /\ RowGoesOn /\ row'.hash = row.hash /\ crossed' = crossed
<1>1. /\ rq[r].hash \in Hash /\ rq[r].at \in Identified
      /\ rq[r].id = row.at => rq[r].hash = row.hash
  BY DEF RoastInv, RequestFits, IdentityFits, Persist, Identified
<1>2. row \in Row /\ row.at \in 0..Scans /\ row.hash \in Hashes
      /\ Nothing \notin Hash /\ Hash \subseteq Hashes /\ stored \subseteq Hash
  BY RoastTypes DEF RoastInv, RoastTypeOK
<1>3. CASE row.at = rq[r].id
  <2>1. /\ row' = [row EXCEPT !.roast = rq[r].hash]
        /\ stored' = stored \cup {rq[r].hash} /\ crossed' = crossed
    BY <1>3 DEF Persist
  <2>2. /\ row' \in Row /\ row'.at = row.at /\ row'.hash = row.hash
        /\ row'.roast = rq[r].hash
    BY <1>1, <1>2, <2>1 DEF Row
  <2> QED
    BY <1>1, <1>2, <1>3, <2>1, <2>2
    DEF RowGoesOn, RoastInv, RowFits, WholeRow, ReportFitsScore
<1>4. CASE row.at # rq[r].id
  <2>1. RowLeft
    BY <1>4 DEF Persist, RowLeft
  <2> QED BY <2>1, RowLeftGoesOn DEF RowLeft
<1> QED BY <1>3, <1>4

\* A scan replaces the row beside the scans that have read it.
Replaces(s) ==
  /\ RowGoesOn
  /\ ~crossed' =>
       ~crossed /\ \A t \in 1..Scans : t # s => sc[t].at # "read"

LEMMA InsertReplaces ==
  ASSUME RoastInv, NEW s \in 1..Scans, Insert(s), row = NoRow
  PROVE  Replaces(s)
<1>1. /\ row' = [at |-> s, hash |-> HashOf[s], roast |-> Nothing]
      /\ HashOf[s] \in Hash /\ s > 0 /\ s \in 0..Scans
      /\ stored' = stored /\ stored \subseteq Hash
      /\ row.at = 0 /\ Crosses(s)
      /\ Nothing \notin Hash /\ Hashes = Hash \cup {Nothing}
  BY RoastTypes DEF Insert, scVars, NoRow, RoastInv, RoastTypeOK
<1>2. row' \in Row
  BY <1>1 DEF Row
<1>3. /\ WholeRow(row') /\ row.at <= row'.at /\ row'.at # row.at
      /\ row'.roast = Nothing
  BY <1>1 DEF WholeRow
<1>4. RowGoesOn
  BY <1>1, <1>2, <1>3 DEF RowGoesOn, ReportFitsScore
<1>5. ~crossed' => ~crossed /\ \A t \in 1..Scans : t # s => sc[t].at # "read"
  BY <1>1 DEF Crosses
<1> QED BY <1>4, <1>5 DEF Replaces

LEMMA OverwriteReplaces ==
  ASSUME RoastInv, NEW s \in 1..Scans, Overwrite(s)
  PROVE  Replaces(s)
<1>1. /\ row' = Overwritten(s) /\ row.at < s /\ row.at \in 0..Scans
      /\ HashOf[s] \in Hash /\ s > 0 /\ s \in 0..Scans
      /\ stored' = stored /\ stored \subseteq Hash
      /\ Crosses(s) /\ row.roast \in Hashes
      /\ Nothing \notin Hash /\ Hashes = Hash \cup {Nothing}
      /\ row.roast # Nothing => row.roast \in stored
  BY RoastTypes
  DEF Overwrite, scVars, RoastInv, RoastTypeOK, RowFits
<1>2. /\ row' \in Row /\ row'.at = s /\ row'.hash = HashOf[s]
      /\ row'.roast # Nothing =>
           row'.roast = row.roast /\ SameOutput(HashOf[s], sc[s].seen.hash)
  BY <1>1 DEF Overwritten, Row
<1>3. ~crossed => sc[s].seen.hash = row.hash
  BY DEF RoastInv, ReadFits, Overwrite
<1>4. ~crossed' => ~crossed
  BY <1>1 DEF Crosses
<1>5. (ReportFitsScore)'
  BY <1>2, <1>3, <1>4 DEF RoastInv, ReportFitsScore, SameOutput
<1>6. /\ WholeRow(row') /\ row.at <= row'.at /\ row'.at # row.at
      /\ row'.roast # Nothing => row'.roast \in stored
  BY <1>1, <1>2 DEF WholeRow
<1>7. RowGoesOn
  BY <1>1, <1>2, <1>5, <1>6 DEF RowGoesOn
<1>8. ~crossed' => ~crossed /\ \A t \in 1..Scans : t # s => sc[t].at # "read"
  BY <1>1 DEF Crosses
<1> QED BY <1>7, <1>8 DEF Replaces

LEMMA BumpGoesOn ==
  ASSUME RoastInv, NEW s \in 1..Scans, Bump(s)
  PROVE  RowGoesOn /\ row'.hash = row.hash /\ crossed' = crossed
<1>1. CASE row.hash = HashOf[s] /\ row.at < s
  <2>1. /\ row' = [row EXCEPT !.at = s] /\ row \in Row
        /\ HashOf[s] \in Hash /\ s > 0 /\ s \in 0..Scans
        /\ row.at \in 0..Scans
        /\ stored' = stored /\ stored \subseteq Hash /\ crossed' = crossed
        /\ Nothing \notin Hash
    BY <1>1, RoastTypes DEF Bump, scVars, RoastInv, RoastTypeOK
  <2>2. /\ row' \in Row /\ row'.at = s /\ row'.hash = row.hash
        /\ row'.roast = row.roast
    BY <2>1 DEF Row
  <2> QED
    BY <1>1, <2>1, <2>2
    DEF RowGoesOn, RoastInv, RowFits, WholeRow, ReportFitsScore
<1>2. CASE ~(row.hash = HashOf[s] /\ row.at < s)
  <2>1. RowLeft
    BY <1>2 DEF Bump, RowLeft, scVars
  <2> QED BY <2>1, RowLeftGoesOn DEF RowLeft
<1> QED BY <1>1, <1>2

-----------------------------------------------------------------------------
(* What a step does to the scans.                                          *)

ScanRecord == [at : {"no", "read", "scored", "done"}, seen : Row]
ScansTyped == sc' \in [1..Scans -> ScanRecord]
\* The scan s moves to a place.
ScanMoved(s, place) ==
  /\ ScansTyped
  /\ sc'[s].at = place
  /\ \A t \in 1..Scans : t # s => sc'[t] = sc[t]

LEMMA ScanMoves ==
  ASSUME RoastTypeOK, NEW s \in 1..Scans,
         NEW place \in {"scored", "done"}, ScanAt(s, place)
  PROVE  ScanMoved(s, place)
BY DEF RoastTypeOK, ScanAt, ScanMoved, ScansTyped, ScanRecord

LEMMA ScanReads ==
  ASSUME RoastTypeOK, NEW s \in 1..Scans,
         \/ sc' = [sc EXCEPT ![s] = [at |-> "read", seen |-> row]]
         \/ sc' = [sc EXCEPT ![s].seen = row] /\ sc[s].at = "read"
  PROVE  ScanMoved(s, "read") /\ sc'[s].seen = row
<1>1. /\ sc \in [1..Scans -> ScanRecord] /\ row \in Row
      /\ sc[s] \in ScanRecord /\ DOMAIN sc = 1..Scans
  BY DEF RoastTypeOK, ScanRecord
<1> DEFINE one == [at |-> "read", seen |-> row]
<1>2. one \in ScanRecord /\ one.at = "read" /\ one.seen = row
  BY <1>1 DEF ScanRecord
<1>3. sc' = [sc EXCEPT ![s] = one]
  <2>1. CASE sc' = [sc EXCEPT ![s].seen = row] /\ sc[s].at = "read"
    <3>1. [sc[s] EXCEPT !.seen = row] = one
      BY <1>1, <2>1 DEF ScanRecord
    <3> QED BY <2>1, <3>1
  <2> QED BY <2>1
<1> HIDE DEF one
<1> QED BY <1>1, <1>2, <1>3 DEF ScanMoved, ScansTyped

\* The scans that were not crossed still have the snapshot of the row.
LEMMA ReadersKeep ==
  ASSUME RoastInv, NEW s \in 1..Scans, sc'[s] = sc[s],
         crossed' = crossed, row'.hash = row.hash
  PROVE  ReadFits(s)'
BY DEF RoastInv, ReadFits

LEMMA ReadersCrossed ==
  ASSUME RoastInv, NEW s \in 1..Scans, Replaces(s),
         NEW place \in {"scored", "done"}, ScanMoved(s, place)
  PROVE  \A t \in 1..Scans : ReadFits(t)'
<1> SUFFICES ASSUME NEW t \in 1..Scans
             PROVE  ReadFits(t)'
  OBVIOUS
<1>1. CASE t = s
  BY <1>1 DEF ScanMoved, ReadFits
<1>2. CASE t # s
  <2>1. sc'[t] = sc[t]
    BY <1>2 DEF ScanMoved
  <2> QED BY <1>2, <2>1 DEF RoastInv, ReadFits, Replaces
<1> QED BY <1>1, <1>2

LEMMA ReadersStay ==
  ASSUME RoastInv, NEW s \in 1..Scans,
         NEW place \in {"scored", "done"}, ScanMoved(s, place),
         crossed' = crossed, row'.hash = row.hash
  PROVE  \A t \in 1..Scans : ReadFits(t)'
<1> SUFFICES ASSUME NEW t \in 1..Scans
             PROVE  ReadFits(t)'
  OBVIOUS
<1>1. CASE t = s
  BY <1>1 DEF ScanMoved, ReadFits
<1>2. CASE t # s
  <2>1. sc'[t] = sc[t]
    BY <1>2 DEF ScanMoved
  <2> QED BY <2>1, ReadersKeep
<1> QED BY <1>1, <1>2

LEMMA ReaderReads ==
  ASSUME RoastInv, NEW s \in 1..Scans, ScanMoved(s, "read"),
         sc'[s].seen = row, RowLeft
  PROVE  \A t \in 1..Scans : ReadFits(t)'
<1> SUFFICES ASSUME NEW t \in 1..Scans
             PROVE  ReadFits(t)'
  OBVIOUS
<1>1. CASE t = s
  BY <1>1 DEF RoastInv, RowFits, RowLeft, ReadFits
<1>2. CASE t # s
  <2>1. sc'[t] = sc[t] /\ crossed' = crossed /\ row'.hash = row.hash
    BY <1>2 DEF ScanMoved, RowLeft
  <2> QED BY <2>1, ReadersKeep
<1> QED BY <1>1, <1>2

-----------------------------------------------------------------------------
(* What a step does to the requests.                                       *)

\* The lock goes to the request r, or is given back by it, or stays.
LockGoes(r) ==
  \/ roastLock' = roastLock
  \/ roastLock = Nothing /\ roastLock' = r
  \/ roastLock = r /\ roastLock' = Nothing

\* What fits a request that does not move still fits it.
LEMMA IdentityStays ==
  ASSUME RoastInv, RowGoesOn, NEW q \in Req, rq'[q] = rq[q]
  PROVE  IdentityFits(q)' /\ ReplayFits(q)'
<1>1. IdentityFits(q) /\ ReplayFits(q)
  BY DEF RoastInv, RequestFits
<1>2. row.at \in 0..Scans /\ row'.at \in 0..Scans /\ rq[q].id \in 0..Scans
      /\ Scans \in Nat
  BY RoastTypes DEF RoastInv, RowGoesOn, Row
<1>3. rq[q].id <= row.at =>
        /\ rq[q].id <= row'.at
        /\ rq[q].id = row'.at => rq[q].id = row.at /\ row'.hash = row.hash
  BY <1>2 DEF RowGoesOn
<1>4. IdentityFits(q)'
  BY <1>1, <1>3 DEF IdentityFits
<1>5. ReplayFits(q)'
  BY <1>1 DEF ReplayFits, RowGoesOn
<1> QED BY <1>4, <1>5

LEMMA OthersStay ==
  ASSUME RoastInv, RowGoesOn, NEW r \in Req, But(rq, rq', r), LockGoes(r),
         NEW q \in Req, q # r
  PROVE  RequestFits(q)'
<1>1. rq'[q] = rq[q]
  BY DEF But
<1>2. IdentityFits(q)' /\ ReplayFits(q)'
  BY <1>1, IdentityStays
<1>3. LeadFits(q) /\ q # Nothing
  BY RoastTypes DEF RoastInv, RequestFits
<1>4. LeadFits(q)'
  BY <1>1, <1>3 DEF LeadFits, LockGoes
<1> QED BY <1>2, <1>4 DEF RequestFits

\* What moving to a place asks of the request and of the lock.
LockFits(r, place) ==
  \/ /\ roastLock' = roastLock
     /\ rq[r].leader =>
          place \in (LeaderPlaces \ Over) \cup {"dead", "keyless"}
  \/ /\ roastLock' = IF rq[r].leader THEN Nothing ELSE roastLock
     /\ place \in Over
IdentityGoes(r, place) ==
  /\ place # "looked"
  /\ place \in Identified => rq[r].at \in Identified
  /\ place = "archived" => rq'[r].report \in stored'
  /\ place = "kept" => rq[r].hash \in stored'

LEMMA MoverFits ==
  ASSUME RoastInv, RowGoesOn, NEW r \in Req, NEW place \in RoastPlace,
         TurnsTo(r, place), rq[r].at \notin Over,
         LockFits(r, place), IdentityGoes(r, place)
  PROVE  (\A q \in Req : RequestFits(q)') /\ rq' \in Requests
<1>1. /\ rq'[r].at = place /\ rq'[r].hash = rq[r].hash
      /\ rq'[r].id = rq[r].id /\ rq'[r].leader = rq[r].leader
      /\ But(rq, rq', r)
  BY DEF TurnsTo
<1>2. IdentityFits(r) /\ LeadFits(r) /\ r # Nothing
  BY RoastTypes DEF RoastInv, RequestFits
<1>3. row.at \in 0..Scans /\ row'.at \in 0..Scans /\ rq[r].id \in 0..Scans
      /\ Scans \in Nat
  BY RoastTypes DEF RoastInv, RowGoesOn, Row
<1>4. rq[r].id <= row.at =>
        /\ rq[r].id <= row'.at
        /\ rq[r].id = row'.at => rq[r].id = row.at /\ row'.hash = row.hash
  BY <1>3 DEF RowGoesOn
<1>5. IdentityFits(r)'
  BY <1>1, <1>2, <1>4 DEF IdentityFits, IdentityGoes
<1>6. ReplayFits(r)'
  BY <1>1 DEF ReplayFits, IdentityGoes
<1>7. LeadFits(r)'
  BY <1>1, <1>2 DEF LeadFits, LockFits, LeaderPlaces, Over
<1>8. LockGoes(r)
  BY <1>2 DEF LeadFits, LockFits, LockGoes
<1>9. RequestFits(r)'
  BY <1>5, <1>6, <1>7 DEF RequestFits
<1>10. ASSUME NEW q \in Req
       PROVE  RequestFits(q)'
  <2>1. CASE q = r
    BY <1>9, <2>1
  <2>2. CASE q # r
    BY <1>1, <1>8, <2>2, OthersStay
  <2> QED BY <2>1, <2>2
<1> QED BY <1>1, <1>10 DEF But

\* No request moves.
LEMMA NobodyMoves ==
  ASSUME RoastInv, RowGoesOn, rq' = rq,
         \/ roastLock' = roastLock
         \/ roastLock' = Nothing /\ roastLock # Nothing
            /\ rq[roastLock].at \in Over
  PROVE  (\A q \in Req : RequestFits(q)') /\ rq' \in Requests
<1>1. ASSUME NEW q \in Req
      PROVE  RequestFits(q)'
  <2>1. IdentityFits(q)' /\ ReplayFits(q)'
    BY IdentityStays
  <2>2. LeadFits(q) /\ q # Nothing
    BY RoastTypes DEF RoastInv, RequestFits
  <2>3. LeadFits(q)'
    BY <2>2 DEF LeadFits
  <2> QED BY <2>1, <2>3 DEF RequestFits
<1> QED BY <1>1, RoastTypes DEF RoastInv

\* The requests still fit if the one that moves does.
LEMMA MovedFit ==
  ASSUME RoastInv, RowGoesOn, NEW r \in Req, But(rq, rq', r), LockGoes(r),
         RequestFits(r)'
  PROVE  (\A q \in Req : RequestFits(q)') /\ rq' \in Requests
<1>1. ASSUME NEW q \in Req
      PROVE  RequestFits(q)'
  <2>1. CASE q = r
    BY <2>1
  <2>2. CASE q # r
    BY <2>2, OthersStay
  <2> QED BY <2>1, <2>2
<1> QED BY <1>1 DEF But

\* The replay stays, is dropped, or is replaced by a report that was stored.
ReplayGoes ==
  \/ replay' = replay
  \/ replay' = NoReplay
  \/ \E hash \in Hashes, report \in stored' :
       replay' = [hash |-> hash, report |-> report]

LEMMA ReplayStored ==
  ASSUME RoastInv, RowGoesOn, ReplayGoes
  PROVE  replay' \in [hash : Hashes, report : Hashes] /\ (ReplayWasStored)'
<1>1. CASE replay' = replay
  BY <1>1 DEF RoastInv, RoastTypeOK, ReplayWasStored, RowGoesOn
<1>2. CASE replay' = NoReplay
  BY <1>2 DEF NoReplay, ReplayWasStored, Hashes
<1>3. CASE \E hash \in Hashes, report \in stored' :
             replay' = [hash |-> hash, report |-> report]
  BY <1>3 DEF RowGoesOn, Hashes, ReplayWasStored
<1> QED BY <1>1, <1>2, <1>3 DEF ReplayGoes

\* The parts of a step, put together.
LEMMA RoastTogether ==
  ASSUME RoastInv, RowGoesOn, ReplayGoes, ScansTyped,
         runs' \subseteq Hash, roastLock' \in Req \cup {Nothing},
         crossed' \in BOOLEAN, mishaps' = mishaps \/ SpendTrouble,
         rq' \in Requests, \A q \in Req : RequestFits(q)',
         \A s \in 1..Scans : ReadFits(s)'
  PROVE  RoastInv'
<1>1. replay' \in [hash : Hashes, report : Hashes] /\ (ReplayWasStored)'
  BY ReplayStored
<1>2. mishaps' \in 0..Mishaps
  BY RoastAssumption DEF RoastInv, RoastTypeOK, RoastAssumption, SpendTrouble
<1>3. (RoastTypeOK)'
  BY <1>1, <1>2
  DEF RoastTypeOK, RowGoesOn, ScansTyped, ScanRecord, Requests
<1>4. RowFits' /\ (ReportFitsScore)'
  BY DEF RowGoesOn, RowFits
<1> QED BY <1>1, <1>3, <1>4 DEF RoastInv

\* A step of a request or of Redis leaves the scans alone.
LEMMA ScansLeft ==
  ASSUME RoastInv, RowGoesOn, row'.hash = row.hash, crossed' = crossed,
         sc' = sc, runs' = runs, ReplayGoes,
         roastLock' \in Req \cup {Nothing}, mishaps' = mishaps \/ SpendTrouble,
         rq' \in Requests, \A q \in Req : RequestFits(q)'
  PROVE  RoastInv'
<1>1. ScansTyped /\ runs' \subseteq Hash /\ crossed' \in BOOLEAN
  BY DEF RoastInv, RoastTypeOK, ScansTyped, ScanRecord
<1>2. \A s \in 1..Scans : ReadFits(s)'
  BY ReadersKeep
<1> QED BY <1>1, <1>2, RoastTogether

-----------------------------------------------------------------------------
(* The steps of the scans.                                                 *)

LEMMA ScansStep ==
  ASSUME RoastInv, NEW s \in 1..Scans, ScanStep(s) \/ ScanDies(s)
  PROVE  RowGoesOn /\ RoastInv'
<1>1. /\ rq' = rq /\ roastLock' = roastLock /\ replay' = replay
      /\ mishaps' = mishaps \/ SpendTrouble
      /\ runs' = runs \/ runs' = runs \cup {HashOf[s]}
      /\ crossed' = crossed \/ Crosses(s)
  BY DEF ScanStep, ScanDies, ReadRow, Insert, Bump, Overwrite, Superseded,
         AddRun, scVars, SpendTrouble
<1>2. /\ runs' \subseteq Hash /\ crossed' \in BOOLEAN
      /\ roastLock' \in Req \cup {Nothing}
      /\ RoastTypeOK /\ ReplayGoes
  BY <1>1, RoastTypes DEF RoastInv, RoastTypeOK, Crosses, ReplayGoes
<1>3. /\ RowGoesOn
      /\ ScansTyped
      /\ \A t \in 1..Scans : ReadFits(t)'
  <2>1. CASE ReadRow(s)
    <3>1. RowLeft
      BY <2>1 DEF ReadRow, scVars, RowLeft
    <3>2. ScanMoved(s, "read") /\ sc'[s].seen = row
      BY <1>2, <2>1, ScanReads DEF ReadRow
    <3> QED BY <3>1, <3>2, RowLeftGoesOn, ReaderReads DEF ScanMoved
  <2>2. CASE Insert(s) /\ row = NoRow
    <3>1. ScanMoved(s, "scored")
      BY <1>2, <2>2, ScanMoves DEF Insert
    <3>2. Replaces(s)
      BY <2>2, InsertReplaces
    <3> QED BY <3>1, <3>2, ReadersCrossed DEF ScanMoved, Replaces
  <2>3. CASE Insert(s) /\ row # NoRow
    <3>1. RowLeft
      BY <2>3 DEF Insert, scVars, RowLeft
    <3>2. ScanMoved(s, "read") /\ sc'[s].seen = row
      BY <1>2, <2>3, ScanReads DEF Insert
    <3> QED BY <3>1, <3>2, RowLeftGoesOn, ReaderReads DEF ScanMoved
  <2>4. CASE Bump(s)
    <3>1. ScanMoved(s, "scored")
      BY <1>2, <2>4, ScanMoves DEF Bump
    <3>2. RowGoesOn /\ row'.hash = row.hash /\ crossed' = crossed
      BY <2>4, BumpGoesOn
    <3> QED BY <3>1, <3>2, ReadersStay DEF ScanMoved
  <2>5. CASE Overwrite(s)
    <3>1. ScanMoved(s, "scored")
      BY <1>2, <2>5, ScanMoves DEF Overwrite
    <3>2. Replaces(s)
      BY <2>5, OverwriteReplaces
    <3> QED BY <3>1, <3>2, ReadersCrossed DEF ScanMoved, Replaces
  <2>6. CASE Superseded(s) \/ AddRun(s) \/ ScanDies(s)
    <3>1. RowLeft
      BY <2>6 DEF Superseded, AddRun, ScanDies, scVars, RowLeft
    <3>2. ScanMoved(s, "done")
      BY <1>2, <2>6, ScanMoves DEF Superseded, AddRun, ScanDies
    <3>3. crossed' = crossed /\ row'.hash = row.hash
      BY <3>1 DEF RowLeft
    <3> QED BY <3>1, <3>2, <3>3, RowLeftGoesOn, ReadersStay DEF ScanMoved
  <2> QED
    BY <2>1, <2>2, <2>3, <2>4, <2>5, <2>6 DEF ScanStep
<1>4. (\A q \in Req : RequestFits(q)') /\ rq' \in Requests
  BY <1>1, <1>3, NobodyMoves
<1> QED BY <1>1, <1>2, <1>3, <1>4, RoastTogether

-----------------------------------------------------------------------------
(* The steps of the requests.                                              *)

\* A request moves and leaves the row, the scans and the runs alone.
Aside ==
  /\ RowLeft /\ sc' = sc /\ runs' = runs
  /\ mishaps' = mishaps \/ SpendTrouble

LEMMA MovesAside ==
  ASSUME RoastInv, Aside, ReplayGoes,
         NEW r \in Req, NEW place \in RoastPlace,
         TurnsTo(r, place), rq[r].at \notin Over,
         LockFits(r, place), IdentityGoes(r, place)
  PROVE  RoastInv'
<1>1. RowGoesOn /\ row'.hash = row.hash /\ crossed' = crossed
  BY RowLeftGoesOn DEF Aside, RowLeft
<1>2. (\A q \in Req : RequestFits(q)') /\ rq' \in Requests
  BY <1>1, MoverFits
<1>3. roastLock' \in Req \cup {Nothing}
  BY DEF LockFits, RoastInv, RoastTypeOK
<1> QED BY <1>1, <1>2, <1>3, ScansLeft DEF Aside

\* A request that does not lead yet cannot have set the lock.
LEMMA NotYetLeading ==
  ASSUME RoastInv, NEW r \in Req,
         rq[r].at \in {"new", "looked", "known", "missed", "cold",
                       "archived", "waiting"}
  PROVE  ~rq[r].leader /\ rq[r].at \notin Over /\ roastLock # r
BY DEF RoastInv, RequestFits, LeadFits, LeaderPlaces, Over

LEMMA LooksUpFits ==
  ASSUME RoastInv, NEW r \in Req, NEW again \in BOOLEAN, LooksUp(r, again)
  PROVE  RoastInv'
<1>1. /\ Aside /\ ReplayGoes /\ roastLock' = roastLock
      /\ RoastTypeOK /\ rq[r].at = "new"
  BY DEF LooksUp, reqVars, Aside, RowLeft, ReplayGoes, RoastInv
<1>2. ~rq[r].leader /\ rq[r].at \notin Over /\ roastLock # r
  BY <1>1, NotYetLeading
<1>3. CASE row.hash \in runs
  <2>1. /\ But(rq, rq', r)
        /\ rq'[r].at = "looked" /\ rq'[r].hash = row.hash
        /\ rq'[r].leader = rq[r].leader
    BY <1>1, <1>3, Looked DEF LooksUp
  <2>2. row.hash \in Hash
    BY <1>1, <1>3 DEF RoastTypeOK
  <2>3. RequestFits(r)'
    BY <1>1, <1>2, <2>1, <2>2
    DEF RequestFits, IdentityFits, ReplayFits, LeadFits, Identified
  <2>4. RowGoesOn /\ LockGoes(r) /\ row'.hash = row.hash
        /\ crossed' = crossed /\ roastLock' \in Req \cup {Nothing}
    BY <1>1, RowLeftGoesOn DEF LockGoes, Aside, RowLeft, RoastTypeOK
  <2> QED BY <1>1, <2>1, <2>3, <2>4, MovedFit, ScansLeft DEF Aside
<1>4. CASE row.hash \notin runs
  <2>1. Turns(r, "refused") /\ "refused" \in RoastPlace
    BY <1>4 DEF LooksUp, RoastPlace, Over
  <2>2. TurnsTo(r, "refused")
    BY <1>1, <2>1, Turned
  <2>3. LockFits(r, "refused") /\ IdentityGoes(r, "refused")
    BY <1>1, <1>2 DEF LockFits, IdentityGoes, Identified
  <2> QED BY <1>1, <1>2, <2>1, <2>2, <2>3, MovesAside
<1> QED BY <1>3, <1>4

LEMMA IdentifyFits ==
  ASSUME RoastInv, NEW r \in Req, Identify(r)
  PROVE  RoastInv'
<1>1. /\ Aside /\ ReplayGoes /\ roastLock' = roastLock
      /\ RoastTypeOK /\ rq[r].at = "looked"
  BY DEF Identify, reqVars, Aside, RowLeft, ReplayGoes, RoastInv
<1>2. ~rq[r].leader /\ rq[r].at \notin Over /\ roastLock # r
  BY <1>1, NotYetLeading
<1>3. CASE row.hash = rq[r].hash
  <2> DEFINE place == IF rq[r].refresh THEN "cold" ELSE "known"
  <2>1. place \in {"cold", "known"} /\ place \in RoastPlace
    BY DEF RoastPlace
  <2>2. rq' = [rq EXCEPT ![r].id = row.at, ![r].at = place]
    BY <1>3 DEF Identify
  <2> HIDE DEF place
  <2>3. /\ But(rq, rq', r)
        /\ rq'[r].at = place /\ rq'[r].id = row.at
        /\ rq'[r].hash = rq[r].hash /\ rq'[r].leader = rq[r].leader
    BY <1>1, <2>1, <2>2, IdentifiedBy
  <2>4. rq[r].hash \in Hash /\ row.at <= row.at
    BY <1>1, RoastTypes DEF RoastInv, RequestFits, IdentityFits
  <2>5. RequestFits(r)'
    BY <1>1, <1>2, <1>3, <2>1, <2>3, <2>4
    DEF RequestFits, IdentityFits, ReplayFits, LeadFits, Aside, RowLeft
  <2>6. RowGoesOn /\ LockGoes(r) /\ row'.hash = row.hash
        /\ crossed' = crossed /\ roastLock' \in Req \cup {Nothing}
    BY <1>1, RowLeftGoesOn DEF LockGoes, Aside, RowLeft, RoastTypeOK
  <2> QED BY <1>1, <2>3, <2>5, <2>6, MovedFit, ScansLeft DEF Aside
<1>4. CASE row.hash # rq[r].hash
  <2>1. Turns(r, "refused") /\ "refused" \in RoastPlace
    BY <1>4 DEF Identify, RoastPlace, Over
  <2>2. TurnsTo(r, "refused")
    BY <1>1, <2>1, Turned
  <2>3. LockFits(r, "refused") /\ IdentityGoes(r, "refused")
    BY <1>1, <1>2 DEF LockFits, IdentityGoes, Identified
  <2> QED BY <1>1, <1>2, <2>1, <2>2, <2>3, MovesAside
<1> QED BY <1>3, <1>4

LEMMA LeadStepFits ==
  ASSUME RoastInv, NEW r \in Req, Lead(r)
  PROVE  RoastInv'
<1>1. /\ Aside /\ ReplayGoes /\ roastLock' = r /\ roastLock = Nothing
      /\ rq[r].at = "cold" /\ LockGoes(r)
  BY DEF Lead, reqVars, Aside, RowLeft, ReplayGoes, LeaderCache, LockGoes
<1>2. /\ But(rq, rq', r)
      /\ rq'[r].at = "locked" /\ rq'[r].id = rq[r].id
      /\ rq'[r].hash = rq[r].hash /\ rq'[r].leader = TRUE
  BY LeadBy DEF RoastInv
<1>3. RowGoesOn /\ row'.hash = row.hash /\ crossed' = crossed /\ row' = row
  BY <1>1, RowLeftGoesOn DEF Aside, RowLeft
<1>4. RequestFits(r)'
  BY <1>1, <1>2, <1>3
  DEF RoastInv, RequestFits, IdentityFits, ReplayFits, LeadFits,
      LeaderPlaces, Identified, Over
<1> QED BY <1>1, <1>2, <1>3, <1>4, MovedFit, ScansLeft DEF Aside

\* A request that is served from the cache.
LEMMA ServesFits ==
  ASSUME RoastInv, NEW r \in Req, Serves(r, replay.report), Aside,
         ReplayGoes, roastLock' = roastLock,
         rq[r].at \in {"known", "waiting"}
  PROVE  RoastInv'
<1>1. ~rq[r].leader /\ rq[r].at \notin Over
  BY NotYetLeading
<1>2. "served" \in RoastPlace /\ replay.report \in Hashes /\ RoastTypeOK
  BY DEF RoastPlace, Over, RoastInv, RoastTypeOK
<1>3. TurnsTo(r, "served")
  BY <1>2, Reported DEF Serves
<1>4. LockFits(r, "served") /\ IdentityGoes(r, "served")
  BY <1>1 DEF LockFits, IdentityGoes, Identified
<1> QED BY <1>1, <1>2, <1>3, <1>4, MovesAside

\* A request that does not lead yet moves on.
LEMMA EarlyTurnFits ==
  ASSUME RoastInv, NEW r \in Req, NEW place \in RoastPlace, Turns(r, place),
         Aside, ReplayGoes, roastLock' = roastLock,
         rq[r].at \in {"known", "missed", "cold", "archived", "waiting"},
         place \notin {"looked", "archived", "kept"}
  PROVE  RoastInv'
<1>1. ~rq[r].leader /\ rq[r].at \notin Over /\ rq[r].at \in Identified
  BY NotYetLeading DEF Identified
<1>2. TurnsTo(r, place)
  BY Turned DEF RoastInv
<1>3. LockFits(r, place) /\ IdentityGoes(r, place)
  BY <1>1 DEF LockFits, IdentityGoes
<1> QED BY <1>1, <1>2, <1>3, MovesAside

LEMMA EarlyFits ==
  ASSUME RoastInv, NEW r \in Req,
         \/ ReadCache(r) \/ ReadArchive(r) \/ ReplayArchive(r) \/ Follow(r)
         \/ WaitEnds(r) \/ WaitTimesOut(r)
  PROVE  RoastInv'
<1>1. Aside /\ roastLock' = roastLock
  BY DEF ReadCache, ReadArchive, ReplayArchive, Follow, WaitEnds,
         WaitTimesOut, reqVars, Aside, RowLeft, SpendTrouble
<1>2. CASE ReadCache(r)
  <2>1. CASE replay.hash = rq[r].hash
    <3>1. Serves(r, replay.report) /\ ReplayGoes /\ rq[r].at = "known"
      BY <1>2, <2>1 DEF ReadCache, ReplayGoes
    <3> QED BY <1>1, <3>1, ServesFits
  <2>2. CASE replay.hash # rq[r].hash
    <3>1. /\ Turns(r, "missed") /\ ReplayGoes /\ rq[r].at = "known"
          /\ "missed" \in RoastPlace
      BY <1>2, <2>2 DEF ReadCache, ReplayGoes, RoastPlace
    <3> QED BY <1>1, <3>1, EarlyTurnFits
  <2> QED BY <2>1, <2>2
<1>3. CASE ReadArchive(r)
  <2>1. ReplayGoes /\ rq[r].at = "missed"
        /\ {"cold", "archived"} \subseteq RoastPlace
    BY <1>3 DEF ReadArchive, ReplayGoes, RoastPlace
  <2>2. CASE row.roast = Nothing
    <3>1. Turns(r, "cold")
      BY <1>3, <2>2 DEF ReadArchive, Turns
    <3> QED BY <1>1, <2>1, <3>1, EarlyTurnFits
  <2>3. CASE row.roast # Nothing
    <3>1. ~rq[r].leader /\ rq[r].at \notin Over
      BY <2>1, NotYetLeading
    <3>2. rq' = [rq EXCEPT ![r].at = "archived", ![r].report = row.roast]
      BY <1>3, <2>3 DEF ReadArchive
    <3>3. row.roast \in Hashes /\ RoastTypeOK
      BY RoastTypes DEF RoastInv
    <3>4. TurnsTo(r, "archived") /\ rq'[r].report = row.roast
      BY <2>1, <3>2, <3>3, Reported
    <3>5. row.roast \in stored'
      BY <1>1, <2>3 DEF RoastInv, RowFits, Aside, RowLeft
    <3>6. LockFits(r, "archived") /\ IdentityGoes(r, "archived")
      BY <1>1, <2>1, <3>1, <3>4, <3>5
      DEF LockFits, IdentityGoes, Identified
    <3> QED BY <1>1, <2>1, <3>1, <3>4, <3>6, MovesAside
  <2> QED BY <2>2, <2>3
<1>4. CASE ReplayArchive(r)
  <2>1. /\ Turns(r, "served") /\ rq[r].at = "archived"
        /\ replay' = [hash |-> rq[r].hash, report |-> rq[r].report]
        /\ "served" \in RoastPlace
    BY <1>4 DEF ReplayArchive, RoastPlace, Over
  <2>2. rq[r].report \in stored' /\ rq[r].hash \in Hashes
    BY <1>1, <2>1, RoastTypes
    DEF RoastInv, RequestFits, ReplayFits, Aside, RowLeft
  <2>3. ReplayGoes
    BY <2>1, <2>2 DEF ReplayGoes
  <2> QED BY <1>1, <2>1, <2>3, EarlyTurnFits
<1>5. CASE Follow(r)
  <2>1. /\ Turns(r, "waiting") /\ ReplayGoes /\ rq[r].at = "cold"
        /\ "waiting" \in RoastPlace
    BY <1>5 DEF Follow, ReplayGoes, RoastPlace
  <2> QED BY <1>1, <2>1, EarlyTurnFits
<1>6. CASE WaitEnds(r) \/ WaitTimesOut(r)
  <2>1. /\ WaitOver(r) /\ ReplayGoes /\ rq[r].at = "waiting"
        /\ "locked" \in RoastPlace
    BY <1>6
    DEF WaitEnds, WaitTimesOut, WaitOver, ReplayGoes, RoastPlace
  <2>2. CASE replay.hash = rq[r].hash
    <3>1. Serves(r, replay.report)
      BY <2>1, <2>2 DEF WaitOver
    <3> QED BY <1>1, <2>1, <3>1, ServesFits
  <2>3. CASE replay.hash # rq[r].hash
    <3>1. Turns(r, "locked")
      BY <2>1, <2>3 DEF WaitOver
    <3> QED BY <1>1, <2>1, <3>1, EarlyTurnFits
  <2> QED BY <2>2, <2>3
<1> QED BY <1>2, <1>3, <1>4, <1>5, <1>6

\* A request that generates moves on, keeping the lock or giving it back.
LEMMA LateTurnFits ==
  ASSUME RoastInv, NEW r \in Req, NEW place \in RoastPlace, Turns(r, place),
         Aside, ReplayGoes, LockFits(r, place), rq[r].at \notin Over,
         place = "writing" => rq[r].at = "locked",
         place \notin {"looked", "archived", "kept"},
         place \in Identified => place = "writing"
  PROVE  RoastInv'
<1>1. TurnsTo(r, place)
  BY Turned DEF RoastInv
<1>2. IdentityGoes(r, place)
  BY DEF IdentityGoes, Identified
<1> QED BY <1>1, <1>2, MovesAside

LEMMA LateFits ==
  ASSUME RoastInv, NEW r \in Req,
         \/ Unconfigured(r) \/ OverBudget(r) \/ Generate(r)
         \/ GenerationFails(r) \/ WarmCache(r) \/ Close(r) \/ Dies(r)
  PROVE  RoastInv'
<1>1. Aside
  BY DEF Unconfigured, OverBudget, Generate, GenerationFails, WarmCache,
         Close, Dies, reqVars, Aside, RowLeft, SpendTrouble
<1>2. CASE Unconfigured(r)
  <2>1. /\ Turns(r, "keyless") /\ "keyless" \in RoastPlace /\ ReplayGoes
        /\ LockFits(r, "keyless") /\ rq[r].at \notin Over
        /\ "keyless" \notin Identified
    BY <1>2
    DEF Unconfigured, RoastPlace, Over, ReplayGoes, LockFits, Identified
  <2> QED BY <1>1, <2>1, LateTurnFits
<1>3. CASE OverBudget(r)
  <2>1. /\ Turns(r, "refused") /\ "refused" \in RoastPlace /\ ReplayGoes
        /\ LockFits(r, "refused") /\ rq[r].at \notin Over
        /\ "refused" \notin Identified
    BY <1>3
    DEF OverBudget, RoastPlace, Over, ReplayGoes, LockFits, Identified
  <2> QED BY <1>1, <2>1, LateTurnFits
<1>4. CASE Generate(r)
  <2>1. /\ Turns(r, "writing") /\ "writing" \in RoastPlace /\ ReplayGoes
        /\ LockFits(r, "writing") /\ rq[r].at = "locked"
        /\ rq[r].at \notin Over
    BY <1>4
    DEF Generate, RoastPlace, Over, ReplayGoes, LockFits, LeaderPlaces
  <2> QED BY <1>1, <2>1, LateTurnFits
<1>5. CASE GenerationFails(r)
  <2>1. /\ Turns(r, "failed") /\ "failed" \in RoastPlace /\ ReplayGoes
        /\ LockFits(r, "failed") /\ rq[r].at \notin Over
        /\ "failed" \notin Identified
    BY <1>5
    DEF GenerationFails, RoastPlace, Over, ReplayGoes, LockFits, Identified
  <2> QED BY <1>1, <2>1, LateTurnFits
<1>6. CASE WarmCache(r)
  <2>1. /\ Turns(r, "closing") /\ "closing" \in RoastPlace
        /\ LockFits(r, "closing") /\ rq[r].at \notin Over
        /\ "closing" \notin Identified
    BY <1>6
    DEF WarmCache, RoastPlace, Over, LockFits, LeaderPlaces, Identified
  <2>2. ReplayGoes
    <3>1. rq[r].hash \in stored' /\ rq[r].hash \in Hashes
      BY <1>1, <1>6, RoastTypes
      DEF WarmCache, RoastInv, RequestFits, ReplayFits, Aside, RowLeft
    <3>2. replay' = [hash |-> rq[r].hash, report |-> rq[r].hash]
      BY <1>6 DEF WarmCache
    <3> QED BY <3>1, <3>2 DEF ReplayGoes
  <2> QED BY <1>1, <2>1, <2>2, LateTurnFits
<1>7. CASE Close(r)
  <2>1. /\ Turns(r, "served") /\ "served" \in RoastPlace /\ ReplayGoes
        /\ LockFits(r, "served") /\ rq[r].at \notin Over
        /\ "served" \notin Identified
    BY <1>7
    DEF Close, RoastPlace, Over, ReplayGoes, LockFits, Identified
  <2> QED BY <1>1, <2>1, LateTurnFits
<1>8. CASE Dies(r)
  <2>1. /\ Turns(r, "dead") /\ "dead" \in RoastPlace /\ ReplayGoes
        /\ LockFits(r, "dead") /\ rq[r].at \notin Over
        /\ "dead" \notin Identified
    BY <1>8
    DEF Dies, RoastPlace, Over, ReplayGoes, LockFits, Identified
  <2> QED BY <1>1, <2>1, LateTurnFits
<1> QED BY <1>2, <1>3, <1>4, <1>5, <1>6, <1>7, <1>8

LEMMA PersistFits ==
  ASSUME RoastInv, NEW r \in Req, Persist(r)
  PROVE  RoastInv'
<1>1. /\ RowGoesOn /\ row'.hash = row.hash /\ crossed' = crossed
  BY PersistGoesOn
<1>2. /\ sc' = sc /\ runs' = runs /\ ReplayGoes /\ mishaps' = mishaps
      /\ roastLock' = roastLock /\ rq[r].at = "writing"
      /\ rq[r].at \notin Over
  BY DEF Persist, ReplayGoes, Over
<1>3. rq[r].hash \in Hashes /\ RoastTypeOK
      /\ {"kept", "closing"} \subseteq RoastPlace
  BY RoastTypes DEF RoastInv, RoastPlace
<1>4. \E place \in {"kept", "closing"} :
        /\ rq' = [rq EXCEPT ![r].at = place, ![r].report = rq[r].hash]
        /\ place = "kept" => rq[r].hash \in stored'
  BY DEF Persist
<1>5. PICK place \in {"kept", "closing"} :
        /\ rq' = [rq EXCEPT ![r].at = place, ![r].report = rq[r].hash]
        /\ place = "kept" => rq[r].hash \in stored'
  BY <1>4
<1>6. TurnsTo(r, place)
  BY <1>3, <1>5, Reported
<1>7. LockFits(r, place) /\ IdentityGoes(r, place)
  BY <1>2, <1>5
  DEF LockFits, IdentityGoes, Identified, LeaderPlaces, Over
<1>8. (\A q \in Req : RequestFits(q)') /\ rq' \in Requests
  BY <1>1, <1>2, <1>3, <1>6, <1>7, MoverFits
<1>9. roastLock' \in Req \cup {Nothing}
  BY <1>2 DEF RoastInv, RoastTypeOK
<1> QED BY <1>1, <1>2, <1>8, <1>9, ScansLeft

LEMMA RedisFits ==
  ASSUME RoastInv, LockExpires \/ CacheExpires
  PROVE  RowLeft /\ RoastInv'
<1>1. /\ RowLeft /\ sc' = sc /\ runs' = runs /\ ReplayGoes /\ rq' = rq
      /\ mishaps' = mishaps \/ SpendTrouble
      /\ \/ roastLock' = roastLock
         \/ roastLock' = Nothing /\ roastLock # Nothing
            /\ rq[roastLock].at \in Over
  BY DEF LockExpires, CacheExpires, reqVars, RowLeft, ReplayGoes,
         SpendTrouble
<1>2. RowGoesOn /\ row'.hash = row.hash /\ crossed' = crossed
  BY <1>1, RowLeftGoesOn DEF RowLeft
<1>3. (\A q \in Req : RequestFits(q)') /\ rq' \in Requests
  BY <1>1, <1>2, NobodyMoves
<1>4. roastLock' \in Req \cup {Nothing}
  BY <1>1 DEF RoastInv, RoastTypeOK
<1> QED BY <1>1, <1>2, <1>3, <1>4, ScansLeft

LEMMA RequestsLeaveRow ==
  ASSUME NEW r \in Req,
         Look(r) \/ LookAgain(r) \/ RoastStep(r) \/ Mishap(r), ~Persist(r)
  PROVE  RowLeft
BY DEF Look, LookAgain, LooksUp, RoastStep, Mishap, Identify, ReadCache,
       ReadArchive, ReplayArchive, Lead, Follow, WaitEnds, Unconfigured,
       Generate, WarmCache, Close, WaitTimesOut, OverBudget,
       GenerationFails, Dies, reqVars, RowLeft

LEMMA RoastStutter ==
  ASSUME RoastInv, UNCHANGED roastVars
  PROVE  RoastInv'
BY DEF RoastInv, roastVars, RoastTypeOK, RowFits, WholeRow, ReportFitsScore,
       ReplayWasStored, ReadFits, RequestFits, IdentityFits, ReplayFits,
       LeadFits

LEMMA RoastInvNext ==
  ASSUME RoastInv, [RoastNext]_roastVars
  PROVE  RoastInv' /\ row'.at >= row.at
<1>1. ASSUME NEW s \in 1..Scans, ScanStep(s) \/ ScanDies(s)
      PROVE  RoastInv' /\ RowGoesOn
  BY <1>1, ScansStep
<1>2. ASSUME NEW r \in Req, Look(r) \/ LookAgain(r)
      PROVE  RoastInv' /\ RowGoesOn
  BY <1>2, LooksUpFits, RequestsLeaveRow, RowLeftGoesOn
  DEF Look, LookAgain, LooksUp, Persist
<1>3. ASSUME NEW r \in Req, RoastStep(r) \/ Mishap(r)
      PROVE  RoastInv' /\ RowGoesOn
  <2>1. CASE Persist(r)
    BY <2>1, PersistFits, PersistGoesOn
  <2>2. CASE ~Persist(r)
    <3>1. RowGoesOn
      BY <1>3, <2>2, RequestsLeaveRow, RowLeftGoesOn
    <3>2. RoastInv'
      BY <1>3, <2>2, IdentifyFits, LeadStepFits, EarlyFits, LateFits
      DEF RoastStep, Mishap
    <3> QED BY <3>1, <3>2
  <2> QED BY <2>1, <2>2
<1>4. ASSUME LockExpires \/ CacheExpires
      PROVE  RoastInv' /\ RowGoesOn
  BY <1>4, RedisFits, RowLeftGoesOn
<1>5. CASE UNCHANGED roastVars
  <2>1. RoastInv'
    BY <1>5, RoastStutter
  <2>2. RowLeft
    BY <1>5 DEF roastVars, RowLeft
  <2> QED BY <2>1, <2>2, RowLeftGoesOn, RoastTypes DEF RowGoesOn, RoastInv, Row
<1>6. CASE RoastNext
  <2>1. RoastInv' /\ RowGoesOn
    BY <1>1, <1>2, <1>3, <1>4, <1>6 DEF RoastNext
  <2>2. row.at \in 0..Scans /\ row'.at \in 0..Scans /\ Scans \in Nat
    BY <2>1, RoastTypes DEF RoastInv, RowGoesOn, Row
  <2> QED BY <2>1, <2>2 DEF RowGoesOn
<1> QED BY <1>5, <1>6

LEMMA RoastInvInit ==
  ASSUME RoastInit
  PROVE  RoastInv
<1>1. /\ row = NoRow /\ runs = {} /\ replay = NoReplay /\ stored = {}
      /\ roastLock = Nothing /\ crossed = FALSE /\ mishaps = Mishaps
      /\ Scans \in Nat \ {0} /\ Mishaps \in Nat /\ Nothing \notin Req
  BY RoastAssumption DEF RoastInit, RoastAssumption
<1>2. NoRow \in Row /\ NoRow.at = 0 /\ NoRow.hash = Nothing
      /\ NoRow.roast = Nothing
  BY <1>1 DEF NoRow, Row, Hashes
<1>3. \A s \in 1..Scans : sc[s] = [at |-> "no", seen |-> NoRow]
  BY DEF RoastInit
<1>4. sc \in [1..Scans -> [at : {"no", "read", "scored", "done"}, seen : Row]]
  BY <1>2 DEF RoastInit
<1>5. NewRequest \in RoastRequest
  BY <1>1 DEF NewRequest, RoastRequest, RoastPlace, Hashes
<1>6. rq \in [Req -> RoastRequest] /\ \A r \in Req : rq[r] = NewRequest
  BY <1>5 DEF RoastInit
<1>7. replay \in [hash : Hashes, report : Hashes] /\ replay.report = Nothing
  BY <1>1 DEF NoReplay, Hashes
<1>8. RoastTypeOK
  <2>1. row \in Row /\ runs \subseteq Hash /\ stored \subseteq Hash
    BY <1>1, <1>2
  <2>2. roastLock \in Req \cup {Nothing} /\ mishaps \in 0..Mishaps
    BY <1>1
  <2>3. crossed \in BOOLEAN
    BY <1>1
  <2> QED BY <1>4, <1>6, <1>7, <2>1, <2>2, <2>3 DEF RoastTypeOK
<1>9. RowFits /\ ReportFitsScore /\ ReplayWasStored
  BY <1>1, <1>2, <1>7 DEF RowFits, WholeRow, ReportFitsScore, ReplayWasStored
<1>10. \A s \in 1..Scans : ReadFits(s)
  BY <1>3 DEF ReadFits
<1>11. \A r \in Req : RequestFits(r)
  <2> SUFFICES ASSUME NEW r \in Req
               PROVE  RequestFits(r)
    OBVIOUS
  <2>1. rq[r].at = "new" /\ rq[r].leader = FALSE /\ roastLock # r
    BY <1>1, <1>6 DEF NewRequest
  <2> QED
    BY <2>1
    DEF RequestFits, IdentityFits, ReplayFits, LeadFits, Identified
<1> QED BY <1>8, <1>9, <1>10, <1>11 DEF RoastInv

\* The score row, the replay cache and the lock of the report route.
THEOREM RoastInvariant == RoastSpec => []RoastInv
<1>1. RoastInit => RoastInv
  BY RoastInvInit
<1>2. RoastInv /\ [RoastNext]_roastVars => RoastInv'
  BY RoastInvNext
<1> QED BY <1>1, <1>2, PTL DEF RoastSpec

LEMMA RoastInvSafe ==
  ASSUME RoastInv
  PROVE  OneLeader /\ EndedHoldsNothing
<1>1. OneLeader
  BY DEF RoastInv, RequestFits, LeadFits, OneLeader
<1>2. EndedHoldsNothing
  BY DEF RoastInv, RoastTypeOK, RequestFits, LeadFits, EndedHoldsNothing
<1> QED BY <1>1, <1>2

\* Whatever the scans and the requests do in whatever order: a report is
\* replayed only if it was stored, the row's report fits its score unless
\* scans crossed, one leader generates, an ended request holds no lock, and
\* an older scan never replaces a newer one.
THEOREM RoastSafeHolds == RoastSpec => RoastSafe
<1>1. RoastInv =>
        /\ RoastTypeOK /\ ReportFitsScore /\ ReplayWasStored
        /\ OneLeader /\ EndedHoldsNothing
  BY RoastInvSafe DEF RoastInv
<1>2. RoastInv /\ [RoastNext]_roastVars => [NewestScanStays]_roastVars
  BY RoastInvNext DEF NewestScanStays
<1> QED BY <1>1, <1>2, RoastInvariant, PTL DEF RoastSpec, RoastSafe
=============================================================================
