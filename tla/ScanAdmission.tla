--------------------------- MODULE ScanAdmission ---------------------------
(***************************************************************************)
(* Admission of cold scans (src/lib/scan-protection.ts, called by          *)
(* coalesceScan and getCachedScoreDetail): one producer per handle and a   *)
(* bounded number of producers overall, held together by three Redis       *)
(* scripts, a lease and a cooldown.  A call is its owner token, and the    *)
(* result it produces.                                                     *)
(***************************************************************************)
EXTENDS Integers, FiniteSets

CONSTANTS
  Call,      \* calls of protectedScan
  Key,       \* handles
  KeyOf,     \* the handle of each call
  Capacity,  \* producers at a time, 8 in the code
  Attempts,  \* reads of a waiter before it gives up, 90 in the code
  Trouble,   \* lapsed leases, failed producers, evictions, lost commands
  None

ASSUME CallAssumption == KeyOf \in [Call -> Key] /\ None \notin Call
ASSUME BoundAssumption ==
  {Capacity, Attempts} \subseteq Nat \ {0} /\ Trouble \in Nat

VARIABLES
  lock,    \* lock:<key>, the owner token
  active,  \* scan:active-producers, the owners whose score is in the future
  cool,    \* cooldown:<key>
  cache,   \* the cached result: the call that produced it
  call,    \* what each call is doing
  turn,    \* history: how many admissions there were
  made,    \* history: how often each key was produced
  trouble

vars == <<lock, active, cool, cache, call, turn, made, trouble>>

Ended == {"served", "busy", "failed", "dead"}
NewCall == [at |-> "new", tries |-> 0, ok |-> FALSE, got |-> None, turn |-> 0]

Init ==
  /\ lock = [k \in Key |-> None]
  /\ active = {}
  /\ cool = {}
  /\ cache = [k \in Key |-> None]
  /\ call = [c \in Call |-> NewCall]
  /\ turn = 0
  /\ made = [k \in Key |-> 0]
  /\ trouble = Trouble

Goes(c, at) == call' = [call EXCEPT ![c].at = at]
Spends == trouble > 0 /\ trouble' = trouble - 1
redis == <<lock, active, cool, cache>>
history == <<turn, made>>

-----------------------------------------------------------------------------
(* One turn of the loop: read, then ask for admission.                     *)

Start(c) ==
  /\ call[c].at = "new"
  /\ Goes(c, "reading")
  /\ UNCHANGED <<redis, history, trouble>>

Read(c) ==
  /\ call[c].at = "reading"
  /\ LET hit == cache[KeyOf[c]]
     IN IF hit # None
          THEN call' = [call EXCEPT ![c].at = "served", ![c].got = hit]
          ELSE Goes(c, "asking")
  /\ UNCHANGED <<redis, history, trouble>>

\* ADMIT_SCAN: the key has a producer.
Wait(c) ==
  /\ call[c].at = "asking"
  /\ lock[KeyOf[c]] # None
  \* Never turn every timed-out waiter into a new producer.
  /\ call' = [call EXCEPT ![c].tries = @ + 1,
                ![c].at = IF call[c].tries + 1 < Attempts THEN "reading"
                                                         ELSE "busy"]
  /\ UNCHANGED <<redis, history, trouble>>
Full(k) == k \in cool \/ Cardinality(active) >= Capacity
Refuse(c) ==
  /\ call[c].at = "asking"
  /\ lock[KeyOf[c]] = None
  /\ Full(KeyOf[c])
  /\ Goes(c, "busy")
  /\ UNCHANGED <<redis, history, trouble>>
Admits(c, at) ==
  /\ call[c].at = "asking"
  /\ lock[KeyOf[c]] = None
  /\ ~Full(KeyOf[c])
  /\ lock' = [lock EXCEPT ![KeyOf[c]] = c]
  /\ active' = active \cup {c}
  /\ turn' = turn + 1
  /\ call' = [call EXCEPT ![c].at = at, ![c].turn = turn + 1]
  /\ UNCHANGED <<cool, cache, made>>
Admit(c) == Admits(c, "admitted") /\ UNCHANGED trouble

\* A previous owner may have published between the read and the admission.
Recheck(c) ==
  /\ call[c].at = "admitted"
  /\ LET hit == cache[KeyOf[c]]
     IN call' = [call EXCEPT ![c].at = IF hit = None THEN "producing"
                                                     ELSE "releasing",
                             ![c].ok = hit # None, ![c].got = hit]
  /\ UNCHANGED <<redis, history, trouble>>
Produce(c) ==
  /\ call[c].at = "producing"
  /\ Goes(c, "publishing")
  /\ made' = [made EXCEPT ![KeyOf[c]] = @ + 1]
  /\ UNCHANGED <<redis, turn, trouble>>
ProducerFails(c) ==
  /\ call[c].at = "producing"
  /\ Spends
  /\ Goes(c, "releasing")
  /\ UNCHANGED <<redis, history>>

\* PUBLISH_SCAN compares the owner and sets the result in one script.
Publish(c) ==
  /\ call[c].at = "publishing"
  /\ IF lock[KeyOf[c]] = c
       THEN /\ cache' = [cache EXCEPT ![KeyOf[c]] = c]
            /\ call' = [call EXCEPT ![c].at = "releasing", ![c].ok = TRUE,
                                    ![c].got = c]
       ELSE Goes(c, "releasing") /\ UNCHANGED cache
  /\ UNCHANGED <<lock, active, cool, history, trouble>>

Answer(c) == Goes(c, IF call[c].ok THEN "served" ELSE "failed")
\* Mutant of Release: the lock is deleted whoever holds it.
ReleaseAny(c) ==
  /\ call[c].at = "releasing"
  /\ lock' = [lock EXCEPT ![KeyOf[c]] = None]
  /\ cool' = IF call[c].ok THEN cool ELSE cool \cup {KeyOf[c]}
  /\ active' = active \ {c}
  /\ Answer(c)
  /\ UNCHANGED <<cache, history, trouble>>

\* RELEASE_SCAN: only the owner drops the lock, and a failure cools down.
Release(c) ==
  /\ call[c].at = "releasing"
  /\ IF lock[KeyOf[c]] = c
       THEN /\ lock' = [lock EXCEPT ![KeyOf[c]] = None]
            /\ cool' = IF call[c].ok THEN cool ELSE cool \cup {KeyOf[c]}
       ELSE UNCHANGED <<lock, cool>>
  /\ active' = active \ {c}
  /\ Answer(c)
  /\ UNCHANGED <<cache, history, trouble>>

-----------------------------------------------------------------------------
(* What may go wrong, and time.                                            *)

\* A command that throws may have been executed: an admission nobody uses,
\* a publication whose owner fails.
ReplyLost(c) ==
  /\ Spends
  /\ \/ Admits(c, "busy")
     \/ /\ call[c].at = "publishing"
        /\ lock[KeyOf[c]] = c
        /\ cache' = [cache EXCEPT ![KeyOf[c]] = c]
        /\ Goes(c, "releasing")
        /\ UNCHANGED <<lock, active, cool, history>>
\* Or it was not: a read counts as a miss, a failed release is swallowed.
CommandLost(c) ==
  /\ Spends
  /\ \/ call[c].at = "reading" /\ Goes(c, "asking")
     \/ call[c].at = "admitted" /\ Goes(c, "producing")
     \/ call[c].at = "asking" /\ Goes(c, "busy")
     \/ call[c].at = "publishing" /\ Goes(c, "releasing")
     \/ call[c].at = "releasing" /\ Answer(c)
  /\ UNCHANGED <<redis, history>>
Die(c) ==
  /\ call[c].at \notin Ended \cup {"new"}
  /\ Spends
  /\ Goes(c, "dead")
  /\ UNCHANGED <<redis, history>>

\* The lock and the score of its owner expire together.
Lapses(c) ==
  /\ lock' = [k \in Key |-> IF lock[k] = c THEN None ELSE lock[k]]
  /\ active' = active \ {c}
  /\ UNCHANGED <<cool, cache, call, history>>
LeaseEnds(c) ==
  /\ c \in active /\ call[c].at \in Ended
  /\ Lapses(c)
  /\ UNCHANGED trouble
LeaseEndsEarly(c) ==
  /\ c \in active /\ call[c].at \notin Ended
  /\ Spends
  /\ Lapses(c)
CooldownEnds(k) ==
  /\ k \in cool
  /\ cool' = cool \ {k}
  /\ UNCHANGED <<lock, active, cache, call, history, trouble>>
Evict(k) ==
  /\ cache[k] # None
  /\ Spends
  /\ cache' = [cache EXCEPT ![k] = None]
  /\ UNCHANGED <<lock, active, cool, call, history>>

Step(c) ==
  \/ Read(c) \/ Wait(c) \/ Refuse(c) \/ Admit(c) \/ Recheck(c)
  \/ Produce(c) \/ Publish(c) \/ Release(c)
Next ==
  \/ \E c \in Call :
       \/ Start(c) \/ Step(c) \/ ProducerFails(c) \/ CommandLost(c)
       \/ ReplyLost(c) \/ Die(c) \/ LeaseEnds(c) \/ LeaseEndsEarly(c)
  \/ \E k \in Key : CooldownEnds(k) \/ Evict(k)
Spec == Init /\ [][Next]_vars
FairSpec ==
  /\ Spec
  /\ \A c \in Call : WF_vars(Step(c)) /\ WF_vars(LeaseEnds(c))
  /\ \A k \in Key : WF_vars(CooldownEnds(k))

-----------------------------------------------------------------------------
CallType ==
  [at : Ended \cup {"new", "reading", "asking", "admitted", "producing",
                    "publishing", "releasing"},
   tries : 0..Attempts, ok : BOOLEAN, got : Call \cup {None}, turn : Nat]

\* Every variable keeps to its type.
TypeOK ==
  /\ lock \in [Key -> Call \cup {None}]
  /\ active \subseteq Call
  /\ cool \subseteq Key
  /\ cache \in [Key -> Call \cup {None}]
  /\ call \in [Call -> CallType]
  /\ turn \in Nat
  /\ made \in [Key -> Nat]
  /\ trouble \in 0..Trouble

Working(c) == call[c].at \in {"admitted", "producing", "publishing"}

\* At most eight cold crawls across all handles, and one per handle: the
\* calls between their admission and their release whose lease is running.
ProducersBounded ==
  /\ Cardinality({c \in active : Working(c)}) <= Capacity
  /\ \A c, d \in active :
       Working(c) /\ Working(d) /\ KeyOf[c] = KeyOf[d] => c = d

\* A handle is locked exactly while its owner counts against the capacity,
\* whatever expired and whoever released what.
LockCounts ==
  /\ \A k \in Key : lock[k] # None => lock[k] \in active /\ KeyOf[lock[k]] = k
  /\ \A c \in active : lock[KeyOf[c]] = c

\* scan-protection.ts:84 an expired owner never overwrites the result of a
\* newer producer.
NewestResultStays ==
  \A k \in Key : cache[k] # None /\ cache'[k] # None =>
    call[cache'[k]].turn >= call[cache[k]].turn

\* A request is answered with a result of its own handle that was published.
ServedIsPublished ==
  \A c \in Call : call[c].at = "served" =>
    /\ call[c].got # None
    /\ KeyOf[call[c].got] = KeyOf[c]
    /\ call[call[c].got].turn > 0

\* Concurrent requests of one handle cost one crawl, in whatever order they
\* read, ask and publish, as long as nothing fails.
ProducedOnce == trouble = Trouble => \A k \in Key : made[k] <= 1

\* Every call ends, and the capacity comes back whoever died with it.
CallsEnd == \A c \in Call : call[c].at # "new" ~> call[c].at \in Ended
CapacityReturns == \A c \in Call : c \in active ~> c \notin active

\* At most Capacity crawls and one per handle; an expired owner neither
\* publishes nor releases, and no capacity is counted for nobody.
AdmissionSafe ==
  /\ [](TypeOK /\ ProducersBounded /\ LockCounts /\ ServedIsPublished
        /\ ProducedOnce)
  /\ [][NewestResultStays]_vars
=============================================================================
