------------------------------ MODULE MCLocks ------------------------------
(* Three single-flight locks on small instances: the admission of cold     *)
(* scans (ScanAdmission), the report of an account (RoastFlight) and the   *)
(* restart of a Feed container (ModeTransition).  They share no state, so  *)
(* each is explored alone: part, which never changes, says which moves.    *)
EXTENDS ScanAdmission, RoastFlight, ModeTransition, TLC

CONSTANTS c1, c2, c3, k1, k2, r1, r2, h1, h2, h3

VARIABLE part

\* Two calls of one handle and one of another, for one place.
MCKeyOf == c1 :> k1 @@ c2 :> k1 @@ c3 :> k2

\* The first snapshot of the account comes back as the third; the fourth has
\* the score of the first.
MCHashOf == <<h1, h2, h1, h3>>
MCOutOf == h1 :> "high" @@ h2 :> "low" @@ h3 :> "high"
\* flows: two scans beside each other; reports: three, and prose: two with
\* the same score, one after another.
Only(S) == RoastNext /\ \A s \in (1..Scans) \ S : sc'[s] = sc[s]
InTurn(S) ==
  /\ Only(S)
  /\ \A s, t \in S : s < t /\ sc'[t].at # "no" => sc'[s].at = "done"
Flows == Only({1, 2})
Prose == InTurn({1, 4})
Reports == InTurn({1, 2, 3})

all == <<part, vars, roastVars, restartVars>>

MCInit ==
  /\ part \in {"admission", "flows", "prose", "reports", "restart"}
  /\ Init
  /\ RoastInit
  /\ RestartInit
  /\ part # "restart" => edge = "off" /\ running = 0 /\ is[1] = "off"

Crawls == part = "admission" /\ UNCHANGED <<part, roastVars, restartVars>>
Roasts(p) == part = p /\ UNCHANGED <<part, vars, restartVars>>
Restarts == part = "restart" /\ UNCHANGED <<part, vars, roastVars>>

MCNext ==
  \/ Crawls /\ Next
  \/ Roasts("flows") /\ Flows
  \/ Roasts("prose") /\ Prose
  \/ Roasts("reports") /\ Reports
  \/ Restarts /\ RestartNext

\* The fairness of the three specifications, each of its own part.
MCFairness ==
  /\ \A c \in Call :
       WF_all(Crawls /\ Step(c)) /\ WF_all(Crawls /\ LeaseEnds(c))
  /\ \A k \in Key : WF_all(Crawls /\ CooldownEnds(k))
  /\ \A r \in {r1, r2} :
       /\ WF_all(Roasts("flows") /\ RoastStep(r))
       /\ WF_all(Restarts /\ Settles(r))
       /\ WF_all(Restarts /\ ReleaseLock(r))
  /\ WF_all(Roasts("flows") /\ LockExpires)
MCSpec == MCInit /\ [][MCNext]_all /\ MCFairness

-----------------------------------------------------------------------------
\* Every scan that asked for admission and every request for a report ends,
\* and the capacity, the roast lock and the actor come back, whoever died
\* with them.
LocksEnd ==
  /\ CallsEnd /\ CapacityReturns
  /\ part = "flows" => RequestsEnd /\ LockComesFree
  /\ LockReturns
=============================================================================
