----------------------------- MODULE MCAnalysis -----------------------------
(* Project analysis on small instances: the Go worker (AnalysisWorker,      *)
(* extended) and the TypeScript service (AnalysisService), two programs     *)
(* over one table of which a deployment runs one.  part, which never        *)
(* changes, says which of them moves, and on what.                          *)
EXTENDS AnalysisWorker, TLC

CONSTANTS a1, a2, a3, k1, k2, p1, p2, w1, w2

VARIABLES
  part,
  rows, best, threads,          \* the table of AnalysisService
  born, audit, caller, calm

MCKeyOf == a1 :> k1 @@ a2 :> k1 @@ a3 :> k2
MCRepoOf == k1 :> p1 @@ k2 :> p2

\* One run, retried, parked and redelivered between two workers.
Delivery ==
  /\ trouble = {"failures"}
  /\ table[a1].attempts <= 1
  /\ request[a2] = "start" /\ request[a3] = "start"
\* Two runs of two repositories for one slot.
Slots ==
  /\ trouble = {"rejections"}
  /\ request[a2] = "start"
\* Two submissions of one key, and an operator who reconciles.
Keys ==
  /\ trouble = {"reconcile"}
  /\ \A r \in Run, t \in Try :
       remote[r][t] \in {"absent", "running", "inactive"}
  /\ request[a3] = "start"
\* One run whose create lease or execution time may be over.
Slow ==
  /\ trouble = {"failures", "leases", "timeouts"}
  /\ \A r \in Run : Copies(r) <= 1
  /\ request[a2] = "start" /\ request[a3] = "start"

\* One run that may be interrupted, and an operator who recovers it.
Recovery == INSTANCE AnalysisService WITH
  Run <- {a1}, Key <- {k1}, KeyOf <- a1 :> k1, Repo <- {p1},
  RepoOf <- k1 :> p1, Limit <- 1, MaxCreates <- 1,
  Verdict <- {"interrupted", "inactive", "committing"},
  Caller <- {w1, w2}, Outbox <- TRUE,
  Trouble <- {"timeouts", "operator", "leases", "rejections"},
  table <- rows, assessment <- best, remote <- threads, healthy <- calm
\* Two refs of one repository: the later run supersedes the earlier one.
Newest == INSTANCE AnalysisService WITH
  Run <- {a1, a2}, Key <- {k1, k2}, KeyOf <- a1 :> k1 @@ a2 :> k2,
  Repo <- {p1}, RepoOf <- k1 :> p1 @@ k2 :> p1, Limit <- 1,
  MaxCreates <- 1, Verdict <- {"interrupted", "committing"},
  Caller <- {w1, w2}, Outbox <- TRUE, Trouble <- {"operator", "timeouts"},
  table <- rows, assessment <- best, remote <- threads, healthy <- calm
\* Only the first of them may be interrupted.
Superseded == \A t \in Try : threads[a2][t] # "interrupted"
\* A deployment without the source outbox.
Plain == INSTANCE AnalysisService WITH
  Run <- {a1}, Key <- {k1}, KeyOf <- a1 :> k1, Repo <- {p1},
  RepoOf <- k1 :> p1, Limit <- 1, MaxCreates <- 1,
  Verdict <- {"interrupted", "committing"}, Caller <- {w1, w2},
  Outbox <- FALSE, Trouble <- {"failures", "operator"},
  table <- rows, assessment <- best, remote <- threads, healthy <- calm

ASSUME Recovery!StoreAssumption /\ Recovery!ServiceAssumption
ASSUME Newest!StoreAssumption /\ Newest!ServiceAssumption

services == <<rows, best, threads, born, audit, caller, calm>>
all == <<part, vars, services>>

MCInit ==
  /\ part \in {"delivery", "slots", "keys", "slow", "recovery", "newest", "plain"}
  /\ Init
  /\ CASE part = "slots" -> Slots
       [] part = "keys" -> Keys
       [] part = "slow" -> Slow
       [] OTHER -> Delivery
  /\ CASE part = "newest" -> Newest!Init
       [] part = "plain" -> Plain!Init
       [] OTHER -> Recovery!Init

MCNext ==
  /\ UNCHANGED part
  /\ \/ /\ part \in {"delivery", "slots", "keys", "slow"}
        /\ Next
        /\ part = "delivery" => Delivery'
        /\ part = "slots" => Slots'
        /\ part = "keys" => Keys'
        /\ part = "slow" => Slow'
        /\ UNCHANGED services
     \/ /\ \/ part = "recovery" /\ Recovery!Next
           \/ part = "newest" /\ Newest!Next /\ Superseded'
           \/ part = "plain" /\ Plain!Next
        /\ UNCHANGED vars

MCSpec == MCInit /\ [][MCNext]_all

Symmetry == Permutations({w1, w2})

-----------------------------------------------------------------------------
\* A recovered run is reopened only with a further audit record, never
\* replaces a newer analysis, and what ended stays ended.
AnalysisServiceSafe ==
  /\ [](part = "recovery" => Recovery!Safe)
  /\ [](part = "newest" => Newest!Safe)
  /\ [](part = "plain" => Plain!Safe)
  /\ [][/\ part = "recovery" => Recovery!SafeStep
        /\ part = "newest" => Newest!SafeStep
        /\ part = "plain" => Plain!SafeStep]_all
=============================================================================
