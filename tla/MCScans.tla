------------------------------ MODULE MCScans ------------------------------
(* The scan pipeline on small instances: the quick scan (ScanJobs), the    *)
(* durable store (PublicScanJobs) and the commit facts of one durable scan *)
(* (CommitVerification).  They share no state, so each is explored alone:  *)
(* part, which never changes, says which instance moves.                   *)
EXTENDS ScanJobs, PublicScanJobs, CommitVerification, TLC

CONSTANTS r1, r2, r3, r4, j1, j2, j3, w1, w2, s1, s2

VARIABLE part

\* The quick scan is the extended module itself.  Two requests share a key,
\* and so their job, amid every trouble; two cold ones have jobs of their own,
\* while nothing fails.
MCJobOf == r1 :> j1 @@ r2 :> j1 @@ r3 :> j2 @@ r4 :> j3
Deliveries == Next /\ \A r \in Request \ Keyed : request'[r] = request[r]
Flights ==
  /\ Next /\ quiet'
  /\ \A r \in Keyed : request'[r] = request[r]

\* So are the durable scans: in rows a scan of the release in service and one
\* of an old one share a slot, without quick results; in slots two accounts
\* under the release in service compete for two slots, amid less trouble.
Row(u, v, n) == [user |-> u, version |-> v, n |-> n]
MCScan == {Row("ann", "v5", 1), Row("ann", "v4", 1), Row("bob", "v5", 1)}
Still(j) == job'[j] = job[j]
Releases ==
  /\ ScansNext /\ capacity' = 1
  /\ Still(Row("bob", "v5", 1))
  /\ \A j \in Scan : ~run'[j].quick
Slots ==
  /\ ScansNext /\ trouble' > 0
  /\ Still(Row("ann", "v4", 1))

all == <<part, vars, scanVars, factVars>>

MCInit ==
  /\ part \in {"delivery", "flight", "rows", "slots", "facts"}
  /\ Init
  /\ ScansInit
  /\ FactsInit

MCNext ==
  /\ UNCHANGED part
  /\ \/ /\ \/ part = "delivery" /\ Deliveries
           \/ part = "flight" /\ Flights
        /\ UNCHANGED <<scanVars, factVars>>
     \/ /\ \/ part = "rows" /\ Releases
           \/ part = "slots" /\ Slots
        /\ UNCHANGED <<vars, factVars>>
     \/ /\ part = "facts" /\ FactsNext
        /\ UNCHANGED <<vars, scanVars>>

MCSpec == MCInit /\ [][MCNext]_all

Symmetry ==
  Permutations({r1, r2}) \cup Permutations({w1, w2})
    \cup Permutations({s1, s2})

=============================================================================
