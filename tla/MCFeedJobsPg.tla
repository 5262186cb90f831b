----------------------------- MODULE MCFeedJobsPg -----------------------------
EXTENDS FeedJobsPg, TLC
CONSTANTS k1
MCRepoOf == [e \in Events |-> k1]
MCBackoff == [n \in 1..MaxAttempts |-> 1]
Symmetry == Permutations(Executions) \cup Permutations(Events)
=============================================================================
