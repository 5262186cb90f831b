-------------------------- MODULE MCFeedExecution --------------------------
(* TLC instances of FeedExecution: the events share one repository.          *)
EXTENDS FeedExecution, TLC

CONSTANT k1

MCRepoOf == [e \in Events |-> k1]

Symmetry == Permutations(Executors) \cup Permutations(Couriers)
            \cup Permutations(Commands) \cup Permutations(Events)
=============================================================================
