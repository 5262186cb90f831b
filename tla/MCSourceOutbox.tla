--------------------------- MODULE MCSourceOutbox ---------------------------
(* TLC instances of SourceOutbox: r3, where present, has a repository of its  *)
(* own and the other runs share one.                                          *)
EXTENDS SourceOutbox, TLC

CONSTANTS k1, k2, r3

MCRepoOf == [r \in Runs |-> IF r = r3 THEN k2 ELSE k1]

Symmetry == Permutations(Runs) \cup Permutations(Tokens)
            \cup Permutations(Commands)

FactSymmetry == Permutations(Runs \ {r3})
=============================================================================
