-------------------------- MODULE ProjectedVersions --------------------------
(***************************************************************************)
(* What the Feed promises about a repository's projection, whatever        *)
(* happens between the core database and the Feed database: versions       *)
(* become known when the core commits them, and the version shown for a    *)
(* repository only ever advances to a known one.                           *)
(***************************************************************************)
EXTENDS Naturals

CONSTANT Repos

VARIABLES
  known,   \* committed source versions, as <<repository, version>> pairs
  shown    \* the version shown of each repository, 0 if none

Init ==
  /\ known = {}
  /\ shown = [k \in Repos |-> 0]

\* A version is newer than every version known before it.
Learn ==
  /\ \E p \in known' \cap (Repos \X Nat) :
       /\ known' = known \cup {p}
       /\ \A q \in known : p[2] > q[2]
  /\ UNCHANGED shown

Show ==
  /\ \E p \in known :
       /\ p[2] > shown[p[1]]
       /\ shown' = [shown EXCEPT ![p[1]] = p[2]]
  /\ UNCHANGED known

Next == Learn \/ Show

Spec == Init /\ [][Next]_<<known, shown>>
=============================================================================
