\* Two events of one repository, two executions, a clock of four instants.
SPECIFICATION Spec
CONSTANTS
  k1 = k1
  Events = {e1, e2}
  Repos = {k1}
  RepoOf <- MCRepoOf
  Executions = {x1, x2, x3}
  None = None
  MaxAttempts = 2
  Lease = 2
  Backoff <- MCBackoff
  Horizon = 3
SYMMETRY Symmetry
INVARIANTS
  TypeOK
  CompletedIsCovered
  DeadAfterAllAttempts
PROPERTIES
  LeaseIsHonoured
  EvidenceAdvances
CHECK_DEADLOCK FALSE
