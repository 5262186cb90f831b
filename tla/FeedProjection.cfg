\* Two events of one repository, two overlapping executions, no operator.
SPECIFICATION Spec
CONSTANTS
  k1 = k1
  Events = {e1, e2}
  Repos = {k1}
  RepoOf <- MCRepoOf
  Executors = {x1, x2}
  Couriers = {}
  Commands = {}
  Source = Source
  None = None
  MaxJobAttempts = 1
  MaxSendAttempts = 1
  MaxRetries = 0
  SendLimit = 1
SYMMETRY Symmetry
INVARIANTS
  CompletedIsCovered
  LatestCompletedIsShown
PROPERTIES
  ProjectionAdvances
