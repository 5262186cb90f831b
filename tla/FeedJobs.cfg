\* One event with two attempts, two overlapping executions, and one operator
\* generation after the initial one.
SPECIFICATION Spec
CONSTANTS
  k1 = k1
  Events = {e1}
  Repos = {k1}
  RepoOf <- MCRepoOf
  Executors = {x1, x2}
  Couriers = {k}
  Commands = {c1}
  Source = Source
  None = None
  MaxJobAttempts = 2
  MaxSendAttempts = 1
  MaxRetries = 0
  SendLimit = 1
SYMMETRY Symmetry
INVARIANTS
  TypeOK
  NeverStranded
  DeadLetterIsCurrent
  OutstandingIsCurrent
PROPERTIES
  CompletedIsFinal
