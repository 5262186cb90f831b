\* Fair scheduling, smallest budgets, one operator generation; no symmetry,
\* since liveness is checked.
SPECIFICATION LiveSpec
CONSTANTS
  k1 = k1
  Events = {e1}
  Repos = {k1}
  RepoOf <- MCRepoOf
  Executors = {x1}
  Couriers = {k}
  Commands = {c1}
  Source = Source
  None = None
  MaxJobAttempts = 1
  MaxSendAttempts = 1
  MaxRetries = 0
  SendLimit = 1
PROPERTIES
  EventuallyDecided
