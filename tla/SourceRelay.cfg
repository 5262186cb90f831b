\* Two runs of one repository, two overlapping relay invocations, a budget of
\* two attempts and two operator commands.
SPECIFICATION Spec
CONSTANTS
  k1 = k1
  k2 = k2
  r3 = r3
  Runs = {r1, r2}
  Repos = {k1, k2}
  RepoOf <- MCRepoOf
  Tokens = {t1, t2}
  Commands = {c1, c2}
  None = None
  MaxAttempts = 2
  ClaimLimit = 2
SYMMETRY Symmetry
INVARIANTS
  TypeOK
  DeliveredWasPublished
  ReplayOncePerCommand
  SubmittedLatestHasEvent
  SubmittedLatestResolves
PROPERTIES
  DeliveredIsFinal
CHECK_DEADLOCK FALSE
