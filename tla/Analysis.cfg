CONSTANTS
  a1 = a1  a2 = a2  a3 = a3  k1 = k1  k2 = k2  p1 = p1  p2 = p2
  w1 = w1  w2 = w2  None = None
  Run = {a1, a2, a3}  Key = {k1, k2}  KeyOf <- MCKeyOf
  Repo = {p1, p2}  RepoOf <- MCRepoOf
  Limit = 1  MaxCreates = 2  MaxTry = 2
  Verdict = {"interrupted", "cancelled", "inactive", "committing"}
  Worker = {w1, w2}  MaxAttempts = 2  MaxCopies = 2
  Trouble = {"failures", "rejections", "leases", "timeouts", "reconcile"}
SPECIFICATION MCSpec
SYMMETRY Symmetry
PROPERTIES AnalysisWorkerSafe AnalysisServiceSafe
CHECK_DEADLOCK FALSE
