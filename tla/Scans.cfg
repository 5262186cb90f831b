CONSTANTS
  r1 = r1  r2 = r2  r3 = r3  r4 = r4  j1 = j1  j2 = j2  j3 = j3
  w1 = w1  w2 = w2  s1 = s1  s2 = s2  None = None
  Request = {r1, r2, r3, r4}
  Job = {j1, j2, j3}
  JobOf <- MCJobOf
  Keyed = {r1, r2}
  Worker = {w1, w2}
  Snapshot = {s1, s2}
  MaxAttempts = 2
  MaxCopies = 2
  Trouble = {"failures", "expiry"}
  Scan <- MCScan
  Current = "v5"
  ScanWorker = {w1, w2}
  MaxSlots = 2
  MaxActive = 1
  Limit = 1
  Phases = 2
  ScanTrouble = 2
  Commits = 3
  Verifier = {w1, w2}
  MaxMoves = 3
  Nobody = None
SPECIFICATION MCSpec
SYMMETRY Symmetry
INVARIANT CommitFactsSafe
PROPERTIES ScanJobsSafe PublicScanSafe
CHECK_DEADLOCK FALSE
