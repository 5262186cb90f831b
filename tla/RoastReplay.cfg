CONSTANTS
  c1 = c1  c2 = c2  c3 = c3  k1 = k1  k2 = k2
  r1 = r1  r2 = r2  h1 = h1  h2 = h2  h3 = h3  None = None
  Call = {c1, c2, c3}  Key = {k1, k2}  KeyOf <- MCKeyOf
  Capacity = 1  Attempts = 2  Trouble = 2
  Request = {r1, r2}  MaxProcesses = 3  MaxResets = 1
  Scans = 4  Hash = {h1, h2, h3}  HashOf <- MCHashOf  OutOf <- MCOutOf
  Req = {r1, r2}  Mishaps = 1  Nothing = None
SPECIFICATION MCSpec
INVARIANTS ReplayBelongs
CHECK_DEADLOCK FALSE
