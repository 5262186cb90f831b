CONSTANTS
  a1 = a1  a2 = a2  b1 = b1  b2 = b2  n1 = n1  n2 = n2
  c = c  d = d  e = e  None = None  Null = None  Nil = None
  Worker = {a1, a2}  Caller = {b1, b2}  Writer = {e}
  MaxObjects = 2  MaxVersion = 2  LastTable = 1  Page = 1  MaxRows = 2
  MaxFailures = 2  Legacy <- MCLegacy  Trouble = {"failures", "policy"}
  Repo = {n1, n2}  Tag = {d}  Visit = {a1, a2}  Act = {b1, b2}
  EventId = {e}  MaxMoves = 1
  Command = {b1, b2}  Attempt = {a1, a2}  Assessed = {d}  Suggested = {e}
  Name = {n1, n2}  Digest = {c, d}  Capacity = 1  MaxChanges = 1
SPECIFICATION MCSpec
SYMMETRY Symmetry
PROPERTIES  ServingSafe GovernanceSafe
CHECK_DEADLOCK FALSE
