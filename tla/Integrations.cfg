CONSTANTS
  a1 = a1  a2 = a2  c = c  d = d  r1 = r1  r2 = r2  o = o  x = x
  low = low  none = none  u1 = u1  s1 = s1  s2 = s2  m1 = m1  m2 = m2
  None = None
  Project = {1, 2}
  Reconciler = {c}
  Consumer = {d}
  Risks = {"none", "high", "critical"}
  MaxChanges = 3
  MaxModerations = 1
  Trouble = 1
  Overlap = 0
  User = {u1}
  Subject = {s1, s2}
  AuthorOf <- MCAuthorOf
  Address = {m1, m2}
  Worker = {a1, a2}
  Cap = 1
  MaxDeaths = 1
  MaxChoices = 2
  Null = None
  Repo = {r1, r2}
  Rank <- MCRank
  Archived = {r1}
  Selected = {{}, {r2}}
  Opened = {o}
  RepoOf <- MCRepoOf
  Discovery = {d}
  Retry = {x}
  Level = {low, none}
  Unavailable = none
  PageSize = 1
  Lease = 3
  Budget = 2
  ScoreWindow = 1
  Delays = {0, 2}
  MaxAttempts = 2
  ReviewTrouble = 2
  Missing = None
  FeedUser = {u1}
  FeedRepo = {r1}
  Relay = {a1, a2}
  GorseWorker = {d}
  MaxFacts = 4
  MaxRebuilds = 1
  GorseTrouble = 1
  NoOne = None
SPECIFICATION MCSpec
SYMMETRY Symmetry
INVARIANT GorseSafe
PROPERTIES CatalogSafe  
CHECK_DEADLOCK FALSE
