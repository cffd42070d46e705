SPECIFICATION Spec
CONSTANTS
  None = None
  NoManager = NoManager
  s1 = s1
  user = user
  e1 = e1
  e2 = e2
  Bob = Bob
  Ann = Ann
  x = x
  i1 = i1
  Scopes = {s1}
  ResourceTypes = {user}
  Ids = {i1, i2, i3}
  Managers = {NoManager, m1, m2}
  ExternalIds = {e1, e2}
  Names = {Bob, Ann}
  Bodies = {x}
  Credentials = {}
  Fold <- MCFold
  Requests <- MCRequests
  Rank <- MCRank
  Posted <- MCPosted
  Limit = 2
  MaxTime = 1
  MaxRuns = 3
  MaxWrites = 2
SYMMETRY ManagerSymmetry
INVARIANTS
  ExternalIdsUnique
CHECK_DEADLOCK FALSE
