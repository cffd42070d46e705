SPECIFICATION Spec
CONSTANTS
  None = None
  NoManager = NoManager
  s1 = s1
  user = user
  e1 = e1
  e2 = e2
  Bob = Bob
  Ann = Ann
  x = x
  i1 = i1
  Scopes = {s1}
  ResourceTypes = {user}
  Ids = {i1, i2, i3}
  Managers = {NoManager, m1, m2}
  ExternalIds = {e1, e2}
  Names = {Bob, Ann}
  Bodies = {x}
  Credentials = {}
  Fold <- MCFold
  Requests <- MCRequests
  Rank <- MCRank
  Posted <- MCPosted
  Limit = 2
  MaxTime = 2
  MaxRuns = 3
  MaxWrites = 1
SYMMETRY ManagerSymmetry
INVARIANTS
  TypeOK
PROPERTIES
  RepeatChangesNothing
  OthersUntouched
  IdsPreserved
  CommitSatisfiesRequest
  DeletedStaysDeleted
  CountsMatchStore
CHECK_DEADLOCK FALSE
