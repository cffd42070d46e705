SPECIFICATION Spec
CONSTANTS
  None = None
  Star = Star
  Malformed = Malformed
  Keep = Keep
  NoManager = NoManager
  c1 = c1
  c2 = c2
  s1 = s1
  s2 = s2
  Bob = Bob
  BOB = BOB
  x = x
  y = y
  u = u
  w = w
  z = z
  e1 = e1
  UserType = user
  Clients = {c1, c2}
  Scopes = {s1}
  ResourceTypes = {user}
  Ids = {i1}
  Managers = {NoManager}
  ExternalIds = {}
  Names = {Bob, BOB}
  Bodies = {x, y, u}
  Credentials = {}
  Fold <- MCFold
  ScopeOf <- SharedScope
  Merge <- MCMerge
  Unrenderable = {u}
  ChangePasswordSupported = FALSE
  WeakModes = {TRUE, FALSE}
  SentDocuments <- TwoDocuments
  SentPatches <- OnePatch
  SentPasswords = {None}
  SentHeaders = {"tag", "weak"}
  MaxTime = 2
  MaxRequests = 4
SYMMETRY ClientsOnly
INVARIANTS
  NotModifiedDataIsCurrent
PROPERTIES
  ConditionalWritesLoseNothing
  CurrentTagAdmits
  ModifiedAdvances
  CopiesMoveForward
CHECK_DEADLOCK FALSE
