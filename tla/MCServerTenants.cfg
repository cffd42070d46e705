SPECIFICATION Spec
CONSTANTS
  None = None
  Star = Star
  Malformed = Malformed
  Keep = Keep
  NoManager = NoManager
  c1 = c1
  c2 = c2
  s1 = s1
  s2 = s2
  Bob = Bob
  BOB = BOB
  x = x
  y = y
  u = u
  w = w
  z = z
  e1 = e1
  UserType = user
  Clients = {c1, c2}
  Scopes = {s1, s2}
  ResourceTypes = {user, group}
  Ids = {i1, i2}
  Managers = {NoManager}
  ExternalIds = {e1}
  Names = {Bob, BOB}
  Bodies = {x, w, z}
  Credentials = {p1}
  Fold <- MCFold
  ScopeOf <- SeparateScopes
  Merge <- MCMerge
  Unrenderable = {w}
  ChangePasswordSupported = TRUE
  WeakModes = {FALSE}
  SentDocuments <- TenantDocuments
  SentPatches <- TenantPatches
  SentPasswords = {None, p1}
  SentHeaders = {}
  MaxTime = 1
  MaxRequests = 3
SYMMETRY IdsOnly
INVARIANTS
  CredentialsAgree
  AcknowledgedSurvives
PROPERTIES
  ScopesIsolated
CHECK_DEADLOCK FALSE
