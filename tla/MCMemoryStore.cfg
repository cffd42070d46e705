SPECIFICATION FairSpec
CONSTANTS
  None = None
  Bob = Bob
  BOB = BOB
  s1 = s1
  s2 = s2
  m1 = m1
  m2 = m2
  user = user
  group = group
  e1 = e1
  b1 = b1
  i1 = i1
  Scopes = {s1, s2}
  ResourceTypes = {user, group}
  Ids = {i1, i2}
  Managers = {m1, m2}
  ExternalIds = {e1}
  Names = {Bob, BOB}
  Bodies = {b1}
  Credentials = {}
  Callers = {c1, c2}
  MaxOps = 2
  MaxTime = 1
  Fold <- MCFold
  Candidates <- MCCandidates
INVARIANTS
  TypeOK
  UniqueIdentity
  UniqueIndex
  CommittedRecordsValid
PROPERTIES
  Lifecycle
  CallsReturn
