SPECIFICATION Spec
CONSTANTS
  None = None
  Ids = {1, 2, 3, 4}
  Keys = {1, 2}
  TypeOf <- MCTypeOf
  Requests <- MCRequests
  maximumSearchCandidates = 3
  maximumPageSize = 2
  MaxWrites = 2
INVARIANTS
  TypeOK
  WalksAreSound
PROPERTIES
  BoundaryIsExact
  ServerErrorsAreExact
CHECK_DEADLOCK FALSE
