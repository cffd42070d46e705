SPECIFICATION Spec
CONSTANTS
  Attributes <- MCAttributes
  PathOf <- MCPathOf
  Within <- MCWithin
  Timestamps <- MCTimestamps
  Openings <- MCOpenings
  Chunks <- MCChunks
  Documents <- MCDocuments
  maximumFilterDepth = 10
  MaxTokens = 7
INVARIANTS
  ParserFollowsGrammar
  AcceptedComparisonsDecide
  ValuePathAgreesWithDotted
CHECK_DEADLOCK FALSE
