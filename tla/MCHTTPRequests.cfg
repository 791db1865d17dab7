SPECIFICATION FairRequestSpec
CONSTANTS
  HTTPConfigs <- MCConfigs
  Requests <- MCRequests
  ValidTokens = {"jwt"}
  PeekLimit = 2
  MaxBody = 3
CHECK_DEADLOCK FALSE
INVARIANTS
  BodyWholeOrNothing
  CrossSiteAsListed
  StrangersRefused
PROPERTY EndedBodiesAnswered
