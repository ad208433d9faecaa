SPECIFICATION FairSpec
CONSTANTS
  Daemons = {"d1", "d2", "d3"}
  Calls = {"k1", "k2"}
  IDs = {"a"}
  MaxDeaths = 2
  Stale = "stale"
  NULL = NULL
CHECK_DEADLOCK FALSE
INVARIANTS
  StartFailsOnlyInARace
  BlocksStayWithTheirDaemon
  OneKeepsThePath
PROPERTIES
  ServiceComesUp
  ConnectedCallsAreAnswered
