SPECIFICATION RoutingFairSpec
CONSTANTS
  Client = {x, y}
  Numbered = {x}
  Conn = {k1, k2}
  None = None
  MaxTasks = 1
CHECK_DEADLOCK FALSE
INVARIANTS
  OpenIsRegistered
  GaugeMatchesRegistry
  
  AnsweredOnItsConnection
  IndInv
PROPERTIES
  ClosedLeavesRegistry
  ConnectedIsRegistered
