SPECIFICATION DeskSpec
CONSTANTS
  Stores <- MCStores
  Requests <- MCRequests
  Lanes <- MCLanes
  Worlds <- MCWorlds
  Locks <- MCLocks
  Limits <- MCLimits
  MaxMoves = 2
INVARIANTS
  ActsAloneOnlyWithinEveryControl
  AHumanIsAlwaysInReach
PROPERTIES
  TighteningNeverWidens
CHECK_DEADLOCK FALSE
