\* Three turns with crashes, failed writes and broken streams.
SPECIFICATION FairSpec
CONSTANTS
  MaxTurns = 3
  MaxEvents = 3
  MaxFaults = 2
INVARIANT
  RestartIsSeamless
PROPERTIES
  TurnIsHeard
CHECK_DEADLOCK FALSE
