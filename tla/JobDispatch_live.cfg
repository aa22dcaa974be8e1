\* Live turns: a customer job that outranks a misrouted server sweep, one row per claim.
SPECIFICATION FairSpec
CONSTANTS
  a = a
  b = b
  Jobs = {a, b}
  Priority <- TwoPriority
  Plane <- SweepPlanes
  TurnMode = "live"
  BatchLimit = 1
  MaxAttempts = 2
  MaxFaults = 1
  MaxLeases = 3
INVARIANTS
  CommittedNeverReleased
  ReportIsTrue
  ClosedForAReason
  ExtraLeasesAreFaults
PROPERTIES
  ContractSpec
  EveryJobCloses
CHECK_DEADLOCK FALSE
