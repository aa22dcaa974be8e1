\* Two pulses that may overlap, the second delivered twice, over a store that changes, with one fault.
SPECIFICATION WatchSpec
CONSTANTS
  p1 = p1
  u1 = u1
  e1 = e1
  DayTicks = 2
  Jobs = {1, 2}
  Runs = {1, 2, 3}
  JobOf <- LastTwice
  Senses <- WatchSenses
  Events = {e1}
  ActingKinds = {"cover"}
  MaxTime = 2
  MaxTogether = 2
  MaxFaults = 1
INVARIANTS
  AnnouncedWasTold
PROPERTIES
  QuietIsTrue
  
CHECK_DEADLOCK FALSE
