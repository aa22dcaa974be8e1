\* Three deliveries of an order, or of a cancel, under two requests, with two faults.
SPECIFICATION OneVerbSpec
CONSTANTS
  Attempts = {a1, a2, a3}
  Requests = {r1, r2}
  MaxFaults = 2
SYMMETRY Interchangeable
INVARIANTS
  SaleCreditedOnce
  ExecutedIsDone
  AnswersAreTrue
  UndoRestores
PROPERTY OwnersStay
CHECK_DEADLOCK FALSE
