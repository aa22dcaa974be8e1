\* One attempt of a job, its audit writes tried twice, answered, lost or late.
SPECIFICATION Spec
CONSTANTS
    Turns = {t1}
    Timeout = 2
    Budget = 3
    Backoff = 1
    MaxRetries = 1
INVARIANT OverWithinBudget
PROPERTIES
    AuditSpec
    SettledStaysSettled
CHECK_DEADLOCK FALSE
