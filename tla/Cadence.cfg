\* Two days of six instants; the clocks move by two, in the middle of the second.
SPECIFICATION CadenceSpec
CONSTANTS
    Day = 6
    Hour = 2
    Changes = 8
    Bases <- TwoBases
    Cadences <- TwoCadences
    Window = 2
    LookBack = 12
    Horizon = 14
    MaxEvents = 3
    Never = Never
INVARIANTS
    LatestRunsOnce
    SweepFollowsItsCarts
CHECK_DEADLOCK FALSE
