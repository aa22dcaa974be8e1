SPECIFICATION Spec
CONSTANTS
    Store = s
    Another = t
    NoToken = noToken
    Never = never
    NoFetch = noFetch
    Ttl = 3
    RefreshSkew = 1
    FreshTtl = 2
    StaleMax = 4
    FailureBackoff = 1
    FleetTtl = 1
    ProfileTimeout = 1
INVARIANTS
    ServedOnItsOwnStanding
    NoDeadTokenInFlight
PROPERTIES
    PausedStoreIsRefusedInTime
CHECK_DEADLOCK FALSE
