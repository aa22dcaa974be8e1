SPECIFICATION Spec
CONSTANTS
    Conversations = {c1}
    Stamps = {d1, d2}
    Skew = 2
    SenderAhead = 1
    SeenMax = 1
    Nobody = nobody
INVARIANTS
    MessageLostOnlyWithTheProcess
PROPERTIES
    CopyRunsOnlyIfForgotten
CHECK_DEADLOCK FALSE
