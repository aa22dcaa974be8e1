\* Three deliveries of a chat decision under two keys, two codes each, with two faults.
SPECIFICATION Spec
CONSTANTS
    Deliveries = {d1, d2, d3}
    Keys = {k1, k2}
    Tries = 2
    MaxTimes = 2
    MaxFaults = 2
    NoCode = NoCode
    NoDelivery = NoDelivery
INVARIANTS OneCouponPerNegotiation ToldAsRecorded OpenedByOne
CHECK_DEADLOCK FALSE
