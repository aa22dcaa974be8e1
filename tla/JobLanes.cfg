SPECIFICATION JobSpec
CONSTANTS
    Turns = {t1, t2}
    Wordings = {w1, w2}
    LastDay = 1
    MaxOrders = 1
    None = None
    Unread = Unread
    Leases = {l1, l2}
    Threads = {"a", "b"}
    Jobs <- EveryJob
    ScanLimit = 1
    MaxPromises = 2
SYMMETRY Alike
INVARIANTS CardIsWarranted NoInventedDate PaidWhereOwed NoDebtDropped
CHECK_DEADLOCK FALSE
