CONSTANTS
    p1 = p1
    p2 = p2
    r1 = r1
    r2 = r2
    Phones = {p1, p2}
    Requests = {r1, r2}
    NoSub = 0
    Store = "memory"
    NoticeNames = "key"
    PendingTimeout = 1
    MaxWait = 2
    MaxTries = 1
    MaxCheckouts = 3
    LastStart = 1
    MaxTime = 2
SPECIFICATION Spec
INVARIANTS OnePayingPerNumber PendingHasOpenPayment
PROPERTY KeptOnceMoneyMoved
SYMMETRY Symmetry
CHECK_DEADLOCK FALSE
