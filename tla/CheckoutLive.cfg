CONSTANTS
    p1 = p1
    r1 = r1
    Phones = {p1}
    Requests = {r1}
    NoSub = 0
    Store = "memory"
    NoticeNames = "ref"
    PendingTimeout = 1
    MaxWait = 2
    MaxTries = 1
    MaxCheckouts = 2
    LastStart = 0
    MaxTime = 2
SPECIFICATION FairSpec
PROPERTIES PendingEnds PaidIsNoticed
CHECK_DEADLOCK FALSE
