SPECIFICATION FairSpec
CONSTANTS
    PeriodDays = 1
    GraceDays = 1
    RetryDays <- MCRetryDays
    PendingTimeout = 1
    Nil = Nil
    Workers = {w1}
    Requests = {r1}
    Reconciler = rec
    Store = "memory"
    Provider = "mixplat"
    PendingNotices = FALSE
    RedeliveryDays = 1
    MaxTime = 2
    MaxCharges = 2
PROPERTIES
    PendingIsResolved
    OwnRowSettlesOnce
    ImplementsLedger
CHECK_DEADLOCK FALSE
