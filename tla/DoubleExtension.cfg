SPECIFICATION Spec
CONSTANTS
    PeriodDays = 2
    GraceDays = 1
    RetryDays <- MCRetryDays
    PendingTimeout = 1
    Nil = Nil
    Workers = {w1}
    Requests = {r1}
    Reconciler = rec
    Store = "postgres"
    Provider = "mixplat"
    PendingNotices = FALSE
    RedeliveryDays = 1
    MaxTime = 4
    MaxCharges = 2
INVARIANTS
    GivenAtMostOnce
CHECK_DEADLOCK FALSE
