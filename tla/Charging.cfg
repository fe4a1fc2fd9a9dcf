SPECIFICATION Spec
CONSTANTS
    PeriodDays = 2
    GraceDays = 1
    RetryDays <- MCRetryDays
    PendingTimeout = 1
    Nil = Nil
    Workers = {w1, w2}
    Requests = {r1}
    Reconciler = rec
    Store = "postgres"
    Provider = "fake"
    PendingNotices = TRUE
    RedeliveryDays = 0
    MaxTime = 3
    MaxCharges = 2
SYMMETRY MCWorkerSymmetry
INVARIANTS
    OneCallPerKey
    ChargeInFlightHasItsRow
    PaidIsServedWhileLive
PROPERTIES
    NothingPreparedAfterCancel
CHECK_DEADLOCK FALSE
