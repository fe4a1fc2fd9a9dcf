SPECIFICATION Spec
CONSTANTS
    PeriodDays = 3
    GraceDays = 2
    RetryDays <- MCRetryDays
    PendingTimeout = 1
    Nil = Nil
    MaxTime = 8
    MaxRow = 2
INVARIANTS
    LapsedOnlyAfterThePaidPeriod
    ChargedOncePerKey
PROPERTIES
    CancelIsFinal
    PeriodsDoNotOverlap
CHECK_DEADLOCK FALSE
