CONSTANTS
    r1 = r1
    r2 = r2
    r3 = r3
    Requests = {r1, r2, r3}
    NoRequest = NoRequest
    TTL = 2
    WaitSteps = 2
    MaxCompute = 2
    MaxTime = 5
SPECIFICATION FairSpec
INVARIANTS OneAtATime EffectOnce
PROPERTIES ImplementsRegister RequestsEnd
CHECK_DEADLOCK FALSE
