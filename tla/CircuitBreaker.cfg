SPECIFICATION FairBreaker
CONSTANTS
    Callers = {c1, c2, c3}
    Threshold = 3
    Cooldown = 2
    MaxCooldown = 5
INVARIANTS
    OneProbe
    OpenIsEarned
PROPERTIES
    ProbesAreSpaced
    ClosesAgain
