CONSTANTS
    Hosts = {h1, h2}
    Guess = {h2}
    Tabs = {t1, t2}
    Links = {l1}
    Blocks = {b1, b2}
    MaxVisits = 2
    MaxLinks = 1
    MaxLapses = 1
    MaxFaults = 1
    h1 = h1
    h2 = h2
    t1 = t1
    t2 = t2
    l1 = l1
    b1 = b1
    b2 = b2
SYMMETRY Symmetry
SPECIFICATION Spec
INVARIANTS FamilyHearsConfirmed BlocksCountedOnce DangerIsBlocked
PROPERTY LinksWaitOutThePause
CHECK_DEADLOCK FALSE
