CONSTANTS
    Refreshes = {r1, r2}
    Handoffs = {h1}
    MaxSessions = 2
    MaxKills = 1
    r1 = r1
    r2 = r2
    h1 = h1
SPECIFICATION FairSpec
INVARIANT NoSelfInflictedSignOut
PROPERTY Heals
