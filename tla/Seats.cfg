CONSTANTS
    p1 = p1
    p2 = p2
    p3 = p3
    s1 = s1
    s2 = s2
    c1 = c1
    c2 = c2
    Phones = {p1, p2, p3}
    Subs = {s1, s2}
    Codes = {c1, c2}
    r1 = r1
    r2 = r2
    Tasks = {r1, r2}
    NoSub = NoSub
    Partner = Partner
    PlanSeats <- TwoSeats
    Store = "postgres"
SPECIFICATION SeatsSpec
INVARIANTS SeatsWithinPlan CodeServesOne
PROPERTIES JoinsOnlyLive SeatIsKept ImplementsGuestList
SYMMETRY Symmetry
CHECK_DEADLOCK FALSE
