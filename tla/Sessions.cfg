\* The requests of one browser after each other, with Prune and a failing write,
\* while time goes by; or those of two browsers racing.  A restart in either case.
CONSTANTS
    Paces = {"serial", "racing"}
    Reqs = {r1, r2}
    Janitor = janitor
    Browsers = {b1, b2}
    Nobody = Nobody
    Ids = {i1, i2}
    NoId = NoId
    Absent = Absent
    Unreadable = Unreadable
    MaxDuration = 2
    Lifetime = 1
    MaxTime = 3
    MaxPrunes = 1
    MaxRestarts = 1
    MaxFaults = 1
SYMMETRY MCSymmetry
SPECIFICATION Spec
INVARIANTS
    TypeOK
    AnonymousKept
    OwnSession
    UnreadableOnlyMidSave
PROPERTIES
    LogoutHolds
    LoginSurvives
CHECK_DEADLOCK FALSE
