\* Two requests at a time, of two users, a restart, a failing write.
CONSTANTS
    Reqs = {r1, r2}
    Users = {u1, u2}
    Nobody = Nobody
    Keys = {k1}
    NoKey = NoKey
    Scope = Scope
    NoScope = NoScope
    Absent = Absent
    Unreadable = Unreadable
    MaxRestarts = 1
    MaxFaults = 1
SYMMETRY MCSymmetry
SPECIFICATION Spec
INVARIANTS
    TypeOK
    RevokedRefused
PROPERTIES
    GivenWorks
CHECK_DEADLOCK FALSE
