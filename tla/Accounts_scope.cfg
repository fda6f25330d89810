\* One request at a time.
CONSTANTS
    Reqs = {r1}
    Users = {u1}
    Nobody = Nobody
    Keys = {k1}
    NoKey = NoKey
    Scope = Scope
    NoScope = NoScope
    Absent = Absent
    Unreadable = Unreadable
    MaxRestarts = 0
    MaxFaults = 0
SPECIFICATION Spec
INVARIANTS
    MadeForUse
CHECK_DEADLOCK FALSE
