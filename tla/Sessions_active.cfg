\* One request at a time and Prune, while time goes by.
CONSTANTS
    Paces = {"serial"}
    Reqs = {r1}
    Janitor = janitor
    Browsers = {b1}
    Nobody = Nobody
    Ids = {i1, i2}
    NoId = NoId
    Absent = Absent
    Unreadable = Unreadable
    MaxDuration = 2
    Lifetime = 1
    MaxTime = 3
    MaxPrunes = 1
    MaxRestarts = 0
    MaxFaults = 0
SYMMETRY MCSymmetry
SPECIFICATION Spec
INVARIANTS
    ActiveKept
CHECK_DEADLOCK FALSE
