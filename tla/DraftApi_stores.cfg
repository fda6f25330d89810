\* Either store: two captures of one page or of two, a restart or a failing
\* store call.
CONSTANTS
    Captures = {c1, c2}
    Keys = {page, otherPage}
    Docs = {d1, d2}
    NoDoc = NoDoc
    Backends = {"git", "fs"}
    Remote = {c1, c2}
    MaxTroubles = 1
SYMMETRY MCSymmetry
SPECIFICATION Spec
INVARIANTS
    TypeOK
    PublishedComplete
    DocKeepsKey
    UndisturbedIsComplete
PROPERTIES
    TransactionalUse
    PoisonIsPermanent
CHECK_DEADLOCK FALSE
