\* Git store: three captures of one page, without attachments from other
\* sites, every interleaving.
CONSTANTS
    Captures = {c1, c2, c3}
    Keys = {page}
    Docs = {d1, d2}
    NoDoc = NoDoc
    Backends = {"git"}
    Remote = {}
    MaxTroubles = 0
SYMMETRY MCSymmetry
SPECIFICATION Spec
INVARIANTS
    AckedPublished
PROPERTIES
    NoNeedlessDuplicate
CHECK_DEADLOCK FALSE
