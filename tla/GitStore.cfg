\* Two transactions on one document, one file, two handlers at work on each:
\* every interleaving of clones, writes, deletions, commits and pushes.
CONSTANTS
    Docs = {d1}
    Txs = {t1, t2}
    RootFiles = {}
    Attachments = {att}
    Contents = {blank, full}
    Empty = blank
    Absent = Absent
    NoDoc = NoDoc
    MaxCommits = 1
    MaxHandlers = 2
SYMMETRY TxSymmetry
SPECIFICATION Spec
INVARIANTS
    TypeOK
    AckedSurvives
    NoLostUpdate
PROPERTIES
    ConflictIsFinal
    Transactional
CHECK_DEADLOCK FALSE
