\* Two documents with an attachment each, two runs, a capture by the server.
CONSTANTS
    Stores = {main, other}
    Main = main
    Docs = {d1, d2}
    NoDoc = NoDoc
    Attachments = {a}
    Absent = Absent
    Empty = Empty
    Captures = {k1}
    MaxRuns = 2
SPECIFICATION Spec
INVARIANTS
    TypeOK
    DoneMeansImported
PROPERTIES
    PublishedWhole
    GitKeeps
    HalfMadeIsPermanent
    ImportEnds
CHECK_DEADLOCK FALSE
