\* One browser with two tabs, two documents, one of them with an ID that begins with 0,
\* a home page of one document, a restart and a capture.
CONSTANTS
    Tabs = {t1, t2}
    User = user
    Others = {other}
    Nobody = Nobody
    plain = plain
    zero = zero
    Docs <- MCDocs
    Digits <- MCDigits
    Width = 2
    Blank = Blank
    NoCookie = NoCookie
    Limit = 1
    MaxRestarts = 1
    MaxCaptures = 1
SYMMETRY MCSymmetry
SPECIFICATION Spec
INVARIANTS
    TypeOK
    CallbackJudged
    HomeComplete
PROPERTIES
    ListedShown
CHECK_DEADLOCK FALSE
