\* One edit, up to three jobs at a time, a failure to embed, hashes read at the
\* wrong time twice.
CONSTANTS
    Jobs = {j1, j2, j3}
    Nobody = Nobody
    MaxEdits = 1
    MaxBad = 1
    MaxFaults = 1
    MaxUnlucky = 2
SPECIFICATION FairSpec
INVARIANTS
    TypeOK
    QuietIsBuilt
PROPERTIES
    NeverOlder
    EventuallyBuilt
CHECK_DEADLOCK FALSE
