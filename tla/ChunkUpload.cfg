\* Files of up to seven bytes in chunks of two, two failures.
CONSTANTS
    MaxSize = 7
    ChunkSize = 2
    MaxFaults = 2
SPECIFICATION FairSpec
INVARIANTS
    TypeOK
    AttachmentWhole
    InOrder
PROPERTIES
    UploadEnds
CHECK_DEADLOCK FALSE
