\* Files of up to five bytes in chunks of two, without failures.
CONSTANTS
    MaxSize = 5
    ChunkSize = 2
    MaxFaults = 0
SPECIFICATION Spec
INVARIANTS
    DocumentWhole
CHECK_DEADLOCK FALSE
