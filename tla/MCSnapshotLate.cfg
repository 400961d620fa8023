SPECIFICATION FairStreamSpec
CONSTANTS
    Chunks = 3
    MaxSnaps = 1
    MaxLate = 1
    MaxFaults = 1
INVARIANTS
    SnapshotWhole
CHECK_DEADLOCK FALSE
