CONSTANTS
    Tasks = {t1, t2}
    Flushers = {f1, f2}
    Capacity = 1
    MaxRecords = 2
    NoOne = none
SPECIFICATION CallerFairSpec
INVARIANTS
    DrainedMeansWritten
    PendingBoundsTheLoss
PROPERTY
    LogKeepsMoving
CHECK_DEADLOCK FALSE
