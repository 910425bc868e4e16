CONSTANTS
    Slots = {s1, s2}
    Handles = {h1, h2}
    Jobs = {j1, j2, j3}
    QueueDepth = 2
    NoJob = none
SPECIFICATION FairSpec
INVARIANTS
    AdmissionIsBounded
    NoLostWakeup
PROPERTIES
    PoolServes
    AcceptedJobsComplete
CHECK_DEADLOCK FALSE
