CONSTANTS
    Slots = {s1, s2}
    Handles = {h1, h2}
    Jobs = {j1}
    QueueDepth = 1
    NoJob = none
SPECIFICATION Spec
INVARIANT LastDropCloses
CHECK_DEADLOCK FALSE
