CONSTANTS
    Processes = {i1, i2}
    Storable = {a}
    Unstorable = {u}
    Anonymous = {n}
    Torn = Torn
    NoLine = NoLine
    NoProcess = NoProcess
    INGEST_BATCH_LINES = 2
    Versions = {0, 1, 2, 3}
    MaxLines = 3
    MaxPasses = 2
SPECIFICATION Spec
SYMMETRY Symmetry
INVARIANTS
    FinishedPassIsComplete
    EachRowIsClaimedOnce
    UpgradesAreSerial
CHECK_DEADLOCK FALSE
