CONSTANTS
    a = a
    b = b
    Streams = {a, b}
    SlotCount = 1
    EventBuffer = 1
    Budgets <- LongAndShort
    MaxBudget = 3
SPECIFICATION SlotFairSpec
INVARIANTS
    TerminalMeansWhole
    DepartedCostsAtMostOneToken
    ComputeStaysNearTheReader
PROPERTIES
    EveryStreamEnds
CHECK_DEADLOCK FALSE
