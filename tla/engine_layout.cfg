CONSTANTS
    MaxU64 = 1000000
    MaxU32 = 10000
    GrowChunk = 2
    EOG_MARKER_TEXTS <- MCMarkers
    BeginText <- MCBegin
    EndText <- MCEnd
    EotText <- MCEot
    InstText <- MCInst
    EndInstText <- MCEndInst
    Files <- MCFiles
    Texts <- MCTexts
    Continued <- MCContinued
    Budgets <- MCBudgets
    Sampled <- MCSampled
    Halves <- MCHalves
SPECIFICATION EngineSpec
INVARIANT
    SupportedTypesLoad
