CONSTANTS
    Requests = {r1, r2}
    MaxInFlight = 1
SPECIFICATION FairSpec
INVARIANTS
    WorkIsAdmitted
    EvidenceIsTrue
    WorkIsCharged
PROPERTIES
    EvidenceBeforeFlush
    PermitsReturn
CHECK_DEADLOCK FALSE
