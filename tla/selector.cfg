CONSTANTS
    r1 = r1
    r2 = r2
    r3 = r3
    r4 = r4
    o1 = o1
    o2 = o2
    o3 = o3
    Requests = {r1, r2, r3, r4}
    Orgs = {o1, o2, o3}
    OrgOf <- TwoOneOne
    MaxConcurrent = 2
    OrgLimit <- HalfOfTwo
    AcquireTimeout = 1
    ReadTimeout = 1
    Global = global
    NoSlot = none
SPECIFICATION FairSpec
INVARIANTS
    SharesAreKept
    WaitIsOneBudget
PROPERTIES
    NobodyIsShedForAnother
    EveryRequestIsAnswered
CHECK_DEADLOCK FALSE
