CONSTANTS
    Pods = {p1, p2}
    Requests = {r1, r2}
    Orgs = {o1}
    Limits = {1, 2}
    Windows = {1, 4}
    Timeout = 1
    MaxBoots = 2
    MaxClock = 4
    NoPod = NoPod
    NoConfig = NoConfig
    Calls = {r1, r2}
    Tenants = {t1, t2}
    Limit = 2
    Window = 3
    MaxLag = 1
    MaxInstant = 5
    Absent = absent
SPECIFICATION OrgSpec
SYMMETRY Symmetry
INVARIANTS
    AnswersAreTrue
    BurstIsBounded
PROPERTIES
    LimitIsTheDeployments
    RefusalIsEarned
CHECK_DEADLOCK FALSE
