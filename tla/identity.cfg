CONSTANTS
    Procs = {serve, cli}
    Principals = {p1, p2}
    Orgs = {o}
    Tokens = {t1, t2}
    MaxSpan = 1
    MaxClock = 1
    NoOne = none
    NoRow = norow
    Never = never
    Unminted = unminted
    Dead = dead
SPECIFICATION Spec
SYMMETRY Symmetry
PROPERTIES
    WorthIsKept
    RotationNeverExtends
CHECK_DEADLOCK FALSE
