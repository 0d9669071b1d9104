CONSTANTS
    Procs = {p1, p2}
    Tenants = {t1}
    MaxVer = 2
    MaxInvalidations = 1
    NestedLock = FALSE
SPECIFICATION Spec
INVARIANTS FreshLoadAfterInvalidate
CHECK_DEADLOCK FALSE
