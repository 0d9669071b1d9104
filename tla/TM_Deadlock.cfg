CONSTANTS
    Procs = {p1, p2}
    Tenants = {t1}
    MaxVer = 2
    MaxInvalidations = 1
    NestedLock = TRUE
SPECIFICATION Spec
PROPERTIES ResolveTerminates
CHECK_DEADLOCK FALSE
