CONSTANTS
    Procs = {p1, p2}
    Tenants = {t1}
    MaxVer = 2
    MaxInvalidations = 1
    NestedLock = FALSE
SPECIFICATION Spec
PROPERTIES ShutdownSilencesWatchers
CHECK_DEADLOCK FALSE
