CONSTANTS
    Threads = {t1, t2}
    BuildDefault = "ERR_WARN"
CHECK_DEADLOCK FALSE
SPECIFICATION Spec
INVARIANT
    DefaultIsTheBuilds
