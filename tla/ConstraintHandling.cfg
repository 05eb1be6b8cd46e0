CONSTANTS
    Threads = {t1, t2}
    BuildDefault = "ERR_ABORT"
CHECK_DEADLOCK FALSE
SPECIFICATION Spec
INVARIANTS
    TypeOK
    ChosenHandlerIsInstalled
    NoAbortUnlessChosen
