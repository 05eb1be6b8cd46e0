CONSTANTS
    MaxLength = 3
    MaxCount = 2
    Disciplined = TRUE
SPECIFICATION Spec
INVARIANTS
    TypeOK
    NoStaleUse
    HandleTellsStream
    StatusMatchesOutcome
PROPERTY
    KeepsHandlePromise
