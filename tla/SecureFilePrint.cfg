CONSTANTS
    MaxLength = 2
    MaxCount = 1
    Disciplined = TRUE
SPECIFICATION Spec
INVARIANT
    ValidTextIsPrinted
