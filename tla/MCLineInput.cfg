SPECIFICATION Spec
CONSTANTS
    Texts <- MCTexts
    FirstBlocks <- MCFirstBlocks
    PAGE = 2
    BUFSIZ = 2
    RSIZE_MAX = 6
    SSIZE_MAX = 8
INVARIANTS TypeOK RoomForTheNext TerminalIsRestored
PROPERTIES LineHoldsWhatWasRead 
