CONSTANTS
    Callers = {c1, c2}
    Top = 13
    Places = {0, 1, 4, 6}
    PAGE = 4
    Sizes = {0, 1, 3}
    Counts = {1, 2, 16}
    Alignments = {0, 2, 3}
    SIZE_MAX = 31
SPECIFICATION Spec
INVARIANTS TypeOK HeldMemoryIsAsAsked EveryBlockIsHeldOnce
PROPERTIES GrowKeepsData
SYMMETRY CallerSymmetry
