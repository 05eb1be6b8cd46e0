CONSTANTS
    root = root
    d = d
    e = e
    l = l
    x = x
    y = y
    Dirs = {root, d, e}
    Links = {l}
    Root = root
    NoInode = NoInode
    Names = {x, y}
    Paths <- MCPaths
    Targets <- MCTargets
    Trees <- MCTrees
    Owners <- MCOwners
    MaxSymlinks = 1
    KernelLinks = 2
SPECIFICATION Spec
CHECK_DEADLOCK FALSE
INVARIANTS
    TypeOK
    AcceptedPathIsProtected
    RecursionIsBounded
PROPERTIES
    AcceptedPathStaysPut
    WalkEnds
