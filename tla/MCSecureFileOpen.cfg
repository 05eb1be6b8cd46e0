CONSTANTS
    h1 = h1
    a = a
    b = b
    f1 = f1
    f2 = f2
    d1 = d1
    o1 = o1
    o2 = o2
    Names = {a, b}
    Inodes = {f1, f2, d1}
    Regular = {f1, f2}
    Owners = {o1, o2}
    NoInode = NoInode
    Handles = {h1}
    Requests <- MCRequests
    NoAttributes = NoAttributes
    NoRequest = NoRequest
SPECIFICATION Spec
INVARIANTS
    TypeOK
    OpenedAsRequested
    IdentityIsOfStream
    RefusalHoldsNothing
