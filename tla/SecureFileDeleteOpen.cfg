CONSTANTS
    h1 = h1
    h2 = h2
    a = a
    f1 = f1
    f2 = f2
    o1 = o1
    Names = {a}
    Inodes = {f1, f2}
    Regular = {f1, f2}
    Owners = {o1}
    NoInode = NoInode
    Handles = {h1, h2}
    Requests <- MCRequests
    NoAttributes = NoAttributes
    NoRequest = NoRequest
SPECIFICATION SystemSpec
PROPERTY
    FailIfOpenKeepsOpenFile
