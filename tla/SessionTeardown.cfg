CONSTANTS
    c1 = c1
    c2 = c2
    c3 = c3
    None = None
    Conns = {c1, c2}
    Filters = {f1}
    CleanStart = {c1, c2}
    Clean = {c1, c2}
    WillDelay = {}
    BadKeepAlive = {}
    MaxTimeouts = 0
SPECIFICATION Spec
INVARIANT TeardownAlone
CHECK_DEADLOCK FALSE
