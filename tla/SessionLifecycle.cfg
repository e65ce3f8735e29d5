CONSTANTS
    c1 = c1
    c2 = c2
    c3 = c3
    None = None
    Conns = {c1, c2, c3}
    Filters = {f1}
    CleanStart = {c2}
    Clean = {c2}
    WillDelay = {c1}
    BadKeepAlive = {c3}
    MaxTimeouts = 1
SPECIFICATION Spec
INVARIANTS
    RunningIsRegistered
    RecordedIsRouted
    NoDeadPeer
    
    KickPending
CHECK_DEADLOCK FALSE
