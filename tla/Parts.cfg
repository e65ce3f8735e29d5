CONSTANTS
    m1 = m1
    m2 = m2
    m3 = m3
    c1 = c1
    c2 = c2
    c3 = c3
    Messages = {m1, m2, m3}
    Interval <- SomeIntervals
    Second = 2
    Capacity = 2
    Immediate = TRUE
    MaxTime = 6
    Callers = {c1, c2}
    FailureThreshold = 2
    ResetTimeout = 1
    HalfOpenSuccessThreshold = 1
    MaxMillis = 3
    MaxCalls = 4
    Tasks = {c1, c2}
    Amounts = {1, 2}
    Wrap = 16
    MaxOps = 3
    Caps = {0, 1, 2}
    Burst = 1
    OutInflightCap = 1
    MaxSent = 4
    Listeners <- SomeListeners
    Connects <- SomeConnects
    MaxDelay = 2
    Topics = {"a", "b"}
    PendingCap = 1
SPECIFICATION PartsSpec
INVARIANTS
    NotEarly
    InOrder
    IndexFaithful
    StreamDecoded
    
    NothingLeft
    BreakerHolds
    
    QueueServed
    TimesKept
    TopicsResolved
    TestsScheduled
PROPERTIES
    Released
CHECK_DEADLOCK FALSE
