SPECIFICATION Spec
CONSTANTS
    m1 = m1
    m2 = m2
    m3 = m3
    m4 = m4
    Msgs <- ThreeMsgs
    QoS <- AllQoS2
    Expiring <- NoneExpiring
    MaxInflight = 2
    QueueCap = 2
    MaxPid = 9
    MaxRetries = 0
    MaxTakeovers = 1
PROPERTIES
    TakeoverKeeps
CHECK_DEADLOCK FALSE
