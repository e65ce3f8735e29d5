SPECIFICATION ProgressSpec
CONSTANTS
    m1 = m1
    m2 = m2
    m3 = m3
    m4 = m4
    Msgs <- FourMsgs
    QoS <- QoS1222
    Rejected <- LastRejected
    PacketIds = {1, 2}
    MaxInflight = 1
    PendingCap = 2
    V5 = TRUE
    MaxRetries = 0
    MaxReconnects = 1
INVARIANTS
    
    BenchAccounted
PROPERTIES
    KeepsContract
    FlowsEnd
    EventuallySettled
    
CHECK_DEADLOCK FALSE
