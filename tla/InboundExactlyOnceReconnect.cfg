SPECIFICATION Spec
CONSTANTS
    m0 = m0
    m1 = m1
    m2 = m2
    m3 = m3
    m4 = m4
    Msgs <- FourMsgs
    QoS <- QoS1222
    Rejected <- NoneRejected
    PacketIds = {1, 2}
    MaxInflight = 1
    PendingCap = 2
    V5 = FALSE
    MaxRetries = 0
    MaxReconnects = 1
INVARIANTS
    ExactlyOnce
CHECK_DEADLOCK FALSE
