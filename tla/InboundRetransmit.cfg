SPECIFICATION HeldSpec
CONSTANTS
    m0 = m0
    m1 = m1
    m2 = m2
    m3 = m3
    m4 = m4
    Msgs <- FiveMsgs
    QoS <- QoS01222
    Rejected <- NoneRejected
    PacketIds = {1, 2, 3}
    MaxInflight = 1
    PendingCap = 1
    V5 = FALSE
    MaxRetries = 2
    MaxReconnects = 0
INVARIANTS
    WindowSafe
    NoIdleDeferral
PROPERTIES
    KeepsContractOnce
CHECK_DEADLOCK FALSE
