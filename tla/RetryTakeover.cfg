SPECIFICATION ScenarioSpec
CONSTANTS
    m0 = m0
    m1 = m1
    m2 = m2
    m3 = m3
    m4 = m4
    m5 = m5
    Msgs <- SixMsgs
    QoS <- QoS011122
    Expiring <- OneExpiring
    MaxInflight = 2
    QueueCap = 2
    MaxPid = 9
    MaxRetries = 2
    MaxTakeovers = 1
SYMMETRY Alike
INVARIANTS
    RetryLosesNothing
    BoundUpToQoS1
PROPERTIES
    PacketIdKept
CHECK_DEADLOCK FALSE
