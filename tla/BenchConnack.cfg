SPECIFICATION BenchSpec
CONSTANTS
    Connects3 <- MCConnects3
    Connects5 <- MCConnects5
    FromClient <- MCFromClient
    FromBroker <- MCFromBroker
    BenchConnects <- MCBenchConnects
    BenchPackets <- MCBenchPackets
INVARIANT BenchReadsConnack
CHECK_DEADLOCK FALSE
