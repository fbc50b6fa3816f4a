SPECIFICATION Spec
CONSTANTS
    p1 = p1
    p2 = p2
    windowSize = 2
    nFullTiles = 4
    ksymbols = 3
    payloadTiles = 1
    Packets <- TwoPackets
    NoPacket = NoPacket
    MaxLoss = 5
CHECK_DEADLOCK FALSE
INVARIANTS
    TypeOK
    TilesInPlace
    AgainPending
