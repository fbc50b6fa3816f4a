SPECIFICATION Spec
CONSTANTS
    p1 = p1
    p2 = p2
    windowSize = 3
    nFullTiles = 5
    ksymbols = 4
    payloadTiles = 2
    Packets <- TwoPackets
    NoPacket = NoPacket
    MaxLoss = 0
CHECK_DEADLOCK FALSE
INVARIANTS
    ConfirmedMeansDelivered
