SPECIFICATION FairSpec
CONSTANTS
    p1 = p1
    p2 = p2
    windowSize = 3
    nFullTiles = 8
    ksymbols = 7
    payloadTiles = 2
    Packets <- OnePacket
    NoPacket = NoPacket
    MaxLoss = 4
CHECK_DEADLOCK FALSE
PROPERTIES
    DeliverySpec
    RecoveryConfirms
    CleanLinkConfirms
