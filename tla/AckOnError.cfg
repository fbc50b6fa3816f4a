SPECIFICATION FairSpec
CONSTANTS
    windowSize = 3
    payloadTiles = 2
    maxAckReq = 1
    Sizes <- PacketSizes
    Mechanisms <- AllMechanisms
    MaxAcks = 2
CHECK_DEADLOCK FALSE
INVARIANTS
    TypeOK
    WaitGuarded
    FragmentsInPlace
    WaitingHasSent
    InTurnAcksSafe
PROPERTIES
    SessionEnds
