SPECIFICATION FairSpec
CONSTANTS
    d1 = d1
    MaxSessions = 1
    MaxEvents = 1
    MaxQueue = 1
    Deployment = "node_lorawan"
    CanStop = TRUE
    Devices <- OneDevice
    Offered <- KnownOnly
    Heard <- UplinkHeard
CHECK_DEADLOCK FALSE
INVARIANTS
    TypeOK
    MappedSessionsUsable
    LockDiscipline
    SenderStartsWithPacket
PROPERTIES
    DeadSessionsReaped
    PacketsAnswered
