SPECIFICATION Spec
CONSTANTS
    d1 = d1
    MaxSessions = 1
    MaxEvents = 1
    MaxQueue = 1
    Deployment = "gateway_lorawan"
    CanStop = FALSE
    Devices <- OneDevice
    Offered <- KnownAndForeign
    Heard <- DownlinkHeard
CHECK_DEADLOCK FALSE
INVARIANTS
    CounterMatchesMap
PROPERTIES
    PoolSpec
