SPECIFICATION FairSpec
CONSTANTS
    d1 = d1
    MaxSessions = 1
    MaxEvents = 1
    MaxQueue = 1
    Deployment = "node_lorawan"
    CanStop = TRUE
    Devices <- OneDevice
    Offered <- Nobody
    Heard <- DownlinkHeard
CHECK_DEADLOCK FALSE
PROPERTIES
    CleanerExits
