SPECIFICATION Spec
CONSTANTS
    d1 = d1
    MaxSessions = 1
    MaxEvents = 1
    MaxQueue = 1
    Deployment = "gateway_myriota"
    CanStop = FALSE
    Devices <- OneDevice
    Offered <- KnownOnly
    Heard <- BothHeard
CHECK_DEADLOCK FALSE
INVARIANTS
    WorkingSessionUndisturbed
    GrantedSlotIsFree
    MapWithinMax
