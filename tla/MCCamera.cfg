SPECIFICATION FairSpec
CONSTANTS
    RebootDropThreshold = 1
    Slots = {"S1", "S2"}
    Areas = {"A1", "A2"}
    Policy = "CAMERA_IVA"
    HallFrames <- NoHallFrames
    CameraEvents <- TwoStays
    HallConfirm = 1
    ExitConfirm = 1
    CorrelationWindow = 2
    RetryDelay = 1
    Retention = 0
    PendingCapacity = 4
    MaxTime = 2
    TransportCapacity = 2
    MaxSubmissions = 4
    LastInputTime = 0
    MaxFaults = 0
    MaxStops = 0
    MaxStarts = 1
INVARIANTS TypeOK DeadlineHasOneOwner
PROPERTIES ExitIsDecided NoEndWhileHeld
CHECK_DEADLOCK FALSE
