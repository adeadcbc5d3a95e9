SPECIFICATION FlickerSpec
CONSTANTS
    RebootDropThreshold = 1
    Slots = {"S1"}
    Areas = {"A1"}
    Policy = "HALL"
    HallFrames <- Flicker
    CameraEvents <- NoCameraEvents
    HallConfirm = 1
    ExitConfirm = 1
    CorrelationWindow = 2
    RetryDelay = 1
    Retention = 0
    PendingCapacity = 3
    MaxTime = 3
    TransportCapacity = 3
    MaxSubmissions = 3
    LastInputTime = 2
    MaxFaults = 0
    MaxStops = 0
    MaxStarts = 1
PROPERTIES SharedIsNotYetDue
CHECK_DEADLOCK FALSE
