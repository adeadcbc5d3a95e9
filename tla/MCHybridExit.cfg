SPECIFICATION HybridSpec
CONSTANTS
    RebootDropThreshold = 1
    Slots = {"S1"}
    Areas = {"A1"}
    Policy = "HYBRID_OR"
    HallFrames <- HybridHall
    CameraEvents <- HybridCamera
    HallConfirm = 1
    ExitConfirm = 1
    CorrelationWindow = 2
    RetryDelay = 1
    Retention = 0
    PendingCapacity = 2
    MaxTime = 5
    TransportCapacity = 2
    MaxSubmissions = 5
    LastInputTime = 3
    MaxFaults = 0
    MaxStops = 0
    MaxStarts = 1
PROPERTIES BothVacantEnds
CHECK_DEADLOCK FALSE
