SPECIFICATION FairSpec
CONSTANTS
    RebootDropThreshold = 1
    Slots = {"S1"}
    Areas = {"A1"}
    Policy = "HALL"
    HallFrames <- ShortStay
    CameraEvents <- Tracks
    HallConfirm = 1
    ExitConfirm = 1
    CorrelationWindow = 2
    RetryDelay = 1
    Retention = 1
    PendingCapacity = 2
    MaxTime = 2
    TransportCapacity = 2
    MaxSubmissions = 2
    LastInputTime = 1
    MaxFaults = 1
    MaxStops = 1
    MaxStarts = 2
INVARIANTS ContradictedIsCanceled StoppedIsHeard
PROPERTIES LedgerSpec StopCompletes EveryRowSettles
CHECK_DEADLOCK FALSE
