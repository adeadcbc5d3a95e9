SPECIFICATION StoreSpec
CONSTANTS
    RebootDropThreshold = 1
    Slots = {"S1"}
    Areas = {"A1"}
    Policy = "HYBRID_OR"
    HallFrames <- BothSources
    CameraEvents <- SkewedCamera
    HallConfirm = 1
    ExitConfirm = 1
    CorrelationWindow = 2
    RetryDelay = 1
    Retention = 1
    PendingCapacity = 1
    MaxTime = 2
INVARIANTS SessionInv VersionedNeverThrows BindingFollowsSession
PROPERTIES NoEndWhileHeld
CHECK_DEADLOCK FALSE
