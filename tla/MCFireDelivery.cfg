SPECIFICATION Spec
CONSTANTS
    Channels = {F1, F2}
    Publishers = {"P1"}
    FactCapacity = 2
    MaxRevision = 2
    FailingPhases = {"facts", "list", "tell", "idle"}
    MaxEpoch = 2
    MaxFaults = 1
    MaxRestarts = 1
INVARIANTS DrainedMutation ReadyIsCurrent IdleIsDelivered
PROPERTIES RegularComesLast ReleaseFollowsSync ChannelSpec
SYMMETRY Symmetry
CONSTRAINT OneMishap
CHECK_DEADLOCK FALSE
