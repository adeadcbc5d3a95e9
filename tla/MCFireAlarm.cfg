SPECIFICATION AlarmSpec
CONSTANTS
    RebootDropThreshold = 1
    Signals <- FireAndEnd
    QueueCapacity = 2
    ChannelCount = 1
    MaxCommands = 2
    Channels = {"F1"}
    Publishers = {"P1"}
    FactCapacity = 2
    MaxRevision = 3
    FailingPhases = {"list"}
    MaxEpoch = 1
    MaxFaults = 1
    MaxRestarts = 1
INVARIANTS AlarmTypeOK CommandsInOrder AlarmFollowsSensor
PROPERTIES AckOnlyShown
CHECK_DEADLOCK FALSE
