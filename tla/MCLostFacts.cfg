SPECIFICATION FairAlarmSpec
CONSTANTS
    RebootDropThreshold = 1
    Signals <- FireOnly
    QueueCapacity = 2
    ChannelCount = 1
    MaxCommands = 1
    Channels = {"F1"}
    Publishers = {}
    FactCapacity = 12
    MaxRevision = 2
    FailingPhases = {"facts"}
    MaxEpoch = 3
    MaxFaults = 2
    MaxRestarts = 0
PROPERTIES FreshEpochResynchronizes
CHECK_DEADLOCK FALSE
