SPECIFICATION FairAlarmSpec
CONSTANTS
    RebootDropThreshold = 1
    Signals <- FireOnly
    QueueCapacity = 2
    ChannelCount = 1
    MaxCommands = 2
    Channels = {"F1"}
    Publishers = {}
    FactCapacity = 6
    MaxRevision = 2
    FailingPhases = {"list"}
    MaxEpoch = 2
    MaxFaults = 1
    MaxRestarts = 0
PROPERTIES AlarmsSettle
CHECK_DEADLOCK FALSE
