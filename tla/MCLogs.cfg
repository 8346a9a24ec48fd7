SPECIFICATION MCSpec
CONSTANTS
    Cores = {"c1", "c2"}
    Core0 = Core0
    Msgs <- MCMsgs
    Scenarios <- MCScenarios
    From <- MCFrom
    CommandOf <- MCCommandOf
    NoId = NoId
    LevelOf <- MCLevelOf
    EpochOf <- MCEpochOf
    LogLevels <- MCLogLevels
    Defaults = {2}
    ChanSize = 1
    QueueSize = 1
    MaxFaults = 1
    Stats = {"s1", "s2", "s3"}
    Capacity = 2
    MaxOutages = 1
INVARIANTS
    Conserved
    ListBounded
    OneLossPerFault
    StatsConserved
PROPERTIES
    LogsFlow
CHECK_DEADLOCK FALSE
