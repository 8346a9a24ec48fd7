SPECIFICATION FairSpec
CONSTANTS
    Sinks = {"s1", "s2"}
    Local = Local
    Cmds <- MCCmds
    Traffic <- MCTraffic
    SentTo <- MCSentTo
    IdOf <- MCIds
    NoId = NoId
    Known = {"b", "c", "n", "l"}
    Malformed = {"bad"}
    Sync = {"l"}
    ReplyTo <- MCReplyTo
    NoQueue = NoQueue
    MaxJobs = 1
    MaxFaults = 1
INVARIANTS
    AtMostOnce
    AnsweredWhereAsked
    LiveIsFiled
PROPERTIES
    AnswersArrive
CHECK_DEADLOCK FALSE
