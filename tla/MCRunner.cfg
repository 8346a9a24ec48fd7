SPECIFICATION FairSpec
CONSTANTS
    Commands <- AllCommands
    Killers = {k1, k2}
    Waiters = {w1, w2}
    MaxStarts = 5
PROPERTIES
    RetriesBounded
    KilledNotRestarted
    OneProcess
    ImplementsJobLife
    Finishes
    WaitersReturn
CHECK_DEADLOCK FALSE
