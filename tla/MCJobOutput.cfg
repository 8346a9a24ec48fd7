SPECIFICATION FairSpec
CONSTANTS
    Keys <- MCKeys
    NoMsg = NoMsg
    MaxFlushes = 1
    Scripts <- MCScripts
    Gauges <- MCGauges
    StreamBufferSize = 1
INVARIANTS
    ExitStateTrue
    OutputInOrder
    OutputComplete
    ResultExact
    CountersConserved
PROPERTIES
    JobEnds
CHECK_DEADLOCK FALSE
