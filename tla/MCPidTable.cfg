SPECIFICATION FairSpec
CONSTANTS
    Procs = {p1, p2, p3}
    Nil = Nil
INVARIANTS
    ChannelThere
PROPERTIES
    ReapedReported
CHECK_DEADLOCK FALSE
