SPECIFICATION FairSpec
CONSTANTS
    Procs = {p1, p2}
    Nil = Nil
PROPERTIES
    ExitNoticed
CHECK_DEADLOCK FALSE
