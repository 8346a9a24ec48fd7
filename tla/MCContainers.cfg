SPECIFICATION FairSpec
CONSTANTS
    c1 = c1
    c2 = c2
    c3 = c3
    d1 = d1
    Creates = {c1, c2, c3}
    Dispatches = {d1}
    SeqSize = 2
    Busy <- MCBusy
    ArgSets <- MCArgSets
    Target <- MCTarget
    None = None
INVARIANTS
    RootIntact
    CleanedUp
PROPERTIES
    ImplementsContainerLife
    ContainerEnds
CHECK_DEADLOCK FALSE
