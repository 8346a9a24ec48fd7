SPECIFICATION Spec
CONSTANTS
    Services = {x, y, z}
    Keywords = {"init", "net"}
    Unknown = ghost
    MaxAfter = 2
    MaxParts = 3
    cmdGetMsgsDefaultLimit = 2
SYMMETRY ServiceSymmetry
INVARIANTS
    TreeExact
    InputsExact
CHECK_DEADLOCK FALSE
