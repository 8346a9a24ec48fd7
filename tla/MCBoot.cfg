SPECIFICATION MCSpec
CONSTANTS
    Services = {"x", "y", "z"}
    Configs <- MCConfigs
    Interfaces = {"lo", "eth0", "eth1"}
    Lo = "lo"
    NetConfigs <- MCNetConfigs
    Machines <- MCMachines
    Names = {"br", "eth0"}
    Devices = {"eth0"}
    Ops = {"o1", "o2", "o3"}
    NoOp = NoOp
    BridgeScenarios <- MCBridgeScenarios
INVARIANTS
    StartedAfterDependencies
    SlicesInOrder
    NetworkRestored
    BridgeServed
PROPERTIES
    BootEnds
CHECK_DEADLOCK FALSE
