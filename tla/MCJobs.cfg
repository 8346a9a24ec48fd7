SPECIFICATION Spec
CONSTANTS
    Nil = Nil
    NoQueue = NoQueue
    NoKill = NoKill
    KillAll = KillAll
    Cmds <- JobCmds
    Queues = {"qa"}
    QueueOf <- JobQueues
    Ids = {"svc", "a", "x", "k"}
    IdOf <- JobIds
    Known = {"svc", "a", "k", "d"}
    Direct = {"d"}
    Restarting = {"svc"}
    Timed = {"svc"}
    KillOf <- JobKills
    Sinks = {s1}
    MaxJobs = 2
INVARIANTS
    SerialExecution
    QueueDriven
    FifoQueues
    RunnerTableExact
    JobsBounded
CHECK_DEADLOCK FALSE
