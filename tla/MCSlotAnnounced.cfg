SPECIFICATION FairSpec
CONSTANTS
    Nil = Nil
    NoQueue = NoQueue
    NoKill = NoKill
    KillAll = KillAll
    Cmds <- TwoPlainCmds
    Queues = {"qa"}
    QueueOf <- TwoPlainQueues
    Ids <- TwoPlainCmds
    IdOf <- OwnIds
    Known <- TwoPlainCmds
    Direct = {}
    Restarting = {}
    Timed = {}
    KillOf <- NoKills
    Sinks = {s1}
    MaxJobs = 1
PROPERTIES
    UnqueuedAnswered
CHECK_DEADLOCK FALSE
