SPECIFICATION FairSpec
CONSTANTS
    Nil = Nil
    NoQueue = NoQueue
    NoKill = NoKill
    KillAll = KillAll
    Cmds <- TwoQueuesCmds
    Queues = {"qa", "qb"}
    QueueOf <- TwoQueuesQueues
    Ids <- TwoQueuesCmds
    IdOf <- OwnIds
    Known <- TwoQueuesCmds
    Direct = {}
    Restarting = {}
    Timed = {}
    KillOf <- NoKills
    Sinks = {s1}
    MaxJobs = 1
PROPERTIES
    NotifyReturns
CHECK_DEADLOCK FALSE
