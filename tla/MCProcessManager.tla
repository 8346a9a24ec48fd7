--------------------------- MODULE MCProcessManager ---------------------------
(***************************************************************************)
(* Small instances of ProcessManager.  Each scenario names its commands    *)
(* and gives every command its fields; the cfg of a run picks a scenario.  *)
(***************************************************************************)
EXTENDS ProcessManager

\* [set -> default], changed on some arguments.
With(set, default, changes) ==
    [c \in set |-> IF c \in DOMAIN changes THEN changes[c] ELSE default]

\* Every command has an id of its own, or none of them kills.
OwnIds  == [c \in Cmds |-> c]
NoKills == [c \in Cmds |-> NoKill]

\* Jobs: a queued service with a time limit that is restarted, another command of its
\* queue, a command nobody knows, a kill of the service, and a direct killall with the id
\* of the service, so that one may be refused, which names the queue as well.
JobCmds   == {"svc", "a", "x", "k", "d"}
JobQueues == With(JobCmds, "qa", [x |-> NoQueue, k |-> NoQueue])
JobIds    == With(JobCmds, "svc", [a |-> "a", x |-> "x", k |-> "k"])
JobKills  == With(JobCmds, NoKill, [k |-> "svc", d |-> KillAll])

\* Killall: an ordinary command next to a killall.
KillallCmds   == {"u", "all"}
KillallQueues == [c \in KillallCmds |-> NoQueue]
KillallKills  == With(KillallCmds, NoKill, [all |-> KillAll])

\* Small: two commands without a queue, of the same queue, or of two queues.
TwoPlainCmds   == {"u1", "u2"}
TwoPlainQueues == [c \in TwoPlainCmds |-> NoQueue]
TwoQueuedCmds   == {"a1", "a2"}
TwoQueuedQueues == [c \in TwoQueuedCmds |-> "qa"]
TwoQueuesCmds   == {"a", "b"}
TwoQueuesQueues == [a |-> "qa", b |-> "qb"]
=============================================================================
