---------------------------------- MODULE MCLogs ----------------------------------
(***************************************************************************)
(* Two containers and core0.  A job of one container writes twice, and a   *)
(* job of the other, whose command has the same id, at the same time as    *)
(* the first message; or a job of core0 writes along.  Jobs of core0 have  *)
(* an id or not, and commands ask for levels or leave it to the            *)
(* configuration.  Or there are no messages, and statistics are flushed:   *)
(* the two ways share nothing, so they are explored one after the other.   *)
(***************************************************************************)
EXTENDS Logs, StatsBuffer

VARIABLE part   \* which of the two is explored

MCMsgs == {"a1", "a2", "b1", "z1", "z2", "z3"}

Scenario(msgs, public) == [msgs |-> msgs, public |-> public]

MCScenarios == {Scenario({"a1", "a2", "b1"}, FALSE), Scenario({"a1", "a2"}, TRUE),
                Scenario({"b1", "z1"}, TRUE), Scenario({"z1", "z2", "z3"}, TRUE), Scenario({}, FALSE)}

MCFrom == [a1 |-> "c1", a2 |-> "c1", b1 |-> "c2", z1 |-> Core0, z2 |-> Core0, z3 |-> Core0]

MCCommandOf == [a1 |-> "x", a2 |-> "x", b1 |-> "x", z1 |-> "z", z2 |-> "z", z3 |-> NoId]

MCLevelOf == [a1 |-> 2, a2 |-> 1, b1 |-> 2, z1 |-> 2, z2 |-> 1, z3 |-> 1]

MCEpochOf == [a1 |-> 1, a2 |-> 2, b1 |-> 1, z1 |-> 1, z2 |-> 2, z3 |-> 1]

MCLogLevels == [a1 |-> {}, a2 |-> {1, 2}, b1 |-> {}, z1 |-> {}, z2 |-> {2}, z3 |-> {1}]

MCInit == LogInit /\ StatsInit /\ part \in {"logs", "stats"} /\ (part = "stats" => toLog = {})

MCNext ==
    \/ part = "logs" /\ LogNext /\ UNCHANGED <<statsVars, part>>
    \/ part = "stats" /\ StatsNext /\ UNCHANGED <<logVars, part>>

MCSpec == MCInit /\ [][MCNext]_<<logVars, statsVars, part>> /\ LogFairness
=============================================================================
