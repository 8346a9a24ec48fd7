-------------------------------- MODULE JobLife --------------------------------
(***************************************************************************)
(* What a Runner promises to the rest of the agent (the comments and the   *)
(* callers of base/pm/runner.go): a job is answered exactly once, the      *)
(* answer does not change afterwards, a job that accepted a kill is        *)
(* answered KILLED and no other job is, and the job leaves the process     *)
(* manager only after it was answered.                                     *)
(***************************************************************************)
VARIABLES phase,       \* "live", "answered" or "gone"
          killed,      \* "yes" once a kill was accepted
          answer       \* the state the answer carries, "none" before

lifeVars == <<phase, killed, answer>>

LifeInit == phase = "live" /\ killed = "no" /\ answer = "none"

AcceptKill == /\ phase = "live" /\ killed = "no"
              /\ killed' = "yes"
              /\ UNCHANGED <<phase, answer>>

Answer == /\ phase = "live"
          /\ phase' = "answered"
          /\ answer' \in IF killed = "yes" THEN {"KILLED"}
                         ELSE {"SUCCESS", "ERROR", "TIMEOUT"}
          /\ UNCHANGED killed

Leave == /\ phase = "answered"
         /\ phase' = "gone"
         /\ UNCHANGED <<killed, answer>>

LifeNext == AcceptKill \/ Answer \/ Leave

LifeSpec == LifeInit /\ [][LifeNext]_lifeVars
=============================================================================
