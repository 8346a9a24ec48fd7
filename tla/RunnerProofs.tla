------------------------------ MODULE RunnerProofs ------------------------------
(***************************************************************************)
(* Proofs about Runner, for every command (restart limit, recurring or     *)
(* not, with or without a time limit), any number of Kill and Wait calls.  *)
(*                                                                         *)
(* RunnerInv, the inductive invariant, ties the position of Run to the     *)
(* rest of the state: which processes can exist there (ProcInv), how many  *)
(* runs were counted (StartsInv), which states a result can have           *)
(* (StateInv), and when the result was handed out (ResultInv).             *)
(***************************************************************************)
EXTENDS Runner, TLAPS

\* A process exists only between process.Run and the end of the drain, and inside
\* the select loop it has yet to send its exit message.
ProcInv == /\ pc = "select" => proc \in {"alive", "exited"}
           /\ pc = "drain" => proc # "none"
           /\ pc \notin {"select", "drain"} => proc = "none"

Deciding == {"select", "drain", "exit", "unspawned"}

\* Without a recurring period, every start but the one in progress was counted, and
\* the next one follows a failure.
StartsInv ==
    cmd.recurring = "no" =>
        /\ pc \in {"start", "sleep"} => starts = runs /\ (runs = 0 \/ runs < cmd.maxRestart)
        /\ pc \in Deciding => starts = runs + 1 /\ (runs = 0 \/ runs < cmd.maxRestart)
        /\ pc \in {"start", "sleep"} /\ starts > 0 => state # "SUCCESS"

Leaving == {"stop", "report", "done", "cleanup", "end"}

\* A killed job is on its way out, and from the first run on there is a state.
StateInv == /\ state = "KILLED" => pc \in {"drain", "exit"} \cup Leaving
            /\ pc # "start" => state \in JobStates

\* The result is there from the moment it was reported, Wait returns later.
ResultInv ==
    /\ pc \in {"done", "cleanup", "end"} => answers = 1 /\ result = state
    /\ pc \notin {"done", "cleanup", "end"} => answers = 0 /\ result = "none"
    /\ wg = 0 <=> pc \in {"cleanup", "end"}
    /\ \A w \in Waiters : seen[w] \notin {"idle", "waiting"} =>
          seen[w] = result /\ pc \in {"cleanup", "end"}

RunnerInv == TypeOK /\ ProcInv /\ StartsInv /\ StateInv /\ ResultInv

\* The limit on the restarts is a number.
LEMMA LimitIsNat == TypeOK => cmd.maxRestart \in Nat
  BY RunnerAssumption DEF TypeOK, Command

\* The command of a runner never changes.
LEMMA CommandFixed == [Next]_vars => cmd' = cmd
  BY DEF Next, vars, RunStep, StartProcess, ReceiveExit, DrainExit, DrainDone, Decide,
     SleepOver, StopStatsd, Report, WaitDone, CleanUp, ReceiveTimeout, ProcessEnds,
     ProcessCloses, CallKill, ReceiveKill, CallWait, WaitReturns

\* The runner as NewRunner made it satisfies the invariant.
LEMMA InitInv == Init => RunnerInv
  BY RunnerAssumption DEF Command, Init, RunnerInv, TypeOK, ProcInv, StartsInv, StateInv, ResultInv,
     RunnerPc, JobStates, ExitStates, Deciding, Leaving

\* Every step of Run, of the process and of the callers keeps the variables typed.
LEMMA TypeStep == RunnerInv /\ [Next]_vars => TypeOK'
<1> SUFFICES ASSUME RunnerInv, [Next]_vars PROVE TypeOK'
  OBVIOUS
<1>0. TypeOK /\ (wg = 0 => result \in JobStates)
  BY DEF RunnerInv, ResultInv, StateInv
<1> USE RunnerAssumption DEF TypeOK, RunnerPc, JobStates, ExitStates, callers, outcome
<1>1. CASE StartProcess BY <1>0, <1>1 DEF StartProcess
<1>2. CASE ReceiveExit BY <1>0, <1>2 DEF ReceiveExit
<1>3. CASE DrainExit BY <1>0, <1>3 DEF DrainExit
<1>4. CASE DrainDone BY <1>0, <1>4 DEF DrainDone
<1>5. CASE Decide BY <1>0, <1>5 DEF Decide, RunsAfter
<1>6. CASE SleepOver BY <1>0, <1>6 DEF SleepOver
<1>7. CASE StopStatsd BY <1>0, <1>7 DEF StopStatsd
<1>8. CASE Report
  <2>1. result' \in JobStates \cup {"none"} /\ answers' \in Nat BY <1>0, <1>8 DEF Report
  <2> QED BY <1>0, <2>1, <1>8 DEF Report
<1>9. CASE WaitDone BY <1>0, <1>9 DEF WaitDone
<1>10. CASE CleanUp BY <1>0, <1>10 DEF CleanUp
<1>11. CASE ReceiveTimeout BY <1>0, <1>11 DEF ReceiveTimeout
<1>12. CASE ProcessEnds BY <1>0, <1>12 DEF ProcessEnds
<1>13. CASE ProcessCloses BY <1>0, <1>13 DEF ProcessCloses
<1>14. ASSUME NEW k \in Killers, CallKill(k) PROVE TypeOK' BY <1>0, <1>14 DEF CallKill
<1>15. ASSUME NEW k \in Killers, ReceiveKill(k) PROVE TypeOK' BY <1>0, <1>15 DEF ReceiveKill
<1>16. ASSUME NEW w \in Waiters, CallWait(w) PROVE TypeOK' BY <1>0, <1>16 DEF CallWait
<1>17. ASSUME NEW w \in Waiters, WaitReturns(w) PROVE TypeOK'
  BY <1>0, <1>17 DEF WaitReturns
<1>18. CASE UNCHANGED vars BY <1>0, <1>18 DEF vars
<1> QED
  BY <1>1, <1>2, <1>3, <1>4, <1>5, <1>6, <1>7, <1>8, <1>9, <1>10, <1>11, <1>12, <1>13,
     <1>14, <1>15, <1>16, <1>17, <1>18 DEF Next, RunStep

\* Where Run is decides which process can exist.
LEMMA ProcStep == RunnerInv /\ [Next]_vars => ProcInv'
<1> SUFFICES ASSUME TypeOK, ProcInv, [Next]_vars PROVE ProcInv'
  BY DEF RunnerInv
<1> USE DEF TypeOK, RunnerPc, ProcInv, callers, outcome
<1>1. CASE RunStep
  BY <1>1 DEF RunStep, StartProcess, ReceiveExit, DrainExit, DrainDone, Decide, SleepOver,
     StopStatsd, Report, WaitDone, CleanUp
<1>2. CASE ReceiveTimeout \/ ProcessEnds \/ ProcessCloses
  BY <1>2 DEF ReceiveTimeout, ProcessEnds, ProcessCloses
<1>3. ASSUME NEW k \in Killers, CallKill(k) \/ ReceiveKill(k) PROVE ProcInv'
  BY <1>3 DEF CallKill, ReceiveKill
<1>4. ASSUME NEW w \in Waiters, CallWait(w) \/ WaitReturns(w) PROVE ProcInv'
  BY <1>4 DEF CallWait, WaitReturns
<1>5. CASE UNCHANGED vars BY <1>5 DEF vars
<1> QED BY <1>1, <1>2, <1>3, <1>4, <1>5 DEF Next

\* A run is counted when its failure is looked at, before the next one is started.
LEMMA StartsStep == RunnerInv /\ [Next]_vars => StartsInv'
<1> SUFFICES ASSUME TypeOK, StartsInv, [Next]_vars, cmd.recurring = "no" PROVE StartsInv'
  BY CommandFixed DEF RunnerInv, StartsInv
<1> cmd' = cmd /\ cmd.maxRestart \in Nat
  BY CommandFixed, LimitIsNat
<1> USE DEF TypeOK, RunnerPc, StartsInv, Deciding, callers, outcome
<1>1. CASE StartProcess BY <1>1 DEF StartProcess
<1>2. CASE Decide BY <1>2 DEF Decide, RunsAfter, Restarts
<1>3. CASE ReceiveExit \/ DrainExit \/ DrainDone \/ SleepOver
  BY <1>3 DEF ReceiveExit, DrainExit, DrainDone, SleepOver
<1>4. CASE StopStatsd \/ Report \/ WaitDone \/ CleanUp
  BY <1>4 DEF StopStatsd, Report, WaitDone, CleanUp
<1>5. CASE ReceiveTimeout \/ ProcessEnds \/ ProcessCloses
  BY <1>5 DEF ReceiveTimeout, ProcessEnds, ProcessCloses
<1>6. ASSUME NEW k \in Killers, CallKill(k) \/ ReceiveKill(k) PROVE StartsInv'
  BY <1>6 DEF CallKill, ReceiveKill
<1>7. ASSUME NEW w \in Waiters, CallWait(w) \/ WaitReturns(w) PROVE StartsInv'
  BY <1>7 DEF CallWait, WaitReturns
<1>8. CASE UNCHANGED vars BY <1>8 DEF vars
<1> QED BY <1>1, <1>2, <1>3, <1>4, <1>5, <1>6, <1>7, <1>8 DEF Next, RunStep

\* Once killed, Run can only go towards its end.
LEMMA StateStep == RunnerInv /\ [Next]_vars => StateInv'
<1> SUFFICES ASSUME TypeOK, StateInv, [Next]_vars PROVE StateInv'
  BY DEF RunnerInv
<1> USE DEF TypeOK, RunnerPc, JobStates, ExitStates, StateInv, Leaving, callers, outcome
<1>1. CASE StartProcess BY <1>1 DEF StartProcess
<1>2. CASE Decide BY <1>2 DEF Decide, Restarts
<1>3. CASE ReceiveExit \/ DrainExit \/ DrainDone \/ SleepOver
  BY <1>3 DEF ReceiveExit, DrainExit, DrainDone, SleepOver
<1>4. CASE StopStatsd \/ Report \/ WaitDone \/ CleanUp
  BY <1>4 DEF StopStatsd, Report, WaitDone, CleanUp
<1>5. CASE ReceiveTimeout \/ ProcessEnds \/ ProcessCloses
  BY <1>5 DEF ReceiveTimeout, ProcessEnds, ProcessCloses
<1>6. ASSUME NEW k \in Killers, CallKill(k) \/ ReceiveKill(k) PROVE StateInv'
  BY <1>6 DEF CallKill, ReceiveKill
<1>7. ASSUME NEW w \in Waiters, CallWait(w) \/ WaitReturns(w) PROVE StateInv'
  BY <1>7 DEF CallWait, WaitReturns
<1>8. CASE UNCHANGED vars BY <1>8 DEF vars
<1> QED BY <1>1, <1>2, <1>3, <1>4, <1>5, <1>6, <1>7, <1>8 DEF Next, RunStep

\* The result is written once, before wg.Done lets a Wait return.
LEMMA ResultStep == RunnerInv /\ [Next]_vars => ResultInv'
<1> SUFFICES ASSUME TypeOK, ResultInv, [Next]_vars PROVE ResultInv'
  BY DEF RunnerInv
<1> USE DEF TypeOK, RunnerPc, JobStates, ExitStates, ResultInv, callers, outcome
<1>1. CASE StartProcess \/ Decide BY <1>1 DEF StartProcess, Decide
<1>2. CASE ReceiveExit \/ DrainExit \/ DrainDone \/ SleepOver
  BY <1>2 DEF ReceiveExit, DrainExit, DrainDone, SleepOver
<1>3. CASE StopStatsd BY <1>3 DEF StopStatsd
<1>4. CASE Report BY <1>4 DEF Report
<1>5. CASE WaitDone BY <1>5 DEF WaitDone
<1>6. CASE CleanUp BY <1>6 DEF CleanUp
<1>7. CASE ReceiveTimeout \/ ProcessEnds \/ ProcessCloses
  BY <1>7 DEF ReceiveTimeout, ProcessEnds, ProcessCloses
<1>8. ASSUME NEW k \in Killers, CallKill(k) \/ ReceiveKill(k) PROVE ResultInv'
  BY <1>8 DEF CallKill, ReceiveKill
<1>9. ASSUME NEW w \in Waiters, CallWait(w) PROVE ResultInv'
  BY <1>9 DEF CallWait
<1>10. ASSUME NEW w \in Waiters, WaitReturns(w) PROVE ResultInv'
  BY <1>10 DEF WaitReturns
<1>11. CASE UNCHANGED vars BY <1>11 DEF vars
<1> QED
  BY <1>1, <1>2, <1>3, <1>4, <1>5, <1>6, <1>7, <1>8, <1>9, <1>10, <1>11 DEF Next, RunStep

\* RunnerInv holds in every reachable state of a runner.
THEOREM Invariance == Spec => []RunnerInv
<1>1. RunnerInv /\ [Next]_vars => RunnerInv'
  BY TypeStep, ProcStep, StartsStep, StateStep, ResultStep DEF RunnerInv
<1> QED BY InitInv, <1>1, PTL DEF Spec

-----------------------------------------------------------------------------
(* What the invariant gives.                                               *)

\* The variables of a runner keep their types.
THEOREM RunnerTypeCorrect == Spec => []TypeOK
  BY Invariance, PTL DEF RunnerInv

\* A command that does not recur is started again only after a failed run, and at most
\* max_restart times (runner.go:249-264).
THEOREM RetriesAreBounded == Spec => RetriesBounded
<1>1. RunnerInv /\ [Next]_vars =>
        [cmd.recurring = "no" /\ starts > 0 /\ starts' # starts
           => state # "SUCCESS" /\ starts <= cmd.maxRestart]_vars
  <2> SUFFICES ASSUME RunnerInv, Next, cmd.recurring = "no", starts > 0, starts' # starts
               PROVE  state # "SUCCESS" /\ starts <= cmd.maxRestart
    OBVIOUS
  <2>1. pc = "start"
    BY DEF Next, RunStep, StartProcess, ReceiveExit, DrainExit, DrainDone, Decide,
       SleepOver, StopStatsd, Report, WaitDone, CleanUp, ReceiveTimeout, ProcessEnds,
       ProcessCloses, CallKill, ReceiveKill, CallWait, WaitReturns
  <2> QED
    BY <2>1, LimitIsNat DEF RunnerInv, StartsInv, TypeOK
<1> QED
  BY <1>1, Invariance, PTL DEF Spec, RetriesBounded

\* The select loop of run never gets a nil message from a closed channel
\* (runner.go:170-171).
THEOREM NoNilMessage == Spec => []NoReceiveFromClosed
<1>1. RunnerInv => NoReceiveFromClosed BY DEF RunnerInv, ProcInv, NoReceiveFromClosed
<1> QED BY <1>1, Invariance, PTL

\* Wait returns what the result handlers were given (runner.go:222-228, 290-293).
THEOREM WaitConsistent == Spec => []WaitSeesResult
<1>1. RunnerInv => WaitSeesResult BY DEF RunnerInv, ResultInv, WaitSeesResult
<1> QED BY <1>1, Invariance, PTL

\* A process is started only when there is no process of this runner
\* (runner.go:195-200).
THEOREM OneProcessAtATime == Spec => OneProcess
<1>1. RunnerInv /\ [Next]_vars => [starts' # starts => proc = "none"]_vars
  <2> SUFFICES ASSUME RunnerInv, Next, starts' # starts PROVE proc = "none"
    OBVIOUS
  <2>1. StartProcess
    BY DEF Next, RunStep, ReceiveExit, DrainExit, DrainDone, Decide, SleepOver, StopStatsd,
       Report, WaitDone, CleanUp, ReceiveTimeout, ProcessEnds, ProcessCloses, CallKill,
       ReceiveKill, CallWait, WaitReturns
  <2> QED BY <2>1 DEF StartProcess, RunnerInv, ProcInv
<1> QED BY <1>1, Invariance, PTL DEF Spec, OneProcess

\* A killed job is never started again (runner.go:244-247, 270-273).
THEOREM NoRestartAfterKill == Spec => KilledNotRestarted
<1>1. RunnerInv /\ [Next]_vars => [state = "KILLED" => starts' = starts]_vars
  <2> SUFFICES ASSUME RunnerInv, Next, starts' # starts PROVE state # "KILLED"
    OBVIOUS
  <2>1. StartProcess
    BY DEF Next, RunStep, ReceiveExit, DrainExit, DrainDone, Decide, SleepOver, StopStatsd,
       Report, WaitDone, CleanUp, ReceiveTimeout, ProcessEnds, ProcessCloses, CallKill,
       ReceiveKill, CallWait, WaitReturns
  <2> QED BY <2>1 DEF StartProcess, RunnerInv, StateInv, Leaving
<1> QED BY <1>1, Invariance, PTL DEF Spec, KilledNotRestarted

-----------------------------------------------------------------------------
(* Runner implements JobLife.                                              *)

\* A fresh runner is a live job.
LEMMA LifeStart == Init => Life!LifeInit
  BY DEF Init, Life!LifeInit

\* Every step of a runner is a step of the life cycle or leaves it alone.
LEMMA LifeStep == RunnerInv /\ [Next]_vars => [Life!LifeNext]_(Life!lifeVars)
<1> SUFFICES ASSUME RunnerInv, [Next]_vars PROVE [Life!LifeNext]_(Life!lifeVars)
  OBVIOUS
<1> USE DEF RunnerInv, Life!lifeVars, Life!LifeNext, callers, outcome
<1>1. CASE Report
  <2>1. answers = 0 /\ answers' = 1 /\ pc # "end" /\ pc' # "end" /\ state' = state /\ result' = state
    BY <1>1 DEF Report, ResultInv
  <2>2. state \in JobStates BY <1>1 DEF Report, StateInv
  <2>3. Life!Answer BY <2>1, <2>2 DEF Life!Answer, JobStates, ExitStates
  <2> QED BY <2>3
<1>2. CASE CleanUp
  BY <1>2 DEF CleanUp, ResultInv, Life!Leave
<1>3. ASSUME NEW k \in Killers, ReceiveKill(k) PROVE Life!AcceptKill
  BY <1>3 DEF ReceiveKill, ResultInv, StateInv, Leaving, Life!AcceptKill
<1>4. CASE StartProcess BY <1>4 DEF StartProcess, ResultInv, StateInv, Leaving
<1>5. CASE ReceiveExit \/ ReceiveTimeout
  BY <1>5 DEF ReceiveExit, ReceiveTimeout, ExitStates, ResultInv, StateInv, Leaving
<1>6. CASE DrainExit \/ DrainDone \/ Decide \/ SleepOver \/ StopStatsd
  BY <1>6 DEF DrainExit, DrainDone, Decide, SleepOver, StopStatsd, ResultInv
<1>7. CASE WaitDone BY <1>7 DEF WaitDone, ResultInv
<1>8. CASE ProcessEnds \/ ProcessCloses BY <1>8 DEF ProcessEnds, ProcessCloses
<1>9. ASSUME NEW k \in Killers, CallKill(k) PROVE UNCHANGED Life!lifeVars
  BY <1>9 DEF CallKill
<1>10. ASSUME NEW w \in Waiters, CallWait(w) \/ WaitReturns(w) PROVE UNCHANGED Life!lifeVars
  BY <1>10 DEF CallWait, WaitReturns
<1>11. CASE UNCHANGED vars BY <1>11 DEF vars
<1> QED
  BY <1>1, <1>2, <1>3, <1>4, <1>5, <1>6, <1>7, <1>8, <1>9, <1>10, <1>11 DEF Next, RunStep

\* A runner implements the job life cycle: one answer, KILLED exactly when a kill was
\* accepted, and no departure before the answer (runner.go:217-280).
THEOREM RunnerImplementsJobLife == Spec => ImplementsJobLife
  BY LifeStart, LifeStep, Invariance, PTL DEF Spec, ImplementsJobLife, Life!LifeSpec
=============================================================================
