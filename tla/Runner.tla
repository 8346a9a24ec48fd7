-------------------------------- MODULE Runner --------------------------------
(***************************************************************************)
(* One runner (base/pm/runner.go): the goroutine that starts a process,    *)
(* watches it, restarts it and finally delivers the result of the job,     *)
(* together with the process (base/pm/process), seen through the message   *)
(* channel it returns from Run, with the goroutines that call Kill, and    *)
(* with those that call Wait.                                              *)
(***************************************************************************)
EXTENDS Integers

CONSTANTS
    Commands,     \* the commands a runner may be made for
    Killers,      \* goroutines that call Kill once
    Waiters,      \* goroutines that call Wait once
    MaxStarts     \* bound on the number of times the process is started

\* What a runner reads of its command (maxTime and recurring: whether MaxTime and
\* RecurringPeriod are set), and whether process.Kill makes its process end: Kill of
\* an internal process does nothing, and Terminate may be ignored.
Command == [maxRestart : Nat,
            maxTime    : {"yes", "no"},
            recurring  : {"yes", "no"},
            obedient   : {"yes", "no"}]

ASSUME RunnerAssumption == Commands \subseteq Command /\ MaxStarts \in Nat

VARIABLES
    cmd,      \* runner.command
    pc,       \* where Run is
    proc,     \* the process: "none", "alive", "exited" (its exit message is next),
              \* "closing" (the exit message was received), "closed"
    told,     \* "yes" once process.Kill was called on this process
    state,    \* result.State
    runs,     \* the local variable runs: failed runs counted against MaxRestart
    starts,   \* history: calls of run()
    statsd,   \* "off", "on", "stopped"
    result,   \* runner.result: the state it holds, "none" while nil
    answers,  \* history: calls of resultCallback
    wg,       \* the counter of runner.wg
    killer,   \* each Kill call: "idle", "sending", "returned"
    seen      \* each Wait call: "idle", "waiting", or the result it returned

vars == <<cmd, pc, proc, told, state, runs, starts, statsd, result, answers, wg, killer,
          seen>>

ExitStates == {"SUCCESS", "ERROR"}
JobStates  == ExitStates \cup {"TIMEOUT", "KILLED"}

RunnerPc == {"start", "select", "drain", "exit", "unspawned", "sleep", "stop", "report",
             "done", "cleanup", "end"}

TypeOK == /\ cmd \in Commands
          /\ pc \in RunnerPc
          /\ proc \in {"none", "alive", "exited", "closing", "closed"}
          /\ told \in {"yes", "no"}
          /\ state \in JobStates \cup {"none"}
          /\ runs \in Nat
          /\ starts \in Nat
          /\ statsd \in {"off", "on", "stopped"}
          /\ result \in JobStates \cup {"none"}
          /\ answers \in Nat
          /\ wg \in {0, 1}
          /\ killer \in [Killers -> {"idle", "sending", "returned"}]
          /\ seen \in [Waiters -> {"idle", "waiting", "none"} \cup JobStates]

\* NewRunner, and statsd.Run at the head of Run.
Init == /\ cmd \in Commands
        /\ pc = "start"
        /\ proc = "none"
        /\ told = "no"
        /\ state = "none"
        /\ runs = 0
        /\ starts = 0
        /\ statsd = "on"
        /\ result = "none"
        /\ answers = 0
        /\ wg = 1
        /\ killer = [k \in Killers |-> "idle"]
        /\ seen = [w \in Waiters |-> "idle"]

callers == <<killer, seen>>
outcome == <<statsd, result, answers, wg>>

-----------------------------------------------------------------------------
(* run                                                                     *)

\* process.Run: either the process is spawned and the select loop is entered, or
\* run returns the error as its result at once.
StartProcess ==
    /\ pc = "start" /\ starts < MaxStarts
    /\ starts' = starts + 1
    /\ state' = "ERROR"
    /\ told' = "no"
    /\ \/ proc' = "alive" /\ pc' = "select"
       \/ proc' = "none" /\ pc' = "unspawned"
    /\ UNCHANGED <<cmd, runs, outcome, callers>>

\* case message := <-channel, the exit message.
ReceiveExit ==
    /\ pc = "select" /\ proc = "exited"
    /\ proc' = "closing"
    /\ state' \in ExitStates
    /\ pc' = "drain"
    /\ UNCHANGED <<cmd, told, runs, starts, outcome, callers>>

\* Mutant: the process is not killed when its time is over.
ReceiveTimeoutSpares ==
    /\ pc = "select" /\ cmd.maxTime = "yes"
    /\ state' = "TIMEOUT"
    /\ pc' = "drain"
    /\ UNCHANGED <<cmd, proc, told, runs, starts, outcome, callers>>

\* case <-timeout
ReceiveTimeout ==
    /\ pc = "select" /\ cmd.maxTime = "yes"
    /\ told' = "yes"
    /\ state' = "TIMEOUT"
    /\ pc' = "drain"
    /\ UNCHANGED <<cmd, proc, runs, starts, outcome, callers>>

\* for _ = range channel, which also swallows an exit message.
DrainExit ==
    /\ pc = "drain" /\ proc = "exited"
    /\ proc' = "closing"
    /\ UNCHANGED <<cmd, pc, told, state, runs, starts, outcome, callers>>

\* Mutant: the channel is not consumed to its end.
DrainNothing ==
    /\ pc = "drain"
    /\ pc' = "exit"
    /\ UNCHANGED <<cmd, proc, told, state, runs, starts, outcome, callers>>

DrainDone ==
    /\ pc = "drain" /\ proc = "closed"
    /\ proc' = "none"
    /\ pc' = "exit"
    /\ UNCHANGED <<cmd, told, state, runs, starts, outcome, callers>>

-----------------------------------------------------------------------------
(* Run                                                                     *)

\* Mutant: failed runs are not counted.
RunsUncounted == runs

\* runs, after the result of a run was looked at: only failures count.
RunsAfter == IF state # "SUCCESS" /\ cmd.maxRestart > 0 THEN runs + 1 ELSE runs

\* Whether the process is started again.
Restarts == /\ state # "KILLED"
            /\ \/ state # "SUCCESS" /\ cmd.maxRestart > 0 /\ RunsAfter < cmd.maxRestart
               \/ cmd.recurring = "yes"

\* The exit hooks are called; a killed job is never restarted.  A run that could
\* not spawn its process is treated like any other failed run.
Decide ==
    /\ pc \in {"exit", "unspawned"}
    /\ runs' = IF state = "KILLED" THEN runs ELSE RunsAfter
    /\ pc' = IF Restarts THEN "sleep" ELSE "stop"
    /\ UNCHANGED <<cmd, proc, told, state, starts, outcome, callers>>

\* case <-time.After(restartIn)
SleepOver ==
    /\ pc = "sleep"
    /\ pc' = "start"
    /\ UNCHANGED <<cmd, proc, told, state, runs, starts, outcome, callers>>

\* Mutant: the deferred function goes on without reporting the result.
StopUnreported ==
    /\ pc = "stop"
    /\ statsd' = "stopped"
    /\ pc' = "cleanup"
    /\ UNCHANGED <<cmd, proc, told, state, runs, starts, result, answers, wg, callers>>

\* The deferred function: statsd.Stop,
StopStatsd ==
    /\ pc = "stop"
    /\ statsd' = "stopped"
    /\ pc' = "report"
    /\ UNCHANGED <<cmd, proc, told, state, runs, starts, result, answers, wg, callers>>

\* runner.result = result and resultCallback,
Report ==
    /\ pc = "report"
    /\ result' = state
    /\ answers' = answers + 1
    /\ pc' = "done"
    /\ UNCHANGED <<cmd, proc, told, state, runs, starts, statsd, wg, callers>>

\* Mutant: wg.Done is missing.
WaitNotDone ==
    /\ pc = "done"
    /\ pc' = "cleanup"
    /\ UNCHANGED <<cmd, proc, told, state, runs, starts, outcome, callers>>

\* waitOnce.Do(wg.Done),
WaitDone ==
    /\ pc = "done"
    /\ wg' = 0
    /\ pc' = "cleanup"
    /\ UNCHANGED <<cmd, proc, told, state, runs, starts, statsd, result, answers, callers>>

\* and manager.cleanUp.
CleanUp ==
    /\ pc = "cleanup"
    /\ pc' = "end"
    /\ UNCHANGED <<cmd, proc, told, state, runs, starts, outcome, callers>>

RunStep == \/ StartProcess
           \/ ReceiveExit
           \/ DrainExit
           \/ DrainDone
           \/ Decide
           \/ SleepOver
           \/ StopStatsd
           \/ Report
           \/ WaitDone
           \/ CleanUp
-----------------------------------------------------------------------------
(* The process, and the callers of Kill and Wait.                          *)

\* The process ends, by itself or because it was told to.
ProcessEnds ==
    /\ proc = "alive"
    /\ proc' = "exited"
    /\ UNCHANGED <<cmd, pc, told, state, runs, starts, outcome, callers>>

\* The goroutine of the process closes the channel once its last message is gone.
ProcessCloses ==
    /\ proc = "closing"
    /\ proc' = "closed"
    /\ UNCHANGED <<cmd, pc, told, state, runs, starts, outcome, callers>>

\* A caller of Kill got hold of the runner.
CallKill(k) ==
    /\ killer[k] = "idle"
    /\ killer' = [killer EXCEPT ![k] = "sending"]
    /\ UNCHANGED <<cmd, pc, proc, told, state, runs, starts, outcome, seen>>

\* Mutant: break leaves only the select of the restart delay, not the loop.
ReceiveKillGoesOn(k) ==
    /\ killer[k] = "sending"
    /\ \/ pc = "select" /\ pc' = "drain" /\ told' = "yes"
       \/ pc = "sleep" /\ pc' = "start" /\ UNCHANGED told
    /\ state' = "KILLED"
    /\ killer' = [killer EXCEPT ![k] = "returned"]
    /\ UNCHANGED <<cmd, proc, runs, starts, outcome, seen>>

\* runner.kill <- 1 is received by the select of run, which kills the process,
\* or by the select of the restart delay.
ReceiveKill(k) ==
    /\ killer[k] = "sending"
    /\ \/ pc = "select" /\ pc' = "drain" /\ told' = "yes"
       \/ pc = "sleep" /\ pc' = "stop" /\ UNCHANGED told
    /\ state' = "KILLED"
    /\ killer' = [killer EXCEPT ![k] = "returned"]
    /\ UNCHANGED <<cmd, proc, runs, starts, outcome, seen>>

CallWait(w) ==
    /\ seen[w] = "idle"
    /\ seen' = [seen EXCEPT ![w] = "waiting"]
    /\ UNCHANGED <<cmd, pc, proc, told, state, runs, starts, outcome, killer>>

\* runner.wg.Wait() and return runner.result.
WaitReturns(w) ==
    /\ seen[w] = "waiting" /\ wg = 0
    /\ seen' = [seen EXCEPT ![w] = result]
    /\ UNCHANGED <<cmd, pc, proc, told, state, runs, starts, outcome, killer>>

Next == \/ RunStep
        \/ ReceiveTimeout
        \/ ProcessEnds
        \/ ProcessCloses
        \/ \E k \in Killers : CallKill(k) \/ ReceiveKill(k)
        \/ \E w \in Waiters : CallWait(w) \/ WaitReturns(w)

Spec == Init /\ [][Next]_vars

\* Run goes on when it can, channels are closed, a process that obeys ends once
\* told, and a caller whose channel operation can proceed does proceed.  The
\* receive of a kill is strongly fair: Run re-enters a select that takes one of
\* the channels that are ready.  Nobody is obliged to call Kill or Wait.
Fairness == /\ WF_vars(RunStep)
            /\ WF_vars(ProcessCloses)
            /\ WF_vars(cmd.obedient = "yes" /\ told = "yes" /\ ProcessEnds)
            /\ WF_vars(ReceiveTimeout)
            /\ \A k \in Killers : SF_vars(ReceiveKill(k))
            /\ \A w \in Waiters : WF_vars(WaitReturns(w))

FairSpec == Spec /\ Fairness

-----------------------------------------------------------------------------
(* Properties                                                              *)

\* max_restart is the "Max number of retries to start the command if failed before
\* giving up" (docs/commands.md:19): without a recurring period a process is started
\* again only after a run that did not succeed, and no more than max_restart times,
\* whatever mix of failures, timeouts and spawn errors ends its runs.  (The code gives up
\* one retry earlier, which the property allows.)
RetriesBounded ==
    [][cmd.recurring = "no" /\ starts > 0 /\ starts' # starts
         => state # "SUCCESS" /\ starts <= cmd.maxRestart]_vars

\* "we never restart a killed process" (runner.go:245): once Run has received from
\* the kill channel, whether the process was running or Run was waiting to restart
\* it, run is not called again.
KilledNotRestarted == [][state = "KILLED" => starts' = starts]_vars

\* The select loop never receives from a closed channel: the nil message would be
\* dereferenced (runner.go:171) and end the agent.
NoReceiveFromClosed == pc = "select" => proc \in {"alive", "exited"}

\* Wait returns the very result that was handed to the result handlers, and not
\* before it was (runner.go:223-228).
WaitSeesResult ==
    \A w \in Waiters : seen[w] \notin {"idle", "waiting"} => seen[w] = result /\ answers = 1

\* A new process is started only when the previous one has ended and its channel
\* was closed, also when it was killed or ran out of time.
OneProcess == [][starts' # starts => proc = "none"]_vars

\* The job life cycle the runner implements.
Life == INSTANCE JobLife WITH
            phase  <- IF pc = "end" THEN "gone" ELSE IF answers = 0 THEN "live" ELSE "answered",
            killed <- IF state = "KILLED" THEN "yes" ELSE "no",
            answer <- result

\* A job is answered once, KILLED exactly when it accepted a kill, and it leaves the
\* table of runners only after it was answered.
ImplementsJobLife == Life!LifeSpec

\* A command that has a time limit and obeys, and does not recur, comes to an end.
Finishes ==
    cmd.recurring = "no" /\ cmd.maxTime = "yes" /\ cmd.obedient = "yes" => <>(pc = "end")

\* Every Wait call returns once the runner is through.
WaitersReturn ==
    \A w \in Waiters : (seen[w] = "waiting" /\ pc = "end") ~> (seen[w] \in JobStates)
=============================================================================
