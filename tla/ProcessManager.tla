---------------------------- MODULE ProcessManager ----------------------------
(***************************************************************************)
(* The process manager (base/pm/pm.go) with the goroutines around it: the  *)
(* sinks that receive commands (base/sink.go), the queue manager           *)
(* (CmdQueue), the single processCmds loop that admits commands, one       *)
(* runner goroutine per admitted command (the life cycle of                *)
(* base/pm/runner.go, detailed in Runner), and the bodies of the built-in  *)
(* process.kill and process.killall commands, which act on other runners.  *)
(*                                                                         *)
(* Channels are unbuffered: sending and receiving are one joint step.      *)
(* runnersMux is held for one step by NewRunner and cleanUp, and for many  *)
(* by Killall; mux names the Killall that holds it.  The locker of         *)
(* jobsCond is used by processCmds alone, so it excludes nobody.           *)
(***************************************************************************)
EXTENDS CmdQueue, FiniteSets

CONSTANTS
    Ids,         \* job ids
    IdOf,        \* the ID field of every command
    Known,       \* the commands GetProcessFactory has a factory for
    Direct,      \* commands passed to RunCmd by other code than processCmds
    Restarting,  \* commands with max_restart or recurring_period set
    Timed,       \* commands with max_time set
    KillOf,      \* the job id a process.kill command names, KillAll, or NoKill
    NoKill,
    KillAll,
    Sinks,
    MaxJobs      \* pm.maxJobs

ASSUME IdAssumption == IdOf \in [Cmds -> Ids]

ASSUME SubsetAssumption == /\ Known \subseteq Cmds
                           /\ Direct \subseteq Cmds
                           /\ Restarting \subseteq Cmds
                           /\ Timed \subseteq Cmds

ASSUME KillAssumption == /\ KillOf \in [Cmds -> Ids \cup {NoKill, KillAll}]
                         /\ NoKill \notin Ids /\ KillAll \notin Ids
                         /\ NoKill # KillAll

ASSUME MaxJobsAssumption == MaxJobs \in Nat

VARIABLES
    todo,      \* commands not issued yet: waiting in Redis, or with their direct caller
    sinkCmd,   \* the command a sink has fetched and is handing over
    loop,      \* processCmds: its position and the command it received
    rejected,  \* commands answered with an error result instead of being run
    runners,   \* pm.runners: the command whose runner is filed under each id
    rpc,       \* where the runner of each command is
    body,      \* what the process of each command is doing
    victims,   \* the runners a Killall has yet to kill
    aim,       \* the runner a kill body is sending to, or Nil
    mux        \* the command whose Killall holds runnersMux, or Nil

entryVars == <<todo, sinkCmd>>
killVars == <<victims, aim, mux>>
pmVars == <<entryVars, loop, rejected, runners, rpc, body, killVars>>
vars == <<queueVars, pmVars>>

\* Between NewRunner filing the runner and cleanUp deleting it:
\*   open    in the select loop of run, or about to enter it
\*   drain   left the loop, consuming the channel until the process is gone
\*   killed  the same, after the kill channel was received from
\*   sleep   waiting to restart
\*   report  in the deferred function: statsd.Stop, resultCallback, wg.Done
\*   delete  in cleanUp, about to delete the entry
Live == {"open", "drain", "killed", "sleep", "report", "delete"}

\* After that it still signals its queue (notify) and wakes processCmds (bcast).
RunnerPc == Live \cup {"none", "notify", "bcast", "done"}

LoopPc == {"check", "enroll", "waiting", "select", "run"}

TypeOK == /\ QueueTypeOK
          /\ todo \subseteq Cmds
          /\ sinkCmd \in [Sinks -> Cmds \cup {Nil}]
          /\ loop \in [pc : LoopPc, cmd : Cmds \cup {Nil}]
          /\ rejected \subseteq Cmds
          /\ runners \in [Ids -> Cmds \cup {Nil}]
          /\ rpc \in [Cmds -> RunnerPc]
          /\ body \in [Cmds -> {"idle", "run", "kill", "end"}]
          /\ victims \in [Cmds -> SUBSET Cmds]
          /\ aim \in [Cmds -> Cmds \cup {Nil}]
          /\ mux \in Cmds \cup {Nil}

Init == /\ QueueInit
        /\ todo = Cmds
        /\ sinkCmd = [s \in Sinks |-> Nil]
        /\ loop = [pc |-> "check", cmd |-> Nil]
        /\ rejected = {}
        /\ runners = [i \in Ids |-> Nil]
        /\ rpc = [c \in Cmds |-> "none"]
        /\ body = [c \in Cmds |-> "idle"]
        /\ victims = [c \in Cmds |-> {}]
        /\ aim = [c \in Cmds |-> Nil]
        /\ mux = Nil

-----------------------------------------------------------------------------
(* Sinks: one command at a time is fetched and handed over.                *)

\* poll.client.GetNext succeeds; a failed call is retried and changes nothing.
SinkGetNext(s) ==
    /\ agent = "up"
    /\ sinkCmd[s] = Nil
    /\ \E c \in todo \ Direct :
          /\ sinkCmd' = [sinkCmd EXCEPT ![s] = c]
          /\ todo' = todo \ {c}
    /\ UNCHANGED <<queueVars, loop, rejected, runners, rpc, body, killVars>>

\* PushCmd: pm.cmds <- cmd, received by processCmds.
SinkPushCmd(s) ==
    /\ agent = "up"
    /\ sinkCmd[s] # Nil
    /\ QueueOf[sinkCmd[s]] = NoQueue
    /\ loop.pc = "select"
    /\ loop' = [pc |-> "run", cmd |-> sinkCmd[s]]
    /\ sinkCmd' = [sinkCmd EXCEPT ![s] = Nil]
    /\ UNCHANGED <<queueVars, todo, rejected, runners, rpc, body, killVars>>

\* PushCmdToQueue: mgr.consumer <- cmd, received by dispatcherLoop.
SinkPushCmdToQueue(s) ==
    /\ agent = "up"
    /\ sinkCmd[s] # Nil
    /\ QueueOf[sinkCmd[s]] # NoQueue
    /\ DispatcherRecv(sinkCmd[s])
    /\ sinkCmd' = [sinkCmd EXCEPT ![s] = Nil]
    /\ UNCHANGED <<todo, loop, rejected, runners, rpc, body, killVars>>

-----------------------------------------------------------------------------
(* RunCmd                                                                  *)

\* No factory: the error result is delivered and no runner is made.
RunUnknown(c) ==
    /\ c \notin Known
    /\ rejected' = rejected \cup {c}
    /\ UNCHANGED <<runners, rpc, body>>

\* NewRunner finds the id in the table: the error result is delivered.
RunDuplicate(c) ==
    /\ c \in Known
    /\ mux = Nil
    /\ runners[IdOf[c]] # Nil
    /\ rejected' = rejected \cup {c}
    /\ UNCHANGED <<runners, rpc, body>>

\* Mutant: NewRunner does not look for a runner with the same id.
NewRunnerUnchecked(c) ==
    /\ c \in Known
    /\ mux = Nil
    /\ runners' = [runners EXCEPT ![IdOf[c]] = c]
    /\ rpc' = [rpc EXCEPT ![c] = "open"]
    /\ body' = [body EXCEPT ![c] = "run"]
    /\ UNCHANGED rejected

\* NewRunner files a runner and starts its goroutine.
NewRunner(c) ==
    /\ c \in Known
    /\ mux = Nil
    /\ runners[IdOf[c]] = Nil
    /\ runners' = [runners EXCEPT ![IdOf[c]] = c]
    /\ rpc' = [rpc EXCEPT ![c] = "open"]
    /\ body' = [body EXCEPT ![c] = "run"]
    /\ UNCHANGED rejected

RunCmd(c) ==
    /\ RunUnknown(c) \/ RunDuplicate(c) \/ NewRunner(c)
    /\ UNCHANGED <<killVars>>

\* RunCmd called by RunSlice, a container or the local transport, which passes on
\* the queue its client wrote.  That the local transport runs the runner a second
\* time (local.go:82) is modelled in Sinks.
DirectRunCmd(c) ==
    /\ agent = "up"
    /\ c \in todo \cap Direct
    /\ todo' = todo \ {c}
    /\ RunCmd(c)
    /\ UNCHANGED <<queueVars, sinkCmd, loop>>

-----------------------------------------------------------------------------
(* processCmds                                                             *)

\* len(pm.runners), read without runnersMux.
Jobs == Cardinality({i \in Ids : runners[i] # Nil})

\* Mutant: one command too many is admitted.
LoopCheckOneMore ==
    /\ agent = "up"
    /\ loop.pc = "check"
    /\ loop' = [loop EXCEPT !.pc = IF Jobs > MaxJobs THEN "enroll" ELSE "select"]
    /\ UNCHANGED <<queueVars, entryVars, rejected, runners, rpc, body, killVars>>

\* for len(pm.runners) >= pm.maxJobs
LoopCheck ==
    /\ agent = "up"
    /\ loop.pc = "check"
    /\ loop' = [loop EXCEPT !.pc = IF Jobs >= MaxJobs THEN "enroll" ELSE "select"]
    /\ UNCHANGED <<queueVars, entryVars, rejected, runners, rpc, body, killVars>>

\* jobsCond.Wait adds the goroutine to the list that Broadcast wakes.
LoopWait ==
    /\ agent = "up"
    /\ loop.pc = "enroll"
    /\ loop' = [loop EXCEPT !.pc = "waiting"]
    /\ UNCHANGED <<queueVars, entryVars, rejected, runners, rpc, body, killVars>>

\* case cmd = <-pm.queueMgr.Producer()
LoopReceiveQueued ==
    /\ agent = "up"
    /\ loop.pc = "select"
    /\ ProducerSend
    /\ loop' = [pc |-> "run", cmd |-> prod.cmd]
    /\ UNCHANGED <<entryVars, rejected, runners, rpc, body, killVars>>

\* pm.RunCmd(cmd), whose result is ignored.
LoopRunCmd ==
    /\ agent = "up"
    /\ loop.pc = "run"
    /\ RunCmd(loop.cmd)
    /\ loop' = [pc |-> "check", cmd |-> Nil]
    /\ UNCHANGED <<queueVars, entryVars>>

-----------------------------------------------------------------------------
(* Runners: Run, and cleanUp.                                              *)

\* The exit message of the process leaves the select loop.
RunnerExit(c) ==
    /\ agent = "up"
    /\ rpc[c] = "open" /\ body[c] = "end"
    /\ rpc' = [rpc EXCEPT ![c] = "drain"]
    /\ UNCHANGED <<queueVars, entryVars, loop, rejected, runners, body, killVars>>

\* So does the timer of max_time, which leaves the process running.
RunnerTimeout(c) ==
    /\ agent = "up"
    /\ rpc[c] = "open" /\ c \in Timed
    /\ rpc' = [rpc EXCEPT ![c] = "drain"]
    /\ UNCHANGED <<queueVars, entryVars, loop, rejected, runners, body, killVars>>

\* The channel is closed once the process is gone: restart, unless killed, or
\* enter the deferred function.
RunnerDrained(c) ==
    /\ agent = "up"
    /\ rpc[c] \in {"drain", "killed"} /\ body[c] = "end"
    /\ \/ rpc' = [rpc EXCEPT ![c] = "report"]
       \/ /\ rpc[c] = "drain" /\ c \in Restarting
          /\ rpc' = [rpc EXCEPT ![c] = "sleep"]
    /\ UNCHANGED <<queueVars, entryVars, loop, rejected, runners, body, killVars>>

RunnerRestart(c) ==
    /\ agent = "up"
    /\ rpc[c] = "sleep"
    /\ rpc' = [rpc EXCEPT ![c] = "open"]
    /\ body' = [body EXCEPT ![c] = "run"]
    /\ UNCHANGED <<queueVars, entryVars, loop, rejected, runners, killVars>>

\* resultCallback: the result goes to the handlers, that of the sink included.
RunnerReport(c) ==
    /\ agent = "up"
    /\ rpc[c] = "report"
    /\ rpc' = [rpc EXCEPT ![c] = "delete"]
    /\ UNCHANGED <<queueVars, entryVars, loop, rejected, runners, body, killVars>>

\* cleanUp: delete(pm.runners, id) under runnersMux.
CleanUpDelete(c) ==
    /\ agent = "up"
    /\ rpc[c] = "delete"
    /\ mux = Nil
    /\ runners' = [runners EXCEPT ![IdOf[c]] = Nil]
    /\ rpc' = [rpc EXCEPT ![c] = "notify"]
    /\ UNCHANGED <<queueVars, entryVars, loop, rejected, body, killVars>>

\* Mutant: the queue is not signalled.
CleanUpSilent(c) ==
    /\ agent = "up"
    /\ rpc[c] = "notify"
    /\ rpc' = [rpc EXCEPT ![c] = "bcast"]
    /\ UNCHANGED <<queueVars, entryVars, loop, rejected, runners, body, killVars>>

\* cleanUp: queueMgr.Notify returns at once without a queue, and otherwise
\* blocks until producerLoop receives.
CleanUpNotify(c) ==
    /\ agent = "up"
    /\ rpc[c] = "notify"
    /\ IF QueueOf[c] = NoQueue THEN UNCHANGED prod ELSE ProducerRecv(QueueOf[c])
    /\ rpc' = [rpc EXCEPT ![c] = "bcast"]
    /\ UNCHANGED <<queues, lists, disp, arrived, agent>>
    /\ UNCHANGED <<entryVars, loop, rejected, runners, body, killVars>>

\* cleanUp: jobsCond.Broadcast wakes processCmds if it is in the list.
CleanUpBroadcast(c) ==
    /\ agent = "up"
    /\ rpc[c] = "bcast"
    /\ rpc' = [rpc EXCEPT ![c] = "done"]
    /\ loop' = IF loop.pc = "waiting" THEN [loop EXCEPT !.pc = "check"] ELSE loop
    /\ UNCHANGED <<queueVars, entryVars, rejected, runners, body, killVars>>

RunnerStep(c) == \/ RunnerExit(c)
                 \/ RunnerTimeout(c)
                 \/ RunnerDrained(c)
                 \/ RunnerRestart(c)
                 \/ RunnerReport(c)
                 \/ CleanUpDelete(c)
                 \/ CleanUpNotify(c)
                 \/ CleanUpBroadcast(c)

-----------------------------------------------------------------------------
(* Processes: what the command of a runner does.                           *)

\* Any other process ends on its own, killed or not.
BodyEnd(c) ==
    /\ agent = "up"
    /\ body[c] = "run" /\ KillOf[c] = NoKill
    /\ body' = [body EXCEPT ![c] = "end"]
    /\ UNCHANGED <<queueVars, entryVars, loop, rejected, runners, rpc, killVars>>

\* PM.Kill: the table is read without runnersMux.
KillLookup(c) ==
    /\ agent = "up"
    /\ body[c] = "run" /\ KillOf[c] \in Ids
    /\ \/ /\ runners[KillOf[c]] = Nil
          /\ body' = [body EXCEPT ![c] = "end"]
          /\ UNCHANGED aim
       \/ /\ runners[KillOf[c]] # Nil
          /\ body' = [body EXCEPT ![c] = "kill"]
          /\ aim' = [aim EXCEPT ![c] = runners[KillOf[c]]]
    /\ UNCHANGED <<queueVars, entryVars, loop, rejected, runners, rpc, victims, mux>>

\* RunCmd has been called for c and is about to add its runner to the table.
Adding(c) == /\ \/ loop.pc = "run" /\ loop.cmd = c
                \/ c \in todo \cap Direct
             /\ c \in Known /\ runners[IdOf[c]] = Nil

\* The runtime ends the agent when it sees a map read during a map write: the one of
\* cleanUp, or of NewRunner for processCmds or for a direct caller.
KillLookupRace(c) ==
    /\ agent = "up"
    /\ body[c] = "run" /\ KillOf[c] \in Ids
    /\ mux = Nil
    /\ \E d \in Cmds : rpc[d] = "delete" \/ Adding(d)
    /\ agent' = "crashed"
    /\ UNCHANGED <<queues, lists, disp, prod, arrived, pmVars>>

\* PM.Killall: runnersMux is locked for the whole iteration over the table,
\* which holds at least the runner of the killall command itself.
KillallLock(c) ==
    /\ agent = "up"
    /\ body[c] = "run" /\ KillOf[c] = KillAll
    /\ mux = Nil
    /\ mux' = c
    /\ LET all == {runners[i] : i \in Ids} \ {Nil} IN
       \E v \in all : /\ aim' = [aim EXCEPT ![c] = v]
                      /\ victims' = [victims EXCEPT ![c] = all \ {v}]
    /\ body' = [body EXCEPT ![c] = "kill"]
    /\ UNCHANGED <<queueVars, entryVars, loop, rejected, runners, rpc>>

\* runner.kill <- 1 is received only by the select of run and by the one of the
\* restart delay.
Receptive(v) == rpc[v] \in {"open", "sleep"}

\* The kill body goes on to the next runner, or returns and unlocks.
KillSend(c) ==
    /\ agent = "up"
    /\ body[c] = "kill"
    /\ Receptive(aim[c])
    /\ rpc' = [rpc EXCEPT ![aim[c]] = "killed"]
    /\ \/ \E v \in victims[c] :
             /\ aim' = [aim EXCEPT ![c] = v]
             /\ victims' = [victims EXCEPT ![c] = @ \ {v}]
             /\ UNCHANGED <<body, mux>>
       \/ /\ victims[c] = {}
          /\ aim' = [aim EXCEPT ![c] = Nil]
          /\ body' = [body EXCEPT ![c] = "end"]
          /\ mux' = IF mux = c THEN Nil ELSE mux
          /\ UNCHANGED victims
    /\ UNCHANGED <<queueVars, entryVars, loop, rejected, runners>>

BodyStep(c) == \/ BodyEnd(c)
               \/ KillLookup(c)
               \/ KillLookupRace(c)
               \/ KillallLock(c)
               \/ KillSend(c)

SinkStep(s) == SinkGetNext(s) \/ SinkPushCmd(s) \/ SinkPushCmdToQueue(s)

LoopStep == LoopCheck \/ LoopWait \/ LoopReceiveQueued \/ LoopRunCmd

Next == \/ QueueStep /\ UNCHANGED pmVars
        \/ LoopStep
        \/ \E s \in Sinks : SinkStep(s)
        \/ \E c \in Cmds : DirectRunCmd(c) \/ RunnerStep(c) \/ BodyStep(c)

Spec == Init /\ [][Next]_vars

\* Goroutines are scheduled and channel operations that can proceed do proceed,
\* and every process ends some day.  Timers, kills and the choice between
\* restarting and reporting are not forced.
Fairness == /\ WF_vars(QueueStep /\ UNCHANGED pmVars)
            /\ WF_vars(LoopStep)
            /\ \A s \in Sinks : WF_vars(SinkStep(s))
            /\ \A c \in Cmds : /\ WF_vars(DirectRunCmd(c))
                               /\ WF_vars(RunnerStep(c))
                               /\ WF_vars(BodyStep(c))

FairSpec == Spec /\ Fairness

-----------------------------------------------------------------------------
(* Properties                                                              *)

Crashed == agent = "crashed"

Queued(c) == QueueOf[c] # NoQueue

\* The result of the command was delivered (resultCallback was called).
Answered(c) == c \in rejected \/ rpc[c] \in {"delete", "notify", "bcast", "done"}

\* The commands that came through a queue and whose runner is in the table.
RunningFrom(q) == {c \in Cmds \ Direct : QueueOf[c] = q /\ rpc[c] \in Live}

\* A direct command that names queue q has ended, and its cleanUp has signalled the
\* queue, although the command was never in it.
ForeignSignal(q) ==
    \E d \in Direct : QueueOf[d] = q /\ rpc[d] \in {"bcast", "done"}

\* RunCmd refused a command that was taken off queue q: it has no runner, so nobody
\* signals the queue for it.
Refused(q) == \E c \in rejected \ Direct : QueueOf[c] = q

\* Two commands of the same queue never run at the same time: the next one is
\* started only after cleanUp of the previous one ("so they must execute
\* serially", pm.go:210), whatever the producer, the dispatcher, the sinks, other
\* runners and refusals do in between.  It takes the foreign signal of a direct
\* command that names the queue to break this, and one that has not ended does not.
SerialExecution ==
    \A q \in Queues : ~ForeignSignal(q) => \A c, d \in RunningFrom(q) : c = d

\* The table and the runner goroutines agree: a runner that has not been cleaned
\* up is the one filed under its id, and no entry outlives its runner.  cleanUp
\* deletes by id, so an entry of another runner with that id would be lost.
RunnerTableExact ==
    \A c \in Cmds : rpc[c] \in Live <=> runners[IdOf[c]] = c

\* processCmds never has more than maxJobs commands running, although it counts
\* the table long before it adds to it and direct callers add to it meanwhile.
JobsBounded == Cardinality({c \in Cmds \ Direct : rpc[c] \in Live}) <= MaxJobs

\* A command was taken off its queue.
Served(c) == \/ prod.pc = "send" /\ prod.cmd = c
             \/ loop.pc = "run" /\ loop.cmd = c
             \/ rpc[c] # "none"
             \/ c \in rejected

\* A command is in the list that producerLoop takes the next command from.
Waiting(c) == /\ queues[QueueOf[c]] # Nil
              /\ \E i \in 1 .. Len(lists[queues[QueueOf[c]]].items) :
                    lists[queues[QueueOf[c]]].items[i] = c

\* The commands of a queue are taken in the order they were received, also across
\* the deletion and the new creation of the queue.
FifoQueues ==
    \A i, j \in 1 .. Len(arrived) :
        /\ i < j
        /\ QueueOf[arrived[i]] = QueueOf[arrived[j]]
        /\ Served(arrived[j])
        => ~Waiting(arrived[i])

\* Who will signal queue q next, or has just done so: dispatcherLoop that created
\* it, producerLoop that serves it, processCmds that starts a command of it, or a
\* runner that has yet to call Notify.
DispatcherHolds(q) == disp.pc \in {"pushFirst", "signal"} /\ QueueOf[disp.cmd] = q
ProducerHolds(q)   == prod.pc \in {"lookup", "remove", "send"} /\ prod.queue = q
LoopHolds(q)       == loop.pc = "run" /\ QueueOf[loop.cmd] = q
RunnerHolds(c, q)  == rpc[c] \in Live \cup {"notify"} /\ QueueOf[c] = q

Held(q) == \/ DispatcherHolds(q)
           \/ ProducerHolds(q)
           \/ LoopHolds(q)
           \/ \E c \in Cmds : RunnerHolds(c, q)

\* A queue in the map always has somebody who will get to its next command
\* ("When this command exists, it will auto signal the next command and so on",
\* queue.go:66): without one, its commands stay there for ever.  Nothing but the
\* refusal of one of its commands (pm.go:216) can leave it without.
QueueDriven == \A q \in Queues : queues[q] # Nil /\ ~Refused(q) => Held(q)

\* A queued command that was filed is in the list of its queue until it is taken
\* off: PushCmdToQueue "will queue the command for later execution" (pm.go:121).
QueuedNotLost ==
    \A c \in Cmds :
        /\ \E i \in 1 .. Len(arrived) : arrived[i] = c
        /\ ~((disp.pc = "lookup" \/ Pushing) /\ disp.cmd = c)
        => Crashed \/ Served(c) \/ Waiting(c)

\* While Killall iterates over the table, every runner it has yet to send to is
\* still the one in the table, so the iteration never visits a discarded runner.
KillallTargetsFiled ==
    mux # Nil => \A v \in victims[mux] \cup {aim[mux]} : runners[IdOf[v]] = v

\* A command that needs no queue "can run immediately" (pm.go:209): it is answered
\* in the end.  The code breaks this: jobsCond.Broadcast is called without the locker,
\* so it may come after processCmds counted the runners and before it waits.
UnqueuedAnswered == \A c \in Cmds : ~Queued(c) => <>(Crashed \/ Answered(c))

\* A finished command "will auto signal the next command" (queue.go:66): Notify
\* returns, so that the command can also announce its free slot.
NotifyReturns ==
    \A c \in Cmds : (rpc[c] = "notify") ~> (Crashed \/ rpc[c] # "notify")

\* process.killall kills what is "still running by the time of calling this
\* command" (docs/commands.md:92) and comes to an end.
KillallReturns ==
    \A c \in Cmds : (mux = c) ~> (Crashed \/ mux # c)
=============================================================================
