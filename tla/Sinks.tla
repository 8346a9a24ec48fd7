---------------------------------- MODULE Sinks ----------------------------------
(***************************************************************************)
(* How commands reach an agent and how their results leave it: the sinks,  *)
(* one goroutine per Redis (base/sink.go, base/sinkclient.go), the local   *)
(* transport (base/local.go), and the routing of results by the process    *)
(* manager (the callbacks of base/pm/pm.go).                               *)
(*                                                                         *)
(* The faults are those of the code's surroundings: a Redis goes away and  *)
(* comes back, taking a command with it whose pop was under way, and the   *)
(* agent dies and is started again.  What a job does is one step here      *)
(* (Runner has the details); the end of a job, where Run reports and       *)
(* cleans up, is modelled step by step.  The local server calls Run once   *)
(* more on a runner that is running, so a job has up to two goroutines in  *)
(* Run.  The commands name no queue: those that do take the way that       *)
(* ProcessManager models.                                                  *)
(***************************************************************************)
EXTENDS Naturals, Sequences, FiniteSets, FiniteSetsExt

CONSTANTS
    Sinks,        \* the keys of the configured sinks, one Redis each
    Local,        \* in place of a sink: the command comes over the local socket
    Cmds,         \* the commands clients send
    Traffic,      \* the sets of commands that are sent together
    SentTo,       \* the sink each of them is sent to, or Local
    IdOf,         \* their ids
    NoId,         \* the empty id
    Known,        \* the commands there is a factory for
    Malformed,    \* what does not decode to a command
    Sync,         \* the local commands whose client waits for the result
    ReplyTo,      \* for each sink its responseQueue, or NoQueue
    NoQueue,
    MaxJobs,      \* how many jobs there may be when processCmds takes a command
    MaxFaults     \* bound on the failures of a Redis and of the machine of the agent

ASSUME SinksAssumption ==
    /\ Local \notin Sinks
    /\ Traffic \subseteq SUBSET Cmds
    /\ SentTo \in [Cmds -> Sinks \cup {Local}]
    /\ Known \subseteq Cmds /\ Malformed \subseteq Cmds /\ Sync \subseteq Cmds
    /\ DOMAIN IdOf = Cmds /\ DOMAIN ReplyTo = Sinks
    /\ MaxJobs \in Nat /\ MaxFaults \in Nat

Goroutines == 0 .. 2   \* 0: who called RunCmd, 1: Run by NewRunner, 2: Run by the local server

VARIABLES
    redis,      \* for each sink: is its Redis "up" or "down"
    inbox,      \* for each sink: the list core:id that clients push to
    toSend,     \* the commands clients have yet to send
    replies,    \* for each result queue: the commands whose results are in it
    expiring,   \* the result queues that have a time to live
    pool,       \* for each sink: its idle connections, those that work and those that do not
    fetch,      \* for each sink: where its goroutine is, and the command it fetched
    handlers,   \* routeResultHandlers: the routes that have a handler
    loop,       \* processCmds: the command it is at, or {}
    slot,       \* processCmds has found room for a job, and takes the next command
    table,      \* runners: the commands that are filed, under their ids
    run,        \* for each command and goroutine: where it is in RunCmd or Run
    statsd,     \* the commands whose statistics were stopped
    result,     \* the commands that are done: their Wait returns
    client,     \* for each local command: where its server goroutine is
    agent,      \* "up" or "down"
    faults,     \* how many of the failures have happened
    started,    \* history: how many goroutines ran a process for each command
    answered    \* history: how many results of each command were pushed

redisVars == <<redis, inbox, toSend, replies, expiring>>
fetchVars == <<pool, fetch, handlers>>
jobVars   == <<loop, slot, table, run, statsd, result>>
history   == <<started, answered>>
vars == <<redisVars, fetchVars, jobVars, client, agent, faults, history>>

Fetched == {c \in Cmds : SentTo[c] \in Sinks}
Direct  == Cmds \ Fetched

\* The queue Respond pushes to: the responseQueue of the sink, or one for the id.
Queue(s, c) == <<s, IF ReplyTo[s] = NoQueue THEN IdOf[c] ELSE ReplyTo[s]>>

Queues == {Queue(SentTo[c], c) : c \in {d \in Fetched \ Malformed : IdOf[d] # NoId}}

\* A goroutine has one command in its hands, or none.
Held == {{}} \cup {{c} : c \in Fetched}

Idle == [pc |-> "register", cmd |-> {}]

NoConnections == [s \in Sinks |-> [ok |-> 0, stale |-> 0]]

RunPc == {"none", "process", "callback", "expire", "broken", "cleanup", "end"}

TypeOK ==
    /\ redis \in [Sinks -> {"up", "down"}]
    /\ inbox \in [Sinks -> Seq(Fetched)]
    /\ toSend \subseteq Cmds
    /\ replies \in [Queues -> Seq(Cmds)]
    /\ expiring \subseteq {q \in Queues : replies[q] # <<>>}
    /\ pool \in [Sinks -> [ok : Nat, stale : Nat]]
    /\ fetch \in [Sinks -> [pc : {"register", "get", "blpop", "broken", "sleep", "push"},
                            cmd : Held]]
    /\ \A s \in Sinks : fetch[s].pc = "push" <=> fetch[s].cmd # {}
    /\ handlers \subseteq Sinks
    /\ loop \in Held /\ slot \in BOOLEAN
    /\ table \subseteq Cmds
    /\ run \in [Cmds -> [Goroutines -> RunPc]]
    /\ statsd \subseteq Cmds /\ result \subseteq Cmds
    /\ client \in [Direct -> {"none", "run", "refused", "second", "wait", "reply", "closed"}]
    /\ agent \in {"up", "down"} /\ faults \in 0 .. MaxFaults
    /\ started \in [Cmds -> Nat] /\ answered \in [Cmds -> Nat]

NothingRuns == [c \in Cmds |-> [g \in Goroutines |-> "none"]]

Init ==
    /\ redis = [s \in Sinks |-> "up"]
    /\ inbox = [s \in Sinks |-> <<>>]
    /\ toSend \in Traffic
    /\ replies = [q \in Queues |-> <<>>]
    /\ expiring = {}
    /\ pool = NoConnections
    /\ fetch = [s \in Sinks |-> Idle]
    /\ handlers = {}
    /\ loop = {} /\ slot = FALSE /\ table = {} /\ run = NothingRuns /\ statsd = {} /\ result = {}
    /\ client = [c \in Direct |-> "none"]
    /\ agent = "up" /\ faults = 0
    /\ started = [c \in Cmds |-> 0] /\ answered = [c \in Cmds |-> 0]

-----------------------------------------------------------------------------
(* Clients and Redis                                                       *)

\* A client pushes a command.
ClientPush(c) ==
    LET s == SentTo[c] IN
    /\ c \in toSend \cap Fetched
    /\ redis[s] = "up"
    /\ inbox' = [inbox EXCEPT ![s] = Append(@, c)]
    /\ toSend' = toSend \ {c}
    /\ UNCHANGED <<redis, replies, expiring, fetchVars, jobVars, client, agent, faults, history>>

\* The time to live of a result queue is over.
QueueExpires(q) ==
    /\ q \in expiring
    /\ redis[q[1]] = "up"
    /\ replies' = [replies EXCEPT ![q] = <<>>]
    /\ expiring' = expiring \ {q}
    /\ UNCHANGED <<redis, inbox, toSend, fetchVars, jobVars, client, agent, faults, history>>

\* A Redis goes away, and with it every connection, idle or in use.  A BLPOP that was
\* waiting may have taken a command that never reaches the agent.
RedisFails(s) ==
    /\ redis[s] = "up"
    /\ faults < MaxFaults
    /\ redis' = [redis EXCEPT ![s] = "down"]
    /\ faults' = faults + 1
    /\ \/ UNCHANGED inbox
       \/ /\ fetch[s].pc = "blpop" /\ inbox[s] # <<>>
          /\ inbox' = [inbox EXCEPT ![s] = Tail(@)]
    /\ pool' = [pool EXCEPT ![s] = [ok |-> 0, stale |-> @.ok + @.stale]]
    /\ fetch' = [fetch EXCEPT ![s].pc = IF @ = "blpop" THEN "broken" ELSE @]
    /\ run' = [c \in Cmds |-> [g \in Goroutines |->
                   IF SentTo[c] = s /\ run[c][g] = "expire" THEN "broken" ELSE run[c][g]]]
    /\ UNCHANGED <<toSend, replies, expiring, handlers, loop, slot, table, statsd, result, client,
                   agent, history>>

\* And is back, with what it had.
RedisReturns(s) ==
    /\ redis[s] = "down"
    /\ redis' = [redis EXCEPT ![s] = "up"]
    /\ UNCHANGED <<inbox, toSend, replies, expiring, fetchVars, jobVars, client, agent, faults,
                   history>>

\* What is left of an agent that dies: nothing.
Volatile ==
    /\ agent' = "down"
    /\ pool' = NoConnections
    /\ fetch' = [s \in Sinks |-> Idle]
    /\ handlers' = {}
    /\ loop' = {} /\ slot' = FALSE /\ table' = {} /\ run' = NothingRuns /\ statsd' = {} /\ result' = {}
    /\ client' = [c \in Direct |-> IF client[c] = "none" THEN "none" ELSE "closed"]
    /\ UNCHANGED <<redisVars, history>>

-----------------------------------------------------------------------------
(* The pool of connections of a sink                                       *)

\* Get hands out the connection that was put back last, so one that died with its
\* Redis only when there is no other, and dials when there is none.
WorkingConnection(s) == pool[s].ok > 0 \/ (pool[s].stale = 0 /\ redis[s] = "up")

\* The pool without the connection that Get took, which works or does not.
Taken(p) == IF p.ok > 0 THEN [p EXCEPT !.ok = @ - 1]
            ELSE IF p.stale > 0 THEN [p EXCEPT !.stale = @ - 1]
            ELSE p

\* Close puts a connection back; one that failed is dropped.
Returned(p) == [p EXCEPT !.ok = @ + 1]

-----------------------------------------------------------------------------
(* The goroutine of a sink                                                 *)

FetchAt(s, pc) == agent = "up" /\ fetch[s].pc = pc

\* AddRouteResultHandler: the results of commands with the route s go to this sink.
Register(s) ==
    /\ FetchAt(s, "register")
    /\ handlers' = handlers \cup {s}
    /\ fetch' = [fetch EXCEPT ![s].pc = "get"]
    /\ UNCHANGED <<redisVars, pool, jobVars, client, agent, faults, history>>

\* The map of handlers has no lock.  A write next to another write or to the read of
\* resultCallback may end the agent; of two writes one may also be lost.
RegisterRace(s) ==
    /\ FetchAt(s, "register")
    /\ \/ /\ \/ \E t \in Sinks \ {s} : fetch[t].pc = "register"
             \/ \E c \in Cmds, g \in Goroutines : run[c][g] = "callback"
          /\ Volatile
          /\ UNCHANGED faults
       \/ \E t \in Sinks \ {s} :
             /\ fetch[t].pc = "register"
             /\ handlers' = handlers \cup {s}
             /\ fetch' = [fetch EXCEPT ![s].pc = "get", ![t].pc = "get"]
             /\ UNCHANGED <<redisVars, pool, jobVars, client, agent, faults, history>>

\* After an error the goroutine sleeps, unless the last error is long ago, and goes on.
AfterError(s) == \E pc \in {"sleep", "get"} : fetch' = [fetch EXCEPT ![s].pc = pc]

\* GetNext takes a connection and waits in BLPOP.
Connect(s) ==
    /\ FetchAt(s, "get")
    /\ pool' = [pool EXCEPT ![s] = Taken(@)]
    /\ \/ WorkingConnection(s) /\ fetch' = [fetch EXCEPT ![s].pc = "blpop"]
       \/ ~WorkingConnection(s) /\ AfterError(s)
    /\ UNCHANGED <<redisVars, handlers, jobVars, client, agent, faults, history>>

\* The connection broke while BLPOP was waiting.
ConnectionLost(s) ==
    /\ FetchAt(s, "broken")
    /\ AfterError(s)
    /\ UNCHANGED <<redisVars, pool, handlers, jobVars, client, agent, faults, history>>

\* Mutant: the last command stays in the list.
PopPeeks(s) == inbox' = IF Len(inbox[s]) > 1 THEN [inbox EXCEPT ![s] = Tail(@)] ELSE inbox

\* BLPOP takes the first command out of the list.
Pop(s) == inbox' = [inbox EXCEPT ![s] = Tail(@)]

\* GetNext returns the popped command, which gets the route of the sink, or an error.
GetNext(s) ==
    /\ FetchAt(s, "blpop")
    /\ inbox[s] # <<>>
    /\ Pop(s)
    /\ pool' = [pool EXCEPT ![s] = Returned(@)]
    /\ \/ /\ Head(inbox[s]) \notin Malformed
          /\ fetch' = [fetch EXCEPT ![s] = [pc |-> "push", cmd |-> {Head(inbox[s])}]]
       \/ /\ Head(inbox[s]) \in Malformed
          /\ AfterError(s)
    /\ UNCHANGED <<redis, toSend, replies, expiring, handlers, jobVars, client, agent,
                   faults, history>>

Wake(s) ==
    /\ FetchAt(s, "sleep")
    /\ fetch' = [fetch EXCEPT ![s].pc = "get"]
    /\ UNCHANGED <<redisVars, pool, handlers, jobVars, client, agent, faults, history>>

\* processCmds goes on when there are fewer jobs than maxJobs.  Whether it gets to count
\* them again once it waits depends on the broadcast of cleanUp, which may be lost
\* (UnqueuedAnswered of ProcessManager).
FindSlot ==
    /\ agent = "up"
    /\ loop = {} /\ ~slot
    /\ Cardinality(table) < MaxJobs
    /\ slot' = TRUE
    /\ UNCHANGED <<redisVars, fetchVars, loop, table, run, statsd, result, client, agent, faults,
                   history>>

\* Mutant: a command is dropped if processCmds is not ready for it.
PushCmdDrops(s) ==
    /\ FetchAt(s, "push")
    /\ loop' = IF slot THEN fetch[s].cmd ELSE loop
    /\ slot' = FALSE
    /\ fetch' = [fetch EXCEPT ![s] = [pc |-> "get", cmd |-> {}]]
    /\ UNCHANGED <<redisVars, pool, handlers, table, run, statsd, result, client, agent, faults, history>>

\* PushCmd: processCmds takes the command, if it has found a slot.
PushCmd(s) ==
    /\ FetchAt(s, "push")
    /\ loop = {} /\ slot
    /\ slot' = FALSE
    /\ loop' = fetch[s].cmd
    /\ fetch' = [fetch EXCEPT ![s] = [pc |-> "get", cmd |-> {}]]
    /\ UNCHANGED <<redisVars, pool, handlers, table, run, statsd, result, client, agent, faults, history>>

-----------------------------------------------------------------------------
(* RunCmd, and the end of Run                                              *)

Filed(id) == \E d \in table : IdOf[d] = id

\* RunCmd files a runner and starts its goroutine, or reports that the command is
\* unknown or its id taken.
RunCmd(c) ==
    \/ /\ c \in Known /\ ~Filed(IdOf[c])
       /\ table' = table \cup {c}
       /\ run' = [run EXCEPT ![c][1] = "process"]
       /\ started' = [started EXCEPT ![c] = @ + 1]
    \/ /\ c \notin Known \/ Filed(IdOf[c])
       /\ run' = [run EXCEPT ![c][0] = "callback"]
       /\ UNCHANGED <<table, started>>

\* processCmds runs what it took; a refusal is reported before it goes on.
LoopRuns ==
    /\ agent = "up"
    /\ \E c \in loop :
        /\ run[c][0] = "none"
        /\ RunCmd(c)
        /\ loop' = IF run'[c][0] = "callback" THEN loop ELSE {}
    /\ UNCHANGED <<redisVars, fetchVars, slot, statsd, result, client, agent, faults, answered>>

At(c, g, pc) == agent = "up" /\ run[c][g] = pc
Goto(c, g, pc) == run' = [run EXCEPT ![c][g] = pc]

\* Mutant: a second Stop does nothing.
RunEndsTwice(c, g) ==
    /\ At(c, g, "process")
    /\ statsd' = statsd \cup {c}
    /\ Goto(c, g, "callback")
    /\ UNCHANGED <<redisVars, fetchVars, loop, slot, table, result, client, agent, faults,
                   history>>

\* run() returns, the job is not to be restarted, and the deferred statsd.Stop closes
\* its queue.  Closing it again panics.
RunEnds(c, g) ==
    /\ At(c, g, "process")
    /\ \/ /\ c \notin statsd
          /\ statsd' = statsd \cup {c}
          /\ Goto(c, g, "callback")
          /\ UNCHANGED <<redisVars, fetchVars, loop, slot, table, result, client, agent, faults,
                         history>>
       \/ /\ c \in statsd
          /\ Volatile
          /\ UNCHANGED faults

\* Mutant: every sink gets every result.
RoutesOfAll(c) == handlers

\* The handlers of the route of a command; one from the local socket has no route.
RoutesOf(c) == handlers \cap {SentTo[c]}

\* resultCallback returns: Run releases those who wait, RunCmd returns its error.
Reported(c, g) ==
    /\ Goto(c, g, IF g = 0 THEN "end" ELSE "cleanup")
    /\ result' = IF g = 0 THEN result ELSE result \cup {c}
    /\ loop' = IF g = 0 THEN loop \ {c} ELSE loop
    /\ client' = IF g = 0 /\ c \in Direct THEN [client EXCEPT ![c] = "reply"] ELSE client

\* resultCallback calls the handler of the route, whose Respond takes a connection
\* and pushes the result.
RPush(c, g) ==
    /\ At(c, g, "callback")
    /\ IdOf[c] # NoId
    /\ \E s \in RoutesOf(c) :
        /\ WorkingConnection(s)
        /\ pool' = [pool EXCEPT ![s] = Taken(@)]
        /\ replies' = [replies EXCEPT ![Queue(s, c)] = Append(@, c)]
    /\ answered' = [answered EXCEPT ![c] = @ + 1]
    /\ Goto(c, g, "expire")
    /\ UNCHANGED <<redis, inbox, toSend, expiring, fetch, handlers, loop, slot, table, statsd,
                   result, client, agent, faults, started>>

\* There is no handler, no id to respond to, or no working connection: the result is
\* gone.
NotPushed(c, g) ==
    /\ At(c, g, "callback")
    /\ \/ /\ IdOf[c] = NoId \/ RoutesOf(c) = {}
          /\ UNCHANGED pool
       \/ /\ IdOf[c] # NoId
          /\ \E s \in RoutesOf(c) : /\ ~WorkingConnection(s)
                                    /\ pool' = [pool EXCEPT ![s] = Taken(@)]
    /\ Reported(c, g)
    /\ UNCHANGED <<redisVars, fetch, handlers, slot, table, statsd, agent, faults, history>>

\* A queue that is still there gets a time to live.
Expiring(q) == IF replies[q] # <<>> THEN expiring \cup {q} ELSE expiring

\* Respond sets it, unless the connection broke after the push.
Expire(c, g) ==
    /\ \/ /\ At(c, g, "expire")
          /\ expiring' = Expiring(Queue(SentTo[c], c))
          /\ pool' = [pool EXCEPT ![SentTo[c]] = Returned(@)]
       \/ /\ At(c, g, "broken")
          /\ UNCHANGED <<expiring, pool>>
    /\ Reported(c, g)
    /\ UNCHANGED <<redis, inbox, toSend, replies, fetch, handlers, slot, table, statsd, agent,
                   faults, history>>

\* cleanUp deletes the entry with the id of the command.
CleanUp(c, g) ==
    /\ At(c, g, "cleanup")
    /\ Goto(c, g, "end")
    /\ table' = {d \in table : IdOf[d] # IdOf[c]}
    /\ UNCHANGED <<redisVars, fetchVars, loop, slot, statsd, result, client, agent, faults, history>>

-----------------------------------------------------------------------------
(* The local transport                                                     *)

ClientAt(c, pc) == agent = "up" /\ client[c] = pc

\* A client connects; what does not decode is answered with an error.
Accept(c) ==
    /\ ClientAt(c, "none")
    /\ c \in toSend
    /\ toSend' = toSend \ {c}
    /\ client' = [client EXCEPT ![c] = IF c \in Malformed THEN "reply" ELSE "run"]
    /\ UNCHANGED <<redis, inbox, replies, expiring, fetchVars, jobVars, agent, faults, history>>

\* server: RunCmd.  Its error is answered, after it was reported.
ServerRuns(c) ==
    /\ ClientAt(c, "run")
    /\ RunCmd(c)
    /\ client' = [client EXCEPT ![c] = IF run'[c][0] = "callback" THEN "refused" ELSE "second"]
    /\ UNCHANGED <<redisVars, fetchVars, loop, slot, statsd, result, agent, faults, answered>>

\* go runner.Run(), although NewRunner has started Run, and Wait if the client wants
\* the result.
ServerRunsAgain(c) ==
    /\ ClientAt(c, "second")
    /\ Goto(c, 2, "process")
    /\ started' = [started EXCEPT ![c] = @ + 1]
    /\ client' = [client EXCEPT ![c] = IF c \in Sync THEN "wait" ELSE "reply"]
    /\ UNCHANGED <<redisVars, fetchVars, loop, slot, table, statsd, result, agent, faults, answered>>

\* Wait returns once one of the two goroutines is done.
WaitReturns(c) ==
    /\ ClientAt(c, "wait")
    /\ c \in result
    /\ client' = [client EXCEPT ![c] = "reply"]
    /\ UNCHANGED <<redisVars, fetchVars, jobVars, agent, faults, history>>

\* The deferred write of the answer, and the close.
Reply(c) ==
    /\ ClientAt(c, "reply")
    /\ client' = [client EXCEPT ![c] = "closed"]
    /\ UNCHANGED <<redisVars, fetchVars, jobVars, agent, faults, history>>

-----------------------------------------------------------------------------
\* The agent dies between any two steps, and is started again.
Crash ==
    /\ agent = "up"
    /\ faults < MaxFaults
    /\ faults' = faults + 1
    /\ Volatile

\* Serve goes on after an error of Accept with no connection, and the server it starts
\* panics on its first read: that ends the agent.
AcceptFails == Crash

Restart ==
    /\ agent = "down"
    /\ agent' = "up"
    /\ UNCHANGED <<redisVars, fetchVars, jobVars, client, faults, history>>

SinkStep(s) == \/ Register(s) \/ RegisterRace(s) \/ Connect(s) \/ ConnectionLost(s)
               \/ GetNext(s) \/ Wake(s) \/ PushCmd(s)

\* The steps of a goroutine of a job that has reported its end.
ReportStep(c, g) == RPush(c, g) \/ NotPushed(c, g) \/ Expire(c, g)

RunStep(c, g) == RunEnds(c, g) \/ ReportStep(c, g) \/ CleanUp(c, g)

ServerStep(c) == ServerRuns(c) \/ ServerRunsAgain(c) \/ WaitReturns(c) \/ Reply(c)

Next ==
    \/ \E c \in Fetched : ClientPush(c)
    \/ \E s \in Sinks : RedisFails(s) \/ RedisReturns(s) \/ SinkStep(s)
    \/ \E q \in Queues : QueueExpires(q)
    \/ FindSlot
    \/ LoopRuns
    \/ \E c \in Cmds, g \in Goroutines : RunStep(c, g)
    \/ \E c \in Direct : Accept(c) \/ ServerStep(c)
    \/ AcceptFails
    \/ Crash
    \/ Restart

Spec == Init /\ [][Next]_vars

\* The goroutines of the sinks go on when they can, processCmds runs what it took, a
\* job that has ended reports it, and a queue expires some day.  Nobody has to send a
\* command, a Redis or the agent may stay away, a process need not end, cleanUp may
\* wait for the queues for ever, and processCmds for a slot.  Jobs and expiries are
\* finitely many, so it is enough that some of them go on; a sink that cannot reach
\* its Redis must not keep the others from going on.
Fairness == /\ \A s \in Sinks : WF_vars(SinkStep(s))
            /\ WF_vars(\E q \in Queues : QueueExpires(q))
            /\ WF_vars(LoopRuns \/ \E c \in Cmds, g \in Goroutines : ReportStep(c, g))

FairSpec == Spec /\ Fairness

-----------------------------------------------------------------------------
(* Properties                                                              *)

\* A popped command is gone from Redis, so whatever fails and however often the agent
\* is started again, a command is run at most once and its result pushed at most once
\* (sinkclient.go:84, 112).
AtMostOnce == \A c \in Fetched : started[c] <= 1 /\ answered[c] <= 1

\* A result is only found where its own client looks for it: in the Redis its command
\* came from, never in that of another sink, and never if it came over the local
\* socket (sink.go:72, pm.go:403).
AnsweredWhereAsked ==
    \A q \in Queues : \A k \in DOMAIN replies[q] :
        LET c == replies[q][k] IN c \in Fetched /\ q = Queue(SentTo[c], c)

\* The job of a fetched command can be found by its id until it has cleaned up itself,
\* although the second Run of a local job with the same id cleans up by id as well
\* (local.go:82, pm.go:353).
LiveIsFiled ==
    \A c \in Fetched : run[c][1] \notin {"none", "end"} => c \in table

\* Something failed, or what is left of a failure can still do harm: a dead connection
\* in the pool, which costs the result that is given to it, or a handler that was lost
\* by the race in AddRouteResultHandler.
Disturbed(s) == \/ redis[s] = "down" \/ agent = "down"
                \/ pool[s].stale > 0
                \/ s \notin handlers /\ fetch[s].pc # "register"

\* What the answer to a command needs of the rest of the agent: processCmds finds a slot
\* whenever it looks for one, which takes jobs that end and broadcasts that are not
\* lost, and the process of the command ends.
Served(c) ==
    /\ []<>(slot \/ loop # {})
    /\ run[c][1] = "process" ~> run[c][1] # "process"

\* However Redis and agent failed before, and whatever else is in the list, a command
\* that waits in Redis is answered, and a result nobody fetches does not stay there, if
\* they do not fail again and the pool has got rid of its dead connections, and if
\* processCmds finds a slot and the process ends (sink.go:61-80, sinkclient.go:112-117).
AnswersArrive ==
    \A c \in {d \in Fetched \ Malformed : IdOf[d] # NoId} :
        LET s == SentTo[c] IN
        Served(c) =>
            ((\E k \in DOMAIN inbox[s] : inbox[s][k] = c)
                ~> \/ answered[c] > 0 /\ replies[Queue(s, c)] = <<>>
                   \/ Disturbed(s))
=============================================================================
