----------------------------------- MODULE Logs -----------------------------------
(***************************************************************************)
(* The way of a log message: from the runner of a job through the message  *)
(* handlers of the process manager to the loggers of its agent             *)
(* (base/logger, core0/logger/config.go), and from the agents of the       *)
(* containers through the list core.logs of the private Redis to the       *)
(* loggers of core0 (core0/logger/forwarder.go).                           *)
(*                                                                         *)
(* A container has one logger, the Redis logger, in front of the private   *)
(* Redis.  core0 stores in a database, and where it is configured in the   *)
(* list core.logs of the public Redis as well; what it prints is left out. *)
(* Each message is stamped with its time, which with the id of its command *)
(* and its level is the key of its row.                                    *)
(*                                                                         *)
(* The faults: a Redis goes away and comes back, with or without its list; *)
(* a connection breaks when Redis has executed a call but not answered it; *)
(* the agent of a container ends with what it has not sent.                *)
(***************************************************************************)
EXTENDS Integers, Sequences, FiniteSets

CONSTANTS
    Cores,       \* the agents of the containers
    Core0,       \* the agent of the machine
    Msgs,        \* the messages that jobs write
    Scenarios,   \* which messages are written together, and whether core0 has a Redis logger
    From,        \* the agent whose job writes a message
    CommandOf,   \* the id of its command
    NoId,        \* the empty id
    LevelOf,     \* its level
    EpochOf,     \* the time it is stamped with
    LogLevels,   \* the levels its command asks for, none if it does not say
    Defaults,    \* the levels core0's loggers are configured with
    ChanSize,    \* the capacity of the channel of a Redis logger
    QueueSize,   \* the length a list is trimmed to
    MaxFaults    \* bound on the faults

Agents == Cores \cup {Core0}
Redises == {"private", "public"}

ASSUME LogsAssumption ==
    /\ Core0 \notin Cores /\ IsFiniteSet(Cores)
    /\ Scenarios \subseteq [msgs : SUBSET Msgs, public : BOOLEAN]
    /\ From \in [Msgs -> Agents]
    /\ DOMAIN CommandOf = Msgs
    /\ LevelOf \in [Msgs -> Nat] /\ EpochOf \in [Msgs -> Nat]
    /\ LogLevels \in [Msgs -> SUBSET Nat] /\ Defaults \subseteq Nat
    /\ {ChanSize, QueueSize} \subseteq Nat \ {0}
    /\ MaxFaults \in Nat

VARIABLES
    hasPublic,  \* core0 is configured with a Redis logger
    toLog,      \* the messages jobs have yet to write
    sending,    \* the messages whose runner waits to put them into the channel
    ch,         \* for each agent: the channel of its Redis logger
    pusher,     \* for each agent: where its pusher is, and the record it has
    conn,       \* for each agent: the connection of its pusher
    list,       \* for each Redis: the list core.logs
    up,         \* the Redises that answer
    forwarder,  \* where the forwarder is, its connection, and the record it has
    batch,      \* the records whose goroutine waits for its database transaction
    db,         \* the records in the database
    dead,       \* the containers that ended
    faults,     \* how many faults have happened
    written,    \* history: the messages jobs have written
    pushed,     \* history: for each Redis, what was ever pushed
    lostUp      \* history: for each agent, the records it lost while its Redis answered

logVars == <<hasPublic, toLog, sending, ch, pusher, conn, list, up, forwarder, batch, db, dead, faults,
             written, pushed, lostUp>>

RedisOf(a) == IF a = Core0 THEN "public" ELSE "private"

Waiting == [pc |-> "get", rec |-> {}]

\* The one record of a pusher, or of the forwarder, that has one.
TheRecord(rec) == CHOOSE m \in rec : TRUE

LogTypeOK ==
    /\ hasPublic \in BOOLEAN
    /\ toLog \subseteq Msgs /\ sending \subseteq Msgs
    /\ ch \in [Agents -> Seq(Msgs)]
    /\ pusher \in [Agents -> [pc : {"get", "wait", "rpush", "ltrim"}, rec : SUBSET Msgs]]
    /\ conn \in [Agents -> {"ok", "broken"}]
    /\ list \in [Redises -> Seq(Msgs)]
    /\ up \subseteq Redises
    /\ forwarder \in [pc : {"dial", "blpop", "send"}, conn : {"ok", "broken"}, rec : SUBSET Msgs]
    /\ batch \subseteq Msgs /\ db \subseteq Msgs
    /\ dead \subseteq Cores
    /\ faults \in 0 .. MaxFaults
    /\ written \subseteq Msgs
    /\ pushed \in [Redises -> Seq(Msgs)]
    /\ lostUp \in [Agents -> Nat]

LogInit ==
    /\ \E s \in Scenarios : toLog = s.msgs /\ hasPublic = s.public
    /\ sending = {}
    /\ ch = [a \in Agents |-> <<>>]
    /\ pusher = [a \in Agents |-> Waiting]
    /\ conn = [a \in Agents |-> "broken"]
    /\ list = [r \in Redises |-> <<>>] /\ pushed = list
    /\ up = Redises
    /\ forwarder = [pc |-> "dial", conn |-> "broken", rec |-> {}]
    /\ batch = {} /\ db = {} /\ dead = {} /\ faults = 0 /\ written = {}
    /\ lostUp = [a \in Agents |-> 0]

-----------------------------------------------------------------------------
(* The message handlers of an agent                                        *)

\* Levels decided by the command, else by the configuration of the logger.
IsLoggable(defaults, m) ==
    IF LogLevels[m] # {} THEN LevelOf[m] \in LogLevels[m]
    ELSE defaults = {} \/ LevelOf[m] \in defaults

\* What msgCallback passes on to the handlers.
Handled(m) == LogLevels[m] = {} \/ LevelOf[m] \in LogLevels[m]

\* A job writes in order, and its runner is not ahead of its handlers.
SameJob(m, n) == From[m] = From[n] /\ CommandOf[m] = CommandOf[n]

NextOfJob(m) ==
    /\ m \in toLog /\ From[m] \notin dead
    /\ \A n \in toLog : SameJob(m, n) => EpochOf[m] <= EpochOf[n]
    /\ ~\E n \in sending : SameJob(m, n)

LogLogic(m, stored, sent) ==
    /\ toLog' = toLog \ {m}
    /\ written' = written \cup {m}
    /\ batch' = IF stored THEN batch \cup {m} ELSE batch
    /\ sending' = IF sent THEN sending \cup {m} ELSE sending
    /\ UNCHANGED <<hasPublic, ch, pusher, conn, list, up, forwarder, db, dead, faults, pushed, lostUp>>

\* msgCallback in a container, whose Redis logger has no default levels.
LogInContainer(m) ==
    /\ NextOfJob(m) /\ From[m] # Core0
    /\ LogLogic(m, FALSE, Handled(m) /\ IsLoggable({}, m))

\* msgCallback in core0: the database logger, then the Redis logger.
LogInCore0(m) ==
    /\ NextOfJob(m) /\ From[m] = Core0
    /\ LET ok == Handled(m) /\ IsLoggable(Defaults, m) IN LogLogic(m, ok, ok /\ hasPublic)

\* LogRecord of the Redis logger: the channel takes the record when it has room.
Send(m) ==
    LET a == From[m] IN
    /\ m \in sending
    /\ Len(ch[a]) < ChanSize
    /\ ch' = [ch EXCEPT ![a] = Append(@, m)]
    /\ sending' = sending \ {m}
    /\ UNCHANGED <<hasPublic, toLog, written, pusher, conn, list, up, forwarder, batch, db, dead, faults, pushed, lostUp>>

-----------------------------------------------------------------------------
(* The pusher of a Redis logger                                            *)

Runs(a) == a \notin dead

PusherAt(a, pc) == Runs(a) /\ pusher[a].pc = pc

Goto(a, pc) == pusher' = [pusher EXCEPT ![a].pc = pc]

PusherOnly == UNCHANGED <<hasPublic, toLog, written, sending, up, forwarder, batch, db, dead, faults>>

\* Mutant: waits for Redis to come back.
GetWaits(a) ==
    /\ PusherAt(a, "get") /\ RedisOf(a) \in up
    /\ conn' = [conn EXCEPT ![a] = "ok"]
    /\ Goto(a, "wait")
    /\ UNCHANGED <<ch, list, pushed, lostUp>> /\ PusherOnly

\* push starts: it asks the pool for a connection before it has a record.  The pool has
\* none to give, since push only ever returns one that failed, so it dials; where that
\* fails, the error is given to the first call.
Get(a) ==
    /\ PusherAt(a, "get")
    /\ conn' = [conn EXCEPT ![a] = IF RedisOf(a) \in up THEN "ok" ELSE "broken"]
    /\ Goto(a, "wait")
    /\ UNCHANGED <<ch, list, pushed, lostUp>> /\ PusherOnly

Receive(a) ==
    /\ PusherAt(a, "wait")
    /\ ch[a] # <<>>
    /\ pusher' = [pusher EXCEPT ![a] = [pc |-> "rpush", rec |-> {Head(ch[a])}]]
    /\ ch' = [ch EXCEPT ![a] = Tail(@)]
    /\ UNCHANGED <<conn, list, pushed, lostUp>> /\ PusherOnly

\* Redis executes the RPUSH of the record of a.
Pushed(a) ==
    LET r == RedisOf(a)
        m == TheRecord(pusher[a].rec) IN
    /\ list' = [list EXCEPT ![r] = Append(@, m)]
    /\ pushed' = [pushed EXCEPT ![r] = Append(@, m)]

RPush(a) ==
    /\ PusherAt(a, "rpush") /\ conn[a] = "ok"
    /\ Pushed(a)
    /\ pusher' = [pusher EXCEPT ![a] = [pc |-> "ltrim", rec |-> {}]]
    /\ UNCHANGED <<ch, conn, lostUp>> /\ PusherOnly

\* Mutant: a failed record goes back into the channel.
RPushFailsRetries(a) ==
    /\ PusherAt(a, "rpush") /\ conn[a] = "broken"
    /\ pusher' = [pusher EXCEPT ![a] = Waiting]
    /\ ch' = [ch EXCEPT ![a] = Append(@, TheRecord(pusher[a].rec))]
    /\ UNCHANGED <<conn, list, pushed, lostUp>> /\ PusherOnly

\* Mutant: goes on with the same connection.
RPushFailsGoesOn(a) ==
    /\ PusherAt(a, "rpush") /\ conn[a] = "broken"
    /\ pusher' = [pusher EXCEPT ![a] = [pc |-> "wait", rec |-> {}]]
    /\ lostUp' = IF RedisOf(a) \in up THEN [lostUp EXCEPT ![a] = @ + 1] ELSE lostUp
    /\ UNCHANGED <<ch, conn, list, pushed>> /\ PusherOnly

\* The call fails: push returns the error, and the record is gone.
RPushFails(a) ==
    /\ PusherAt(a, "rpush") /\ conn[a] = "broken"
    /\ pusher' = [pusher EXCEPT ![a] = Waiting]
    /\ lostUp' = IF RedisOf(a) \in up THEN [lostUp EXCEPT ![a] = @ + 1] ELSE lostUp
    /\ UNCHANGED <<ch, conn, list, pushed>> /\ PusherOnly

\* LTRIM -QueueSize -1: the last QueueSize records stay.
Trimmed(s) == SubSeq(s, IF Len(s) > QueueSize THEN Len(s) - QueueSize + 1 ELSE 1, Len(s))

\* Mutant: LTRIM is left to the next start of push.
LTrimSkipped(a) ==
    /\ PusherAt(a, "ltrim")
    /\ Goto(a, "wait")
    /\ UNCHANGED <<ch, conn, list, pushed, lostUp>> /\ PusherOnly

LTrim(a) ==
    LET r == RedisOf(a) IN
    /\ PusherAt(a, "ltrim")
    /\ list' = IF conn[a] = "ok" THEN [list EXCEPT ![r] = Trimmed(@)] ELSE list
    /\ Goto(a, IF conn[a] = "ok" THEN "wait" ELSE "get")
    /\ UNCHANGED <<ch, conn, pushed, lostUp>> /\ PusherOnly

-----------------------------------------------------------------------------
(* The forwarder of core0                                                  *)

\* forward dials the private Redis; it tries again every two seconds.
Dial ==
    /\ forwarder.pc = "dial" /\ "private" \in up
    /\ forwarder' = [pc |-> "blpop", conn |-> "ok", rec |-> {}]
    /\ UNCHANGED <<hasPublic, toLog, written, sending, ch, pusher, conn, list, up, batch, db, dead, faults, pushed, lostUp>>

\* BLPOP returns a record, which goes to the loggers whatever its level: to the database
\* at once, and to the channel of the Redis logger in Resend.
Forward ==
    /\ forwarder.pc = "blpop" /\ forwarder.conn = "ok" /\ list["private"] # <<>>
    /\ list' = [list EXCEPT !["private"] = Tail(@)]
    /\ LET m == Head(list["private"]) IN
        /\ batch' = batch \cup {m}
        /\ forwarder' = IF hasPublic THEN [forwarder EXCEPT !.pc = "send", !.rec = {m}] ELSE forwarder
    /\ UNCHANGED <<hasPublic, toLog, written, sending, ch, pusher, conn, up, db, dead, faults, pushed, lostUp>>

Resend ==
    /\ forwarder.pc = "send"
    /\ Len(ch[Core0]) < ChanSize
    /\ ch' = [ch EXCEPT ![Core0] = Append(@, TheRecord(forwarder.rec))]
    /\ forwarder' = [forwarder EXCEPT !.pc = "blpop", !.rec = {}]
    /\ UNCHANGED <<hasPublic, toLog, written, sending, pusher, conn, list, up, batch, db, dead, faults, pushed, lostUp>>

\* BLPOP fails: forward returns, and is called again after two seconds.
ForwardFails ==
    /\ forwarder.pc = "blpop" /\ forwarder.conn = "broken"
    /\ forwarder' = [forwarder EXCEPT !.pc = "dial"]
    /\ UNCHANGED <<hasPublic, toLog, written, sending, ch, pusher, conn, list, up, batch, db, dead, faults, pushed, lostUp>>

-----------------------------------------------------------------------------
(* The database                                                            *)

Key(m) == <<CommandOf[m], EpochOf[m], LevelOf[m]>>

\* The transaction of LogRecord: a bucket for the command, which needs a name, and in it
\* the row, which replaces one with the same key.  An error is logged and forgotten.
Store(m) ==
    /\ m \in batch
    /\ batch' = batch \ {m}
    /\ db' = IF CommandOf[m] = NoId THEN db ELSE {n \in db : Key(n) # Key(m)} \cup {m}
    /\ UNCHANGED <<hasPublic, toLog, written, sending, ch, pusher, conn, list, up, forwarder, dead, faults, pushed, lostUp>>

-----------------------------------------------------------------------------
(* Faults                                                                  *)

Fault == faults < MaxFaults /\ faults' = faults + 1

Broken(r) == [a \in Agents |-> IF RedisOf(a) = r THEN "broken" ELSE conn[a]]

\* A Redis goes away, with every connection to it, and perhaps with its list.
RedisFails(r) ==
    /\ Fault /\ r \in up
    /\ up' = up \ {r}
    /\ conn' = Broken(r)
    /\ forwarder' = IF r = "private" THEN [forwarder EXCEPT !.conn = "broken"] ELSE forwarder
    /\ \E left \in {list[r], <<>>} : list' = [list EXCEPT ![r] = left]
    /\ UNCHANGED <<hasPublic, toLog, written, sending, ch, pusher, batch, db, dead, pushed, lostUp>>

RedisReturns(r) ==
    /\ r \notin up
    /\ up' = up \cup {r}
    /\ UNCHANGED <<hasPublic, toLog, written, sending, ch, pusher, conn, list, forwarder, batch, db, dead, faults,
                   pushed, lostUp>>

\* Redis pushed the record, and the connection broke before it could say so.
RPushUnanswered(a) ==
    /\ Fault /\ PusherAt(a, "rpush") /\ conn[a] = "ok"
    /\ Pushed(a)
    /\ conn' = [conn EXCEPT ![a] = "broken"]
    /\ UNCHANGED <<hasPublic, toLog, written, sending, ch, pusher, up, forwarder, batch, db, dead, lostUp>>

\* Redis popped a record for the forwarder, and the connection broke before it got it, or
\* what it got does not decode: forward returns in either case, and closes the connection.
BLPopUnanswered ==
    /\ Fault /\ forwarder.pc = "blpop" /\ forwarder.conn = "ok" /\ list["private"] # <<>>
    /\ list' = [list EXCEPT !["private"] = Tail(@)]
    /\ forwarder' = [forwarder EXCEPT !.conn = "broken"]
    /\ UNCHANGED <<hasPublic, toLog, written, sending, ch, pusher, conn, up, batch, db, dead, pushed, lostUp>>

\* A container ends: nobody waits for its logger.
CoreEnds(a) ==
    /\ Fault /\ a \in Cores \ dead
    /\ dead' = dead \cup {a}
    /\ ch' = [ch EXCEPT ![a] = <<>>]
    /\ pusher' = [pusher EXCEPT ![a] = Waiting]
    /\ sending' = {m \in sending : From[m] # a}
    /\ UNCHANGED <<hasPublic, toLog, written, conn, list, up, forwarder, batch, db, pushed, lostUp>>

-----------------------------------------------------------------------------
Write(m) == LogInContainer(m) \/ LogInCore0(m)

PusherStep(a) == Get(a) \/ Receive(a) \/ RPush(a) \/ RPushFails(a) \/ LTrim(a)

ForwarderStep == Dial \/ Forward \/ Resend \/ ForwardFails

FaultStep ==
    \/ \E r \in Redises : RedisFails(r) \/ RedisReturns(r)
    \/ \E a \in Agents : RPushUnanswered(a)
    \/ BLPopUnanswered
    \/ \E a \in Cores : CoreEnds(a)

LogNext ==
    \/ \E m \in Msgs : Write(m) \/ Send(m) \/ Store(m)
    \/ \E a \in Agents : PusherStep(a)
    \/ ForwarderStep
    \/ FaultStep

LogSpec == LogInit /\ [][LogNext]_logVars

\* Every goroutine gets its turn, and a call of Redis returns: it is answered, or fails once
\* the connection is gone.  The calls have no timeouts (utils/redis.go:12), so a Redis that
\* keeps a connection open and does not answer is outside.  A Redis that went away need
\* not come back.
LogFairness ==
    /\ WF_logVars(\E m \in Msgs : Send(m))
    /\ WF_logVars(\E m \in Msgs : Store(m))
    /\ \A a \in Agents : WF_logVars(PusherStep(a))
    /\ WF_logVars(ForwarderStep)

-----------------------------------------------------------------------------
(* Properties                                                              *)

Times(m, s) == Cardinality({i \in DOMAIN s : s[i] = m})

In(m, S) == IF m \in S THEN 1 ELSE 0

\* How often a message is on its way out of an agent, or in the list its agent pushes to.
\* A record in the hand of a pusher whose connection is broken is as good as lost.
On(m, a) ==
    In(m, {n \in sending : From[n] = a}) + Times(m, ch[a]) + Times(m, list[RedisOf(a)])
      + In(m, IF conn[a] = "ok" THEN pusher[a].rec ELSE {})

AtHome(m) == IF From[m] \in Cores THEN On(m, From[m]) ELSE 0

ToPublic(m) == AtHome(m) + In(m, forwarder.rec) + On(m, Core0)

ToDatabase(m) == AtHome(m) + In(m, batch) + In(m, db)

\* The messages that the levels of their command and the configuration of core0 let pass.
\* The code sends core0 the other messages of containers as well, and core0 logs them,
\* although its configuration is to apply to them (docs/logging.md:13): nothing is asked
\* of those.
Accepted(m) == Handled(m) /\ IsLoggable(Defaults, m)

\* m was pushed to r, and so many records after it that LTRIM may have dropped it.
Outdated(m, r) == \E i \in DOMAIN pushed[r] : pushed[r][i] = m /\ Len(pushed[r]) - i >= QueueSize

\* A message is never at two places on its way to the database, nor on its way to the
\* public list, even when a push that Redis executed was reported as failed.  A message
\* its command and core0's configuration let pass is at one of them: it is lost only by a fault, by the limit of a list
\* that QueueSize newer records were pushed to, to a row with the same key, or, on the way
\* to the database, because its command has no id.
Conserved ==
    \A m \in written :
        /\ ToPublic(m) <= 1 /\ ToDatabase(m) <= 1
        /\ (Accepted(m) /\ faults = 0) =>
            /\ \/ ToDatabase(m) = 1
               \/ CommandOf[m] = NoId \/ Outdated(m, "private")
               \/ \E n \in db \ {m} : Key(n) = Key(m)
            /\ \/ ToPublic(m) = 1 \/ ~hasPublic
               \/ \E r \in Redises : Outdated(m, r)

PushersOf(r) == {a \in Agents : RedisOf(a) = r}

\* A list is longer than its limit only by the records of pushers that have yet to trim it,
\* and by those that a fault kept from doing so: Redis does not run out of memory.
ListBounded ==
    \A r \in Redises :
        Len(list[r]) <= QueueSize + Cardinality({a \in PushersOf(r) : pusher[a].pc = "ltrim"})
                          + faults * Cardinality(PushersOf(r))

\* While its Redis answers, a logger loses at most one record for every fault: push
\* notices a connection that broke while it waited, and gets a new one.
OneLossPerFault == \A a \in Agents : lostUp[a] <= faults

\* A runner that logs, and the forwarder, never wait for ever, whatever becomes of Redis:
\* the pusher does not sleep when it fails, and drops what it cannot push.  And what is in
\* the private list reaches the loggers of core0 and its rows the database, as long as the
\* private Redis answers: the forwarder comes back after every failure.
LogsFlow ==
    /\ (sending # {}) ~> (sending = {})
    /\ (forwarder.pc = "send") ~> (forwarder.pc # "send")
    /\ (list["private"] # <<>> \/ batch # {})
         ~> ((list["private"] = <<>> /\ batch = {}) \/ "private" \notin up)
=============================================================================
