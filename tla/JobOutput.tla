------------------------------- MODULE JobOutput -------------------------------
(***************************************************************************)
(* One run of an external process, from the lines it writes to the result  *)
(* of its job: a consumer per pipe turns lines into messages               *)
(* (base/pm/stream), an interceptor filters them, a goroutine sends the    *)
(* exit message once both pipes ended and the process was reaped           *)
(* (base/pm/process), and the runner's select loop sorts the messages out  *)
(* (run of base/pm/runner.go), feeding the statistics (Statsd).            *)
(***************************************************************************)
EXTENDS Statsd, SequencesExt

CONSTANTS
    Scripts,           \* what a run may be: the kind of process, whether it is given
                       \* input, the lines written to each pipe, and the meter ticks
    Gauges,            \* the messages meter sends on one tick, in order
    StreamBufferSize   \* lines kept of each output

Pipes == {"out", "err"}
Kinds == {"system", "container"}

\* A line: empty, without a level, "level::text", "level:::text", or ":::".
\* What its text means to Feed is in stat (NoMsg: Feed refuses it).
Line == [form : {"empty", "plain", "single", "open", "close"}, level : Nat,
         stat : Msg \cup {NoMsg}]

LevelStdout     == 1
LevelStderr     == 2
LevelStatsd     == 10
LevelExitState  == 50
LevelInternal   == 100
ResultLevels    == {20, 21, 22, 23, 30}

\* Statistics are single lines: Feed would see the further lines as part of the type.
ASSUME JobOutputAssumption ==
    /\ \A s \in Scripts : /\ s.kind \in Kinds /\ s.ticks \in Nat /\ s.stdin \in BOOLEAN
                         /\ s.out \in Seq(Line) /\ s.err \in Seq(Line)
                         /\ \A l \in Range(s.out) \cup Range(s.err) :
                              l.form = "open" => l.level # LevelStatsd
    /\ Gauges \in Seq(Msg) /\ Gauges # << >>
    /\ StreamBufferSize \in Nat

VARIABLES
    kind,      \* which process.Run this is
    written,   \* pipe -> the lines written to it in the course of the run
    pipe,      \* pipe -> "open" while somebody may write to it
    proc,      \* "running", or the exit state of the process
    cons,      \* pipe -> its consumer: position, lines read, the message under way
    closer,    \* where the goroutine that waits for the end of the process is
    pc,        \* where run of the runner is
    ticks,     \* ticks of meterTicker still to come
    feed,      \* the messages the runner still has to hand to its statistics
    state,     \* jobresult.State
    streams,   \* stdoutBuffer and stderrBuffer
    result,    \* the last result message, NoMsg
    handled    \* history: the messages the select loop received

procVars == <<kind, written, pipe, proc>>
jobVars  == <<pc, ticks, feed, state, streams, result, handled>>
vars     == <<procVars, cons, closer, jobVars, statsdVars>>

DefaultLevel == [p \in Pipes |-> IF p = "out" THEN LevelStdout ELSE LevelStderr]

\* A message: where it comes from and the numbers of the lines its text is made of.
Message == [pipe : Pipes, level : Nat, body : Seq(Nat), stat : Msg \cup {NoMsg}]

TypeOK ==
    /\ StatsdType
    /\ kind \in Kinds
    /\ written \in [Pipes -> Seq(Line)]
    /\ pipe \in [Pipes -> {"open", "closed"}]
    /\ proc \in {"running", "SUCCESS", "ERROR"}
    /\ \A p \in Pipes :
         /\ cons[p].at \in {"read", "send", "signal", "over"}
         /\ cons[p].read \in 0 .. Len(written[p])
         /\ cons[p].multi \in BOOLEAN
         /\ cons[p].failed \in BOOLEAN
         /\ cons[p].msg \in Message
    /\ closer \in {"out", "err", "wait", "send", "closed"}
    /\ pc \in {"stdin", "select", "feed", "drain", "stop", "stopping", "end"}
    /\ ticks \in Nat
    /\ feed \in Seq(Msg)
    /\ state \in {"ERROR", "SUCCESS", "KILLED"}
    /\ streams \in [Pipes -> Seq(Message)]
    /\ result \in Message \cup {NoMsg}
    /\ handled \in Seq(Message)

EmptyMessage(p) == [pipe |-> p, level |-> 0, body |-> << >>, stat |-> NoMsg]

Init ==
    /\ StatsdInit
    /\ \E s \in Scripts : /\ kind = s.kind /\ ticks = s.ticks
                          /\ pc = IF s.stdin THEN "stdin" ELSE "select"
                          /\ written = [p \in Pipes |-> IF p = "out" THEN s.out ELSE s.err]
    /\ pipe = [p \in Pipes |-> "open"]
    /\ proc = "running"
    /\ cons = [p \in Pipes |-> [at |-> "read", read |-> 0, multi |-> FALSE,
                                failed |-> FALSE, msg |-> EmptyMessage(p)]]
    /\ closer = "out"
    /\ feed = << >>
    /\ state = "ERROR"
    /\ streams = [p \in Pipes |-> << >>]
    /\ result = NoMsg
    /\ handled = << >>

-------------------------------------------------------------------------------
(* The process, and whoever inherited its pipes. *)

\* Nobody writes any more. What was written by then may still have to be read.
ClosePipe(p) ==
    /\ pipe[p] = "open"
    /\ pipe' = [pipe EXCEPT ![p] = "closed"]
    /\ UNCHANGED <<kind, written, proc, cons, closer, jobVars, statsdVars>>

Exit ==
    /\ proc = "running"
    /\ proc' \in {"SUCCESS", "ERROR"}
    /\ UNCHANGED <<kind, written, pipe, cons, closer, jobVars, statsdVars>>

-------------------------------------------------------------------------------
(* A consumer. *)

\* Mutant: the level of the exit state passes.
InterceptedNot(m) == m

\* The interceptor between consumer and channel. A level that is for internal use is
\* turned into an error message; only a system process keeps the internal ones back.
Intercepted(m) == [m EXCEPT !.level = IF @ = LevelExitState THEN LevelStderr ELSE @]
Internal(m)    == kind = "system" /\ m.level > LevelInternal

\* A consumer that got hold of a whole message sends it, unless it is an internal one.
Emit(c, m) ==
    IF Internal(Intercepted(m))
    THEN [c EXCEPT !.at = "read", !.multi = FALSE, !.msg = EmptyMessage(m.pipe)]
    ELSE [c EXCEPT !.at = "send", !.multi = FALSE, !.msg = Intercepted(m)]

\* Mutant: a further line replaces the text.
ContinuedReplaces(c, n, l) ==
    IF l.form = "close" THEN Emit(c, c.msg) ELSE [c EXCEPT !.msg.body = <<n>>]

\* Line n inside a message of several lines.
Continued(c, n, l) ==
    IF l.form = "close" THEN Emit(c, c.msg) ELSE [c EXCEPT !.msg.body = Append(@, n)]

\* What a consumer does with a line.
Consumed(p, c, l) ==
    LET n     == c.read + 1
        d     == [c EXCEPT !.read = n]
        whole == [pipe |-> p, level |-> l.level, body |-> <<n>>, stat |-> l.stat]
    IN  CASE l.form = "empty" -> d
          [] l.form # "empty" /\ c.multi -> Continued(d, n, l)
          [] l.form \in {"plain", "close"} /\ ~c.multi ->
               Emit(d, [whole EXCEPT !.level = DefaultLevel[p], !.stat = NoMsg])
          [] l.form = "single" /\ ~c.multi -> Emit(d, whole)
          [] l.form = "open" /\ ~c.multi -> [d EXCEPT !.multi = TRUE, !.msg = whole]

ReadLine(p) ==
    /\ cons[p].at = "read"
    /\ cons[p].read < Len(written[p])
    /\ cons' = [cons EXCEPT ![p] = Consumed(p, @, written[p][@.read + 1])]
    /\ UNCHANGED <<procVars, closer, jobVars, statsdVars>>

\* Mutant: the end of the message is waited for.
ReadEOFWaits(p) ==
    /\ cons[p].at = "read"
    /\ cons[p].read = Len(written[p])
    /\ pipe[p] = "closed" /\ ~cons[p].multi
    /\ cons' = [cons EXCEPT ![p].at = "signal"]
    /\ UNCHANGED <<procVars, closer, jobVars, statsdVars>>

\* At the end of the input a message whose end is missing is discarded.
ReadEOF(p) ==
    /\ cons[p].at = "read"
    /\ cons[p].read = Len(written[p])
    /\ pipe[p] = "closed"
    /\ cons' = [cons EXCEPT ![p].at = "signal"]
    /\ UNCHANGED <<procVars, closer, jobVars, statsdVars>>

\* Any other error ends the consumer as well.
ReadFails(p) ==
    /\ cons[p].at = "read"
    /\ cons' = [cons EXCEPT ![p].at = "signal", ![p].failed = TRUE]
    /\ UNCHANGED <<procVars, closer, jobVars, statsdVars>>

-------------------------------------------------------------------------------
(* The goroutine that waits for the end of the process, which Run starts last. *)

Signal(p, next) ==
    /\ closer = p /\ pc # "stdin"
    /\ cons[p].at = "signal"
    /\ cons' = [cons EXCEPT ![p].at = "over"]
    /\ closer' = next
    /\ UNCHANGED <<procVars, jobVars, statsdVars>>

\* WaitPID returns once the process was reaped, which may be never, since the signal of its
\* exit may be lost (pm.go:223): Progress leaves this step out.
Reaped ==
    /\ closer = "wait"
    /\ proc # "running"
    /\ closer' = "send"
    /\ UNCHANGED <<procVars, cons, jobVars, statsdVars>>

\* Mutant: the goroutine does not wait for the second pipe.
CloserSkipsErr ==
    \/ Signal("out", "wait")
    \/ Signal("err", "wait")
    \/ Reaped

Closer ==
    \/ Signal("out", "err")
    \/ Signal("err", "wait")
    \/ Reaped

-------------------------------------------------------------------------------
(* run of the runner. *)

\* Mutant: a full buffer takes nothing.
BufferAppendFull(b, m) == IF Len(b) >= StreamBufferSize THEN b ELSE Append(b, m)

\* A limited buffer keeps the last lines.
BufferAppend(b, m) ==
    IF Len(b) + 1 > StreamBufferSize THEN Tail(Append(b, m)) ELSE Append(b, m)

\* The message of a consumer that was received is gone from it.
Took(p) == cons' = [cons EXCEPT ![p].at = "read", ![p].msg = EmptyMessage(p)]

\* The branches on the level; the rest (critical, hooks, message handlers) goes
\* elsewhere. A message of the level of the exit state would end the loop, its text
\* being the state: "SUCCESS" stands for such a text.
Handle(p) ==
    /\ pc = "select"
    /\ cons[p].at = "send"
    /\ Took(p)
    /\ LET m == cons[p].msg IN
         /\ handled' = Append(handled, m)
         /\ result' = IF m.level \in ResultLevels THEN m ELSE result
         /\ streams' = [q \in Pipes |-> IF m.level = DefaultLevel[q]
                                        THEN BufferAppend(streams[q], m) ELSE streams[q]]
         /\ feed' = IF m.level = LevelStatsd /\ m.stat # NoMsg THEN <<m.stat>> ELSE << >>
         /\ state' = IF m.level = LevelExitState THEN "SUCCESS" ELSE state
         /\ pc' = CASE m.level = LevelExitState -> "drain"
                    [] m.level # LevelExitState /\ feed' # << >> -> "feed"
                    [] OTHER -> "select"
    /\ UNCHANGED <<procVars, closer, ticks, statsdVars>>

\* The exit message has a level of its own and is nothing but the exit state.
HandleExit ==
    /\ pc = "select"
    /\ closer = "send"
    /\ closer' = "closed"
    /\ state' = proc
    /\ pc' = "drain"
    /\ UNCHANGED <<procVars, cons, ticks, feed, streams, result, handled, statsdVars>>

Meter ==
    /\ pc = "select"
    /\ ticks > 0
    /\ ticks' = ticks - 1
    /\ feed' = Gauges
    /\ pc' = "feed"
    /\ UNCHANGED <<procVars, cons, closer, state, streams, result, handled, statsdVars>>

\* op: an exchange with the goroutine of the statistics.
Feed ==
    /\ pc = "feed"
    /\ TakeMsg(Head(feed))
    /\ feed' = Tail(feed)
    /\ pc' = IF Len(feed) = 1 THEN "select" ELSE "feed"
    /\ UNCHANGED <<procVars, cons, closer, ticks, state, streams, result, handled>>

\* A kill or the time limit ("KILLED" stands for both): the process is told to stop, and
\* its output is not looked at any more.
Leave ==
    /\ pc = "select"
    /\ state' = "KILLED"
    /\ pc' = "drain"
    /\ UNCHANGED <<procVars, cons, closer, ticks, feed, streams, result, handled,
                   statsdVars>>

DrainMessage(p) ==
    /\ pc = "drain"
    /\ cons[p].at = "send"
    /\ Took(p)
    /\ UNCHANGED <<procVars, closer, jobVars, statsdVars>>

DrainExit ==
    /\ pc = "drain"
    /\ closer = "send"
    /\ closer' = "closed"
    /\ UNCHANGED <<procVars, cons, jobVars, statsdVars>>

Drained ==
    /\ pc = "drain"
    /\ closer = "closed"
    /\ pc' = "stop"
    /\ UNCHANGED <<procVars, cons, closer, ticks, feed, state, streams, result, handled,
                   statsdVars>>

\* The job is over (no restart): Run stops the statistics.
Stop ==
    /\ pc = "stop"
    /\ BeginStop
    /\ pc' = "stopping"
    /\ UNCHANGED <<procVars, cons, closer, ticks, feed, state, streams, result, handled>>

StopReturns ==
    /\ pc = "stopping"
    /\ flusher["stop"].at = "returned"
    /\ pc' = "end"
    /\ UNCHANGED <<procVars, cons, closer, ticks, feed, state, streams, result, handled,
                   statsdVars>>

\* The write of the whole input to the process returns: at the latest with an error, when
\* the process is gone. Until then nothing is received, neither output nor a kill. A
\* process that does not read, perhaps because it waits for its own output to be taken from
\* a full pipe, may keep it there for ever: Progress has this step only after the exit.
StdinWritten ==
    /\ pc = "stdin"
    /\ pc' = "select"
    /\ UNCHANGED <<procVars, cons, closer, ticks, feed, state, streams, result, handled,
                   statsdVars>>

RunStep == HandleExit \/ Feed \/ DrainExit \/ Drained \/ Stop \/ StopReturns

LastFlush  == FlushStep("stop") /\ UNCHANGED <<procVars, cons, closer, jobVars>>
Statistics == StatsdStep /\ UNCHANGED <<procVars, cons, closer, jobVars>>

\* The steps of the goroutines. What they answer to is not up to them: the pipes, the
\* exit and its status, a read error, a kill and the ticks of the meter.
Progress ==
    \/ \E p \in Pipes : ReadLine(p) \/ ReadEOF(p) \/ Handle(p) \/ DrainMessage(p)
    \/ closer # "wait" /\ Closer
    \/ RunStep
    \/ proc # "running" /\ StdinWritten
    \/ LastFlush
    \/ Statistics

Next ==
    /\ gor # "crashed"
    /\ \/ \E p \in Pipes : ClosePipe(p) \/ ReadFails(p)
       \/ Exit
       \/ Closer
       \/ StdinWritten
       \/ Meter
       \/ Leave
       \/ Progress

Spec == Init /\ [][Next]_vars

\* As long as a goroutine can go on, one does. The lines, the ticks and the flushes are
\* finitely many, so this is enough to let every one of them go on that can. The process
\* and the owners of its pipes owe nothing, so it need not read its input.
Fairness == WF_vars(gor # "crashed" /\ Progress)

FairSpec == Spec /\ Fairness

-------------------------------------------------------------------------------
(* What the lines of a pipe say, without a consumer. *)

\* The lines that open a message of several lines: not those inside such a message.
Openers(s) ==
    CHOOSE O \in SUBSET DOMAIN s :
        \A i \in DOMAIN s :
            i \in O <=> /\ s[i].form = "open"
                       /\ \A j \in O : j < i => \E c \in j+1 .. i-1 : s[c].form = "close"

\* Line i belongs to the message that line o opened.
OpenedBy(s, i, o) ==
    o \in Openers(s) /\ o < i /\ \A c \in o+1 .. i-1 : s[c].form # "close"

Inside(s, i) == \E o \in Openers(s) : OpenedBy(s, i, o)

\* The lines a message ends with.
Ends(s) ==
    {i \in DOMAIN s : IF Inside(s, i) THEN s[i].form = "close"
                      ELSE s[i].form \in {"plain", "single", "close"}}

\* The line a message begins with that ends with line e, and which lines its text is.
Start(s, e) == IF Inside(s, e) THEN CHOOSE o \in Openers(s) : OpenedBy(s, e, o) ELSE e

TextOf(s, e) ==
    IF Inside(s, e) THEN {n \in Start(s, e) .. e - 1 : s[n].form # "empty"} ELSE {e}

\* Only some lines name a level, and only those may be statistics.
Names(l)        == l.form \in {"single", "open"}
LevelOf(p, s, e) == LET l == s[Start(s, e)] IN IF Names(l) THEN l.level ELSE DefaultLevel[p]
StatOf(s, e)     == LET l == s[Start(s, e)] IN IF Names(l) THEN l.stat ELSE NoMsg

Ascending(b) == \A i, j \in DOMAIN b : i < j => b[i] < b[j]

\* m is the message that ends with line e. The level of the exit state is not for a
\* process to use: such a message counts as an error message.
Tells(m, p, s, e) ==
    /\ m.pipe = p
    /\ m.level = IF LevelOf(p, s, e) = 50 THEN 2 ELSE LevelOf(p, s, e)
    /\ m.stat = StatOf(s, e)
    /\ Range(m.body) = TextOf(s, e) /\ Ascending(m.body)

\* The messages of a pipe a runner is to see, by the lines they end with: the internal
\* ones of a system process are kept from it.
Shown(p) ==
    {e \in Ends(written[p]) : kind = "container" \/ LevelOf(p, written[p], e) <= 100}

\* Those it has received, by their places in the history.
Received(p) == {i \in DOMAIN handled : handled[i].pipe = p}

\* How many there are in I up to i, and after it.
UpTo(I, i)  == Cardinality({j \in I : j <= i})
After(I, i) == Cardinality({j \in I : j > i})

\* Message i of the history is the one that ends with line e, and as many messages of the
\* pipe were received up to it as were written.
Delivers(p, i, e) ==
    Tells(handled[i], p, written[p], e) /\ UpTo(Received(p), i) = UpTo(Shown(p), e)

\* The loop was left because of the exit message, not by a kill or the time limit.
Exited == pc \notin {"stdin", "select", "feed"} /\ state \in {"SUCCESS", "ERROR"}

-------------------------------------------------------------------------------
(* Properties. *)

\* The runner receives the messages of a pipe in the order in which their lines were
\* written, none of them twice, changed, or made up (consume, the interceptor and the
\* unbuffered channel between two consumers, the exit goroutine and the select loop).
OutputInOrder ==
    \A p \in Pipes : \A i \in Received(p) : \E e \in Shown(p) : Delivers(p, i, e)

\* When the exit message ends the loop, every message of both pipes was received before:
\* the exit goroutine waits for both consumers.
OutputComplete ==
    Exited => \A p \in Pipes : \/ cons[p].failed
                               \/ \A e \in Shown(p) : \E i \in Received(p) : Delivers(p, i, e)

\* The state of a job that was not killed and did not time out is the exit state of its
\* process, whatever the process writes.
ExitStateTrue == Exited => state = proc

\* The places of the messages with one of these levels in the history.
OfLevel(L) == {i \in DOMAIN handled : handled[i].level \in L}

\* The buffer b holds the last lines of those at I, as many as it can.
HoldsLast(b, I) ==
    /\ Len(b) = IF Cardinality(I) < StreamBufferSize THEN Cardinality(I) ELSE StreamBufferSize
    /\ \A i \in I : After(I, i) < Len(b) => b[Len(b) - After(I, i)] = handled[i]

\* The result of a job holds the last lines of each output and the last result message
\* that was received.
ResultExact ==
    /\ \A q \in Pipes : HoldsLast(streams[q], OfLevel({DefaultLevel[q]}))
    /\ \/ OfLevel(ResultLevels) = {} /\ result = NoMsg
       \/ \E i \in OfLevel(ResultLevels) :
            result = handled[i] /\ \A j \in OfLevel(ResultLevels) : j <= i

InHand(k) ==
    IF hand # NoMsg /\ hand.key = k /\ hand.optype = "c" /\ hand.value.text = "num"
    THEN Signed(hand.value) ELSE 0

InBuffer(k) ==
    IF k \in DOMAIN buffer /\ buffer[k].optype = "c" /\ flusher["tick"].key # k
    THEN buffer[k].sum ELSE 0

\* Until Stop, no counter value is lost or counted twice: what was taken from the queue
\* is in the hand of the goroutine, in a buffer, in the flush under way or flushed.
CountersConserved ==
    queue = "open" =>
        \A k \in Keys :
            sent[k] = InHand(k) + InBuffer(k) + flusher["tick"].read[k] + flushed[k]

\* Stop makes the last flush (stats.go): when it is over and the goroutine has ended,
\* everything that was taken from the queue has been flushed, and once.
LastFlushComplete ==
    pc = "end" /\ gor = "ended" => \A k \in Keys : flushed[k] = sent[k]

\* The status of a process that exited gets to the goroutine that asks for it.
StatusArrives == []<>(closer = "wait" => proc = "running")

\* If its status arrives, the job of a process that has exited and whose pipes are closed
\* ends, even if it has not read its input and the consumers could hand nothing on while
\* that was written (systemprocess.go:232); unless the goroutine of the statistics has given
\* up and leaves the runner in op, or the agent is gone.
JobEnds ==
    StatusArrives =>
        ((proc # "running" /\ \A p \in Pipes : pipe[p] = "closed")
            ~> (pc = "end" \/ (pc = "feed" /\ gor = "stopped") \/ gor = "crashed"))
===============================================================================
