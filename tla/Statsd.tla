-------------------------------- MODULE Statsd --------------------------------
(***************************************************************************)
(* The statistics aggregator of one runner (base/stats): a goroutine that  *)
(* takes messages from an unbuffered queue, keeps one buffer per key and   *)
(* flushes all of them on a tick, and Stop, which closes the queue and     *)
(* flushes once more in the goroutine of the runner, without any lock.     *)
(* The module that extends this one has the goroutine that sends.          *)
(***************************************************************************)
EXTENDS Integers, FiniteSets

CONSTANTS
    Keys,         \* the keys messages are about
    NoMsg,        \* no message
    MaxFlushes    \* bound on the ticks that flush

\* The goroutines that call flush: the aggregator on a tick, and the runner in Stop.
Flushers == {"tick", "stop"}
NoKey    == "none"

VARIABLES
    buffer,   \* statsd.buffer: key -> aggregation buffer
    gor,      \* where the goroutine of Run is
    hand,     \* the message it took and has not handled, NoMsg
    queue,    \* statsd.queue: "open" or "closed"
    flushes,  \* ticks that flushed so far
    flusher,  \* each call of flush: position, keys to visit, the key just read, readings
    sent,     \* history: per key, the sum of the counter values taken from the queue
    flushed   \* history: per key, the sum of the counter readings given to onflush

statsdVars == <<buffer, gor, hand, queue, flushes, flusher, sent, flushed>>

OpTypes == {"g", "kv", "c", "s", "ms"}

\* The text of a value, as far as append looks at it: empty, a word that ParseFloat
\* refuses, or a number with the sign it is written with.
Value == [text : {"empty", "word", "num"}, sign : {"no", "+", "-"}, num : Nat]
Msg   == [optype : OpTypes \cup {"other"}, key : Keys, value : Value]

ASSUME StatsdAssumption == NoMsg \notin Msg /\ NoKey \notin Keys /\ MaxFlushes \in Nat

StatsBuffer == [optype : OpTypes, sum : Int, count : Nat, values : SUBSET Value]
Reading     == [sum : Int, count : Nat]

StatsdType ==
    /\ DOMAIN buffer \subseteq Keys
    /\ \A k \in DOMAIN buffer : buffer[k] \in StatsBuffer
    /\ gor \in {"select", "handle", "flush", "stopped", "ended", "crashed"}
    /\ hand \in Msg \cup {NoMsg}
    /\ queue \in {"open", "closed"}
    /\ flushes \in Nat
    /\ flusher \in [Flushers -> [at   : {"idle", "visit", "reset", "returned"},
                                 todo : SUBSET Keys,
                                 key  : Keys \cup {NoKey},
                                 read : [Keys -> Int]]]
    /\ sent \in [Keys -> Int]
    /\ flushed \in [Keys -> Int]

NoReadings == [k \in Keys |-> 0]
Idle       == [at |-> "idle", todo |-> {}, key |-> NoKey, read |-> NoReadings]

StatsdInit ==
    /\ buffer = [k \in {} |-> NoMsg]
    /\ gor = "select"
    /\ hand = NoMsg
    /\ queue = "open"
    /\ flushes = 0
    /\ flusher = [f \in Flushers |-> Idle]
    /\ sent = NoReadings
    /\ flushed = NoReadings

-------------------------------------------------------------------------------
(* The aggregation buffers. *)

NewBuffer(t) == [optype |-> t, sum |-> 0, count |-> 0, values |-> {}]

\* The number a value stands for to ParseFloat.
Signed(v) == IF v.sign = "-" THEN -v.num ELSE v.num

\* A sign makes a change of the gauge, none sets it.
GaugeAppend(b, v) ==
    IF v.text # "num" THEN b
    ELSE [b EXCEPT !.sum = IF v.sign = "no" THEN v.num ELSE @ + Signed(v)]

KVAppend(b, v) == IF v.text # "num" THEN b ELSE [b EXCEPT !.sum = Signed(v)]

CounterAppend(b, v) == IF v.text # "num" THEN b ELSE [b EXCEPT !.sum = @ + Signed(v)]

\* A set takes every text but the empty one.
SetAppend(b, v) == IF v.text = "empty" THEN b ELSE [b EXCEPT !.values = @ \cup {v}]

TimerAppend(b, v) ==
    IF v.text # "num" THEN b ELSE [b EXCEPT !.sum = @ + Signed(v), !.count = @ + 1]

Appended(b, v) ==
    CASE b.optype = "g"  -> GaugeAppend(b, v)
      [] b.optype = "kv" -> KVAppend(b, v)
      [] b.optype = "c"  -> CounterAppend(b, v)
      [] b.optype = "s"  -> SetAppend(b, v)
      [] b.optype = "ms" -> TimerAppend(b, v)

\* What value() returns: a timer's average is kept as sum and count.
ReadingOf(b) ==
    CASE b.optype = "s"  -> [sum |-> Cardinality(b.values), count |-> 1]
      [] b.optype = "ms" -> [sum |-> b.sum, count |-> b.count]
      [] OTHER           -> [sum |-> b.sum, count |-> 1]

\* Mutant: value() does not reset.
ResetNothing(b) == b

\* What value() leaves: a gauge keeps its value.
ResetOf(b) == IF b.optype = "g" THEN b ELSE NewBuffer(b.optype)

-------------------------------------------------------------------------------
(* The goroutine of Run. *)

\* The part of an exchange over the queue that is the goroutine's. The sender is in op.
TakeMsg(m) ==
    /\ gor = "select"
    /\ queue = "open"
    /\ gor' = "handle"
    /\ hand' = m
    /\ sent' = IF m.optype = "c" /\ m.value.text = "num"
               THEN [sent EXCEPT ![m.key] = @ + Signed(m.value)]
               ELSE sent
    /\ UNCHANGED <<buffer, queue, flushes, flusher, flushed>>

\* The buffer the message goes to: the one of its key, or a new one.
BufferFor(m) == IF m.key \in DOMAIN buffer THEN buffer[m.key] ELSE NewBuffer(m.optype)

WithBuffer(k, b) == [j \in DOMAIN buffer \cup {k} |-> IF j = k THEN b ELSE buffer[j]]

\* A key is used with one type only: on another type the goroutine returns, for good.
HandleMismatch ==
    /\ gor = "handle"
    /\ hand.key \in DOMAIN buffer
    /\ buffer[hand.key].optype # hand.optype
    /\ gor' = "stopped"
    /\ UNCHANGED <<buffer, hand, queue, flushes, flusher, sent, flushed>>

HandleAppend ==
    /\ gor = "handle"
    /\ hand.optype # "other"
    /\ BufferFor(hand).optype = hand.optype
    /\ buffer' = WithBuffer(hand.key, Appended(BufferFor(hand), hand.value))
    /\ gor' = "select"
    /\ hand' = NoMsg
    /\ UNCHANGED <<queue, flushes, flusher, sent, flushed>>

\* A new key with a type the switch does not know leaves a nil buffer, whose optype()
\* panics. So may the runtime when Stop walks the map while a key is added to it.
HandlePanic ==
    /\ gor = "handle"
    /\ hand.key \notin DOMAIN buffer
    /\ \/ hand.optype = "other"
       \/ DOMAIN buffer # {} /\ flusher["stop"].at \in {"visit", "reset"}
    /\ gor' = "crashed"
    /\ UNCHANGED <<buffer, hand, queue, flushes, flusher, sent, flushed>>

\* flush starts its walk over the map. Without keys it has nothing to do.
BeginFlush(f) ==
    flusher' = [flusher EXCEPT ![f] = [Idle EXCEPT !.at = "visit", !.todo = DOMAIN buffer]]

Tick ==
    /\ gor = "select"
    /\ DOMAIN buffer # {}
    /\ flushes < MaxFlushes
    /\ flushes' = flushes + 1
    /\ BeginFlush("tick")
    /\ gor' = "flush"
    /\ UNCHANGED <<buffer, hand, queue, sent, flushed>>

QueueClosed ==
    /\ gor = "select"
    /\ queue = "closed"
    /\ gor' = "ended"
    /\ UNCHANGED <<buffer, hand, queue, flushes, flusher, sent, flushed>>

-------------------------------------------------------------------------------
(* flush, by either goroutine: value() of each key reads first and resets in a      *)
(* deferred function; nothing makes the two one step.                               *)

ReadValue(f) ==
    /\ flusher[f].at = "visit"
    /\ \E k \in flusher[f].todo :
         flusher' = [flusher EXCEPT
             ![f] = [at   |-> "reset",
                     todo |-> @.todo \ {k},
                     key  |-> k,
                     read |-> [@.read EXCEPT
                                ![k] = IF buffer[k].optype = "c"
                                       THEN ReadingOf(buffer[k]).sum ELSE 0]]]
    /\ UNCHANGED <<buffer, gor, hand, queue, flushes, sent, flushed>>

ResetValue(f) ==
    /\ flusher[f].at = "reset"
    /\ buffer' = [buffer EXCEPT ![flusher[f].key] = ResetOf(@)]
    /\ flusher' = [flusher EXCEPT ![f].at = "visit", ![f].key = NoKey]
    /\ UNCHANGED <<gor, hand, queue, flushes, sent, flushed>>

\* The series goes to onflush, and the goroutine of Run back to its select.
EndFlush(f) ==
    /\ flusher[f].at = "visit"
    /\ flusher[f].todo = {}
    /\ flushed' = [k \in Keys |-> flushed[k] + flusher[f].read[k]]
    /\ flusher' = [flusher EXCEPT ![f] = [Idle EXCEPT !.at = IF f = "stop" THEN "returned"
                                                             ELSE "idle"]]
    /\ gor' = IF f = "tick" THEN "select" ELSE gor
    /\ UNCHANGED <<buffer, hand, queue, flushes, sent>>

\* Stop closes the queue and makes the last flush.
BeginStop ==
    /\ queue = "open"
    /\ queue' = "closed"
    /\ BeginFlush("stop")
    /\ UNCHANGED <<buffer, gor, hand, flushes, sent, flushed>>

\* The steps of the goroutine of Run, and of the call of Stop.
FlushStep(f) == ReadValue(f) \/ ResetValue(f) \/ EndFlush(f)

StatsdStep ==
    \/ HandleMismatch
    \/ HandleAppend
    \/ HandlePanic
    \/ Tick
    \/ QueueClosed
    \/ FlushStep("tick")
===============================================================================
