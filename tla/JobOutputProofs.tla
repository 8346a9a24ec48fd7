----------------------------- MODULE JobOutputProofs -----------------------------
(***************************************************************************)
(* Theorems about JobOutput and the statistics it feeds (Statsd), for any  *)
(* scripts, statistics and buffer sizes.                                   *)
(*                                                                         *)
(* ConsumerInv and EndInv follow the output of the process: consumers      *)
(* never hand on a message with the level of the exit state, the goroutine *)
(* that waits for the end goes past a consumer only when that has read its *)
(* pipe to the end (or failed), and past WaitPID only when the process has *)
(* exited.  FlushInv follows a flush: the goroutine of Run is in it and in *)
(* nothing else, the keys it has yet to visit are in the buffer and have   *)
(* no reading, and the one between read and reset has its sum counted as   *)
(* read.                                                                   *)
(*                                                                         *)
(* OutputInv follows the text: a consumer is inside a message of several   *)
(* lines exactly if the next line is, what it holds is the part read so    *)
(* far, and the runner has received as many messages of a pipe as end up   *)
(* to the line the consumer has handed on.                                 *)
(***************************************************************************)
EXTENDS JobOutput, FiniteSetTheorems, WellFoundedInduction, TLAPS

-----------------------------------------------------------------------------
(* The statistics *)

\* Where the goroutine of Run is, what it holds, and how far a flush is.
FlushInv ==
    /\ gor \in {"handle", "stopped", "crashed"} <=> hand # NoMsg
    /\ gor = "flush" <=> flusher["tick"].at # "idle"
    /\ flusher["tick"].at # "returned"
    /\ queue = "open" => flusher["stop"].at = "idle"
    /\ \A f \in Flushers :
         /\ flusher[f].todo \subseteq DOMAIN buffer
         /\ flusher[f].at = "idle" => flusher[f].read = NoReadings
         /\ flusher[f].at = "reset" => flusher[f].key \in DOMAIN buffer
         /\ flusher[f].at # "reset" => flusher[f].key = NoKey
         /\ \A k \in flusher[f].todo : flusher[f].read[k] = 0

\* What CountersConserved says of one key.
Balanced(k) == sent[k] = InHand(k) + InBuffer(k) + flusher["tick"].read[k] + flushed[k]

StatsdInv == StatsdType /\ FlushInv /\ (queue = "open" => \A k \in Keys : Balanced(k))

\* Buffers keep their type.
LEMMA BufferTypes ==
    /\ \A t \in OpTypes : NewBuffer(t) \in StatsBuffer /\ NewBuffer(t).optype = t /\ NewBuffer(t).sum = 0
    /\ \A b \in StatsBuffer : ResetOf(b) \in StatsBuffer /\ ResetOf(b).optype = b.optype
                              /\ (b.optype = "c" => ResetOf(b).sum = 0)
    /\ \A v \in Value : Signed(v) \in Int
<1>1. \A t \in OpTypes : NewBuffer(t) \in StatsBuffer /\ NewBuffer(t).optype = t /\ NewBuffer(t).sum = 0
  BY DEF NewBuffer, StatsBuffer
<1>2. \A b \in StatsBuffer : b.optype \in OpTypes BY DEF StatsBuffer
<1>3. \A v \in Value : Signed(v) \in Int BY DEF Value, Signed
<1> QED BY <1>1, <1>2, <1>3 DEF ResetOf

\* What append does to a counter, and that it never changes the type of a buffer.
LEMMA AppendTypes ==
    ASSUME NEW b \in StatsBuffer, NEW v \in Value
    PROVE  /\ Appended(b, v) \in StatsBuffer /\ Appended(b, v).optype = b.optype
           /\ b.optype = "c" => Appended(b, v).sum = b.sum + (IF v.text = "num" THEN Signed(v) ELSE 0)
<1>1. PICK s \in Int : s = Signed(v) BY BufferTypes
<1>2. v.num \in Int /\ b.sum \in Int /\ b.optype \in OpTypes BY DEF Value, StatsBuffer
<1>3. CASE b.optype = "g" BY <1>1, <1>2, <1>3 DEF Appended, GaugeAppend, StatsBuffer
<1>4. CASE b.optype = "kv" BY <1>1, <1>2, <1>4 DEF Appended, KVAppend, StatsBuffer
<1>5. CASE b.optype = "c" BY <1>1, <1>2, <1>5 DEF Appended, CounterAppend, StatsBuffer
<1>6. CASE b.optype = "s" BY <1>1, <1>2, <1>6 DEF Appended, SetAppend, StatsBuffer
<1>7. CASE b.optype = "ms"
  <2>1. PICK n, t : n = b.count + 1 /\ t = b.sum + s OBVIOUS
  <2>2. n \in Nat /\ t \in Int BY <1>2, <2>1 DEF StatsBuffer
  <2>3. Appended(b, v) = IF v.text # "num" THEN b ELSE [[b EXCEPT !.sum = t] EXCEPT !.count = n]
    BY <1>1, <1>7, <2>1 DEF Appended, TimerAppend
  <2> QED BY <1>7, <2>2, <2>3 DEF StatsBuffer
<1> QED BY <1>2, <1>3, <1>4, <1>5, <1>6, <1>7 DEF OpTypes

\* At the start nothing was sent.
LEMMA StatsdStart ==
    ASSUME StatsdInit
    PROVE  StatsdInv
<1>1. DOMAIN buffer = {} BY DEF StatsdInit
<1>2. NoReadings \in [Keys -> Int] /\ \A k \in Keys : NoReadings[k] = 0 BY DEF NoReadings
<1>3. flusher = [f \in Flushers |-> Idle] BY DEF StatsdInit
<1>4. "tick" \in Flushers /\ "stop" \in Flushers BY DEF Flushers
<1>5. \A f \in Flushers : /\ flusher[f].at = "idle" /\ flusher[f].todo = {} /\ flusher[f].key = NoKey
                         /\ flusher[f].read = NoReadings
  BY <1>3 DEF Idle
<1>6. flusher \in [Flushers -> [at   : {"idle", "visit", "reset", "returned"}, todo : SUBSET Keys,
                               key  : Keys \cup {NoKey}, read : [Keys -> Int]]]
  BY <1>2, <1>3 DEF Idle
<1>7. StatsdType BY <1>1, <1>2, <1>6 DEF StatsdInit, StatsdType
<1>8. FlushInv BY <1>4, <1>5 DEF FlushInv, StatsdInit
<1>9. \A k \in Keys : Balanced(k)
  BY <1>1, <1>2, <1>4, <1>5 DEF Balanced, InHand, InBuffer, StatsdInit
<1> QED BY <1>7, <1>8, <1>9 DEF StatsdInv

\* The goroutine takes a message.
LEMMA TakeStep ==
    ASSUME StatsdInv, NEW m \in Msg, TakeMsg(m)
    PROVE  StatsdInv'
<1>1. /\ gor = "select" /\ queue = "open" /\ gor' = "handle" /\ hand' = m
      /\ UNCHANGED <<buffer, queue, flushes, flusher, flushed>>
  BY DEF TakeMsg
<1>2. m # NoMsg /\ m.key \in Keys /\ m.value \in Value BY StatsdAssumption DEF Msg
<1>3. hand = NoMsg BY <1>1 DEF StatsdInv, FlushInv
<1>4. PICK n \in Int : n = Signed(m.value) BY <1>2, BufferTypes
<1>5. sent \in [Keys -> Int] BY DEF StatsdInv, StatsdType
<1>6. /\ sent' \in [Keys -> Int]
      /\ \A k \in Keys : sent'[k] = sent[k] + InHand(k)'
  <2>1. CASE m.optype = "c" /\ m.value.text = "num"
    <3>1. sent' = [sent EXCEPT ![m.key] = sent[m.key] + n] BY <1>4, <2>1 DEF TakeMsg
    <3>2. \A k \in Keys : InHand(k)' = IF m.key = k THEN n ELSE 0 BY <1>1, <1>2, <1>4, <2>1 DEF InHand
    <3> QED BY <1>2, <1>4, <1>5, <3>1, <3>2
  <2>2. CASE ~(m.optype = "c" /\ m.value.text = "num")
    <3>1. sent' = sent BY <2>2 DEF TakeMsg
    <3>2. \A k \in Keys : InHand(k)' = 0 BY <1>1, <2>2 DEF InHand
    <3> QED BY <1>5, <3>1, <3>2
  <2> QED BY <2>1, <2>2
<1>7. \A k \in Keys : InHand(k) = 0 BY <1>3 DEF InHand
<1>8. StatsdType' BY <1>1, <1>6 DEF StatsdInv, StatsdType
<1>9. FlushInv' BY <1>1, <1>2 DEF StatsdInv, FlushInv
<1>10. ASSUME NEW k \in Keys PROVE Balanced(k)'
  <2>1. sent[k] = InHand(k) + InBuffer(k) + flusher["tick"].read[k] + flushed[k]
    BY <1>1 DEF StatsdInv, Balanced
  <2>2. PICK a, b, c, d : a = InHand(k)' /\ b = InBuffer(k) /\ c = flusher["tick"].read[k] /\ d = flushed[k] OBVIOUS
  <2>3. a \in Int BY <1>1, <1>2, <2>2, BufferTypes DEF InHand
  <2>4. b \in Int BY <2>2 DEF InBuffer, StatsdInv, StatsdType, StatsBuffer
  <2>5. c \in Int /\ d \in Int BY <2>2 DEF StatsdInv, StatsdType, Flushers
  <2>6. sent'[k] = a + b + c + d BY <1>6, <1>7, <2>1, <2>2, <2>3, <2>4, <2>5
  <2>7. InBuffer(k)' = b BY <1>1, <2>2 DEF InBuffer
  <2> QED BY <1>1, <2>2, <2>6, <2>7 DEF Balanced
<1> QED BY <1>8, <1>9, <1>10 DEF StatsdInv

\* The goroutine gives up, panics or ends: nothing is moved.
LEMMA GoroutineEnds ==
    ASSUME StatsdInv, HandleMismatch \/ HandlePanic \/ QueueClosed
    PROVE  StatsdInv'
<1>1. /\ UNCHANGED <<buffer, hand, queue, flushes, flusher, sent, flushed>>
      /\ \/ gor = "handle" /\ gor' \in {"stopped", "crashed"}
         \/ gor = "select" /\ gor' = "ended"
  BY DEF HandleMismatch, HandlePanic, QueueClosed
<1>2. StatsdType' BY <1>1 DEF StatsdInv, StatsdType
<1>3. FlushInv' BY <1>1 DEF StatsdInv, FlushInv
<1>4. (queue = "open" => \A k \in Keys : Balanced(k))' BY <1>1 DEF StatsdInv, Balanced, InHand, InBuffer
<1> QED BY <1>2, <1>3, <1>4 DEF StatsdInv

\* The message goes into the buffer of its key.
LEMMA AppendStep ==
    ASSUME StatsdInv, HandleAppend
    PROVE  StatsdInv'
<1>1. /\ gor = "handle" /\ gor' = "select" /\ hand' = NoMsg
      /\ hand.optype # "other" /\ BufferFor(hand).optype = hand.optype
      /\ UNCHANGED <<queue, flushes, flusher, sent, flushed>>
  BY DEF HandleAppend
<1>2. hand \in Msg /\ hand # NoMsg BY <1>1 DEF StatsdInv, StatsdType, FlushInv
<1>3. hand.key \in Keys /\ hand.value \in Value /\ hand.optype \in OpTypes BY <1>1, <1>2 DEF Msg
<1>4. PICK h \in Keys : h = hand.key BY <1>3
<1>5. DOMAIN buffer \subseteq Keys /\ \A k \in DOMAIN buffer : buffer[k] \in StatsBuffer BY DEF StatsdInv, StatsdType
<1>6. PICK b \in StatsBuffer : b = BufferFor(hand) BY <1>3, <1>5, BufferTypes DEF BufferFor
<1>7. h \notin DOMAIN buffer => b.sum = 0 BY <1>3, <1>4, <1>6, BufferTypes DEF BufferFor
<1>8. h \in DOMAIN buffer => b = buffer[h] BY <1>4, <1>6 DEF BufferFor
<1>9. PICK a \in StatsBuffer : a = Appended(b, hand.value) BY <1>3, AppendTypes
<1>10. /\ a.optype = b.optype /\ b.optype = hand.optype
       /\ b.optype = "c" => a.sum = b.sum + (IF hand.value.text = "num" THEN Signed(hand.value) ELSE 0)
  BY <1>1, <1>3, <1>6, <1>9, AppendTypes
<1>11. /\ DOMAIN buffer' = DOMAIN buffer \cup {h} /\ buffer'[h] = a
       /\ \A k \in DOMAIN buffer \ {h} : buffer'[k] = buffer[k]
  BY <1>4, <1>6, <1>9 DEF HandleAppend, WithBuffer
<1>12. flusher["tick"].at = "idle" /\ flusher["tick"].key = NoKey
  BY <1>1 DEF StatsdInv, StatsdType, FlushInv, Flushers
<1>13. StatsdType' BY <1>1, <1>5, <1>11 DEF StatsdInv, StatsdType
<1>14. FlushInv' BY <1>1, <1>2, <1>11, <1>12 DEF StatsdInv, FlushInv
<1>15. ASSUME queue' = "open", NEW k \in Keys PROVE Balanced(k)'
  <2>1. sent[k] = InHand(k) + InBuffer(k) + flusher["tick"].read[k] + flushed[k]
    BY <1>1, <1>15 DEF StatsdInv, Balanced
  <2>2. InHand(k)' = 0 BY <1>1 DEF InHand
  <2>3. k # NoKey BY StatsdAssumption
  <2>4. InHand(k) + InBuffer(k) = InBuffer(k)' /\ InBuffer(k)' \in Int
    <3>1. CASE k # h
      <4>1. InHand(k) = 0 BY <1>4, <3>1 DEF InHand
      <4>2. InBuffer(k)' = InBuffer(k) BY <1>1, <1>11, <3>1 DEF InBuffer
      <4>3. InBuffer(k) \in Int BY <1>5 DEF InBuffer, StatsBuffer
      <4> QED BY <4>1, <4>2, <4>3
    <3>2. CASE k = h /\ b.optype = "c"
      <4>1. b.sum \in Int /\ Signed(hand.value) \in Int BY <1>3, BufferTypes DEF StatsBuffer
      <4>2. InHand(k) = IF hand.value.text = "num" THEN Signed(hand.value) ELSE 0
        BY <1>2, <1>4, <1>10, <3>2 DEF InHand
      <4>3. InBuffer(k) = b.sum BY <1>7, <1>8, <1>12, <2>3, <3>2 DEF InBuffer
      <4>4. InBuffer(k)' = a.sum BY <1>1, <1>10, <1>11, <1>12, <2>3, <3>2 DEF InBuffer
      <4> QED BY <1>10, <3>2, <4>1, <4>2, <4>3, <4>4
    <3>3. CASE k = h /\ b.optype # "c"
      <4>1. InHand(k) = 0 BY <1>10, <3>3 DEF InHand
      <4>2. InBuffer(k) = 0 BY <1>8, <3>3 DEF InBuffer
      <4>3. InBuffer(k)' = 0 BY <1>10, <1>11, <3>3 DEF InBuffer
      <4> QED BY <4>1, <4>2, <4>3
    <3> QED BY <3>1, <3>2, <3>3
  <2>5. flusher["tick"].read[k] \in Int /\ flushed[k] \in Int BY DEF StatsdInv, StatsdType, Flushers
  <2>6. PICK p, q, r : p = InHand(k) /\ q = InBuffer(k) /\ r = InBuffer(k)' OBVIOUS
  <2>7. sent[k] = 0 + r + flusher["tick"].read[k] + flushed[k]
    BY <2>1, <2>4, <2>5, <2>6
  <2> QED BY <1>1, <2>2, <2>6, <2>7 DEF Balanced
<1> QED BY <1>13, <1>14, <1>15 DEF StatsdInv

\* A flush starts, on a tick or in Stop.
LEMMA FlushStarts ==
    ASSUME StatsdInv, Tick \/ BeginStop
    PROVE  StatsdInv'
<1>1. PICK f \in Flushers :
        /\ \/ f = "tick" /\ gor = "select" /\ gor' = "flush" /\ queue' = queue /\ flushes' = flushes + 1
           \/ f = "stop" /\ gor' = gor /\ queue' = "closed" /\ flushes' = flushes
        /\ BeginFlush(f)
        /\ UNCHANGED <<buffer, hand, sent, flushed>>
  <2>1. CASE Tick BY <2>1 DEF Tick, Flushers
  <2>2. CASE BeginStop BY <2>2 DEF BeginStop, Flushers
  <2> QED BY <2>1, <2>2
<1>2. /\ DOMAIN buffer \subseteq Keys /\ NoReadings \in [Keys -> Int]
      /\ \A k \in Keys : NoReadings[k] = 0
  BY DEF StatsdInv, StatsdType, NoReadings
<1>3. PICK g : g = [Idle EXCEPT !.at = "visit", !.todo = DOMAIN buffer] OBVIOUS
<1>4. g.at = "visit" /\ g.todo = DOMAIN buffer /\ g.key = NoKey /\ g.read = NoReadings BY <1>3 DEF Idle
<1>5. g \in [at   : {"idle", "visit", "reset", "returned"}, todo : SUBSET Keys,
             key  : Keys \cup {NoKey}, read : [Keys -> Int]]
  BY <1>2, <1>3 DEF Idle
<1>6. flusher' = [flusher EXCEPT ![f] = g] BY <1>1, <1>3 DEF BeginFlush
<1>7. StatsdType' BY <1>1, <1>5, <1>6 DEF StatsdInv, StatsdType
<1>8. flusher'[f] = g /\ \A e \in Flushers \ {f} : flusher'[e] = flusher[e]
  BY <1>6 DEF StatsdInv, StatsdType
<1>9. "tick" \in Flushers /\ "stop" \in Flushers /\ f \in {"tick", "stop"} BY DEF Flushers
<1>10. FlushInv' BY <1>1, <1>2, <1>4, <1>8, <1>9 DEF StatsdInv, FlushInv
<1>11. ASSUME queue' = "open", NEW k \in Keys PROVE Balanced(k)'
  <2>1. f = "tick" /\ gor = "select" /\ queue' = queue BY <1>1, <1>11
  <2>2. flusher["tick"].at = "idle" BY <2>1 DEF StatsdInv, FlushInv
  <2>3. flusher["tick"].read[k] = flusher'["tick"].read[k] /\ flusher["tick"].key = flusher'["tick"].key
    BY <1>4, <1>8, <1>9, <2>1, <2>2 DEF StatsdInv, FlushInv
  <2>4. InHand(k)' = InHand(k) /\ InBuffer(k)' = InBuffer(k) BY <1>1, <2>3 DEF InHand, InBuffer
  <2> QED BY <1>1, <1>11, <2>1, <2>3, <2>4 DEF StatsdInv, Balanced
<1> QED BY <1>7, <1>10, <1>11 DEF StatsdInv

\* value() reads.
LEMMA ReadStep ==
    ASSUME StatsdInv, NEW f \in Flushers, ReadValue(f)
    PROVE  StatsdInv'
<1>1. flusher[f].at = "visit" /\ UNCHANGED <<buffer, gor, hand, queue, flushes, sent, flushed>> BY DEF ReadValue
<1>2. flusher \in [Flushers -> [at   : {"idle", "visit", "reset", "returned"}, todo : SUBSET Keys,
                               key  : Keys \cup {NoKey}, read : [Keys -> Int]]]
  BY DEF StatsdInv, StatsdType
<1>3. PICK k \in flusher[f].todo :
        flusher' = [flusher EXCEPT
             ![f] = [at   |-> "reset", todo |-> flusher[f].todo \ {k}, key |-> k,
                     read |-> [flusher[f].read EXCEPT
                                ![k] = IF buffer[k].optype = "c" THEN ReadingOf(buffer[k]).sum ELSE 0]]]
  BY <1>2 DEF ReadValue
<1>4. /\ k \in Keys /\ k \in DOMAIN buffer /\ buffer[k] \in StatsBuffer /\ flusher[f].read[k] = 0
      /\ flusher[f].key = NoKey /\ k # NoKey
  BY <1>1, <1>2, <1>3, StatsdAssumption DEF StatsdInv, StatsdType, FlushInv
<1>5. PICK n \in Int : n = IF buffer[k].optype = "c" THEN buffer[k].sum ELSE 0 BY <1>4 DEF StatsBuffer
<1>6. n = IF buffer[k].optype = "c" THEN ReadingOf(buffer[k]).sum ELSE 0 BY <1>5 DEF ReadingOf
<1>7. PICK r : r = [flusher[f].read EXCEPT ![k] = n] OBVIOUS
<1>8. r \in [Keys -> Int] /\ r[k] = n /\ \A j \in Keys \ {k} : r[j] = flusher[f].read[j] BY <1>2, <1>4, <1>7
<1>9. PICK g : g = [at |-> "reset", todo |-> flusher[f].todo \ {k}, key |-> k, read |-> r] OBVIOUS
<1>10. flusher' = [flusher EXCEPT ![f] = g] BY <1>3, <1>6, <1>7, <1>9
<1>11. g.at = "reset" /\ g.todo = flusher[f].todo \ {k} /\ g.key = k /\ g.read = r BY <1>9
<1>12. g \in [at   : {"idle", "visit", "reset", "returned"}, todo : SUBSET Keys,
              key  : Keys \cup {NoKey}, read : [Keys -> Int]]
  BY <1>2, <1>4, <1>8, <1>9
<1>13. StatsdType' BY <1>1, <1>10, <1>12 DEF StatsdInv, StatsdType
<1>14. flusher'[f] = g /\ \A e \in Flushers \ {f} : flusher'[e] = flusher[e] BY <1>2, <1>10
<1>15. "tick" \in Flushers /\ "stop" \in Flushers /\ f \in {"tick", "stop"} BY DEF Flushers
<1>16. FlushInv'
  <2>1. \A j \in g.todo : r[j] = 0 BY <1>2, <1>8, <1>11 DEF StatsdInv, FlushInv
  <2>2. g.todo \subseteq DOMAIN buffer BY <1>11 DEF StatsdInv, FlushInv
  <2>3. \A e \in Flushers : /\ flusher'[e].todo \subseteq DOMAIN buffer
                            /\ flusher'[e].at = "idle" => flusher'[e].read = NoReadings
                            /\ flusher'[e].at = "reset" => flusher'[e].key \in DOMAIN buffer
                            /\ flusher'[e].at # "reset" => flusher'[e].key = NoKey
                            /\ \A j \in flusher'[e].todo : flusher'[e].read[j] = 0
    BY <1>4, <1>11, <1>14, <2>1, <2>2 DEF StatsdInv, FlushInv
  <2>4. /\ gor = "flush" <=> flusher'["tick"].at # "idle"
        /\ flusher'["tick"].at # "returned"
        /\ queue = "open" => flusher'["stop"].at = "idle"
    BY <1>1, <1>11, <1>14, <1>15 DEF StatsdInv, FlushInv
  <2> QED BY <1>1, <2>3, <2>4 DEF StatsdInv, FlushInv
<1>17. ASSUME queue' = "open", NEW j \in Keys PROVE Balanced(j)'
  <2>1. f = "tick" BY <1>1, <1>15, <1>17 DEF StatsdInv, FlushInv
  <2>2. InHand(j)' = InHand(j) /\ Balanced(j) BY <1>1, <1>17 DEF InHand, StatsdInv
  <2>3. flusher'["tick"] = g BY <1>14, <2>1
  <2>4. CASE j # k
    <3>1. InBuffer(j)' = InBuffer(j) BY <1>1, <1>4, <1>11, <2>1, <2>3, <2>4, StatsdAssumption DEF InBuffer
    <3> QED BY <1>1, <1>8, <1>11, <2>1, <2>2, <2>3, <2>4, <3>1 DEF Balanced
  <2>5. CASE j = k
    <3>1. InBuffer(j)' = 0 BY <1>11, <2>3, <2>5 DEF InBuffer
    <3>2. InBuffer(j) = n BY <1>4, <1>5, <2>1, <2>5 DEF InBuffer
    <3>3. flusher["tick"].read[j] = 0 /\ flusher'["tick"].read[j] = n BY <1>4, <1>8, <1>11, <2>1, <2>3, <2>5
    <3>4. InHand(j) \in Int BY BufferTypes DEF InHand, StatsdInv, StatsdType, Msg
    <3>5. flushed[j] \in Int BY DEF StatsdInv, StatsdType
    <3>6. PICK h, s : h = InHand(j) /\ s = sent[j] OBVIOUS
    <3>7. s = h + n + 0 + flushed[j] BY <2>2, <3>2, <3>3, <3>6 DEF Balanced
    <3>8. s = h + 0 + n + flushed[j] BY <3>4, <3>5, <3>6, <3>7
    <3> QED BY <1>1, <2>2, <3>1, <3>3, <3>6, <3>8 DEF Balanced
  <2> QED BY <2>4, <2>5
<1> QED BY <1>13, <1>16, <1>17 DEF StatsdInv

\* value() resets.
LEMMA ResetStep ==
    ASSUME StatsdInv, NEW f \in Flushers, ResetValue(f)
    PROVE  StatsdInv'
<1>1. flusher[f].at = "reset" /\ UNCHANGED <<gor, hand, queue, flushes, sent, flushed>> BY DEF ResetValue
<1>2. /\ flusher \in [Flushers -> [at   : {"idle", "visit", "reset", "returned"}, todo : SUBSET Keys,
                                  key  : Keys \cup {NoKey}, read : [Keys -> Int]]]
      /\ DOMAIN buffer \subseteq Keys /\ \A k \in DOMAIN buffer : buffer[k] \in StatsBuffer
  BY DEF StatsdInv, StatsdType
<1>3. PICK k : k = flusher[f].key OBVIOUS
<1>4. k \in DOMAIN buffer /\ k \in Keys /\ k # NoKey BY <1>1, <1>2, <1>3, StatsdAssumption DEF StatsdInv, FlushInv
<1>5. PICK b : b = ResetOf(buffer[k]) OBVIOUS
<1>6. b \in StatsBuffer /\ b.optype = buffer[k].optype /\ (b.optype = "c" => b.sum = 0)
  BY <1>2, <1>4, <1>5, BufferTypes
<1>7. buffer' = [buffer EXCEPT ![k] = b] BY <1>3, <1>5 DEF ResetValue
<1>8. /\ DOMAIN buffer' = DOMAIN buffer /\ buffer'[k] = b
      /\ \A j \in DOMAIN buffer \ {k} : buffer'[j] = buffer[j]
  BY <1>4, <1>7
<1>9. PICK g : g = [[flusher[f] EXCEPT !.at = "visit"] EXCEPT !.key = NoKey] OBVIOUS
<1>10. flusher' = [flusher EXCEPT ![f] = g] BY <1>2, <1>9 DEF ResetValue
<1>11. /\ g.at = "visit" /\ g.key = NoKey /\ g.todo = flusher[f].todo /\ g.read = flusher[f].read
       /\ g \in [at   : {"idle", "visit", "reset", "returned"}, todo : SUBSET Keys,
                 key  : Keys \cup {NoKey}, read : [Keys -> Int]]
  BY <1>2, <1>9
<1>12. flusher'[f] = g /\ \A e \in Flushers \ {f} : flusher'[e] = flusher[e] BY <1>2, <1>10
<1>13. "tick" \in Flushers /\ "stop" \in Flushers /\ f \in {"tick", "stop"} BY DEF Flushers
<1>14. StatsdType'
  <2>1. \A j \in DOMAIN buffer' : buffer'[j] \in StatsBuffer BY <1>2, <1>6, <1>8
  <2> QED BY <1>1, <1>2, <1>8, <1>10, <1>11, <2>1 DEF StatsdInv, StatsdType
<1>15. FlushInv'
  <2>1. \A e \in Flushers : /\ flusher'[e].todo \subseteq DOMAIN buffer'
                            /\ flusher'[e].at = "idle" => flusher'[e].read = NoReadings
                            /\ flusher'[e].at = "reset" => flusher'[e].key \in DOMAIN buffer'
                            /\ flusher'[e].at # "reset" => flusher'[e].key = NoKey
                            /\ \A j \in flusher'[e].todo : flusher'[e].read[j] = 0
    BY <1>8, <1>11, <1>12 DEF StatsdInv, FlushInv
  <2>2. /\ gor = "flush" <=> flusher'["tick"].at # "idle"
        /\ flusher'["tick"].at # "returned"
        /\ queue = "open" => flusher'["stop"].at = "idle"
    BY <1>1, <1>11, <1>12, <1>13 DEF StatsdInv, FlushInv
  <2> QED BY <1>1, <2>1, <2>2 DEF StatsdInv, FlushInv
<1>16. ASSUME queue' = "open", NEW j \in Keys PROVE Balanced(j)'
  <2>1. f = "tick" BY <1>1, <1>13, <1>16 DEF StatsdInv, FlushInv
  <2>2. InHand(j)' = InHand(j) /\ Balanced(j) BY <1>1, <1>16 DEF InHand, StatsdInv
  <2>3. flusher'["tick"].key = NoKey /\ flusher'["tick"].read = flusher["tick"].read /\ flusher["tick"].key = k
    BY <1>3, <1>11, <1>12, <2>1
  <2>4. InBuffer(j)' = InBuffer(j)
    <3>1. CASE j # k BY <1>8, <2>3, <3>1, StatsdAssumption DEF InBuffer
    <3>2. CASE j = k
      <4>1. InBuffer(j) = 0 BY <2>3, <3>2 DEF InBuffer
      <4>2. InBuffer(j)' = 0 BY <1>6, <1>8, <3>2 DEF InBuffer
      <4> QED BY <4>1, <4>2
    <3> QED BY <3>1, <3>2
  <2> QED BY <1>1, <2>2, <2>3, <2>4 DEF Balanced
<1> QED BY <1>14, <1>15, <1>16 DEF StatsdInv

\* The readings go to onflush.
LEMMA EndFlushStep ==
    ASSUME StatsdInv, NEW f \in Flushers, EndFlush(f)
    PROVE  StatsdInv'
<1>1. /\ flusher[f].at = "visit" /\ UNCHANGED <<buffer, hand, queue, flushes, sent>>
      /\ flushed' = [k \in Keys |-> flushed[k] + flusher[f].read[k]]
      /\ gor' = IF f = "tick" THEN "select" ELSE gor
  BY DEF EndFlush
<1>2. /\ flusher \in [Flushers -> [at   : {"idle", "visit", "reset", "returned"}, todo : SUBSET Keys,
                                  key  : Keys \cup {NoKey}, read : [Keys -> Int]]]
      /\ flushed \in [Keys -> Int]
  BY DEF StatsdInv, StatsdType
<1>3. \A k \in Keys : flushed[k] \in Int /\ flusher[f].read[k] \in Int BY <1>2
<1>4. flushed' \in [Keys -> Int] BY <1>1, <1>3
<1>5. PICK g : g = [Idle EXCEPT !.at = IF f = "stop" THEN "returned" ELSE "idle"] OBVIOUS
<1>6. NoReadings \in [Keys -> Int] /\ \A k \in Keys : NoReadings[k] = 0 BY DEF NoReadings
<1>7. /\ g.at = (IF f = "stop" THEN "returned" ELSE "idle") /\ g.todo = {} /\ g.key = NoKey /\ g.read = NoReadings
      /\ g \in [at   : {"idle", "visit", "reset", "returned"}, todo : SUBSET Keys,
                key  : Keys \cup {NoKey}, read : [Keys -> Int]]
  BY <1>5, <1>6 DEF Idle
<1>8. flusher' = [flusher EXCEPT ![f] = g] BY <1>5 DEF EndFlush
<1>9. flusher'[f] = g /\ \A e \in Flushers \ {f} : flusher'[e] = flusher[e] BY <1>2, <1>8
<1>10. "tick" \in Flushers /\ "stop" \in Flushers /\ f \in {"tick", "stop"} BY DEF Flushers
<1>11. gor' \in {gor, "select"} /\ (f = "tick" => gor = "flush" /\ gor' = "select")
  BY <1>1 DEF StatsdInv, FlushInv
<1>12. StatsdType' BY <1>1, <1>2, <1>4, <1>7, <1>8, <1>11 DEF StatsdInv, StatsdType
<1>13. FlushInv'
  <2>1. \A e \in Flushers : /\ flusher'[e].todo \subseteq DOMAIN buffer
                            /\ flusher'[e].at = "idle" => flusher'[e].read = NoReadings
                            /\ flusher'[e].at = "reset" => flusher'[e].key \in DOMAIN buffer
                            /\ flusher'[e].at # "reset" => flusher'[e].key = NoKey
                            /\ \A j \in flusher'[e].todo : flusher'[e].read[j] = 0
    BY <1>7, <1>9 DEF StatsdInv, FlushInv
  <2>2. CASE f = "tick"
    <3>1. flusher'["tick"].at = "idle" /\ flusher'["stop"] = flusher["stop"] BY <1>7, <1>9, <1>10, <2>2
    <3>2. gor = "flush" /\ gor' = "select" BY <1>11, <2>2
    <3> QED BY <1>1, <2>1, <3>1, <3>2 DEF StatsdInv, FlushInv
  <2>3. CASE f = "stop"
    <3>1. flusher'["tick"] = flusher["tick"] /\ gor' = gor BY <1>1, <1>9, <1>10, <2>3
    <3>2. queue # "open" BY <1>1, <2>3 DEF StatsdInv, FlushInv
    <3> QED BY <1>1, <2>1, <3>1, <3>2 DEF StatsdInv, FlushInv
  <2> QED BY <1>10, <2>2, <2>3
<1>14. ASSUME queue' = "open", NEW k \in Keys PROVE Balanced(k)'
  <2>1. f = "tick" BY <1>1, <1>10, <1>14 DEF StatsdInv, FlushInv
  <2>2. InHand(k)' = InHand(k) /\ Balanced(k) BY <1>1, <1>14 DEF InHand, StatsdInv
  <2>3. flusher'["tick"].key = NoKey /\ flusher'["tick"].read[k] = 0 /\ flusher["tick"].key = NoKey
    BY <1>1, <1>6, <1>7, <1>9, <2>1 DEF StatsdInv, FlushInv
  <2>4. InBuffer(k)' = InBuffer(k) BY <1>1, <2>3 DEF InBuffer
  <2>5. InHand(k) \in Int BY BufferTypes DEF InHand, StatsdInv, StatsdType, Msg
  <2>6. InBuffer(k) \in Int BY DEF InBuffer, StatsdInv, StatsdType, StatsBuffer
  <2>7. PICK h, b, r, s : h = InHand(k) /\ b = InBuffer(k) /\ r = flusher["tick"].read[k] /\ s = flushed[k] OBVIOUS
  <2>8. s \in Int /\ r \in Int /\ flushed'[k] = s + r BY <1>1, <1>3, <2>1, <2>7
  <2>9. sent[k] = h + b + r + s BY <2>2, <2>7 DEF Balanced
  <2>10. sent[k] = h + b + 0 + flushed'[k] BY <2>5, <2>6, <2>7, <2>8, <2>9
  <2> QED BY <1>1, <2>2, <2>3, <2>4, <2>7, <2>10 DEF Balanced
<1> QED BY <1>12, <1>13, <1>14 DEF StatsdInv

\* Every step of the statistics.
LEMMA StatsdSteps ==
    ASSUME StatsdInv, StatsdStep \/ FlushStep("stop") \/ BeginStop \/ \E m \in Msg : TakeMsg(m)
    PROVE  StatsdInv'
<1>1. "tick" \in Flushers /\ "stop" \in Flushers BY DEF Flushers
<1>2. ASSUME NEW f \in Flushers, FlushStep(f) PROVE StatsdInv'
  BY <1>2, ReadStep, ResetStep, EndFlushStep DEF FlushStep
<1> QED BY <1>1, <1>2, GoroutineEnds, AppendStep, FlushStarts, TakeStep DEF StatsdStep

\* One that leaves the statistics alone.
LEMMA StatsdRest ==
    ASSUME StatsdInv, UNCHANGED statsdVars
    PROVE  StatsdInv'
<1>1. UNCHANGED <<buffer, gor, hand, queue, flushes, flusher, sent, flushed>> BY DEF statsdVars
<1>2. StatsdType' BY <1>1 DEF StatsdInv, StatsdType
<1>3. FlushInv' BY <1>1 DEF StatsdInv, FlushInv
<1>4. (queue = "open" => \A k \in Keys : Balanced(k))' BY <1>1 DEF StatsdInv, Balanced, InHand, InBuffer
<1> QED BY <1>2, <1>3, <1>4 DEF StatsdInv

-----------------------------------------------------------------------------
(* The output of the process *)

Consumer == [at : {"read", "send", "signal", "over"}, read : Nat, multi : BOOLEAN, failed : BOOLEAN,
             msg : Message]

\* What a consumer may be about to send, and when it is at its end.
ConsumerInv(p) ==
    /\ cons[p].read <= Len(written[p])
    /\ cons[p].at = "send" => cons[p].msg.level # LevelExitState
    /\ cons[p].at \in {"signal", "over"} =>
         cons[p].failed \/ (pipe[p] = "closed" /\ cons[p].read = Len(written[p]))

ProcType == kind \in Kinds /\ written \in [Pipes -> Seq(Line)] /\ pipe \in [Pipes -> {"open", "closed"}]

JobType ==
    /\ pc \in {"stdin", "select", "feed", "drain", "stop", "stopping", "end"}
    /\ ticks \in Nat
    /\ feed \in Seq(Msg)
    /\ pc = "feed" => feed # << >>
    /\ streams \in [Pipes -> Seq(Message)]
    /\ result \in Message \cup {NoMsg}
    /\ handled \in Seq(Message)

\* The order of the end: the consumers, the process, the goroutine that waits for it, and
\* the select loop, unless that was left before.
EndInv ==
    /\ proc \in {"running", "SUCCESS", "ERROR"}
    /\ closer \in {"out", "err", "wait", "send", "closed"}
    /\ state \in {"ERROR", "SUCCESS", "KILLED"}
    /\ closer # "out" => cons["out"].at = "over"
    /\ closer \notin {"out", "err"} => cons["err"].at = "over"
    /\ closer \in {"send", "closed"} => proc # "running"
    /\ pc \notin {"stdin", "select", "feed"} => state = "KILLED" \/ (closer = "closed" /\ state = proc)

JobInv ==
    /\ ProcType
    /\ cons \in [Pipes -> Consumer]
    /\ \A p \in Pipes : ConsumerInv(p)
    /\ JobType
    /\ EndInv

\* The two pipes, and the message a consumer starts with.
LEMMA TwoPipes ==
    /\ Pipes = {"out", "err"} /\ DefaultLevel \in [Pipes -> Nat]
    /\ \A p \in Pipes : DefaultLevel[p] # LevelExitState
    /\ \A p \in Pipes : EmptyMessage(p) \in Message
<1>1. \A p \in Pipes : EmptyMessage(p) \in Message BY DEF EmptyMessage, Message
<1> QED BY <1>1 DEF Pipes, DefaultLevel, LevelStdout, LevelStderr, LevelExitState

\* A message goes through the interceptor: the level of the exit state does not pass.
LEMMA EmitKeeps ==
    ASSUME NEW c \in Consumer, NEW m \in Message
    PROVE  /\ Emit(c, m) \in Consumer /\ Emit(c, m).read = c.read /\ Emit(c, m).failed = c.failed
           /\ Emit(c, m).at \in {"read", "send"}
           /\ Emit(c, m).at = "send" => Emit(c, m).msg.level # LevelExitState
<1>1. PICK i : i = Intercepted(m) OBVIOUS
<1>2. i \in Message /\ i.level # LevelExitState
  BY <1>1 DEF Intercepted, Message, LevelExitState, LevelStderr
<1>3. PICK o : o = EmptyMessage(m.pipe) OBVIOUS
<1>4. o \in Message BY <1>3, TwoPipes DEF Message
<1>5. Emit(c, m) = IF Internal(i) THEN [[[c EXCEPT !.at = "read"] EXCEPT !.multi = FALSE] EXCEPT !.msg = o]
                   ELSE [[[c EXCEPT !.at = "send"] EXCEPT !.multi = FALSE] EXCEPT !.msg = i]
  BY <1>1, <1>3 DEF Emit
<1> QED BY <1>2, <1>4, <1>5 DEF Consumer

\* What a consumer does with a line.
LEMMA ConsumedKeeps ==
    ASSUME NEW p \in Pipes, NEW c \in Consumer, NEW l \in Line, c.at = "read"
    PROVE  /\ Consumed(p, c, l) \in Consumer /\ Consumed(p, c, l).read = c.read + 1
           /\ Consumed(p, c, l).failed = c.failed /\ Consumed(p, c, l).at \in {"read", "send"}
           /\ Consumed(p, c, l).at = "send" => Consumed(p, c, l).msg.level # LevelExitState
<1>1. PICK n \in Nat : n = c.read + 1 BY DEF Consumer
<1>2. PICK d : d = [c EXCEPT !.read = n] OBVIOUS
<1>3. /\ d \in Consumer /\ d.read = n /\ d.failed = c.failed /\ d.at = "read" /\ d.multi = c.multi
      /\ d.msg = c.msg
  BY <1>1, <1>2 DEF Consumer
<1>4. <<n>> \in Seq(Nat) BY <1>1
<1>5. l.level \in Nat /\ l.stat \in Msg \cup {NoMsg} /\ l.form \in {"empty", "plain", "single", "open", "close"}
  BY DEF Line
<1>6. PICK w : w = [pipe |-> p, level |-> l.level, body |-> <<n>>, stat |-> l.stat] OBVIOUS
<1>7. w \in Message BY <1>4, <1>5, <1>6 DEF Message
<1>8. CASE l.form = "empty"
  <2>1. Consumed(p, c, l) = d BY <1>1, <1>2, <1>8 DEF Consumed
  <2> QED BY <1>1, <1>3, <2>1
<1>9. CASE l.form # "empty" /\ c.multi
  <2>1. Consumed(p, c, l) = Continued(d, n, l) BY <1>1, <1>2, <1>9 DEF Consumed
  <2>2. CASE l.form = "close"
    <3>1. Continued(d, n, l) = Emit(d, d.msg) /\ d.msg \in Message BY <1>3, <2>2 DEF Continued, Consumer
    <3> QED BY <1>1, <1>3, <2>1, <3>1, EmitKeeps
  <2>3. CASE l.form # "close"
    <3>1. d.msg \in Message BY <1>3 DEF Consumer
    <3>2. PICK b : b = Append(d.msg.body, n) OBVIOUS
    <3>3. b \in Seq(Nat) BY <1>1, <3>1, <3>2 DEF Message
    <3>4. PICK g : g = [d.msg EXCEPT !.body = b] OBVIOUS
    <3>5. g \in Message BY <3>1, <3>3, <3>4 DEF Message
    <3>6. Continued(d, n, l) = [d EXCEPT !.msg = g] BY <2>3, <3>2, <3>4 DEF Continued
    <3> QED BY <1>1, <1>3, <2>1, <3>5, <3>6 DEF Consumer
  <2> QED BY <2>2, <2>3
<1>10. CASE l.form \in {"plain", "close"} /\ ~c.multi
  <2>1. PICK g : g = [[w EXCEPT !.level = DefaultLevel[p]] EXCEPT !.stat = NoMsg] OBVIOUS
  <2>2. g \in Message
    <3>1. DefaultLevel[p] \in Nat BY TwoPipes
    <3> QED BY <1>7, <2>1, <3>1 DEF Message
  <2>3. Consumed(p, c, l) = Emit(d, g) BY <1>1, <1>2, <1>6, <1>10, <2>1 DEF Consumed
  <2> QED BY <1>1, <1>3, <2>2, <2>3, EmitKeeps
<1>11. CASE l.form = "single" /\ ~c.multi
  <2>1. Consumed(p, c, l) = Emit(d, w) BY <1>1, <1>2, <1>6, <1>11 DEF Consumed
  <2> QED BY <1>1, <1>3, <1>7, <2>1, EmitKeeps
<1>12. CASE l.form = "open" /\ ~c.multi
  <2>1. Consumed(p, c, l) = [[d EXCEPT !.multi = TRUE] EXCEPT !.msg = w]
    BY <1>1, <1>2, <1>6, <1>12 DEF Consumed
  <2> QED BY <1>1, <1>3, <1>7, <2>1 DEF Consumer
<1> QED BY <1>5, <1>8, <1>9, <1>10, <1>11, <1>12

\* A buffer of lines takes one more.
LEMMA BufferKeeps ==
    ASSUME NEW b \in Seq(Message), NEW m \in Message
    PROVE  BufferAppend(b, m) \in Seq(Message)
<1>1. PICK a : a = Append(b, m) OBVIOUS
<1>2. a \in Seq(Message) /\ Len(a) = Len(b) + 1 /\ Len(b) \in Nat BY <1>1
<1>3. a # << >> BY <1>2
<1>4. Tail(a) \in Seq(Message) BY <1>2, <1>3
<1> QED BY <1>1, <1>2, <1>4 DEF BufferAppend

\* At the start nothing was read.
LEMMA JobStart ==
    ASSUME Init
    PROVE  JobInv
<1>1. PICK s \in Scripts : /\ kind = s.kind /\ ticks = s.ticks
                           /\ pc = IF s.stdin THEN "stdin" ELSE "select"
                           /\ written = [p \in Pipes |-> IF p = "out" THEN s.out ELSE s.err]
  BY DEF Init
<1>2. s.kind \in Kinds /\ s.ticks \in Nat /\ s.stdin \in BOOLEAN /\ s.out \in Seq(Line) /\ s.err \in Seq(Line)
  BY JobOutputAssumption
<1>3. ProcType BY <1>1, <1>2 DEF Init, ProcType
<1>4. \A p \in Pipes : EmptyMessage(p) \in Message BY TwoPipes
<1>5. cons \in [Pipes -> Consumer] BY <1>4 DEF Init, Consumer
<1>6. ASSUME NEW p \in Pipes PROVE ConsumerInv(p)
  <2>1. cons[p].at = "read" /\ cons[p].read = 0 BY DEF Init
  <2>2. Len(written[p]) \in Nat BY <1>3 DEF ProcType
  <2> QED BY <2>1, <2>2 DEF ConsumerInv
<1>7. JobType BY <1>1, <1>2 DEF Init, JobType
<1>8. EndInv BY <1>1, <1>2 DEF Init, EndInv
<1> QED BY <1>3, <1>5, <1>6, <1>7, <1>8 DEF JobInv

\* The state of one consumer changes.
LEMMA OneConsumer ==
    ASSUME JobInv, NEW p \in Pipes, NEW k \in Consumer, cons' = [cons EXCEPT ![p] = k],
           UNCHANGED <<procVars, closer, pc, state>>, JobType',
           k.read <= Len(written[p]), k.at = "send" => k.msg.level # LevelExitState,
           k.at \in {"signal", "over"} => k.failed \/ (pipe[p] = "closed" /\ k.read = Len(written[p])),
           cons[p].at # "over"
    PROVE  JobInv'
<1>1. cons \in [Pipes -> Consumer] BY DEF JobInv
<1>2. cons' \in [Pipes -> Consumer] /\ cons'[p] = k /\ \A q \in Pipes \ {p} : cons'[q] = cons[q] BY <1>1
<1>3. UNCHANGED <<kind, written, pipe, proc>> BY DEF procVars
<1>4. ProcType' BY <1>3 DEF JobInv, ProcType
<1>5. \A q \in Pipes : ConsumerInv(q)' BY <1>2, <1>3 DEF JobInv, ConsumerInv
<1>6. \A q \in Pipes : cons[q].at = "over" => cons'[q].at = "over" BY <1>2
<1>7. "out" \in Pipes /\ "err" \in Pipes BY TwoPipes
<1>8. EndInv' BY <1>3, <1>6, <1>7 DEF JobInv, EndInv
<1> QED BY <1>2, <1>4, <1>5, <1>8 DEF JobInv

\* What the runner has is not touched by consumers.
LEMMA JobTypeRests ==
    ASSUME JobInv, UNCHANGED jobVars
    PROVE  JobType' /\ UNCHANGED <<pc, state, ticks, feed, streams, result, handled>>
<1>1. UNCHANGED <<pc, ticks, feed, state, streams, result, handled>> BY DEF jobVars
<1> QED BY <1>1 DEF JobInv, JobType

\* A consumer reads a line, or the end, or an error.
LEMMA ReadSteps ==
    ASSUME JobInv, NEW p \in Pipes, ReadLine(p) \/ ReadEOF(p) \/ ReadFails(p)
    PROVE  JobInv'
<1>1. /\ cons \in [Pipes -> Consumer] /\ cons[p] \in Consumer /\ ConsumerInv(p)
      /\ written[p] \in Seq(Line) /\ Len(written[p]) \in Nat
  BY DEF JobInv, ProcType
<1>2. cons[p].at = "read" /\ UNCHANGED <<procVars, closer, jobVars>> BY DEF ReadLine, ReadEOF, ReadFails
<1>3. JobType' /\ UNCHANGED <<pc, state>> BY <1>2, JobTypeRests
<1>4. CASE ReadLine(p)
  <2>1. PICK n : n = cons[p].read + 1 OBVIOUS
  <2>2. cons[p].read \in Nat BY <1>1 DEF Consumer
  <2>3. n \in 1 .. Len(written[p]) BY <1>1, <1>4, <2>1, <2>2 DEF ReadLine
  <2>4. written[p][n] \in Line BY <1>1, <2>3
  <2>5. PICK k : k = Consumed(p, cons[p], written[p][n]) OBVIOUS
  <2>6. /\ k \in Consumer /\ k.read = n /\ k.at \in {"read", "send"}
        /\ k.at = "send" => k.msg.level # LevelExitState
    BY <1>1, <1>2, <2>1, <2>4, <2>5, ConsumedKeeps
  <2>7. cons' = [cons EXCEPT ![p] = k] BY <1>1, <1>4, <2>1, <2>5 DEF ReadLine
  <2>8. k.read <= Len(written[p]) BY <1>1, <2>3, <2>6
  <2> QED BY <1>2, <1>3, <2>6, <2>7, <2>8, OneConsumer
<1>5. CASE ReadEOF(p)
  <2>1. PICK k : k = [cons[p] EXCEPT !.at = "signal"] OBVIOUS
  <2>2. k \in Consumer /\ k.at = "signal" /\ k.read = cons[p].read BY <1>1, <2>1 DEF Consumer
  <2>3. cons' = [cons EXCEPT ![p] = k] BY <1>1, <1>5, <2>1 DEF ReadEOF
  <2>4. k.read <= Len(written[p]) /\ pipe[p] = "closed" /\ k.read = Len(written[p])
    BY <1>1, <1>5, <2>2 DEF ReadEOF, ConsumerInv
  <2> QED BY <1>2, <1>3, <2>2, <2>3, <2>4, OneConsumer
<1>6. CASE ReadFails(p)
  <2>1. PICK k : k = [[cons[p] EXCEPT !.at = "signal"] EXCEPT !.failed = TRUE] OBVIOUS
  <2>2. k \in Consumer /\ k.at = "signal" /\ k.read = cons[p].read /\ k.failed BY <1>1, <2>1 DEF Consumer
  <2>3. cons' = [cons EXCEPT ![p] = k] BY <1>1, <1>6, <2>1 DEF ReadFails
  <2>4. k.read <= Len(written[p]) BY <1>1, <2>2 DEF ConsumerInv
  <2> QED BY <1>2, <1>3, <2>2, <2>3, <2>4, OneConsumer
<1> QED BY <1>4, <1>5, <1>6

\* A message is taken from its consumer.
LEMMA TookKeeps ==
    ASSUME JobInv, NEW p \in Pipes, Took(p), cons[p].at = "send"
    PROVE  \E k \in Consumer : /\ cons' = [cons EXCEPT ![p] = k]
                               /\ k.at = "read" /\ k.read <= Len(written[p])
<1>1. cons \in [Pipes -> Consumer] /\ cons[p] \in Consumer /\ ConsumerInv(p) BY DEF JobInv
<1>2. PICK o \in Message : o = EmptyMessage(p) BY TwoPipes
<1>3. PICK k : k = [[cons[p] EXCEPT !.at = "read"] EXCEPT !.msg = o] OBVIOUS
<1>4. k \in Consumer /\ k.at = "read" /\ k.read = cons[p].read BY <1>1, <1>3 DEF Consumer
<1>5. cons' = [cons EXCEPT ![p] = k] BY <1>1, <1>2, <1>3 DEF Took
<1> QED BY <1>1, <1>4, <1>5 DEF ConsumerInv

\* The select loop handles a message.
LEMMA HandleStep ==
    ASSUME JobInv, NEW p \in Pipes, Handle(p)
    PROVE  JobInv'
<1>1. /\ cons[p] \in Consumer /\ ConsumerInv(p) /\ JobType BY DEF JobInv
<1>2. pc = "select" /\ cons[p].at = "send" /\ Took(p) /\ UNCHANGED <<procVars, closer, ticks>> BY DEF Handle
<1>3. PICK m : m = cons[p].msg OBVIOUS
<1>4. m \in Message /\ m.level # LevelExitState /\ m.stat \in Msg \cup {NoMsg}
  BY <1>1, <1>2, <1>3 DEF Consumer, ConsumerInv, Message
<1>5. /\ handled' = Append(handled, m)
      /\ result' = IF m.level \in ResultLevels THEN m ELSE result
      /\ streams' = [q \in Pipes |-> IF m.level = DefaultLevel[q] THEN BufferAppend(streams[q], m) ELSE streams[q]]
      /\ feed' = IF m.level = LevelStatsd /\ m.stat # NoMsg THEN <<m.stat>> ELSE << >>
      /\ state' = state
      /\ pc' = IF feed' # << >> THEN "feed" ELSE "select"
  BY <1>3, <1>4 DEF Handle
<1>6. streams' \in [Pipes -> Seq(Message)]
  <2>1. \A q \in Pipes : streams[q] \in Seq(Message) BY <1>1 DEF JobType
  <2>2. \A q \in Pipes : BufferAppend(streams[q], m) \in Seq(Message) BY <1>4, <2>1, BufferKeeps
  <2> QED BY <1>5, <2>1, <2>2
<1>7. feed' \in Seq(Msg) BY <1>4, <1>5
<1>8. JobType' BY <1>1, <1>2, <1>4, <1>5, <1>6, <1>7 DEF JobType
<1>9. PICK k \in Consumer : cons' = [cons EXCEPT ![p] = k] /\ k.at = "read" /\ k.read <= Len(written[p])
  BY <1>2, TookKeeps
<1>10. cons' \in [Pipes -> Consumer] /\ cons'[p] = k /\ \A q \in Pipes \ {p} : cons'[q] = cons[q]
  BY <1>9 DEF JobInv
<1>11. UNCHANGED <<kind, written, pipe, proc>> BY <1>2 DEF procVars
<1>12. ProcType' BY <1>11 DEF JobInv, ProcType
<1>13. \A q \in Pipes : ConsumerInv(q)' BY <1>9, <1>10, <1>11 DEF JobInv, ConsumerInv
<1>14. \A q \in Pipes : cons[q].at = "over" => cons'[q].at = "over" BY <1>2, <1>10
<1>15. "out" \in Pipes /\ "err" \in Pipes BY TwoPipes
<1>16. pc' \in {"select", "feed"} BY <1>5
<1>17. EndInv' BY <1>2, <1>5, <1>11, <1>14, <1>15, <1>16 DEF JobInv, EndInv
<1> QED BY <1>8, <1>10, <1>12, <1>13, <1>17 DEF JobInv

\* A step that leaves the consumers where they are.
LEMMA NoConsumer ==
    ASSUME JobInv, UNCHANGED <<kind, written, cons>>, JobType', EndInv',
           pipe' \in [Pipes -> {"open", "closed"}],
           \A p \in Pipes : pipe[p] = "closed" => pipe'[p] = "closed"
    PROVE  JobInv'
<1>1. ProcType' BY DEF JobInv, ProcType
<1>2. \A p \in Pipes : ConsumerInv(p)' BY DEF JobInv, ConsumerInv
<1> QED BY <1>1, <1>2 DEF JobInv

\* The process exits, and a pipe is closed.
LEMMA ProcessSteps ==
    ASSUME JobInv, Exit \/ \E p \in Pipes : ClosePipe(p)
    PROVE  JobInv'
<1>1. /\ UNCHANGED <<kind, written, cons, closer, jobVars>>
      /\ \/ proc = "running" /\ proc' \in {"SUCCESS", "ERROR"} /\ pipe' = pipe
         \/ proc' = proc /\ \E p \in Pipes : pipe' = [pipe EXCEPT ![p] = "closed"]
  <2>1. CASE Exit BY <2>1 DEF Exit
  <2>2. CASE \E p \in Pipes : ClosePipe(p) BY <2>2 DEF ClosePipe
  <2> QED BY <2>1, <2>2
<1>2. JobType' /\ UNCHANGED <<pc, state>> BY <1>1, JobTypeRests
<1>3. pipe \in [Pipes -> {"open", "closed"}] BY DEF JobInv, ProcType
<1>4. pipe' \in [Pipes -> {"open", "closed"}] /\ \A p \in Pipes : pipe[p] = "closed" => pipe'[p] = "closed"
  BY <1>1, <1>3
<1>5. EndInv' BY <1>1, <1>2 DEF JobInv, EndInv
<1> QED BY <1>1, <1>2, <1>4, <1>5, NoConsumer

\* The goroutine that waits for the end of the process gets to the end of a consumer.
LEMMA SignalStep ==
    ASSUME JobInv, NEW p \in Pipes, NEW next \in {"err", "wait"}, next = "err" <=> p = "out", Signal(p, next)
    PROVE  JobInv'
<1>1. /\ closer = p /\ cons[p].at = "signal" /\ closer' = next
      /\ UNCHANGED <<procVars, jobVars>>
  BY DEF Signal
<1>2. cons[p] \in Consumer /\ ConsumerInv(p) /\ cons \in [Pipes -> Consumer] BY DEF JobInv
<1>3. PICK k : k = [cons[p] EXCEPT !.at = "over"] OBVIOUS
<1>4. /\ k \in Consumer /\ k.at = "over" /\ k.read = cons[p].read /\ k.failed = cons[p].failed
  BY <1>2, <1>3 DEF Consumer
<1>5. cons' = [cons EXCEPT ![p] = k] BY <1>2, <1>3 DEF Signal
<1>6. cons' \in [Pipes -> Consumer] /\ cons'[p] = k /\ \A q \in Pipes \ {p} : cons'[q] = cons[q] BY <1>2, <1>4, <1>5
<1>7. JobType' /\ UNCHANGED <<pc, state>> BY <1>1, JobTypeRests
<1>8. UNCHANGED <<kind, written, pipe, proc>> BY <1>1 DEF procVars
<1>9. ProcType' BY <1>8 DEF JobInv, ProcType
<1>10. ConsumerInv(p)' BY <1>1, <1>2, <1>4, <1>6, <1>8 DEF ConsumerInv
<1>11. \A q \in Pipes : ConsumerInv(q)' BY <1>6, <1>8, <1>10 DEF JobInv, ConsumerInv
<1>12. p \in {"out", "err"} /\ "out" \in Pipes /\ "err" \in Pipes BY TwoPipes
<1>13. EndInv' BY <1>1, <1>4, <1>6, <1>7, <1>8, <1>12 DEF JobInv, EndInv
<1> QED BY <1>6, <1>7, <1>9, <1>11, <1>13 DEF JobInv

\* WaitPID returns, and the exit message is received and handled, or drained.
LEMMA EndSteps ==
    ASSUME JobInv, Reaped \/ HandleExit \/ DrainExit
    PROVE  JobInv'
<1>1. UNCHANGED <<kind, written, pipe, proc, cons>> BY DEF Reaped, HandleExit, DrainExit, procVars
<1>2. UNCHANGED <<ticks, feed, streams, result, handled>> BY DEF Reaped, HandleExit, DrainExit, jobVars
<1>3. \/ closer = "wait" /\ proc # "running" /\ closer' = "send" /\ UNCHANGED <<pc, state>>
      \/ pc = "select" /\ closer = "send" /\ closer' = "closed" /\ state' = proc /\ pc' = "drain"
      \/ pc = "drain" /\ closer = "send" /\ closer' = "closed" /\ UNCHANGED <<pc, state>>
  BY DEF Reaped, HandleExit, DrainExit, jobVars
<1>4. JobType' BY <1>2, <1>3 DEF JobInv, JobType
<1>5. EndInv' BY <1>1, <1>3 DEF JobInv, EndInv
<1>6. pipe' \in [Pipes -> {"open", "closed"}] BY <1>1 DEF JobInv, ProcType
<1> QED BY <1>1, <1>4, <1>5, <1>6, NoConsumer

\* The other steps of the runner that the end does not depend on.
LEMMA RunnerSteps ==
    ASSUME JobInv, Meter \/ Feed \/ Leave \/ Drained \/ Stop \/ StopReturns \/ StdinWritten
    PROVE  JobInv'
<1>1. UNCHANGED <<kind, written, pipe, proc, cons, closer, streams, result, handled>>
  BY DEF Meter, Feed, Leave, Drained, Stop, StopReturns, StdinWritten, procVars
<1>2. \/ pc = "select" /\ ticks > 0 /\ ticks' = ticks - 1 /\ feed' = Gauges /\ pc' = "feed" /\ state' = state
      \/ /\ pc = "feed" /\ feed' = Tail(feed) /\ ticks' = ticks /\ state' = state
         /\ pc' = IF Len(feed) = 1 THEN "select" ELSE "feed"
      \/ pc = "select" /\ pc' = "drain" /\ state' = "KILLED" /\ UNCHANGED <<ticks, feed>>
      \/ pc = "drain" /\ closer = "closed" /\ pc' = "stop" /\ UNCHANGED <<ticks, feed, state>>
      \/ pc = "stop" /\ pc' = "stopping" /\ UNCHANGED <<ticks, feed, state>>
      \/ pc = "stopping" /\ pc' = "end" /\ UNCHANGED <<ticks, feed, state>>
      \/ pc = "stdin" /\ pc' = "select" /\ UNCHANGED <<ticks, feed, state>>
  BY DEF Meter, Feed, Leave, Drained, Stop, StopReturns, StdinWritten
<1>3. JobType BY DEF JobInv
<1>4. feed' \in Seq(Msg) /\ (pc' = "feed" => feed' # << >>)
  <2>1. feed \in Seq(Msg) /\ (pc = "feed" => feed # << >>) BY <1>3 DEF JobType
  <2>2. Gauges \in Seq(Msg) /\ Gauges # << >> BY JobOutputAssumption
  <2>3. CASE feed' = Gauges BY <2>2, <2>3
  <2>4. CASE feed' = feed /\ pc' # "feed" BY <2>1, <2>4
  <2>5. CASE pc = "feed" /\ feed' = Tail(feed) /\ pc' = IF Len(feed) = 1 THEN "select" ELSE "feed"
    <3>1. feed # << >> /\ Len(feed) \in Nat BY <2>1, <2>5
    <3>2. Tail(feed) \in Seq(Msg) /\ Len(Tail(feed)) = Len(feed) - 1 BY <2>1, <3>1
    <3>3. Len(feed) # 1 => Tail(feed) # << >> BY <3>1, <3>2
    <3> QED BY <2>5, <3>2, <3>3
  <2> QED BY <1>2, <2>3, <2>4, <2>5
<1>5. ticks' \in Nat BY <1>2, <1>3 DEF JobType
<1>6. pc' \in {"stdin", "select", "feed", "drain", "stop", "stopping", "end"} BY <1>2
<1>7. JobType' BY <1>1, <1>3, <1>4, <1>5, <1>6 DEF JobType
<1>8. EndInv' BY <1>1, <1>2 DEF JobInv, EndInv
<1>9. pipe' \in [Pipes -> {"open", "closed"}] BY <1>1 DEF JobInv, ProcType
<1> QED BY <1>1, <1>7, <1>8, <1>9, NoConsumer

\* A message that is drained.
LEMMA DrainStep ==
    ASSUME JobInv, NEW p \in Pipes, DrainMessage(p)
    PROVE  JobInv'
<1>1. cons[p].at = "send" /\ Took(p) /\ UNCHANGED <<procVars, closer, jobVars>> BY DEF DrainMessage
<1>2. JobType' /\ UNCHANGED <<pc, state>> BY <1>1, JobTypeRests
<1>3. PICK k \in Consumer : cons' = [cons EXCEPT ![p] = k] /\ k.at = "read" /\ k.read <= Len(written[p])
  BY <1>1, TookKeeps
<1> QED BY <1>1, <1>2, <1>3, OneConsumer

\* What is in the hands of the statistics only.
LEMMA JobRests ==
    ASSUME JobInv, UNCHANGED <<procVars, cons, closer, jobVars>>
    PROVE  JobInv'
<1>1. UNCHANGED <<kind, written, pipe, proc>> BY DEF procVars
<1>2. JobType' /\ UNCHANGED <<pc, state>> BY JobTypeRests
<1>3. EndInv' BY <1>1, <1>2 DEF JobInv, EndInv
<1>4. pipe' \in [Pipes -> {"open", "closed"}] BY <1>1 DEF JobInv, ProcType
<1> QED BY <1>1, <1>2, <1>3, <1>4, NoConsumer

-----------------------------------------------------------------------------
\* Every step of the goroutines, and of what they answer to.
LEMMA JobSteps ==
    ASSUME JobInv, Next
    PROVE  JobInv'
<1>1. CASE \E p \in Pipes : ClosePipe(p) \/ ReadFails(p) BY <1>1, ProcessSteps, ReadSteps
<1>2. CASE Exit BY <1>2, ProcessSteps
<1>3. CASE StdinWritten \/ Meter \/ Leave BY <1>3, RunnerSteps
<1>4. CASE \E p \in Pipes : ReadLine(p) \/ ReadEOF(p) \/ Handle(p) \/ DrainMessage(p)
  BY <1>4, ReadSteps, HandleStep, DrainStep
<1>5. CASE Closer
  <2>1. "out" \in Pipes /\ "err" \in Pipes BY TwoPipes
  <2>2. CASE Signal("out", "err") BY <2>1, <2>2, SignalStep
  <2>3. CASE Signal("err", "wait") BY <2>1, <2>3, SignalStep
  <2>4. CASE Reaped BY <2>4, EndSteps
  <2> QED BY <1>5, <2>2, <2>3, <2>4 DEF Closer
<1>6. CASE RunStep BY <1>6, RunnerSteps, EndSteps DEF RunStep
<1>7. CASE LastFlush \/ Statistics BY <1>7, JobRests DEF LastFlush, Statistics
<1> QED BY <1>1, <1>2, <1>3, <1>4, <1>5, <1>6, <1>7 DEF Next, Progress

\* What the same steps do to the statistics.
LEMMA JobStatistics ==
    ASSUME JobInv, StatsdInv, Next
    PROVE  StatsdInv'
<1>1. CASE UNCHANGED statsdVars BY <1>1, StatsdRest
<1>2. CASE Feed
  <2>1. feed \in Seq(Msg) /\ feed # << >> BY <1>2 DEF Feed, JobInv, JobType
  <2>2. Head(feed) \in Msg BY <2>1
  <2>3. TakeMsg(Head(feed)) BY <1>2 DEF Feed
  <2> QED BY <2>2, <2>3, StatsdSteps
<1>3. CASE Stop BY <1>3, StatsdSteps DEF Stop
<1>4. CASE LastFlush BY <1>4, StatsdSteps DEF LastFlush
<1>5. CASE Statistics BY <1>5, StatsdSteps DEF Statistics
<1>6. CASE \E p \in Pipes : ClosePipe(p) \/ ReadFails(p) \/ ReadLine(p) \/ ReadEOF(p) \/ Handle(p) \/ DrainMessage(p)
  BY <1>1, <1>6 DEF ClosePipe, ReadFails, ReadLine, ReadEOF, Handle, DrainMessage
<1>7. CASE Exit \/ StdinWritten \/ Meter \/ Leave BY <1>1, <1>7 DEF Exit, StdinWritten, Meter, Leave
<1>8. CASE Closer BY <1>1, <1>8 DEF Closer, Signal, Reaped
<1>9. CASE HandleExit \/ DrainExit \/ Drained \/ StopReturns
  BY <1>1, <1>9 DEF HandleExit, DrainExit, Drained, StopReturns
<1> QED BY <1>2, <1>3, <1>4, <1>5, <1>6, <1>7, <1>8, <1>9 DEF Next, Progress, RunStep

\* The consumers, the goroutine that waits for the end, the runner and the statistics are in
\* step (base/pm/stream, systemprocess.go, runner.go, base/stats).
THEOREM JobOutputInvariance == Spec => [](JobInv /\ StatsdInv)
<1>1. Init => JobInv /\ StatsdInv BY JobStart, StatsdStart DEF Init
<1>2. JobInv /\ StatsdInv /\ [Next]_vars => (JobInv /\ StatsdInv)'
  <2>1. ASSUME JobInv, StatsdInv, Next PROVE (JobInv /\ StatsdInv)' BY <2>1, JobSteps, JobStatistics
  <2>2. ASSUME JobInv, StatsdInv, UNCHANGED vars PROVE (JobInv /\ StatsdInv)'
    <3>1. UNCHANGED <<procVars, cons, closer, jobVars>> /\ UNCHANGED statsdVars BY <2>2 DEF vars
    <3> QED BY <2>2, <3>1, JobRests, StatsdRest
  <2> QED BY <2>1, <2>2
<1> QED BY <1>1, <1>2, PTL DEF Spec

\* The state of a job, its output and its statistics keeps its type.
THEOREM JobOutputTypeCorrect == Spec => []TypeOK
<1>1. JobInv /\ StatsdInv => TypeOK
  <2> SUFFICES ASSUME JobInv, StatsdInv PROVE TypeOK OBVIOUS
  <2>1. ASSUME NEW p \in Pipes
        PROVE  /\ cons[p].at \in {"read", "send", "signal", "over"} /\ cons[p].read \in 0 .. Len(written[p])
               /\ cons[p].multi \in BOOLEAN /\ cons[p].failed \in BOOLEAN /\ cons[p].msg \in Message
    <3>1. cons[p] \in Consumer /\ cons[p].read <= Len(written[p]) /\ Len(written[p]) \in Nat
      BY DEF JobInv, ConsumerInv, ProcType
    <3> QED BY <3>1 DEF Consumer
  <2> QED BY <2>1 DEF TypeOK, JobInv, StatsdInv, ProcType, JobType, EndInv
<1> QED BY <1>1, JobOutputInvariance, PTL

\* The state of a job that was neither killed nor ran out of time is the exit state of its
\* process, whatever lines the process writes (the interceptor of base/pm/process, and the
\* branch of the select loop on the exit state).
THEOREM JobOutputExitStateTrue == Spec => []ExitStateTrue
<1>1. JobInv => ExitStateTrue BY DEF JobInv, EndInv, ExitStateTrue, Exited
<1> QED BY <1>1, JobOutputInvariance, PTL

\* Until Stop no counter value is lost or counted twice (Run, flush and value of
\* base/stats): what was taken is in hand, in a buffer, in the flush under way or flushed.
THEOREM JobOutputCountersConserved == Spec => []CountersConserved
<1>1. StatsdInv => CountersConserved BY DEF StatsdInv, Balanced, CountersConserved
<1> QED BY <1>1, JobOutputInvariance, PTL

\* Nothing of a process is unread when the exit message ends the select loop: both
\* consumers are over, each at the end of its closed pipe unless reading failed, and the
\* process has exited.
AllRead == Exited => /\ proc # "running"
                     /\ \A p \in Pipes : /\ cons[p].at = "over"
                                         /\ cons[p].failed \/ (pipe[p] = "closed" /\ cons[p].read = Len(written[p]))

\* What OutputComplete rests on: the exit message comes after everything.
THEOREM JobOutputAllRead == Spec => []AllRead
<1>1. JobInv => AllRead
  <2> SUFFICES ASSUME JobInv, Exited PROVE AllRead BY DEF AllRead
  <2>1. closer = "closed" BY DEF JobInv, EndInv, Exited
  <2>2. proc # "running" /\ cons["out"].at = "over" /\ cons["err"].at = "over" BY <2>1 DEF JobInv, EndInv
  <2>3. \A p \in Pipes : cons[p].at = "over" BY <2>2, TwoPipes
  <2> QED BY <2>2, <2>3 DEF AllRead, JobInv, ConsumerInv
<1> QED BY <1>1, JobOutputInvariance, PTL

-----------------------------------------------------------------------------
(* Counting *)

\* Every set of numbers that is not empty has a least one: induction, without a parameter
\* for what is shown.
LEMMA LeastNumber ==
    ASSUME NEW T \in SUBSET Nat, T # {}
    PROVE  \E n \in T : \A m \in T : n <= m
<1>1. PICK R : R = OpToRel(<, Nat) OBVIOUS
<1>2. IsWellFoundedOn(R, Nat) BY <1>1, NatLessThanWellFounded
<1>3. PICK n \in T : \A m \in T : <<m, n>> \notin R BY <1>2, WFMin
<1>4. \A m \in T : m < n => <<m, n>> \in R BY <1>1 DEF OpToRel
<1>5. \A m \in T : ~(m < n) BY <1>3, <1>4
<1> QED BY <1>5

\* Counting up to a place, and from it on.
LEMMA Counts ==
    ASSUME NEW N \in Nat, NEW I \in SUBSET (1 .. N), NEW i \in Nat
    PROVE  /\ IsFiniteSet(I) /\ Cardinality(I) \in Nat
           /\ IsFiniteSet({j \in I : j <= i}) /\ UpTo(I, i) \in Nat
           /\ IsFiniteSet({j \in I : j > i}) /\ After(I, i) \in Nat
<1>1. IsFiniteSet(1 .. N) BY FS_Interval
<1>2. IsFiniteSet(I) BY <1>1, FS_Subset
<1>3. IsFiniteSet({j \in I : j <= i}) /\ IsFiniteSet({j \in I : j > i}) BY <1>2, FS_Subset
<1> QED BY <1>2, <1>3, FS_CardinalityType DEF UpTo, After

\* One place further.
LEMMA UpToNext ==
    ASSUME NEW N \in Nat, NEW I \in SUBSET (1 .. N), NEW i \in Nat
    PROVE  UpTo(I, i + 1) = IF i + 1 \in I THEN UpTo(I, i) + 1 ELSE UpTo(I, i)
<1>0. \A j \in I : j \in Nat /\ 1 <= j /\ j <= N OBVIOUS
<1>1. PICK A : A = {j \in I : j <= i} OBVIOUS
<1>a. IsFiniteSet(A) BY <1>1, Counts
<1>b. \A j \in I : j <= i + 1 <=> (j <= i \/ j = i + 1) BY <1>0
<1>2. IsFiniteSet(A) /\ i + 1 \notin A BY <1>a, <1>1
<1>3. CASE i + 1 \in I
  <2>1. {j \in I : j <= i + 1} = A \cup {i + 1} BY <1>b, <1>1, <1>3, Zenon
  <2>2. Cardinality(A \cup {i + 1}) = Cardinality(A) + 1 BY <1>2, FS_AddElement
  <2> QED BY <1>1, <1>3, <2>1, <2>2 DEF UpTo
<1>4. CASE i + 1 \notin I
  <2>1. {j \in I : j <= i + 1} = A BY <1>b, <1>1, <1>4, Zenon
  <2> QED BY <1>1, <1>4, <2>1 DEF UpTo
<1> QED BY <1>3, <1>4

\* The ends of the count.
LEMMA UpToEnds ==
    ASSUME NEW N \in Nat, NEW I \in SUBSET (1 .. N)
    PROVE  UpTo(I, 0) = 0 /\ UpTo(I, N) = Cardinality(I)
<1>0. \A j \in I : j \in Nat /\ 1 <= j /\ j <= N OBVIOUS
<1>a. \A j \in I : ~(j <= 0) BY <1>0
<1>1. {j \in I : j <= 0} = {} BY <1>a
<1>2. {j \in I : j <= N} = I BY <1>0
<1> QED BY <1>1, <1>2, FS_EmptySet DEF UpTo

\* Different elements have different places.
LEMMA UpToInjective ==
    ASSUME NEW N \in Nat, NEW I \in SUBSET (1 .. N), NEW i \in I, NEW k \in I, UpTo(I, i) = UpTo(I, k)
    PROVE  i = k
<1>0. \A j \in I : j \in Nat /\ 1 <= j /\ j <= N OBVIOUS
<1>1. ASSUME NEW a \in I, NEW b \in I, a < b PROVE UpTo(I, a) # UpTo(I, b)
  <2>1. PICK A, B : A = {j \in I : j <= a} /\ B = {j \in I : j <= b} OBVIOUS
  <2>2. a \in Nat /\ b \in Nat OBVIOUS
  <2>3. IsFiniteSet(A) /\ IsFiniteSet(B) BY <2>1, <2>2, Counts
  <2>a. \A j \in I : j <= a => j <= b BY <1>0, <1>1, <2>2
  <2>b. b <= b /\ ~(b <= a) BY <1>1, <2>2
  <2>4. A \in SUBSET B /\ b \in B /\ b \notin A BY <2>1, <2>a, <2>b
  <2>5. Cardinality(A) # Cardinality(B) BY <2>3, <2>4, FS_Subset
  <2> QED BY <2>1, <2>5 DEF UpTo
<1>2. i \in Nat /\ k \in Nat OBVIOUS
<1>3. i < k \/ k < i \/ i = k BY <1>2
<1> QED BY <1>1, <1>3

\* Every place is taken.
LEMMA UpToSurjective ==
    ASSUME NEW N \in Nat, NEW I \in SUBSET (1 .. N), NEW k \in 1 .. Cardinality(I)
    PROVE  \E i \in I : UpTo(I, i) = k
<1>0. \A n \in Nat : UpTo(I, n) \in Nat BY Counts
<1>1. PICK T : T = {n \in Nat : UpTo(I, n) >= k} OBVIOUS
<1>2. T \in SUBSET Nat BY <1>1
<1>3. N \in T BY <1>1, UpToEnds, Counts
<1>4. PICK n \in T : \A m \in T : n <= m BY <1>2, <1>3, LeastNumber
<1>5. n \in Nat /\ UpTo(I, n) >= k /\ k > 0 BY <1>1, Counts
<1>6. n # 0 BY <1>5, UpToEnds
<1>7. PICK m \in Nat : n = m + 1 BY <1>5, <1>6
<1>8. m \notin T BY <1>4, <1>7
<1>9. PICK a \in Nat, b \in Nat, c \in Nat : a = UpTo(I, m) /\ b = UpTo(I, n) /\ c = k BY <1>0, <1>5, <1>7, Counts
<1>10. a < c /\ b >= c BY <1>0, <1>1, <1>5, <1>7, <1>8, <1>9
<1>11. b = IF n \in I THEN a + 1 ELSE a BY <1>7, <1>9, UpToNext
<1>12. n \in I /\ b = c BY <1>10, <1>11
<1> QED BY <1>9, <1>12

\* J has one element more than I, behind the others.
Behind(N, I, n, J) == N \in Nat /\ I \in SUBSET (1 .. N) /\ n = N + 1 /\ J = I \cup {n}

LEMMA OneBehind ==
    ASSUME NEW N, NEW I, NEW n, NEW J, Behind(N, I, n, J)
    PROVE  /\ Cardinality(J) = Cardinality(I) + 1
           /\ UpTo(J, n) = Cardinality(I) + 1 /\ After(J, n) = 0
           /\ \A i \in 1 .. N : UpTo(J, i) = UpTo(I, i) /\ After(J, i) = After(I, i) + 1
<1> USE DEF Behind
<1>0. \A j \in I : j \in Nat /\ 1 <= j /\ j <= N OBVIOUS
<1>a. n \in Nat /\ n > N OBVIOUS
<1>b. IsFiniteSet(I) BY Counts
<1>c. \A j \in I \cup {n} : j <= n /\ ~(j > n) BY <1>0, <1>a
<1>1. n \notin I /\ IsFiniteSet(I) BY <1>0, <1>a, <1>b
<1>2. Cardinality(I \cup {n}) = Cardinality(I) + 1 BY <1>1, FS_AddElement
<1>3. {j \in I \cup {n} : j <= n} = I \cup {n} BY <1>c, Zenon
<1>4. {j \in I \cup {n} : j > n} = {} BY <1>c, Zenon
<1>5. ASSUME NEW i \in 1 .. N PROVE UpTo(I \cup {n}, i) = UpTo(I, i) /\ After(I \cup {n}, i) = After(I, i) + 1
  <2>1. {j \in I \cup {n} : j <= i} = {j \in I : j <= i} OBVIOUS
  <2>2. PICK A : A = {j \in I : j > i} OBVIOUS
  <2>3. {j \in I \cup {n} : j > i} = A \cup {n} BY <2>2
  <2>4. IsFiniteSet(A) /\ n \notin A BY <1>1, <2>2, Counts
  <2>5. Cardinality(A \cup {n}) = Cardinality(A) + 1 BY <2>4, FS_AddElement
  <2> QED BY <2>1, <2>2, <2>3, <2>5 DEF UpTo, After
<1> QED BY <1>2, <1>3, <1>4, <1>5, FS_EmptySet DEF UpTo, After

-----------------------------------------------------------------------------
(* What the lines of a pipe say *)

\* With O as the openers, line i is one.
Opening(s, O, i) ==
    s[i].form = "open" /\ \A j \in O : j < i => \E c \in j+1 .. i-1 : s[c].form = "close"

\* The openers are well defined: whether a line is one depends on those before it.
LEMMA OpenersIs ==
    ASSUME NEW s \in Seq(Line)
    PROVE  /\ Openers(s) \in SUBSET (1 .. Len(s))
           /\ \A i \in 1 .. Len(s) : i \in Openers(s) <=> Opening(s, Openers(s), i)
<1>0. DOMAIN s = 1 .. Len(s) /\ Len(s) \in Nat OBVIOUS
<1>1. PICK N \in Nat : N = Len(s) BY <1>0
<1>2. PICK T : T = {n \in Nat : n <= N /\ \A O \in SUBSET (1 .. N) : ~(\A i \in 1 .. n : i \in O <=> Opening(s, O, i))}
  OBVIOUS
<1>3. T = {}
  <2> SUFFICES ASSUME T # {} PROVE FALSE OBVIOUS
  <2>1. T \in SUBSET Nat BY <1>2
  <2>2. PICK n \in T : \A m \in T : n <= m BY <2>1, LeastNumber
  <2>3. n \in Nat /\ n <= N /\ \A O \in SUBSET (1 .. N) : ~(\A i \in 1 .. n : i \in O <=> Opening(s, O, i)) BY <1>2, <2>2
  <2>4. n # 0
    <3>1. 1 .. 0 = {} OBVIOUS
    <3>2. PICK E \in SUBSET (1 .. N) : E = {} OBVIOUS
    <3>3. n = 0 => \A i \in 1 .. n : i \in E <=> Opening(s, E, i) BY <3>1
    <3> QED BY <2>3, <3>3
  <2>5. PICK m \in Nat : n = m + 1 BY <2>3, <2>4
  <2>6. m \notin T /\ m <= N BY <2>2, <2>3, <2>5
  <2>7. PICK O \in SUBSET (1 .. N) : \A i \in 1 .. m : i \in O <=> Opening(s, O, i) BY <1>2, <2>6
  <2>8. PICK Q : Q = {j \in 1 .. N : IF j < n THEN j \in O ELSE j = n /\ Opening(s, O, n)} OBVIOUS
  <2>9. Q \in SUBSET (1 .. N) BY <2>8
  <2>10. \A j \in Int : j < n => (j \in Q <=> j \in O) BY <2>3, <2>8
  <2>11. n \in Q <=> Opening(s, O, n) BY <2>3, <2>4, <2>8
  <2>12. \A i \in 1 .. n : Opening(s, Q, i) <=> Opening(s, O, i)
    <3> SUFFICES ASSUME NEW i \in 1 .. n PROVE Opening(s, Q, i) <=> Opening(s, O, i) OBVIOUS
    <3>1. \A j \in 1 .. N : j < i => (j \in Q <=> j \in O) BY <2>3, <2>10
    <3>2. (\A j \in Q : j < i => \E c \in j+1 .. i-1 : s[c].form = "close")
            <=> (\A j \in O : j < i => \E c \in j+1 .. i-1 : s[c].form = "close")
      BY <2>9, <3>1
    <3> QED BY <3>2 DEF Opening
  <2>13. ASSUME NEW i \in 1 .. n PROVE i \in Q <=> Opening(s, Q, i)
    <3>1. CASE i = n BY <2>11, <2>12, <3>1
    <3>2. CASE i # n
      <4>1. i \in 1 .. m /\ i \in Int /\ i < n BY <2>3, <2>5, <3>2
      <4> QED BY <2>7, <2>10, <2>12, <4>1
    <3> QED BY <3>1, <3>2
  <2> QED BY <2>3, <2>9, <2>13
<1>4. \E O \in SUBSET (1 .. N) : \A i \in 1 .. N : i \in O <=> Opening(s, O, i)
  <2>1. N \notin T /\ N \in Nat /\ N <= N BY <1>3
  <2> QED BY <1>2, <2>1
<1>5. Openers(s) = CHOOSE O \in SUBSET (1 .. N) : \A i \in 1 .. N : i \in O <=> Opening(s, O, i)
  BY <1>0, <1>1 DEF Openers, Opening
<1> QED BY <1>1, <1>4, <1>5

\* What a line changes.
LEMMA NextLine ==
    ASSUME NEW s \in Seq(Line), NEW n \in 1 .. Len(s)
    PROVE  /\ s[n].form # "close" => \A o : OpenedBy(s, n, o) => OpenedBy(s, n + 1, o)
           /\ s[n].form = "close" => ~Inside(s, n + 1)
           /\ ~Inside(s, n) /\ s[n].form = "open" => OpenedBy(s, n + 1, n)
           /\ ~Inside(s, n) /\ s[n].form # "open" => ~Inside(s, n + 1)
<1>0. Len(s) \in Nat /\ n \in Nat OBVIOUS
<1>1. \A o \in Openers(s) : o \in 1 .. Len(s) /\ Opening(s, Openers(s), o) BY OpenersIs
<1>2. ASSUME s[n].form # "close", NEW o, OpenedBy(s, n, o) PROVE OpenedBy(s, n + 1, o)
  <2>1. o \in Openers(s) /\ o < n /\ o \in Nat BY <1>1, <1>2 DEF OpenedBy
  <2>2. ASSUME NEW c \in o+1 .. (n+1)-1 PROVE s[c].form # "close"
    <3>1. c = n \/ c \in o+1 .. n-1 BY <1>0, <2>1
    <3> QED BY <1>2, <3>1 DEF OpenedBy
  <2>3. o < n + 1 BY <1>0, <2>1
  <2> QED BY <2>1, <2>2, <2>3 DEF OpenedBy
<1>3. ASSUME s[n].form = "close", Inside(s, n + 1) PROVE FALSE
  <2>1. PICK o \in Openers(s) : OpenedBy(s, n + 1, o) BY <1>3 DEF Inside
  <2>2. o < n + 1 /\ o \in Nat /\ s[o].form = "open" BY <1>1, <2>1 DEF OpenedBy, Opening
  <2>3. o # n BY <1>3, <2>2
  <2>4. n \in o+1 .. (n+1)-1 BY <1>0, <2>2, <2>3
  <2> QED BY <1>3, <2>1, <2>4 DEF OpenedBy
<1>4. ASSUME ~Inside(s, n), s[n].form = "open" PROVE OpenedBy(s, n + 1, n)
  <2>1. Opening(s, Openers(s), n)
    <3>1. ASSUME NEW j \in Openers(s), j < n PROVE \E c \in j+1 .. n-1 : s[c].form = "close"
      BY <1>4, <3>1 DEF Inside, OpenedBy
    <3> QED BY <1>4, <3>1 DEF Opening
  <2>2. n \in Openers(s) BY <2>1, OpenersIs
  <2>3. \A c \in n+1 .. (n+1)-1 : s[c].form # "close" BY <1>0
  <2>4. n < n + 1 BY <1>0
  <2> QED BY <2>2, <2>3, <2>4 DEF OpenedBy
<1>5. ASSUME ~Inside(s, n), s[n].form # "open", Inside(s, n + 1) PROVE FALSE
  <2>1. PICK o \in Openers(s) : OpenedBy(s, n + 1, o) BY <1>5 DEF Inside
  <2>2. o < n + 1 /\ o \in Nat /\ s[o].form = "open" BY <1>1, <2>1 DEF OpenedBy, Opening
  <2>3. o < n BY <1>0, <1>5, <2>2
  <2>4. \A c \in o+1 .. n-1 : c \in o+1 .. (n+1)-1 BY <1>0, <2>2
  <2>5. OpenedBy(s, n, o) BY <2>1, <2>3, <2>4 DEF OpenedBy
  <2> QED BY <1>5, <2>1, <2>5 DEF Inside
<1> QED BY <1>2, <1>3, <1>4, <1>5

\* A line is in one message.
LEMMA OneOpener ==
    ASSUME NEW s \in Seq(Line), NEW i \in Nat, NEW o, OpenedBy(s, i, o)
    PROVE  /\ o \in 1 .. Len(s) /\ o < i /\ s[o].form = "open" /\ Inside(s, i)
           /\ \A q : OpenedBy(s, i, q) => q = o
           /\ Start(s, i) = o
<1>1. \A q \in Openers(s) : q \in 1 .. Len(s) /\ Opening(s, Openers(s), q) BY OpenersIs
<1>0. \A q \in 1 .. Len(s) : q \in Nat OBVIOUS
<1>2. ASSUME NEW a, NEW b, OpenedBy(s, i, a), OpenedBy(s, i, b), a < b PROVE FALSE
  <2>1. /\ a \in Openers(s) /\ b \in Openers(s) /\ b < i /\ a \in Nat /\ b \in Nat
        /\ \A c \in a+1 .. i-1 : s[c].form # "close"
    BY <1>0, <1>1, <1>2 DEF OpenedBy
  <2>2. PICK c \in a+1 .. b-1 : s[c].form = "close" BY <1>1, <1>2, <2>1 DEF Opening
  <2>3. c \in a+1 .. i-1 BY <2>1
  <2> QED BY <2>1, <2>2, <2>3
<1>3. ASSUME NEW q, OpenedBy(s, i, q) PROVE q = o
  <2>1. q \in Nat /\ o \in Nat BY <1>0, <1>1, <1>3 DEF OpenedBy
  <2>2. q < o \/ o < q \/ q = o BY <2>1
  <2> QED BY <1>2, <1>3, <2>2
<1>4. o \in Openers(s) /\ o < i BY DEF OpenedBy
<1>5. Inside(s, i) BY <1>4 DEF Inside
<1>6. Start(s, i) = o BY <1>3, <1>4, <1>5 DEF Start
<1> QED BY <1>1, <1>3, <1>4, <1>5, <1>6 DEF Opening

\* The numbers of lines in a body.
LEMMA Bodies ==
    ASSUME NEW n \in Nat
    PROVE  /\ <<n>> \in Seq(Nat) /\ Range(<<n>>) = {n} /\ Ascending(<<n>>)
           /\ \A b \in Seq(Nat) : /\ Append(b, n) \in Seq(Nat)
                                  /\ Range(Append(b, n)) = Range(b) \cup {n}
                                  /\ Ascending(b) /\ (\A k \in Range(b) : k < n) => Ascending(Append(b, n))
<1>1. <<n>> \in Seq(Nat) /\ Range(<<n>>) = {n} /\ Ascending(<<n>>) BY DEF Range, Ascending
<1>2. ASSUME NEW b \in Seq(Nat)
      PROVE  /\ Append(b, n) \in Seq(Nat) /\ Range(Append(b, n)) = Range(b) \cup {n}
             /\ Ascending(b) /\ (\A k \in Range(b) : k < n) => Ascending(Append(b, n))
  <2>1. PICK a, N : a = Append(b, n) /\ N = Len(b) OBVIOUS
  <2>2. /\ a \in Seq(Nat) /\ N \in Nat /\ DOMAIN b = 1 .. N /\ DOMAIN a = 1 .. N + 1
        /\ a[N + 1] = n /\ \A i \in 1 .. N : a[i] = b[i] /\ b[i] \in Nat
    BY <2>1
  <2>3. Range(a) = Range(b) \cup {n}
    <3>1. \A i \in 1 .. N + 1 : i \in 1 .. N \/ i = N + 1 BY <2>2
    <3>2. N + 1 \in 1 .. N + 1 /\ \A i \in 1 .. N : i \in 1 .. N + 1 BY <2>2
    <3> QED BY <2>2, <3>1, <3>2 DEF Range
  <2>4. ASSUME Ascending(b), \A k \in Range(b) : k < n PROVE Ascending(a)
    <3> SUFFICES ASSUME NEW i \in 1 .. N + 1, NEW j \in 1 .. N + 1, i < j PROVE a[i] < a[j]
      BY <2>2 DEF Ascending
    <3>1. i \in 1 .. N BY <2>2
    <3>2. CASE j = N + 1 BY <2>2, <2>4, <3>1, <3>2 DEF Range
    <3>3. CASE j \in 1 .. N BY <2>2, <2>4, <3>1, <3>3 DEF Ascending
    <3> QED BY <2>2, <3>2, <3>3
  <2> QED BY <2>1, <2>2, <2>3, <2>4
<1> QED BY <1>1, <1>2

\* The part of a message of several lines that a consumer has in hand.
HoldsPart(p, s, c) ==
    \E o \in Openers(s) :
        /\ OpenedBy(s, c.read + 1, o)
        /\ c.msg.pipe = p /\ c.msg.level = s[o].level /\ c.msg.stat = s[o].stat
        /\ Range(c.msg.body) = {n \in o .. c.read : s[n].form # "empty"} /\ Ascending(c.msg.body)

\* A consumer is inside a message exactly if the next line is, and what it is about to
\* send is the message that ends with the line it read last.
InStep(p, s, S, c) ==
    /\ c.multi <=> Inside(s, c.read + 1)
    /\ c.multi => HoldsPart(p, s, c)
    /\ c.at = "send" => c.read \in S /\ Tells(c.msg, p, s, c.read) /\ ~c.multi

\* A whole message goes through the interceptor, and is sent exactly if it is shown.
LEMMA EmitTells ==
    ASSUME NEW p \in Pipes, kind \in Kinds, NEW s, s = written[p], NEW c \in Consumer, NEW m \in Message,
           NEW e, c.read = e, e \in Ends(s), ~Inside(s, e + 1),
           m.pipe = p, m.level = LevelOf(p, s, e), m.stat = StatOf(s, e),
           Range(m.body) = TextOf(s, e), Ascending(m.body)
    PROVE  /\ InStep(p, s, Shown(p), Emit(c, m))
           /\ Emit(c, m).read = e /\ (Emit(c, m).at = "send" <=> e \in Shown(p))
<1>1. PICK i : i = Intercepted(m) OBVIOUS
<1>2. PICK v \in Nat : v = m.level BY DEF Message
<1>3. i \in Message /\ i.pipe = p /\ i.stat = m.stat /\ i.body = m.body /\ i.level = IF v = 50 THEN 2 ELSE v
  BY <1>1, <1>2 DEF Intercepted, Message, LevelExitState, LevelStderr
<1>4. Tells(i, p, s, e) BY <1>2, <1>3 DEF Tells
<1>5. e \in Shown(p) <=> ~Internal(i)
  <2>1. Internal(i) <=> kind = "system" /\ v > 100 BY <1>2, <1>3 DEF Internal, LevelInternal
  <2>2. e \in Shown(p) <=> (kind = "container" \/ v <= 100) BY <1>2 DEF Shown
  <2>3. v <= 100 <=> ~(v > 100) BY <1>2
  <2> QED BY <2>1, <2>2, <2>3 DEF Kinds
<1>6. PICK g : g = EmptyMessage(m.pipe) OBVIOUS
<1>7. Emit(c, m) = IF Internal(i) THEN [[[c EXCEPT !.at = "read"] EXCEPT !.multi = FALSE] EXCEPT !.msg = g]
                   ELSE [[[c EXCEPT !.at = "send"] EXCEPT !.multi = FALSE] EXCEPT !.msg = i]
  BY <1>1, <1>6 DEF Emit
<1>8. PICK k : k = Emit(c, m) OBVIOUS
<1>9. /\ k.read = e /\ ~k.multi /\ (k.at = "send" <=> ~Internal(i)) /\ (k.at = "send" => k.msg = i)
  BY <1>7, <1>8 DEF Consumer
<1>10. InStep(p, s, Shown(p), k) BY <1>4, <1>5, <1>9 DEF InStep
<1> QED BY <1>5, <1>8, <1>9, <1>10

\* What a consumer does with a line is what the line says.
LEMMA ConsumedTells ==
    ASSUME NEW p \in Pipes, kind \in Kinds, NEW s \in Seq(Line), s = written[p], NEW c \in Consumer,
           c.at = "read", NEW n, n = c.read + 1, n <= Len(s), InStep(p, s, Shown(p), c)
    PROVE  /\ InStep(p, s, Shown(p), Consumed(p, c, s[n]))
           /\ Consumed(p, c, s[n]).at = "send" <=> n \in Shown(p)
<1>1. n \in Nat /\ n \in 1 .. Len(s) /\ c.read \in Nat /\ n - 1 = c.read BY DEF Consumer
<1>2. PICK l \in Line : l = s[n] BY <1>1
<1>3. PICK d : d = [c EXCEPT !.read = n] OBVIOUS
<1>4. /\ d \in Consumer /\ d.read = n /\ d.at = "read" /\ d.multi = c.multi /\ d.msg = c.msg
  BY <1>1, <1>3 DEF Consumer
<1>5. l.level \in Nat /\ l.stat \in Msg \cup {NoMsg} /\ l.form \in {"empty", "plain", "single", "open", "close"}
  BY DEF Line
<1>6. PICK w : w = [pipe |-> p, level |-> l.level, body |-> <<n>>, stat |-> l.stat] OBVIOUS
<1>7. <<n>> \in Seq(Nat) /\ Range(<<n>>) = {n} /\ Ascending(<<n>>) BY <1>1, Bodies
<1>8. w \in Message /\ w.pipe = p /\ w.level = l.level /\ w.body = <<n>> /\ w.stat = l.stat
  BY <1>5, <1>6, <1>7 DEF Message
<1>9. c.multi <=> Inside(s, n) BY DEF InStep
<1>10. ~Inside(s, n) => Start(s, n) = n /\ TextOf(s, n) = {n} BY DEF Start, TextOf
<1>11. DOMAIN s = 1 .. Len(s) OBVIOUS
<1>12. n \in Ends(s) <=> IF Inside(s, n) THEN l.form = "close" ELSE l.form \in {"plain", "single", "close"}
  BY <1>1, <1>2, <1>11 DEF Ends
<1>13. n \notin Ends(s) => n \notin Shown(p) BY DEF Shown
<1>14. CASE l.form \in {"plain", "close"} /\ ~c.multi
  <2>1. PICK g : g = [[w EXCEPT !.level = DefaultLevel[p]] EXCEPT !.stat = NoMsg] OBVIOUS
  <2>2. DefaultLevel[p] \in Nat BY TwoPipes
  <2>3. g \in Message /\ g.pipe = p /\ g.level = DefaultLevel[p] /\ g.stat = NoMsg /\ g.body = <<n>>
    BY <1>8, <2>1, <2>2 DEF Message
  <2>4. Consumed(p, c, l) = Emit(d, g) BY <1>3, <1>6, <1>14, <2>1 DEF Consumed
  <2>5. ~Inside(s, n + 1) BY <1>1, <1>2, <1>9, <1>14, NextLine
  <2>6. LevelOf(p, s, n) = DefaultLevel[p] /\ StatOf(s, n) = NoMsg
    BY <1>2, <1>9, <1>10, <1>14 DEF LevelOf, StatOf, Names
  <2>7. n \in Ends(s) BY <1>9, <1>12, <1>14
  <2>8. Range(g.body) = TextOf(s, n) /\ Ascending(g.body) BY <1>7, <1>9, <1>10, <1>14, <2>3
  <2>9. g.pipe = p /\ g.level = LevelOf(p, s, n) /\ g.stat = StatOf(s, n) BY <2>3, <2>6
  <2>10. InStep(p, s, Shown(p), Emit(d, g)) /\ (Emit(d, g).at = "send" <=> n \in Shown(p))
    BY <1>4, <2>3, <2>5, <2>7, <2>8, <2>9, EmitTells
  <2> QED BY <1>2, <2>4, <2>10
<1>15. CASE l.form = "single" /\ ~c.multi
  <2>1. Consumed(p, c, l) = Emit(d, w) BY <1>3, <1>6, <1>15 DEF Consumed
  <2>2. ~Inside(s, n + 1) BY <1>1, <1>2, <1>9, <1>15, NextLine
  <2>3. LevelOf(p, s, n) = l.level /\ StatOf(s, n) = l.stat
    BY <1>2, <1>9, <1>10, <1>15 DEF LevelOf, StatOf, Names
  <2>4. n \in Ends(s) BY <1>9, <1>12, <1>15
  <2>5. Range(w.body) = TextOf(s, n) /\ Ascending(w.body) BY <1>7, <1>8, <1>9, <1>10, <1>15
  <2>6. w.pipe = p /\ w.level = LevelOf(p, s, n) /\ w.stat = StatOf(s, n) BY <1>8, <2>3
  <2>7. InStep(p, s, Shown(p), Emit(d, w)) /\ (Emit(d, w).at = "send" <=> n \in Shown(p))
    BY <1>4, <1>8, <2>2, <2>4, <2>5, <2>6, EmitTells
  <2> QED BY <1>2, <2>1, <2>7
<1>16. CASE l.form = "open" /\ ~c.multi
  <2>1. PICK k : k = [[d EXCEPT !.multi = TRUE] EXCEPT !.msg = w] OBVIOUS
  <2>2. Consumed(p, c, l) = k BY <1>3, <1>6, <1>16, <2>1 DEF Consumed
  <2>3. k.read = n /\ k.at = "read" /\ k.multi /\ k.msg = w BY <1>4, <2>1 DEF Consumer
  <2>4. OpenedBy(s, n + 1, n) BY <1>1, <1>2, <1>9, <1>16, NextLine
  <2>5. Inside(s, n + 1) BY <2>4 DEF Inside, OpenedBy
  <2>6. {i \in n .. n : s[i].form # "empty"} = {n} BY <1>1, <1>2, <1>16
  <2>a. n \in Openers(s) BY <2>4 DEF OpenedBy
  <2>b. /\ k.msg.pipe = p /\ k.msg.level = s[n].level /\ k.msg.stat = s[n].stat
        /\ Range(k.msg.body) = {n} /\ Ascending(k.msg.body)
    BY <1>2, <1>7, <1>8, <2>3
  <2>7. HoldsPart(p, s, k) BY <2>3, <2>4, <2>6, <2>a, <2>b DEF HoldsPart
  <2>8. InStep(p, s, Shown(p), k) BY <2>3, <2>5, <2>7 DEF InStep
  <2>9. n \notin Shown(p) BY <1>9, <1>12, <1>13, <1>16
  <2> QED BY <1>2, <2>2, <2>3, <2>8, <2>9
<1>17. CASE l.form = "empty"
  <2>1. Consumed(p, c, l) = d BY <1>3, <1>17 DEF Consumed
  <2>2. n \notin Shown(p) BY <1>12, <1>13, <1>17
  <2>3. CASE ~c.multi
    <3>1. ~Inside(s, n + 1) BY <1>1, <1>2, <1>9, <1>17, <2>3, NextLine
    <3> QED BY <1>2, <1>4, <2>1, <2>2, <2>3, <3>1 DEF InStep
  <2>4. CASE c.multi
    <3>1. PICK o : /\ OpenedBy(s, n, o)
                   /\ c.msg.pipe = p /\ c.msg.level = s[o].level /\ c.msg.stat = s[o].stat
                   /\ Range(c.msg.body) = {i \in o .. n - 1 : s[i].form # "empty"} /\ Ascending(c.msg.body)
      BY <1>1, <2>4 DEF InStep, HoldsPart
    <3>2. o \in 1 .. Len(s) /\ o < n BY <1>1, <3>1, OneOpener
    <3>3. OpenedBy(s, n + 1, o) BY <1>1, <1>2, <1>17, <3>1, NextLine
    <3>4. Inside(s, n + 1) BY <3>3 DEF Inside, OpenedBy
    <3>5. {i \in o .. n : s[i].form # "empty"} = {i \in o .. n - 1 : s[i].form # "empty"}
      <4>1. \A i \in o .. n : i \in o .. n - 1 \/ i = n BY <1>1, <3>2
      <4>2. \A i \in o .. n - 1 : i \in o .. n BY <1>1, <3>2
      <4> QED BY <1>2, <1>17, <4>1, <4>2
    <3>6. HoldsPart(p, s, d) BY <1>4, <3>1, <3>3, <3>5 DEF HoldsPart, OpenedBy
    <3> QED BY <1>2, <1>4, <2>1, <2>2, <2>4, <3>4, <3>6 DEF InStep
  <2> QED BY <2>3, <2>4
<1>18. CASE l.form # "empty" /\ c.multi
  <2>1. Consumed(p, c, l) = Continued(d, n, l) BY <1>3, <1>18 DEF Consumed
  <2>2. PICK o : /\ OpenedBy(s, n, o)
                 /\ c.msg.pipe = p /\ c.msg.level = s[o].level /\ c.msg.stat = s[o].stat
                 /\ Range(c.msg.body) = {i \in o .. n - 1 : s[i].form # "empty"} /\ Ascending(c.msg.body)
    BY <1>1, <1>18 DEF InStep, HoldsPart
  <2>3. o \in 1 .. Len(s) /\ o < n /\ s[o].form = "open" /\ Start(s, n) = o BY <1>1, <2>2, OneOpener
  <2>4. c.msg \in Message /\ c.msg.body \in Seq(Nat) BY DEF Consumer, Message
  <2>5. CASE l.form = "close"
    <3>1. Continued(d, n, l) = Emit(d, d.msg) BY <2>5 DEF Continued
    <3>2. ~Inside(s, n + 1) BY <1>1, <1>2, <2>5, NextLine
    <3>3. n \in Ends(s) BY <1>9, <1>12, <1>18, <2>5
    <3>4. LevelOf(p, s, n) = s[o].level /\ StatOf(s, n) = s[o].stat BY <2>3 DEF LevelOf, StatOf, Names
    <3>5. TextOf(s, n) = {i \in o .. n - 1 : s[i].form # "empty"} BY <1>9, <1>18, <2>3 DEF TextOf
    <3>6. PICK g : g = d.msg OBVIOUS
    <3>7. g \in Message /\ g.pipe = p /\ g.level = LevelOf(p, s, n) /\ g.stat = StatOf(s, n)
      BY <1>4, <2>2, <2>4, <3>4, <3>6
    <3>8. Range(g.body) = TextOf(s, n) /\ Ascending(g.body) BY <1>4, <2>2, <3>5, <3>6
    <3>9. InStep(p, s, Shown(p), Emit(d, g)) /\ (Emit(d, g).at = "send" <=> n \in Shown(p))
      BY <1>4, <3>2, <3>3, <3>7, <3>8, EmitTells
    <3> QED BY <1>2, <2>1, <3>1, <3>6, <3>9
  <2>6. CASE l.form # "close"
    <3>1. PICK b : b = Append(c.msg.body, n) OBVIOUS
    <3>2. \A i \in Range(c.msg.body) : i < n BY <1>1, <2>2, <2>3
    <3>3. b \in Seq(Nat) /\ Range(b) = Range(c.msg.body) \cup {n} /\ Ascending(b)
      BY <1>1, <2>2, <2>4, <3>1, <3>2, Bodies
    <3>4. PICK g : g = [c.msg EXCEPT !.body = b] OBVIOUS
    <3>5. g.pipe = c.msg.pipe /\ g.level = c.msg.level /\ g.stat = c.msg.stat /\ g.body = b BY <2>4, <3>4 DEF Message
    <3>6. PICK k : k = [d EXCEPT !.msg = g] OBVIOUS
    <3>7. Continued(d, n, l) = k BY <1>4, <2>6, <3>1, <3>4, <3>6 DEF Continued
    <3>8. k.read = n /\ k.at = "read" /\ k.multi = c.multi /\ k.msg = g BY <1>4, <3>6 DEF Consumer
    <3>9. OpenedBy(s, n + 1, o) BY <1>1, <1>2, <2>2, <2>6, NextLine
    <3>10. Inside(s, n + 1) BY <3>9 DEF Inside, OpenedBy
    <3>11. {i \in o .. n : s[i].form # "empty"} = {i \in o .. n - 1 : s[i].form # "empty"} \cup {n}
      <4>1. \A i \in o .. n : i \in o .. n - 1 \/ i = n BY <1>1, <2>3
      <4>2. n \in o .. n /\ \A i \in o .. n - 1 : i \in o .. n BY <1>1, <2>3
      <4> QED BY <1>2, <1>18, <4>1, <4>2
    <3>12. HoldsPart(p, s, k) BY <2>2, <3>3, <3>5, <3>8, <3>9, <3>11 DEF HoldsPart, OpenedBy
    <3>13. InStep(p, s, Shown(p), k) BY <1>18, <3>8, <3>10, <3>12 DEF InStep
    <3>14. n \notin Shown(p) BY <1>9, <1>12, <1>13, <1>18, <2>6
    <3> QED BY <1>2, <2>1, <3>7, <3>8, <3>13, <3>14
  <2> QED BY <2>5, <2>6
<1> QED BY <1>5, <1>14, <1>15, <1>16, <1>17, <1>18

-----------------------------------------------------------------------------
(* From the lines to the runner *)

\* The line up to which a consumer has handed on what it read.
HandedOn(c) == IF c.at = "send" THEN c.read - 1 ELSE c.read

\* While the loop runs it has received what the consumers have handed on, and when the exit
\* message has ended it, everything.
CountInv ==
    /\ pc \in {"stdin", "select", "feed"} =>
         \A p \in Pipes : Cardinality(Received(p)) = UpTo(Shown(p), HandedOn(cons[p]))
    /\ Exited => \A p \in Pipes : cons[p].failed \/ Cardinality(Received(p)) = Cardinality(Shown(p))

OutputInv ==
    /\ \A p \in Pipes : InStep(p, written[p], Shown(p), cons[p])
    /\ CountInv
    /\ OutputInOrder
    /\ ResultExact

\* Where lines and messages are counted.
LEMMA Places ==
    ASSUME JobInv, NEW p \in Pipes
    PROVE  /\ handled \in Seq(Message) /\ Len(handled) \in Nat /\ DOMAIN handled = 1 .. Len(handled)
           /\ written[p] \in Seq(Line) /\ Len(written[p]) \in Nat
           /\ Received(p) \in SUBSET (1 .. Len(handled)) /\ Shown(p) \in SUBSET (1 .. Len(written[p]))
           /\ cons[p] \in Consumer /\ cons[p].read \in Nat
<1>1. handled \in Seq(Message) /\ written[p] \in Seq(Line) /\ cons[p] \in Consumer
  BY DEF JobInv, JobType, ProcType
<1>2. Shown(p) \in SUBSET DOMAIN written[p] BY DEF Shown, Ends
<1>3. Received(p) \in SUBSET DOMAIN handled BY DEF Received
<1> QED BY <1>1, <1>2, <1>3 DEF Consumer

\* What there is to be shown does not change.
LEMMA ShownRests ==
    ASSUME UNCHANGED <<kind, written>>, NEW p
    PROVE  Shown(p)' = Shown(p)
BY DEF Shown

\* A consumer that stops, or that was relieved of its message, stays in step.
LEMMA StillInStep ==
    ASSUME NEW p, NEW s, NEW S, NEW c, NEW k, InStep(p, s, S, c), k.read = c.read, k.multi = c.multi,
           k.at # "send", c.at = "send" \/ k.msg = c.msg
    PROVE  InStep(p, s, S, k)
BY DEF InStep, HoldsPart

\* Nothing is received.
LEMMA NothingReceived ==
    ASSUME JobInv, OutputInv, UNCHANGED <<kind, written, streams, result, handled>>,
           \A p \in Pipes : InStep(p, written[p], Shown(p), cons'[p]),
           \A p \in Pipes : cons[p].failed => cons'[p].failed,
           pc' \in {"stdin", "select", "feed"} =>
             /\ pc \in {"stdin", "select", "feed"}
             /\ \A p \in Pipes : UpTo(Shown(p), HandedOn(cons'[p])) = UpTo(Shown(p), HandedOn(cons[p])),
           Exited' => \/ Exited
                      \/ \A p \in Pipes : cons[p].failed \/ Cardinality(Received(p)) = Cardinality(Shown(p))
    PROVE  OutputInv'
<1>1. \A p : Shown(p)' = Shown(p) BY ShownRests
<1>2. \A p : Received(p)' = Received(p) BY DEF Received
<1>3. \A p \in Pipes : InStep(p, written[p], Shown(p), cons[p])'
  <2>1. ASSUME NEW p \in Pipes PROVE InStep(p, written[p], Shown(p), cons[p])'
    <3>1. InStep(p, written'[p], Shown(p)', cons'[p]) BY <1>1
    <3> QED BY <3>1
  <2> QED BY <2>1
<1>4. CountInv' BY <1>1, <1>2 DEF OutputInv, CountInv
<1>5. OutputInOrder' BY <1>1, <1>2 DEF OutputInv, OutputInOrder, Delivers
<1>6. ResultExact' BY DEF OutputInv, ResultExact, OfLevel, HoldsLast
<1> QED BY <1>3, <1>4, <1>5, <1>6 DEF OutputInv

\* A consumer reads a line, or the end, or an error.
LEMMA ReadStepsTell ==
    ASSUME JobInv, OutputInv, NEW p \in Pipes, ReadLine(p) \/ ReadEOF(p) \/ ReadFails(p)
    PROVE  OutputInv'
<1>1. /\ cons \in [Pipes -> Consumer] /\ cons[p] \in Consumer /\ cons[p].read \in Nat
      /\ written[p] \in Seq(Line) /\ Len(written[p]) \in Nat /\ Shown(p) \in SUBSET (1 .. Len(written[p]))
      /\ kind \in Kinds
  BY Places DEF JobInv, ProcType
<1>2. cons[p].at = "read" /\ UNCHANGED <<procVars, jobVars>> BY DEF ReadLine, ReadEOF, ReadFails
<1>3. UNCHANGED <<kind, written>> /\ UNCHANGED <<pc, state, streams, result, handled>>
  BY <1>2 DEF procVars, jobVars
<1>4. InStep(p, written[p], Shown(p), cons[p]) BY DEF OutputInv
<1>5. \E k : /\ cons' = [cons EXCEPT ![p] = k] /\ (cons[p].failed => k.failed)
             /\ InStep(p, written[p], Shown(p), k)
             /\ UpTo(Shown(p), HandedOn(k)) = UpTo(Shown(p), HandedOn(cons[p]))
  <2>1. CASE ReadLine(p)
    <3>1. PICK n, s, c : n = cons[p].read + 1 /\ s = written[p] /\ c = cons[p] OBVIOUS
    <3>2. c.read < Len(s) BY <2>1, <3>1 DEF ReadLine
    <3>3. n <= Len(s) /\ n \in 1 .. Len(s) /\ c.read = n - 1 BY <1>1, <3>1, <3>2
    <3>4. PICK k : k = Consumed(p, c, s[n]) OBVIOUS
    <3>5. InStep(p, s, Shown(p), k) /\ (k.at = "send" <=> n \in Shown(p))
      BY <1>1, <1>2, <1>4, <3>1, <3>3, <3>4, ConsumedTells
    <3>6. s[n] \in Line BY <1>1, <3>1, <3>3
    <3>7. k.read = n /\ k.failed = c.failed BY <1>1, <1>2, <3>1, <3>4, <3>6, ConsumedKeeps
    <3>8. cons' = [cons EXCEPT ![p] = k] BY <1>1, <2>1, <3>1, <3>4 DEF ReadLine
    <3>9. n \notin Shown(p) => UpTo(Shown(p), n) = UpTo(Shown(p), c.read)
      <4>1. PICK M, I, i : M = Len(written[p]) /\ I = Shown(p) /\ i = c.read OBVIOUS
      <4>2. M \in Nat /\ i \in Nat /\ I \in SUBSET (1 .. M) /\ n = i + 1 BY <1>1, <3>1, <4>1
      <4>3. UpTo(I, i + 1) = IF i + 1 \in I THEN UpTo(I, i) + 1 ELSE UpTo(I, i) BY <4>2, UpToNext
      <4> QED BY <4>1, <4>2, <4>3
    <3>10. HandedOn(c) = c.read BY <1>2, <3>1 DEF HandedOn
    <3>11. HandedOn(k) = IF n \in Shown(p) THEN c.read ELSE n BY <3>3, <3>5, <3>7 DEF HandedOn
    <3> QED BY <3>1, <3>5, <3>7, <3>8, <3>9, <3>10, <3>11
  <2>2. CASE ReadEOF(p)
    <3>1. PICK k : k = [cons[p] EXCEPT !.at = "signal"] OBVIOUS
    <3>2. /\ k.at = "signal" /\ k.read = cons[p].read /\ k.multi = cons[p].multi /\ k.msg = cons[p].msg
          /\ k.failed = cons[p].failed
      BY <1>1, <3>1 DEF Consumer
    <3>3. cons' = [cons EXCEPT ![p] = k] BY <1>1, <2>2, <3>1 DEF ReadEOF
    <3>4. HandedOn(k) = HandedOn(cons[p]) BY <1>2, <3>2 DEF HandedOn
    <3>5. InStep(p, written[p], Shown(p), k) BY <1>4, <3>2, StillInStep
    <3> QED BY <3>2, <3>3, <3>4, <3>5
  <2>3. CASE ReadFails(p)
    <3>1. PICK k : k = [[cons[p] EXCEPT !.at = "signal"] EXCEPT !.failed = TRUE] OBVIOUS
    <3>2. /\ k.at = "signal" /\ k.read = cons[p].read /\ k.multi = cons[p].multi /\ k.msg = cons[p].msg
          /\ k.failed
      BY <1>1, <3>1 DEF Consumer
    <3>3. cons' = [cons EXCEPT ![p] = k] BY <1>1, <2>3, <3>1 DEF ReadFails
    <3>4. HandedOn(k) = HandedOn(cons[p]) BY <1>2, <3>2 DEF HandedOn
    <3>5. InStep(p, written[p], Shown(p), k) BY <1>4, <3>2, StillInStep
    <3> QED BY <3>2, <3>3, <3>4, <3>5
  <2> QED BY <2>1, <2>2, <2>3
<1>6. PICK k : /\ cons' = [cons EXCEPT ![p] = k] /\ (cons[p].failed => k.failed)
               /\ InStep(p, written[p], Shown(p), k)
               /\ UpTo(Shown(p), HandedOn(k)) = UpTo(Shown(p), HandedOn(cons[p]))
  BY <1>5
<1>7. cons'[p] = k /\ \A q \in Pipes \ {p} : cons'[q] = cons[q] BY <1>1, <1>6
<1>8. \A q \in Pipes : InStep(q, written[q], Shown(q), cons'[q]) BY <1>6, <1>7 DEF OutputInv
<1>9. \A q \in Pipes : /\ cons[q].failed => cons'[q].failed
                       /\ UpTo(Shown(q), HandedOn(cons'[q])) = UpTo(Shown(q), HandedOn(cons[q]))
  BY <1>6, <1>7
<1>10. Exited' => Exited BY <1>3 DEF Exited
<1> QED BY <1>3, <1>8, <1>9, <1>10, NothingReceived

\* The goroutine that waits for the end gets past a consumer, and a message is drained.
LEMMA SignalAndDrainTell ==
    ASSUME JobInv, OutputInv, NEW p \in Pipes, (\E next : Signal(p, next)) \/ DrainMessage(p)
    PROVE  OutputInv'
<1>1. cons \in [Pipes -> Consumer] /\ cons[p] \in Consumer BY DEF JobInv
<1>2. UNCHANGED <<procVars, jobVars>> BY DEF Signal, DrainMessage
<1>3. UNCHANGED <<kind, written>> /\ UNCHANGED <<pc, state, streams, result, handled>>
  BY <1>2 DEF procVars, jobVars
<1>4. InStep(p, written[p], Shown(p), cons[p]) BY DEF OutputInv
<1>5. \E k : /\ cons' = [cons EXCEPT ![p] = k] /\ (cons[p].failed => k.failed)
             /\ InStep(p, written[p], Shown(p), k)
             /\ pc = "drain" \/ HandedOn(k) = HandedOn(cons[p])
  <2>1. CASE \E next : Signal(p, next)
    <3>1. PICK k : k = [cons[p] EXCEPT !.at = "over"] OBVIOUS
    <3>2. /\ k.at = "over" /\ k.read = cons[p].read /\ k.multi = cons[p].multi /\ k.msg = cons[p].msg
          /\ k.failed = cons[p].failed
      BY <1>1, <3>1 DEF Consumer
    <3>3. cons' = [cons EXCEPT ![p] = k] /\ cons[p].at = "signal" BY <1>1, <2>1, <3>1 DEF Signal
    <3>4. HandedOn(k) = HandedOn(cons[p]) BY <3>2, <3>3 DEF HandedOn
    <3>5. InStep(p, written[p], Shown(p), k) BY <1>4, <3>2, StillInStep
    <3> QED BY <3>2, <3>3, <3>4, <3>5
  <2>2. CASE DrainMessage(p)
    <3>1. PICK k, o : o = EmptyMessage(p) /\ k = [[cons[p] EXCEPT !.at = "read"] EXCEPT !.msg = o] OBVIOUS
    <3>2. /\ k.at = "read" /\ k.read = cons[p].read /\ k.multi = cons[p].multi
          /\ k.failed = cons[p].failed
      BY <1>1, <3>1 DEF Consumer
    <3>3. cons' = [cons EXCEPT ![p] = k] /\ cons[p].at = "send" /\ pc = "drain"
      BY <1>1, <2>2, <3>1 DEF DrainMessage, Took
    <3>4. InStep(p, written[p], Shown(p), k) BY <1>4, <3>2, <3>3, StillInStep
    <3> QED BY <3>2, <3>3, <3>4
  <2> QED BY <2>1, <2>2
<1>6. PICK k : /\ cons' = [cons EXCEPT ![p] = k] /\ (cons[p].failed => k.failed)
               /\ InStep(p, written[p], Shown(p), k)
               /\ pc = "drain" \/ HandedOn(k) = HandedOn(cons[p])
  BY <1>5
<1>7. cons'[p] = k /\ \A q \in Pipes \ {p} : cons'[q] = cons[q] BY <1>1, <1>6
<1>8. \A q \in Pipes : InStep(q, written[q], Shown(q), cons'[q]) BY <1>6, <1>7 DEF OutputInv
<1>9. \A q \in Pipes : cons[q].failed => cons'[q].failed BY <1>6, <1>7
<1>10. pc' \in {"stdin", "select", "feed"} =>
         /\ pc \in {"stdin", "select", "feed"}
         /\ \A q \in Pipes : UpTo(Shown(q), HandedOn(cons'[q])) = UpTo(Shown(q), HandedOn(cons[q]))
  BY <1>3, <1>6, <1>7
<1>11. Exited' => Exited BY <1>3 DEF Exited
<1> QED BY <1>3, <1>8, <1>9, <1>10, <1>11, NothingReceived

\* The steps that no consumer takes part in. When the exit message is received, both
\* consumers are over, and everything they read was received.
LEMMA OtherStepsTell ==
    ASSUME JobInv, OutputInv, UNCHANGED <<kind, written, cons, streams, result, handled>>,
           \/ UNCHANGED <<pc, state>>
           \/ pc \in {"stdin", "select", "feed"} /\ pc' \in {"select", "feed"}
           \/ state' = "KILLED" /\ pc' = "drain"
           \/ pc \in {"drain", "stop", "stopping"} /\ pc' \notin {"stdin", "select", "feed"} /\ state' = state
           \/ pc = "select" /\ closer = "send" /\ pc' = "drain"
    PROVE  OutputInv'
<1>1. \A p \in Pipes : InStep(p, written[p], Shown(p), cons'[p]) BY DEF OutputInv
<1>2. pc' \in {"stdin", "select", "feed"} => pc \in {"stdin", "select", "feed"} OBVIOUS
<1>3. Exited' => \/ Exited
                 \/ \A p \in Pipes : cons[p].failed \/ Cardinality(Received(p)) = Cardinality(Shown(p))
  <2>1. CASE pc = "select" /\ closer = "send" /\ pc' = "drain"
    <3> SUFFICES ASSUME NEW p \in Pipes, ~cons[p].failed PROVE Cardinality(Received(p)) = Cardinality(Shown(p))
      OBVIOUS
    <3>1. cons["out"].at = "over" /\ cons["err"].at = "over" BY <2>1 DEF JobInv, EndInv
    <3>2. cons[p].at = "over" BY <3>1, TwoPipes
    <3>3. cons[p].read = Len(written[p]) BY <3>2 DEF JobInv, ConsumerInv
    <3>4. Cardinality(Received(p)) = UpTo(Shown(p), HandedOn(cons[p])) BY <2>1 DEF OutputInv, CountInv
    <3>5. HandedOn(cons[p]) = Len(written[p]) BY <3>2, <3>3 DEF HandedOn
    <3>6. UpTo(Shown(p), Len(written[p])) = Cardinality(Shown(p)) BY Places, UpToEnds
    <3> QED BY <3>4, <3>5, <3>6
  <2>2. CASE ~(pc = "select" /\ closer = "send" /\ pc' = "drain") BY <2>2 DEF Exited
  <2> QED BY <2>1, <2>2
<1> QED BY <1>1, <1>2, <1>3, NothingReceived

\* The history is one message longer.
LEMMA OneMore ==
    ASSUME handled \in Seq(Message), NEW m \in Message, handled' = Append(handled, m),
           NEW N \in {Len(handled)}, NEW n \in {N + 1}
    PROVE  /\ N \in Nat /\ n \in Nat /\ DOMAIN handled = 1 .. N /\ DOMAIN handled' = 1 .. n
           /\ handled'[n] = m /\ \A i \in 1 .. N : handled'[i] = handled[i] /\ i # n
           /\ \A q : Received(q)' = IF m.pipe = q THEN Received(q) \cup {n} ELSE Received(q)
           /\ \A L : OfLevel(L)' = IF m.level \in L THEN OfLevel(L) \cup {n} ELSE OfLevel(L)
<1>1. /\ N \in Nat /\ n \in Nat /\ DOMAIN handled = 1 .. N /\ DOMAIN handled' = 1 .. n
      /\ handled'[n] = m /\ \A i \in 1 .. N : handled'[i] = handled[i] /\ i # n
  OBVIOUS
<1>2. \A i : i \in 1 .. n <=> i \in 1 .. N \/ i = n BY <1>1
<1>3. \A q : Received(q)' = IF m.pipe = q THEN Received(q) \cup {n} ELSE Received(q)
  <2> SUFFICES ASSUME NEW q PROVE Received(q)' = IF m.pipe = q THEN Received(q) \cup {n} ELSE Received(q) OBVIOUS
  <2>1. Received(q)' = {i \in DOMAIN handled' : handled'[i].pipe = q} BY DEF Received
  <2>2. \A i : i \in Received(q)' <=> i \in Received(q) \/ (i = n /\ m.pipe = q) BY <1>1, <1>2, <2>1 DEF Received
  <2> QED BY <2>2
<1>4. \A L : OfLevel(L)' = IF m.level \in L THEN OfLevel(L) \cup {n} ELSE OfLevel(L)
  <2> SUFFICES ASSUME NEW L PROVE OfLevel(L)' = IF m.level \in L THEN OfLevel(L) \cup {n} ELSE OfLevel(L) OBVIOUS
  <2>1. OfLevel(L)' = {i \in DOMAIN handled' : handled'[i].level \in L} BY DEF OfLevel
  <2>2. \A i : i \in OfLevel(L)' <=> i \in OfLevel(L) \/ (i = n /\ m.level \in L) BY <1>1, <1>2, <2>1 DEF OfLevel
  <2> QED BY <2>2
<1> QED BY <1>1, <1>3, <1>4

\* A limited buffer that takes one more line holds the last ones again: a full one loses
\* its first, and one of size 0 what it was given.
LEMMA BufferHolds ==
    ASSUME NEW m \in Message, NEW N \in Nat, NEW n \in {N + 1}, NEW I \in SUBSET (1 .. N),
           NEW b \in Seq(Message), NEW c, c = BufferAppend(b, m), NEW J, J = I \cup {n},
           handled'[n] = m, \A i \in 1 .. N : handled'[i] = handled[i],
           HoldsLast(b, I)
    PROVE  HoldsLast(c, J)'
<1>0. Behind(N, I, n, J) BY DEF Behind
<1>1. PICK K \in Nat, S \in Nat, L \in Nat : K = Cardinality(I) /\ S = StreamBufferSize /\ L = Len(b)
  <2>1. Cardinality(I) \in Nat /\ 0 \in Nat BY Counts
  <2>2. Len(b) \in Nat /\ StreamBufferSize \in Nat BY JobOutputAssumption
  <2> QED BY <2>1, <2>2
<1>2. Cardinality(J) = K + 1 /\ After(J, n) = 0
  <2>1. Cardinality(J) = Cardinality(I) + 1 /\ After(J, n) = 0 BY <1>0, OneBehind
  <2> QED BY <1>1, <2>1
<1>3. \A i \in I : i \in 1 .. N /\ i \in Nat OBVIOUS
<1>4. \A i \in I : After(I, i) \in Nat /\ After(J, i) = After(I, i) + 1
  <2>1. \A i \in I : After(I, i) \in Nat BY <1>3, Counts
  <2>2. \A i \in 1 .. N : After(J, i) = After(I, i) + 1 BY <1>0, OneBehind
  <2> QED BY <1>3, <2>1, <2>2
<1>5. L = IF K < S THEN K ELSE S BY <1>1 DEF HoldsLast
<1>6. PICK a : a = Append(b, m) OBVIOUS
<1>7. /\ a \in Seq(Message) /\ Len(a) = L + 1 /\ a[L + 1] = m /\ \A i \in 1 .. L : a[i] = b[i] BY <1>1, <1>6
<1>8. \A i \in I : After(I, i) < L => L - After(I, i) \in 1 .. L /\ a[L - After(I, i)] = handled[i]
  <2> SUFFICES ASSUME NEW i \in I, After(I, i) < L
               PROVE  L - After(I, i) \in 1 .. L /\ a[L - After(I, i)] = handled[i]
    OBVIOUS
  <2>1. PICK x \in Nat : x = After(I, i) BY <1>4
  <2>2. L - x \in 1 .. L BY <2>1
  <2>3. b[L - x] = handled[i] BY <1>1, <2>1 DEF HoldsLast
  <2> QED BY <1>7, <2>1, <2>2, <2>3
<1>9. PICK M \in Nat : M = Len(c) /\ M = (IF K + 1 < S THEN K + 1 ELSE S)
        /\ (M > 0 => c[M] = m)
        /\ \A x \in Nat : x + 1 < M => x < L /\ c[M - (x + 1)] = a[L - x]
  <2>1. CASE L + 1 > S
    <3>1. L = S BY <1>5, <2>1
    <3>2. c = Tail(a) BY <1>1, <1>6, <2>1 DEF BufferAppend
    <3>3. a # << >> BY <1>7
    <3>4. Len(c) = L /\ \A i \in 1 .. L : c[i] = a[i + 1] BY <1>7, <3>2, <3>3
    <3>5. \A x \in Nat : x + 1 < L => x < L /\ c[L - (x + 1)] = a[L - x]
      <4> SUFFICES ASSUME NEW x \in Nat, x + 1 < L PROVE x < L /\ c[L - (x + 1)] = a[L - x] OBVIOUS
      <4>1. PICK y \in 1 .. L : y = L - (x + 1) OBVIOUS
      <4>2. y + 1 = L - x BY <4>1
      <4> QED BY <3>4, <4>1, <4>2
    <3>6. L > 0 => c[L] = m BY <1>7, <3>4
    <3>7. L = IF K + 1 < S THEN K + 1 ELSE S BY <1>5, <3>1
    <3> QED BY <3>4, <3>5, <3>6, <3>7
  <2>2. CASE ~(L + 1 > S)
    <3>1. L = K /\ c = a BY <1>1, <1>5, <1>6, <2>2 DEF BufferAppend
    <3>2. \A x \in Nat : x + 1 < L + 1 => x < L /\ (L + 1) - (x + 1) = L - x OBVIOUS
    <3>3. L + 1 = IF K + 1 < S THEN K + 1 ELSE S BY <2>2, <3>1
    <3> QED BY <1>7, <3>1, <3>2, <3>3
  <2> QED BY <2>1, <2>2
<1>10. ASSUME NEW i \in J, After(J, i) < M PROVE c[M - After(J, i)] = handled'[i]
  <2>1. CASE i = n BY <1>2, <1>9, <1>10, <2>1
  <2>2. CASE i \in I
    <3>1. PICK x \in Nat : x = After(I, i) BY <1>4, <2>2
    <3>2. After(J, i) = x + 1 BY <1>4, <2>2, <3>1
    <3>3. c[M - (x + 1)] = a[L - x] /\ x < L BY <1>9, <1>10, <3>2
    <3>4. a[L - x] = handled[i] BY <1>8, <2>2, <3>1, <3>3
    <3> QED BY <1>3, <2>2, <3>2, <3>3, <3>4
  <2> QED BY <2>1, <2>2
<1>11. Len(c) = IF Cardinality(J) < StreamBufferSize THEN Cardinality(J) ELSE StreamBufferSize
  BY <1>1, <1>2, <1>9
<1>12. \A i \in J : After(J, i) < Len(c) => c[Len(c) - After(J, i)] = handled'[i] BY <1>9, <1>10
<1> QED BY <1>11, <1>12 DEF HoldsLast

\* What the result keeps of a message.
LEMMA HandleKeepsResult ==
    ASSUME JobInv, ResultExact, NEW p \in Pipes, Handle(p)
    PROVE  ResultExact'
<1>1. handled \in Seq(Message) /\ streams \in [Pipes -> Seq(Message)] BY DEF JobInv, JobType
<1>2. PICK m \in Message : m = cons[p].msg BY DEF JobInv, Consumer
<1>3. /\ handled' = Append(handled, m)
      /\ result' = IF m.level \in ResultLevels THEN m ELSE result
      /\ streams' = [q \in Pipes |-> IF m.level = DefaultLevel[q] THEN BufferAppend(streams[q], m) ELSE streams[q]]
  BY <1>2 DEF Handle
<1>a. PICK N \in {Len(handled)} : TRUE OBVIOUS
<1>4. PICK n \in {N + 1} : TRUE OBVIOUS
<1>5. /\ N \in Nat /\ n \in Nat /\ DOMAIN handled = 1 .. N /\ DOMAIN handled' = 1 .. n
      /\ handled'[n] = m /\ \A i \in 1 .. N : handled'[i] = handled[i] /\ i # n
      /\ \A L : OfLevel(L)' = IF m.level \in L THEN OfLevel(L) \cup {n} ELSE OfLevel(L)
  BY <1>1, <1>3, <1>4, OneMore
<1>6. \A L : OfLevel(L) \in SUBSET (1 .. N) BY <1>5 DEF OfLevel
<1>7. ASSUME NEW q \in Pipes PROVE HoldsLast(streams[q], OfLevel({DefaultLevel[q]}))'
  <2>1. PICK I, b : I = OfLevel({DefaultLevel[q]}) /\ b = streams[q] OBVIOUS
  <2>2. HoldsLast(b, I) /\ b \in Seq(Message) /\ I \in SUBSET (1 .. N) BY <1>1, <1>6, <2>1 DEF ResultExact
  <2>3. CASE m.level = DefaultLevel[q]
    <3>1. PICK c, J : c = BufferAppend(b, m) /\ J = I \cup {n} OBVIOUS
    <3>2. HoldsLast(c, J)' BY <1>4, <1>5, <2>2, <3>1, BufferHolds
    <3>3. streams'[q] = c /\ OfLevel({DefaultLevel[q]})' = J BY <1>3, <1>5, <2>1, <2>3, <3>1
    <3> QED BY <3>2, <3>3
  <2>4. CASE m.level # DefaultLevel[q]
    <3>1. streams'[q] = b /\ OfLevel({DefaultLevel[q]})' = I BY <1>3, <1>5, <2>1, <2>4
    <3>2. HoldsLast(b, I)' BY <1>5, <2>2 DEF HoldsLast
    <3> QED BY <3>1, <3>2
  <2> QED BY <2>3, <2>4
<1>8. \/ OfLevel(ResultLevels)' = {} /\ result' = NoMsg
      \/ \E i \in OfLevel(ResultLevels)' :
           result' = handled'[i] /\ \A j \in OfLevel(ResultLevels)' : j <= i
  <2>1. PICK I : I = OfLevel(ResultLevels) OBVIOUS
  <2>2. \A j \in I : j \in 1 .. N /\ j <= n BY <1>4, <1>5, <1>6, <2>1
  <2>3. CASE m.level \in ResultLevels
    <3>1. OfLevel(ResultLevels)' = I \cup {n} /\ result' = handled'[n] BY <1>3, <1>5, <2>1, <2>3
    <3>2. n <= n BY <1>5
    <3> QED BY <2>2, <3>1, <3>2
  <2>4. CASE m.level \notin ResultLevels
    <3>1. OfLevel(ResultLevels)' = I /\ result' = result BY <1>3, <1>5, <2>1, <2>4
    <3>2. \/ I = {} /\ result = NoMsg
          \/ \E i \in I : result = handled[i] /\ \A j \in I : j <= i
      BY <2>1 DEF ResultExact
    <3> QED BY <1>5, <2>2, <3>1, <3>2
  <2> QED BY <2>3, <2>4
<1>9. \A q \in Pipes : HoldsLast(streams[q], OfLevel({DefaultLevel[q]}))' BY <1>7
<1> QED BY <1>8, <1>9 DEF ResultExact

\* The select loop receives a message: the next one of its pipe.
LEMMA HandleTells ==
    ASSUME JobInv, OutputInv, NEW p \in Pipes, Handle(p)
    PROVE  OutputInv'
<1>1. /\ cons \in [Pipes -> Consumer] /\ cons[p] \in Consumer /\ cons[p].read \in Nat
      /\ handled \in Seq(Message) /\ \A q \in Pipes : Received(q) \in SUBSET (1 .. Len(handled))
      /\ written[p] \in Seq(Line) /\ Len(written[p]) \in Nat /\ Shown(p) \in SUBSET (1 .. Len(written[p]))
  BY Places DEF JobInv
<1>2. pc = "select" /\ cons[p].at = "send" /\ UNCHANGED <<kind, written>> BY DEF Handle, procVars
<1>3. PICK m \in Message, e \in Nat : m = cons[p].msg /\ e = cons[p].read BY <1>1 DEF Consumer
<1>4. e \in Shown(p) /\ Tells(m, p, written[p], e) /\ InStep(p, written[p], Shown(p), cons[p])
  BY <1>2, <1>3 DEF OutputInv, InStep
<1>5. handled' = Append(handled, m) BY <1>3 DEF Handle
<1>6. m.pipe = p BY <1>4 DEF Tells
<1>7. PICK N \in {Len(handled)} : TRUE OBVIOUS
<1>8. PICK n \in {N + 1} : TRUE OBVIOUS
<1>9. /\ N \in Nat /\ n \in Nat /\ handled'[n] = m /\ \A i \in 1 .. N : handled'[i] = handled[i]
      /\ \A q : Received(q)' = IF m.pipe = q THEN Received(q) \cup {n} ELSE Received(q)
  BY <1>1, <1>5, OneMore
<1>10. PICK I, J : I = Received(p) /\ J = I \cup {n} OBVIOUS
<1>11. I \in SUBSET (1 .. N) /\ Received(p)' = J /\ \A q \in Pipes \ {p} : Received(q)' = Received(q)
  BY <1>1, <1>6, <1>9, <1>10
<1>12. /\ Cardinality(J) = Cardinality(I) + 1 /\ UpTo(J, n) = Cardinality(I) + 1
       /\ \A i \in 1 .. N : UpTo(J, i) = UpTo(I, i)
  <2>1. Behind(N, I, n, J) BY <1>9, <1>10, <1>11 DEF Behind
  <2> QED BY <2>1, OneBehind
<1>13. Cardinality(I) + 1 = UpTo(Shown(p), e)
  <2>1. Cardinality(I) = UpTo(Shown(p), e - 1) BY <1>2, <1>3, <1>10 DEF OutputInv, CountInv, HandedOn
  <2>2. PICK d \in Nat : e = d + 1 BY <1>1, <1>4
  <2>3. UpTo(Shown(p), d + 1) = UpTo(Shown(p), d) + 1 BY <1>1, <1>4, <2>2, UpToNext
  <2>4. e - 1 = d BY <2>2
  <2> QED BY <2>1, <2>2, <2>3, <2>4
<1>14. PICK k, o : o = EmptyMessage(p) /\ k = [[cons[p] EXCEPT !.at = "read"] EXCEPT !.msg = o] OBVIOUS
<1>15. k.at = "read" /\ k.read = e /\ k.multi = cons[p].multi BY <1>1, <1>3, <1>14 DEF Consumer
<1>16. cons' = [cons EXCEPT ![p] = k] BY <1>1, <1>14 DEF Handle, Took
<1>17. cons'[p] = k /\ \A q \in Pipes \ {p} : cons'[q] = cons[q] BY <1>1, <1>16
<1>18. InStep(p, written[p], Shown(p), k) BY <1>2, <1>3, <1>4, <1>15, StillInStep
<1>19. \A q : Shown(q)' = Shown(q) BY <1>2, ShownRests
<1>20. \A q \in Pipes : InStep(q, written[q], Shown(q), cons[q])'
  <2>1. ASSUME NEW q \in Pipes PROVE InStep(q, written[q], Shown(q), cons[q])'
    <3>1. InStep(q, written[q], Shown(q), cons'[q]) BY <1>17, <1>18 DEF OutputInv
    <3>2. InStep(q, written'[q], Shown(q)', cons'[q]) BY <1>2, <1>19, <3>1
    <3> QED BY <3>2
  <2> QED BY <2>1
<1>21. CountInv'
  <2>1. pc' \in {"select", "feed"}
    <3>1. m.level # LevelExitState BY <1>2, <1>3 DEF JobInv, ConsumerInv
    <3> QED BY <1>3, <3>1 DEF Handle
  <2>2. ~Exited' BY <2>1 DEF Exited
  <2>3. ASSUME NEW q \in Pipes PROVE Cardinality(Received(q)') = UpTo(Shown(q)', HandedOn(cons'[q]))
    <3>1. CASE q = p
      <4>1. HandedOn(k) = e BY <1>15 DEF HandedOn
      <4> QED BY <1>11, <1>12, <1>13, <1>17, <1>19, <3>1, <4>1
    <3>2. CASE q # p BY <1>2, <1>11, <1>17, <1>19, <3>2 DEF OutputInv, CountInv
    <3> QED BY <3>1, <3>2
  <2> QED BY <2>2, <2>3 DEF CountInv
<1>22. ASSUME NEW q \in Pipes, NEW i \in Received(q)' PROVE \E f \in Shown(q) : Delivers(q, i, f)'
  <2>1. CASE i \in Received(q)
    <3>1. PICK f \in Shown(q) : Delivers(q, i, f) BY <2>1 DEF OutputInv, OutputInOrder
    <3>2. Tells(handled[i], q, written[q], f) /\ UpTo(Received(q), i) = UpTo(Shown(q), f) BY <3>1 DEF Delivers
    <3>3. i \in 1 .. N /\ handled'[i] = handled[i] BY <1>1, <1>9, <2>1
    <3>4. UpTo(Received(q)', i) = UpTo(Received(q), i)
      <4>1. CASE q = p BY <1>10, <1>11, <1>12, <3>3, <4>1
      <4>2. CASE q # p BY <1>11, <4>2
      <4> QED BY <4>1, <4>2
    <3>5. Tells(handled'[i], q, written'[q], f) /\ UpTo(Received(q)', i) = UpTo(Shown(q)', f)
      BY <1>2, <1>19, <3>2, <3>3, <3>4
    <3> QED BY <3>5 DEF Delivers
  <2>2. CASE i \notin Received(q)
    <3>1. q = p /\ i = n BY <1>10, <1>11, <1>22, <2>2
    <3>2. Tells(handled'[i], q, written'[q], e) /\ UpTo(Received(q)', i) = UpTo(Shown(q)', e)
      BY <1>2, <1>4, <1>9, <1>11, <1>12, <1>13, <1>19, <3>1
    <3> QED BY <1>4, <3>1, <3>2 DEF Delivers
  <2> QED BY <2>1, <2>2
<1>23. OutputInOrder' BY <1>19, <1>22 DEF OutputInOrder
<1>24. ResultExact' BY HandleKeepsResult DEF OutputInv
<1> QED BY <1>20, <1>21, <1>23, <1>24 DEF OutputInv

\* At the start nothing was read.
LEMMA OutputStart ==
    ASSUME Init
    PROVE  OutputInv
<1>1. JobInv BY JobStart
<1>2. handled = << >> /\ DOMAIN handled = {} BY DEF Init
<1>3. Received("out") = {} /\ \A p : Received(p) = {} BY <1>2 DEF Received
<1>4. \A L : OfLevel(L) = {} BY <1>2 DEF OfLevel
<1>5. \A p \in Pipes : cons[p].at = "read" /\ cons[p].read = 0 /\ ~cons[p].multi BY DEF Init
<1>6. ASSUME NEW p \in Pipes PROVE InStep(p, written[p], Shown(p), cons[p])
  <2>1. PICK s \in Seq(Line) : s = written[p] BY <1>1, Places
  <2>2. \A o \in Openers(s) : ~(o < 1)
    <3>1. \A o \in Openers(s) : o \in 1 .. Len(s) BY OpenersIs
    <3> QED BY <3>1
  <2>3. ~Inside(s, 1) BY <2>2 DEF Inside, OpenedBy
  <2>4. ~Inside(s, cons[p].read + 1) BY <1>5, <2>3
  <2> QED BY <1>5, <2>1, <2>4 DEF InStep
<1>7. CountInv
  <2>1. \A p \in Pipes : UpTo(Shown(p), HandedOn(cons[p])) = 0
    <3> SUFFICES ASSUME NEW p \in Pipes PROVE UpTo(Shown(p), HandedOn(cons[p])) = 0 OBVIOUS
    <3>1. HandedOn(cons[p]) = 0 BY <1>5 DEF HandedOn
    <3>2. UpTo(Shown(p), 0) = 0 BY <1>1, Places, UpToEnds
    <3> QED BY <3>1, <3>2
  <2>2. pc \in {"stdin", "select"} BY DEF Init
  <2>3. ~Exited BY <2>2 DEF Exited
  <2>4. Cardinality({}) = 0 BY FS_EmptySet
  <2> QED BY <1>3, <2>1, <2>3, <2>4 DEF CountInv
<1>8. OutputInOrder BY <1>3 DEF OutputInOrder
<1>9. ResultExact
  <2>1. Cardinality({}) = 0 BY FS_EmptySet
  <2>2. \A p \in Pipes : Len(streams[p]) = 0 BY DEF Init
  <2>3. result = NoMsg BY DEF Init
  <2>4. PICK S \in Nat : S = StreamBufferSize BY JobOutputAssumption
  <2>5. 0 = IF 0 < S THEN 0 ELSE S OBVIOUS
  <2>6. \A p \in Pipes : HoldsLast(streams[p], {}) BY <2>1, <2>2, <2>4, <2>5 DEF HoldsLast
  <2> QED BY <1>4, <2>3, <2>6 DEF ResultExact
<1> QED BY <1>6, <1>7, <1>8, <1>9 DEF OutputInv

\* Every step.
LEMMA OutputSteps ==
    ASSUME JobInv, OutputInv, Next
    PROVE  OutputInv'
<1>1. CASE \E p \in Pipes : ReadLine(p) \/ ReadEOF(p) \/ ReadFails(p) BY <1>1, ReadStepsTell
<1>2. CASE \E p \in Pipes : Handle(p) BY <1>2, HandleTells
<1>3. CASE \E p \in Pipes : DrainMessage(p) BY <1>3, SignalAndDrainTell
<1>4. CASE Closer
  <2>1. "out" \in Pipes /\ "err" \in Pipes BY TwoPipes
  <2>2. CASE Signal("out", "err") BY <2>1, <2>2, SignalAndDrainTell
  <2>3. CASE Signal("err", "wait") BY <2>1, <2>3, SignalAndDrainTell
  <2>4. CASE Reaped BY <2>4, OtherStepsTell DEF Reaped, procVars, jobVars
  <2> QED BY <1>4, <2>2, <2>3, <2>4 DEF Closer
<1>5. CASE Exit \/ \E p \in Pipes : ClosePipe(p) BY <1>5, OtherStepsTell DEF Exit, ClosePipe, jobVars
<1>6. CASE LastFlush \/ Statistics BY <1>6, OtherStepsTell DEF LastFlush, Statistics, procVars, jobVars
<1>7. CASE StdinWritten \/ Meter \/ Leave \/ Feed
  <2>1. UNCHANGED <<kind, written, cons, streams, result, handled>>
    BY <1>7 DEF StdinWritten, Meter, Leave, Feed, procVars
  <2>2. \/ pc \in {"stdin", "select", "feed"} /\ pc' \in {"select", "feed"}
        \/ state' = "KILLED" /\ pc' = "drain"
    BY <1>7 DEF StdinWritten, Meter, Leave, Feed
  <2> QED BY <2>1, <2>2, OtherStepsTell
<1>8. CASE HandleExit \/ DrainExit \/ Drained \/ Stop \/ StopReturns
  <2>1. UNCHANGED <<kind, written, cons, streams, result, handled>>
    BY <1>8 DEF HandleExit, DrainExit, Drained, Stop, StopReturns, procVars, jobVars
  <2>2. \/ UNCHANGED <<pc, state>>
        \/ pc \in {"drain", "stop", "stopping"} /\ pc' \notin {"stdin", "select", "feed"} /\ state' = state
        \/ pc = "select" /\ closer = "send" /\ pc' = "drain"
    BY <1>8 DEF HandleExit, DrainExit, Drained, Stop, StopReturns, jobVars
  <2> QED BY <2>1, <2>2, OtherStepsTell
<1> QED BY <1>1, <1>2, <1>3, <1>4, <1>5, <1>6, <1>7, <1>8 DEF Next, Progress, RunStep

\* As many messages were received as are to be shown, in order: so every one was.
LEMMA AllReceived ==
    ASSUME JobInv, OutputInv, Exited, NEW p \in Pipes, ~cons[p].failed, NEW e \in Shown(p)
    PROVE  \E i \in Received(p) : Delivers(p, i, e)
<1>1. PICK N, M, R, S : N = Len(handled) /\ M = Len(written[p]) /\ R = Received(p) /\ S = Shown(p) OBVIOUS
<1>2. N \in Nat /\ M \in Nat /\ R \in SUBSET (1 .. N) /\ S \in SUBSET (1 .. M) /\ e \in S BY <1>1, Places
<1>3. Cardinality(R) = Cardinality(S) BY <1>1 DEF OutputInv, CountInv
<1>4. UpTo(S, e) \in 1 .. Cardinality(S)
  <2>1. PICK A : A = {j \in S : j <= e} OBVIOUS
  <2>2. e \in Nat BY <1>2
  <2>3. IsFiniteSet(S) /\ IsFiniteSet(A) /\ Cardinality(A) \in Nat /\ Cardinality(S) \in Nat
    BY <1>2, <2>1, <2>2, Counts DEF UpTo
  <2>4. e <= e BY <2>2
  <2>5. A \in SUBSET S /\ e \in A BY <1>2, <2>1, <2>4
  <2>6. Cardinality(A) <= Cardinality(S) BY <2>3, <2>5, FS_Subset
  <2>7. Cardinality(A) # 0 BY <2>3, <2>5, FS_EmptySet
  <2> QED BY <2>1, <2>3, <2>6, <2>7 DEF UpTo
<1>5. PICK i \in R : UpTo(R, i) = UpTo(S, e) BY <1>2, <1>3, <1>4, UpToSurjective
<1>6. PICK f \in S : Delivers(p, i, f) BY <1>1, <1>5 DEF OutputInv, OutputInOrder
<1>7. UpTo(S, f) = UpTo(S, e) BY <1>1, <1>5, <1>6 DEF Delivers
<1>8. f = e BY <1>2, <1>7, UpToInjective
<1> QED BY <1>1, <1>5, <1>6, <1>8

\* The consumers, the messages under way and the history of the runner are in step with
\* the lines of the pipes (consume of base/pm/stream, the interceptor of base/pm/process
\* and the select loop of runner.go).
THEOREM JobOutputFollowsLines == Spec => [](JobInv /\ OutputInv)
<1>1. Init => JobInv /\ OutputInv BY JobStart, OutputStart
<1>2. JobInv /\ OutputInv /\ [Next]_vars => (JobInv /\ OutputInv)'
  <2>1. ASSUME JobInv, OutputInv, Next PROVE (JobInv /\ OutputInv)' BY <2>1, JobSteps, OutputSteps
  <2>2. ASSUME JobInv, OutputInv, UNCHANGED vars PROVE (JobInv /\ OutputInv)'
    <3>1. UNCHANGED <<procVars, cons, closer, jobVars>> BY <2>2 DEF vars
    <3> QED BY <2>2, <3>1, JobRests, OtherStepsTell DEF procVars, jobVars
  <2> QED BY <2>1, <2>2
<1> QED BY <1>1, <1>2, PTL DEF Spec

\* The runner receives the messages of a pipe in the order of their lines, none twice,
\* changed or made up, whatever is written to the two pipes and however the consumers, the
\* goroutine that waits for the end and the select loop take turns.
THEOREM JobOutputInOrder == Spec => []OutputInOrder
<1>1. OutputInv => OutputInOrder BY DEF OutputInv
<1> QED BY <1>1, JobOutputFollowsLines, PTL

\* When the exit message ends the select loop, every message of a pipe that could be read
\* was received before: the goroutine that sends it waits for both consumers
\* (systemprocess.go), and those hand on a message before they read on.
THEOREM JobOutputComplete == Spec => []OutputComplete
<1>1. JobInv /\ OutputInv => OutputComplete BY AllReceived DEF OutputComplete
<1> QED BY <1>1, JobOutputFollowsLines, PTL

\* The result of a job holds the last lines of each output, as many as its limited buffers
\* take, and the last result message (run of runner.go, NewBuffer and Append of stream).
THEOREM JobOutputResultExact == Spec => []ResultExact
<1>1. OutputInv => ResultExact BY DEF OutputInv
<1> QED BY <1>1, JobOutputFollowsLines, PTL
=============================================================================
