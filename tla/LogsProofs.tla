-------------------------------- MODULE LogsProofs --------------------------------
(***************************************************************************)
(* Theorems about the loggers (Logs) and the buffer of the statistics      *)
(* (StatsBuffer).                                                          *)
(*                                                                         *)
(* Logs.  A message is counted wherever it may be on its way: CountInv     *)
(* says that it is never at two places, and is inductive because no step   *)
(* makes the count grow.  LostInv says that without faults an accepted     *)
(* message is somewhere unless LTRIM may have dropped it: a list is the    *)
(* end of what was ever pushed to it (SuffixInv), so what LTRIM drops has  *)
(* QueueSize newer records behind it.  LossInv charges every record that a *)
(* pusher lost, and the one it may lose next (AtRisk), to a fault, and     *)
(* LengthInv every record beyond the limit of a list to a pusher that will *)
(* trim it (Trimmers), or to a fault.                                      *)
(*                                                                         *)
(* StatsBuffer.  Baskets are not empty and have no statistic twice, so a   *)
(* flush never meets its own basket, and the copies of a statistic are     *)
(* counted the same way.                                                   *)
(***************************************************************************)
EXTENDS Logs, StatsBuffer, FiniteSetTheorems, TLAPS

-----------------------------------------------------------------------------
(* Logs                                                                    *)

\* A pusher has one record while it pushes it, and the forwarder while it passes it on.
RecordInv ==
    /\ \A a \in Agents : IF pusher[a].pc = "rpush" THEN \E m \in Msgs : pusher[a].rec = {m}
                         ELSE pusher[a].rec = {}
    /\ IF forwarder.pc = "send" THEN \E m \in Msgs : forwarder.rec = {m} ELSE forwarder.rec = {}

\* The one record of a set of one is that.
LEMMA TheRecordIs == \A m : TheRecord({m}) = m
  BY DEF TheRecord

\* What LTRIM leaves of a list.
LEMMA TrimmedType ==
    ASSUME NEW s \in Seq(Msgs)
    PROVE  Trimmed(s) \in Seq(Msgs) /\ Len(Trimmed(s)) <= QueueSize /\ Len(Trimmed(s)) <= Len(s)
<1>1. PICK n, q \in Nat : n = Len(s) /\ q = QueueSize /\ q > 0
  BY LogsAssumption
<1>2. CASE n > q
  <2>1. Trimmed(s) = SubSeq(s, n - q + 1, n) /\ n - q + 1 \in 1 .. n
    BY <1>1, <1>2 DEF Trimmed
  <2>2. Trimmed(s) \in Seq(Msgs) /\ Len(Trimmed(s)) = n - (n - q + 1) + 1
    BY <1>1, <2>1
  <2> QED BY <1>1, <1>2, <2>2
<1>3. CASE ~(n > q)
  <2>1. Trimmed(s) = SubSeq(s, 1, n) BY <1>1, <1>3 DEF Trimmed
  <2>2. Trimmed(s) \in Seq(Msgs) /\ Len(Trimmed(s)) = n BY <1>1, <2>1
  <2> QED BY <1>1, <1>3, <2>2
<1> QED BY <1>2, <1>3

PusherTypes == [pc : {"get", "wait", "rpush", "ltrim"}, rec : SUBSET Msgs]
ForwarderTypes == [pc : {"dial", "blpop", "send"}, conn : {"ok", "broken"}, rec : SUBSET Msgs]

\* A function of agents or of lists that changes at one place.
LEMMA OneChanges ==
    ASSUME NEW S, NEW T, NEW f \in [S -> T], NEW x \in S, NEW y \in T, NEW g, g = [f EXCEPT ![x] = y]
    PROVE  g \in [S -> T] /\ g[x] = y /\ \A z \in S : z # x => g[z] = f[z]
  OBVIOUS

\* A pusher goes elsewhere with the record it has.
LEMMA PusherGoes ==
    ASSUME LogTypeOK, NEW a \in Agents, NEW pc \in {"get", "wait", "rpush", "ltrim"}, Goto(a, pc)
    PROVE  /\ pusher' \in [Agents -> PusherTypes]
           /\ pusher'[a] = [pc |-> pc, rec |-> pusher[a].rec]
           /\ \A b \in Agents : b # a => pusher'[b] = pusher[b]
<1>1. pusher \in [Agents -> PusherTypes] BY DEF LogTypeOK, PusherTypes
<1>2. pusher' = [pusher EXCEPT ![a] = [pusher[a] EXCEPT !.pc = pc]] BY DEF Goto
<1>3. [pusher[a] EXCEPT !.pc = pc] = [pc |-> pc, rec |-> pusher[a].rec] BY <1>1 DEF PusherTypes
<1>4. [pc |-> pc, rec |-> pusher[a].rec] \in PusherTypes BY <1>1 DEF PusherTypes
<1> QED BY <1>1, <1>2, <1>3, <1>4, OneChanges

\* A pusher is given a state of its own.
LEMMA PusherStays ==
    ASSUME LogTypeOK, NEW a \in Agents, NEW p \in PusherTypes, pusher' = [pusher EXCEPT ![a] = p]
    PROVE  /\ pusher' \in [Agents -> PusherTypes]
           /\ pusher'[a] = p
           /\ \A b \in Agents : b # a => pusher'[b] = pusher[b]
<1>1. pusher \in [Agents -> PusherTypes] BY DEF LogTypeOK, PusherTypes
<1> QED BY <1>1, OneChanges

\* Every step keeps the types.
LEMMA LogTypeStep ==
    ASSUME LogTypeOK, RecordInv, [LogNext]_logVars
    PROVE  LogTypeOK'
<1>p. pusher \in [Agents -> PusherTypes] BY DEF LogTypeOK, PusherTypes
<1>c. Core0 \in Agents /\ Cores \subseteq Agents /\ \A a \in Agents : RedisOf(a) \in Redises
  BY DEF Agents, RedisOf, Redises
<1>r. "private" \in Redises BY DEF Redises
<1>1. ASSUME NEW m \in Msgs, Write(m) \/ Store(m) PROVE LogTypeOK'
  BY <1>1 DEF Write, LogInContainer, LogInCore0, LogLogic, Store, LogTypeOK
<1>2. ASSUME NEW m \in Msgs, Send(m) PROVE LogTypeOK'
  BY <1>2, LogsAssumption DEF Send, LogTypeOK
<1>3. ASSUME NEW a \in Agents, Get(a) PROVE LogTypeOK'
  <2>1. pusher' \in [Agents -> PusherTypes] BY <1>3, PusherGoes DEF Get
  <2> QED BY <1>3, <2>1 DEF Get, PusherOnly, LogTypeOK, PusherTypes
<1>4. ASSUME NEW a \in Agents, RPushFails(a) PROVE LogTypeOK'
  <2>1. pusher' \in [Agents -> PusherTypes] BY <1>4, <1>p DEF RPushFails, Waiting, PusherTypes
  <2>2. lostUp' \in [Agents -> Nat] BY <1>4 DEF RPushFails, LogTypeOK
  <2> QED BY <1>4, <2>1, <2>2 DEF RPushFails, PusherOnly, LogTypeOK, PusherTypes
<1>5. ASSUME NEW a \in Agents, Receive(a) PROVE LogTypeOK'
  <2>1. Head(ch[a]) \in Msgs /\ Tail(ch[a]) \in Seq(Msgs) BY <1>5 DEF Receive, LogTypeOK
  <2>2. pusher' \in [Agents -> PusherTypes] BY <1>5, <1>p, <2>1 DEF Receive, PusherTypes
  <2> QED BY <1>5, <2>1, <2>2 DEF Receive, PusherOnly, LogTypeOK, PusherTypes
<1>6. ASSUME NEW a \in Agents, RPush(a) \/ RPushUnanswered(a) PROVE LogTypeOK'
  <2>1. PICK m \in Msgs : pusher[a].rec = {m} BY <1>6 DEF RPush, RPushUnanswered, PusherAt, RecordInv
  <2>2. TheRecord(pusher[a].rec) = m BY <2>1, TheRecordIs
  <2>a. /\ list' = [list EXCEPT ![RedisOf(a)] = Append(@, m)]
        /\ pushed' = [pushed EXCEPT ![RedisOf(a)] = Append(@, m)]
    BY <1>6, <2>2 DEF RPush, RPushUnanswered, Pushed
  <2>3. list' \in [Redises -> Seq(Msgs)] /\ pushed' \in [Redises -> Seq(Msgs)]
    BY <1>c, <2>a DEF LogTypeOK
  <2>4. CASE RPush(a)
    <3>1. pusher' \in [Agents -> PusherTypes] BY <2>4, <1>p DEF RPush, PusherTypes
    <3> QED BY <2>3, <2>4, <3>1 DEF RPush, PusherOnly, LogTypeOK, PusherTypes
  <2>5. CASE RPushUnanswered(a) BY <2>3, <2>5, LogsAssumption DEF RPushUnanswered, Fault, LogTypeOK
  <2> QED BY <1>6, <2>4, <2>5
<1>7. ASSUME NEW a \in Agents, LTrim(a) PROVE LogTypeOK'
  <2>1. list' \in [Redises -> Seq(Msgs)] BY <1>7, <1>c, TrimmedType DEF LTrim, LogTypeOK
  <2>2. pusher' \in [Agents -> PusherTypes] BY <1>7, PusherGoes DEF LTrim
  <2> QED BY <1>7, <2>1, <2>2 DEF LTrim, PusherOnly, LogTypeOK, PusherTypes
<1>8. CASE Dial \/ ForwardFails
  <2>a. CASE Dial BY <2>a DEF Dial, LogTypeOK
  <2>b. CASE ForwardFails
    <3>1. forwarder' \in ForwarderTypes BY <2>b DEF ForwardFails, LogTypeOK, ForwarderTypes
    <3> QED BY <2>b, <3>1 DEF ForwardFails, LogTypeOK, ForwarderTypes
  <2> QED BY <1>8, <2>a, <2>b
<1>9. CASE Forward \/ BLPopUnanswered
  <2>1. Head(list["private"]) \in Msgs /\ Tail(list["private"]) \in Seq(Msgs)
    BY <1>9, <1>r DEF Forward, BLPopUnanswered, LogTypeOK
  <2>2. list' \in [Redises -> Seq(Msgs)] BY <1>9, <1>r, <2>1 DEF Forward, BLPopUnanswered, LogTypeOK
  <2>3. CASE Forward
    <3>1. forwarder' \in ForwarderTypes
      BY <2>1, <2>3 DEF Forward, LogTypeOK, ForwarderTypes
    <3> QED BY <2>1, <2>2, <2>3, <3>1 DEF Forward, LogTypeOK, ForwarderTypes
  <2>4. CASE BLPopUnanswered
    <3>1. forwarder' \in ForwarderTypes BY <2>4 DEF BLPopUnanswered, LogTypeOK, ForwarderTypes
    <3>2. faults' \in 0 .. MaxFaults BY <2>4, LogsAssumption DEF BLPopUnanswered, Fault, LogTypeOK
    <3> QED BY <2>2, <2>4, <3>1, <3>2 DEF BLPopUnanswered, LogTypeOK, ForwarderTypes
  <2> QED BY <1>9, <2>3, <2>4
<1>10. CASE Resend
  <2>1. PICK m \in Msgs : forwarder.rec = {m} BY <1>10 DEF Resend, RecordInv
  <2>2. TheRecord(forwarder.rec) = m BY <2>1, TheRecordIs
  <2>3. ch' \in [Agents -> Seq(Msgs)] BY <1>10, <1>c, <2>2 DEF Resend, LogTypeOK
  <2> QED BY <1>10, <2>3 DEF Resend, LogTypeOK
<1>11. ASSUME NEW r \in Redises, RedisFails(r) PROVE LogTypeOK'
  <2>1. conn' \in [Agents -> {"ok", "broken"}] BY <1>11 DEF RedisFails, Broken, LogTypeOK
  <2>2. list' \in [Redises -> Seq(Msgs)]
    <3>1. PICK left \in {list[r], <<>>} : list' = [list EXCEPT ![r] = left] BY <1>11 DEF RedisFails
    <3>2. list[r] \in Seq(Msgs) /\ <<>> \in Seq(Msgs) BY DEF LogTypeOK
    <3>3. left \in Seq(Msgs) BY <3>1, <3>2
    <3> QED BY <3>1, <3>3 DEF LogTypeOK
  <2>3. forwarder' \in ForwarderTypes
    BY <1>11 DEF RedisFails, LogTypeOK, ForwarderTypes
  <2>4. faults' \in 0 .. MaxFaults
    <3>1. faults \in 0 .. MaxFaults /\ MaxFaults \in Nat BY LogsAssumption DEF LogTypeOK
    <3>2. faults < MaxFaults /\ faults' = faults + 1 BY <1>11 DEF RedisFails, Fault
    <3> QED BY <3>1, <3>2
  <2> QED BY <1>11, <2>1, <2>2, <2>3, <2>4 DEF RedisFails, LogTypeOK, ForwarderTypes
<1>12. ASSUME NEW r \in Redises, RedisReturns(r) PROVE LogTypeOK' BY <1>12 DEF RedisReturns, LogTypeOK
<1>13. ASSUME NEW a \in Cores, CoreEnds(a) PROVE LogTypeOK'
  <2>1. pusher' \in [Agents -> PusherTypes] BY <1>13, <1>c, <1>p DEF CoreEnds, Waiting, PusherTypes
  <2>2. ch' \in [Agents -> Seq(Msgs)] BY <1>13, <1>c DEF CoreEnds, LogTypeOK
  <2> QED BY <1>13, <2>1, <2>2, LogsAssumption DEF CoreEnds, Fault, LogTypeOK, PusherTypes
<1>14. CASE UNCHANGED logVars BY <1>14 DEF logVars, LogTypeOK
<1> QED BY <1>1, <1>2, <1>3, <1>4, <1>5, <1>6, <1>7, <1>8, <1>9, <1>10, <1>11, <1>12, <1>13, <1>14
        DEF LogNext, PusherStep, ForwarderStep, FaultStep

\* Every step moves at most one pusher, gives it a record only to push it, and takes the
\* record from it when it goes on.
LEMMA RecordStep ==
    ASSUME LogTypeOK, RecordInv, [LogNext]_logVars
    PROVE  RecordInv'
<1> DEFINE Fits(p) == IF p.pc = "rpush" THEN \E m \in Msgs : p.rec = {m} ELSE p.rec = {}
           Passes(f) == IF f.pc = "send" THEN \E m \in Msgs : f.rec = {m} ELSE f.rec = {}
<1>i. (\A a \in Agents : Fits(pusher[a])) /\ Passes(forwarder) BY DEF RecordInv
<1>c. Cores \subseteq Agents BY DEF Agents
<1>1. ASSUME NEW a \in Agents, Get(a) \/ Receive(a) \/ RPush(a) \/ RPushFails(a) \/ LTrim(a) \/ CoreEnds(a)
      PROVE  Fits(pusher'[a]) /\ \A b \in Agents : b # a => pusher'[b] = pusher[b]
  <2>1. CASE Get(a)
    <3>1. pusher[a].rec = {} BY <1>i, <2>1 DEF Get, PusherAt
    <3>2. Goto(a, "wait") BY <2>1 DEF Get
    <3>3. pusher'[a] = [pc |-> "wait", rec |-> {}] BY <3>1, <3>2, PusherGoes
    <3>4. \A b \in Agents : b # a => pusher'[b] = pusher[b] BY <3>2, PusherGoes
    <3> QED BY <3>3, <3>4
  <2>2. CASE Receive(a)
    <3>1. Head(ch[a]) \in Msgs BY <2>2 DEF Receive, LogTypeOK
    <3>2. [pc |-> "rpush", rec |-> {Head(ch[a])}] \in PusherTypes BY <3>1 DEF PusherTypes
    <3> QED BY <2>2, <3>1, <3>2, PusherStays DEF Receive
  <2>3. CASE RPush(a)
    <3>1. [pc |-> "ltrim", rec |-> {}] \in PusherTypes BY DEF PusherTypes
    <3> QED BY <2>3, <3>1, PusherStays DEF RPush
  <2>4. CASE RPushFails(a) \/ CoreEnds(a)
    <3>1. Waiting \in PusherTypes /\ Fits(Waiting) BY DEF PusherTypes, Waiting
    <3> QED BY <2>4, <3>1, PusherStays DEF RPushFails, CoreEnds
  <2>5. CASE LTrim(a)
    <3>1. pusher[a].rec = {} BY <1>i, <2>5 DEF LTrim, PusherAt
    <3>2. PICK pc \in {"wait", "get"} : Goto(a, pc) BY <2>5 DEF LTrim
    <3>3. pusher'[a] = [pc |-> pc, rec |-> {}] BY <3>1, <3>2, PusherGoes
    <3>4. \A b \in Agents : b # a => pusher'[b] = pusher[b] BY <3>2, PusherGoes
    <3> QED BY <3>3, <3>4
  <2> QED BY <1>1, <2>1, <2>2, <2>3, <2>4, <2>5
<1>2. \/ pusher' = pusher
      \/ \E a \in Agents : Get(a) \/ Receive(a) \/ RPush(a) \/ RPushFails(a) \/ LTrim(a) \/ CoreEnds(a)
  BY <1>c DEF LogNext, Write, LogInContainer, LogInCore0, LogLogic, Send, Store, PusherStep, ForwarderStep, Dial,
        Forward, Resend, ForwardFails, FaultStep, RedisFails, RedisReturns, RPushUnanswered, BLPopUnanswered,
        logVars
<1>3. \A a \in Agents : Fits(pusher'[a]) BY <1>i, <1>1, <1>2
<1>4. Passes(forwarder')
  <2>1. CASE forwarder' = forwarder BY <1>i, <2>1
  <2>2. CASE Dial BY <2>2 DEF Dial
  <2>3. CASE Forward
    <3>1. Head(list["private"]) \in Msgs BY <2>3 DEF Forward, LogTypeOK, Redises
    <3> QED BY <1>i, <2>3, <3>1 DEF Forward, LogTypeOK, ForwarderTypes
  <2>4. CASE Resend BY <2>4 DEF Resend, LogTypeOK
  <2>5. CASE ForwardFails BY <1>i, <2>5 DEF ForwardFails, LogTypeOK
  <2>6. ASSUME NEW r \in Redises, RedisFails(r) PROVE Passes(forwarder')
    BY <1>i, <2>6 DEF RedisFails, LogTypeOK
  <2>7. CASE BLPopUnanswered BY <1>i, <2>7 DEF BLPopUnanswered, LogTypeOK
  <2>8. \/ forwarder' = forwarder \/ Dial \/ Forward \/ Resend \/ ForwardFails \/ BLPopUnanswered
        \/ \E r \in Redises : RedisFails(r)
    BY DEF LogNext, Write, LogInContainer, LogInCore0, LogLogic, Send, Store, PusherStep, ForwarderStep,
        FaultStep, Get, Receive, RPush, RPushFails, LTrim, PusherOnly, RedisReturns, RPushUnanswered, CoreEnds,
        logVars
  <2> QED BY <2>1, <2>2, <2>3, <2>4, <2>5, <2>6, <2>7, <2>8
<1> QED BY <1>3, <1>4 DEF RecordInv

\* Where the steps of a pusher take it, with which record, and which the others are not
\* touched by.
LEMMA PusherPlaces ==
    ASSUME LogTypeOK, RecordInv, NEW a \in Agents, PusherStep(a) \/ CoreEnds(a)
    PROVE  /\ \A b \in Agents : b # a => pusher'[b] = pusher[b]
           /\ Get(a) => pusher'[a] = [pc |-> "wait", rec |-> {}]
           /\ Receive(a) => pusher'[a] = [pc |-> "rpush", rec |-> {Head(ch[a])}]
           /\ RPush(a) => pusher'[a] = [pc |-> "ltrim", rec |-> {}]
           /\ RPushFails(a) \/ CoreEnds(a) => pusher'[a] = [pc |-> "get", rec |-> {}]
           /\ LTrim(a) => pusher'[a] = [pc |-> IF conn[a] = "ok" THEN "wait" ELSE "get", rec |-> {}]
<1>p. pusher \in [Agents -> PusherTypes] BY DEF LogTypeOK, PusherTypes
<1>1. ASSUME Get(a) PROVE /\ pusher'[a] = [pc |-> "wait", rec |-> {}]
                          /\ \A b \in Agents : b # a => pusher'[b] = pusher[b]
  <2>1. pusher[a].rec = {} /\ Goto(a, "wait") BY <1>1 DEF Get, PusherAt, RecordInv
  <2> QED BY <2>1, PusherGoes
<1>2. ASSUME Receive(a) PROVE /\ pusher'[a] = [pc |-> "rpush", rec |-> {Head(ch[a])}]
                              /\ \A b \in Agents : b # a => pusher'[b] = pusher[b]
  BY <1>2, <1>p DEF Receive
<1>3. ASSUME RPush(a) PROVE /\ pusher'[a] = [pc |-> "ltrim", rec |-> {}]
                            /\ \A b \in Agents : b # a => pusher'[b] = pusher[b]
  BY <1>3, <1>p DEF RPush
<1>4. ASSUME RPushFails(a) \/ CoreEnds(a)
      PROVE  /\ pusher'[a] = [pc |-> "get", rec |-> {}]
             /\ \A b \in Agents : b # a => pusher'[b] = pusher[b]
  BY <1>4, <1>p DEF RPushFails, CoreEnds, Waiting
<1>5. ASSUME LTrim(a)
      PROVE  /\ pusher'[a] = [pc |-> IF conn[a] = "ok" THEN "wait" ELSE "get", rec |-> {}]
             /\ \A b \in Agents : b # a => pusher'[b] = pusher[b]
  <2>1. pusher[a].rec = {} BY <1>5 DEF LTrim, PusherAt, RecordInv
  <2>2. Goto(a, IF conn[a] = "ok" THEN "wait" ELSE "get") BY <1>5 DEF LTrim
  <2>3. CASE conn[a] = "ok"
    <3>1. Goto(a, "wait") BY <2>2, <2>3
    <3> QED BY <2>1, <2>3, <3>1, PusherGoes
  <2>4. CASE conn[a] # "ok"
    <3>1. Goto(a, "get") BY <2>2, <2>4
    <3> QED BY <2>1, <2>4, <3>1, PusherGoes
  <2> QED BY <2>3, <2>4
<1>6. \A b \in Agents : b # a => pusher'[b] = pusher[b] BY <1>1, <1>2, <1>3, <1>4, <1>5 DEF PusherStep
<1> QED BY <1>1, <1>2, <1>3, <1>4, <1>5, <1>6

\* The steps of others: they touch no pusher and no connection.
Aside ==
    /\ UNCHANGED <<pusher, conn, up, lostUp>>
    /\ UNCHANGED faults \/ Fault
    /\ UNCHANGED list \/ (list["private"] # <<>> /\ list' = [list EXCEPT !["private"] = Tail(@)])

\* Each step is one of a pusher, one of a Redis or a connection, or one of those.
LEMMA LogStepKinds ==
    ASSUME [LogNext]_logVars
    PROVE  \/ Aside
           \/ \E a \in Agents : PusherStep(a) \/ RPushUnanswered(a)
           \/ \E r \in Redises : RedisFails(r) \/ RedisReturns(r)
           \/ \E a \in Cores : CoreEnds(a)
<1>1. ASSUME NEW m \in Msgs, Write(m) \/ Send(m) \/ Store(m) PROVE Aside
  BY <1>1 DEF Write, LogInContainer, LogInCore0, LogLogic, Send, Store, Aside
<1>2. CASE Dial \/ Resend \/ ForwardFails BY <1>2 DEF Dial, Resend, ForwardFails, Aside
<1>3. CASE Forward \/ BLPopUnanswered BY <1>3 DEF Forward, BLPopUnanswered, Aside
<1>4. CASE UNCHANGED logVars BY <1>4 DEF logVars, Aside
<1> QED BY <1>1, <1>2, <1>3, <1>4 DEF LogNext, ForwarderStep, FaultStep

-----------------------------------------------------------------------------
(* Losses                                                                  *)

\* The next record of a pusher will be lost, or its Redis is away.
AtRisk(a) == RedisOf(a) \notin up \/ (conn[a] = "broken" /\ pusher[a].pc # "get")

LossInv == \A a \in Agents : lostUp[a] + (IF AtRisk(a) THEN 1 ELSE 0) <= faults

\* A fault puts a record at risk, and a loss takes the risk away.
LEMMA LossStep ==
    ASSUME LogTypeOK, LogTypeOK', RecordInv, LossInv, [LogNext]_logVars
    PROVE  LossInv'
<1>n. /\ faults \in Nat /\ faults' \in Nat
      /\ \A a \in Agents : lostUp[a] \in Nat /\ lostUp'[a] \in Nat
  BY LogsAssumption DEF LogTypeOK
<1>i. \A a \in Agents : lostUp[a] + (IF AtRisk(a) THEN 1 ELSE 0) <= faults BY DEF LossInv
<1>1. CASE Aside
  <2>1. \A a \in Agents : AtRisk(a)' <=> AtRisk(a) BY <1>1 DEF Aside, AtRisk
  <2>2. lostUp' = lostUp /\ faults <= faults' BY <1>1, <1>n DEF Aside, Fault
  <2> QED BY <1>n, <1>i, <2>1, <2>2 DEF LossInv
<1>2. ASSUME NEW a \in Agents, PusherStep(a) PROVE LossInv'
  <2>1. \A b \in Agents : b # a => pusher'[b] = pusher[b] BY <1>2, PusherPlaces
  <2>2. up' = up /\ faults' = faults
    BY <1>2 DEF PusherStep, Get, Receive, RPush, RPushFails, LTrim, PusherOnly
  <2>3. \A b \in Agents : b # a => lostUp'[b] = lostUp[b] /\ conn'[b] = conn[b]
    BY <1>2 DEF PusherStep, Get, Receive, RPush, RPushFails, LTrim, LogTypeOK
  <2>4. \A b \in Agents : b # a => (AtRisk(b)' <=> AtRisk(b)) BY <2>1, <2>2, <2>3 DEF AtRisk
  <2>5. lostUp'[a] + (IF AtRisk(a)' THEN 1 ELSE 0) <= faults
    <3>1. CASE Get(a)
      <4>1. lostUp' = lostUp /\ (RedisOf(a) \in up => conn'[a] = "ok") BY <3>1 DEF Get, LogTypeOK
      <4>2. AtRisk(a)' => AtRisk(a) BY <2>2, <4>1 DEF AtRisk
      <4> QED BY <1>n, <1>i, <4>1, <4>2
    <3>2. CASE Receive(a) \/ RPush(a)
      <4>1. lostUp' = lostUp /\ conn' = conn /\ pusher[a].pc # "get"
        BY <3>2 DEF Receive, RPush, PusherAt
      <4>2. AtRisk(a)' => AtRisk(a) BY <2>2, <4>1 DEF AtRisk
      <4> QED BY <1>n, <1>i, <4>1, <4>2
    <3>3. CASE LTrim(a)
      <4>1. lostUp' = lostUp /\ conn' = conn /\ pusher[a].pc # "get" BY <3>3 DEF LTrim, PusherAt
      <4>2. AtRisk(a)' => AtRisk(a) BY <2>2, <4>1 DEF AtRisk
      <4> QED BY <1>n, <1>i, <4>1, <4>2
    <3>4. CASE RPushFails(a)
      <4>1. AtRisk(a) BY <3>4 DEF RPushFails, PusherAt, AtRisk
      <4>a. pusher'[a] = [pc |-> "get", rec |-> {}] BY <3>4, <1>2, PusherPlaces
      <4>2. pusher'[a].pc = "get" BY <4>a
      <4>3. AtRisk(a)' <=> RedisOf(a) \notin up BY <2>2, <4>2 DEF AtRisk
      <4>4. lostUp'[a] = IF RedisOf(a) \in up THEN lostUp[a] + 1 ELSE lostUp[a]
        BY <3>4 DEF RPushFails, LogTypeOK
      <4> QED BY <1>n, <1>i, <4>1, <4>3, <4>4
    <3> QED BY <1>2, <3>1, <3>2, <3>3, <3>4 DEF PusherStep
  <2>6. \A b \in Agents : b # a => lostUp'[b] + (IF AtRisk(b)' THEN 1 ELSE 0) <= faults BY <1>i, <2>3, <2>4
  <2> QED BY <2>2, <2>5, <2>6 DEF LossInv
<1>3. CASE \/ \E a \in Agents : RPushUnanswered(a)
           \/ \E r \in Redises : RedisFails(r)
           \/ \E a \in Cores : CoreEnds(a)
  <2>1. faults' = faults + 1 /\ lostUp' = lostUp
    BY <1>3 DEF RPushUnanswered, RedisFails, CoreEnds, Fault
  <2> QED BY <1>n, <1>i, <2>1 DEF LossInv
<1>4. ASSUME NEW r \in Redises, RedisReturns(r) PROVE LossInv'
  <2>1. \A a \in Agents : AtRisk(a)' => AtRisk(a) BY <1>4 DEF RedisReturns, AtRisk
  <2>2. lostUp' = lostUp /\ faults' = faults BY <1>4 DEF RedisReturns
  <2> QED BY <1>n, <1>i, <2>1, <2>2 DEF LossInv
<1> QED BY <1>1, <1>2, <1>3, <1>4, LogStepKinds

-----------------------------------------------------------------------------
(* The length of a list                                                    *)

\* The pushers that have pushed a record and will trim the list.
Trimmers(r) == {a \in PushersOf(r) : pusher[a].pc = "ltrim" /\ conn[a] = "ok"}

LengthInv ==
    \A r \in Redises :
        Len(list[r]) <= QueueSize + Cardinality(Trimmers(r)) + faults * Cardinality(PushersOf(r))

\* The pushers of a Redis, and those that will trim its list, can be counted.
LEMMA PushersCount ==
    \A r : /\ IsFiniteSet(PushersOf(r)) /\ Cardinality(PushersOf(r)) \in Nat
           /\ \A S \in SUBSET PushersOf(r) :
                IsFiniteSet(S) /\ Cardinality(S) \in Nat /\ Cardinality(S) <= Cardinality(PushersOf(r))
<1>1. IsFiniteSet(Agents) BY LogsAssumption, FS_AddElement DEF Agents
<1>2. \A r : PushersOf(r) \in SUBSET Agents BY DEF PushersOf
<1>3. \A r : IsFiniteSet(PushersOf(r)) BY <1>1, <1>2, FS_Subset
<1>4. \A r : \A S \in SUBSET PushersOf(r) : IsFiniteSet(S) /\ Cardinality(S) <= Cardinality(PushersOf(r))
  BY <1>3, FS_Subset
<1> QED BY <1>3, <1>4, FS_CardinalityType

\* One more fault allows one more record for each pusher.
LEMMA OneMore == \A n, k \in Nat : (n + 1) * k = n * k + k /\ n * k \in Nat
  OBVIOUS

\* More faults allow more records.
LEMMA MoreFaults == \A m, n, k \in Nat : m <= n => m * k <= n * k
  OBVIOUS

\* Faults and trimmers allow the length of a list: one record more needs one trimmer more, a
\* trimmer less a trimmed list, and whatever happens with a fault is paid by the fault.
LEMMA LengthStep ==
    ASSUME LogTypeOK, LogTypeOK', RecordInv, LengthInv, [LogNext]_logVars
    PROVE  LengthInv'
<1>n. /\ faults \in Nat /\ faults' \in Nat /\ QueueSize \in Nat
      /\ \A r \in Redises : list[r] \in Seq(Msgs) /\ list'[r] \in Seq(Msgs)
      /\ \A r \in Redises : Len(list[r]) \in Nat /\ Len(list'[r]) \in Nat
  BY LogsAssumption DEF LogTypeOK
<1>c. \A r \in Redises : /\ Cardinality(PushersOf(r)) \in Nat
                         /\ IsFiniteSet(Trimmers(r)) /\ Cardinality(Trimmers(r)) \in Nat
                         /\ Cardinality(Trimmers(r)) <= Cardinality(PushersOf(r))
                         /\ Cardinality(Trimmers(r)') \in Nat
                         /\ faults * Cardinality(PushersOf(r)) \in Nat
  <2>1. \A r \in Redises : Trimmers(r) \in SUBSET PushersOf(r) /\ Trimmers(r)' \in SUBSET PushersOf(r)
    BY DEF Trimmers, PushersOf
  <2> QED BY <1>n, <2>1, PushersCount, OneMore
<1>i. \A r \in Redises :
        Len(list[r]) <= QueueSize + Cardinality(Trimmers(r)) + faults * Cardinality(PushersOf(r))
  BY DEF LengthInv
<1>f. ASSUME faults' = faults + 1,
             \A r \in Redises : \/ Len(list'[r]) <= Len(list[r])
                                \/ Len(list'[r]) = Len(list[r]) + 1 /\ PushersOf(r) # {} /\ Trimmers(r)' = Trimmers(r)
      PROVE  LengthInv'
  <2>1. ASSUME NEW r \in Redises
        PROVE  Len(list'[r]) <= QueueSize + Cardinality(Trimmers(r)') + (faults + 1) * Cardinality(PushersOf(r))
    <3>1. (faults + 1) * Cardinality(PushersOf(r)) = faults * Cardinality(PushersOf(r)) + Cardinality(PushersOf(r))
      BY <1>n, <1>c, OneMore
    <3>2. PushersOf(r) # {} => Cardinality(PushersOf(r)) > 0
      BY <1>c, PushersCount, FS_EmptySet
    <3>3. PICK k \in Nat, fk \in Nat, t \in Nat :
            k = Cardinality(PushersOf(r)) /\ fk = faults * k /\ t = Cardinality(Trimmers(r)')
      BY <1>c
    <3>4. Len(list[r]) <= QueueSize + Cardinality(Trimmers(r)) + fk /\ Cardinality(Trimmers(r)) <= k
      BY <1>c, <1>i, <3>3
    <3>5. CASE Len(list'[r]) <= Len(list[r])
      <4>1. Len(list'[r]) <= QueueSize + t + (fk + k)
        <5>1. PICK q, u, v, w \in Nat : /\ q = QueueSize /\ u = Len(list'[r]) /\ v = Len(list[r])
                                        /\ w = Cardinality(Trimmers(r))
          BY <1>n, <1>c
        <5>2. u <= v /\ v <= q + w + fk /\ w <= k BY <3>4, <3>5, <5>1
        <5>3. u <= q + t + (fk + k) BY <5>2
        <5> QED BY <5>1, <5>3
      <4> QED BY <3>1, <3>3, <4>1
    <3>6. CASE Len(list'[r]) = Len(list[r]) + 1 /\ PushersOf(r) # {} /\ Trimmers(r)' = Trimmers(r)
      <4>1. k > 0 /\ t = Cardinality(Trimmers(r)) BY <3>2, <3>3, <3>6
      <4>2. Len(list'[r]) <= QueueSize + t + (fk + k) BY <1>n, <3>4, <3>6, <4>1
      <4> QED BY <3>1, <3>3, <4>2
    <3> QED BY <1>f, <3>5, <3>6
  <2> QED BY <1>f, <2>1 DEF LengthInv, PushersOf
<1>u. ASSUME faults <= faults', \A r \in Redises : Trimmers(r)' = Trimmers(r) /\ Len(list'[r]) <= Len(list[r])
      PROVE  LengthInv'
  <2>1. ASSUME NEW r \in Redises
        PROVE  Len(list'[r]) <= QueueSize + Cardinality(Trimmers(r)') + faults' * Cardinality(PushersOf(r))
    <3>1. faults' * Cardinality(PushersOf(r)) >= faults * Cardinality(PushersOf(r))
      BY <1>n, <1>c, <1>u, MoreFaults
    <3>2. faults' * Cardinality(PushersOf(r)) \in Nat BY <1>n, <1>c, OneMore
    <3>3. PICK fk \in Nat, gk \in Nat :
            fk = faults * Cardinality(PushersOf(r)) /\ gk = faults' * Cardinality(PushersOf(r))
      BY <1>c, <3>2
    <3>4. Len(list[r]) <= QueueSize + Cardinality(Trimmers(r)) + fk /\ fk <= gk BY <1>i, <3>1, <3>3
    <3>5. Len(list'[r]) <= QueueSize + Cardinality(Trimmers(r)) + gk
      <4>1. PICK q, u, v, w \in Nat : /\ q = QueueSize /\ u = Len(list'[r]) /\ v = Len(list[r])
                                      /\ w = Cardinality(Trimmers(r))
        BY <1>n, <1>c
      <4>2. u <= v /\ v <= q + w + fk /\ fk <= gk BY <1>u, <3>4, <4>1
      <4>3. u <= q + w + gk BY <4>2
      <4> QED BY <4>1, <4>3
    <3> QED BY <1>u, <3>3, <3>5
  <2> QED BY <2>1 DEF LengthInv, PushersOf
<1>1. CASE Aside
  <2>1. \A r \in Redises : Trimmers(r)' = Trimmers(r) BY <1>1 DEF Aside, Trimmers, PushersOf
  <2>2. \A r \in Redises : Len(list'[r]) <= Len(list[r])
    <3>1. CASE UNCHANGED list BY <3>1, <1>n
    <3>2. CASE list["private"] # <<>> /\ list' = [list EXCEPT !["private"] = Tail(@)]
      <4>1. Len(Tail(list["private"])) <= Len(list["private"]) BY <3>2, <1>n DEF Redises
      <4> QED BY <3>2, <1>n, <4>1 DEF LogTypeOK
    <3> QED BY <1>1, <3>1, <3>2 DEF Aside
  <2>3. faults <= faults' BY <1>1, <1>n DEF Aside, Fault
  <2> QED BY <2>1, <2>2, <2>3, <1>u
<1>2. ASSUME NEW a \in Agents, PusherStep(a) PROVE LengthInv'
  <2>1. \A b \in Agents : b # a => pusher'[b] = pusher[b] /\ conn'[b] = conn[b]
    <3>1. \A b \in Agents : b # a => pusher'[b] = pusher[b] BY <1>2, PusherPlaces
    <3> QED BY <1>2, <3>1 DEF PusherStep, Get, Receive, RPush, RPushFails, LTrim, LogTypeOK
  <2>2. faults' = faults BY <1>2 DEF PusherStep, Get, Receive, RPush, RPushFails, LTrim, PusherOnly
  <2>3. RedisOf(a) \in Redises BY DEF RedisOf, Redises
  <2>4. \A r \in Redises : r # RedisOf(a) => Trimmers(r)' = Trimmers(r)
    BY <2>1 DEF Trimmers, PushersOf
  <2>5. CASE Get(a) \/ Receive(a) \/ RPushFails(a)
    <3>1. pusher[a].pc # "ltrim" BY <2>5 DEF Get, Receive, RPushFails, PusherAt
    <3>2. \/ pusher'[a] = [pc |-> "wait", rec |-> {}]
          \/ pusher'[a] = [pc |-> "rpush", rec |-> {Head(ch[a])}]
          \/ pusher'[a] = [pc |-> "get", rec |-> {}]
      BY <1>2, <2>5, PusherPlaces
    <3>3. pusher'[a].pc # "ltrim" BY <3>2
    <3>4. \A r \in Redises : Trimmers(r)' = Trimmers(r) BY <2>1, <3>1, <3>3 DEF Trimmers, PushersOf
    <3>5. list' = list BY <2>5 DEF Get, Receive, RPushFails
    <3> QED BY <1>n, <1>u, <2>2, <3>4, <3>5
  <2>6. CASE RPush(a)
    <3>1. pusher'[a].pc = "ltrim" /\ conn'[a] = "ok" /\ pusher[a].pc # "ltrim"
      <4>1. pusher'[a] = [pc |-> "ltrim", rec |-> {}] BY <1>2, <2>6, PusherPlaces
      <4> QED BY <2>6, <4>1 DEF RPush, PusherAt
    <3>2. Trimmers(RedisOf(a))' = Trimmers(RedisOf(a)) \cup {a} /\ a \notin Trimmers(RedisOf(a))
      BY <2>1, <3>1 DEF Trimmers, PushersOf
    <3>3. Cardinality(Trimmers(RedisOf(a))') = Cardinality(Trimmers(RedisOf(a))) + 1
      BY <1>c, <2>3, <3>2, FS_AddElement
    <3>4. /\ Len(list'[RedisOf(a)]) = Len(list[RedisOf(a)]) + 1
          /\ \A r \in Redises : r # RedisOf(a) => list'[r] = list[r]
      <4>1. PICK m \in Msgs : pusher[a].rec = {m} BY <2>6 DEF RPush, PusherAt, RecordInv
      <4>2. list' = [list EXCEPT ![RedisOf(a)] = Append(@, m)] BY <2>6, <4>1, TheRecordIs DEF RPush, Pushed
      <4> QED BY <2>3, <4>2 DEF LogTypeOK
    <3>5. ASSUME NEW r \in Redises
          PROVE  Len(list'[r]) <= QueueSize + Cardinality(Trimmers(r)') + faults * Cardinality(PushersOf(r))
      <4>1. CASE r = RedisOf(a)
        <5>1. PICK k \in Nat : k = faults * Cardinality(PushersOf(r)) BY <1>c
        <5>2. PICK t \in Nat : t = Cardinality(Trimmers(r)) BY <1>c
        <5>3. Len(list[r]) <= QueueSize + t + k BY <1>i, <5>1, <5>2
        <5>4. Cardinality(Trimmers(r)') = t + 1 BY <3>3, <4>1, <5>2
        <5>5. Len(list'[r]) = Len(list[r]) + 1 /\ Len(list[r]) \in Nat BY <1>n, <3>4, <4>1
        <5>6. Len(list'[r]) <= QueueSize + (t + 1) + k BY <1>n, <5>3, <5>5
        <5> QED BY <5>1, <5>4, <5>6
      <4>2. CASE r # RedisOf(a) BY <1>i, <2>4, <3>4, <4>2
      <4> QED BY <4>1, <4>2
    <3> QED BY <2>2, <3>5 DEF LengthInv, PushersOf
  <2>7. CASE LTrim(a) /\ conn[a] = "ok"
    <3>1. list' = [list EXCEPT ![RedisOf(a)] = Trimmed(@)] BY <2>7 DEF LTrim
    <3>2. Len(list'[RedisOf(a)]) <= QueueSize BY <1>n, <2>3, <3>1, TrimmedType DEF LogTypeOK
    <3>3. \A r \in Redises : r # RedisOf(a) => list'[r] = list[r] BY <3>1 DEF LogTypeOK
    <3>4. ASSUME NEW r \in Redises
          PROVE  Len(list'[r]) <= QueueSize + Cardinality(Trimmers(r)') + faults * Cardinality(PushersOf(r))
      <4>1. CASE r = RedisOf(a) BY <1>n, <1>c, <3>2, <4>1
      <4>2. CASE r # RedisOf(a) BY <1>i, <2>4, <3>3, <4>2
      <4> QED BY <4>1, <4>2
    <3> QED BY <2>2, <3>4 DEF LengthInv, PushersOf
  <2>8. CASE LTrim(a) /\ conn[a] # "ok"
    <3>1. list' = list /\ conn' = conn BY <2>8 DEF LTrim
    <3>2. \A r \in Redises : Trimmers(r)' = Trimmers(r) BY <2>1, <2>8, <3>1 DEF Trimmers, PushersOf
    <3> QED BY <1>n, <1>u, <2>2, <3>1, <3>2
  <2> QED BY <1>2, <2>5, <2>6, <2>7, <2>8 DEF PusherStep
<1>3. ASSUME NEW a \in Agents, RPushUnanswered(a) PROVE LengthInv'
  <2>1. RedisOf(a) \in Redises /\ a \in PushersOf(RedisOf(a)) BY DEF RedisOf, Redises, PushersOf
  <2>2. faults' = faults + 1 /\ pusher' = pusher /\ pusher[a].pc = "rpush"
    BY <1>3 DEF RPushUnanswered, Fault, PusherAt
  <2>3. \A b \in Agents : b # a => conn'[b] = conn[b] BY <1>3 DEF RPushUnanswered, LogTypeOK
  <2>4. \A r \in Redises : Trimmers(r)' = Trimmers(r) BY <2>2, <2>3 DEF Trimmers, PushersOf
  <2>5. /\ Len(list'[RedisOf(a)]) = Len(list[RedisOf(a)]) + 1
        /\ \A r \in Redises : r # RedisOf(a) => list'[r] = list[r]
    <3>1. PICK m \in Msgs : pusher[a].rec = {m} BY <2>2 DEF RecordInv
    <3>2. list' = [list EXCEPT ![RedisOf(a)] = Append(@, m)]
      BY <1>3, <3>1, TheRecordIs DEF RPushUnanswered, Pushed
    <3> QED BY <2>1, <3>2 DEF LogTypeOK
  <2> QED BY <1>f, <1>n, <2>1, <2>2, <2>4, <2>5
<1>4. ASSUME NEW r \in Redises, RedisFails(r) PROVE LengthInv'
  <2>1. faults' = faults + 1 BY <1>4 DEF RedisFails, Fault
  <2>2. PICK left \in {list[r], <<>>} : list' = [list EXCEPT ![r] = left] BY <1>4 DEF RedisFails
  <2>3. \A q \in Redises : Len(list'[q]) <= Len(list[q]) BY <1>n, <2>2 DEF LogTypeOK
  <2> QED BY <1>f, <2>1, <2>3
<1>5. ASSUME NEW r \in Redises, RedisReturns(r) PROVE LengthInv'
  <2>1. UNCHANGED <<faults, list, pusher, conn>> BY <1>5 DEF RedisReturns
  <2>2. \A q \in Redises : Trimmers(q)' = Trimmers(q) BY <2>1 DEF Trimmers, PushersOf
  <2> QED BY <1>u, <1>n, <2>1, <2>2
<1>6. ASSUME NEW a \in Cores, CoreEnds(a) PROVE LengthInv'
  <2>1. faults' = faults + 1 /\ list' = list BY <1>6 DEF CoreEnds, Fault
  <2> QED BY <1>f, <1>n, <2>1
<1> QED BY <1>1, <1>2, <1>3, <1>4, <1>5, <1>6, LogStepKinds

-----------------------------------------------------------------------------
(* Counting                                                                *)

\* How often something is in a sequence is a number, and not 0 if it is there.
LEMMA TimesType ==
    ASSUME NEW T, NEW s \in Seq(T), NEW m
    PROVE  /\ IsFiniteSet({i \in DOMAIN s : s[i] = m}) /\ Times(m, s) \in Nat
           /\ Times(m, s) > 0 <=> \E i \in DOMAIN s : s[i] = m
<1> DEFINE D == {i \in DOMAIN s : s[i] = m}
<1>1. IsFiniteSet(DOMAIN s) BY FS_Interval
<1>2. IsFiniteSet(D) BY <1>1, FS_Subset
<1>3. Cardinality(D) \in Nat BY <1>2, FS_CardinalityType
<1>4. Cardinality(D) = 0 <=> D = {} BY <1>2, FS_EmptySet
<1>5. Times(m, s) = Cardinality(D) BY DEF Times
<1>6. D # {} <=> \E i \in DOMAIN s : s[i] = m OBVIOUS
<1> QED BY <1>2, <1>3, <1>4, <1>5, <1>6

\* Nothing is in the empty sequence.
LEMMA TimesEmpty == \A m : Times(m, <<>>) = 0
<1>1. \A m : {i \in DOMAIN <<>> : <<>>[i] = m} = {} OBVIOUS
<1> QED BY <1>1, FS_EmptySet DEF Times

\* What is appended is there once more.
LEMMA TimesAppend ==
    ASSUME NEW T, NEW s \in Seq(T), NEW x \in T, NEW m
    PROVE  Times(m, Append(s, x)) = Times(m, s) + (IF x = m THEN 1 ELSE 0)
<1> DEFINE D == {i \in DOMAIN s : s[i] = m}
           E == {i \in DOMAIN Append(s, x) : Append(s, x)[i] = m}
<1>1. IsFiniteSet(D) /\ Cardinality(D) \in Nat BY TimesType DEF Times
<1>t. Times(m, s) = Cardinality(D) /\ Times(m, Append(s, x)) = Cardinality(E) BY DEF Times
<1>2. CASE x = m
  <2>1. E = D \cup {Len(s) + 1} /\ Len(s) + 1 \notin D BY <1>2
  <2>2. Cardinality(E) = Cardinality(D) + 1 BY <1>1, <2>1, FS_AddElement
  <2> HIDE DEF D, E
  <2> QED BY <1>t, <1>2, <2>2
<1>3. CASE x # m
  <2>1. E = D BY <1>3
  <2> HIDE DEF D, E
  <2> QED BY <1>t, <1>1, <1>3, <2>1
<1> QED BY <1>2, <1>3

\* A sequence that is another one from some place on has of each thing at most as many.
LEMMA TimesSuffix ==
    ASSUME NEW T, NEW s \in Seq(T), NEW t \in Seq(T), NEW k \in Nat, Len(s) = Len(t) + k,
           \A i \in 1 .. Len(t) : t[i] = s[i + k], NEW m
    PROVE  /\ Times(m, t) <= Times(m, s)
           /\ (\A i \in 1 .. k : s[i] # m) => Times(m, t) = Times(m, s)
<1> DEFINE D == {i \in DOMAIN s : s[i] = m}
           E == {i \in DOMAIN t : t[i] = m}
           f == [i \in E |-> i + k]
<1>1. IsFiniteSet(D) /\ IsFiniteSet(E) BY TimesType
<1>2. f \in Injection(E, D) BY DEF Injection, IsInjective
<1>3. Cardinality(E) <= Cardinality(D) BY <1>1, <1>2, FS_Injection
<1>4. ASSUME \A i \in 1 .. k : s[i] # m PROVE Cardinality(E) = Cardinality(D)
  <2>1. ASSUME NEW j \in D PROVE \E i \in E : f[i] = j
    <3>1. j \in 1 .. Len(s) /\ j > k BY <1>4
    <3>2. j - k \in 1 .. Len(t) /\ (j - k) + k = j BY <3>1
    <3>3. t[j - k] = s[j] BY <3>2
    <3>4. j - k \in E BY <3>2, <3>3
    <3> QED BY <3>2, <3>4
  <2>2. f \in Surjection(E, D) BY <1>2, <2>1 DEF Surjection, Injection
  <2> QED BY <1>1, <1>2, <2>2, FS_Injection
<1> QED BY <1>3, <1>4 DEF Times

\* Without its head, a sequence has the head once less, and of the others as many.
LEMMA TimesTail ==
    ASSUME NEW T, NEW s \in Seq(T), s # <<>>, NEW m
    PROVE  /\ Tail(s) \in Seq(T) /\ Head(s) \in T
           /\ Times(m, s) = Times(m, Tail(s)) + (IF Head(s) = m THEN 1 ELSE 0)
<1> DEFINE t == Tail(s)
           D == {i \in DOMAIN s : s[i] = m}
           E == {i \in DOMAIN t : t[i] = m}
           f == [i \in E |-> i + 1]
<1>1. /\ t \in Seq(T) /\ Head(s) \in T /\ Head(s) = s[1] /\ Len(s) = Len(t) + 1 /\ Len(t) \in Nat
      /\ \A i \in 1 .. Len(t) : t[i] = s[i + 1]
  OBVIOUS
<1>2. IsFiniteSet(D) /\ IsFiniteSet(E) /\ Cardinality(E) \in Nat BY <1>1, TimesType DEF Times
<1>3. IsFiniteSet(D \ {1}) BY <1>2, FS_RemoveElement
<1>4. f \in Bijection(E, D \ {1})
  <2>1. f \in [E -> D \ {1}] BY <1>1
  <2>2. \A i, j \in E : f[i] = f[j] => i = j BY <1>1
  <2>3. ASSUME NEW j \in D \ {1} PROVE \E i \in E : f[i] = j
    <3>1. j \in 1 .. Len(s) /\ j > 1 OBVIOUS
    <3>2. j - 1 \in E /\ f[j - 1] = j BY <1>1, <3>1
    <3> QED BY <3>2
  <2> QED BY <2>1, <2>2, <2>3 DEF Bijection, Injection, IsInjective, Surjection
<1>e. ExistsBijection(E, D \ {1}) BY <1>4 DEF ExistsBijection
<1>5. Cardinality(D \ {1}) = Cardinality(E)
  <2> HIDE DEF D, E, f
  <2> QED BY <1>2, <1>e, FS_Bijection
<1>6. Cardinality(D \ {1}) = IF 1 \in D THEN Cardinality(D) - 1 ELSE Cardinality(D) BY <1>2, FS_RemoveElement
<1>7. 1 \in D <=> Head(s) = m BY <1>1
<1>8. Cardinality(D) \in Nat BY <1>2, FS_CardinalityType
<1> HIDE DEF D, E, f
<1>9. Cardinality(D) = Cardinality(E) + (IF Head(s) = m THEN 1 ELSE 0) BY <1>2, <1>5, <1>6, <1>7, <1>8
<1>10. Times(m, s) = Cardinality(D) /\ Times(m, t) = Cardinality(E) BY DEF Times, D, E
<1> QED BY <1>1, <1>9, <1>10

\* t is what s ends with.
EndOf(t, s) == \E k \in Nat : Len(s) = Len(t) + k /\ \A i \in 1 .. Len(t) : t[i] = s[i + k]

\* A sequence ends with itself.
LEMMA EndSelf == \A s \in Seq(Msgs) : EndOf(s, s)
<1> SUFFICES ASSUME NEW s \in Seq(Msgs) PROVE EndOf(s, s)
  OBVIOUS
<1>1. Len(s) = Len(s) + 0 /\ \A i \in 1 .. Len(s) : s[i] = s[i + 0] OBVIOUS
<1> QED BY <1>1 DEF EndOf

\* What the end of a sequence ends with, the sequence ends with.
LEMMA EndTransitive ==
    ASSUME NEW s \in Seq(Msgs), NEW t \in Seq(Msgs), NEW u \in Seq(Msgs), EndOf(t, s), EndOf(u, t)
    PROVE  EndOf(u, s)
<1>1. PICK k \in Nat : Len(s) = Len(t) + k /\ \A i \in 1 .. Len(t) : t[i] = s[i + k] BY DEF EndOf
<1>2. PICK j \in Nat : Len(t) = Len(u) + j /\ \A i \in 1 .. Len(u) : u[i] = t[i + j] BY DEF EndOf
<1>3. Len(s) = Len(u) + (j + k) /\ j + k \in Nat BY <1>1, <1>2
<1>4. ASSUME NEW i \in 1 .. Len(u) PROVE u[i] = s[i + (j + k)]
  <2>1. i + j \in 1 .. Len(t) /\ (i + j) + k = i + (j + k) BY <1>1, <1>2
  <2>2. t[i + j] = s[(i + j) + k] BY <1>1, <2>1
  <2> QED BY <1>2, <2>1, <2>2
<1> QED BY <1>3, <1>4 DEF EndOf

\* When both get the same record, the one is still the end of the other.
LEMMA EndGrows ==
    ASSUME NEW s \in Seq(Msgs), NEW t \in Seq(Msgs), EndOf(t, s), NEW x \in Msgs
    PROVE  EndOf(Append(t, x), Append(s, x))
<1>1. PICK k \in Nat : Len(s) = Len(t) + k /\ \A i \in 1 .. Len(t) : t[i] = s[i + k] BY DEF EndOf
<1>2. Len(Append(s, x)) = Len(s) + 1 /\ Len(Append(t, x)) = Len(t) + 1 /\ Len(t) \in Nat OBVIOUS
<1>3. ASSUME NEW i \in 1 .. (Len(t) + 1) PROVE Append(t, x)[i] = Append(s, x)[i + k]
  <2>1. CASE i \in 1 .. Len(t)
    <3>1. i + k \in 1 .. Len(s) BY <1>1, <1>2, <2>1
    <3>2. Append(s, x)[i + k] = s[i + k] BY <3>1
    <3>3. Append(t, x)[i] = t[i] BY <2>1
    <3> QED BY <1>1, <2>1, <3>2, <3>3
  <2>2. CASE i = Len(t) + 1
    <3>1. i + k = Len(s) + 1 BY <1>1, <1>2, <2>2
    <3> QED BY <2>2, <3>1
  <2>3. i \in 1 .. Len(t) \/ i = Len(t) + 1 BY <1>2
  <2> QED BY <2>1, <2>2, <2>3
<1>4. Len(Append(s, x)) = Len(Append(t, x)) + k BY <1>1, <1>2
<1> QED BY <1>2, <1>3, <1>4 DEF EndOf

\* A sequence ends with what follows its head.
LEMMA EndTail == \A s \in Seq(Msgs) : s # <<>> => EndOf(Tail(s), s)
<1> SUFFICES ASSUME NEW s \in Seq(Msgs), s # <<>> PROVE EndOf(Tail(s), s)
  OBVIOUS
<1>1. Len(s) = Len(Tail(s)) + 1 /\ \A i \in 1 .. Len(Tail(s)) : Tail(s)[i] = s[i + 1] OBVIOUS
<1> QED BY <1>1 DEF EndOf

\* LTRIM drops the oldest records, if any.
LEMMA TrimmedIs ==
    ASSUME NEW s \in Seq(Msgs)
    PROVE  \E k \in Nat : /\ Len(s) = Len(Trimmed(s)) + k
                          /\ \A i \in 1 .. Len(Trimmed(s)) : Trimmed(s)[i] = s[i + k]
                          /\ \A i \in 1 .. k : Len(s) - i >= QueueSize /\ i \in DOMAIN s
<1>1. QueueSize \in Nat BY LogsAssumption
<1>2. CASE Len(s) > QueueSize
  <2>1. Trimmed(s) = SubSeq(s, Len(s) - QueueSize + 1, Len(s)) BY <1>2 DEF Trimmed
  <2>2. Len(s) - QueueSize \in Nat BY <1>1, <1>2
  <2>3. Len(s) = Len(Trimmed(s)) + (Len(s) - QueueSize) BY <1>1, <1>2, <2>1
  <2>4. \A i \in 1 .. Len(Trimmed(s)) : Trimmed(s)[i] = s[i + (Len(s) - QueueSize)] BY <1>1, <1>2, <2>1
  <2>5. \A i \in 1 .. (Len(s) - QueueSize) : Len(s) - i >= QueueSize /\ i \in DOMAIN s BY <1>1, <1>2
  <2> QED BY <2>2, <2>3, <2>4, <2>5
<1>3. CASE ~(Len(s) > QueueSize)
  <2>1. Trimmed(s) = s BY <1>1, <1>3 DEF Trimmed
  <2>2. /\ Len(s) = Len(Trimmed(s)) + 0
        /\ \A i \in 1 .. Len(Trimmed(s)) : Trimmed(s)[i] = s[i + 0]
        /\ \A i \in 1 .. 0 : Len(s) - i >= QueueSize /\ i \in DOMAIN s
    BY <2>1
  <2> QED BY <2>2
<1> QED BY <1>2, <1>3

\* What LTRIM leaves is the end of the list.
LEMMA EndTrimmed == \A s \in Seq(Msgs) : EndOf(Trimmed(s), s)
  BY TrimmedIs DEF EndOf

\* LTRIM drops a record only if QueueSize newer ones follow it.
LEMMA TimesTrimmed ==
    ASSUME NEW s \in Seq(Msgs), NEW m
    PROVE  /\ Times(m, Trimmed(s)) <= Times(m, s)
           /\ \/ Times(m, Trimmed(s)) = Times(m, s)
              \/ \E i \in DOMAIN s : s[i] = m /\ Len(s) - i >= QueueSize
<1>1. PICK k \in Nat : /\ Len(s) = Len(Trimmed(s)) + k
                       /\ \A i \in 1 .. Len(Trimmed(s)) : Trimmed(s)[i] = s[i + k]
                       /\ \A i \in 1 .. k : Len(s) - i >= QueueSize /\ i \in DOMAIN s
  BY TrimmedIs
<1>2. Trimmed(s) \in Seq(Msgs) BY TrimmedType
<1>3. /\ Times(m, Trimmed(s)) <= Times(m, s)
      /\ (\A i \in 1 .. k : s[i] # m) => Times(m, Trimmed(s)) = Times(m, s)
  BY <1>1, <1>2, TimesSuffix
<1> QED BY <1>1, <1>3

\* What is old in the end of a sequence is as old in the sequence.
LEMMA OldInEnd ==
    ASSUME NEW s \in Seq(Msgs), NEW t \in Seq(Msgs), EndOf(t, s), NEW i \in DOMAIN t, NEW m, t[i] = m,
           Len(t) - i >= QueueSize
    PROVE  \E j \in DOMAIN s : s[j] = m /\ Len(s) - j >= QueueSize
<1>1. PICK k \in Nat : Len(s) = Len(t) + k /\ \A n \in 1 .. Len(t) : t[n] = s[n + k] BY DEF EndOf
<1>2. i \in 1 .. Len(t) /\ Len(t) \in Nat /\ QueueSize \in Nat BY LogsAssumption
<1>3. i + k \in DOMAIN s /\ Len(s) - (i + k) = Len(t) - i BY <1>1, <1>2
<1>4. s[i + k] = m BY <1>1, <1>2
<1> QED BY <1>3, <1>4

-----------------------------------------------------------------------------
(* The way of a message                                                    *)

\* What a container has on its way out is its own, and what is in the private list is of a
\* container.
HomeInv ==
    \A m \in Msgs :
        /\ \A a \in Cores : Times(m, ch[a]) > 0 \/ m \in pusher[a].rec => From[m] = a
        /\ Times(m, list["private"]) > 0 => From[m] \in Cores

\* Without faults every connection a pusher uses works.
ConnInv == faults = 0 => up = Redises /\ \A a \in Agents : pusher[a].pc # "get" => conn[a] = "ok"

\* Without faults a list is the end of what was ever pushed to it.
SuffixInv == faults = 0 => \A r \in Redises : EndOf(list[r], pushed[r])

CountInv == \A m \in Msgs : In(m, toLog) + ToPublic(m) <= 1 /\ In(m, toLog) + ToDatabase(m) <= 1

Stored(m) ==
    \/ ToDatabase(m) >= 1
    \/ CommandOf[m] = NoId \/ Outdated(m, "private")
    \/ \E n \in db \ {m} : Key(n) = Key(m)

Published(m) == ToPublic(m) >= 1 \/ ~hasPublic \/ \E r \in Redises : Outdated(m, r)

LostInv == \A m \in written : Accepted(m) /\ faults = 0 => Stored(m) /\ Published(m)

Queued(m, a) == In(m, {n \in sending : From[n] = a})
InHand(m, a) == In(m, IF conn[a] = "ok" THEN pusher[a].rec ELSE {})

\* The parts of a count.
LEMMA OnParts ==
    ASSUME LogTypeOK, LogTypeOK', NEW m \in Msgs, NEW a \in Agents
    PROVE  /\ RedisOf(a) \in Redises
           /\ On(m, a) = Queued(m, a) + Times(m, ch[a]) + Times(m, list[RedisOf(a)]) + InHand(m, a)
           /\ On(m, a)' = Queued(m, a)' + Times(m, ch'[a]) + Times(m, list'[RedisOf(a)]) + InHand(m, a)'
           /\ Queued(m, a) \in {0, 1} /\ Queued(m, a)' \in {0, 1}
           /\ InHand(m, a) \in {0, 1} /\ InHand(m, a)' \in {0, 1}
           /\ Times(m, ch[a]) \in Nat /\ Times(m, ch'[a]) \in Nat
           /\ Times(m, list[RedisOf(a)]) \in Nat /\ Times(m, list'[RedisOf(a)]) \in Nat
           /\ On(m, a) \in Nat /\ On(m, a)' \in Nat
<1>1. RedisOf(a) \in Redises BY DEF RedisOf, Redises
<1>2. /\ ch[a] \in Seq(Msgs) /\ ch'[a] \in Seq(Msgs)
      /\ list[RedisOf(a)] \in Seq(Msgs) /\ list'[RedisOf(a)] \in Seq(Msgs)
  BY <1>1 DEF LogTypeOK
<1>3. /\ Times(m, ch[a]) \in Nat /\ Times(m, ch'[a]) \in Nat
      /\ Times(m, list[RedisOf(a)]) \in Nat /\ Times(m, list'[RedisOf(a)]) \in Nat
  BY <1>2, TimesType
<1>4. On(m, a) = Queued(m, a) + Times(m, ch[a]) + Times(m, list[RedisOf(a)]) + InHand(m, a)
  BY DEF On, Queued, InHand
<1>5. On(m, a)' = Queued(m, a)' + Times(m, ch'[a]) + Times(m, list'[RedisOf(a)]) + InHand(m, a)'
  BY DEF On, Queued, InHand, RedisOf, Times
<1>6. /\ Queued(m, a) \in {0, 1} /\ Queued(m, a)' \in {0, 1}
      /\ InHand(m, a) \in {0, 1} /\ InHand(m, a)' \in {0, 1}
  BY DEF Queued, InHand, In
<1> QED BY <1>1, <1>3, <1>4, <1>5, <1>6

\* A record goes to the end of a channel, or of a list.
LEMMA ChannelGrows ==
    ASSUME LogTypeOK, NEW a \in Agents, NEW x \in Msgs, ch' = [ch EXCEPT ![a] = Append(@, x)], NEW m
    PROVE  /\ Times(m, ch'[a]) = Times(m, ch[a]) + (IF x = m THEN 1 ELSE 0)
           /\ \A b \in Agents : b # a => ch'[b] = ch[b]
<1>1. ch[a] \in Seq(Msgs) /\ ch'[a] = Append(ch[a], x) BY DEF LogTypeOK
<1>2. Times(m, ch'[a]) = Times(m, ch[a]) + (IF x = m THEN 1 ELSE 0) BY <1>1, TimesAppend
<1> QED BY <1>2 DEF LogTypeOK

\* Redis executes an RPUSH: the record is at the end of the list, and of what was pushed.
LEMMA ListGrows ==
    ASSUME LogTypeOK, RecordInv, NEW a \in Agents, RPush(a) \/ RPushUnanswered(a)
    PROVE  \E x \in Msgs :
              /\ pusher[a].rec = {x} /\ conn[a] = "ok"
              /\ \A m : Times(m, list'[RedisOf(a)]) = Times(m, list[RedisOf(a)]) + (IF x = m THEN 1 ELSE 0)
              /\ list'[RedisOf(a)] = Append(list[RedisOf(a)], x)
              /\ pushed'[RedisOf(a)] = Append(pushed[RedisOf(a)], x)
              /\ \A r \in Redises : r # RedisOf(a) => list'[r] = list[r] /\ pushed'[r] = pushed[r]
<1>1. PICK x \in Msgs : pusher[a].rec = {x} BY DEF RPush, RPushUnanswered, PusherAt, RecordInv
<1>2. RedisOf(a) \in Redises BY DEF RedisOf, Redises
<1>3. /\ list' = [list EXCEPT ![RedisOf(a)] = Append(@, x)]
      /\ pushed' = [pushed EXCEPT ![RedisOf(a)] = Append(@, x)]
  BY <1>1, TheRecordIs DEF RPush, RPushUnanswered, Pushed
<1>4. /\ list[RedisOf(a)] \in Seq(Msgs) /\ list'[RedisOf(a)] = Append(list[RedisOf(a)], x)
      /\ pushed'[RedisOf(a)] = Append(pushed[RedisOf(a)], x)
  BY <1>2, <1>3 DEF LogTypeOK
<1>5. \A m : Times(m, list'[RedisOf(a)]) = Times(m, list[RedisOf(a)]) + (IF x = m THEN 1 ELSE 0)
  BY <1>4, TimesAppend
<1>6. \A r \in Redises : r # RedisOf(a) => list'[r] = list[r] /\ pushed'[r] = pushed[r]
  BY <1>3 DEF LogTypeOK
<1> QED BY <1>1, <1>4, <1>5, <1>6 DEF RPush, RPushUnanswered

\* What was pushed stays pushed, so what is outdated stays so.
LEMMA OutdatedStays ==
    ASSUME LogTypeOK, RecordInv, [LogNext]_logVars, NEW m \in Msgs, NEW r \in Redises, Outdated(m, r)
    PROVE  Outdated(m, r)'
<1>1. CASE pushed' = pushed BY <1>1 DEF Outdated
<1>2. ASSUME NEW a \in Agents, RPush(a) \/ RPushUnanswered(a) PROVE Outdated(m, r)'
  <2>1. PICK x \in Msgs : /\ pushed'[RedisOf(a)] = Append(pushed[RedisOf(a)], x)
                          /\ \A q \in Redises : q # RedisOf(a) => pushed'[q] = pushed[q]
    BY <1>2, ListGrows
  <2>2. PICK i \in DOMAIN pushed[r] : pushed[r][i] = m /\ Len(pushed[r]) - i >= QueueSize BY DEF Outdated
  <2>3. pushed[r] \in Seq(Msgs) /\ QueueSize \in Nat BY LogsAssumption DEF LogTypeOK
  <2>4. /\ i \in DOMAIN pushed'[r] /\ pushed'[r][i] = m /\ Len(pushed'[r]) - i >= QueueSize
    <3>1. CASE r = RedisOf(a)
      <4>1. pushed'[r] = Append(pushed[r], x) BY <2>1, <3>1
      <4>2. /\ Len(Append(pushed[r], x)) = Len(pushed[r]) + 1 /\ i \in DOMAIN Append(pushed[r], x)
            /\ Append(pushed[r], x)[i] = pushed[r][i] /\ Len(pushed[r]) \in Nat /\ i \in Nat
        BY <2>3
      <4> QED BY <2>2, <2>3, <4>1, <4>2
    <3>2. CASE r # RedisOf(a) BY <2>1, <2>2, <3>2
    <3> QED BY <3>1, <3>2
  <2> QED BY <2>4 DEF Outdated
<1>3. pushed' = pushed \/ \E a \in Agents : RPush(a) \/ RPushUnanswered(a)
  BY DEF LogNext, Write, LogInContainer, LogInCore0, LogLogic, Send, Store, PusherStep, Get, Receive,
     RPushFails, LTrim, ForwarderStep, Dial, Forward, Resend, ForwardFails, FaultStep, RedisFails,
     RedisReturns, BLPopUnanswered, CoreEnds, logVars
<1> QED BY <1>1, <1>2, <1>3

\* Faults do not become fewer.
LEMMA FaultsGrow ==
    ASSUME LogTypeOK, [LogNext]_logVars, faults' = 0
    PROVE  faults = 0
<1>1. faults \in Nat BY LogsAssumption DEF LogTypeOK
<1>2. faults' = faults \/ faults' = faults + 1
  BY DEF LogNext, Write, LogInContainer, LogInCore0, LogLogic, Send, Store, PusherStep, Get, Receive, RPush,
     RPushFails, LTrim, PusherOnly, ForwarderStep, Dial, Forward, Resend, ForwardFails, FaultStep, RedisFails,
     RedisReturns, BLPopUnanswered, RPushUnanswered, CoreEnds, Fault, logVars
<1> QED BY <1>1, <1>2

\* Without faults, connections work and lists end as what was pushed.
LEMMA ConnStep ==
    ASSUME LogTypeOK, LogTypeOK', RecordInv, ConnInv, [LogNext]_logVars
    PROVE  ConnInv'
<1>n. faults \in Nat BY LogsAssumption DEF LogTypeOK
<1> SUFFICES ASSUME faults' = 0 PROVE up' = Redises /\ \A a \in Agents : pusher'[a].pc # "get" => conn'[a] = "ok"
  BY DEF ConnInv
<1>1. CASE Aside
  <2>1. faults = 0 BY <1>n, <1>1 DEF Aside, Fault
  <2> QED BY <1>1, <2>1 DEF Aside, ConnInv
<1>2. ASSUME NEW a \in Agents, PusherStep(a)
      PROVE up' = Redises /\ \A b \in Agents : pusher'[b].pc # "get" => conn'[b] = "ok"
  <2>1. faults' = faults /\ up' = up
    BY <1>2 DEF PusherStep, Get, Receive, RPush, RPushFails, LTrim, PusherOnly
  <2>2. up = Redises /\ \A b \in Agents : pusher[b].pc # "get" => conn[b] = "ok" BY <2>1 DEF ConnInv
  <2>3. \A b \in Agents : b # a => pusher'[b] = pusher[b] /\ conn'[b] = conn[b]
    <3>1. \A b \in Agents : b # a => pusher'[b] = pusher[b] BY <1>2, PusherPlaces
    <3> QED BY <1>2, <3>1 DEF PusherStep, Get, Receive, RPush, RPushFails, LTrim, LogTypeOK
  <2>4. pusher'[a].pc # "get" => conn'[a] = "ok"
    <3>1. CASE Get(a)
      <4>1. RedisOf(a) \in up BY <2>2 DEF RedisOf, Redises
      <4> QED BY <3>1, <4>1 DEF Get, LogTypeOK
    <3>2. CASE Receive(a) \/ RPush(a) \/ LTrim(a)
      <4>1. conn' = conn /\ pusher[a].pc # "get" BY <3>2 DEF Receive, RPush, LTrim, PusherAt
      <4> QED BY <2>2, <4>1
    <3>3. CASE RPushFails(a)
      <4>1. pusher'[a] = [pc |-> "get", rec |-> {}] BY <1>2, <3>3, PusherPlaces
      <4> QED BY <4>1
    <3> QED BY <1>2, <3>1, <3>2, <3>3 DEF PusherStep
  <2> QED BY <2>1, <2>2, <2>3, <2>4
<1>3. CASE \/ \E a \in Agents : RPushUnanswered(a)
           \/ \E r \in Redises : RedisFails(r)
           \/ \E a \in Cores : CoreEnds(a)
  BY <1>3, <1>n DEF RPushUnanswered, RedisFails, CoreEnds, Fault
<1>4. ASSUME NEW r \in Redises, RedisReturns(r) PROVE FALSE BY <1>4 DEF RedisReturns, ConnInv
<1> QED BY <1>1, <1>2, <1>3, <1>4, LogStepKinds

\* LTRIM and BLPOP take from the front of a list, and a push adds to its end.
LEMMA SuffixStep ==
    ASSUME LogTypeOK, LogTypeOK', RecordInv, SuffixInv, [LogNext]_logVars
    PROVE  SuffixInv'
<1>n. faults \in Nat BY LogsAssumption DEF LogTypeOK
<1>f. SUFFICES ASSUME faults' = 0, NEW r \in Redises PROVE EndOf(list'[r], pushed'[r])
  BY DEF SuffixInv, EndOf
<1>t. /\ list[r] \in Seq(Msgs) /\ pushed[r] \in Seq(Msgs) /\ list'[r] \in Seq(Msgs) /\ pushed'[r] \in Seq(Msgs)
  BY DEF LogTypeOK
<1>1. faults = 0 => EndOf(list[r], pushed[r]) BY DEF SuffixInv
<1>2. ASSUME UNCHANGED <<pushed, faults>>, EndOf(list'[r], list[r]) PROVE EndOf(list'[r], pushed'[r])
  BY <1>f, <1>t, <1>1, <1>2, EndTransitive
<1>3. CASE UNCHANGED <<pushed, list, faults>> BY <1>f, <1>1, <1>3
<1>4. CASE Forward
  <2>1. list["private"] # <<>> /\ UNCHANGED <<pushed, faults>> BY <1>4 DEF Forward
  <2>2. list'["private"] = Tail(list["private"]) /\ \A q \in Redises : q # "private" => list'[q] = list[q]
    BY <1>4 DEF Forward, LogTypeOK, Redises
  <2>3. EndOf(list'[r], list[r]) BY <1>t, <2>1, <2>2, EndSelf, EndTail
  <2> QED BY <1>2, <2>1, <2>3
<1>5. ASSUME NEW a \in Agents, LTrim(a) PROVE EndOf(list'[r], pushed'[r])
  <2>1. UNCHANGED <<pushed, faults>> BY <1>5 DEF LTrim, PusherOnly
  <2>2. list'[r] = list[r] \/ list'[r] = Trimmed(list[r]) BY <1>5 DEF LTrim, LogTypeOK
  <2>3. EndOf(list'[r], list[r]) BY <1>t, <2>2, EndSelf, EndTrimmed
  <2> QED BY <1>2, <2>1, <2>3
<1>6. ASSUME NEW a \in Agents, RPush(a) PROVE EndOf(list'[r], pushed'[r])
  <2>1. PICK x \in Msgs : /\ list'[RedisOf(a)] = Append(list[RedisOf(a)], x)
                          /\ pushed'[RedisOf(a)] = Append(pushed[RedisOf(a)], x)
                          /\ \A q \in Redises : q # RedisOf(a) => list'[q] = list[q] /\ pushed'[q] = pushed[q]
    BY <1>6, ListGrows
  <2>2. faults = 0 BY <1>f, <1>6 DEF RPush, PusherOnly
  <2>3. CASE r = RedisOf(a) BY <1>t, <1>1, <2>1, <2>2, <2>3, EndGrows
  <2>4. CASE r # RedisOf(a) BY <1>1, <2>1, <2>2, <2>4
  <2> QED BY <2>3, <2>4
<1>7. \/ UNCHANGED <<pushed, list, faults>> \/ Fault \/ Forward
      \/ \E a \in Agents : LTrim(a) \/ RPush(a)
  BY DEF LogNext, Write, LogInContainer, LogInCore0, LogLogic, Send, Store, PusherStep, Get, Receive,
     RPushFails, PusherOnly, ForwarderStep, Dial, Resend, ForwardFails, FaultStep, RedisFails,
     RedisReturns, BLPopUnanswered, RPushUnanswered, CoreEnds, logVars
<1>8. ~Fault BY <1>n, <1>f DEF Fault
<1> QED BY <1>3, <1>4, <1>5, <1>6, <1>7, <1>8

\* Channels, records and lists keep to the messages of their agents.
LEMMA HomeStep ==
    ASSUME LogTypeOK, LogTypeOK', RecordInv, HomeInv, [LogNext]_logVars
    PROVE  HomeInv'
<1>c. Core0 \notin Cores /\ Core0 \in Agents /\ Cores \subseteq Agents BY LogsAssumption DEF Agents
<1>r. "private" \in Redises /\ (\A a \in Agents : RedisOf(a) = "private" <=> a # Core0)
  BY DEF Redises, RedisOf
<1> SUFFICES ASSUME NEW m \in Msgs
             PROVE  /\ \A a \in Cores : Times(m, ch'[a]) > 0 \/ m \in pusher'[a].rec => From[m] = a
                    /\ Times(m, list'["private"]) > 0 => From[m] \in Cores
  BY DEF HomeInv, Times
<1>t. /\ \A a \in Agents : ch[a] \in Seq(Msgs) /\ Times(m, ch[a]) \in Nat
      /\ \A q \in Redises : list[q] \in Seq(Msgs) /\ Times(m, list[q]) \in Nat
  BY TimesType DEF LogTypeOK
<1>i. /\ \A a \in Cores : Times(m, ch[a]) > 0 \/ m \in pusher[a].rec => From[m] = a
      /\ Times(m, list["private"]) > 0 => From[m] \in Cores
  BY DEF HomeInv
<1>1. \A a \in Cores : Times(m, ch'[a]) > 0 => From[m] = a
  <2>1. CASE ch' = ch BY <1>i, <2>1
  <2>2. ASSUME NEW x \in Msgs, Send(x), NEW a \in Cores, Times(m, ch'[a]) > 0 PROVE From[m] = a
    <3>1. From[x] \in Agents BY LogsAssumption
    <3>2. ch' = [ch EXCEPT ![From[x]] = Append(@, x)] BY <2>2 DEF Send
    <3>3. /\ Times(m, ch'[From[x]]) = Times(m, ch[From[x]]) + (IF x = m THEN 1 ELSE 0)
          /\ \A b \in Agents : b # From[x] => ch'[b] = ch[b]
      <4>1. ch[From[x]] \in Seq(Msgs) BY <3>1 DEF LogTypeOK
      <4>2. ch'[From[x]] = Append(ch[From[x]], x) /\ \A b \in Agents : b # From[x] => ch'[b] = ch[b]
        BY <3>1, <3>2 DEF LogTypeOK
      <4> QED BY <4>1, <4>2, TimesAppend
    <3> QED BY <1>c, <1>t, <1>i, <2>2, <3>1, <3>3
  <2>3. ASSUME NEW c \in Agents, Receive(c), NEW a \in Cores, Times(m, ch'[a]) > 0 PROVE From[m] = a
    <3>1. ch[c] # <<>> /\ ch'[c] = Tail(ch[c]) /\ \A b \in Agents : b # c => ch'[b] = ch[b]
      BY <2>3 DEF Receive, LogTypeOK
    <3>2. Times(m, ch[c]) = Times(m, Tail(ch[c])) + (IF Head(ch[c]) = m THEN 1 ELSE 0) BY <1>t, <3>1, TimesTail
    <3>3. Times(m, ch'[c]) \in Nat
      <4>1. ch'[c] \in Seq(Msgs) BY DEF LogTypeOK
      <4> QED BY <4>1, TimesType
    <3>4. Times(m, ch[a]) > 0 BY <1>c, <1>t, <2>3, <3>1, <3>2, <3>3
    <3> QED BY <1>i, <3>4
  <2>4. ASSUME Resend, NEW a \in Cores, Times(m, ch'[a]) > 0 PROVE From[m] = a
    <3>1. ch'[a] = ch[a] BY <1>c, <2>4 DEF Resend, LogTypeOK
    <3> QED BY <1>i, <2>4, <3>1
  <2>5. ASSUME NEW c \in Cores, CoreEnds(c), NEW a \in Cores, Times(m, ch'[a]) > 0 PROVE From[m] = a
    <3>1. ch'[c] = <<>> /\ \A b \in Agents : b # c => ch'[b] = ch[b] BY <1>c, <2>5 DEF CoreEnds, LogTypeOK
    <3>2. a # c BY <2>5, <3>1, TimesEmpty
    <3> QED BY <1>c, <1>i, <2>5, <3>1, <3>2
  <2>6. \/ ch' = ch \/ Resend \/ \E x \in Msgs : Send(x)
        \/ \E c \in Agents : Receive(c)
        \/ \E c \in Cores : CoreEnds(c)
    BY DEF LogNext, Write, LogInContainer, LogInCore0, LogLogic, Store, PusherStep, Get, RPush, LTrim,
       RPushFails, ForwarderStep, Dial, Forward, ForwardFails, FaultStep, RedisFails,
       RedisReturns, BLPopUnanswered, RPushUnanswered, logVars
  <2> QED BY <2>1, <2>2, <2>3, <2>4, <2>5, <2>6
<1>2. \A a \in Cores : m \in pusher'[a].rec => From[m] = a
  <2>1. CASE pusher' = pusher BY <1>i, <2>1
  <2>2. ASSUME NEW c \in Agents, PusherStep(c) \/ CoreEnds(c), NEW a \in Cores, m \in pusher'[a].rec
        PROVE  From[m] = a
    <3>1. CASE a # c BY <1>c, <1>i, <2>2, <3>1, PusherPlaces
    <3>2. CASE a = c
      <4>1. CASE Receive(c)
        <5>1. pusher'[c] = [pc |-> "rpush", rec |-> {Head(ch[c])}] BY <2>2, <4>1, PusherPlaces DEF PusherStep
        <5>2. m = Head(ch[c]) /\ ch[c] # <<>> BY <2>2, <3>2, <4>1, <5>1 DEF Receive
        <5>3. Times(m, ch[c]) = Times(m, Tail(ch[c])) + 1 /\ Tail(ch[c]) \in Seq(Msgs)
          BY <1>t, <5>2, TimesTail
        <5>a. Times(m, Tail(ch[c])) \in Nat BY <5>3, TimesType
        <5>4. Times(m, ch[c]) > 0 BY <5>3, <5>a
        <5> QED BY <1>i, <3>2, <5>4
      <4>2. CASE ~Receive(c)
        <5>1. \E pc : pusher'[c] = [pc |-> pc, rec |-> {}] BY <2>2, <4>2, PusherPlaces DEF PusherStep
        <5> QED BY <2>2, <3>2, <5>1
      <4> QED BY <4>1, <4>2
    <3> QED BY <3>1, <3>2
  <2>3. \/ pusher' = pusher \/ \E c \in Agents : PusherStep(c) \/ CoreEnds(c)
    BY <1>c DEF LogNext, Write, LogInContainer, LogInCore0, LogLogic, Send, Store, ForwarderStep, Dial, Forward,
       Resend, ForwardFails, FaultStep, RedisFails, RedisReturns, BLPopUnanswered, RPushUnanswered, logVars
  <2> QED BY <2>1, <2>2, <2>3
<1>3. Times(m, list'["private"]) > 0 => From[m] \in Cores
  <2>1. CASE list' = list BY <1>i, <2>1
  <2>2. ASSUME NEW a \in Agents, RPush(a) \/ RPushUnanswered(a) PROVE Times(m, list'["private"]) > 0 => From[m] \in Cores
    <3>1. PICK x \in Msgs :
            /\ pusher[a].rec = {x}
            /\ Times(m, list'[RedisOf(a)]) = Times(m, list[RedisOf(a)]) + (IF x = m THEN 1 ELSE 0)
            /\ \A q \in Redises : q # RedisOf(a) => list'[q] = list[q]
      BY <2>2, ListGrows
    <3>2. CASE RedisOf(a) = "private"
      <4>1. a \in Cores BY <1>r, <3>2 DEF Agents
      <4>2. x = m => From[m] = a BY <1>i, <3>1, <4>1
      <4> QED BY <1>r, <1>t, <1>i, <3>1, <3>2, <4>1, <4>2
    <3>3. CASE RedisOf(a) # "private" BY <1>r, <1>i, <3>1, <3>3
    <3> QED BY <3>2, <3>3
  <2>3. ASSUME list'["private"] = Tail(list["private"]), list["private"] # <<>>
        PROVE  Times(m, list'["private"]) > 0 => From[m] \in Cores
    <3>1. /\ Times(m, list["private"]) = Times(m, Tail(list["private"])) + (IF Head(list["private"]) = m THEN 1 ELSE 0)
          /\ Tail(list["private"]) \in Seq(Msgs)
      BY <1>r, <1>t, <2>3, TimesTail
    <3>2. Times(m, Tail(list["private"])) \in Nat BY <3>1, TimesType
    <3> QED BY <1>i, <2>3, <3>1, <3>2
  <2>4. ASSUME NEW a \in Agents, LTrim(a) PROVE Times(m, list'["private"]) > 0 => From[m] \in Cores
    <3>1. list'["private"] = list["private"] \/ list'["private"] = Trimmed(list["private"])
      BY <1>r, <2>4 DEF LTrim, LogTypeOK
    <3>2. Times(m, Trimmed(list["private"])) <= Times(m, list["private"]) BY <1>r, <1>t, TimesTrimmed
    <3>3. Times(m, list'["private"]) \in Nat BY <1>r, TimesType DEF LogTypeOK
    <3> QED BY <1>r, <1>t, <1>i, <3>1, <3>2, <3>3
  <2>5. ASSUME NEW q \in Redises, RedisFails(q) PROVE Times(m, list'["private"]) > 0 => From[m] \in Cores
    <3>1. PICK left \in {list[q], <<>>} : list' = [list EXCEPT ![q] = left] BY <2>5 DEF RedisFails
    <3>2. list'["private"] = list["private"] \/ list'["private"] = <<>> BY <1>r, <3>1 DEF LogTypeOK
    <3> QED BY <1>i, <3>2, TimesEmpty
  <2>6. Forward \/ BLPopUnanswered => list'["private"] = Tail(list["private"]) /\ list["private"] # <<>>
    BY <1>r DEF Forward, BLPopUnanswered, LogTypeOK
  <2>7. \/ list' = list \/ Forward \/ BLPopUnanswered
        \/ \E a \in Agents : RPush(a) \/ RPushUnanswered(a) \/ LTrim(a)
        \/ \E q \in Redises : RedisFails(q)
    BY DEF LogNext, Write, LogInContainer, LogInCore0, LogLogic, Send, Store, PusherStep, Get, Receive,
       RPushFails, ForwarderStep, Dial, Resend, ForwardFails, FaultStep, RedisReturns, CoreEnds, logVars
  <2> QED BY <2>1, <2>2, <2>3, <2>4, <2>5, <2>6, <2>7
<1> QED BY <1>1, <1>2, <1>3

\* The steps that take a message no further than its agent's list, or lose it.
Within ==
    \/ \E x \in Msgs : Send(x)
    \/ \E a \in Agents : PusherStep(a) \/ RPushUnanswered(a)
    \/ Dial \/ ForwardFails \/ BLPopUnanswered
    \/ \E r \in Redises : RedisFails(r) \/ RedisReturns(r)
    \/ \E a \in Cores : CoreEnds(a)
    \/ UNCHANGED logVars

\* They make no second copy of a message, and without faults lose it only to LTRIM.
LEMMA OnStep ==
    ASSUME LogTypeOK, LogTypeOK', RecordInv, HomeInv, ConnInv, SuffixInv, Within,
           NEW m \in Msgs, NEW b \in Agents, b = Core0 \/ b = From[m]
    PROVE  /\ On(m, b)' <= On(m, b)
           /\ faults' = 0 => On(m, b)' = On(m, b) \/ Outdated(m, RedisOf(b))'
<1>c. /\ Core0 \notin Cores /\ Core0 \in Agents /\ Cores \subseteq Agents
      /\ From[m] \in Agents /\ \A a \in Agents : a # Core0 => a \in Cores
  BY LogsAssumption DEF Agents
<1>r. /\ RedisOf(b) \in Redises
      /\ \A a \in Agents : RedisOf(a) = "private" <=> a # Core0
      /\ \A a \in Agents : RedisOf(a) = "public" <=> a = Core0
  BY DEF Redises, RedisOf
<1>n. faults \in Nat BY LogsAssumption DEF LogTypeOK
<1>p. /\ On(m, b) = Queued(m, b) + Times(m, ch[b]) + Times(m, list[RedisOf(b)]) + InHand(m, b)
      /\ On(m, b)' = Queued(m, b)' + Times(m, ch'[b]) + Times(m, list'[RedisOf(b)]) + InHand(m, b)'
      /\ Queued(m, b) \in {0, 1} /\ Queued(m, b)' \in {0, 1}
      /\ InHand(m, b) \in {0, 1} /\ InHand(m, b)' \in {0, 1}
      /\ Times(m, ch[b]) \in Nat /\ Times(m, ch'[b]) \in Nat
      /\ Times(m, list[RedisOf(b)]) \in Nat /\ Times(m, list'[RedisOf(b)]) \in Nat
      /\ On(m, b) \in Nat /\ On(m, b)' \in Nat
  BY OnParts
<1>l. list[RedisOf(b)] \in Seq(Msgs) /\ ch[b] \in Seq(Msgs) BY <1>r DEF LogTypeOK
<1>1. ASSUME NEW x \in Msgs, Send(x) PROVE On(m, b)' = On(m, b)
  <2>1. PICK c \in Agents : c = From[x] BY LogsAssumption
  <2>2. ch' = [ch EXCEPT ![c] = Append(@, x)] BY <1>1, <2>1 DEF Send
  <2>a. /\ Times(m, ch'[c]) = Times(m, ch[c]) + (IF x = m THEN 1 ELSE 0)
        /\ \A a \in Agents : a # c => ch'[a] = ch[a]
    BY <2>2, ChannelGrows
  <2>3. /\ Times(m, ch'[From[x]]) = Times(m, ch[From[x]]) + (IF x = m THEN 1 ELSE 0)
        /\ \A a \in Agents : a # From[x] => ch'[a] = ch[a]
    BY <2>1, <2>a
  <2>4. InHand(m, b)' = InHand(m, b) /\ list' = list BY <1>1 DEF Send, InHand, In
  <2>5. CASE x = m /\ From[x] = b
    <3>1. Queued(m, b) = 1 /\ Queued(m, b)' = 0 BY <1>1, <2>5 DEF Send, Queued, In
    <3>2. Times(m, ch'[b]) = Times(m, ch[b]) + 1 BY <2>3, <2>5
    <3> QED BY <1>p, <2>4, <3>1, <3>2
  <2>6. CASE ~(x = m /\ From[x] = b)
    <3>1. Queued(m, b)' = Queued(m, b) BY <1>1, <2>6 DEF Send, Queued, In
    <3>2. Times(m, ch'[b]) = Times(m, ch[b]) BY <1>p, <2>3, <2>6
    <3> QED BY <1>p, <2>4, <3>1, <3>2
  <2> QED BY <2>5, <2>6
<1>2. ASSUME NEW a \in Agents, PusherStep(a), a # b, list'[RedisOf(b)] = list[RedisOf(b)] PROVE On(m, b)' = On(m, b)
  <2>1. pusher'[b] = pusher[b] BY <1>2, PusherPlaces
  <2>2. conn'[b] = conn[b] /\ ch'[b] = ch[b] /\ sending' = sending
    BY <1>2 DEF PusherStep, Get, Receive, RPush, RPushFails, LTrim, PusherOnly, LogTypeOK
  <2>3. InHand(m, b)' = InHand(m, b) /\ Queued(m, b)' = Queued(m, b) BY <2>1, <2>2 DEF InHand, Queued
  <2> QED BY <1>p, <1>2, <2>2, <2>3
<1>3. CASE Get(b) \/ RPushFails(b)
  <2>1. list' = list /\ ch' = ch /\ sending' = sending BY <1>3 DEF Get, RPushFails, PusherOnly
  <2>2. Queued(m, b)' = Queued(m, b) BY <2>1 DEF Queued
  <2>3. \E pc : pusher'[b] = [pc |-> pc, rec |-> {}] BY <1>3, PusherPlaces DEF PusherStep
  <2>4. InHand(m, b)' = 0 BY <2>3 DEF InHand, In
  <2>5. InHand(m, b) = 0
    <3>1. CASE Get(b)
      <4>1. pusher[b].rec = {} BY <3>1 DEF Get, PusherAt, RecordInv
      <4> QED BY <4>1 DEF InHand, In
    <3>2. CASE RPushFails(b) BY <3>2 DEF RPushFails, InHand, In
    <3> QED BY <1>3, <3>1, <3>2
  <2>6. On(m, b)' = On(m, b) BY <1>p, <2>1, <2>2, <2>4, <2>5
  <2> QED BY <1>p, <2>6
<1>4. CASE Receive(b)
  <2>1. /\ list' = list /\ sending' = sending /\ conn' = conn /\ faults' = faults /\ ch[b] # <<>>
        /\ ch'[b] = Tail(ch[b]) /\ pusher[b].pc = "wait"
    BY <1>4 DEF Receive, PusherOnly, PusherAt, LogTypeOK
  <2>2. Queued(m, b)' = Queued(m, b) BY <2>1 DEF Queued
  <2>3. Times(m, ch[b]) = Times(m, ch'[b]) + (IF Head(ch[b]) = m THEN 1 ELSE 0) BY <1>l, <2>1, TimesTail
  <2>4. pusher'[b] = [pc |-> "rpush", rec |-> {Head(ch[b])}] BY <1>4, PusherPlaces DEF PusherStep
  <2>5. pusher[b].rec = {} BY <2>1 DEF RecordInv
  <2>6. InHand(m, b) = 0 BY <2>5 DEF InHand, In
  <2>7. InHand(m, b)' = IF Head(ch[b]) = m /\ conn[b] = "ok" THEN 1 ELSE 0 BY <2>1, <2>4 DEF InHand, In
  <2>8. faults' = 0 => conn[b] = "ok" BY <2>1 DEF ConnInv
  <2>9. On(m, b)' <= On(m, b) BY <1>p, <2>1, <2>2, <2>3, <2>6, <2>7
  <2>10. faults' = 0 => On(m, b)' = On(m, b) BY <1>p, <2>1, <2>2, <2>3, <2>6, <2>7, <2>8
  <2> QED BY <2>9, <2>10
<1>5. ASSUME NEW a \in Agents, RPush(a) \/ RPushUnanswered(a) PROVE On(m, b)' = On(m, b)
  <2>1. PICK x \in Msgs :
          /\ pusher[a].rec = {x} /\ conn[a] = "ok"
          /\ Times(m, list'[RedisOf(a)]) = Times(m, list[RedisOf(a)]) + (IF x = m THEN 1 ELSE 0)
          /\ \A q \in Redises : q # RedisOf(a) => list'[q] = list[q]
    BY <1>5, ListGrows
  <2>2. ch' = ch /\ sending' = sending BY <1>5 DEF RPush, RPushUnanswered, PusherOnly
  <2>3. Queued(m, b)' = Queued(m, b) BY <2>2 DEF Queued
  <2>4. CASE a = b
    <3>1. InHand(m, b) = IF x = m THEN 1 ELSE 0 BY <2>1, <2>4 DEF InHand, In
    <3>2. InHand(m, b)' = 0
      <4>1. CASE RPush(a)
        <5>1. pusher'[b] = [pc |-> "ltrim", rec |-> {}] BY <2>4, <4>1, PusherPlaces DEF PusherStep
        <5> QED BY <5>1 DEF InHand, In
      <4>2. CASE RPushUnanswered(a)
        <5>1. conn'[b] = "broken" BY <2>4, <4>2 DEF RPushUnanswered, LogTypeOK
        <5> QED BY <5>1 DEF InHand, In
      <4> QED BY <1>5, <4>1, <4>2
    <3> QED BY <1>p, <2>1, <2>2, <2>3, <2>4, <3>1, <3>2
  <2>5. CASE a # b
    <3>1. InHand(m, b)' = InHand(m, b)
      <4>1. pusher'[b] = pusher[b] /\ conn'[b] = conn[b]
        BY <1>5, <2>5, PusherPlaces DEF PusherStep, RPush, RPushUnanswered, LogTypeOK
      <4> QED BY <4>1 DEF InHand
    <3>2. CASE RedisOf(a) # RedisOf(b) BY <1>p, <1>r, <2>1, <2>2, <2>3, <3>1, <3>2
    <3>3. CASE RedisOf(a) = RedisOf(b)
      <4>1. a \in Cores /\ b \in Cores BY <1>c, <1>r, <2>5, <3>3
      <4>2. x # m BY <1>c, <2>1, <2>5, <4>1 DEF HomeInv
      <4> QED BY <1>p, <2>1, <2>2, <2>3, <3>1, <3>3, <4>2
    <3> QED BY <3>2, <3>3
  <2> QED BY <2>4, <2>5
<1>6. ASSUME NEW a \in Agents, LTrim(a)
      PROVE  /\ On(m, b)' <= On(m, b)
             /\ faults' = 0 => On(m, b)' = On(m, b) \/ Outdated(m, RedisOf(b))'
  <2>1. ch' = ch /\ conn' = conn /\ sending' = sending /\ pushed' = pushed /\ faults' = faults
    BY <1>6 DEF LTrim, PusherOnly
  <2>2. Queued(m, b)' = Queued(m, b) BY <2>1 DEF Queued
  <2>3. InHand(m, b)' = InHand(m, b)
    <3>1. CASE a = b
      <4>1. pusher'[b] = [pc |-> IF conn[b] = "ok" THEN "wait" ELSE "get", rec |-> {}]
        BY <1>6, <3>1, PusherPlaces DEF PusherStep
      <4>2. pusher[b].rec = {} BY <1>6, <3>1 DEF LTrim, PusherAt, RecordInv
      <4> QED BY <4>1, <4>2 DEF InHand, In
    <3>2. CASE a # b
      <4>1. pusher'[b] = pusher[b] BY <1>6, <3>2, PusherPlaces DEF PusherStep
      <4> QED BY <2>1, <4>1 DEF InHand
    <3> QED BY <3>1, <3>2
  <2>4. list'[RedisOf(b)] = list[RedisOf(b)] \/ list'[RedisOf(b)] = Trimmed(list[RedisOf(b)])
    BY <1>r, <1>6 DEF LTrim, LogTypeOK
  <2>5. CASE list'[RedisOf(b)] = list[RedisOf(b)]
    <3>1. On(m, b)' = On(m, b) BY <1>p, <2>1, <2>2, <2>3, <2>5
    <3> QED BY <1>p, <3>1
  <2>6. CASE list'[RedisOf(b)] = Trimmed(list[RedisOf(b)])
    <3>1. Times(m, list'[RedisOf(b)]) <= Times(m, list[RedisOf(b)]) BY <1>l, <2>6, TimesTrimmed
    <3>2. On(m, b)' <= On(m, b) BY <1>p, <2>1, <2>2, <2>3, <3>1
    <3>3. CASE Times(m, list'[RedisOf(b)]) = Times(m, list[RedisOf(b)])
      <4>1. On(m, b)' = On(m, b) BY <1>p, <2>1, <2>2, <2>3, <3>3
      <4> QED BY <3>2, <4>1
    <3>4. ASSUME NEW i \in DOMAIN list[RedisOf(b)], list[RedisOf(b)][i] = m,
                 Len(list[RedisOf(b)]) - i >= QueueSize, faults' = 0
          PROVE  Outdated(m, RedisOf(b))'
      <4>1. EndOf(list[RedisOf(b)], pushed[RedisOf(b)]) BY <1>r, <2>1, <3>4 DEF SuffixInv
      <4>2. pushed[RedisOf(b)] \in Seq(Msgs) BY <1>r DEF LogTypeOK
      <4>3. \E j \in DOMAIN pushed[RedisOf(b)] :
              pushed[RedisOf(b)][j] = m /\ Len(pushed[RedisOf(b)]) - j >= QueueSize
        BY <1>l, <3>4, <4>1, <4>2, OldInEnd
      <4> QED BY <2>1, <4>3 DEF Outdated, RedisOf
    <3>5. \/ Times(m, list'[RedisOf(b)]) = Times(m, list[RedisOf(b)])
          \/ \E i \in DOMAIN list[RedisOf(b)] :
                list[RedisOf(b)][i] = m /\ Len(list[RedisOf(b)]) - i >= QueueSize
      BY <1>l, <2>6, TimesTrimmed
    <3> QED BY <3>2, <3>3, <3>4, <3>5
  <2> QED BY <2>4, <2>5, <2>6
<1>7. CASE Dial \/ ForwardFails \/ (\E r \in Redises : RedisReturns(r)) \/ UNCHANGED logVars
  <2>1. UNCHANGED <<sending, ch, list, conn, pusher>>
    BY <1>7 DEF Dial, ForwardFails, RedisReturns, logVars
  <2>2. Queued(m, b)' = Queued(m, b) /\ InHand(m, b)' = InHand(m, b) BY <2>1 DEF Queued, InHand
  <2>3. On(m, b)' = On(m, b) BY <1>p, <2>1, <2>2
  <2> QED BY <1>p, <2>3
<1>8. CASE BLPopUnanswered \/ (\E r \in Redises : RedisFails(r)) \/ (\E a \in Cores : CoreEnds(a))
  <2>1. faults' # 0 BY <1>n, <1>8 DEF BLPopUnanswered, RedisFails, CoreEnds, Fault
  <2>2. Queued(m, b)' <= Queued(m, b)
    <3>1. sending' \subseteq sending BY <1>8 DEF BLPopUnanswered, RedisFails, CoreEnds
    <3> QED BY <3>1 DEF Queued, In
  <2>3. Times(m, ch'[b]) <= Times(m, ch[b])
    <3>1. ch'[b] = ch[b] \/ ch'[b] = <<>> BY <1>8, <1>c DEF BLPopUnanswered, RedisFails, CoreEnds, LogTypeOK
    <3> QED BY <1>p, <3>1, TimesEmpty
  <2>4. InHand(m, b)' <= InHand(m, b)
    <3>1. (pusher'[b] = pusher[b] \/ pusher'[b] = Waiting) /\ (conn'[b] = conn[b] \/ conn'[b] = "broken")
      BY <1>8, <1>c DEF BLPopUnanswered, RedisFails, Broken, CoreEnds, LogTypeOK
    <3>2. Waiting.rec = {} BY DEF Waiting
    <3> QED BY <3>1, <3>2 DEF InHand, In
  <2>5. Times(m, list'[RedisOf(b)]) <= Times(m, list[RedisOf(b)])
    <3>1. \/ list'[RedisOf(b)] = list[RedisOf(b)] \/ list'[RedisOf(b)] = <<>>
          \/ list[RedisOf(b)] # <<>> /\ list'[RedisOf(b)] = Tail(list[RedisOf(b)])
      <4>1. CASE BLPopUnanswered BY <1>r, <4>1 DEF BLPopUnanswered, LogTypeOK
      <4>2. ASSUME NEW r \in Redises, RedisFails(r)
            PROVE  list'[RedisOf(b)] = list[RedisOf(b)] \/ list'[RedisOf(b)] = <<>>
        <5>1. PICK left \in {list[r], <<>>} : list' = [list EXCEPT ![r] = left] BY <4>2 DEF RedisFails
        <5> QED BY <1>r, <5>1 DEF LogTypeOK
      <4>3. CASE \E a \in Cores : CoreEnds(a) BY <4>3 DEF CoreEnds
      <4> QED BY <1>8, <4>1, <4>2, <4>3
    <3>2. list[RedisOf(b)] # <<>> =>
            Times(m, list[RedisOf(b)]) = Times(m, Tail(list[RedisOf(b)])) + (IF Head(list[RedisOf(b)]) = m THEN 1 ELSE 0)
      BY <1>l, TimesTail
    <3> QED BY <1>p, <3>1, <3>2, TimesEmpty
  <2>6. On(m, b)' <= On(m, b) BY <1>p, <2>2, <2>3, <2>4, <2>5
  <2> QED BY <2>1, <2>6
<1>9. ASSUME NEW a \in Agents, Get(a) \/ RPushFails(a) \/ Receive(a), a # b PROVE On(m, b)' = On(m, b)
  BY <1>2, <1>9 DEF PusherStep, Get, RPushFails, Receive
<1>10. On(m, b)' = On(m, b) => On(m, b)' <= On(m, b) BY <1>p
<1> QED BY <1>1, <1>3, <1>4, <1>5, <1>6, <1>7, <1>8, <1>9, <1>10 DEF Within, PusherStep

\* The parts of the two counts of a message.
LEMMA WayParts ==
    ASSUME LogTypeOK, LogTypeOK', NEW m \in Msgs
    PROVE  /\ AtHome(m) \in Nat /\ AtHome(m)' \in Nat /\ On(m, Core0) \in Nat /\ On(m, Core0)' \in Nat
           /\ \A S : In(m, S) \in {0, 1}
           /\ ToPublic(m) = AtHome(m) + In(m, forwarder.rec) + On(m, Core0)
           /\ ToPublic(m)' = AtHome(m)' + In(m, forwarder'.rec) + On(m, Core0)'
           /\ ToDatabase(m) = AtHome(m) + In(m, batch) + In(m, db)
           /\ ToDatabase(m)' = AtHome(m)' + In(m, batch') + In(m, db')
<1>1. Core0 \in Agents /\ From[m] \in Agents BY LogsAssumption DEF Agents
<1>2. /\ On(m, Core0) \in Nat /\ On(m, Core0)' \in Nat /\ On(m, From[m]) \in Nat /\ On(m, From[m])' \in Nat
  BY <1>1, OnParts
<1>3. AtHome(m) \in Nat /\ AtHome(m)' \in Nat BY <1>2 DEF AtHome
<1>4. \A S : In(m, S) \in {0, 1} BY DEF In
<1>5. /\ ToPublic(m) = AtHome(m) + In(m, forwarder.rec) + On(m, Core0)
      /\ ToPublic(m)' = AtHome(m)' + In(m, forwarder'.rec) + On(m, Core0)'
      /\ ToDatabase(m) = AtHome(m) + In(m, batch) + In(m, db)
      /\ ToDatabase(m)' = AtHome(m)' + In(m, batch') + In(m, db')
  BY DEF ToPublic, ToDatabase, In
<1> QED BY <1>2, <1>3, <1>4, <1>5

\* A step that keeps the counts keeps the invariants on them.
CountsKept(m) ==
    /\ In(m, toLog') + ToPublic(m)' <= In(m, toLog) + ToPublic(m)
    /\ In(m, toLog') + ToDatabase(m)' <= In(m, toLog) + ToDatabase(m)

\* The steps within an agent keep the counts, and without faults lose only what is outdated.
LEMMA WithinCounts ==
    ASSUME LogTypeOK, LogTypeOK', RecordInv, RecordInv', HomeInv, ConnInv, SuffixInv, LostInv, [LogNext]_logVars,
           Within, NEW m \in Msgs
    PROVE  /\ CountsKept(m)
           /\ m \in written' /\ Accepted(m) /\ faults' = 0 => Stored(m)' /\ Published(m)'
<1>c. Core0 \in Agents /\ From[m] \in Agents BY LogsAssumption DEF Agents
<1>r. RedisOf(Core0) = "public" /\ (From[m] \in Cores => RedisOf(From[m]) = "private")
  BY LogsAssumption DEF RedisOf
<1>w. /\ AtHome(m) \in Nat /\ AtHome(m)' \in Nat /\ On(m, Core0) \in Nat /\ On(m, Core0)' \in Nat
      /\ \A S : In(m, S) \in {0, 1}
      /\ ToPublic(m) = AtHome(m) + In(m, forwarder.rec) + On(m, Core0)
      /\ ToPublic(m)' = AtHome(m)' + In(m, forwarder'.rec) + On(m, Core0)'
      /\ ToDatabase(m) = AtHome(m) + In(m, batch) + In(m, db)
      /\ ToDatabase(m)' = AtHome(m)' + In(m, batch') + In(m, db')
  BY WayParts
<1>1. UNCHANGED <<toLog, written, batch, db, hasPublic>>
  BY DEF Within, Send, PusherStep, Get, Receive, RPush, RPushFails, LTrim, PusherOnly, RPushUnanswered, Dial,
     ForwardFails, BLPopUnanswered, RedisFails, RedisReturns, CoreEnds, logVars
<1>2. forwarder'.rec = forwarder.rec
  <2>1. CASE Dial
    <3>1. forwarder.rec = {} /\ forwarder' = [pc |-> "blpop", conn |-> "ok", rec |-> {}]
      BY <2>1 DEF Dial, RecordInv
    <3> QED BY <3>1
  <2>2. CASE ForwardFails BY <2>2 DEF ForwardFails, LogTypeOK
  <2>3. CASE BLPopUnanswered BY <2>3 DEF BLPopUnanswered, LogTypeOK
  <2>4. ASSUME NEW r \in Redises, RedisFails(r) PROVE forwarder'.rec = forwarder.rec
    BY <2>4 DEF RedisFails, LogTypeOK
  <2>5. \/ forwarder' = forwarder \/ Dial \/ ForwardFails \/ BLPopUnanswered \/ \E r \in Redises : RedisFails(r)
    BY DEF Within, Send, PusherStep, Get, Receive, RPush, RPushFails, LTrim, PusherOnly, RPushUnanswered,
       RedisReturns, CoreEnds, logVars
  <2> QED BY <2>1, <2>2, <2>3, <2>4, <2>5
<1>3. /\ On(m, Core0)' <= On(m, Core0)
      /\ faults' = 0 => On(m, Core0)' = On(m, Core0) \/ Outdated(m, "public")'
  <2>1. /\ On(m, Core0)' <= On(m, Core0)
        /\ faults' = 0 => On(m, Core0)' = On(m, Core0) \/ Outdated(m, RedisOf(Core0))'
    BY <1>c, OnStep
  <2>2. Outdated(m, RedisOf(Core0))' => Outdated(m, "public")' BY DEF RedisOf
  <2> QED BY <2>1, <2>2
<1>4. /\ AtHome(m)' <= AtHome(m)
      /\ faults' = 0 => AtHome(m)' = AtHome(m) \/ Outdated(m, "private")'
  <2>1. CASE From[m] \in Cores
    <3>1. /\ On(m, From[m])' <= On(m, From[m])
          /\ faults' = 0 => On(m, From[m])' = On(m, From[m]) \/ Outdated(m, RedisOf(From[m]))'
      BY <1>c, OnStep
    <3>2. Outdated(m, RedisOf(From[m]))' => Outdated(m, "private")' BY <2>1, LogsAssumption DEF RedisOf
    <3>3. AtHome(m) = On(m, From[m]) /\ AtHome(m)' = On(m, From[m])' BY <2>1 DEF AtHome
    <3> QED BY <3>1, <3>2, <3>3
  <2>2. CASE From[m] \notin Cores
    <3>1. AtHome(m) = 0 /\ AtHome(m)' = 0 BY <2>2 DEF AtHome
    <3> QED BY <3>1
  <2> QED BY <2>1, <2>2
<1>5. CountsKept(m)
  <2>1. ToPublic(m)' <= ToPublic(m) /\ ToDatabase(m)' <= ToDatabase(m) BY <1>w, <1>1, <1>2, <1>3, <1>4
  <2>2. ToPublic(m)' \in Nat /\ ToPublic(m) \in Nat /\ ToDatabase(m) \in Nat /\ ToDatabase(m)' \in Nat BY <1>w
  <2> QED BY <1>w, <1>1, <2>1, <2>2 DEF CountsKept
<1>6. ASSUME m \in written', Accepted(m), faults' = 0 PROVE Stored(m)' /\ Published(m)'
  <2>1. faults = 0 BY <1>6, FaultsGrow
  <2>2. Stored(m) /\ Published(m) BY <1>1, <1>6, <2>1 DEF LostInv
  <2>3. /\ Outdated(m, "private") => Outdated(m, "private")'
        /\ Outdated(m, "public") => Outdated(m, "public")'
    BY OutdatedStays DEF Redises
  <2>4. Stored(m)'
    <3>1. CASE ToDatabase(m) >= 1
      <4>1. CASE AtHome(m)' = AtHome(m)
        <5>1. ToDatabase(m)' = ToDatabase(m) BY <1>w, <1>1, <4>1
        <5> QED BY <3>1, <5>1 DEF Stored
      <4>2. CASE Outdated(m, "private")' BY <4>2 DEF Stored
      <4> QED BY <1>4, <1>6, <4>1, <4>2
    <3>2. CASE ~(ToDatabase(m) >= 1) BY <1>1, <2>2, <2>3, <3>2 DEF Stored, Key
    <3> QED BY <3>1, <3>2
  <2>5. Published(m)'
    <3>1. CASE ToPublic(m) >= 1
      <4>1. CASE AtHome(m)' = AtHome(m) /\ On(m, Core0)' = On(m, Core0)
        <5>1. ToPublic(m)' = ToPublic(m) BY <1>w, <1>2, <4>1
        <5> QED BY <3>1, <5>1 DEF Published
      <4>2. CASE Outdated(m, "private")' \/ Outdated(m, "public")' BY <4>2 DEF Published, Redises
      <4> QED BY <1>3, <1>4, <1>6, <4>1, <4>2
    <3>2. CASE ~(ToPublic(m) >= 1)
      <4>1. ~hasPublic \/ Outdated(m, "private") \/ Outdated(m, "public") BY <2>2, <3>2 DEF Published, Redises
      <4>2. ~hasPublic' \/ Outdated(m, "private")' \/ Outdated(m, "public")' BY <1>1, <2>3, <4>1
      <4> QED BY <4>2 DEF Published, Redises
    <3> QED BY <3>1, <3>2
  <2> QED BY <2>4, <2>5
<1> QED BY <1>5, <1>6

\* Where a stored message can go, it stays stored.
LEMMA StoredStays ==
    ASSUME LogTypeOK, RecordInv, LostInv, [LogNext]_logVars, NEW m \in written, m \in Msgs, Accepted(m),
           faults' = 0,
           ToDatabase(m) >= 1 => Stored(m)',
           (\E n \in db \ {m} : Key(n) = Key(m)) => Stored(m)'
    PROVE  Stored(m)'
<1>1. Stored(m) BY FaultsGrow DEF LostInv
<1>2. Outdated(m, "private") => Outdated(m, "private")' BY OutdatedStays DEF Redises
<1> QED BY <1>1, <1>2 DEF Stored, Key

\* And where a published one can.
LEMMA PublishedStays ==
    ASSUME LogTypeOK, RecordInv, LostInv, [LogNext]_logVars, NEW m \in written, m \in Msgs, Accepted(m),
           faults' = 0, hasPublic' = hasPublic,
           hasPublic /\ ToPublic(m) >= 1 => ToPublic(m)' >= 1
    PROVE  Published(m)'
<1>1. Published(m) BY FaultsGrow DEF LostInv
<1>2. \A r \in Redises : Outdated(m, r) => Outdated(m, r)' BY OutdatedStays
<1> QED BY <1>1, <1>2 DEF Published

\* Records that stay where they are.
LEMMA OnStays ==
    ASSUME LogTypeOK, LogTypeOK', NEW m \in Msgs, NEW a \in Agents,
           ch'[a] = ch[a], list'[RedisOf(a)] = list[RedisOf(a)], pusher' = pusher, conn' = conn
    PROVE  On(m, a)' = On(m, a) + Queued(m, a)' - Queued(m, a) /\ On(m, a)' >= Queued(m, a)'
<1>1. InHand(m, a)' = InHand(m, a) BY DEF InHand
<1>2. /\ On(m, a) = Queued(m, a) + Times(m, ch[a]) + Times(m, list[RedisOf(a)]) + InHand(m, a)
      /\ On(m, a)' = Queued(m, a)' + Times(m, ch'[a]) + Times(m, list'[RedisOf(a)]) + InHand(m, a)'
      /\ Queued(m, a) \in {0, 1} /\ Queued(m, a)' \in {0, 1}
      /\ InHand(m, a) \in {0, 1} /\ InHand(m, a)' \in {0, 1}
      /\ Times(m, ch[a]) \in Nat /\ Times(m, ch'[a]) \in Nat
      /\ Times(m, list[RedisOf(a)]) \in Nat /\ Times(m, list'[RedisOf(a)]) \in Nat
      /\ On(m, a) \in Nat /\ On(m, a)' \in Nat
  BY OnParts
<1> QED BY <1>1, <1>2

\* A message is written: it is no longer to be written, and is at most once on each way.
LEMMA WriteCounts ==
    ASSUME LogTypeOK, LogTypeOK', RecordInv, LostInv, [LogNext]_logVars,
           NEW x \in Msgs, Write(x), NEW m \in Msgs
    PROVE  /\ CountsKept(m)
           /\ m \in written' /\ Accepted(m) /\ faults' = 0 => Stored(m)' /\ Published(m)'
<1>c. Core0 \in Agents /\ From[m] \in Agents /\ Core0 \notin Cores /\ From[x] \in Agents
  BY LogsAssumption DEF Agents
<1>w. /\ AtHome(m) \in Nat /\ AtHome(m)' \in Nat /\ On(m, Core0) \in Nat /\ On(m, Core0)' \in Nat
      /\ \A S : In(m, S) \in {0, 1}
      /\ ToPublic(m) = AtHome(m) + In(m, forwarder.rec) + On(m, Core0)
      /\ ToPublic(m)' = AtHome(m)' + In(m, forwarder'.rec) + On(m, Core0)'
      /\ ToDatabase(m) = AtHome(m) + In(m, batch) + In(m, db)
      /\ ToDatabase(m)' = AtHome(m)' + In(m, batch') + In(m, db')
  BY WayParts
<1>1. /\ UNCHANGED <<hasPublic, ch, pusher, conn, list, forwarder, db, faults>>
      /\ toLog' = toLog \ {x} /\ written' = written \cup {x} /\ x \in toLog
  BY DEF Write, LogInContainer, LogInCore0, LogLogic, NextOfJob
<1>2. \A a \in Agents : /\ On(m, a)' = On(m, a) + Queued(m, a)' - Queued(m, a) /\ On(m, a)' >= Queued(m, a)'
                        /\ Queued(m, a) \in {0, 1} /\ Queued(m, a)' \in {0, 1} /\ On(m, a) \in Nat
  BY <1>1, OnStays, OnParts
<1>3. From[m] \in Cores => AtHome(m) = On(m, From[m]) /\ AtHome(m)' = On(m, From[m])' BY DEF AtHome
<1>4. From[m] \notin Cores => AtHome(m) = 0 /\ AtHome(m)' = 0 BY DEF AtHome
<1>5. \A a \in Agents : a # From[m] => Queued(m, a) = 0 /\ Queued(m, a)' = 0 BY DEF Queued, In
<1>6. CASE m # x
  <2>1. In(m, toLog') = In(m, toLog) /\ In(m, batch') = In(m, batch) /\ (m \in written' => m \in written)
    BY <1>1, <1>6 DEF Write, LogInContainer, LogInCore0, LogLogic, In
  <2>2. \A a \in Agents : Queued(m, a)' = Queued(m, a)
    BY <1>6 DEF Write, LogInContainer, LogInCore0, LogLogic, Queued, In
  <2>3. AtHome(m)' = AtHome(m) /\ On(m, Core0)' = On(m, Core0) BY <1>c, <1>2, <1>3, <1>4, <2>2
  <2>4. ToPublic(m)' = ToPublic(m) /\ ToDatabase(m)' = ToDatabase(m) BY <1>w, <1>1, <2>1, <2>3
  <2>5. CountsKept(m) BY <1>w, <2>1, <2>4 DEF CountsKept
  <2>6. ASSUME m \in written', Accepted(m), faults' = 0 PROVE Stored(m)' /\ Published(m)'
    <3>1. ToDatabase(m) >= 1 => Stored(m)' BY <2>4 DEF Stored
    <3>2. (\E n \in db \ {m} : Key(n) = Key(m)) => Stored(m)' BY <1>1 DEF Stored, Key
    <3> QED BY <1>1, <2>1, <2>4, <2>6, <3>1, <3>2, StoredStays, PublishedStays
  <2> QED BY <2>5, <2>6
<1>7. CASE m = x
  <2>1. In(m, toLog') = 0 /\ In(m, toLog) = 1 BY <1>1, <1>7 DEF In
  <2>2. CASE From[m] \in Cores
    <3>1. batch' = batch /\ Queued(m, Core0)' = Queued(m, Core0)
      BY <1>c, <1>5, <1>7, <2>2 DEF Write, LogInContainer, LogInCore0, LogLogic
    <3>2. AtHome(m)' <= AtHome(m) + 1 /\ On(m, Core0)' = On(m, Core0) BY <1>c, <1>2, <1>3, <2>2, <3>1
    <3>3. CountsKept(m) BY <1>w, <1>1, <2>1, <3>1, <3>2 DEF CountsKept
    <3>4. ASSUME Accepted(m) PROVE Stored(m)' /\ Published(m)'
      <4>1. LogLogic(m, FALSE, Handled(m) /\ IsLoggable({}, m))
        BY <1>c, <1>7, <2>2 DEF Write, LogInContainer, LogInCore0
      <4>2. Handled(m) /\ IsLoggable({}, m) BY <3>4 DEF Accepted, Handled, IsLoggable
      <4>3. m \in sending' BY <4>1, <4>2 DEF LogLogic
      <4>4. Queued(m, From[m])' = 1 BY <4>3 DEF Queued, In
      <4>5. AtHome(m)' >= 1 BY <1>c, <1>2, <1>3, <2>2, <4>4
      <4>6. ToDatabase(m)' >= 1 /\ ToPublic(m)' >= 1 BY <1>w, <4>5
      <4> QED BY <4>6 DEF Stored, Published
    <3> QED BY <3>3, <3>4
  <2>3. CASE From[m] \notin Cores
    <3>1. From[m] = Core0 BY <1>c, <2>3 DEF Agents
    <3>2. AtHome(m)' = AtHome(m) /\ On(m, Core0)' <= On(m, Core0) + 1 BY <1>c, <1>2, <1>4, <2>3
    <3>3. CountsKept(m) BY <1>w, <1>1, <2>1, <3>2 DEF CountsKept
    <3>4. ASSUME Accepted(m) PROVE Stored(m)' /\ Published(m)'
      <4>1. Handled(m) /\ IsLoggable(Defaults, m) BY <3>1, <3>4 DEF Accepted
      <4>2. m \in batch' /\ (hasPublic => m \in sending')
        BY <1>7, <3>1, <4>1 DEF Write, LogInContainer, LogInCore0, LogLogic
      <4>3. In(m, batch') = 1 /\ (hasPublic => Queued(m, Core0)' = 1) BY <3>1, <4>2 DEF Queued, In
      <4>4. ToDatabase(m)' >= 1 /\ (hasPublic => ToPublic(m)' >= 1) BY <1>c, <1>w, <1>2, <4>3
      <4> QED BY <1>1, <4>4 DEF Stored, Published
    <3> QED BY <3>3, <3>4
  <2> QED BY <2>2, <2>3
<1> QED BY <1>6, <1>7

\* The forwarder takes a record out of the private list: into a transaction of the database,
\* and where there is a Redis logger into its hand.
LEMMA ForwardCounts ==
    ASSUME LogTypeOK, LogTypeOK', RecordInv, HomeInv, LostInv, [LogNext]_logVars, Forward, NEW m \in Msgs
    PROVE  /\ CountsKept(m)
           /\ m \in written' /\ Accepted(m) /\ faults' = 0 => Stored(m)' /\ Published(m)'
<1>c. /\ Core0 \in Agents /\ From[m] \in Agents /\ Core0 \notin Cores
      /\ RedisOf(Core0) = "public" /\ (From[m] \in Cores => RedisOf(From[m]) = "private")
      /\ "private" \in Redises /\ "public" \in Redises
  BY LogsAssumption DEF Agents, RedisOf, Redises
<1>w. /\ AtHome(m) \in Nat /\ AtHome(m)' \in Nat /\ On(m, Core0) \in Nat /\ On(m, Core0)' \in Nat
      /\ \A S : In(m, S) \in {0, 1}
      /\ ToPublic(m) = AtHome(m) + In(m, forwarder.rec) + On(m, Core0)
      /\ ToPublic(m)' = AtHome(m)' + In(m, forwarder'.rec) + On(m, Core0)'
      /\ ToDatabase(m) = AtHome(m) + In(m, batch) + In(m, db)
      /\ ToDatabase(m)' = AtHome(m)' + In(m, batch') + In(m, db')
  BY WayParts
<1>1. /\ UNCHANGED <<hasPublic, toLog, written, sending, ch, pusher, conn, db, faults>>
      /\ list["private"] # <<>> /\ list' = [list EXCEPT !["private"] = Tail(@)]
      /\ batch' = batch \cup {Head(list["private"])}
  BY DEF Forward
<1>2. PICK x : x = Head(list["private"]) OBVIOUS
<1>l. list["private"] \in Seq(Msgs) BY <1>c DEF LogTypeOK
<1>t. list'["private"] = Tail(list["private"]) /\ list'["public"] = list["public"] BY <1>c, <1>1 DEF LogTypeOK
<1>3. /\ x \in Msgs
      /\ Times(m, list["private"]) = Times(m, list'["private"]) + (IF x = m THEN 1 ELSE 0)
      /\ Times(m, list'["private"]) \in Nat
  <2>1. /\ Tail(list["private"]) \in Seq(Msgs) /\ Head(list["private"]) \in Msgs
        /\ Times(m, list["private"])
             = Times(m, Tail(list["private"])) + (IF Head(list["private"]) = m THEN 1 ELSE 0)
    BY <1>1, <1>l, TimesTail
  <2>2. Times(m, Tail(list["private"])) \in Nat BY <2>1, TimesType
  <2> QED BY <1>2, <1>t, <2>1, <2>2
<1>4. x = m => From[m] \in Cores
  <2>1. ASSUME x = m PROVE From[m] \in Cores
    <3>1. Times(m, list["private"]) > 0 BY <1>3, <2>1
    <3> QED BY <3>1 DEF HomeInv
  <2> QED BY <2>1
<1>5. On(m, Core0)' = On(m, Core0)
  <2>1. ch'[Core0] = ch[Core0] /\ list'[RedisOf(Core0)] = list[RedisOf(Core0)] /\ pusher' = pusher /\ conn' = conn
    BY <1>c, <1>1, <1>t
  <2>2. On(m, Core0)' = On(m, Core0) + Queued(m, Core0)' - Queued(m, Core0) BY <1>c, <2>1, OnStays
  <2>3. Queued(m, Core0)' = Queued(m, Core0) /\ Queued(m, Core0) \in {0, 1} BY <1>1 DEF Queued, In
  <2> QED BY <1>w, <2>2, <2>3
<1>6. AtHome(m) = AtHome(m)' + (IF x = m THEN 1 ELSE 0)
  <2>1. CASE From[m] \in Cores
    <3>1. AtHome(m) = On(m, From[m]) /\ AtHome(m)' = On(m, From[m])' BY <2>1 DEF AtHome
    <3>2. Queued(m, From[m])' = Queued(m, From[m]) /\ InHand(m, From[m])' = InHand(m, From[m])
      BY <1>1 DEF Queued, InHand
    <3>3. /\ On(m, From[m]) = Queued(m, From[m]) + Times(m, ch[From[m]]) + Times(m, list[RedisOf(From[m])])
                                + InHand(m, From[m])
          /\ On(m, From[m])' = Queued(m, From[m])' + Times(m, ch'[From[m]]) + Times(m, list'[RedisOf(From[m])])
                                + InHand(m, From[m])'
          /\ Queued(m, From[m]) \in {0, 1} /\ InHand(m, From[m]) \in {0, 1}
          /\ Times(m, ch[From[m]]) \in Nat
      BY <1>c, OnParts
    <3> QED BY <1>c, <1>1, <1>3, <2>1, <3>1, <3>2, <3>3
  <2>2. CASE From[m] \notin Cores
    <3>1. AtHome(m) = 0 /\ AtHome(m)' = 0 BY <2>2 DEF AtHome
    <3> QED BY <1>4, <2>2, <3>1
  <2> QED BY <2>1, <2>2
<1>7. In(m, forwarder.rec) = 0 /\ In(m, forwarder'.rec) = (IF hasPublic /\ x = m THEN 1 ELSE 0)
  <2>1. forwarder.rec = {} BY DEF Forward, RecordInv
  <2>2. forwarder'.rec = IF hasPublic THEN {x} ELSE {} BY <1>2, <2>1 DEF Forward, LogTypeOK
  <2> QED BY <2>1, <2>2 DEF In
<1>8. In(m, batch') = IF x = m THEN 1 ELSE In(m, batch) BY <1>1, <1>2 DEF In
<1>9. /\ ToPublic(m)' <= ToPublic(m) /\ ToDatabase(m)' <= ToDatabase(m)
      /\ hasPublic /\ ToPublic(m) >= 1 => ToPublic(m)' >= 1
      /\ ToDatabase(m) >= 1 => ToDatabase(m)' >= 1
  <2>1. CASE x = m
    <3>1. /\ AtHome(m) = AtHome(m)' + 1 /\ In(m, batch') = 1 /\ In(m, db') = In(m, db)
          /\ (hasPublic => In(m, forwarder'.rec) = 1) /\ In(m, batch) \in {0, 1}
          /\ In(m, db) \in {0, 1} /\ In(m, forwarder'.rec) \in {0, 1}
      BY <1>w, <1>1, <1>6, <1>7, <1>8, <2>1
    <3> QED BY <1>w, <1>5, <1>7, <3>1
  <2>2. CASE x # m
    <3>1. /\ AtHome(m) = AtHome(m)' /\ In(m, batch') = In(m, batch) /\ In(m, db') = In(m, db)
          /\ In(m, forwarder'.rec) = 0 /\ In(m, batch) \in {0, 1} /\ In(m, db) \in {0, 1}
      BY <1>w, <1>1, <1>6, <1>7, <1>8, <2>2
    <3> QED BY <1>w, <1>5, <1>7, <3>1
  <2> QED BY <2>1, <2>2
<1>10. CountsKept(m)
  <2>1. In(m, toLog') = In(m, toLog) /\ In(m, toLog) \in {0, 1} BY <1>w, <1>1
  <2>2. ToPublic(m) \in Nat /\ ToPublic(m)' \in Nat /\ ToDatabase(m) \in Nat /\ ToDatabase(m)' \in Nat BY <1>w
  <2>3. ToPublic(m)' <= ToPublic(m) /\ ToDatabase(m)' <= ToDatabase(m) BY <1>9
  <2>4. In(m, toLog') + ToPublic(m)' <= In(m, toLog) + ToPublic(m) BY <2>1, <2>2, <2>3
  <2>5. In(m, toLog') + ToDatabase(m)' <= In(m, toLog) + ToDatabase(m) BY <2>1, <2>2, <2>3
  <2> QED BY <2>4, <2>5 DEF CountsKept
<1>11. ASSUME m \in written', Accepted(m), faults' = 0 PROVE Stored(m)' /\ Published(m)'
  <2>1. ToDatabase(m) >= 1 => Stored(m)' BY <1>9 DEF Stored
  <2>2. (\E n \in db \ {m} : Key(n) = Key(m)) => Stored(m)' BY <1>1 DEF Stored, Key
  <2> QED BY <1>1, <1>9, <1>11, <2>1, <2>2, StoredStays, PublishedStays
<1> QED BY <1>10, <1>11

\* The record in the forwarder's hand goes to the channel of core0's Redis logger.
LEMMA ResendCounts ==
    ASSUME LogTypeOK, LogTypeOK', RecordInv, LostInv, [LogNext]_logVars, Resend, NEW m \in Msgs
    PROVE  /\ CountsKept(m)
           /\ m \in written' /\ Accepted(m) /\ faults' = 0 => Stored(m)' /\ Published(m)'
<1>c. Core0 \in Agents /\ From[m] \in Agents /\ Core0 \notin Cores /\ \A r \in Redises : list'[r] = list[r]
  BY LogsAssumption DEF Agents, Resend
<1>w. /\ AtHome(m) \in Nat /\ AtHome(m)' \in Nat /\ On(m, Core0) \in Nat /\ On(m, Core0)' \in Nat
      /\ \A S : In(m, S) \in {0, 1}
      /\ ToPublic(m) = AtHome(m) + In(m, forwarder.rec) + On(m, Core0)
      /\ ToPublic(m)' = AtHome(m)' + In(m, forwarder'.rec) + On(m, Core0)'
      /\ ToDatabase(m) = AtHome(m) + In(m, batch) + In(m, db)
      /\ ToDatabase(m)' = AtHome(m)' + In(m, batch') + In(m, db')
  BY WayParts
<1>1. UNCHANGED <<hasPublic, toLog, written, sending, pusher, conn, list, batch, db, faults>> BY DEF Resend
<1>2. PICK x \in Msgs : forwarder.rec = {x} BY DEF Resend, RecordInv
<1>3. ch' = [ch EXCEPT ![Core0] = Append(@, x)] BY <1>2, TheRecordIs DEF Resend
<1>4. /\ Times(m, ch'[Core0]) = Times(m, ch[Core0]) + (IF x = m THEN 1 ELSE 0)
      /\ \A b \in Agents : b # Core0 => ch'[b] = ch[b]
  <2>1. ch[Core0] \in Seq(Msgs) BY <1>c DEF LogTypeOK
  <2>2. ch'[Core0] = Append(ch[Core0], x) /\ \A b \in Agents : b # Core0 => ch'[b] = ch[b]
    BY <1>c, <1>3 DEF LogTypeOK
  <2> QED BY <2>1, <2>2, TimesAppend
<1>5. forwarder'.rec = {} BY DEF Resend, LogTypeOK
<1>6. In(m, forwarder.rec) = (IF x = m THEN 1 ELSE 0) /\ In(m, forwarder'.rec) = 0 BY <1>2, <1>5 DEF In
<1>q. \A a \in Agents : /\ Queued(m, a)' = Queued(m, a) /\ Queued(m, a) \in {0, 1}
                        /\ InHand(m, a)' = InHand(m, a) /\ InHand(m, a) \in {0, 1}
  BY <1>1 DEF Queued, InHand, In
<1>7. On(m, Core0)' = On(m, Core0) + (IF x = m THEN 1 ELSE 0)
  <2>1. /\ On(m, Core0) = Queued(m, Core0) + Times(m, ch[Core0]) + Times(m, list[RedisOf(Core0)]) + InHand(m, Core0)
        /\ On(m, Core0)' = Queued(m, Core0)' + Times(m, ch'[Core0]) + Times(m, list'[RedisOf(Core0)])
                             + InHand(m, Core0)'
        /\ Times(m, ch[Core0]) \in Nat /\ Times(m, list[RedisOf(Core0)]) \in Nat
    BY <1>c, OnParts
  <2> QED BY <1>c, <1>1, <1>4, <1>q, <2>1
<1>8. AtHome(m)' = AtHome(m)
  <2>1. CASE From[m] \in Cores
    <3>1. ch'[From[m]] = ch[From[m]] /\ From[m] # Core0 BY <1>c, <1>4, <2>1
    <3>2. On(m, From[m])' = On(m, From[m]) + Queued(m, From[m])' - Queued(m, From[m]) BY <1>c, <1>1, <3>1, OnStays
    <3>3. On(m, From[m]) \in Nat BY <1>c, OnParts
    <3> QED BY <1>c, <1>q, <2>1, <3>2, <3>3 DEF AtHome
  <2>2. CASE From[m] \notin Cores BY <2>2 DEF AtHome
  <2> QED BY <2>1, <2>2
<1>9. ToPublic(m)' = ToPublic(m) /\ ToDatabase(m)' = ToDatabase(m) BY <1>w, <1>1, <1>6, <1>7, <1>8
<1>10. CountsKept(m) BY <1>w, <1>1, <1>9 DEF CountsKept
<1>11. ASSUME m \in written', Accepted(m), faults' = 0 PROVE Stored(m)' /\ Published(m)'
  <2>1. ToDatabase(m) >= 1 => Stored(m)' BY <1>9 DEF Stored
  <2>2. (\E n \in db \ {m} : Key(n) = Key(m)) => Stored(m)' BY <1>1 DEF Stored, Key
  <2> QED BY <1>1, <1>9, <1>11, <2>1, <2>2, StoredStays, PublishedStays
<1> QED BY <1>10, <1>11

\* A row is stored: it may replace one with the same key, and is dropped without an id.
LEMMA StoreCounts ==
    ASSUME LogTypeOK, LogTypeOK', RecordInv, LostInv, [LogNext]_logVars, NEW x \in Msgs, Store(x), NEW m \in Msgs
    PROVE  /\ CountsKept(m)
           /\ m \in written' /\ Accepted(m) /\ faults' = 0 => Stored(m)' /\ Published(m)'
<1>c. Core0 \in Agents /\ From[m] \in Agents BY LogsAssumption DEF Agents
<1>w. /\ AtHome(m) \in Nat /\ AtHome(m)' \in Nat /\ On(m, Core0) \in Nat /\ On(m, Core0)' \in Nat
      /\ \A S : In(m, S) \in {0, 1}
      /\ ToPublic(m) = AtHome(m) + In(m, forwarder.rec) + On(m, Core0)
      /\ ToPublic(m)' = AtHome(m)' + In(m, forwarder'.rec) + On(m, Core0)'
      /\ ToDatabase(m) = AtHome(m) + In(m, batch) + In(m, db)
      /\ ToDatabase(m)' = AtHome(m)' + In(m, batch') + In(m, db')
  BY WayParts
<1>1. UNCHANGED <<hasPublic, toLog, written, sending, ch, pusher, conn, list, forwarder, faults>> BY DEF Store
<1>2. AtHome(m)' = AtHome(m) /\ On(m, Core0)' = On(m, Core0)
  BY <1>1 DEF AtHome, On, Times, In, RedisOf
<1>3. ToPublic(m)' = ToPublic(m) BY <1>w, <1>1, <1>2
<1>4. x \in batch /\ batch' = batch \ {x} BY DEF Store
<1>5. /\ In(m, batch') + In(m, db') <= In(m, batch) + In(m, db)
      /\ In(m, batch) + In(m, db) >= 1 => \/ In(m, batch') + In(m, db') >= 1 \/ CommandOf[m] = NoId
                                          \/ x # m /\ x \in db' /\ Key(x) = Key(m)
  <2>1. CASE m = x
    <3>1. In(m, batch') = 0 /\ In(m, batch) = 1 BY <1>4, <2>1 DEF In
    <3>2. CommandOf[m] # NoId => In(m, db') = 1 BY <2>1 DEF Store, In
    <3>3. CommandOf[m] = NoId => In(m, db') = In(m, db) BY <2>1 DEF Store, In
    <3> QED BY <1>w, <3>1, <3>2, <3>3
  <2>2. CASE m # x
    <3>1. In(m, batch') = In(m, batch) BY <1>4, <2>2 DEF In
    <3>2. m \in db' => m \in db BY <2>2 DEF Store
    <3>3. m \in db /\ m \notin db' => x \in db' /\ Key(x) = Key(m) BY <2>2 DEF Store
    <3>4. CASE m \in db /\ m \notin db' BY <1>w, <2>2, <3>1, <3>3, <3>4 DEF In
    <3>5. CASE ~(m \in db /\ m \notin db')
      <4>1. In(m, db') = In(m, db) BY <3>2, <3>5 DEF In
      <4> QED BY <1>w, <3>1, <4>1
    <3> QED BY <3>4, <3>5
  <2> QED BY <2>1, <2>2
<1>6. ToDatabase(m)' <= ToDatabase(m) BY <1>w, <1>2, <1>5
<1>7. CountsKept(m) BY <1>w, <1>1, <1>3, <1>6 DEF CountsKept
<1>8. ASSUME m \in written', Accepted(m), faults' = 0 PROVE Stored(m)' /\ Published(m)'
  <2>1. ASSUME ToDatabase(m) >= 1 PROVE Stored(m)'
    <3>1. CASE AtHome(m) >= 1
      <4>1. ToDatabase(m)' >= 1 BY <1>w, <1>2, <3>1
      <4> QED BY <4>1 DEF Stored
    <3>2. CASE ~(AtHome(m) >= 1)
      <4>1. In(m, batch) + In(m, db) >= 1 BY <1>w, <2>1, <3>2
      <4>2. CASE In(m, batch') + In(m, db') >= 1
        <5>1. ToDatabase(m)' >= 1 BY <1>w, <4>2
        <5> QED BY <5>1 DEF Stored
      <4>3. CASE CommandOf[m] = NoId BY <4>3 DEF Stored
      <4>4. CASE x # m /\ x \in db' /\ Key(x) = Key(m) BY <4>4 DEF Stored, Key
      <4> QED BY <1>5, <4>1, <4>2, <4>3, <4>4
    <3> QED BY <3>1, <3>2
  <2>2. ASSUME NEW n \in db \ {m}, Key(n) = Key(m) PROVE Stored(m)'
    <3>1. CASE n \in db' BY <2>2, <3>1 DEF Stored, Key
    <3>2. CASE n \notin db'
      <4>1. Key(n) = Key(x) /\ x \in db' BY <3>2 DEF Store
      <4>2. CASE x # m BY <2>2, <4>1, <4>2 DEF Stored, Key
      <4>3. CASE x = m
        <5>1. In(m, db') = 1 BY <4>1, <4>3 DEF In
        <5>2. ToDatabase(m)' >= 1 BY <1>w, <5>1
        <5> QED BY <5>2 DEF Stored
      <4> QED BY <4>2, <4>3
    <3> QED BY <3>1, <3>2
  <2> QED BY <1>1, <1>3, <1>8, <2>1, <2>2, StoredStays, PublishedStays
<1> QED BY <1>7, <1>8

-----------------------------------------------------------------------------
(* The theorems                                                            *)

\* What every step keeps.
LogsInv ==
    /\ LogTypeOK /\ RecordInv /\ HomeInv
    /\ ConnInv /\ SuffixInv
    /\ LossInv /\ LengthInv
    /\ CountInv /\ LostInv

\* Nothing is under way when the agents start.
LEMMA LogsStart == LogInit => LogsInv
<1> SUFFICES ASSUME LogInit PROVE LogsInv OBVIOUS
<1>c. Core0 \in Agents /\ Cores \subseteq Agents /\ MaxFaults \in Nat /\ QueueSize \in Nat
  BY LogsAssumption DEF Agents
<1>r. \A a \in Agents : RedisOf(a) \in Redises BY DEF RedisOf, Redises
<1>w. Waiting \in PusherTypes /\ Waiting.pc = "get" /\ Waiting.rec = {} BY DEF Waiting, PusherTypes
<1>1. /\ \A a \in Agents : pusher[a] = Waiting /\ ch[a] = <<>> /\ conn[a] = "broken" /\ lostUp[a] = 0
      /\ \A r \in Redises : list[r] = <<>> /\ pushed[r] = <<>>
      /\ forwarder.pc = "dial" /\ forwarder.rec = {}
      /\ sending = {} /\ batch = {} /\ db = {} /\ written = {} /\ faults = 0 /\ up = Redises
  BY DEF LogInit
<1>2. LogTypeOK
  <2>1. toLog \subseteq Msgs /\ hasPublic \in BOOLEAN BY LogsAssumption DEF LogInit
  <2>2. pusher \in [Agents -> [pc : {"get", "wait", "rpush", "ltrim"}, rec : SUBSET Msgs]]
    BY <1>w DEF LogInit, PusherTypes
  <2>3. forwarder \in [pc : {"dial", "blpop", "send"}, conn : {"ok", "broken"}, rec : SUBSET Msgs]
    BY DEF LogInit
  <2>4. faults \in 0 .. MaxFaults BY <1>c, <1>1
  <2> QED BY <2>1, <2>2, <2>3, <2>4 DEF LogInit, LogTypeOK
<1>3. RecordInv BY <1>1, <1>w DEF RecordInv
<1>t. \A m : Times(m, <<>>) = 0 BY TimesEmpty
<1>4. HomeInv BY <1>c, <1>1, <1>w, <1>t DEF HomeInv, Redises
<1>5. ConnInv BY <1>1, <1>w DEF ConnInv
<1>6. SuffixInv
  <2>1. <<>> \in Seq(Msgs) OBVIOUS
  <2>2. EndOf(<<>>, <<>>) BY <2>1, EndSelf
  <2> QED BY <1>1, <2>2 DEF SuffixInv
<1>7. LossInv
  <2>1. \A a \in Agents : ~AtRisk(a) BY <1>r, <1>1, <1>w DEF AtRisk
  <2> QED BY <1>1, <2>1 DEF LossInv
<1>8. LengthInv
  <2>1. ASSUME NEW r \in Redises PROVE Trimmers(r) = {} BY <1>1, <1>w DEF Trimmers, PushersOf
  <2>2. Cardinality({}) = 0 BY FS_EmptySet
  <2>3. ASSUME NEW r \in Redises PROVE Cardinality(PushersOf(r)) \in Nat BY PushersCount
  <2>4. \A r \in Redises : Len(list[r]) = 0 BY <1>1
  <2>5. ASSUME NEW r \in Redises
        PROVE  Len(list[r]) <= QueueSize + Cardinality(Trimmers(r)) + faults * Cardinality(PushersOf(r))
    <3>1. Cardinality(Trimmers(r)) = 0 BY <2>1, <2>2
    <3>2. faults * Cardinality(PushersOf(r)) = 0 BY <1>1, <2>3
    <3> QED BY <1>c, <2>4, <3>1, <3>2
  <2> QED BY <2>5 DEF LengthInv
<1>9. CountInv
  <2> SUFFICES ASSUME NEW m \in Msgs
               PROVE  In(m, toLog) + ToPublic(m) <= 1 /\ In(m, toLog) + ToDatabase(m) <= 1
    BY DEF CountInv
  <2>1. \A a \in Agents : On(m, a) = 0 BY <1>1, <1>r, <1>t DEF On, In
  <2>2. AtHome(m) = 0 BY <1>c, <2>1 DEF AtHome
  <2>3. ToPublic(m) = 0 /\ ToDatabase(m) = 0 BY <1>c, <1>1, <2>1, <2>2 DEF ToPublic, ToDatabase, In
  <2> QED BY <2>3 DEF In
<1>10. LostInv BY <1>1 DEF LostInv
<1> QED BY <1>2, <1>3, <1>4, <1>5, <1>6, <1>7, <1>8, <1>9, <1>10 DEF LogsInv

\* The counts are numbers.
LEMMA WayNumbers ==
    ASSUME LogTypeOK, NEW m \in Msgs
    PROVE  ToPublic(m) \in Nat /\ ToDatabase(m) \in Nat
<1>1. Core0 \in Agents /\ From[m] \in Agents BY LogsAssumption DEF Agents
<1>2. ASSUME NEW a \in Agents PROVE On(m, a) \in Nat
  <2>1. ch[a] \in Seq(Msgs) /\ list[RedisOf(a)] \in Seq(Msgs) BY DEF LogTypeOK, RedisOf, Redises
  <2>2. Times(m, ch[a]) \in Nat /\ Times(m, list[RedisOf(a)]) \in Nat BY <2>1, TimesType
  <2> QED BY <2>2 DEF On, In
<1>3. AtHome(m) \in Nat BY <1>1, <1>2 DEF AtHome
<1> QED BY <1>1, <1>2, <1>3 DEF ToPublic, ToDatabase, In

\* A message is at one place and, if it was accepted and nothing failed, not lost.
LEMMA CountStep ==
    ASSUME LogsInv, LogTypeOK', RecordInv', [LogNext]_logVars
    PROVE  CountInv' /\ LostInv'
<1> DEFINE Kept(m) == /\ CountsKept(m)
                      /\ m \in written' /\ Accepted(m) /\ faults' = 0 => Stored(m)' /\ Published(m)'
<1>1. ASSUME NEW m \in Msgs PROVE Kept(m)
  <2>1. CASE Within BY <2>1, WithinCounts DEF LogsInv
  <2>2. ASSUME NEW x \in Msgs, Write(x) PROVE Kept(m) BY <2>2, WriteCounts DEF LogsInv
  <2>3. ASSUME NEW x \in Msgs, Store(x) PROVE Kept(m) BY <2>3, StoreCounts DEF LogsInv
  <2>4. CASE Forward BY <2>4, ForwardCounts DEF LogsInv
  <2>5. CASE Resend BY <2>5, ResendCounts DEF LogsInv
  <2>6. \/ Within \/ Forward \/ Resend \/ \E x \in Msgs : Write(x) \/ Store(x)
    BY DEF LogNext, Within, ForwarderStep, FaultStep
  <2> HIDE DEF Kept
  <2> QED BY <2>1, <2>2, <2>3, <2>4, <2>5, <2>6
<1>2. CountInv'
  <2> SUFFICES ASSUME NEW m \in Msgs
               PROVE  In(m, toLog') + ToPublic(m)' <= 1 /\ In(m, toLog') + ToDatabase(m)' <= 1
    BY DEF CountInv, In
  <2>1. /\ ToPublic(m) \in Nat /\ ToPublic(m)' \in Nat /\ ToDatabase(m) \in Nat /\ ToDatabase(m)' \in Nat
        /\ In(m, toLog) \in {0, 1} /\ In(m, toLog') \in {0, 1}
    <3>1. LogTypeOK BY DEF LogsInv
    <3>2. /\ AtHome(m) \in Nat /\ AtHome(m)' \in Nat /\ On(m, Core0) \in Nat /\ On(m, Core0)' \in Nat
          /\ \A S : In(m, S) \in {0, 1}
          /\ ToPublic(m) = AtHome(m) + In(m, forwarder.rec) + On(m, Core0)
          /\ ToPublic(m)' = AtHome(m)' + In(m, forwarder'.rec) + On(m, Core0)'
          /\ ToDatabase(m) = AtHome(m) + In(m, batch) + In(m, db)
          /\ ToDatabase(m)' = AtHome(m)' + In(m, batch') + In(m, db')
      BY <3>1, WayParts
    <3> QED BY <3>2
  <2>2. In(m, toLog) + ToPublic(m) <= 1 /\ In(m, toLog) + ToDatabase(m) <= 1 BY DEF LogsInv, CountInv
  <2>3. CountsKept(m) BY <1>1
  <2> QED BY <2>1, <2>2, <2>3 DEF CountsKept
<1>3. LostInv'
  <2>1. written' \subseteq Msgs BY DEF LogTypeOK
  <2>2. ASSUME NEW m \in written', Accepted(m), faults' = 0 PROVE Stored(m)' /\ Published(m)'
    BY <1>1, <2>1, <2>2
  <2>3. \A m : Accepted(m)' <=> Accepted(m) BY DEF Accepted, Handled, IsLoggable
  <2> QED BY <2>2, <2>3 DEF LostInv
<1> QED BY <1>2, <1>3

\* The inductive invariant of the way of the messages: RedisLogger, Forwarder, and
\* LogRecord of the database, under every order of their steps and the faults.
THEOREM LogsInvariance == LogSpec => []LogsInv
<1>1. ASSUME LogsInv, [LogNext]_logVars PROVE LogsInv'
  <2>1. LogTypeOK' BY <1>1, LogTypeStep DEF LogsInv
  <2>2. RecordInv' BY <1>1, RecordStep DEF LogsInv
  <2>3. HomeInv' BY <1>1, <2>1, HomeStep DEF LogsInv
  <2>4. ConnInv' BY <1>1, <2>1, ConnStep DEF LogsInv
  <2>5. SuffixInv' BY <1>1, <2>1, SuffixStep DEF LogsInv
  <2>6. LossInv' BY <1>1, <2>1, LossStep DEF LogsInv
  <2>7. LengthInv' BY <1>1, <2>1, LengthStep DEF LogsInv
  <2>8. CountInv' /\ LostInv' BY <1>1, <2>1, <2>2, CountStep
  <2> QED BY <2>1, <2>2, <2>3, <2>4, <2>5, <2>6, <2>7, <2>8 DEF LogsInv
<1> QED BY <1>1, LogsStart, PTL DEF LogSpec

\* Channels, lists and records hold messages, and the loggers are at known places.
THEOREM LogsTypeCorrect == LogSpec => []LogTypeOK
<1>1. LogsInv => LogTypeOK BY DEF LogsInv
<1> QED BY <1>1, LogsInvariance, PTL

\* A message that a runner has handed to its loggers is never at two places on its way to
\* the database or to the public list, and one that is accepted is lost only by a fault, the
\* limit of a list, a row with its key, or for want of an id.
THEOREM LogsConserved == LogSpec => []Conserved
<1>1. ASSUME LogsInv PROVE Conserved
  <2> SUFFICES ASSUME NEW m \in written
      PROVE  /\ ToPublic(m) <= 1 /\ ToDatabase(m) <= 1
             /\ (Accepted(m) /\ faults = 0) =>
                  /\ \/ ToDatabase(m) = 1
                     \/ CommandOf[m] = NoId \/ Outdated(m, "private")
                     \/ \E n \in db \ {m} : Key(n) = Key(m)
                  /\ \/ ToPublic(m) = 1 \/ ~hasPublic
                     \/ \E r \in Redises : Outdated(m, r)
    BY DEF Conserved
  <2>1. m \in Msgs BY <1>1 DEF LogsInv, LogTypeOK
  <2>2. In(m, toLog) + ToPublic(m) <= 1 /\ In(m, toLog) + ToDatabase(m) <= 1
    BY <1>1, <2>1 DEF LogsInv, CountInv
  <2>3. ToPublic(m) \in Nat /\ ToDatabase(m) \in Nat BY <1>1, <2>1, WayNumbers DEF LogsInv
  <2>4. In(m, toLog) \in {0, 1} BY DEF In
  <2>5. ToPublic(m) <= 1 /\ ToDatabase(m) <= 1 BY <2>2, <2>3, <2>4
  <2>6. ASSUME Accepted(m), faults = 0 PROVE Stored(m) /\ Published(m) BY <1>1, <2>6 DEF LogsInv, LostInv
  <2>7. /\ ToDatabase(m) >= 1 => ToDatabase(m) = 1
        /\ ToPublic(m) >= 1 => ToPublic(m) = 1
    BY <2>3, <2>5
  <2> QED BY <2>5, <2>6, <2>7 DEF Stored, Published
<1> QED BY <1>1, LogsInvariance, PTL

\* The list core.logs grows past the limit that push trims it to only by what pushers have
\* yet to trim, and by one round of them for each fault.
THEOREM LogsListBounded == LogSpec => []ListBounded
<1>1. ASSUME LogsInv PROVE ListBounded
  <2> SUFFICES ASSUME NEW r \in Redises
      PROVE  Len(list[r]) <= QueueSize + Cardinality({a \in PushersOf(r) : pusher[a].pc = "ltrim"})
                               + faults * Cardinality(PushersOf(r))
    BY DEF ListBounded
  <2> DEFINE All == {a \in PushersOf(r) : pusher[a].pc = "ltrim"}
  <2>1. IsFiniteSet(All) /\ Cardinality(All) \in Nat /\ Cardinality(PushersOf(r)) \in Nat BY PushersCount
  <2>2. Trimmers(r) \subseteq All BY DEF Trimmers
  <2>3. Cardinality(Trimmers(r)) <= Cardinality(All) /\ Cardinality(Trimmers(r)) \in Nat
    BY <2>1, <2>2, FS_Subset, FS_CardinalityType
  <2>4. Len(list[r]) <= QueueSize + Cardinality(Trimmers(r)) + faults * Cardinality(PushersOf(r))
    BY <1>1 DEF LogsInv, LengthInv
  <2>5. faults \in Nat /\ QueueSize \in Nat /\ Len(list[r]) \in Nat
    BY <1>1, LogsAssumption DEF LogsInv, LogTypeOK
  <2>6. faults * Cardinality(PushersOf(r)) \in Nat BY <2>1, <2>5
  <2> HIDE DEF All
  <2>7. Len(list[r]) <= QueueSize + Cardinality(All) + faults * Cardinality(PushersOf(r))
    <3>1. PICK q, l, a, t, fk \in Nat :
             /\ q = QueueSize /\ l = Len(list[r]) /\ a = Cardinality(All) /\ t = Cardinality(Trimmers(r))
             /\ fk = faults * Cardinality(PushersOf(r))
      BY <2>1, <2>3, <2>5, <2>6
    <3>2. l <= q + t + fk /\ t <= a BY <2>3, <2>4, <3>1
    <3>3. l <= q + a + fk BY <3>2
    <3> QED BY <3>1, <3>3
  <2> QED BY <2>7 DEF All
<1> QED BY <1>1, LogsInvariance, PTL

\* Each fault costs a pusher whose Redis answers at most one record: push gives a connection
\* that failed back to the pool and starts anew.
THEOREM LogsOneLossPerFault == LogSpec => []OneLossPerFault
<1>1. ASSUME LogsInv PROVE OneLossPerFault
  <2>1. faults \in Nat /\ \A a \in Agents : lostUp[a] \in Nat
    BY <1>1, LogsAssumption DEF LogsInv, LogTypeOK
  <2>2. \A a \in Agents : lostUp[a] + (IF AtRisk(a) THEN 1 ELSE 0) <= faults BY <1>1 DEF LogsInv, LossInv
  <2> QED BY <2>1, <2>2 DEF OneLossPerFault
<1> QED BY <1>1, LogsInvariance, PTL

-----------------------------------------------------------------------------
(* The buffer of the statistics                                            *)

\* The baskets that hold a statistic.
With(s, B) == {b \in B : Occurs(s, b) > 0}
Carrying(s, P) == {p \in P : Occurs(s, p.basket) > 0}

PushTypes == [basket : Seq(Stats), conn : {"ok", "broken", "error"}]

\* Baskets are not empty, have nothing twice, and are finitely many; without an outage
\* every connection works.
StatsInv ==
    /\ StatsTypeOK
    /\ pushing \subseteq PushTypes
    /\ IsFiniteSet(baskets) /\ IsFiniteSet(pushing)
    /\ \A b \in baskets : b # <<>> /\ \A s \in Stats : Occurs(s, b) <= 1
    /\ \A p \in pushing : p.basket # <<>> /\ \A s \in Stats : Occurs(s, p.basket) <= 1
    /\ toFlush \cap appending = {}
    /\ outages = 0 => statsUp /\ idle \in Seq({"ok"}) /\ \A p \in pushing : p.conn = "ok"
    /\ StatsConserved

\* Counting in a buffer is counting in a list.
LEMMA OccursIs ==
    ASSUME NEW t \in Seq(Stats), NEW s
    PROVE  /\ Occurs(s, t) = Times(s, t) /\ Occurs(s, t) \in Nat
           /\ Occurs(s, t) > 0 <=> \E i \in DOMAIN t : t[i] = s
<1>1. Occurs(s, t) = Times(s, t) BY DEF Occurs, Times
<1> QED BY <1>1, TimesType

\* A basket that is not empty has something.
LEMMA BasketHas ==
    ASSUME NEW t \in Seq(Stats), t # <<>>
    PROVE  \E s \in Stats : Occurs(s, t) > 0
<1>1. 1 \in DOMAIN t /\ t[1] \in Stats OBVIOUS
<1> QED BY <1>1, OccursIs

\* Two sequences one after the other have what both have.
LEMMA OccursConcat ==
    ASSUME NEW t \in Seq(Stats), NEW u \in Seq(Stats), NEW s
    PROVE  Occurs(s, t \o u) = Occurs(s, t) + Occurs(s, u)
<1> DEFINE D == {i \in DOMAIN t : t[i] = s}
           E == {i \in DOMAIN u : u[i] = s}
           A == {i \in DOMAIN (t \o u) : (t \o u)[i] = s}
           F == {i \in A : i > Len(t)}
           f == [i \in E |-> i + Len(t)]
<1>1. /\ Len(t) \in Nat /\ Len(u) \in Nat /\ Len(t \o u) = Len(t) + Len(u) /\ t \o u \in Seq(Stats)
      /\ DOMAIN (t \o u) = 1 .. (Len(t) + Len(u)) /\ DOMAIN t = 1 .. Len(t) /\ DOMAIN u = 1 .. Len(u)
      /\ \A i \in 1 .. Len(t) : (t \o u)[i] = t[i]
      /\ \A i \in 1 .. Len(u) : (t \o u)[i + Len(t)] = u[i]
  <2>1. Len(t) \in Nat /\ Len(u) \in Nat /\ DOMAIN t = 1 .. Len(t) /\ DOMAIN u = 1 .. Len(u) OBVIOUS
  <2>2. Len(t \o u) = Len(t) + Len(u) /\ t \o u \in Seq(Stats) OBVIOUS
  <2>3. DOMAIN (t \o u) = 1 .. (Len(t) + Len(u)) BY <2>2
  <2>4. ASSUME NEW i \in 1 .. (Len(t) + Len(u))
        PROVE  (t \o u)[i] = IF i <= Len(t) THEN t[i] ELSE u[i - Len(t)]
    OBVIOUS
  <2>5. ASSUME NEW i \in 1 .. Len(t) PROVE (t \o u)[i] = t[i] BY <2>1, <2>4
  <2>6. ASSUME NEW i \in 1 .. Len(u) PROVE (t \o u)[i + Len(t)] = u[i]
    <3>1. i + Len(t) \in 1 .. (Len(t) + Len(u)) /\ ~(i + Len(t) <= Len(t)) /\ (i + Len(t)) - Len(t) = i
      BY <2>1
    <3> QED BY <2>4, <3>1
  <2> QED BY <2>1, <2>2, <2>3, <2>5, <2>6
<1>2. /\ IsFiniteSet(D) /\ IsFiniteSet(E) /\ IsFiniteSet(A)
  BY <1>1, TimesType
<1>3. IsFiniteSet(F) BY <1>2, FS_Subset
<1>4. f \in Bijection(E, F)
  <2>1. f \in [E -> F] BY <1>1
  <2>2. \A i, j \in E : f[i] = f[j] => i = j BY <1>1
  <2>3. ASSUME NEW j \in F PROVE \E i \in E : f[i] = j
    <3>1. j \in 1 .. (Len(t) + Len(u)) /\ j > Len(t) /\ (t \o u)[j] = s BY <1>1
    <3>2. j - Len(t) \in 1 .. Len(u) /\ (j - Len(t)) + Len(t) = j BY <1>1, <3>1
    <3>3. u[j - Len(t)] = s BY <1>1, <3>1, <3>2
    <3>4. j - Len(t) \in E /\ f[j - Len(t)] = j BY <1>1, <3>2, <3>3
    <3> QED BY <3>4
  <2> QED BY <2>1, <2>2, <2>3 DEF Bijection, Injection, IsInjective, Surjection
<1>5. Cardinality(F) = Cardinality(E) BY <1>2, <1>4, FS_Bijection DEF ExistsBijection
<1>6. A = D \cup F /\ D \cap F = {}
  <2>1. D \subseteq A /\ D \cap F = {} BY <1>1
  <2>2. ASSUME NEW i \in A, i \notin F PROVE i \in D BY <1>1, <2>2
  <2> QED BY <2>1, <2>2
<1>7. Cardinality(A) = Cardinality(D) + Cardinality(F) - Cardinality(D \cap F)
  BY <1>2, <1>3, <1>6, FS_Union
<1>8. Cardinality({}) = 0 BY FS_EmptySet
<1>9. Cardinality(D) \in Nat /\ Cardinality(E) \in Nat BY <1>2, FS_CardinalityType
<1>10. Occurs(s, t \o u) = Cardinality(A) /\ Occurs(s, t) = Cardinality(D) /\ Occurs(s, u) = Cardinality(E)
  BY DEF Occurs
<1>11. Cardinality(D \cap F) = 0 BY <1>6, <1>8
<1> HIDE DEF D, E, A, F, f
<1>12. Cardinality(A) = Cardinality(D) + Cardinality(E) BY <1>5, <1>7, <1>9, <1>11
<1> QED BY <1>10, <1>12

\* One basket more, or one less.
LEMMA WithOne ==
    ASSUME NEW B, IsFiniteSet(B), NEW b, NEW s
    PROVE  /\ IsFiniteSet(B \cup {b}) /\ IsFiniteSet(B \ {b}) /\ Cardinality(With(s, B)) \in Nat
           /\ b \notin B => Cardinality(With(s, B \cup {b}))
                              = Cardinality(With(s, B)) + (IF Occurs(s, b) > 0 THEN 1 ELSE 0)
           /\ b \in B => Cardinality(With(s, B))
                              = Cardinality(With(s, B \ {b})) + (IF Occurs(s, b) > 0 THEN 1 ELSE 0)
           /\ b \in B /\ Occurs(s, b) > 0 => Cardinality(With(s, B)) > 0
<1>1. IsFiniteSet(B \cup {b}) /\ IsFiniteSet(B \ {b}) BY FS_AddElement, FS_RemoveElement
<1>2. ASSUME NEW S, IsFiniteSet(S) PROVE IsFiniteSet(With(s, S)) /\ Cardinality(With(s, S)) \in Nat
  BY <1>2, FS_Subset, FS_CardinalityType DEF With
<1>3. ASSUME NEW S, IsFiniteSet(S), b \notin S
      PROVE  Cardinality(With(s, S \cup {b})) = Cardinality(With(s, S)) + (IF Occurs(s, b) > 0 THEN 1 ELSE 0)
  <2>1. CASE Occurs(s, b) > 0
    <3>1. With(s, S \cup {b}) = With(s, S) \cup {b} /\ b \notin With(s, S) BY <1>3, <2>1 DEF With
    <3>2. IsFiniteSet(With(s, S)) /\ Cardinality(With(s, S)) \in Nat BY <1>2, <1>3
    <3>3. Cardinality(With(s, S) \cup {b}) = Cardinality(With(s, S)) + 1 BY <3>1, <3>2, FS_AddElement
    <3> QED BY <2>1, <3>1, <3>3
  <2>2. CASE ~(Occurs(s, b) > 0)
    <3>1. With(s, S \cup {b}) = With(s, S) BY <2>2 DEF With
    <3>2. Cardinality(With(s, S)) \in Nat BY <1>2, <1>3
    <3> QED BY <2>2, <3>1, <3>2
  <2> QED BY <2>1, <2>2
<1>4. b \in B => B = (B \ {b}) \cup {b} OBVIOUS
<1>5. b \in B => Cardinality(With(s, B))
                   = Cardinality(With(s, B \ {b})) + (IF Occurs(s, b) > 0 THEN 1 ELSE 0)
  BY <1>1, <1>3, <1>4
<1>6. /\ Cardinality(With(s, B)) \in Nat /\ Cardinality(With(s, B \ {b})) \in Nat
  BY <1>1, <1>2
<1>7. b \in B /\ Occurs(s, b) > 0 => Cardinality(With(s, B)) > 0 BY <1>5, <1>6
<1> QED BY <1>1, <1>3, <1>5, <1>6, <1>7

\* One goroutine with a basket more, or one less.
LEMMA CarryingOne ==
    ASSUME NEW P, IsFiniteSet(P), NEW p, NEW s
    PROVE  /\ IsFiniteSet(P \cup {p}) /\ IsFiniteSet(P \ {p}) /\ Cardinality(Carrying(s, P)) \in Nat
           /\ p \notin P => Cardinality(Carrying(s, P \cup {p}))
                              = Cardinality(Carrying(s, P)) + (IF Occurs(s, p.basket) > 0 THEN 1 ELSE 0)
           /\ p \in P => Cardinality(Carrying(s, P))
                              = Cardinality(Carrying(s, P \ {p})) + (IF Occurs(s, p.basket) > 0 THEN 1 ELSE 0)
           /\ p \in P /\ Occurs(s, p.basket) > 0 => Cardinality(Carrying(s, P)) > 0
<1>1. IsFiniteSet(P \cup {p}) /\ IsFiniteSet(P \ {p}) BY FS_AddElement, FS_RemoveElement
<1>2. ASSUME NEW S, IsFiniteSet(S) PROVE IsFiniteSet(Carrying(s, S)) /\ Cardinality(Carrying(s, S)) \in Nat
  BY <1>2, FS_Subset, FS_CardinalityType DEF Carrying
<1>3. ASSUME NEW S, IsFiniteSet(S), p \notin S
      PROVE  Cardinality(Carrying(s, S \cup {p}))
               = Cardinality(Carrying(s, S)) + (IF Occurs(s, p.basket) > 0 THEN 1 ELSE 0)
  <2>1. CASE Occurs(s, p.basket) > 0
    <3>1. Carrying(s, S \cup {p}) = Carrying(s, S) \cup {p} /\ p \notin Carrying(s, S)
      BY <1>3, <2>1 DEF Carrying
    <3>2. IsFiniteSet(Carrying(s, S)) /\ Cardinality(Carrying(s, S)) \in Nat BY <1>2, <1>3
    <3>3. Cardinality(Carrying(s, S) \cup {p}) = Cardinality(Carrying(s, S)) + 1 BY <3>1, <3>2, FS_AddElement
    <3> QED BY <2>1, <3>1, <3>3
  <2>2. CASE ~(Occurs(s, p.basket) > 0)
    <3>1. Carrying(s, S \cup {p}) = Carrying(s, S) BY <2>2 DEF Carrying
    <3>2. Cardinality(Carrying(s, S)) \in Nat BY <1>2, <1>3
    <3> QED BY <2>2, <3>1, <3>2
  <2> QED BY <2>1, <2>2
<1>4. p \in P => P = (P \ {p}) \cup {p} OBVIOUS
<1>5. p \in P => Cardinality(Carrying(s, P))
                   = Cardinality(Carrying(s, P \ {p})) + (IF Occurs(s, p.basket) > 0 THEN 1 ELSE 0)
  BY <1>1, <1>3, <1>4
<1>6. /\ Cardinality(Carrying(s, P)) \in Nat /\ Cardinality(Carrying(s, P \ {p})) \in Nat
  BY <1>1, <1>2
<1>7. p \in P /\ Occurs(s, p.basket) > 0 => Cardinality(Carrying(s, P)) > 0 BY <1>5, <1>6
<1> QED BY <1>1, <1>3, <1>5, <1>6, <1>7

\* The parts of a count.
LEMMA CopiesParts ==
    ASSUME StatsInv, NEW s \in Stats
    PROVE  /\ Copies(s) = Cardinality(With(s, baskets)) + Cardinality(Carrying(s, pushing))
                            + Occurs(s, array) + Occurs(s, statsList) + In(s, toFlush \cup appending)
           /\ Cardinality(With(s, baskets)) \in Nat /\ Cardinality(Carrying(s, pushing)) \in Nat
           /\ Occurs(s, array) \in Nat /\ Occurs(s, statsList) \in Nat
           /\ In(s, toFlush \cup appending) \in {0, 1}
           /\ Copies(s) <= 1 /\ (outages = 0 => Copies(s) = 1)
<1>1. Copies(s) = Cardinality(With(s, baskets)) + Cardinality(Carrying(s, pushing))
                    + Occurs(s, array) + Occurs(s, statsList) + In(s, toFlush \cup appending)
  BY DEF Copies, With, Carrying, In
<1>2. Cardinality(With(s, baskets)) \in Nat /\ Cardinality(Carrying(s, pushing)) \in Nat
  BY WithOne, CarryingOne DEF StatsInv
<1>3. Occurs(s, array) \in Nat /\ Occurs(s, statsList) \in Nat BY OccursIs DEF StatsInv, StatsTypeOK
<1>4. In(s, toFlush \cup appending) \in {0, 1} BY DEF In
<1> QED BY <1>1, <1>2, <1>3, <1>4 DEF StatsInv, StatsConserved

\* The array becomes a basket, whether it is full or old.
LEMMA FlushStep ==
    ASSUME StatsInv, NEW all \in Seq(Stats), Flush(all), all # <<>> => baskets' = baskets \cup {all},
           \A s \in Stats : Occurs(s, all) <= Occurs(s, array) + In(s, appending)
    PROVE  /\ IsFiniteSet(baskets') /\ \A b \in baskets' : b \in Seq(Stats)
           /\ \A b \in baskets' : b # <<>> /\ \A s \in Stats : Occurs(s, b) <= 1
           /\ \A s \in Stats : Cardinality(With(s, baskets')) = Cardinality(With(s, baskets)) + Occurs(s, all)
<1>o. ASSUME NEW s \in Stats
      PROVE  /\ Occurs(s, all) \in Nat
             /\ Cardinality(With(s, baskets)) + Occurs(s, all) <= 1 /\ Cardinality(With(s, baskets)) \in Nat
  <2>1. Occurs(s, all) <= Occurs(s, array) + In(s, appending) OBVIOUS
  <2>2. In(s, appending) <= In(s, toFlush \cup appending) /\ In(s, appending) \in {0, 1} BY DEF In
  <2>3. Occurs(s, all) \in Nat BY OccursIs
  <2>4. /\ Copies(s) = Cardinality(With(s, baskets)) + Cardinality(Carrying(s, pushing))
                         + Occurs(s, array) + Occurs(s, statsList) + In(s, toFlush \cup appending)
        /\ Cardinality(With(s, baskets)) \in Nat /\ Cardinality(Carrying(s, pushing)) \in Nat
        /\ Occurs(s, array) \in Nat /\ Occurs(s, statsList) \in Nat
        /\ In(s, toFlush \cup appending) \in {0, 1}
        /\ Copies(s) <= 1
    BY CopiesParts
  <2> QED BY <2>1, <2>2, <2>3, <2>4
<1>1. CASE all = <<>>
  <2>1. baskets' = baskets BY <1>1 DEF Flush
  <2>2. \A s \in Stats : Occurs(s, all) = 0 BY <1>1, TimesEmpty, OccursIs
  <2> QED BY <1>o, <2>1, <2>2 DEF StatsInv, StatsTypeOK
<1>2. CASE all # <<>>
  <2>1. baskets' = baskets \cup {all} BY <1>2
  <2>2. all \notin baskets
    <3>1. PICK s \in Stats : Occurs(s, all) > 0 BY <1>2, BasketHas
    <3>2. SUFFICES ASSUME all \in baskets PROVE FALSE OBVIOUS
    <3>3. Cardinality(With(s, baskets)) > 0 BY <3>1, <3>2, WithOne DEF StatsInv
    <3> QED BY <1>o, <3>1, <3>3
  <2>3. \A s \in Stats : Occurs(s, all) \in {0, 1} BY <1>o
  <2>4. ASSUME NEW s \in Stats
        PROVE  Cardinality(With(s, baskets')) = Cardinality(With(s, baskets)) + Occurs(s, all)
    <3>1. Cardinality(With(s, baskets \cup {all}))
            = Cardinality(With(s, baskets)) + (IF Occurs(s, all) > 0 THEN 1 ELSE 0)
      BY <2>2, WithOne DEF StatsInv
    <3>2. (IF Occurs(s, all) > 0 THEN 1 ELSE 0) = Occurs(s, all) BY <2>3
    <3> QED BY <2>1, <3>1, <3>2
  <2>5. IsFiniteSet(baskets') BY <2>1, WithOne DEF StatsInv
  <2>6. \A s \in Stats : Occurs(s, all) <= 1 BY <2>3
  <2> QED BY <1>2, <2>1, <2>4, <2>5, <2>6 DEF StatsInv, StatsTypeOK
<1> QED BY <1>1, <1>2

\* How often a statistic is somewhere after a step.
After(s) ==
    Cardinality(With(s, baskets')) + Cardinality(Carrying(s, pushing'))
      + Occurs(s, array') + Occurs(s, statsList') + In(s, toFlush' \cup appending')

\* A step that makes no copy, and loses one only to an outage, conserves the statistics.
LEMMA ConservedStep ==
    ASSUME StatsInv, outages' \in Nat, outages' >= outages,
           \A s \in Stats : After(s) \in Nat /\ After(s) <= Copies(s) /\ (outages' = 0 => After(s) = Copies(s))
    PROVE  StatsConserved'
<1> SUFFICES ASSUME NEW s \in Stats PROVE Copies(s)' <= 1 /\ (outages' = 0 => Copies(s)' = 1)
  BY DEF StatsConserved
<1>1. Copies(s)' = After(s) BY DEF Copies, With, Carrying, In, Occurs, After
<1>2. Copies(s) <= 1 /\ (outages = 0 => Copies(s) = 1) BY CopiesParts
<1>3. Copies(s) \in Nat BY CopiesParts
<1>4. outages \in Nat BY StatsAssumption DEF StatsInv, StatsTypeOK
<1> QED BY <1>1, <1>2, <1>3, <1>4

\* One more in front of a sequence.
LEMMA OneInFront ==
    ASSUME NEW T, NEW u \in Seq(T), NEW x \in T
    PROVE  <<x>> \o u \in Seq(T)
<1>1. <<x>> \in Seq(T) OBVIOUS
<1> QED BY <1>1

\* Every step of the buffer and of its goroutines keeps StatsInv.
LEMMA StatsStep ==
    ASSUME StatsInv, [StatsNext]_statsVars
    PROVE  StatsInv'
<1>n. outages \in Nat /\ Capacity \in Nat \ {0} /\ MaxOutages \in Nat BY StatsAssumption DEF StatsInv, StatsTypeOK
<1>t. /\ array \in Seq(Stats) /\ statsList \in Seq(Stats) /\ <<>> \in Seq(Stats) /\ Len(array) < Capacity
      /\ \A b \in baskets : b \in Seq(Stats)
      /\ IsFiniteSet(baskets) /\ IsFiniteSet(pushing)
  BY DEF StatsInv, StatsTypeOK
<1>p. ASSUME NEW s \in Stats
      PROVE  /\ Copies(s) = Cardinality(With(s, baskets)) + Cardinality(Carrying(s, pushing))
                              + Occurs(s, array) + Occurs(s, statsList) + In(s, toFlush \cup appending)
             /\ Cardinality(With(s, baskets)) \in Nat /\ Cardinality(Carrying(s, pushing)) \in Nat
             /\ Occurs(s, array) \in Nat /\ Occurs(s, statsList) \in Nat
             /\ In(s, toFlush \cup appending) \in {0, 1}
             /\ Copies(s) <= 1
  BY CopiesParts
<1>q. ASSUME NEW s \in Stats
      PROVE  \E w \in Nat, c \in Nat, o \in Nat, l \in Nat, i \in {0, 1} :
               /\ Cardinality(With(s, baskets)) = w /\ Cardinality(Carrying(s, pushing)) = c
               /\ Occurs(s, array) = o /\ Occurs(s, statsList) = l /\ In(s, toFlush \cup appending) = i
               /\ Copies(s) = w + c + o + l + i
  BY <1>p
<1>e. \A s : Occurs(s, <<>>) = 0 BY <1>t, TimesEmpty, OccursIs
<1>1. ASSUME NEW x \in Stats, Handler(x) PROVE StatsInv'
  <2>1. /\ UNCHANGED <<array, baskets, pushing, idle, statsList, statsUp, outages>>
        /\ toFlush' \cup appending' = toFlush \cup appending /\ toFlush' \cap appending' = {}
        /\ toFlush' \subseteq Stats /\ appending' \subseteq Stats
    BY <1>1 DEF Handler, StatsInv, StatsTypeOK
  <2>2. \A s \in Stats : Copies(s)' = Copies(s) BY <2>1 DEF Copies, Occurs
  <2>3. StatsConserved' BY <2>1, <2>2 DEF StatsInv, StatsConserved
  <2> QED BY <2>1, <2>3 DEF StatsInv, StatsTypeOK, PushTypes, Occurs
<1>2. ASSUME NEW x \in Stats, Collect(x) PROVE StatsInv'
  <2>1. /\ UNCHANGED <<toFlush, pushing, idle, statsList, statsUp, outages>>
        /\ x \in appending /\ appending' = appending \ {x}
    BY <1>2 DEF Collect
  <2>2. PICK all : all = Append(array, x) OBVIOUS
  <2>3. all \in Seq(Stats) /\ all # <<>> /\ Len(all) \in Nat BY <1>t, <2>2
  <2>o. ASSUME NEW s \in Stats PROVE Occurs(s, all) = Occurs(s, array) + (IF x = s THEN 1 ELSE 0)
    <3>1. Times(s, all) = Times(s, array) + (IF x = s THEN 1 ELSE 0) BY <1>t, <2>2, TimesAppend
    <3> QED BY <1>t, <2>3, <3>1, OccursIs
  <2>i. ASSUME NEW s \in Stats
        PROVE  In(s, toFlush \cup appending) = In(s, toFlush' \cup appending') + (IF x = s THEN 1 ELSE 0)
    <3>1. x \notin toFlush BY <2>1 DEF StatsInv
    <3> QED BY <2>1, <3>1 DEF In
  <2>b. ASSUME NEW s \in Stats PROVE In(s, toFlush' \cup appending') \in {0, 1} BY DEF In
  <2>4. CASE Len(all) >= Capacity
    <3>1. Flush(all) BY <1>2, <2>2, <2>4 DEF Collect
    <3>2. baskets' = baskets \cup {all} /\ array' = <<>> BY <2>3, <3>1 DEF Flush
    <3>3. \A s \in Stats : Occurs(s, all) <= Occurs(s, array) + In(s, appending)
      <4>1. In(x, appending) = 1 /\ \A s : In(s, appending) \in {0, 1} BY <2>1 DEF In
      <4> QED BY <1>p, <2>o, <4>1
    <3>4. /\ IsFiniteSet(baskets') /\ \A b \in baskets' : b \in Seq(Stats)
          /\ \A b \in baskets' : b # <<>> /\ \A s \in Stats : Occurs(s, b) <= 1
          /\ \A s \in Stats : Cardinality(With(s, baskets')) = Cardinality(With(s, baskets)) + Occurs(s, all)
      BY <2>3, <3>1, <3>2, <3>3, FlushStep
    <3>5. StatsConserved'
      <4> SUFFICES ASSUME NEW s \in Stats PROVE After(s) \in Nat /\ After(s) = Copies(s)
        BY <1>n, <1>p, <2>1, ConservedStep
      <4>1. PICK w \in Nat, c \in Nat, o \in Nat, l \in Nat, i \in {0, 1} :
              /\ Cardinality(With(s, baskets)) = w /\ Cardinality(Carrying(s, pushing)) = c
              /\ Occurs(s, array) = o /\ Occurs(s, statsList) = l /\ In(s, toFlush \cup appending) = i
              /\ Copies(s) = w + c + o + l + i
        BY <1>q
      <4>2. PICK j \in {0, 1}, k \in {0, 1} :
              In(s, toFlush' \cup appending') = j /\ k = (IF x = s THEN 1 ELSE 0) /\ i = j + k
        BY <2>b, <2>i, <4>1
      <4>3. Occurs(s, all) = o + k /\ o + k \in Nat BY <2>o, <4>1, <4>2
      <4>5. Cardinality(With(s, baskets')) = w + (o + k) BY <3>4, <4>1, <4>3
      <4>4. /\ Cardinality(With(s, baskets')) = w + (o + k) /\ w + (o + k) \in Nat
            /\ Cardinality(Carrying(s, pushing')) = c /\ Occurs(s, array') = 0 /\ Occurs(s, statsList') = l
        BY <1>e, <2>1, <3>2, <4>1, <4>2, <4>5
      <4> QED BY <4>1, <4>2, <4>4 DEF After
    <3>6. Len(array') < Capacity /\ array' \in Seq(Stats) BY <1>n, <1>t, <3>2
    <3>7. StatsTypeOK' BY <2>1, <3>4, <3>6 DEF StatsInv, StatsTypeOK
    <3> QED BY <2>1, <3>4, <3>5, <3>7 DEF StatsInv, PushTypes, Occurs
  <2>5. CASE ~(Len(all) >= Capacity)
    <3>1. array' = all /\ baskets' = baskets BY <1>2, <2>2, <2>5 DEF Collect
    <3>2. Len(array') < Capacity BY <1>n, <2>3, <2>5, <3>1
    <3>5. StatsConserved'
      <4> SUFFICES ASSUME NEW s \in Stats PROVE After(s) \in Nat /\ After(s) = Copies(s)
        BY <1>n, <1>p, <2>1, ConservedStep
      <4>1. PICK w \in Nat, c \in Nat, o \in Nat, l \in Nat, i \in {0, 1} :
              /\ Cardinality(With(s, baskets)) = w /\ Cardinality(Carrying(s, pushing)) = c
              /\ Occurs(s, array) = o /\ Occurs(s, statsList) = l /\ In(s, toFlush \cup appending) = i
              /\ Copies(s) = w + c + o + l + i
        BY <1>q
      <4>2. PICK j \in {0, 1}, k \in {0, 1} :
              In(s, toFlush' \cup appending') = j /\ k = (IF x = s THEN 1 ELSE 0) /\ i = j + k
        BY <2>b, <2>i, <4>1
      <4>3. Occurs(s, array') = o + k /\ o + k \in Nat BY <2>o, <3>1, <4>1, <4>2
      <4>4. /\ Cardinality(With(s, baskets')) = w
            /\ Cardinality(Carrying(s, pushing')) = c /\ Occurs(s, statsList') = l
        BY <2>1, <3>1, <4>1
      <4> QED BY <4>1, <4>2, <4>3, <4>4 DEF After
    <3> QED BY <1>n, <1>t, <2>1, <2>3, <3>1, <3>2, <3>5 DEF StatsInv, StatsTypeOK, PushTypes, Occurs
  <2> QED BY <2>4, <2>5
<1>3. ASSUME Timeout PROVE StatsInv'
  <2>1. /\ UNCHANGED <<toFlush, appending, pushing, idle, statsList, statsUp, outages>>
        /\ Flush(array) /\ array' = <<>> /\ (array # <<>> => baskets' = baskets \cup {array})
    BY <1>3 DEF Timeout, Flush
  <2>2. \A s \in Stats : Occurs(s, array) <= Occurs(s, array) + In(s, appending)
    <3>1. \A s : In(s, appending) \in {0, 1} BY DEF In
    <3> QED BY <1>p, <3>1
  <2>4. /\ IsFiniteSet(baskets') /\ \A b \in baskets' : b \in Seq(Stats)
        /\ \A b \in baskets' : b # <<>> /\ \A s \in Stats : Occurs(s, b) <= 1
        /\ \A s \in Stats : Cardinality(With(s, baskets')) = Cardinality(With(s, baskets)) + Occurs(s, array)
    BY <1>t, <2>1, <2>2, FlushStep
  <2>5. StatsConserved'
    <3> SUFFICES ASSUME NEW s \in Stats PROVE After(s) \in Nat /\ After(s) = Copies(s)
      BY <1>n, <1>p, <2>1, ConservedStep
    <3>1. PICK w \in Nat, c \in Nat, o \in Nat, l \in Nat, i \in {0, 1} :
            /\ Cardinality(With(s, baskets)) = w /\ Cardinality(Carrying(s, pushing)) = c
            /\ Occurs(s, array) = o /\ Occurs(s, statsList) = l /\ In(s, toFlush \cup appending) = i
            /\ Copies(s) = w + c + o + l + i
      BY <1>q
    <3>2. /\ Cardinality(With(s, baskets')) = w + o /\ w + o \in Nat
          /\ Cardinality(Carrying(s, pushing')) = c /\ Occurs(s, array') = 0 /\ Occurs(s, statsList') = l
          /\ In(s, toFlush' \cup appending') = i
      BY <1>e, <2>1, <2>4, <3>1
    <3> QED BY <3>1, <3>2 DEF After
  <2> QED BY <1>n, <1>t, <2>1, <2>4, <2>5 DEF StatsInv, StatsTypeOK, PushTypes, Occurs
<1>4. ASSUME NEW b \in baskets, GetConn(b) PROVE StatsInv'
  <2>1. /\ UNCHANGED <<toFlush, appending, array, statsList, statsUp, outages>> /\ baskets' = baskets \ {b}
        /\ idle' = IF idle = <<>> THEN idle ELSE Tail(idle)
    BY <1>4 DEF GetConn
  <2>2. PICK k : k = IF idle # <<>> THEN Head(idle) ELSE IF statsUp THEN "ok" ELSE "error" OBVIOUS
  <2>3. k \in {"ok", "broken", "error"} /\ idle' \in Seq({"ok", "broken"})
    BY <2>1, <2>2 DEF StatsInv, StatsTypeOK
  <2>4. outages = 0 => k = "ok" /\ idle' \in Seq({"ok"})
    <3> SUFFICES ASSUME outages = 0 PROVE k = "ok" /\ idle' \in Seq({"ok"}) OBVIOUS
    <3>1. statsUp /\ idle \in Seq({"ok"}) BY DEF StatsInv
    <3> QED BY <2>1, <2>2, <3>1
  <2>5. PICK p : p = [basket |-> b, conn |-> k] OBVIOUS
  <2>6. pushing' = pushing \cup {p} BY <1>4, <2>2, <2>5 DEF GetConn
  <2>7. p \in PushTypes /\ p.basket = b /\ p.conn = k /\ b # <<>> BY <1>t, <2>3, <2>5 DEF PushTypes, StatsInv
  <2>8. p \notin pushing
    <3>1. PICK s \in Stats : Occurs(s, b) > 0 BY <1>t, <2>7, BasketHas
    <3>2. SUFFICES ASSUME p \in pushing PROVE FALSE OBVIOUS
    <3>3. Cardinality(With(s, baskets)) > 0 BY <1>t, <3>1, WithOne
    <3>4. Cardinality(Carrying(s, pushing)) > 0 BY <1>t, <2>7, <3>1, <3>2, CarryingOne
    <3>5. PICK w \in Nat, c \in Nat, o \in Nat, l \in Nat, i \in {0, 1} :
              /\ Cardinality(With(s, baskets)) = w /\ Cardinality(Carrying(s, pushing)) = c
              /\ Occurs(s, array) = o /\ Occurs(s, statsList) = l /\ In(s, toFlush \cup appending) = i
              /\ Copies(s) = w + c + o + l + i
      BY <1>q
    <3> QED BY <1>p, <3>3, <3>4, <3>5
  <2>9. IsFiniteSet(baskets') /\ IsFiniteSet(pushing') BY <1>t, <2>1, <2>6, WithOne, CarryingOne
  <2>10. StatsConserved'
    <3> SUFFICES ASSUME NEW s \in Stats PROVE After(s) \in Nat /\ After(s) = Copies(s)
      BY <1>n, <1>p, <2>1, ConservedStep
    <3>1. PICK w \in Nat, c \in Nat, o \in Nat, l \in Nat, i \in {0, 1} :
            /\ Cardinality(With(s, baskets)) = w /\ Cardinality(Carrying(s, pushing)) = c
            /\ Occurs(s, array) = o /\ Occurs(s, statsList) = l /\ In(s, toFlush \cup appending) = i
            /\ Copies(s) = w + c + o + l + i
      BY <1>q
    <3>2. PICK d \in {0, 1} : d = (IF Occurs(s, b) > 0 THEN 1 ELSE 0) OBVIOUS
    <3>3. w = Cardinality(With(s, baskets')) + d
      <4>1. Cardinality(With(s, baskets))
              = Cardinality(With(s, baskets \ {b})) + (IF Occurs(s, b) > 0 THEN 1 ELSE 0)
        BY <1>t, WithOne
      <4> QED BY <2>1, <3>1, <3>2, <4>1
    <3>4. Cardinality(Carrying(s, pushing')) = c + d
      <4>1. Cardinality(Carrying(s, pushing \cup {p}))
              = Cardinality(Carrying(s, pushing)) + (IF Occurs(s, p.basket) > 0 THEN 1 ELSE 0)
        BY <1>t, <2>8, CarryingOne
      <4> QED BY <2>6, <2>7, <3>1, <3>2, <4>1
    <3>5. Cardinality(With(s, baskets')) \in Nat BY <2>9, WithOne
    <3>6. Occurs(s, array') = o /\ Occurs(s, statsList') = l /\ In(s, toFlush' \cup appending') = i BY <2>1, <3>1
    <3> QED BY <3>1, <3>2, <3>3, <3>4, <3>5, <3>6 DEF After
  <2>11. StatsTypeOK'
    <3>1. \A q \in pushing' : q.basket \in Seq(Stats) /\ q.conn \in {"ok", "broken", "error"}
      BY <1>t, <2>3, <2>6, <2>7 DEF StatsInv, StatsTypeOK
    <3> QED BY <2>1, <2>3, <3>1 DEF StatsInv, StatsTypeOK
  <2>12. \A q \in pushing' : q.basket # <<>> /\ \A s \in Stats : Occurs(s, q.basket) <= 1
    BY <2>6, <2>7 DEF StatsInv
  <2> QED BY <2>1, <2>4, <2>6, <2>7, <2>9, <2>10, <2>11, <2>12 DEF StatsInv, PushTypes, Occurs
<1>5. ASSUME NEW p \in pushing, OnFlush(p) PROVE StatsInv'
  <2>1. /\ UNCHANGED <<toFlush, appending, array, baskets, statsUp, outages>> /\ pushing' = pushing \ {p}
        /\ statsList' = (IF p.conn = "ok" THEN statsList \o p.basket ELSE statsList)
        /\ idle' = (IF p.conn = "ok" THEN <<"ok">> \o idle ELSE idle)
    BY <1>5 DEF OnFlush
  <2>2. p.basket \in Seq(Stats) /\ \A s \in Stats : Occurs(s, p.basket) <= 1 BY DEF StatsInv, StatsTypeOK
  <2>3. statsList' \in Seq(Stats) BY <1>t, <2>1, <2>2
  <2>4. idle' \in Seq({"ok", "broken"})
    <3>1. idle \in Seq({"ok", "broken"}) BY DEF StatsInv, StatsTypeOK
    <3>2. "ok" \in {"ok", "broken"} OBVIOUS
    <3> QED BY <2>1, <3>1, <3>2, OneInFront
  <2>5. outages = 0 => idle' \in Seq({"ok"})
    <3>1. outages = 0 => idle \in Seq({"ok"}) BY DEF StatsInv
    <3>2. "ok" \in {"ok"} OBVIOUS
    <3> QED BY <2>1, <3>1, <3>2, OneInFront
  <2>6. IsFiniteSet(pushing') BY <1>t, <2>1, CarryingOne
  <2>7. StatsConserved'
    <3> SUFFICES ASSUME NEW s \in Stats
                 PROVE  After(s) \in Nat /\ After(s) <= Copies(s) /\ (outages' = 0 => After(s) = Copies(s))
      BY <1>n, <2>1, ConservedStep
    <3>1. PICK w \in Nat, c \in Nat, o \in Nat, l \in Nat, i \in {0, 1} :
            /\ Cardinality(With(s, baskets)) = w /\ Cardinality(Carrying(s, pushing)) = c
            /\ Occurs(s, array) = o /\ Occurs(s, statsList) = l /\ In(s, toFlush \cup appending) = i
            /\ Copies(s) = w + c + o + l + i
      BY <1>q
    <3>2. Occurs(s, p.basket) \in {0, 1} BY <2>2, OccursIs
    <3>3. PICK d \in {0, 1} : d = Occurs(s, p.basket) BY <3>2
    <3>4. c = Cardinality(Carrying(s, pushing')) + d
      <4>0. Cardinality(Carrying(s, pushing))
              = Cardinality(Carrying(s, pushing \ {p})) + (IF Occurs(s, p.basket) > 0 THEN 1 ELSE 0)
        BY <1>t, CarryingOne, ZenonT(30)
      <4>1. c = Cardinality(Carrying(s, pushing \ {p})) + (IF Occurs(s, p.basket) > 0 THEN 1 ELSE 0)
        BY <3>1, <4>0
      <4>2. (IF Occurs(s, p.basket) > 0 THEN 1 ELSE 0) = d BY <3>2, <3>3
      <4> QED BY <2>1, <4>1, <4>2
    <3>5. Cardinality(Carrying(s, pushing')) \in Nat BY <2>6, CarryingOne
    <3>6. Cardinality(With(s, baskets')) = w /\ Occurs(s, array') = o /\ In(s, toFlush' \cup appending') = i
      BY <2>1, <3>1
    <3>7. Occurs(s, statsList') = IF p.conn = "ok" THEN l + d ELSE l
      BY <1>t, <2>1, <2>2, <3>1, <3>3, OccursConcat
    <3>8. outages' = 0 => p.conn = "ok" BY <2>1 DEF StatsInv
    <3> QED BY <3>1, <3>3, <3>4, <3>5, <3>6, <3>7, <3>8 DEF After
  <2>8. StatsTypeOK' BY <2>1, <2>3, <2>4 DEF StatsInv, StatsTypeOK
  <2> QED BY <2>1, <2>5, <2>6, <2>7, <2>8 DEF StatsInv, PushTypes, Occurs
<1>6. ASSUME StatsRedisFails PROVE StatsInv'
  <2> DEFINE f == [p \in pushing |-> [p EXCEPT !.conn = IF @ = "ok" THEN "broken" ELSE @]]
  <2>1. /\ UNCHANGED <<toFlush, appending, array, baskets, statsList>> /\ statsUp' = FALSE
        /\ outages' = outages + 1 /\ outages < MaxOutages /\ idle' = [i \in DOMAIN idle |-> "broken"]
        /\ pushing' = {f[p] : p \in pushing}
    BY <1>6 DEF StatsRedisFails
  <2>2. ASSUME NEW p \in pushing PROVE f[p] \in PushTypes /\ f[p].basket = p.basket
    <3>1. p \in PushTypes BY DEF StatsInv
    <3>2. f[p] = [p EXCEPT !.conn = IF p.conn = "ok" THEN "broken" ELSE p.conn] OBVIOUS
    <3> QED BY <3>1, <3>2 DEF PushTypes
  <2>3. outages' \in 0 .. MaxOutages /\ outages' # 0 BY <1>n, <2>1
  <2>4. idle' \in Seq({"ok", "broken"}) BY <2>1 DEF StatsInv, StatsTypeOK
  <2> HIDE DEF f
  <2>f. DOMAIN f = pushing /\ f \in [pushing -> PushTypes] BY <2>2 DEF f
  <2>5. IsFiniteSet(pushing')
    <3>1. f \in Surjection(pushing, pushing') BY <2>1, <2>f DEF Surjection
    <3> QED BY <1>t, <3>1, FS_Surjection
  <2>6. ASSUME NEW s \in Stats
        PROVE  /\ Cardinality(Carrying(s, pushing')) <= Cardinality(Carrying(s, pushing))
               /\ Cardinality(Carrying(s, pushing')) \in Nat
    <3> DEFINE g == [p \in Carrying(s, pushing) |-> f[p]]
    <3>1. g \in Surjection(Carrying(s, pushing), Carrying(s, pushing'))
      BY <2>1, <2>2 DEF Carrying, Surjection
    <3>2. IsFiniteSet(Carrying(s, pushing)) BY <1>t, FS_Subset DEF Carrying
    <3>3. Cardinality(Carrying(s, pushing')) <= Cardinality(Carrying(s, pushing)) BY <3>1, <3>2, FS_Surjection
    <3>4. Cardinality(Carrying(s, pushing')) \in Nat BY <2>5, CarryingOne
    <3> QED BY <3>3, <3>4
  <2>7. StatsConserved'
    <3> SUFFICES ASSUME NEW s \in Stats PROVE After(s) \in Nat /\ After(s) <= Copies(s)
      BY <1>n, <2>1, <2>3, ConservedStep
    <3>1. PICK w \in Nat, c \in Nat, o \in Nat, l \in Nat, i \in {0, 1} :
            /\ Cardinality(With(s, baskets)) = w /\ Cardinality(Carrying(s, pushing)) = c
            /\ Occurs(s, array) = o /\ Occurs(s, statsList) = l /\ In(s, toFlush \cup appending) = i
            /\ Copies(s) = w + c + o + l + i
      BY <1>q
    <3>2. PICK d \in Nat : d = Cardinality(Carrying(s, pushing')) /\ d <= c BY <2>6, <3>1
    <3>3. /\ Cardinality(With(s, baskets')) = w /\ Occurs(s, array') = o /\ Occurs(s, statsList') = l
          /\ In(s, toFlush' \cup appending') = i
      BY <2>1, <3>1
    <3> QED BY <3>1, <3>2, <3>3 DEF After
  <2>8. \A q \in pushing' : /\ q \in PushTypes /\ q.basket # <<>>
                            /\ \A s \in Stats : Occurs(s, q.basket) <= 1
    BY <2>1, <2>2 DEF StatsInv
  <2>9. StatsTypeOK'
    <3>1. \A q \in pushing' : q.basket \in Seq(Stats) /\ q.conn \in {"ok", "broken", "error"}
      BY <2>8 DEF PushTypes
    <3> QED BY <2>1, <2>3, <2>4, <3>1 DEF StatsInv, StatsTypeOK
  <2> QED BY <2>1, <2>3, <2>5, <2>7, <2>8, <2>9 DEF StatsInv, PushTypes, Occurs
<1>7. ASSUME StatsRedisReturns \/ UNCHANGED statsVars PROVE StatsInv'
  <2>1. /\ UNCHANGED <<toFlush, appending, array, baskets, pushing, idle, statsList, outages>>
        /\ statsUp' \in BOOLEAN /\ (statsUp => statsUp')
    BY <1>7 DEF StatsRedisReturns, statsVars, StatsInv, StatsTypeOK
  <2>2. \A s \in Stats : Copies(s)' = Copies(s) BY <2>1 DEF Copies, Occurs
  <2>3. StatsConserved' BY <2>1, <2>2 DEF StatsInv, StatsConserved
  <2> QED BY <2>1, <2>3 DEF StatsInv, StatsTypeOK, PushTypes, Occurs
<1> QED BY <1>1, <1>2, <1>3, <1>4, <1>5, <1>6, <1>7 DEF StatsNext

\* Nothing is under way when the buffer starts.
LEMMA StatsStart == StatsInit => StatsInv
<1> SUFFICES ASSUME StatsInit PROVE StatsInv OBVIOUS
<1>n. Capacity \in Nat \ {0} /\ MaxOutages \in Nat BY StatsAssumption
<1>1. IsFiniteSet({}) /\ Cardinality({}) = 0 BY FS_EmptySet
<1>2. \A s : Occurs(s, <<>>) = 0 BY TimesEmpty DEF Times, Occurs
<1>3. StatsTypeOK BY <1>n DEF StatsInit, StatsTypeOK
<1>4. StatsConserved
  <2> SUFFICES ASSUME NEW s \in Stats PROVE Copies(s) = 1 BY DEF StatsConserved
  <2>1. {b \in baskets : Occurs(s, b) > 0} = {} /\ {p \in pushing : Occurs(s, p.basket) > 0} = {}
    BY DEF StatsInit
  <2>2. Occurs(s, array) = 0 /\ Occurs(s, statsList) = 0 /\ s \in toFlush BY <1>2 DEF StatsInit
  <2> QED BY <1>1, <2>1, <2>2 DEF Copies
<1> QED BY <1>1, <1>3, <1>4 DEF StatsInit, StatsInv

\* However flushes by size and by time and the goroutines of their baskets interleave, each
\* statistic is in one place of NewTimedBuffer and onFlush, and is lost only to an outage.
THEOREM StatsAreConserved == StatsSpec => []StatsConserved
<1>1. StatsInv /\ [StatsNext]_statsVars => StatsInv' BY StatsStep
<1>2. StatsInv => StatsConserved BY DEF StatsInv
<1> QED BY <1>1, <1>2, StatsStart, PTL DEF StatsSpec
=============================================================================
