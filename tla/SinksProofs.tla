------------------------------ MODULE SinksProofs ------------------------------
(***************************************************************************)
(* Proofs about Sinks, for any number of sinks, clients and commands, with *)
(* any ids, queues and number of failures.                                 *)
(*                                                                         *)
(* SinksInv, the inductive invariant, follows a command on its way.  A     *)
(* command is in at most one place: with its client, in the list of its    *)
(* Redis, with the goroutine of the sink, with processCmds, or with the    *)
(* goroutines that run it (UnsentInv, InboxInv, FetchInv, LoopInv, RunInv).*)
(* A job is filed as long as one of its goroutines may still clean up, and *)
(* at most one of them gets there, for the second statsd.Stop ends the     *)
(* agent (JobInv); so cleanUp, which deletes by id, deletes its own entry. *)
(***************************************************************************)
EXTENDS Sinks, TLAPS

\* Nothing was done for the command yet.
Fresh(c) == started[c] = 0 /\ answered[c] = 0 /\ \A g \in Goroutines : run[c][g] = "none"

UnsentInv == \A c \in Fetched \cap toSend :
    /\ Fresh(c) /\ c \notin loop
    /\ \A s \in Sinks : c \notin fetch[s].cmd /\ \A k \in 1 .. Len(inbox[s]) : inbox[s][k] # c

InboxInv == \A s \in Sinks : \A k \in 1 .. Len(inbox[s]) :
    /\ SentTo[inbox[s][k]] = s /\ Fresh(inbox[s][k]) /\ inbox[s][k] \notin loop
    /\ inbox[s][k] \notin fetch[s].cmd
    /\ \A j \in 1 .. Len(inbox[s]) : inbox[s][j] = inbox[s][k] => j = k

FetchInv == \A s \in Sinks : \A c \in fetch[s].cmd :
    SentTo[c] = s /\ c \notin Malformed /\ Fresh(c) /\ c \notin loop

LoopInv == \A c \in loop :
    /\ c \notin Malformed /\ started[c] = 0 /\ run[c][1] = "none"
    /\ run[c][0] = "none" => answered[c] = 0

RunInv == \A c \in Fetched :
    /\ run[c][2] = "none"
    /\ run[c][0] = "none" \/ run[c][1] = "none"
    /\ \A g \in Goroutines : run[c][g] \in {"process", "callback"} => answered[c] = 0
    /\ \A g \in Goroutines : run[c][g] # "none" => c \notin Malformed
    /\ run[c][1] = "process" => c \in table

\* What Respond pushed has a queue.
PushedInv == \A c \in Cmds : \A g \in Goroutines :
    run[c][g] \in {"expire", "broken"} => c \in Fetched \ Malformed /\ IdOf[c] # NoId

\* Where a goroutine is that has passed the end of its process but not its cleanUp.
Ending == {"callback", "expire", "broken", "cleanup"}

JobInv ==
    /\ \A c, d \in table : IdOf[c] = IdOf[d] => c = d
    /\ \A c \in Cmds :
        /\ run[c][0] \in {"none", "callback", "expire", "broken", "end"}
        /\ \A g \in {1, 2} :
            /\ run[c][g] = "process" => c \in table \cup statsd
            /\ run[c][g] \in Ending => c \in table
            /\ run[c][g] \in Ending \cup {"end"} => c \in statsd
        /\ run[c][1] \in {"none", "process"} \/ run[c][2] \in {"none", "process"}

ClientInv == \A c \in Direct :
    /\ client[c] \in {"none", "run"} => \A g \in Goroutines : run[c][g] = "none"
    /\ client[c] = "second" => run[c][2] = "none" /\ c \in table \cup statsd

SinksInv == /\ TypeOK /\ UnsentInv /\ InboxInv /\ FetchInv /\ LoopInv /\ RunInv /\ PushedInv
            /\ JobInv /\ ClientInv /\ AtMostOnce /\ AnsweredWhereAsked

\* What the definition of a command's sink and queue says of their types.
LEMMA Names ==
    /\ \A c \in Fetched : SentTo[c] \in Sinks /\ c \in Cmds /\ c \notin Direct
    /\ \A c \in Cmds : c \in Fetched <=> SentTo[c] \in Sinks
    /\ \A c \in Direct : c \in Cmds /\ c \notin Fetched
    /\ \A c \in Fetched \ Malformed : IdOf[c] # NoId => Queue(SentTo[c], c) \in Queues
  BY DEF Fetched, Direct, Queues

\* The invariant holds when the agent is started for the first time.
LEMMA SinksInit == Init => SinksInv
<1> SUFFICES ASSUME Init PROVE SinksInv
  OBVIOUS
<1>1. TypeOK
  <2>1. toSend \subseteq Cmds BY SinksAssumption DEF Init
  <2>2. fetch \in [Sinks -> [pc : {"register", "get", "blpop", "broken", "sleep", "push"},
                            cmd : Held]] /\ loop \in Held
    BY DEF Init, Idle, Held
  <2>3. run \in [Cmds -> [Goroutines -> RunPc]] BY DEF Init, NothingRuns, RunPc
  <2>4. pool \in [Sinks -> [ok : Nat, stale : Nat]] BY DEF Init, NoConnections
  <2>5. \A s \in Sinks : fetch[s].pc = "push" <=> fetch[s].cmd # {} BY DEF Init, Idle
  <2>6. /\ redis \in [Sinks -> {"up", "down"}] /\ inbox \in [Sinks -> Seq(Fetched)]
        /\ replies \in [Queues -> Seq(Cmds)]
        /\ client \in [Direct -> {"none", "run", "refused", "second", "wait", "reply", "closed"}]
        /\ started \in [Cmds -> Nat] /\ answered \in [Cmds -> Nat]
    BY DEF Init
  <2>7. faults \in 0 .. MaxFaults /\ agent \in {"up", "down"} BY SinksAssumption DEF Init
  <2>8. expiring \subseteq {q \in Queues : replies[q] # <<>>} /\ slot \in BOOLEAN
    BY DEF Init
  <2>9. handlers \subseteq Sinks /\ table \subseteq Cmds /\ statsd \subseteq Cmds /\ result \subseteq Cmds
    BY DEF Init
  <2> QED BY <2>1, <2>2, <2>3, <2>4, <2>5, <2>6, <2>7, <2>8, <2>9 DEF TypeOK
<1>2. \A c \in Cmds : Fresh(c) BY DEF Init, Fresh, NothingRuns
<1>3. \A s \in Sinks : inbox[s] = <<>> /\ fetch[s].cmd = {} BY DEF Init, Idle
<1>4. UnsentInv /\ InboxInv /\ FetchInv /\ LoopInv
  BY <1>2, <1>3, Names DEF Init, UnsentInv, InboxInv, FetchInv, LoopInv
<1>5. RunInv /\ PushedInv /\ JobInv /\ ClientInv /\ AtMostOnce
  BY <1>2, Names DEF Init, Fresh, RunInv, PushedInv, JobInv, ClientInv, AtMostOnce, Goroutines, Ending
<1>6. AnsweredWhereAsked BY DEF Init, AnsweredWhereAsked
<1> QED BY <1>1, <1>4, <1>5, <1>6 DEF SinksInv

\* What the variables of the goroutine of a sink may be.
FetchType == [pc : {"register", "get", "blpop", "broken", "sleep", "push"},
              cmd : Held]

\* A goroutine of a sink that goes on, and does not hold a command before or after.
LEMMA FetchMoves ==
    ASSUME TypeOK, NEW s \in Sinks, fetch[s].pc # "push",
           NEW pc \in {"register", "get", "blpop", "broken", "sleep"},
           fetch' = [fetch EXCEPT ![s].pc = pc]
    PROVE  /\ fetch' \in [Sinks -> FetchType]
           /\ \A t \in Sinks : fetch'[t].pc = "push" <=> fetch'[t].cmd # {}
           /\ \A t \in Sinks : fetch'[t].cmd = fetch[t].cmd
<1>1. fetch \in [Sinks -> FetchType] BY DEF TypeOK, FetchType
<1>2. fetch' = [fetch EXCEPT ![s] = [fetch[s] EXCEPT !.pc = pc]] OBVIOUS
<1>3. fetch[s] \in FetchType BY <1>1
<1>4. [fetch[s] EXCEPT !.pc = pc] = [pc |-> pc, cmd |-> fetch[s].cmd] BY <1>3 DEF FetchType
<1>5. [pc |-> pc, cmd |-> fetch[s].cmd] \in FetchType BY <1>3 DEF FetchType
<1>6. \A t \in Sinks : t # s => fetch'[t] = fetch[t] BY <1>1, <1>2
<1>7. fetch'[s] = [pc |-> pc, cmd |-> fetch[s].cmd] BY <1>1, <1>2, <1>4
<1>8. fetch' \in [Sinks -> FetchType] BY <1>1, <1>2, <1>4, <1>5
<1> QED BY <1>6, <1>7, <1>8 DEF TypeOK

\* Two of them that go on together.
LEMMA RaceMoves ==
    ASSUME TypeOK, NEW s \in Sinks, NEW t \in Sinks \ {s},
           fetch[s].pc = "register", fetch[t].pc = "register",
           fetch' = [fetch EXCEPT ![s].pc = "get", ![t].pc = "get"]
    PROVE  /\ fetch' \in [Sinks -> FetchType]
           /\ \A u \in Sinks : fetch'[u].pc = "push" <=> fetch'[u].cmd # {}
           /\ \A u \in Sinks : fetch'[u].cmd = fetch[u].cmd
<1> DEFINE f == [fetch EXCEPT ![s].pc = "get"]
           Moved(u) == [pc |-> "get", cmd |-> fetch[u].cmd]
<1>1. fetch \in [Sinks -> FetchType] BY DEF TypeOK, FetchType
<1>2. \A u \in {s, t} : fetch[u] \in FetchType /\ [fetch[u] EXCEPT !.pc = "get"] = Moved(u)
  BY <1>1 DEF FetchType
<1>3. \A u \in {s, t} : Moved(u) \in FetchType BY <1>2 DEF FetchType
<1>4. f = [fetch EXCEPT ![s] = Moved(s)] BY <1>2
<1>5. f \in [Sinks -> FetchType] /\ f[t] = fetch[t] BY <1>1, <1>3, <1>4
<1>6. fetch' = [f EXCEPT ![t] = [f[t] EXCEPT !.pc = "get"]] OBVIOUS
<1>7. fetch' = [f EXCEPT ![t] = Moved(t)] BY <1>2, <1>5, <1>6
<1>8. fetch' \in [Sinks -> FetchType] BY <1>3, <1>5, <1>7
<1>9. /\ fetch'[s] = Moved(s) /\ fetch'[t] = Moved(t)
      /\ \A u \in Sinks \ {s, t} : fetch'[u] = fetch[u]
  BY <1>1, <1>4, <1>5, <1>7
<1>10. ASSUME NEW u \in Sinks
       PROVE  /\ fetch'[u].pc = "push" <=> fetch'[u].cmd # {}
              /\ fetch'[u].cmd = fetch[u].cmd
  <2>1. CASE u \in {s, t}
    <3>1. fetch[u].pc = "register" BY <2>1
    <3>2. fetch'[u] = Moved(u) BY <1>9, <2>1
    <3>3. fetch'[u].pc = "get" /\ fetch'[u].cmd = fetch[u].cmd BY <3>2
    <3> QED BY <3>1, <3>3 DEF TypeOK
  <2>2. CASE u \notin {s, t} BY <1>9, <2>2 DEF TypeOK
  <2> QED BY <2>1, <2>2
<1> QED BY <1>8, <1>10

\* The goroutines and the places where they can be.
LEMMA Places ==
    /\ 0 \in Goroutines /\ 1 \in Goroutines /\ 2 \in Goroutines
    /\ {"none", "process", "callback", "expire", "broken", "cleanup", "end"} = RunPc
    /\ {} \in Held /\ \A c \in Fetched : {c} \in Held
    /\ \A h \in Held : \A c \in h : c \in Fetched /\ h = {c}
  BY DEF Goroutines, RunPc, Held

\* Connections are taken and put back without the counts leaving the naturals.
LEMMA PoolMoves ==
    ASSUME NEW p \in [ok : Nat, stale : Nat]
    PROVE  Taken(p) \in [ok : Nat, stale : Nat] /\ Returned(p) \in [ok : Nat, stale : Nat]
  BY DEF Taken, Returned

\* The same for the pool of one sink among the others.
LEMMA PoolType ==
    ASSUME TypeOK, NEW s \in Sinks,
           pool' = [pool EXCEPT ![s] = Taken(@)] \/ pool' = [pool EXCEPT ![s] = Returned(@)]
    PROVE  pool' \in [Sinks -> [ok : Nat, stale : Nat]]
<1> DEFINE P == [ok : Nat, stale : Nat]
<1>1. pool \in [Sinks -> P] BY DEF TypeOK
<1>2. Taken(pool[s]) \in P /\ Returned(pool[s]) \in P BY <1>1, PoolMoves
<1> HIDE DEF P
<1>3. pool' \in [Sinks -> P] BY <1>1, <1>2
<1> QED BY <1>3 DEF P

\* A step of RunCmd or Run leaves every other goroutine where it is.
LEMMA RunMoves ==
    ASSUME TypeOK, NEW c \in Cmds, NEW g \in Goroutines, NEW pc \in RunPc,
           run' = [run EXCEPT ![c][g] = pc]
    PROVE  /\ run' \in [Cmds -> [Goroutines -> RunPc]]
           /\ run'[c][g] = pc
           /\ \A d \in Cmds, h \in Goroutines : d # c \/ h # g => run'[d][h] = run[d][h]
<1>1. run \in [Cmds -> [Goroutines -> RunPc]] BY DEF TypeOK
<1>2. run[c] \in [Goroutines -> RunPc] BY <1>1
<1>3. run' = [run EXCEPT ![c] = [run[c] EXCEPT ![g] = pc]] OBVIOUS
<1>4. run'[c] = [run[c] EXCEPT ![g] = pc] BY <1>1, <1>3
<1>5. run'[c] \in [Goroutines -> RunPc] BY <1>2, <1>4
<1>6. \A d \in Cmds : d # c => run'[d] = run[d] BY <1>1, <1>3
<1> QED BY <1>1, <1>2, <1>3, <1>4, <1>5, <1>6

\* The end of the agent leaves typed variables.
LEMMA VolatileType ==
    ASSUME TypeOK, Volatile, faults' \in 0 .. MaxFaults
    PROVE  TypeOK'
<1>1. fetch' \in [Sinks -> FetchType] /\ \A s \in Sinks : fetch'[s].pc = "push" <=> fetch'[s].cmd # {}
  BY Places DEF Volatile, Idle, FetchType
<1>2. run' \in [Cmds -> [Goroutines -> RunPc]] BY DEF Volatile, NothingRuns, RunPc
<1>3. pool' \in [Sinks -> [ok : Nat, stale : Nat]] BY DEF Volatile, NoConnections
<1>4. client' \in [Direct -> {"none", "run", "refused", "second", "wait", "reply", "closed"}]
  BY DEF Volatile
<1> QED BY <1>1, <1>2, <1>3, <1>4, Places DEF Volatile, TypeOK, FetchType, redisVars, history

\* Every step keeps the variables typed.
LEMMA SinksTypeStep == SinksInv /\ [Next]_vars => TypeOK'
<1> SUFFICES ASSUME SinksInv, [Next]_vars PROVE TypeOK'
  OBVIOUS
<1>t. TypeOK BY DEF SinksInv
<1> USE DEF redisVars, fetchVars, jobVars, history
<1>1. ASSUME NEW c \in Fetched, ClientPush(c) PROVE TypeOK'
  <2>1. inbox' \in [Sinks -> Seq(Fetched)] BY <1>t, <1>1, Names DEF TypeOK, ClientPush
  <2> QED BY <1>t, <1>1, <2>1 DEF TypeOK, ClientPush
<1>2. ASSUME NEW q \in Queues, QueueExpires(q) PROVE TypeOK'
  <2>1. replies' \in [Queues -> Seq(Cmds)] BY <1>t, <1>2 DEF TypeOK, QueueExpires
  <2>2. \A p \in Queues : p # q => replies'[p] = replies[p] BY <1>t, <1>2 DEF TypeOK, QueueExpires
  <2>3. expiring' \subseteq {p \in Queues : replies'[p] # <<>>}
    BY <1>t, <1>2, <2>2 DEF TypeOK, QueueExpires
  <2> QED BY <1>t, <1>2, <2>1, <2>3 DEF TypeOK, QueueExpires
<1>3. ASSUME NEW s \in Sinks, RedisFails(s) PROVE TypeOK'
  <2>1. inbox' \in [Sinks -> Seq(Fetched)]
    <3>1. inbox[s] # <<>> => Tail(inbox[s]) \in Seq(Fetched) BY <1>t DEF TypeOK
    <3> QED BY <1>t, <1>3, <3>1 DEF TypeOK, RedisFails
  <2>2. pool' \in [Sinks -> [ok : Nat, stale : Nat]] BY <1>t, <1>3 DEF TypeOK, RedisFails
  <2>3. fetch' \in [Sinks -> FetchType] /\ \A t \in Sinks : fetch'[t].pc = "push" <=> fetch'[t].cmd # {}
    BY <1>t, <1>3 DEF TypeOK, RedisFails, FetchType
  <2>4. run' \in [Cmds -> [Goroutines -> RunPc]] BY <1>t, <1>3 DEF TypeOK, RedisFails, RunPc
  <2>5. faults' \in 0 .. MaxFaults BY <1>t, <1>3, SinksAssumption DEF TypeOK, RedisFails
  <2> QED BY <1>t, <1>3, <2>1, <2>2, <2>3, <2>4, <2>5 DEF TypeOK, RedisFails, FetchType
<1>4. ASSUME NEW s \in Sinks, RedisReturns(s) PROVE TypeOK'
  BY <1>t, <1>4 DEF TypeOK, RedisReturns
<1>5. ASSUME NEW s \in Sinks, Register(s) PROVE TypeOK'
  <2>1. /\ fetch' \in [Sinks -> FetchType]
        /\ \A u \in Sinks : fetch'[u].pc = "push" <=> fetch'[u].cmd # {}
    BY <1>t, <1>5, FetchMoves DEF Register, FetchAt
  <2> QED BY <1>t, <1>5, <2>1 DEF TypeOK, Register, FetchType
<1>6. ASSUME NEW s \in Sinks, RegisterRace(s) PROVE TypeOK'
  <2>1. CASE Volatile /\ UNCHANGED faults
    <3>1. faults' \in 0 .. MaxFaults BY <1>t, <2>1 DEF TypeOK
    <3> QED BY <1>t, <2>1, <3>1, VolatileType
  <2>2. ASSUME NEW t \in Sinks \ {s}, fetch[t].pc = "register",
               handlers' = handlers \cup {s},
               fetch' = [fetch EXCEPT ![s].pc = "get", ![t].pc = "get"],
               UNCHANGED <<redisVars, pool, jobVars, client, agent, faults, history>>
        PROVE  TypeOK'
    <3>1. /\ fetch' \in [Sinks -> FetchType]
          /\ \A u \in Sinks : fetch'[u].pc = "push" <=> fetch'[u].cmd # {}
      BY <1>t, <1>6, <2>2, RaceMoves DEF RegisterRace, FetchAt
    <3> QED BY <1>t, <2>2, <3>1 DEF TypeOK, FetchType
  <2> QED BY <1>6, <2>1, <2>2 DEF RegisterRace
<1>7. ASSUME NEW s \in Sinks, Connect(s) PROVE TypeOK'
  <2>1. pool' \in [Sinks -> [ok : Nat, stale : Nat]] BY <1>t, <1>7, PoolMoves DEF TypeOK, Connect
  <2>2. PICK pc \in {"blpop", "sleep", "get"} : fetch' = [fetch EXCEPT ![s].pc = pc]
    BY <1>7 DEF Connect, AfterError
  <2>3. fetch[s].pc # "push" BY <1>7 DEF Connect, FetchAt
  <2>4. /\ fetch' \in [Sinks -> FetchType]
        /\ \A u \in Sinks : fetch'[u].pc = "push" <=> fetch'[u].cmd # {}
    BY <1>t, <2>2, <2>3, FetchMoves
  <2> QED BY <1>t, <1>7, <2>1, <2>4 DEF TypeOK, Connect, FetchType
<1>8. ASSUME NEW s \in Sinks, ConnectionLost(s) \/ Wake(s) PROVE TypeOK'
  <2>1. PICK pc \in {"sleep", "get"} : fetch' = [fetch EXCEPT ![s].pc = pc]
    BY <1>8 DEF ConnectionLost, Wake, AfterError
  <2>2. fetch[s].pc # "push" BY <1>8 DEF ConnectionLost, Wake, FetchAt
  <2>3. /\ fetch' \in [Sinks -> FetchType]
        /\ \A u \in Sinks : fetch'[u].pc = "push" <=> fetch'[u].cmd # {}
    BY <1>t, <2>1, <2>2, FetchMoves
  <2> QED BY <1>t, <1>8, <2>3 DEF TypeOK, ConnectionLost, Wake, FetchType
<1>9. ASSUME NEW s \in Sinks, GetNext(s) PROVE TypeOK'
  <2>1. pool' \in [Sinks -> [ok : Nat, stale : Nat]] BY <1>t, <1>9, PoolMoves DEF TypeOK, GetNext
  <2>2. inbox' \in [Sinks -> Seq(Fetched)] /\ Head(inbox[s]) \in Fetched
    BY <1>t, <1>9 DEF TypeOK, GetNext, Pop
  <2>3. fetch[s].pc # "push" BY <1>9 DEF GetNext, FetchAt
  <2>4. /\ fetch' \in [Sinks -> FetchType]
        /\ \A u \in Sinks : fetch'[u].pc = "push" <=> fetch'[u].cmd # {}
    <3>1. CASE AfterError(s) BY <1>t, <3>1, <2>3, FetchMoves DEF AfterError
    <3>2. CASE fetch' = [fetch EXCEPT ![s] = [pc |-> "push", cmd |-> {Head(inbox[s])}]]
      <4>1. [pc |-> "push", cmd |-> {Head(inbox[s])}] \in FetchType BY <2>2, Places DEF FetchType
      <4>2. fetch' \in [Sinks -> FetchType] BY <1>t, <3>2, <4>1 DEF TypeOK, FetchType
      <4> QED BY <1>t, <3>2, <4>2 DEF TypeOK
    <3> QED BY <1>9, <3>1, <3>2 DEF GetNext
  <2> QED BY <1>t, <1>9, <2>1, <2>2, <2>4 DEF TypeOK, GetNext, FetchType
<1>10. ASSUME NEW s \in Sinks, PushCmd(s) PROVE TypeOK'
  <2>1. /\ fetch' \in [Sinks -> FetchType]
        /\ \A u \in Sinks : fetch'[u].pc = "push" <=> fetch'[u].cmd # {}
    BY <1>t, <1>10 DEF TypeOK, FetchType, PushCmd
  <2>2. loop' \in Held BY <1>t, <1>10 DEF TypeOK, PushCmd
  <2> QED BY <1>t, <1>10, <2>1, <2>2 DEF TypeOK, PushCmd, FetchType
<1>11. ASSUME NEW c \in Cmds, RunCmd(c)
       PROVE  /\ run' \in [Cmds -> [Goroutines -> RunPc]]
              /\ table' \subseteq Cmds /\ started' \in [Cmds -> Nat]
  <2>1. run' \in [Cmds -> [Goroutines -> RunPc]]
    <3>1. CASE run' = [run EXCEPT ![c][1] = "process"]
      BY <1>t, <3>1, Places, RunMoves
    <3>2. CASE run' = [run EXCEPT ![c][0] = "callback"]
      BY <1>t, <3>2, Places, RunMoves
    <3> QED BY <1>11, <3>1, <3>2 DEF RunCmd
  <2>2. table \subseteq Cmds /\ started \in [Cmds -> Nat] BY <1>t DEF TypeOK
  <2> QED BY <1>11, <2>1, <2>2 DEF RunCmd
<1>12. CASE LoopRuns
  <2>1. PICK c \in loop : RunCmd(c) /\ loop' = IF run'[c][0] = "callback" THEN loop ELSE {}
    BY <1>12 DEF LoopRuns
  <2>2. c \in Cmds /\ loop' \in Held BY <1>t, <2>1, Names, Places DEF TypeOK
  <2> QED BY <1>t, <1>11, <1>12, <2>1, <2>2 DEF TypeOK, LoopRuns
<1>13. ASSUME NEW c \in Cmds, NEW g \in Goroutines, Reported(c, g)
       PROVE  /\ run' \in [Cmds -> [Goroutines -> RunPc]] /\ result' \subseteq Cmds
              /\ loop' \in Held
              /\ client' \in [Direct -> {"none", "run", "refused", "second", "wait", "reply", "closed"}]
  <2>1. run' \in [Cmds -> [Goroutines -> RunPc]]
    BY <1>t, <1>13, RunMoves DEF Reported, Goto, RunPc
  <2>2. loop' \in Held BY <1>t, <1>13 DEF TypeOK, Reported, Held
  <2> QED BY <1>t, <1>13, <2>1, <2>2 DEF TypeOK, Reported
<1>14. ASSUME NEW c \in Cmds, NEW g \in Goroutines, RunEnds(c, g) PROVE TypeOK'
  <2>1. CASE Volatile /\ UNCHANGED faults
    <3>1. faults' \in 0 .. MaxFaults BY <1>t, <2>1 DEF TypeOK
    <3> QED BY <1>t, <2>1, <3>1, VolatileType
  <2>2. CASE ~Volatile
    <3>1. run' \in [Cmds -> [Goroutines -> RunPc]]
      BY <1>t, <1>14, <2>2, RunMoves DEF RunEnds, Goto, RunPc
    <3> QED BY <1>t, <1>14, <2>2, <3>1 DEF TypeOK, RunEnds
  <2> QED BY <1>14, <2>1, <2>2 DEF RunEnds
<1>15. ASSUME NEW c \in Cmds, NEW g \in Goroutines, RPush(c, g) PROVE TypeOK'
  <2>1. run' \in [Cmds -> [Goroutines -> RunPc]] BY <1>t, <1>15, RunMoves DEF RPush, Goto, RunPc
  <2>2. PICK s \in Sinks : /\ pool' = [pool EXCEPT ![s] = Taken(@)]
                           /\ replies' = [replies EXCEPT ![Queue(s, c)] = Append(@, c)]
    BY <1>t, <1>15 DEF TypeOK, RPush, RoutesOf
  <2>3. pool' \in [Sinks -> [ok : Nat, stale : Nat]] BY <1>t, <2>2, PoolType
  <2>4. \A q \in Queues : Append(replies[q], c) \in Seq(Cmds) /\ Append(replies[q], c) # <<>>
    <3> SUFFICES ASSUME NEW q \in Queues
                 PROVE  Append(replies[q], c) \in Seq(Cmds) /\ Append(replies[q], c) # <<>>
      OBVIOUS
    <3>1. replies[q] \in Seq(Cmds) BY <1>t DEF TypeOK
    <3>2. Append(replies[q], c) \in Seq(Cmds) BY <3>1
    <3>3. Len(Append(replies[q], c)) = Len(replies[q]) + 1 /\ Len(replies[q]) \in Nat BY <3>1
    <3>4. Len(Append(replies[q], c)) # 0 BY <3>3
    <3> QED BY <3>2, <3>4
  <2>5. /\ replies' \in [Queues -> Seq(Cmds)]
        /\ \A q \in Queues : replies'[q] = replies[q] \/ replies'[q] = Append(replies[q], c)
    BY <1>t, <2>2, <2>4 DEF TypeOK
  <2>6. answered' \in [Cmds -> Nat] BY <1>t, <1>15 DEF TypeOK, RPush
  <2> QED BY <1>t, <1>15, <2>1, <2>3, <2>4, <2>5, <2>6 DEF TypeOK, RPush
<1>16. ASSUME NEW c \in Cmds, NEW g \in Goroutines, NotPushed(c, g) PROVE TypeOK'
  <2>1. pool' \in [Sinks -> [ok : Nat, stale : Nat]]
    <3>1. CASE UNCHANGED pool BY <1>t, <3>1 DEF TypeOK
    <3>2. ASSUME NEW s \in RoutesOf(c), pool' = [pool EXCEPT ![s] = Taken(@)]
          PROVE  pool' \in [Sinks -> [ok : Nat, stale : Nat]]
      <4>1. s \in Sinks BY <1>t DEF TypeOK, RoutesOf
      <4> QED BY <1>t, <3>2, <4>1, PoolType
    <3> QED BY <1>16, <3>1, <3>2 DEF NotPushed
  <2> QED BY <1>t, <1>13, <1>16, <2>1 DEF TypeOK, NotPushed
<1>17. ASSUME NEW c \in Cmds, NEW g \in Goroutines, Expire(c, g) PROVE TypeOK'
  <2>1. c \in Fetched \ Malformed /\ IdOf[c] # NoId
    BY <1>17 DEF SinksInv, PushedInv, Expire, At
  <2>2. pool' \in [Sinks -> [ok : Nat, stale : Nat]]
    <3>1. CASE UNCHANGED pool BY <1>t, <3>1 DEF TypeOK
    <3>2. CASE pool' = [pool EXCEPT ![SentTo[c]] = Returned(@)]
      BY <1>t, <2>1, <3>2, Names, PoolType
    <3> QED BY <1>17, <3>1, <3>2 DEF Expire
  <2>3. expiring' \subseteq {q \in Queues : replies[q] # <<>>}
    BY <1>t, <1>17, <2>1, Names DEF TypeOK, Expire, Expiring
  <2> QED BY <1>t, <1>13, <1>17, <2>2, <2>3 DEF TypeOK, Expire
<1>18. ASSUME NEW c \in Cmds, NEW g \in Goroutines, CleanUp(c, g) PROVE TypeOK'
  <2>1. run' \in [Cmds -> [Goroutines -> RunPc]] BY <1>t, <1>18, RunMoves DEF CleanUp, Goto, RunPc
  <2> QED BY <1>t, <1>18, <2>1 DEF TypeOK, CleanUp
<1>19. ASSUME NEW c \in Direct, Accept(c) PROVE TypeOK'
  BY <1>t, <1>19 DEF TypeOK, Accept
<1>20. ASSUME NEW c \in Direct, ServerRuns(c) PROVE TypeOK'
  BY <1>t, <1>11, <1>20, Names DEF TypeOK, ServerRuns
<1>21. ASSUME NEW c \in Direct, ServerRunsAgain(c) PROVE TypeOK'
  <2>1. run' \in [Cmds -> [Goroutines -> RunPc]]
    BY <1>t, <1>21, Names, Places, RunMoves DEF ServerRunsAgain, Goto
  <2>2. started' \in [Cmds -> Nat] BY <1>t, <1>21, Names DEF TypeOK, ServerRunsAgain
  <2> QED BY <1>t, <1>21, <2>1, <2>2 DEF TypeOK, ServerRunsAgain
<1>22. ASSUME NEW c \in Direct, WaitReturns(c) \/ Reply(c) PROVE TypeOK'
  BY <1>t, <1>22 DEF TypeOK, WaitReturns, Reply
<1>23. CASE Crash
  <2>1. faults' \in 0 .. MaxFaults BY <1>t, <1>23, SinksAssumption DEF TypeOK, Crash
  <2> QED BY <1>t, <1>23, <2>1, VolatileType DEF Crash
<1>24. CASE Restart BY <1>t, <1>24 DEF TypeOK, Restart
<1>25. CASE UNCHANGED vars BY <1>t, <1>25 DEF TypeOK, vars
<1>26. CASE FindSlot BY <1>t, <1>26 DEF TypeOK, FindSlot
<1> QED
  BY <1>1, <1>2, <1>3, <1>4, <1>5, <1>6, <1>7, <1>8, <1>9, <1>10, <1>12, <1>14, <1>15, <1>16,
     <1>17, <1>18, <1>19, <1>20, <1>21, <1>22, <1>23, <1>24, <1>25, <1>26
  DEF Next, SinkStep, RunStep, ReportStep, ServerStep, AcceptFails

-----------------------------------------------------------------------------
(* The way of a command up to the agent                                    *)

\* What holds of the commands that are on their way is kept by every step that moves
\* none of them forward, although it may lose some.
LEMMA WaitingKept ==
    ASSUME SinksInv, TypeOK',
           toSend' \subseteq toSend, loop' \subseteq loop,
           \A s \in Sinks : fetch'[s].cmd \subseteq fetch[s].cmd,
           \A s \in Sinks : \/ inbox'[s] = inbox[s]
                            \/ inbox[s] # <<>> /\ inbox'[s] = Tail(inbox[s]),
           \A c \in Fetched : Fresh(c) /\ c \notin loop => Fresh(c)'
    PROVE  (UnsentInv /\ InboxInv /\ FetchInv)'
<1> USE DEF SinksInv
<1>1. \A s \in Sinks : inbox[s] \in Seq(Fetched) BY DEF TypeOK
<1>2. \A s \in Sinks : \A k \in 1 .. Len(inbox[s]) : inbox[s][k] \in Fetched BY <1>1
<1>3. \A s \in Sinks : \A c \in fetch[s].cmd : c \in Fetched
  <2>1. \A s \in Sinks : fetch[s].cmd \in Held BY DEF TypeOK
  <2> QED BY <2>1, Places
<1>4. ASSUME NEW s \in Sinks
      PROVE  \E i \in {0, 1} : /\ \A k \in 1 .. Len(inbox'[s]) :
                                  k + i \in 1 .. Len(inbox[s]) /\ inbox'[s][k] = inbox[s][k + i]
  <2>1. CASE inbox'[s] = inbox[s] BY <1>1, <2>1
  <2>2. CASE inbox[s] # <<>> /\ inbox'[s] = Tail(inbox[s])
    <3>1. Len(inbox'[s]) = Len(inbox[s]) - 1 BY <1>1, <2>2
    <3>2. \A k \in 1 .. Len(inbox'[s]) : inbox'[s][k] = inbox[s][k + 1] BY <1>1, <2>2
    <3>3. \A k \in 1 .. Len(inbox'[s]) : k + 1 \in 1 .. Len(inbox[s]) BY <1>1, <3>1
    <3> QED BY <3>2, <3>3
  <2> QED BY <2>1, <2>2
<1>5. UnsentInv'
  <2> SUFFICES ASSUME NEW c \in Fetched \cap toSend'
               PROVE  /\ Fresh(c)' /\ c \notin loop'
                      /\ \A s \in Sinks : /\ c \notin fetch'[s].cmd
                                          /\ \A k \in 1 .. Len(inbox'[s]) : inbox'[s][k] # c
    BY DEF UnsentInv
  <2>1. Fresh(c)' /\ c \notin loop' BY DEF UnsentInv
  <2>2. \A s \in Sinks : c \notin fetch'[s].cmd BY DEF UnsentInv
  <2>3. ASSUME NEW s \in Sinks, NEW k \in 1 .. Len(inbox'[s]) PROVE inbox'[s][k] # c
    <3>1. PICK i \in {0, 1} : k + i \in 1 .. Len(inbox[s]) /\ inbox'[s][k] = inbox[s][k + i]
      BY <1>4, <2>3
    <3> QED BY <3>1 DEF UnsentInv
  <2> QED BY <2>1, <2>2, <2>3
<1>6. InboxInv'
  <2> SUFFICES ASSUME NEW s \in Sinks, NEW k \in 1 .. Len(inbox'[s])
               PROVE  /\ SentTo[inbox'[s][k]] = s /\ Fresh(inbox[s][k])' /\ inbox'[s][k] \notin loop'
                      /\ inbox'[s][k] \notin fetch'[s].cmd
                      /\ \A j \in 1 .. Len(inbox'[s]) : inbox'[s][j] = inbox'[s][k] => j = k
    BY DEF InboxInv
  <2>1. PICK i \in {0, 1} : \A j \in 1 .. Len(inbox'[s]) :
                                j + i \in 1 .. Len(inbox[s]) /\ inbox'[s][j] = inbox[s][j + i]
    BY <1>4
  <2>2. k + i \in 1 .. Len(inbox[s]) /\ inbox'[s][k] = inbox[s][k + i] BY <2>1
  <2>3. PICK c \in Fetched : c = inbox'[s][k] /\ c = inbox[s][k + i] BY <1>2, <2>2
  <2>4. SentTo[c] = s /\ Fresh(c) /\ c \notin loop /\ c \notin fetch[s].cmd
    BY <2>2, <2>3 DEF InboxInv
  <2>5. Fresh(c)' BY <2>4
  <2>6. ASSUME NEW j \in 1 .. Len(inbox'[s]), inbox'[s][j] = c PROVE j = k
    <3>1. j + i \in 1 .. Len(inbox[s]) /\ inbox[s][j + i] = c BY <2>1, <2>6
    <3>2. j + i = k + i BY <2>2, <2>3, <3>1 DEF InboxInv
    <3> QED BY <3>2
  <2>7. Fresh(inbox[s][k])' BY <2>3, <2>5
  <2> QED BY <2>3, <2>4, <2>6, <2>7
<1>7. FetchInv' BY <1>3 DEF FetchInv
<1> QED BY <1>5, <1>6, <1>7

\* A client pushes a command: it was nowhere else.
LEMMA PushedOnce ==
    ASSUME SinksInv, TypeOK', NEW c \in Fetched, ClientPush(c)
    PROVE  (UnsentInv /\ InboxInv /\ FetchInv)'
<1> USE DEF SinksInv
<1> DEFINE s == SentTo[c]
<1>1. s \in Sinks /\ inbox \in [Sinks -> Seq(Fetched)] BY Names DEF TypeOK
<1>2. inbox'[s] = Append(inbox[s], c) /\ \A t \in Sinks : t # s => inbox'[t] = inbox[t]
  BY <1>1 DEF ClientPush
<1>3. UNCHANGED <<fetch, loop, run, started, answered>>
  BY DEF ClientPush, fetchVars, jobVars, history
<1>4. \A d \in Fetched : Fresh(d) => Fresh(d)' BY <1>3 DEF Fresh
<1>5. c \in toSend /\ toSend' = toSend \ {c} BY DEF ClientPush
<1>6. \A t \in Sinks : \A k \in 1 .. Len(inbox'[t]) :
         \/ k \in 1 .. Len(inbox[t]) /\ inbox'[t][k] = inbox[t][k]
         \/ t = s /\ k = Len(inbox[t]) + 1 /\ inbox'[t][k] = c
  <2>1. ASSUME NEW k \in 1 .. Len(inbox'[s])
        PROVE  \/ k \in 1 .. Len(inbox[s]) /\ inbox'[s][k] = inbox[s][k]
               \/ k = Len(inbox[s]) + 1 /\ inbox'[s][k] = c
    <3>1. inbox[s] \in Seq(Fetched) BY <1>1
    <3> QED BY <1>2, <3>1
  <2> QED BY <1>2, <2>1
<1>7. /\ \A t \in Sinks : \A k \in 1 .. Len(inbox[t]) : inbox[t][k] \in Fetched /\ inbox[t][k] # c
      /\ Fresh(c) /\ c \notin loop /\ \A t \in Sinks : c \notin fetch[t].cmd
  BY <1>1, <1>5 DEF UnsentInv
<1>8. UnsentInv' BY <1>3, <1>4, <1>5, <1>6 DEF UnsentInv
<1>9. InboxInv'
  <2> SUFFICES ASSUME NEW t \in Sinks, NEW k \in 1 .. Len(inbox'[t])
               PROVE  /\ SentTo[inbox'[t][k]] = t /\ Fresh(inbox[t][k])' /\ inbox'[t][k] \notin loop'
                      /\ inbox'[t][k] \notin fetch'[t].cmd
                      /\ \A j \in 1 .. Len(inbox'[t]) : inbox'[t][j] = inbox'[t][k] => j = k
    BY DEF InboxInv
  <2>1. CASE k \in 1 .. Len(inbox[t]) /\ inbox'[t][k] = inbox[t][k]
    <3>1. PICK d \in Fetched : d = inbox[t][k] BY <1>7, <2>1
    <3>2. SentTo[d] = t /\ Fresh(d) /\ d \notin loop /\ d \notin fetch[t].cmd
      BY <2>1, <3>1 DEF InboxInv
    <3>3. Fresh(inbox[t][k])' BY <1>4, <2>1, <3>1, <3>2
    <3>4. \A j \in 1 .. Len(inbox'[t]) : inbox'[t][j] = d => j = k
      BY <1>6, <1>7, <2>1, <3>1 DEF InboxInv
    <3> QED BY <1>3, <2>1, <3>1, <3>2, <3>3, <3>4
  <2>2. CASE t = s /\ k = Len(inbox[t]) + 1 /\ inbox'[t][k] = c
    <3>1. Fresh(inbox[t][k])' BY <1>4, <1>7, <2>2
    <3>2. \A j \in 1 .. Len(inbox'[t]) : inbox'[t][j] = c => j = k BY <1>6, <1>7, <2>2
    <3> QED BY <1>3, <1>7, <2>2, <3>1, <3>2
  <2> QED BY <1>6, <2>1, <2>2
<1>10. \A t \in Sinks : \A d \in fetch[t].cmd : d \in Fetched
  <2>1. \A t \in Sinks : fetch[t].cmd \in Held BY DEF TypeOK
  <2> QED BY <2>1, Places
<1>11. FetchInv' BY <1>3, <1>4, <1>10 DEF FetchInv
<1> QED BY <1>8, <1>9, <1>11

\* BLPOP takes a command out of the list and hands it to the goroutine of the sink.
LEMMA PoppedOnce ==
    ASSUME SinksInv, TypeOK', NEW s \in Sinks, GetNext(s)
    PROVE  (UnsentInv /\ InboxInv /\ FetchInv)'
<1> USE DEF SinksInv
<1>1. /\ inbox[s] # <<>> /\ inbox[s] \in Seq(Fetched) /\ inbox'[s] = Tail(inbox[s])
      /\ \A t \in Sinks : t # s => inbox'[t] = inbox[t]
  BY DEF TypeOK, GetNext, Pop
<1>2. UNCHANGED <<toSend, loop, run, started, answered>> BY DEF GetNext, jobVars, history
<1>3. \A d \in Fetched : Fresh(d) => Fresh(d)' BY <1>2 DEF Fresh
<1>4. CASE AfterError(s)
  <2>1. \A t \in Sinks : fetch'[t].cmd = fetch[t].cmd
    BY <1>4, FetchMoves DEF AfterError, GetNext, FetchAt
  <2> QED BY <1>1, <1>2, <1>3, <2>1, WaitingKept
<1>5. CASE /\ Head(inbox[s]) \notin Malformed
           /\ fetch' = [fetch EXCEPT ![s] = [pc |-> "push", cmd |-> {Head(inbox[s])}]]
  <2>1. 1 \in 1 .. Len(inbox[s]) /\ Head(inbox[s]) = inbox[s][1] BY <1>1
  <2>2. PICK c \in Fetched : c = Head(inbox[s]) /\ c = inbox[s][1] BY <1>1, <2>1
  <2>3. fetch'[s].cmd = {c} /\ \A t \in Sinks : t # s => fetch'[t] = fetch[t]
    BY <1>5, <2>2 DEF TypeOK
  <2>4. /\ \A k \in 1 .. Len(inbox'[s]) : /\ k + 1 \in 1 .. Len(inbox[s])
                                          /\ inbox'[s][k] = inbox[s][k + 1]
    <3>1. Len(inbox'[s]) = Len(inbox[s]) - 1 BY <1>1
    <3> QED BY <1>1, <3>1
  <2>5. SentTo[c] = s /\ Fresh(c) /\ c \notin loop /\ c \notin toSend
    BY <2>1, <2>2 DEF InboxInv, UnsentInv
  <2>6. \A k \in 1 .. Len(inbox'[s]) : inbox'[s][k] # c
    <3> SUFFICES ASSUME NEW k \in 1 .. Len(inbox'[s]), inbox'[s][k] = c PROVE FALSE
      OBVIOUS
    <3>1. inbox[s][k + 1] = inbox[s][1] /\ k + 1 \in 1 .. Len(inbox[s]) BY <2>2, <2>4
    <3>2. k + 1 = 1 BY <2>1, <3>1 DEF InboxInv
    <3> QED BY <3>2
  <2>7. UnsentInv'
    <3> SUFFICES ASSUME NEW d \in Fetched \cap toSend
                 PROVE  /\ Fresh(d)' /\ d \notin loop'
                        /\ \A t \in Sinks : /\ d \notin fetch'[t].cmd
                                            /\ \A k \in 1 .. Len(inbox'[t]) : inbox'[t][k] # d
      BY <1>2 DEF UnsentInv
    <3>1. Fresh(d)' /\ d \notin loop' BY <1>2, <1>3 DEF UnsentInv
    <3>2. \A t \in Sinks : d \notin fetch'[t].cmd BY <2>3, <2>5 DEF UnsentInv
    <3>3. \A k \in 1 .. Len(inbox'[s]) : inbox'[s][k] # d BY <2>4 DEF UnsentInv
    <3>4. \A t \in Sinks : t # s => \A k \in 1 .. Len(inbox'[t]) : inbox'[t][k] # d
      BY <1>1 DEF UnsentInv
    <3> QED BY <3>1, <3>2, <3>3, <3>4
  <2>8. InboxInv'
    <3> SUFFICES ASSUME NEW t \in Sinks, NEW k \in 1 .. Len(inbox'[t])
                 PROVE  /\ SentTo[inbox'[t][k]] = t /\ Fresh(inbox[t][k])' /\ inbox'[t][k] \notin loop'
                        /\ inbox'[t][k] \notin fetch'[t].cmd
                        /\ \A j \in 1 .. Len(inbox'[t]) : inbox'[t][j] = inbox'[t][k] => j = k
      BY DEF InboxInv
    <3>1. CASE t = s
      <4>1. k + 1 \in 1 .. Len(inbox[s]) /\ inbox'[s][k] = inbox[s][k + 1] BY <2>4, <3>1
      <4>2. PICK d \in Fetched : d = inbox'[s][k] BY <1>1, <4>1
      <4>3. SentTo[d] = s /\ Fresh(d) /\ d \notin loop BY <4>1, <4>2 DEF InboxInv
      <4>4. Fresh(inbox[s][k])' BY <1>3, <4>2, <4>3
      <4>5. ASSUME NEW j \in 1 .. Len(inbox'[s]), inbox'[s][j] = d PROVE j = k
        <5>1. j + 1 \in 1 .. Len(inbox[s]) /\ inbox[s][j + 1] = inbox[s][k + 1]
          BY <2>4, <4>1, <4>2, <4>5
        <5>2. j + 1 = k + 1 BY <4>1, <5>1 DEF InboxInv
        <5> QED BY <5>2
      <4> QED BY <1>2, <2>3, <2>6, <3>1, <4>2, <4>3, <4>4, <4>5
    <3>2. CASE t # s
      <4>1. inbox[t] \in Seq(Fetched) /\ inbox'[t] = inbox[t] /\ fetch'[t] = fetch[t]
        BY <1>1, <2>3, <3>2 DEF TypeOK
      <4>2. PICK d \in Fetched : d = inbox[t][k] BY <4>1
      <4>3. SentTo[d] = t /\ Fresh(d) /\ d \notin loop /\ d \notin fetch[t].cmd
        BY <4>1, <4>2 DEF InboxInv
      <4>4. Fresh(inbox[t][k])' BY <1>3, <4>1, <4>2, <4>3
      <4>5. \A j \in 1 .. Len(inbox[t]) : inbox[t][j] = d => j = k
        BY <4>1, <4>2 DEF InboxInv
      <4> QED BY <1>2, <4>1, <4>2, <4>3, <4>4, <4>5
    <3> QED BY <3>1, <3>2
  <2>9. FetchInv'
    <3>1. \A t \in Sinks : \A d \in fetch[t].cmd : d \in Fetched
      <4>1. \A t \in Sinks : fetch[t].cmd \in Held BY DEF TypeOK
      <4> QED BY <4>1, Places
    <3> QED BY <1>2, <1>3, <1>5, <2>2, <2>3, <2>5, <3>1 DEF FetchInv
  <2> QED BY <2>7, <2>8, <2>9
<1> QED BY <1>4, <1>5 DEF GetNext

\* PushCmd hands the command of the goroutine to processCmds.
LEMMA HandedOnce ==
    ASSUME SinksInv, TypeOK', NEW s \in Sinks, PushCmd(s)
    PROVE  (UnsentInv /\ InboxInv /\ FetchInv /\ LoopInv)'
<1> USE DEF SinksInv
<1>1. UNCHANGED <<inbox, toSend, run, started, answered>>
  BY DEF PushCmd, redisVars, history
<1>2. \A d \in Fetched : Fresh(d) => Fresh(d)' BY <1>1 DEF Fresh
<1>3. fetch'[s].cmd = {} /\ \A t \in Sinks : t # s => fetch'[t] = fetch[t]
  BY DEF PushCmd, TypeOK
<1>4. loop = {} /\ loop' = fetch[s].cmd BY DEF PushCmd
<1>5. \A t \in Sinks : /\ \A d \in fetch[t].cmd : d \in Fetched
                       /\ \A k \in 1 .. Len(inbox[t]) : inbox[t][k] \in Fetched
  <2>1. \A t \in Sinks : fetch[t].cmd \in Held BY DEF TypeOK
  <2>2. \A t \in Sinks : inbox[t] \in Seq(Fetched) BY DEF TypeOK
  <2>3. \A t \in Sinks : \A k \in 1 .. Len(inbox[t]) : inbox[t][k] \in Fetched BY <2>2
  <2>4. \A t \in Sinks : \A d \in fetch[t].cmd : d \in Fetched BY <2>1, Places
  <2> QED BY <2>3, <2>4
<1>6. UnsentInv' BY <1>1, <1>2, <1>3, <1>4 DEF UnsentInv
<1>7. InboxInv'
  <2> SUFFICES ASSUME NEW t \in Sinks, NEW k \in 1 .. Len(inbox[t])
               PROVE  /\ SentTo[inbox[t][k]] = t /\ Fresh(inbox[t][k])' /\ inbox[t][k] \notin loop'
                      /\ inbox[t][k] \notin fetch'[t].cmd
                      /\ \A j \in 1 .. Len(inbox[t]) : inbox[t][j] = inbox[t][k] => j = k
    BY <1>1 DEF InboxInv
  <2>1. PICK d \in Fetched : d = inbox[t][k] BY <1>5
  <2>2. SentTo[d] = t /\ Fresh(d) /\ d \notin fetch[t].cmd BY <2>1 DEF InboxInv
  <2>3. Fresh(inbox[t][k])' BY <1>1, <1>2, <2>1, <2>2
  <2>4. d \notin loop' BY <1>4, <2>2 DEF FetchInv
  <2>5. d \notin fetch'[t].cmd BY <1>3, <2>2
  <2> QED BY <2>1, <2>2, <2>3, <2>4, <2>5 DEF InboxInv
<1>8. FetchInv'
  <2> SUFFICES ASSUME NEW t \in Sinks, NEW d \in fetch'[t].cmd
               PROVE  SentTo[d] = t /\ d \notin Malformed /\ Fresh(d)' /\ d \notin loop'
    BY DEF FetchInv
  <2>1. t # s /\ d \in fetch[t].cmd BY <1>3
  <2>2. SentTo[d] = t /\ d \notin Malformed /\ Fresh(d) BY <2>1 DEF FetchInv
  <2>3. d \notin loop' BY <1>4, <2>1, <2>2 DEF FetchInv
  <2> QED BY <1>2, <1>5, <2>1, <2>2, <2>3
<1>9. LoopInv' BY <1>1, <1>4, <1>5, Names, Places DEF LoopInv, FetchInv, Fresh
<1> QED BY <1>6, <1>7, <1>8, <1>9

\* The steps that concern what a command has become in the agent move no command that
\* is on its way to it.
LEMMA FreshKept ==
    ASSUME SinksInv, NEW c \in Cmds, NEW g \in Goroutines, run[c][g] # "none" \/ c \notin Fetched,
           NEW pc \in RunPc, run' = [run EXCEPT ![c][g] = pc],
           \A d \in Fetched \ {c} : started'[d] = started[d] /\ answered'[d] = answered[d]
    PROVE  \A d \in Fetched : Fresh(d) /\ d \notin loop => Fresh(d)'
<1> SUFFICES ASSUME NEW d \in Fetched, Fresh(d) PROVE Fresh(d)'
  OBVIOUS
<1>1. d # c BY DEF Fresh
<1>2. d \in Cmds BY Names
<1>3. \A h \in Goroutines : run'[d][h] = run[d][h] BY <1>1, <1>2, RunMoves DEF SinksInv
<1> QED BY <1>1, <1>3 DEF Fresh

\* No step brings a command to two places on its way to the agent.
LEMMA WaitingStep ==
    SinksInv /\ [Next]_vars => (UnsentInv /\ InboxInv /\ FetchInv)'
<1> SUFFICES ASSUME SinksInv, [Next]_vars PROVE (UnsentInv /\ InboxInv /\ FetchInv)'
  OBVIOUS
<1>t. TypeOK /\ TypeOK' BY SinksTypeStep DEF SinksInv
<1> DEFINE Kept == (UnsentInv /\ InboxInv /\ FetchInv)'
           Others == \A d \in Fetched : Fresh(d) /\ d \notin loop => Fresh(d)'
<1> USE DEF redisVars, fetchVars, jobVars, history
<1>1. ASSUME NEW c \in Fetched, ClientPush(c) PROVE Kept BY <1>t, <1>1, PushedOnce
<1>2. ASSUME NEW s \in Sinks, GetNext(s) PROVE Kept BY <1>t, <1>2, PoppedOnce
<1>3. ASSUME NEW s \in Sinks, PushCmd(s) PROVE Kept BY <1>t, <1>3, HandedOnce
<1>4. ASSUME UNCHANGED <<inbox, toSend, fetch, loop>>, Others PROVE Kept
  BY <1>t, <1>4, WaitingKept
<1>5. ASSUME UNCHANGED <<run, started, answered>> PROVE Others BY <1>5 DEF Fresh
<1>6. ASSUME NEW q \in Queues, QueueExpires(q) PROVE Kept BY <1>4, <1>5, <1>6 DEF QueueExpires
<1>7. ASSUME NEW s \in Sinks, RedisReturns(s) PROVE Kept BY <1>4, <1>5, <1>7 DEF RedisReturns
<1>8. ASSUME NEW s \in Sinks, RedisFails(s) PROVE Kept
  <2>1. \A t \in Sinks : fetch'[t].cmd = fetch[t].cmd BY <1>t, <1>8 DEF RedisFails, TypeOK
  <2>2. Others
    <3>1. \A d \in Cmds, h \in Goroutines : run[d][h] = "none" => run'[d][h] = "none"
      BY <1>8 DEF RedisFails
    <3> QED BY <1>8, <3>1, Names DEF RedisFails, Fresh
  <2>3. \A t \in Sinks : \/ inbox'[t] = inbox[t]
                         \/ inbox[t] # <<>> /\ inbox'[t] = Tail(inbox[t])
    <3>1. CASE UNCHANGED inbox BY <3>1
    <3>2. CASE inbox[s] # <<>> /\ inbox' = [inbox EXCEPT ![s] = Tail(@)]
      BY <1>t, <3>2 DEF TypeOK
    <3> QED BY <1>8, <3>1, <3>2 DEF RedisFails
  <2> QED BY <1>t, <1>8, <2>1, <2>2, <2>3, WaitingKept DEF RedisFails
<1>9. CASE Volatile
  <2>1. \A t \in Sinks : fetch'[t].cmd = {} BY <1>9 DEF Volatile, Idle
  <2>2. Others BY <1>9, Names DEF Volatile, NothingRuns, Fresh
  <2> QED BY <1>t, <1>9, <2>1, <2>2, WaitingKept DEF Volatile
<1>10. ASSUME NEW s \in Sinks, NEW pc \in {"get", "sleep", "blpop"}, fetch[s].pc # "push",
              fetch' = [fetch EXCEPT ![s].pc = pc],
              UNCHANGED <<inbox, toSend, loop, run, started, answered>>
       PROVE  Kept
  <2>1. \A t \in Sinks : fetch'[t].cmd = fetch[t].cmd BY <1>t, <1>10, FetchMoves
  <2> QED BY <1>t, <1>5, <1>10, <2>1, WaitingKept
<1>11. ASSUME NEW s \in Sinks, Register(s) PROVE Kept BY <1>10, <1>11 DEF Register, FetchAt
<1>12. ASSUME NEW s \in Sinks, RegisterRace(s) PROVE Kept
  <2>1. ASSUME NEW t \in Sinks \ {s}, fetch[t].pc = "register",
               fetch' = [fetch EXCEPT ![s].pc = "get", ![t].pc = "get"],
               UNCHANGED <<redisVars, jobVars, history>>
        PROVE  Kept
    <3>1. \A u \in Sinks : fetch'[u].cmd = fetch[u].cmd
      BY <1>t, <1>12, <2>1, RaceMoves DEF RegisterRace, FetchAt
    <3> QED BY <1>t, <1>5, <2>1, <3>1, WaitingKept
  <2> QED BY <1>9, <1>12, <2>1 DEF RegisterRace
<1>13. ASSUME NEW s \in Sinks, Connect(s) \/ ConnectionLost(s) \/ Wake(s) PROVE Kept
  <2>1. \E pc \in {"get", "sleep", "blpop"} : fetch' = [fetch EXCEPT ![s].pc = pc]
    BY <1>13 DEF Connect, ConnectionLost, Wake, AfterError
  <2>2. fetch[s].pc # "push" BY <1>13 DEF Connect, ConnectionLost, Wake, FetchAt
  <2>3. UNCHANGED <<inbox, toSend, loop, run, started, answered>>
    BY <1>13 DEF Connect, ConnectionLost, Wake
  <2> QED BY <1>10, <2>1, <2>2, <2>3
<1>14. CASE LoopRuns
  <2>1. PICK c \in loop : RunCmd(c) /\ loop' = IF run'[c][0] = "callback" THEN loop ELSE {}
    BY <1>14 DEF LoopRuns
  <2>2. c \in Cmds BY <1>t, Places, Names DEF TypeOK
  <2>3. \A d \in Cmds, h \in Goroutines : d # c => run'[d][h] = run[d][h]
    <3>1. CASE run' = [run EXCEPT ![c][1] = "process"] BY <1>t, <2>2, <3>1, Places, RunMoves
    <3>2. CASE run' = [run EXCEPT ![c][0] = "callback"] BY <1>t, <2>2, <3>2, Places, RunMoves
    <3> QED BY <2>1, <3>1, <3>2 DEF RunCmd
  <2>4. \A d \in Cmds : d # c => started'[d] = started[d] BY <1>t, <2>1 DEF RunCmd, TypeOK
  <2>5. Others BY <1>14, <2>3, <2>4, Names DEF Fresh, LoopRuns
  <2> QED BY <1>t, <1>14, <2>1, <2>5, WaitingKept DEF LoopRuns
<1>15. ASSUME NEW c \in Cmds, NEW g \in Goroutines, RunStep(c, g) PROVE Kept
  <2>1. CASE ~Volatile
    <3>1. \E pc \in RunPc : run' = [run EXCEPT ![c][g] = pc]
      BY <1>15, <2>1, Places DEF RunStep, ReportStep, RunEnds, RPush, NotPushed, Expire, CleanUp, Reported, Goto
    <3>2. run[c][g] # "none" BY <1>15 DEF RunStep, ReportStep, RunEnds, RPush, NotPushed, Expire, CleanUp, At
    <3>3. \A d \in Fetched \ {c} : started'[d] = started[d] /\ answered'[d] = answered[d]
      BY <1>t, <1>15, <2>1, Names DEF RunStep, ReportStep, RunEnds, RPush, NotPushed, Expire, CleanUp, TypeOK
    <3>4. PICK pc \in RunPc : run' = [run EXCEPT ![c][g] = pc] BY <3>1
    <3>5. Others BY <3>2, <3>3, <3>4, FreshKept
    <3>6. UNCHANGED <<inbox, toSend, fetch>> /\ loop' \subseteq loop
      BY <1>15, <2>1 DEF RunStep, ReportStep, RunEnds, RPush, NotPushed, Expire, CleanUp, Reported
    <3> QED BY <1>t, <3>5, <3>6, WaitingKept
  <2> QED BY <1>9, <2>1
<1>16. ASSUME NEW c \in Direct, Accept(c) PROVE Kept
  BY <1>t, <1>5, <1>16, WaitingKept DEF Accept
<1>17. ASSUME NEW c \in Direct, ServerRuns(c) \/ ServerRunsAgain(c) PROVE Kept
  <2>1. c \in Cmds /\ c \notin Fetched BY Names
  <2>2. \E g \in Goroutines, pc \in RunPc : run' = [run EXCEPT ![c][g] = pc]
    BY <1>17, Places DEF ServerRuns, ServerRunsAgain, RunCmd, Goto
  <2>3. answered' = answered /\ \A d \in Fetched \ {c} : started'[d] = started[d]
    BY <1>t, <1>17, Names DEF ServerRuns, ServerRunsAgain, RunCmd, TypeOK
  <2>4. Others BY <2>1, <2>2, <2>3, FreshKept
  <2> QED BY <1>4, <1>17, <2>4 DEF ServerRuns, ServerRunsAgain
<1>18. ASSUME NEW c \in Direct, WaitReturns(c) \/ Reply(c) PROVE Kept
  BY <1>4, <1>5, <1>18 DEF WaitReturns, Reply
<1>19. CASE Restart \/ FindSlot BY <1>4, <1>5, <1>19 DEF Restart, FindSlot
<1>20. CASE UNCHANGED vars BY <1>4, <1>5, <1>20 DEF vars
<1> QED
  BY <1>1, <1>2, <1>3, <1>6, <1>7, <1>8, <1>9, <1>11, <1>12, <1>13, <1>14, <1>15, <1>16, <1>17,
     <1>18, <1>19, <1>20
  DEF Next, SinkStep, ServerStep, AcceptFails, Crash

-----------------------------------------------------------------------------
(* What becomes of a command in the agent                                  *)

AgentInv == LoopInv /\ RunInv /\ PushedInv /\ JobInv /\ ClientInv /\ AtMostOnce

\* Steps outside of the jobs.
LEMMA AgentFrame ==
    ASSUME SinksInv, UNCHANGED <<loop, table, run, statsd, client, started, answered>>
    PROVE  AgentInv'
<1>1. LoopInv' /\ RunInv' /\ AtMostOnce' BY DEF SinksInv, LoopInv, RunInv, AtMostOnce
<1>2. PushedInv' BY DEF SinksInv, PushedInv
<1>3. JobInv' /\ ClientInv' BY DEF SinksInv, JobInv, ClientInv
<1> QED BY <1>1, <1>2, <1>3 DEF AgentInv

\* The agent ends and leaves no job.
LEMMA AgentGone == ASSUME SinksInv, TypeOK', Volatile PROVE AgentInv'
<1>1. \A c \in Cmds, g \in Goroutines : run'[c][g] = "none" BY DEF Volatile, NothingRuns
<1>2. loop' = {} /\ table' = {} /\ statsd' = {} /\ UNCHANGED <<started, answered>>
  BY DEF Volatile, history
<1>3. LoopInv' /\ AtMostOnce' BY <1>2 DEF SinksInv, LoopInv, AtMostOnce
<1>4. RunInv' /\ PushedInv' /\ JobInv' BY <1>1, <1>2, Names, Places DEF RunInv, PushedInv, JobInv, Ending
<1>5. ClientInv'
  <2>1. \A c \in Direct : client'[c] # "second" BY DEF Volatile
  <2> QED BY <1>1, <2>1, Names DEF ClientInv
<1> QED BY <1>3, <1>4, <1>5 DEF AgentInv

\* A Redis that fails turns an Expire that is under way into an error.
LEMMA RedisFailsAgent == ASSUME SinksInv, TypeOK', NEW s \in Sinks, RedisFails(s) PROVE AgentInv'
<1>1. \A c \in Cmds, g \in Goroutines :
         \/ run'[c][g] = run[c][g]
         \/ run[c][g] = "expire" /\ run'[c][g] = "broken"
  BY DEF RedisFails
<1>2. UNCHANGED <<loop, table, statsd, client, started, answered>> BY DEF RedisFails, history
<1>3. \A c \in loop : c \in Cmds BY Names, Places DEF SinksInv, TypeOK
<1>4. LoopInv'
  <2>1. \A c \in loop : run'[c][1] = run[c][1] \/ run[c][1] = "expire" BY <1>1, <1>3, Places
  <2>2. \A c \in loop : run'[c][0] = "none" => run[c][0] = "none" BY <1>1, <1>3, Places
  <2> QED BY <1>2, <2>1, <2>2 DEF SinksInv, LoopInv
<1>5. RunInv' BY <1>1, <1>2, Names, Places DEF SinksInv, RunInv
<1>6. PushedInv' BY <1>1 DEF SinksInv, PushedInv
<1>7. JobInv' BY <1>1, <1>2, Places DEF SinksInv, JobInv, Ending
<1>8. ClientInv' BY <1>1, <1>2, Names, Places DEF SinksInv, ClientInv
<1>9. AtMostOnce' BY <1>2 DEF SinksInv, AtMostOnce
<1> QED BY <1>4, <1>5, <1>6, <1>7, <1>8, <1>9 DEF AgentInv

\* What RunCmd does for a command that nothing was done for: it is filed and runs once,
\* or it is refused.
LEMMA RunCmdAgent ==
    ASSUME SinksInv, TypeOK', NEW c \in Cmds, RunCmd(c),
           \A g \in Goroutines : run[c][g] = "none",
           UNCHANGED <<statsd, answered>>
    PROVE  /\ JobInv' /\ PushedInv'
           /\ \A d \in Cmds : d # c => run'[d] = run[d] /\ started'[d] = started[d]
           /\ table \subseteq table' /\ run'[c][2] = "none"
           /\ \/ run'[c][0] = "callback" /\ run'[c][1] = "none" /\ started'[c] = started[c]
              \/ /\ run'[c][0] = "none" /\ run'[c][1] = "process" /\ started'[c] = started[c] + 1
                 /\ c \in table'
<1>t. TypeOK BY DEF SinksInv
<1>1. CASE /\ ~Filed(IdOf[c]) /\ table' = table \cup {c} /\ run' = [run EXCEPT ![c][1] = "process"]
           /\ started' = [started EXCEPT ![c] = @ + 1]
  <2>1. /\ run'[c][1] = "process"
        /\ \A d \in Cmds, h \in Goroutines : d # c \/ h # 1 => run'[d][h] = run[d][h]
    BY <1>t, <1>1, Places, RunMoves
  <2>2. run'[c][0] = "none" /\ run'[c][2] = "none" BY <2>1, Places
  <2>3. \A d \in Cmds : d # c => run'[d] = run[d] BY <1>t, <1>1 DEF TypeOK
  <2>4. started'[c] = started[c] + 1 /\ \A d \in Cmds : d # c => started'[d] = started[d]
    BY <1>t, <1>1 DEF TypeOK
  <2>5. PushedInv' BY <2>1, Places DEF SinksInv, PushedInv
  <2>6. JobInv'
    <3>1. \A d, e \in table' : IdOf[d] = IdOf[e] => d = e
      BY <1>1 DEF Filed, SinksInv, JobInv
    <3>2. \A d \in Cmds : d # c => run'[d] = run[d] /\ (d \in table => d \in table')
      BY <1>1, <2>3
    <3> QED BY <1>1, <2>1, <2>2, <3>1, <3>2 DEF SinksInv, JobInv, Ending
  <2> QED BY <1>1, <2>1, <2>2, <2>3, <2>4, <2>5, <2>6
<1>2. CASE run' = [run EXCEPT ![c][0] = "callback"] /\ UNCHANGED <<table, started>>
  <2>1. /\ run'[c][0] = "callback"
        /\ \A d \in Cmds, h \in Goroutines : d # c \/ h # 0 => run'[d][h] = run[d][h]
    BY <1>t, <1>2, Places, RunMoves
  <2>2. run'[c][1] = "none" /\ run'[c][2] = "none" BY <2>1, Places
  <2>3. \A d \in Cmds : d # c => run'[d] = run[d] BY <1>t, <1>2 DEF TypeOK
  <2>4. PushedInv' BY <2>1, Places DEF SinksInv, PushedInv
  <2>5. JobInv' BY <1>2, <2>1, <2>2, <2>3 DEF SinksInv, JobInv, Ending
  <2> QED BY <1>2, <2>1, <2>2, <2>3, <2>4, <2>5
<1> QED BY <1>1, <1>2 DEF RunCmd

\* processCmds runs the command it took.
LEMMA LoopRunsAgent == ASSUME SinksInv, TypeOK', LoopRuns PROVE AgentInv'
<1>t. TypeOK BY DEF SinksInv
<1>1. PICK c \in loop : /\ run[c][0] = "none" /\ RunCmd(c)
                        /\ loop' = IF run'[c][0] = "callback" THEN loop ELSE {}
  BY DEF LoopRuns
<1>2. c \in Fetched /\ c \in Cmds /\ loop = {c} BY <1>t, Names, Places DEF TypeOK
<1>3. run[c][1] = "none" /\ run[c][2] = "none" /\ started[c] = 0 /\ answered[c] = 0 /\ c \notin Malformed
  BY <1>1, <1>2 DEF SinksInv, LoopInv, RunInv
<1>4. \A g \in Goroutines : run[c][g] = "none" BY <1>1, <1>3 DEF Goroutines
<1>5. UNCHANGED <<statsd, client, answered>> BY DEF LoopRuns
<1>6. /\ JobInv' /\ PushedInv'
      /\ \A d \in Cmds : d # c => run'[d] = run[d] /\ started'[d] = started[d]
      /\ table \subseteq table' /\ run'[c][2] = "none"
      /\ \/ run'[c][0] = "callback" /\ run'[c][1] = "none" /\ started'[c] = started[c]
         \/ /\ run'[c][0] = "none" /\ run'[c][1] = "process" /\ started'[c] = started[c] + 1
            /\ c \in table'
  BY <1>1, <1>2, <1>4, <1>5, RunCmdAgent
<1>7. LoopInv' BY <1>1, <1>2, <1>3, <1>6 DEF LoopInv
<1>8. RunInv'
  <2>1. \A d \in Fetched \ {c} : d \in Cmds /\ run'[d] = run[d] BY <1>6, Names
  <2> QED BY <1>3, <1>5, <1>6, <2>1 DEF SinksInv, RunInv, Goroutines
<1>9. AtMostOnce'
  <2>1. \A d \in Fetched \ {c} : started'[d] = started[d] BY <1>6, Names
  <2>2. started'[c] <= 1 BY <1>3, <1>6
  <2> QED BY <1>3, <1>5, <2>1, <2>2 DEF SinksInv, AtMostOnce
<1>10. ClientInv'
  <2>1. \A d \in Direct : run'[d] = run[d] BY <1>2, <1>6, Names
  <2> QED BY <1>5, <1>6, <2>1 DEF SinksInv, ClientInv
<1> QED BY <1>6, <1>7, <1>8, <1>9, <1>10 DEF AgentInv

\* One goroutine goes on in Run after its process ended, or in RunCmd with its refusal,
\* and touches nothing of another command.
LEMMA Onwards ==
    ASSUME SinksInv, TypeOK', NEW c \in Cmds, NEW g \in Goroutines, NEW pc \in RunPc \ {"none", "process"},
           run[c][g] # "none", run' = [run EXCEPT ![c][g] = pc],
           g = 0 => pc # "cleanup",
           g # 0 => c \in statsd' /\ (pc # "end" => c \in table'),
           g # 0 /\ run[c][g] = "process" => c \notin statsd,
           pc = "callback" => run[c][g] \in {"process", "callback"},
           pc \in {"expire", "broken"} => c \in Fetched /\ IdOf[c] # NoId,
           statsd \subseteq statsd', started' = started,
           loop' = loop \/ (g = 0 /\ loop' = loop \ {c}),
           table' = table \/ (table' = table \ {c} /\ c \in statsd' /\ g # 0 /\ pc = "end"),
           \A d \in Direct : client'[d] = client[d] \/ (d = c /\ client'[d] = "reply"),
           \A d \in Fetched : \/ answered'[d] = answered[d]
                              \/ d = c /\ answered[c] = 0 /\ answered'[c] = 1 /\ pc # "callback"
    PROVE  AgentInv'
<1>t. TypeOK BY DEF SinksInv
<1>1. /\ run'[c][g] = pc
      /\ \A d \in Cmds, h \in Goroutines : d # c \/ h # g => run'[d][h] = run[d][h]
  <2>1. pc \in RunPc /\ run' = [run EXCEPT ![c][g] = pc] OBVIOUS
  <2>2. run \in [Cmds -> [Goroutines -> RunPc]] BY <1>t DEF TypeOK
  <2>3. run' = [run EXCEPT ![c] = [run[c] EXCEPT ![g] = pc]] BY <2>1
  <2>4. run'[c] = [run[c] EXCEPT ![g] = pc] /\ \A d \in Cmds : d # c => run'[d] = run[d] BY <2>2, <2>3
  <2>5. run'[c][g] = pc /\ \A h \in Goroutines : h # g => run'[c][h] = run[c][h] BY <2>2, <2>4
  <2> QED BY <2>4, <2>5
<1>2. \A d \in Cmds : d # c => run'[d] = run[d] BY <1>t DEF TypeOK
<1>3. LoopInv'
  <2> SUFFICES ASSUME NEW d \in loop'
               PROVE  /\ d \notin Malformed /\ started'[d] = 0 /\ run'[d][1] = "none"
                      /\ run'[d][0] = "none" => answered'[d] = 0
    BY DEF LoopInv
  <2>1. d \in loop /\ d \in Fetched /\ d \in Cmds BY <1>t, Names, Places DEF TypeOK
  <2>2. /\ d \notin Malformed /\ started[d] = 0 /\ run[d][1] = "none" /\ run[d][2] = "none"
        /\ run[d][0] = "none" => answered[d] = 0
    BY <2>1 DEF SinksInv, LoopInv, RunInv
  <2>3. CASE d # c BY <1>2, <2>1, <2>2, <2>3
  <2>4. CASE d = c
    <3>1. g = 0 BY <2>2, <2>4 DEF Goroutines
    <3>2. run'[d][1] = "none" BY <1>1, <2>1, <2>2, <3>1, Places
    <3>3. run'[d][0] # "none" BY <1>1, <2>4, <3>1
    <3> QED BY <2>2, <3>2, <3>3
  <2> QED BY <2>3, <2>4
<1>4. RunInv'
  <2> SUFFICES ASSUME NEW d \in Fetched
               PROVE  /\ run'[d][2] = "none"
                      /\ run'[d][0] = "none" \/ run'[d][1] = "none"
                      /\ \A h \in Goroutines : run'[d][h] \in {"process", "callback"} => answered'[d] = 0
                      /\ \A h \in Goroutines : run'[d][h] # "none" => d \notin Malformed
                      /\ run'[d][1] = "process" => d \in table'
    BY DEF RunInv
  <2>1. d \in Cmds BY Names
  <2>2. CASE d # c BY <1>2, <2>1, <2>2 DEF SinksInv, RunInv
  <2>3. CASE d = c
    <3>1. g \in {0, 1} /\ c \notin Malformed BY <2>3 DEF Goroutines, SinksInv, RunInv
    <3>2. \A h \in Goroutines : h # g => run[c][h] = "none"
      BY <2>3, <3>1 DEF Goroutines, SinksInv, RunInv
    <3>3. \A h \in Goroutines : h # g => run'[c][h] = "none" BY <1>1, <3>2
    <3>4. pc = "callback" => answered'[c] = 0 BY <2>3 DEF SinksInv, RunInv
    <3> QED BY <1>1, <2>3, <3>1, <3>3, <3>4, Places
  <2> QED BY <2>2, <2>3
<1>5. PushedInv'
  <2>1. pc \in {"expire", "broken"} => c \notin Malformed BY DEF SinksInv, RunInv
  <2> QED BY <1>1, <2>1 DEF SinksInv, PushedInv
<1>6. JobInv'
  <2>1. \A d, e \in table' : IdOf[d] = IdOf[e] => d = e BY DEF SinksInv, JobInv
  <2>2. ASSUME NEW d \in Cmds, d # c
        PROVE  /\ run'[d] = run[d] /\ (d \in table => d \in table') /\ (d \in statsd => d \in statsd')
    BY <1>2, <2>2
  <2>3. run'[c][0] \in {"none", "callback", "expire", "broken", "end"}
    <3>1. CASE g = 0 BY <1>1, <3>1, Places
    <3>2. CASE g # 0 BY <1>1, <3>2, Places DEF SinksInv, JobInv
    <3> QED BY <3>1, <3>2
  <2>4. ASSUME NEW h \in {1, 2}
        PROVE  /\ run'[c][h] = "process" => c \in table' \cup statsd'
               /\ run'[c][h] \in Ending => c \in table'
               /\ run'[c][h] \in Ending \cup {"end"} => c \in statsd'
    <3>1. h \in Goroutines BY Places
    <3>2. CASE h = g BY <1>1, <3>2 DEF Ending
    <3>3. CASE h # g
      <4>1. run'[c][h] = run[c][h] BY <1>1, <3>1, <3>3
      <4>2. /\ run[c][h] = "process" => c \in table \cup statsd
            /\ run[c][h] \in Ending => c \in table /\ c \in statsd
            /\ run[c][h] = "end" => c \in statsd
        BY DEF SinksInv, JobInv
      <4>3. run[c][h] \in Ending => c \in table'
        <5> SUFFICES ASSUME run[c][h] \in Ending, table' = table \ {c}, g # 0 PROVE FALSE
          BY <4>2
        <5>1. run[c][g] \in {"none", "process"} BY <3>3 DEF SinksInv, JobInv, Ending, Goroutines
        <5> QED BY <4>2, <5>1
      <4> QED BY <4>1, <4>2, <4>3
    <3> QED BY <3>2, <3>3
  <2>5. run'[c][1] \in {"none", "process"} \/ run'[c][2] \in {"none", "process"}
    <3>1. CASE g = 0 BY <1>1, <3>1, Places DEF SinksInv, JobInv
    <3>2. ASSUME NEW h \in {1, 2}, g # 0, g # h PROVE run'[c][h] \in {"none", "process"}
      <4>1. h \in Goroutines /\ run'[c][h] = run[c][h] /\ run[c][h] \in RunPc
        BY <1>t, <1>1, <3>2, Places DEF TypeOK
      <4>2. CASE run[c][g] = "process"
        <5>1. c \notin statsd BY <3>2, <4>2
        <5> QED BY <4>1, <5>1, Places DEF SinksInv, JobInv, Ending
      <4>3. CASE run[c][g] # "process"
        BY <3>2, <4>1, <4>3, Places DEF SinksInv, JobInv, Goroutines
      <4> QED BY <4>2, <4>3
    <3> QED BY <3>1, <3>2 DEF Goroutines
  <2> QED BY <2>1, <2>2, <2>3, <2>4, <2>5 DEF SinksInv, JobInv
<1>7. ClientInv'
  <2> SUFFICES ASSUME NEW d \in Direct
               PROVE  /\ client'[d] \in {"none", "run"} => \A h \in Goroutines : run'[d][h] = "none"
                      /\ client'[d] = "second" => run'[d][2] = "none" /\ d \in table' \cup statsd'
    BY DEF ClientInv
  <2>1. d \in Cmds BY Names
  <2>2. CASE d # c BY <1>2, <2>1, <2>2 DEF SinksInv, ClientInv
  <2>3. CASE d = c
    <3>1. client[d] \notin {"none", "run"} BY <2>3 DEF SinksInv, ClientInv
    <3>2. CASE client[d] = "second"
      <4>1. g # 2 /\ run[d][2] = "none" /\ d \in table \cup statsd BY <2>3, <3>2 DEF SinksInv, ClientInv
      <4>2. run'[d][2] = "none" BY <1>1, <2>3, <4>1, Places
      <4> QED BY <2>3, <3>1, <3>2, <4>1, <4>2
    <3>3. CASE client[d] # "second" BY <3>1, <3>3
    <3> QED BY <3>2, <3>3
  <2> QED BY <2>2, <2>3
<1>8. AtMostOnce' BY DEF SinksInv, AtMostOnce
<1> QED BY <1>3, <1>4, <1>5, <1>6, <1>7, <1>8 DEF AgentInv

\* The second goroutine of a local job, or the first, ends the agent; the other one
\* stops the statistics and goes on to report.
LEMMA RunEndsAgent ==
    ASSUME SinksInv, TypeOK', NEW c \in Cmds, NEW g \in Goroutines, RunEnds(c, g)
    PROVE  AgentInv'
<1>1. CASE Volatile BY <1>1, AgentGone
<1>2. CASE ~Volatile
  <2>1. /\ run[c][g] = "process" /\ c \notin statsd /\ statsd' = statsd \cup {c}
        /\ run' = [run EXCEPT ![c][g] = "callback"]
        /\ UNCHANGED <<loop, table, client, started, answered>>
    BY <1>2 DEF RunEnds, At, Goto, history
  <2>2. g \in {1, 2} BY <2>1 DEF SinksInv, JobInv, Goroutines
  <2>3. c \in table BY <2>1, <2>2 DEF SinksInv, JobInv
  <2>4. "callback" \in RunPc \ {"none", "process"} BY Places
  <2> QED BY <2>1, <2>2, <2>3, <2>4, Onwards
<1> QED BY <1>1, <1>2

\* The result is pushed.
LEMMA RPushAgent ==
    ASSUME SinksInv, TypeOK', NEW c \in Cmds, NEW g \in Goroutines, RPush(c, g)
    PROVE  AgentInv'
<1>1. /\ run[c][g] = "callback" /\ IdOf[c] # NoId /\ run' = [run EXCEPT ![c][g] = "expire"]
      /\ UNCHANGED <<loop, table, statsd, client, started>>
  BY DEF RPush, At, Goto
<1>2. c \in Fetched BY Names DEF RPush, RoutesOf, SinksInv, TypeOK
<1>3. answered[c] = 0 /\ answered'[c] = 1 /\ \A d \in Fetched : d # c => answered'[d] = answered[d]
  <2>1. answered[c] = 0 BY <1>1, <1>2 DEF SinksInv, RunInv
  <2> QED BY <2>1, Names DEF RPush, SinksInv, TypeOK
<1>4. g # 0 => c \in statsd /\ c \in table BY <1>1 DEF SinksInv, JobInv, Ending, Goroutines
<1> DEFINE pc == "expire"
<1>5. pc \in RunPc \ {"none", "process"} /\ pc # "callback" /\ pc # "cleanup" BY Places
<1>6. \A d \in Fetched : \/ answered'[d] = answered[d]
                         \/ d = c /\ answered[c] = 0 /\ answered'[c] = 1 /\ pc # "callback"
  BY <1>3, <1>5
<1>7. run[c][g] # "none" /\ run[c][g] # "process" /\ run' = [run EXCEPT ![c][g] = pc] BY <1>1
<1> HIDE DEF pc
<1> QED BY <1>1, <1>2, <1>4, <1>5, <1>6, <1>7, Onwards

\* The callback is over, with the result pushed or lost.
LEMMA ReportedAgent ==
    ASSUME SinksInv, TypeOK', NEW c \in Cmds, NEW g \in Goroutines,
           run[c][g] \in {"callback", "expire", "broken"}, Reported(c, g),
           UNCHANGED <<table, statsd, started, answered>>
    PROVE  AgentInv'
<1> DEFINE pc == IF g = 0 THEN "end" ELSE "cleanup"
<1>1. pc \in RunPc \ {"none", "process"} /\ run' = [run EXCEPT ![c][g] = pc]
  BY Places DEF Reported, Goto
<1>2. loop' = loop \/ (g = 0 /\ loop' = loop \ {c}) BY DEF Reported
<1>3. \A d \in Direct : client'[d] = client[d] \/ (d = c /\ client'[d] = "reply")
  BY DEF Reported, SinksInv, TypeOK
<1>4. g # 0 => c \in statsd /\ c \in table BY DEF SinksInv, JobInv, Ending, Goroutines
<1>5. g = 0 => pc # "cleanup" OBVIOUS
<1>6. pc \notin {"callback", "expire", "broken"} OBVIOUS
<1> HIDE DEF pc
<1> QED BY <1>1, <1>2, <1>3, <1>4, <1>5, <1>6, Onwards

\* cleanUp deletes by id, and what it deletes is its own entry.
LEMMA CleanUpAgent ==
    ASSUME SinksInv, TypeOK', NEW c \in Cmds, NEW g \in Goroutines, CleanUp(c, g)
    PROVE  AgentInv'
<1>1. /\ run[c][g] = "cleanup" /\ run' = [run EXCEPT ![c][g] = "end"]
      /\ table' = {d \in table : IdOf[d] # IdOf[c]}
      /\ UNCHANGED <<loop, statsd, client, started, answered>>
  BY DEF CleanUp, At, Goto, history
<1>2. g \in {1, 2} BY <1>1 DEF SinksInv, JobInv, Goroutines
<1>3. c \in statsd /\ c \in table BY <1>1, <1>2 DEF SinksInv, JobInv, Ending
<1>4. table' = table \ {c} BY <1>1, <1>3 DEF SinksInv, JobInv
<1> DEFINE pc == "end"
<1>5. pc \in RunPc \ {"none", "process"} /\ pc \notin {"callback", "cleanup", "expire", "broken"}
  BY Places
<1>6. run[c][g] # "none" /\ run[c][g] # "process" /\ run' = [run EXCEPT ![c][g] = pc] BY <1>1
<1>7. table' = table \ {c} /\ c \in statsd' /\ g # 0 /\ pc = "end" BY <1>1, <1>2, <1>3, <1>4
<1> HIDE DEF pc
<1> QED BY <1>1, <1>3, <1>5, <1>6, <1>7, Onwards

\* The local server runs a command.
LEMMA ServerRunsAgent ==
    ASSUME SinksInv, TypeOK', NEW c \in Direct, ServerRuns(c)
    PROVE  AgentInv'
<1>t. TypeOK BY DEF SinksInv
<1>1. c \in Cmds /\ c \notin Fetched BY Names
<1>2. \A g \in Goroutines : run[c][g] = "none" BY DEF ServerRuns, ClientAt, SinksInv, ClientInv
<1>3. /\ RunCmd(c) /\ UNCHANGED <<loop, statsd, answered>>
      /\ client' = [client EXCEPT ![c] = IF run'[c][0] = "callback" THEN "refused" ELSE "second"]
  BY DEF ServerRuns
<1>4. /\ JobInv' /\ PushedInv'
      /\ \A d \in Cmds : d # c => run'[d] = run[d] /\ started'[d] = started[d]
      /\ table \subseteq table' /\ run'[c][2] = "none"
      /\ \/ run'[c][0] = "callback" /\ run'[c][1] = "none" /\ started'[c] = started[c]
         \/ /\ run'[c][0] = "none" /\ run'[c][1] = "process" /\ started'[c] = started[c] + 1
            /\ c \in table'
  BY <1>1, <1>2, <1>3, RunCmdAgent
<1>5. \A d \in Fetched : run'[d] = run[d] /\ started'[d] = started[d] BY <1>1, <1>4, Names
<1>6. \A d \in loop : d \in Fetched BY <1>t, Places DEF TypeOK
<1>7. LoopInv' BY <1>3, <1>5, <1>6 DEF SinksInv, LoopInv
<1>8. RunInv' BY <1>3, <1>4, <1>5 DEF SinksInv, RunInv
<1>9. AtMostOnce' BY <1>3, <1>5 DEF SinksInv, AtMostOnce
<1>10. ClientInv'
  <2>1. \A d \in Direct : d # c => client'[d] = client[d] /\ run'[d] = run[d]
    BY <1>t, <1>3, <1>4, Names DEF TypeOK
  <2>2. client'[c] \in {"refused", "second"} /\ (client'[c] = "second" => run'[c][0] # "callback")
    BY <1>t, <1>3 DEF TypeOK
  <2> QED BY <1>3, <1>4, <2>1, <2>2 DEF SinksInv, ClientInv
<1> QED BY <1>4, <1>7, <1>8, <1>9, <1>10 DEF AgentInv

\* And runs its runner a second time.
LEMMA ServerRunsAgainAgent ==
    ASSUME SinksInv, TypeOK', NEW c \in Direct, ServerRunsAgain(c)
    PROVE  AgentInv'
<1>t. TypeOK BY DEF SinksInv
<1>1. c \in Cmds /\ c \notin Fetched BY Names
<1>2. /\ UNCHANGED <<loop, table, statsd, answered>> /\ run' = [run EXCEPT ![c][2] = "process"]
      /\ client' = [client EXCEPT ![c] = IF c \in Sync THEN "wait" ELSE "reply"]
      /\ client[c] = "second" /\ started' = [started EXCEPT ![c] = @ + 1]
  BY DEF ServerRunsAgain, ClientAt, Goto
<1>3. /\ run'[c][2] = "process"
      /\ \A d \in Cmds, h \in Goroutines : d # c \/ h # 2 => run'[d][h] = run[d][h]
  BY <1>t, <1>1, <1>2, Places, RunMoves
<1>4. \A d \in Cmds : d # c => run'[d] = run[d] /\ started'[d] = started[d]
  BY <1>t, <1>1, <1>2 DEF TypeOK
<1>5. run'[c][0] = run[c][0] /\ run'[c][1] = run[c][1] BY <1>1, <1>3, Places
<1>6. c \in table \cup statsd /\ run[c][2] = "none" BY <1>2 DEF SinksInv, ClientInv
<1>7. \A d \in Fetched : run'[d] = run[d] /\ started'[d] = started[d] BY <1>1, <1>4, Names
<1>8. \A d \in loop : d \in Fetched BY <1>t, Places DEF TypeOK
<1>9. LoopInv' /\ RunInv' /\ AtMostOnce'
  BY <1>2, <1>7, <1>8 DEF SinksInv, LoopInv, RunInv, AtMostOnce
<1>10. PushedInv' BY <1>3 DEF SinksInv, PushedInv
<1>11. JobInv' BY <1>2, <1>3, <1>4, <1>5, <1>6 DEF SinksInv, JobInv, Ending
<1>12. ClientInv'
  <2>1. \A d \in Direct : d # c => client'[d] = client[d] /\ run'[d] = run[d]
    BY <1>t, <1>2, <1>4, Names DEF TypeOK
  <2>2. client'[c] \in {"wait", "reply"} BY <1>t, <1>2 DEF TypeOK
  <2> QED BY <1>2, <2>1, <2>2 DEF SinksInv, ClientInv
<1> QED BY <1>9, <1>10, <1>11, <1>12 DEF AgentInv

\* Every step keeps what holds of the jobs of the agent.
LEMMA AgentStepKept == SinksInv /\ [Next]_vars => AgentInv'
<1> SUFFICES ASSUME SinksInv, [Next]_vars PROVE AgentInv'
  OBVIOUS
<1>t. TypeOK /\ TypeOK' BY SinksTypeStep DEF SinksInv
<1> USE DEF redisVars, fetchVars, jobVars, history
<1>1. ASSUME NEW c \in Fetched, ClientPush(c) PROVE AgentInv' BY <1>1, AgentFrame DEF ClientPush
<1>2. ASSUME NEW q \in Queues, QueueExpires(q) PROVE AgentInv' BY <1>2, AgentFrame DEF QueueExpires
<1>3. ASSUME NEW s \in Sinks, RedisFails(s) PROVE AgentInv' BY <1>t, <1>3, RedisFailsAgent
<1>4. ASSUME NEW s \in Sinks, RedisReturns(s) PROVE AgentInv' BY <1>4, AgentFrame DEF RedisReturns
<1>5. ASSUME NEW s \in Sinks, PushCmd(s) PROVE AgentInv'
  <2>1. LoopInv' BY <1>t, <1>5, HandedOnce
  <2>2. UNCHANGED <<table, run, statsd, client, started, answered>> BY <1>5 DEF PushCmd
  <2>3. (RunInv /\ PushedInv /\ JobInv /\ ClientInv /\ AtMostOnce)'
    BY <2>2 DEF SinksInv, RunInv, PushedInv, JobInv, ClientInv, AtMostOnce
  <2> QED BY <2>1, <2>3 DEF AgentInv
<1>6. ASSUME NEW s \in Sinks, SinkStep(s), ~PushCmd(s) PROVE AgentInv'
  <2>1. CASE Volatile BY <1>t, <2>1, AgentGone
  <2>2. CASE ~Volatile
    <3>1. UNCHANGED <<loop, table, run, statsd, client, started, answered>>
      BY <1>6, <2>2 DEF SinkStep, Register, RegisterRace, Connect, ConnectionLost, GetNext, Wake
    <3> QED BY <3>1, AgentFrame
  <2> QED BY <2>1, <2>2
<1>7. CASE LoopRuns BY <1>t, <1>7, LoopRunsAgent
<1>8. ASSUME NEW c \in Cmds, NEW g \in Goroutines, RunStep(c, g) PROVE AgentInv'
  <2>1. CASE NotPushed(c, g) \/ Expire(c, g)
    <3>1. /\ run[c][g] \in {"callback", "expire", "broken"} /\ Reported(c, g)
          /\ UNCHANGED <<table, statsd, started, answered>>
      BY <2>1 DEF NotPushed, Expire, At
    <3> QED BY <1>t, <3>1, ReportedAgent
  <2> QED BY <1>t, <1>8, <2>1, RunEndsAgent, RPushAgent, CleanUpAgent DEF RunStep, ReportStep
<1>9. ASSUME NEW c \in Direct, Accept(c) \/ WaitReturns(c) \/ Reply(c) PROVE AgentInv'
  <2>1. UNCHANGED <<loop, table, run, statsd, started, answered>>
    BY <1>9 DEF Accept, WaitReturns, Reply
  <2>2. (LoopInv /\ RunInv /\ PushedInv /\ JobInv /\ AtMostOnce)'
    BY <2>1 DEF SinksInv, LoopInv, RunInv, PushedInv, JobInv, AtMostOnce
  <2>3. \A d \in Direct : \/ client'[d] = client[d]
                          \/ client'[d] \in {"reply", "closed"}
                          \/ client[d] = "none" /\ client'[d] = "run"
    BY <1>t, <1>9 DEF Accept, WaitReturns, Reply, ClientAt, TypeOK
  <2>4. ClientInv' BY <2>1, <2>3 DEF SinksInv, ClientInv
  <2> QED BY <2>2, <2>4 DEF AgentInv
<1>10. ASSUME NEW c \in Direct, ServerRuns(c) \/ ServerRunsAgain(c) PROVE AgentInv'
  BY <1>t, <1>10, ServerRunsAgent, ServerRunsAgainAgent
<1>11. CASE Restart \/ FindSlot BY <1>11, AgentFrame DEF Restart, FindSlot
<1>12. CASE Crash BY <1>t, <1>12, AgentGone DEF Crash
<1>13. CASE UNCHANGED vars BY <1>13, AgentFrame DEF vars
<1> QED
  BY <1>1, <1>2, <1>3, <1>4, <1>5, <1>6, <1>7, <1>8, <1>9, <1>10, <1>11, <1>12, <1>13
  DEF Next, ServerStep, AcceptFails

-----------------------------------------------------------------------------
(* Where results are found                                                 *)

\* Every result is put where the client of its command looks for it.
LEMMA AnswerStep == SinksInv /\ [Next]_vars => AnsweredWhereAsked'
<1> SUFFICES ASSUME SinksInv, [Next]_vars PROVE AnsweredWhereAsked'
  OBVIOUS
<1>t. TypeOK /\ TypeOK' BY SinksTypeStep DEF SinksInv
<1>a. AnsweredWhereAsked BY DEF SinksInv
<1> USE DEF redisVars, fetchVars, jobVars, history
<1>1. CASE UNCHANGED replies BY <1>a, <1>1 DEF AnsweredWhereAsked
<1>2. ASSUME NEW q \in Queues, QueueExpires(q) PROVE AnsweredWhereAsked'
  <2>1. replies'[q] = <<>> /\ \A p \in Queues : p # q => replies'[p] = replies[p]
    BY <1>t, <1>2 DEF TypeOK, QueueExpires
  <2>2. \A k \in DOMAIN replies'[q] : FALSE BY <2>1
  <2> QED BY <1>a, <2>1, <2>2 DEF AnsweredWhereAsked
<1>3. ASSUME NEW c \in Cmds, NEW g \in Goroutines, RPush(c, g) PROVE AnsweredWhereAsked'
  <2>1. c \in Fetched /\ replies' = [replies EXCEPT ![Queue(SentTo[c], c)] = Append(@, c)]
    <3>1. PICK s \in RoutesOf(c) : replies' = [replies EXCEPT ![Queue(s, c)] = Append(@, c)]
      BY <1>3 DEF RPush
    <3>2. s = SentTo[c] /\ s \in Sinks BY <1>t DEF RoutesOf, TypeOK
    <3> QED BY <3>1, <3>2, Names
  <2> DEFINE q == Queue(SentTo[c], c)
  <2> HIDE DEF q
  <2>2. \A p \in Queues : replies[p] \in Seq(Cmds) BY <1>t DEF TypeOK
  <2>3. \A p \in Queues : \/ replies'[p] = replies[p]
                          \/ p = q /\ replies'[p] = Append(replies[p], c)
    BY <1>t, <2>1 DEF TypeOK, q
  <2> SUFFICES ASSUME NEW p \in Queues, NEW k \in DOMAIN replies'[p]
               PROVE  replies'[p][k] \in Fetched /\ p = Queue(SentTo[replies'[p][k]], replies'[p][k])
    BY DEF AnsweredWhereAsked, Queue
  <2>4. CASE replies'[p] = replies[p] BY <1>a, <2>4 DEF AnsweredWhereAsked
  <2>5. CASE p = q /\ replies'[p] = Append(replies[p], c)
    <3>1. \/ k \in DOMAIN replies[p] /\ replies'[p][k] = replies[p][k]
          \/ replies'[p][k] = c
      BY <2>2, <2>5
    <3>2. CASE k \in DOMAIN replies[p] /\ replies'[p][k] = replies[p][k]
      BY <1>a, <3>2 DEF AnsweredWhereAsked
    <3>3. CASE replies'[p][k] = c BY <2>1, <2>5, <3>3 DEF q
    <3> QED BY <3>1, <3>2, <3>3
  <2> QED BY <2>3, <2>4, <2>5
<1>4. ASSUME NEW c \in Cmds, NEW g \in Goroutines, RunStep(c, g), ~RPush(c, g) PROVE UNCHANGED replies
  BY <1>4 DEF RunStep, ReportStep, RunEnds, NotPushed, Expire, CleanUp, Volatile
<1>5. ASSUME NEW s \in Sinks, RedisFails(s) \/ RedisReturns(s) \/ SinkStep(s) PROVE UNCHANGED replies
  BY <1>5 DEF RedisFails, RedisReturns, SinkStep, Register, RegisterRace, Connect, ConnectionLost,
              GetNext, Wake, PushCmd, Volatile
<1>6. ASSUME NEW c \in Fetched, ClientPush(c) PROVE UNCHANGED replies BY <1>6 DEF ClientPush
<1>7. ASSUME NEW c \in Direct, Accept(c) \/ ServerStep(c) PROVE UNCHANGED replies
  BY <1>7 DEF Accept, ServerStep, ServerRuns, ServerRunsAgain, WaitReturns, Reply
<1>8. CASE FindSlot \/ LoopRuns \/ Restart \/ Crash \/ UNCHANGED vars
  BY <1>1, <1>8 DEF FindSlot, LoopRuns, Restart, Crash, Volatile, vars
<1> QED BY <1>1, <1>2, <1>3, <1>4, <1>5, <1>6, <1>7, <1>8 DEF Next, AcceptFails

-----------------------------------------------------------------------------
(* Results                                                                 *)

\* The invariant is inductive.
THEOREM SinksInvariant == Spec => []SinksInv
<1>1. SinksInv /\ [Next]_vars => SinksInv'
  BY SinksTypeStep, WaitingStep, AgentStepKept, AnswerStep DEF SinksInv, AgentInv
<1> QED BY <1>1, SinksInit, PTL DEF Spec

\* The variables stay in their types (all of base/sink.go, sinkclient.go, local.go).
THEOREM SinksTypeCorrect == Spec => []TypeOK
<1>1. SinksInv => TypeOK BY DEF SinksInv
<1> QED BY <1>1, SinksInvariant, PTL

\* Whatever fails, and however often the agent is started again, a command popped from
\* Redis is run at most once and answered at most once (sinkclient.go:84, 112).
THEOREM SinksAtMostOnce == Spec => []AtMostOnce
<1>1. SinksInv => AtMostOnce BY DEF SinksInv
<1> QED BY <1>1, SinksInvariant, PTL

\* No result is ever found in the queue of another sink or of another command
\* (sink.go:72, pm.go:403).
THEOREM SinksAnsweredWhereAsked == Spec => []AnsweredWhereAsked
<1>1. SinksInv => AnsweredWhereAsked BY DEF SinksInv
<1> QED BY <1>1, SinksInvariant, PTL

\* The job of a fetched command stays filed until it cleans up itself, whatever jobs with
\* its id come over the local socket (local.go:82, pm.go:353).
THEOREM SinksLiveIsFiled == Spec => []LiveIsFiled
<1>1. SinksInv => LiveIsFiled
  <2> SUFFICES ASSUME SinksInv, NEW c \in Fetched, run[c][1] \notin {"none", "end"} PROVE c \in table
    BY DEF LiveIsFiled
  <2>1. c \in Cmds /\ run[c][1] \in RunPc BY Names, Places DEF SinksInv, TypeOK
  <2>2. CASE run[c][1] = "process" BY <2>2 DEF SinksInv, RunInv
  <2>3. CASE run[c][1] \in Ending BY <2>1, <2>3 DEF SinksInv, JobInv
  <2> QED BY <2>1, <2>2, <2>3, Places DEF Ending
<1> QED BY <1>1, SinksInvariant, PTL
=============================================================================
