------------------------- MODULE ProcessManagerProofs -------------------------
(***************************************************************************)
(* Theorems about ProcessManager, for any set of commands, ids, queues and *)
(* sinks and any maxJobs.                                                  *)
(*                                                                         *)
(* Six inductive invariants, each built on the ones before: TypeInv, the   *)
(* types with what the local variables of the goroutines hold; TableInv,   *)
(* the table of runners; KillInv, the lock a killall holds; TokenInv,      *)
(* which says that a queue is held by one of the dispatcher, the producer, *)
(* processCmds and the runners at a time; RoomInv, by which processCmds    *)
(* still has room for the command it waits for, however long ago it        *)
(* counted; and FifoInv, by which every command is received once and       *)
(* every list is in the order of arrival.  Serial execution is a           *)
(* consequence of TokenInv, and so is, when no queued command is refused,  *)
(* that a queue never loses its holder.                                    *)
(***************************************************************************)
EXTENDS ProcessManager, FiniteSetTheorems, TLAPS

-----------------------------------------------------------------------------
(* Types                                                                   *)

\* The local variables of the two queue loops are set whenever they are used.
QueueLocals ==
    /\ disp.pc # "recv" => disp.cmd \in Cmds /\ QueueOf[disp.cmd] \in Queues
    /\ Pushing => disp.list \in Cmds
    /\ prod.pc # "recv" => prod.queue \in Queues
    /\ prod.pc = "remove" => prod.list \in Cmds /\ lists[prod.list].len > 0
    /\ prod.pc = "send" => prod.cmd \in Cmds

\* So are those of processCmds and of the kill bodies.
PmLocals ==
    /\ loop.pc = "run" => loop.cmd \in Cmds
    /\ \A c \in Cmds : body[c] = "kill" => aim[c] \in Cmds

TypeInv == TypeOK /\ QueueLocals /\ PmLocals

\* A list type survives the operations of the two loops.
LEMMA ListOps ==
    ASSUME NEW l \in List, NEW c \in Cmds
    PROVE  /\ [items |-> Append(l.items, c), len |-> l.len + 1] \in List
           /\ HasFront(l) /\ l.len > 0 =>
                 /\ Head(l.items) \in Cmds
                 /\ [items |-> Tail(l.items), len |-> l.len - 1] \in List
           /\ HasFront(l) /\ l.len > 0 => \A n \in (l.len - 1) .. (l.len + 1) :
                 /\ [items |-> Append(Tail(l.items), c), len |-> n] \in List
                 /\ [items |-> <<c>>, len |-> n] \in List
                 /\ [items |-> <<>>, len |-> n] \in List
                 /\ [items |-> <<Nil>>, len |-> n] \in List
  BY DEF List, HasFront

\* The agent starts with everything typed.
LEMMA InitType == Init => TypeInv
<1> SUFFICES ASSUME Init PROVE TypeInv
  OBVIOUS
<1>0. EmptyList \in List
  BY DEF List, EmptyList
<1>1. /\ queues \in [Queues -> Cmds \cup {Nil}]
      /\ lists \in [Cmds -> List]
      /\ arrived \in Seq(Cmds)
      /\ agent \in {"up", "crashed"}
  BY <1>0 DEF Init, QueueInit
<1>2. disp \in DispatcherState /\ prod \in ProducerState
  BY DEF Init, QueueInit, DispatcherState, ProducerState, DispatcherIdle, ProducerIdle
<1>3. /\ todo \subseteq Cmds
      /\ sinkCmd \in [Sinks -> Cmds \cup {Nil}]
      /\ loop \in [pc : LoopPc, cmd : Cmds \cup {Nil}]
      /\ rejected \subseteq Cmds
      /\ runners \in [Ids -> Cmds \cup {Nil}]
      /\ rpc \in [Cmds -> RunnerPc]
      /\ body \in [Cmds -> {"idle", "run", "kill", "end"}]
      /\ victims \in [Cmds -> SUBSET Cmds]
      /\ aim \in [Cmds -> Cmds \cup {Nil}]
      /\ mux \in Cmds \cup {Nil}
  BY DEF Init, RunnerPc, LoopPc
<1>4. QueueLocals /\ PmLocals
  BY DEF Init, QueueInit, QueueLocals, Pushing, PmLocals, DispatcherIdle, ProducerIdle
<1> QED
  BY <1>1, <1>2, <1>3, <1>4 DEF TypeInv, TypeOK, QueueTypeOK

\* What a step that leaves the queue manager alone needs not look at.
LEMMA QueueVarsKept ==
    ASSUME TypeInv, UNCHANGED queueVars
    PROVE  QueueTypeOK' /\ QueueLocals'
  BY DEF TypeInv, TypeOK, queueVars, QueueTypeOK, QueueLocals, Pushing

\* Each step of the queue manager keeps the types.
LEMMA QueueStepType ==
    ASSUME TypeInv, QueueStep, UNCHANGED pmVars
    PROVE  TypeInv'
<1> USE CmdAssumption, QueueAssumption
<1> SUFFICES QueueTypeOK' /\ QueueLocals'
  BY DEF entryVars, killVars, TypeInv, TypeOK, PmLocals, pmVars
<1>0. QueueTypeOK /\ QueueLocals
  BY DEF TypeInv, TypeOK
<1>1. CASE DispatcherLookup
  BY <1>0, <1>1 DEF DispatcherLookup, QueueTypeOK, QueueLocals, Pushing, DispatcherState
<1>2. CASE DispatcherPush
  <2>1. lists' \in [Cmds -> List] /\ lists'[disp.list].len > lists[disp.list].len
    BY <1>0, <1>2, ListOps DEF DispatcherPush, QueueTypeOK, QueueLocals, Pushing, List
  <2>2. disp' \in DispatcherState /\ ~Pushing'
    BY <1>0, <1>2 DEF DispatcherPush, AfterPush, DispatcherIdle, QueueTypeOK,
         QueueLocals, Pushing, DispatcherState
  <2>3. /\ UNCHANGED <<queues, prod, arrived, agent>>
        /\ disp'.pc # "recv" => disp'.cmd = disp.cmd /\ Pushing
    BY <1>0, <1>2 DEF DispatcherPush, AfterPush, DispatcherIdle, QueueTypeOK, DispatcherState
  <2>4. prod.pc = "remove" => lists'[prod.list].len > 0
    <3>1. disp.list \in Cmds /\ \A l \in Cmds : l # disp.list => lists'[l] = lists[l]
      BY <1>0, <1>2 DEF DispatcherPush, QueueTypeOK, QueueLocals
    <3>2. lists[disp.list].len \in Nat /\ lists'[disp.list].len \in Nat
      BY <1>0, <2>1, <3>1 DEF QueueTypeOK, List
    <3> QED
      BY <1>0, <2>1, <3>1, <3>2 DEF QueueLocals
  <2>5. QueueTypeOK'
    BY <1>0, <2>1, <2>2, <2>3 DEF QueueTypeOK
  <2>6. QueueLocals'
    BY <1>0, <1>2, <2>2, <2>3, <2>4 DEF QueueLocals, DispatcherPush, Pushing
  <2> QED
    BY <2>5, <2>6
<1>3. CASE DispatcherSignal
  BY <1>0, <1>3 DEF DispatcherSignal, ProducerRecv, DispatcherIdle, QueueTypeOK, QueueLocals, Pushing,
       DispatcherState, ProducerState
<1>4. CASE ProducerLookup
  <2>1. prod.queue \in Queues /\ queues[prod.queue] \in Cmds \cup {Nil}
    BY <1>0, <1>4 DEF ProducerLookup, QueueTypeOK, QueueLocals, Pushing
  <2>2. CASE prod' = ProducerIdle
    BY <1>0, <1>4, <2>1, <2>2 DEF ProducerLookup, ProducerIdle, QueueTypeOK, QueueLocals, Pushing,
         ProducerState
  <2>3. CASE prod' # ProducerIdle
    <3>1. /\ queues[prod.queue] \in Cmds
          /\ lists[queues[prod.queue]].len > 0
      BY <1>0, <1>4, <2>1, <2>3 DEF ProducerLookup, QueueTypeOK, List
    <3>2. prod' = [prod EXCEPT !.pc = "remove", !.list = queues[prod.queue]]
      BY <1>4, <2>3 DEF ProducerLookup
    <3> QED
      BY <1>0, <1>4, <2>1, <2>3, <3>1, <3>2 DEF ProducerLookup, QueueTypeOK,
           QueueLocals, Pushing, ProducerState
  <2> QED
    BY <2>2, <2>3
<1>5. CASE ProducerRemove
  <2> DEFINE list == lists[prod.list]
  <2>1. prod.list \in Cmds /\ list \in List /\ list.len > 0
    BY <1>0, <1>5 DEF ProducerRemove, QueueTypeOK, QueueLocals, Pushing
  <2>2. CASE ~HasFront(list)
    BY <1>0, <1>5, <2>2 DEF ProducerRemove, QueueTypeOK, QueueLocals, Pushing
  <2>3. CASE HasFront(list)
    <3>1. /\ Head(list.items) \in Cmds
          /\ [items |-> Tail(list.items), len |-> list.len - 1] \in List
      BY <2>1, <2>3, ListOps
    <3>2. lists' \in [Cmds -> List]
      BY <1>0, <1>5, <2>3, <3>1 DEF ProducerRemove, QueueTypeOK
    <3>3. prod' = Taken(Head(list.items))
      BY <1>5, <2>3 DEF ProducerRemove
    <3> QED
      BY <1>0, <1>5, <2>3, <3>1, <3>2, <3>3 DEF ProducerRemove, Taken, QueueTypeOK,
           QueueLocals, Pushing, ProducerState
  <2> QED
    BY <2>2, <2>3
<1>6. CASE RacingPushRemove
  <2> DEFINE list == lists[prod.list]
  <2>1. CASE UNCHANGED <<lists, disp, prod>>
    BY <1>0, <1>6, <2>1 DEF RacingPushRemove, QueueTypeOK, QueueLocals, Pushing
  <2>2. CASE ~UNCHANGED <<lists, disp, prod>>
    <3>1. /\ prod.list \in Cmds /\ list \in List /\ list.len > 0
          /\ HasFront(list) /\ disp.cmd \in Cmds
      BY <1>0, <1>6 DEF RacingPushRemove, QueueTypeOK, QueueLocals, Pushing
    <3>2. PICK n \in (list.len - 1) .. (list.len + 1),
               rest \in {Append(Tail(list.items), disp.cmd), <<disp.cmd>>, <<>>, <<Nil>>} :
                 lists' = [lists EXCEPT ![prod.list] = [items |-> rest, len |-> n]]
      BY <1>6, <2>2 DEF RacingPushRemove
    <3>3. [items |-> rest, len |-> n] \in List /\ Head(list.items) \in Cmds
      BY <3>1, <3>2, ListOps
    <3>4. lists' \in [Cmds -> List]
      BY <1>0, <3>2, <3>3 DEF QueueTypeOK
    <3>5. disp' \in DispatcherState /\ disp'.pc \in {"recv", "signal"}
      <4>1. disp' = AfterPush /\ disp \in DispatcherState
        BY <1>0, <1>6, <2>2 DEF RacingPushRemove, QueueTypeOK
      <4> QED
        BY <4>1 DEF AfterPush, DispatcherIdle, DispatcherState
    <3>6. prod' = Taken(Head(list.items))
      BY <1>6, <2>2 DEF RacingPushRemove
    <3>7. disp' = AfterPush /\ UNCHANGED <<queues, arrived, agent>>
      BY <1>6, <2>2 DEF RacingPushRemove
    <3>8. QueueTypeOK'
      BY <1>0, <3>3, <3>4, <3>5, <3>6, <3>7 DEF Taken, QueueTypeOK, ProducerState
    <3>9. QueueLocals'
      BY <1>0, <1>6, <3>3, <3>5, <3>6, <3>7 DEF RacingPushRemove, Taken, AfterPush,
           DispatcherIdle, QueueTypeOK, QueueLocals, Pushing, DispatcherState, ProducerState
    <3> QED
      BY <3>8, <3>9
  <2> QED
    BY <2>1, <2>2
<1> QED
  BY <1>1, <1>2, <1>3, <1>4, <1>5, <1>6 DEF QueueStep

\* So does each step of the sinks, of processCmds, of a runner and of a process.
LEMMA SinkStepType ==
    ASSUME TypeInv, NEW s \in Sinks, SinkStep(s)
    PROVE  TypeInv'
<1> USE CmdAssumption, QueueAssumption DEF entryVars, killVars, TypeInv, TypeOK, PmLocals
<1>1. CASE SinkGetNext(s)
  BY <1>1, QueueVarsKept DEF SinkGetNext
<1>2. CASE SinkPushCmd(s)
  BY <1>2, QueueVarsKept DEF SinkPushCmd, LoopPc
<1>3. CASE SinkPushCmdToQueue(s)
  <2>1. sinkCmd[s] \in Cmds /\ QueueOf[sinkCmd[s]] \in Queues
    BY <1>3 DEF SinkPushCmdToQueue
  <2>2. /\ disp' = [pc |-> "lookup", cmd |-> sinkCmd[s], list |-> Nil]
        /\ arrived' = Append(arrived, sinkCmd[s])
        /\ UNCHANGED <<queues, lists, prod, agent>>
    BY <1>3, <2>1 DEF SinkPushCmdToQueue, DispatcherRecv
  <2>3. QueueTypeOK' /\ QueueLocals'
    BY <2>1, <2>2 DEF QueueTypeOK, QueueLocals, Pushing, DispatcherState
  <2> QED
    BY <1>3, <2>3 DEF SinkPushCmdToQueue
<1> QED
  BY <1>1, <1>2, <1>3 DEF SinkStep

\* RunCmd files, answers or starts a command, and begins no kill.
LEMMA RunCmdType ==
    ASSUME TypeInv, NEW c \in Cmds, RunCmd(c)
    PROVE  /\ rejected' \subseteq Cmds
           /\ runners' \in [Ids -> Cmds \cup {Nil}]
           /\ rpc' \in [Cmds -> RunnerPc]
           /\ body' \in [Cmds -> {"idle", "run", "kill", "end"}]
           /\ \A d \in Cmds : body'[d] = "kill" => body[d] = "kill"
  BY IdAssumption DEF TypeInv, TypeOK, RunCmd, RunUnknown, RunDuplicate, NewRunner, RunnerPc, Live

\* A direct RunCmd keeps the types.
LEMMA DirectRunCmdType ==
    ASSUME TypeInv, NEW c \in Cmds, DirectRunCmd(c)
    PROVE  TypeInv'
<1>1. RunCmd(c) /\ UNCHANGED <<queueVars, sinkCmd, loop, killVars>> /\ todo' \subseteq Cmds
  BY DEF DirectRunCmd, RunCmd, entryVars, killVars, TypeInv, TypeOK
<1> QED
  BY <1>1, RunCmdType, QueueVarsKept DEF entryVars, killVars, TypeInv, TypeOK, PmLocals

\* So does every step of processCmds,
LEMMA LoopStepType ==
    ASSUME TypeInv, LoopStep
    PROVE  TypeInv'
<1> USE CmdAssumption, QueueAssumption
<1>1. CASE LoopCheck
  BY <1>1, QueueVarsKept DEF LoopCheck, entryVars, killVars, TypeInv, TypeOK, PmLocals, LoopPc
<1>2. CASE LoopWait
  BY <1>2, QueueVarsKept DEF LoopWait, entryVars, killVars, TypeInv, TypeOK, PmLocals, LoopPc
<1>3. CASE LoopReceiveQueued
  <2>1. prod.cmd \in Cmds
    BY <1>3 DEF LoopReceiveQueued, ProducerSend, TypeInv, QueueLocals, Pushing
  <2> QED
    BY <1>3, <2>1 DEF LoopReceiveQueued, ProducerSend, ProducerIdle, entryVars, killVars, TypeInv, TypeOK, PmLocals,
         QueueTypeOK, QueueLocals, Pushing, ProducerState, LoopPc
<1>4. CASE LoopRunCmd
  <2>1. /\ loop.cmd \in Cmds /\ RunCmd(loop.cmd)
        /\ UNCHANGED <<queueVars, entryVars, killVars>>
        /\ loop' = [pc |-> "check", cmd |-> Nil]
    BY <1>4 DEF LoopRunCmd, RunCmd, entryVars, killVars, TypeInv, PmLocals
  <2> QED
    BY <2>1, RunCmdType, QueueVarsKept DEF entryVars, killVars, TypeInv, TypeOK, PmLocals, LoopPc
<1> QED
  BY <1>1, <1>2, <1>3, <1>4 DEF LoopStep

\* every step of a runner,
LEMMA RunnerStepType ==
    ASSUME TypeInv, NEW c \in Cmds, RunnerStep(c)
    PROVE  TypeInv'
<1> USE CmdAssumption, QueueAssumption, IdAssumption DEF entryVars, killVars, TypeInv, TypeOK, PmLocals, RunnerPc, Live
<1>1. CASE CleanUpNotify(c)
  <2>1. QueueTypeOK' /\ QueueLocals'
    BY <1>1 DEF CleanUpNotify, ProducerRecv, QueueTypeOK, QueueLocals, Pushing, ProducerState
  <2> QED
    BY <1>1, <2>1 DEF CleanUpNotify
<1>2. CASE CleanUpBroadcast(c)
  <2>1. loop' \in [pc : LoopPc, cmd : Cmds \cup {Nil}] /\ (loop'.pc = "run" => loop' = loop)
    BY <1>2 DEF CleanUpBroadcast, LoopPc
  <2> QED
    BY <1>2, <2>1, QueueVarsKept DEF CleanUpBroadcast
<1>3. CASE RunnerRestart(c)
  BY <1>3, QueueVarsKept DEF RunnerRestart
<1>4. CASE CleanUpDelete(c)
  BY <1>4, QueueVarsKept DEF CleanUpDelete
<1>5. CASE RunnerExit(c) \/ RunnerTimeout(c) \/ RunnerDrained(c) \/ RunnerReport(c)
  <2>1. /\ UNCHANGED <<queueVars, entryVars, loop, rejected, runners, body, killVars>>
        /\ \E pc \in RunnerPc : rpc' = [rpc EXCEPT ![c] = pc]
    BY <1>5 DEF RunnerExit, RunnerTimeout, RunnerDrained, RunnerReport
  <2> QED
    BY <2>1, QueueVarsKept
<1> QED
  BY <1>1, <1>2, <1>3, <1>4, <1>5 DEF RunnerStep

\* and every step of a kill or killall.
LEMMA BodyStepType ==
    ASSUME TypeInv, NEW c \in Cmds, BodyStep(c)
    PROVE  TypeInv'
<1> USE CmdAssumption, QueueAssumption DEF entryVars, killVars, TypeInv, TypeOK, PmLocals
<1>1. CASE BodyEnd(c)
  BY <1>1, QueueVarsKept DEF BodyEnd
<1>2. CASE KillLookup(c)
  BY <1>2, QueueVarsKept DEF KillLookup
<1>3. CASE KillLookupRace(c)
  BY <1>3 DEF KillLookupRace, pmVars, entryVars, killVars, QueueTypeOK, QueueLocals, Pushing
<1>4. CASE KillallLock(c)
  BY <1>4, QueueVarsKept DEF KillallLock
<1>5. CASE KillSend(c)
  BY <1>5, QueueVarsKept DEF KillSend, RunnerPc, Live
<1> QED
  BY <1>1, <1>2, <1>3, <1>4, <1>5 DEF BodyStep

\* TypeInv holds in every reachable state.
LEMMA TypeInvariant == Spec => []TypeInv
<1>1. TypeInv /\ [Next]_vars => TypeInv'
  <2> SUFFICES ASSUME TypeInv, [Next]_vars PROVE TypeInv'
    OBVIOUS
  <2>1. CASE UNCHANGED vars
    BY <2>1 DEF vars, queueVars, pmVars, entryVars, killVars, TypeInv, TypeOK, QueueTypeOK, QueueLocals, Pushing, PmLocals
  <2> QED
    BY <2>1, QueueStepType, SinkStepType, DirectRunCmdType, LoopStepType, RunnerStepType,
       BodyStepType DEF Next
<1> QED
  BY InitType, <1>1, PTL DEF Spec

\* Every variable always has its type, although the loops keep what they found
\* under a lock and use it after the lock was released.
THEOREM TypeCorrect == Spec => []TypeOK
  BY TypeInvariant, PTL DEF TypeInv

-----------------------------------------------------------------------------
(* The table of runners                                                    *)

TableInv ==
    /\ RunnerTableExact
    /\ \A i \in Ids : runners[i] # Nil => IdOf[runners[i]] = i

\* The steps that touch neither the table nor a runner.
LEMMA OtherSteps ==
    ASSUME \/ QueueStep /\ UNCHANGED pmVars
           \/ \E s \in Sinks : SinkStep(s)
           \/ LoopCheck \/ LoopWait \/ LoopReceiveQueued
           \/ UNCHANGED vars
    PROVE  UNCHANGED <<runners, rpc, body, killVars>>
  BY DEF pmVars, entryVars, killVars, vars, SinkStep, SinkGetNext, SinkPushCmd, SinkPushCmdToQueue, LoopCheck,
         LoopWait, LoopReceiveQueued

\* RunCmd files a runner only under an id that was free.
LEMMA TableRunCmd ==
    ASSUME TypeInv, TableInv, NEW c \in Cmds, RunCmd(c)
    PROVE  TableInv'
<1> USE CmdAssumption, IdAssumption DEF entryVars, killVars, TypeInv, TypeOK, TableInv, RunnerTableExact
<1>1. CASE NewRunner(c)
  BY <1>1 DEF NewRunner, Live
<1>2. CASE RunUnknown(c) \/ RunDuplicate(c)
  BY <1>2 DEF RunUnknown, RunDuplicate
<1> QED
  BY <1>1, <1>2 DEF RunCmd

\* A runner leaves the table exactly when it ceases to be live.
LEMMA TableRunnerStep ==
    ASSUME TypeInv, TableInv, NEW c \in Cmds, RunnerStep(c)
    PROVE  TableInv'
<1> USE CmdAssumption, IdAssumption DEF TypeInv, TypeOK, TableInv, RunnerTableExact
<1>1. CASE CleanUpDelete(c)
  BY <1>1 DEF CleanUpDelete, Live
<1>2. CASE ~CleanUpDelete(c)
  <2>1. /\ UNCHANGED runners
        /\ \E pc \in RunnerPc : /\ rpc' = [rpc EXCEPT ![c] = pc]
                                /\ rpc[c] \in Live <=> pc \in Live
    BY <1>2 DEF RunnerStep, RunnerExit, RunnerTimeout, RunnerDrained, RunnerRestart, RunnerReport,
         CleanUpNotify, CleanUpBroadcast, RunnerPc, Live
  <2> QED
    BY <2>1
<1> QED
  BY <1>1, <1>2

\* A kill moves a runner from one live state to another.
LEMMA TableBodyStep ==
    ASSUME TypeInv, TableInv, NEW c \in Cmds, BodyStep(c)
    PROVE  TableInv'
<1> USE DEF TypeInv, TypeOK, TableInv, RunnerTableExact
<1>1. CASE KillSend(c)
  <2>1. /\ aim[c] \in Cmds /\ rpc[aim[c]] \in Live
        /\ rpc' = [rpc EXCEPT ![aim[c]] = "killed"] /\ UNCHANGED runners
    BY <1>1 DEF KillSend, Receptive, Live, PmLocals
  <2> QED
    BY <2>1 DEF Live
<1>2. CASE ~KillSend(c)
  <2>1. UNCHANGED <<runners, rpc>>
    BY <1>2 DEF BodyStep, BodyEnd, KillLookup, KillLookupRace, KillallLock, pmVars
  <2> QED
    BY <2>1
<1> QED
  BY <1>1, <1>2

\* The table is exact, and every entry is filed under its own id.
LEMMA TableInvariant == Spec => []TableInv
<1>1. Init => TableInv
  BY CmdAssumption, IdAssumption DEF Init, TableInv, RunnerTableExact, Live
<1>2. TypeInv /\ TableInv /\ [Next]_vars => TableInv'
  <2> SUFFICES ASSUME TypeInv, TableInv, [Next]_vars PROVE TableInv'
    OBVIOUS
  <2>1. ASSUME UNCHANGED <<runners, rpc>> PROVE TableInv'
    BY <2>1 DEF TableInv, RunnerTableExact
  <2>2. CASE LoopRunCmd
    BY <2>2, TableRunCmd DEF LoopRunCmd, TypeInv, PmLocals
  <2>3. ASSUME NEW c \in Cmds, DirectRunCmd(c) PROVE TableInv'
    BY <2>3, TableRunCmd DEF DirectRunCmd
  <2> QED
    BY <2>1, <2>2, <2>3, OtherSteps, TableRunnerStep, TableBodyStep DEF Next, LoopStep
<1> QED
  BY <1>1, <1>2, TypeInvariant, PTL DEF Spec

\* The table and the runner goroutines always agree, whatever job ids the commands
\* carry: admission checks the id and cleanUp deletes by id, both under runnersMux.
THEOREM TableExact == Spec => []RunnerTableExact
  BY TableInvariant, PTL DEF TableInv

-----------------------------------------------------------------------------
(* Killall                                                                 *)

KillInv ==
    /\ KillallTargetsFiled
    /\ mux # Nil => body[mux] = "kill"
    /\ \A c \in Cmds : rpc[c] = "sleep" => body[c] = "end"

\* RunCmd that needs the table waits for a killall.
LEMMA KillRunCmd ==
    ASSUME TypeInv, TableInv, KillInv, NEW c \in Cmds, RunCmd(c)
    PROVE  KillInv'
<1> USE CmdAssumption DEF TypeInv, TypeOK, KillInv, KillallTargetsFiled, killVars
<1>1. CASE NewRunner(c)
  BY <1>1 DEF RunCmd, NewRunner
<1>2. CASE ~NewRunner(c)
  BY <1>2 DEF RunCmd, RunUnknown, RunDuplicate
<1> QED
  BY <1>1, <1>2

\* No runner leaves the table while a killall holds runnersMux.
LEMMA KillRunnerStep ==
    ASSUME TypeInv, TableInv, KillInv, NEW c \in Cmds, RunnerStep(c)
    PROVE  KillInv'
<1> USE DEF TypeInv, TypeOK, KillInv, KillallTargetsFiled, killVars
<1>1. CASE CleanUpDelete(c)
  BY <1>1 DEF CleanUpDelete
<1>2. CASE RunnerRestart(c)
  BY <1>2 DEF RunnerRestart
<1>3. CASE ~CleanUpDelete(c) /\ ~RunnerRestart(c)
  BY <1>3 DEF RunnerStep, RunnerExit, RunnerTimeout, RunnerDrained, RunnerReport,
       CleanUpNotify, CleanUpBroadcast
<1> QED
  BY <1>1, <1>2, <1>3

\* Killall takes its targets from the table, and only it goes through them.
LEMMA KillBodyStep ==
    ASSUME TypeInv, TableInv, KillInv, NEW c \in Cmds, BodyStep(c)
    PROVE  KillInv'
<1> USE CmdAssumption DEF TypeInv, TypeOK, KillInv, KillallTargetsFiled, killVars
<1>1. CASE BodyEnd(c)
  BY <1>1 DEF BodyEnd
<1>2. CASE KillLookup(c)
  BY <1>2 DEF KillLookup
<1>3. CASE KillLookupRace(c)
  BY <1>3 DEF KillLookupRace, pmVars
<1>4. CASE KillallLock(c)
  BY <1>4 DEF KillallLock, TableInv
<1>5. CASE KillSend(c)
  BY <1>5 DEF KillSend, Receptive, PmLocals
<1> QED
  BY <1>1, <1>2, <1>3, <1>4, <1>5 DEF BodyStep

\* The targets of a killall stay filed, and the holder of the lock is a killall.
LEMMA KillInvariant == Spec => []KillInv
<1>1. Init => KillInv
  BY DEF Init, KillInv, KillallTargetsFiled
<1>2. TypeInv /\ TableInv /\ KillInv /\ [Next]_vars => KillInv'
  <2> SUFFICES ASSUME TypeInv, TableInv, KillInv, [Next]_vars PROVE KillInv'
    OBVIOUS
  <2>1. ASSUME UNCHANGED <<runners, rpc, body, killVars>> PROVE KillInv'
    BY <2>1 DEF KillInv, KillallTargetsFiled, killVars
  <2>2. CASE LoopRunCmd
    BY <2>2, KillRunCmd DEF LoopRunCmd, TypeInv, PmLocals
  <2>3. ASSUME NEW c \in Cmds, DirectRunCmd(c) PROVE KillInv'
    BY <2>3, KillRunCmd DEF DirectRunCmd
  <2> QED
    BY <2>1, <2>2, <2>3, OtherSteps, KillRunnerStep, KillBodyStep DEF Next, LoopStep
<1> QED
  BY <1>1, <1>2, TypeInvariant, TableInvariant, PTL DEF Spec

\* Killall only ever sends to runners that are still in the table: holding
\* runnersMux for the whole iteration keeps every other goroutine from removing one.
THEOREM KillallTargets == Spec => []KillallTargetsFiled
  BY KillInvariant, PTL DEF KillInv

-----------------------------------------------------------------------------
(* Serial execution                                                        *)

\* The commands of a list are commands of queue q that came through a sink.
Belongs(list, q) ==
    \A i \in 1 .. Len(list.items) :
        list.items[i] # Nil => list.items[i] \notin Direct /\ QueueOf[list.items[i]] = q

\* A list, and whatever is found in it, belongs to the queue it was created for.  What
\* the sinks, the queue manager and processCmds handle is no direct command.
QueueNames ==
    /\ \A q \in Queues : queues[q] # Nil => QueueOf[queues[q]] = q
    /\ \A l \in Cmds : Belongs(lists[l], QueueOf[l])
    /\ Pushing => QueueOf[disp.list] = QueueOf[disp.cmd]
    /\ prod.pc = "remove" => QueueOf[prod.list] = prod.queue
    /\ prod.pc = "send" => QueueOf[prod.cmd] = prod.queue
    /\ \A s \in Sinks : sinkCmd[s] \notin Direct
    /\ disp.cmd \notin Direct /\ prod.cmd \notin Direct /\ loop.cmd \notin Direct

\* A direct command that was not issued yet has no runner.
DirectOnce == \A c \in todo \cap Direct : rpc[c] = "none"

\* The right to signal a queue is a token: at most one party holds it, and only
\* while the queue is in the map.  Only a direct command that has signalled the queue
\* puts a second one into circulation.
OneHolder(q) ==
    /\ DispatcherHolds(q) => ~ProducerHolds(q) /\ ~LoopHolds(q)
    /\ ProducerHolds(q) => ~LoopHolds(q)
    /\ \A c \in Cmds \ Direct : RunnerHolds(c, q) =>
          /\ ~DispatcherHolds(q) /\ ~ProducerHolds(q) /\ ~LoopHolds(q)
          /\ \A d \in Cmds \ Direct : RunnerHolds(d, q) => c = d

TokenOut(q) == \/ DispatcherHolds(q)
               \/ ProducerHolds(q)
               \/ LoopHolds(q)
               \/ \E c \in Cmds \ Direct : RunnerHolds(c, q)

TokenInv ==
    \A q \in Queues : ~ForeignSignal(q) => OneHolder(q) /\ (TokenOut(q) => queues[q] # Nil)

\* A foreign signal is not forgotten.
SignalsKept == \A q \in Queues : ForeignSignal(q) => ForeignSignal(q)'

\* PushBack and Remove, racing or not, mix no queues.
LEMMA BelongsOps ==
    ASSUME NEW l \in List, NEW q, NEW c \in Cmds, c \notin Direct, QueueOf[c] = q, NEW n,
           Belongs(l, q)
    PROVE  /\ Belongs([items |-> Append(l.items, c), len |-> n], q)
           /\ Belongs([items |-> <<c>>, len |-> n], q)
           /\ Belongs([items |-> <<>>, len |-> n], q)
           /\ Belongs([items |-> <<Nil>>, len |-> n], q)
           /\ HasFront(l) => Belongs([items |-> Append(Tail(l.items), c), len |-> n], q)
  BY DEF List, HasFront, Belongs

LEMMA BelongsFront ==
    ASSUME NEW l \in List, NEW q, NEW n, Belongs(l, q), HasFront(l)
    PROVE  /\ QueueOf[Head(l.items)] = q /\ Head(l.items) \notin Direct
           /\ Belongs([items |-> Tail(l.items), len |-> n], q)
  BY DEF List, HasFront, Belongs

\* The steps of the queue manager keep every list with its queue.
LEMMA QueueNamesStep ==
    ASSUME TypeInv, QueueNames, QueueStep, UNCHANGED pmVars
    PROVE  QueueNames'
<1> USE CmdAssumption, QueueAssumption
<1>0. /\ QueueTypeOK /\ QueueLocals /\ UNCHANGED <<sinkCmd, loop>>
      /\ Nil \notin Direct
  BY SubsetAssumption DEF TypeInv, TypeOK, pmVars, entryVars
<1>1. CASE DispatcherLookup
  BY <1>0, <1>1 DEF DispatcherLookup, QueueTypeOK, QueueLocals, Pushing, QueueNames, Pushing
<1>2. CASE DispatcherPush
  <2> DEFINE list == lists[disp.list]
             new == [items |-> Append(list.items, disp.cmd), len |-> list.len + 1]
  <2>1. disp.list \in Cmds /\ disp.cmd \in Cmds /\ list \in List
    BY <1>0, <1>2 DEF DispatcherPush, QueueTypeOK, QueueLocals, Pushing
  <2>2. Belongs(new, QueueOf[disp.list])
    BY <1>2, <2>1, BelongsOps DEF DispatcherPush, QueueNames, Pushing
  <2>3. \A l \in Cmds : Belongs(lists'[l], QueueOf[l])
    BY <1>0, <1>2, <2>1, <2>2 DEF DispatcherPush, QueueTypeOK, QueueNames, Pushing
  <2>4. ~Pushing' /\ UNCHANGED <<queues, prod>> /\ disp'.cmd \in {Nil, disp.cmd}
    BY <1>0, <1>2 DEF DispatcherPush, AfterPush, DispatcherIdle, QueueTypeOK, DispatcherState,
         Pushing
  <2> QED
    BY <1>0, <2>3, <2>4 DEF QueueNames, Pushing
<1>3. CASE DispatcherSignal
  BY <1>0, <1>3 DEF DispatcherSignal, ProducerRecv, DispatcherIdle, QueueNames, Pushing
<1>4. CASE ProducerLookup
  <2>1. /\ prod.queue \in Queues /\ UNCHANGED <<lists, disp>>
        /\ UNCHANGED queues \/ queues' = [queues EXCEPT ![prod.queue] = Nil]
        /\ \/ prod' = ProducerIdle
           \/ queues[prod.queue] # Nil
              /\ prod' = [prod EXCEPT !.pc = "remove", !.list = queues[prod.queue]]
    BY <1>0, <1>4 DEF ProducerLookup, QueueLocals, Pushing
  <2>2. prod'.pc # "send" /\ (prod'.pc = "remove" => QueueOf[prod'.list] = prod'.queue)
    <3>1. CASE prod' = ProducerIdle
      BY <3>1 DEF ProducerIdle
    <3>2. CASE /\ queues[prod.queue] # Nil
               /\ prod' = [prod EXCEPT !.pc = "remove", !.list = queues[prod.queue]]
      <4>1. prod'.pc = "remove" /\ prod'.list = queues[prod.queue] /\ prod'.queue = prod.queue
        BY <1>0, <3>2 DEF QueueTypeOK, ProducerState
      <4> QED
        BY <2>1, <3>2, <4>1 DEF QueueNames, Pushing
    <3> QED
      BY <2>1, <3>1, <3>2
  <2>3. prod'.cmd = Nil \/ prod'.cmd = prod.cmd
    <3>1. prod' = ProducerIdle => prod'.cmd = Nil
      BY DEF ProducerIdle
    <3>2. prod' = [prod EXCEPT !.pc = "remove", !.list = queues[prod.queue]] => prod'.cmd = prod.cmd
      BY <1>0 DEF QueueTypeOK, ProducerState
    <3> QED
      BY <2>1, <3>1, <3>2
  <2>4. \A q \in Queues : queues'[q] # Nil => QueueOf[queues'[q]] = q
    BY <1>0, <2>1 DEF QueueTypeOK, QueueNames
  <2> QED
    BY <1>0, <2>1, <2>2, <2>3, <2>4 DEF QueueNames, Pushing, Belongs
<1>5. CASE ProducerRemove
  <2> DEFINE list == lists[prod.list]
             rest == [items |-> Tail(list.items), len |-> list.len - 1]
  <2>1. prod.list \in Cmds /\ list \in List
    BY <1>0, <1>5 DEF ProducerRemove, QueueTypeOK, QueueLocals, Pushing
  <2>2. CASE ~HasFront(list)
    BY <1>0, <1>5, <2>2 DEF ProducerRemove, QueueNames, Pushing
  <2>3. CASE HasFront(list)
    <3>1. /\ Belongs(rest, QueueOf[prod.list]) /\ QueueOf[Head(list.items)] = prod.queue
          /\ Head(list.items) \notin Direct
      BY <1>5, <2>1, <2>3, BelongsFront DEF ProducerRemove, QueueNames, Pushing
    <3>2. \A l \in Cmds : Belongs(lists'[l], QueueOf[l])
      BY <1>0, <1>5, <2>1, <2>3, <3>1 DEF ProducerRemove, QueueTypeOK, QueueNames, Pushing
    <3>3. prod' = Taken(Head(list.items)) /\ UNCHANGED <<queues, disp>>
      BY <1>5, <2>3 DEF ProducerRemove
    <3> QED
      BY <1>0, <3>1, <3>2, <3>3 DEF Taken, QueueTypeOK, ProducerState, QueueNames, Pushing
  <2> QED
    BY <2>2, <2>3
<1>6. CASE RacingPushRemove
  <2> DEFINE list == lists[prod.list]
  <2>1. CASE UNCHANGED <<lists, disp, prod>>
    BY <1>0, <1>6, <2>1 DEF RacingPushRemove, QueueNames, Pushing
  <2>2. CASE ~UNCHANGED <<lists, disp, prod>>
    <3>1. /\ prod.list \in Cmds /\ list \in List /\ HasFront(list) /\ disp.cmd \in Cmds
          /\ QueueOf[disp.cmd] = QueueOf[prod.list] /\ disp.cmd \notin Direct
      BY <1>0, <1>6 DEF RacingPushRemove, QueueTypeOK, QueueLocals, Pushing, QueueNames, Pushing
    <3>2. PICK n \in (list.len - 1) .. (list.len + 1),
               rest \in {Append(Tail(list.items), disp.cmd), <<disp.cmd>>, <<>>, <<Nil>>} :
                 lists' = [lists EXCEPT ![prod.list] = [items |-> rest, len |-> n]]
      BY <1>6, <2>2 DEF RacingPushRemove
    <3>3. /\ Belongs([items |-> rest, len |-> n], QueueOf[prod.list])
          /\ QueueOf[Head(list.items)] = prod.queue /\ Head(list.items) \notin Direct
      BY <1>6, <3>1, <3>2, BelongsOps, BelongsFront DEF RacingPushRemove, QueueNames, Pushing
    <3>4. \A l \in Cmds : Belongs(lists'[l], QueueOf[l])
      BY <1>0, <3>1, <3>2, <3>3 DEF QueueTypeOK, QueueNames, Pushing
    <3>5. prod' = Taken(Head(list.items)) /\ disp' = AfterPush /\ UNCHANGED queues
      BY <1>6, <2>2 DEF RacingPushRemove
    <3> QED
      BY <1>0, <3>3, <3>4, <3>5 DEF Taken, AfterPush, DispatcherIdle, QueueTypeOK,
           ProducerState, DispatcherState, QueueNames, Pushing
  <2> QED
    BY <2>1, <2>2
<1> QED
  BY <1>1, <1>2, <1>3, <1>4, <1>5, <1>6 DEF QueueStep

\* The steps of the other goroutines only start or finish an exchange.
LEMMA QueueNamesOther ==
    ASSUME TypeInv, QueueNames, [Next]_vars, ~(QueueStep /\ UNCHANGED pmVars)
    PROVE  QueueNames'
<1>0. Nil \notin Direct
  BY CmdAssumption, SubsetAssumption
<1>1. UNCHANGED <<queues, lists>>
  BY DEF Next, vars, queueVars, pmVars, entryVars, LoopStep, LoopCheck, LoopWait, LoopReceiveQueued,
     ProducerSend, ProducerIdle, ProducerRecv, LoopRunCmd, SinkStep, SinkGetNext, SinkPushCmd,
     SinkPushCmdToQueue, DispatcherRecv, DirectRunCmd, RunnerStep, RunnerExit, RunnerTimeout,
     RunnerDrained, RunnerRestart, RunnerReport, CleanUpDelete, CleanUpNotify, CleanUpBroadcast,
     BodyStep, BodyEnd, KillLookup, KillLookupRace, KillallLock, KillSend
<1>2. UNCHANGED disp \/ (disp'.pc = "lookup" /\ \E s \in Sinks : disp'.cmd = sinkCmd[s])
  BY DEF Next, vars, queueVars, pmVars, entryVars, LoopStep, LoopCheck, LoopWait, LoopReceiveQueued,
     ProducerSend, ProducerIdle, ProducerRecv, LoopRunCmd, SinkStep, SinkGetNext, SinkPushCmd,
     SinkPushCmdToQueue, DispatcherRecv, DirectRunCmd, RunnerStep, RunnerExit, RunnerTimeout,
     RunnerDrained, RunnerRestart, RunnerReport, CleanUpDelete, CleanUpNotify, CleanUpBroadcast,
     BodyStep, BodyEnd, KillLookup, KillLookupRace, KillallLock, KillSend
<1>3. UNCHANGED prod \/ (prod'.pc \in {"recv", "lookup"} /\ prod'.cmd = Nil)
  BY DEF Next, vars, queueVars, pmVars, entryVars, LoopStep, LoopCheck, LoopWait, LoopReceiveQueued,
     ProducerSend, ProducerIdle, ProducerRecv, LoopRunCmd, SinkStep, SinkGetNext, SinkPushCmd,
     SinkPushCmdToQueue, DispatcherRecv, DirectRunCmd, RunnerStep, RunnerExit, RunnerTimeout,
     RunnerDrained, RunnerRestart, RunnerReport, CleanUpDelete, CleanUpNotify, CleanUpBroadcast,
     BodyStep, BodyEnd, KillLookup, KillLookupRace, KillallLock, KillSend
<1>4. /\ \A s \in Sinks : sinkCmd'[s] \notin Direct
      /\ loop'.cmd \notin Direct
  <2>1. CASE \E s \in Sinks : SinkStep(s)
    BY <1>0, <2>1 DEF SinkStep, SinkGetNext, SinkPushCmd, SinkPushCmdToQueue, QueueNames,
       TypeInv, TypeOK
  <2>2. CASE LoopStep
    BY <1>0, <2>2 DEF LoopStep, LoopCheck, LoopWait, LoopReceiveQueued, LoopRunCmd, entryVars,
       QueueNames, TypeInv, TypeOK
  <2>3. CASE \E c \in Cmds : CleanUpBroadcast(c)
    BY <2>3 DEF CleanUpBroadcast, entryVars, QueueNames, TypeInv, TypeOK
  <2>4. CASE UNCHANGED <<sinkCmd, loop>>
    BY <2>4 DEF QueueNames
  <2> QED
    BY <2>1, <2>2, <2>3, <2>4 DEF Next, vars, pmVars, entryVars, DirectRunCmd, RunnerStep,
       RunnerExit, RunnerTimeout, RunnerDrained, RunnerRestart, RunnerReport, CleanUpDelete,
       CleanUpNotify, BodyStep, BodyEnd, KillLookup, KillLookupRace, KillallLock, KillSend
<1> QED
  BY <1>0, <1>1, <1>2, <1>3, <1>4 DEF QueueNames, Pushing, Belongs

\* A runner that was made keeps having one, and RunCmd makes one for a direct command
\* only when that is issued.
LEMMA SignalStep ==
    ASSUME TypeInv, QueueNames, DirectOnce, [Next]_vars
    PROVE  SignalsKept /\ DirectOnce'
<1> SUFFICES /\ \A d \in Direct : rpc[d] \in {"bcast", "done"} => rpc'[d] \in {"bcast", "done"}
             /\ DirectOnce'
  BY DEF SignalsKept, ForeignSignal
<1> USE SubsetAssumption DEF TypeInv, TypeOK
<1>1. CASE UNCHANGED <<rpc, todo>>
  BY <1>1 DEF DirectOnce
<1>2. ASSUME NEW s \in Sinks, SinkStep(s)
      PROVE  UNCHANGED rpc /\ todo' \subseteq todo
  BY <1>2 DEF SinkStep, SinkGetNext, SinkPushCmd, SinkPushCmdToQueue
<1>3. CASE LoopRunCmd
  BY <1>3 DEF LoopRunCmd, RunCmd, RunUnknown, RunDuplicate, NewRunner, entryVars, QueueNames,
     DirectOnce
<1>4. ASSUME NEW c \in Cmds, DirectRunCmd(c)
      PROVE  /\ \A d \in Direct : rpc[d] \in {"bcast", "done"} => rpc'[d] \in {"bcast", "done"}
             /\ DirectOnce'
  BY <1>4 DEF DirectRunCmd, RunCmd, RunUnknown, RunDuplicate, NewRunner, DirectOnce
<1>5. ASSUME NEW c \in Cmds, RunnerStep(c)
      PROVE  /\ \A d \in Direct : rpc[d] \in {"bcast", "done"} => rpc'[d] \in {"bcast", "done"}
             /\ DirectOnce'
  <2>1. /\ rpc[c] \in (Live \cup {"notify", "bcast"}) /\ UNCHANGED todo
        /\ \E pc \in RunnerPc : /\ rpc' = [rpc EXCEPT ![c] = pc]
                                /\ rpc[c] = "bcast" => pc = "done"
    BY <1>5 DEF RunnerStep, RunnerExit, RunnerTimeout, RunnerDrained, RunnerRestart, RunnerReport,
       CleanUpDelete, CleanUpNotify, CleanUpBroadcast, entryVars, RunnerPc, Live
  <2> QED
    BY <2>1 DEF DirectOnce, Live
<1>6. ASSUME NEW c \in Cmds, BodyStep(c)
      PROVE  /\ \A d \in Direct : rpc[d] \in {"bcast", "done"} => rpc'[d] \in {"bcast", "done"}
             /\ DirectOnce'
  <2>1. CASE KillSend(c)
    BY <2>1 DEF KillSend, Receptive, entryVars, DirectOnce
  <2>2. CASE UNCHANGED <<rpc, todo>>
    BY <2>2 DEF DirectOnce
  <2> QED
    BY <1>6, <2>1, <2>2 DEF BodyStep, BodyEnd, KillLookup, KillLookupRace, KillallLock, pmVars,
       entryVars
<1> QED
  BY <1>1, <1>2, <1>3, <1>4, <1>5, <1>6 DEF Next, LoopStep, LoopCheck, LoopWait,
     LoopReceiveQueued, vars, pmVars, entryVars, DirectOnce

\* A step after which nobody holds a token that he did not hold before.
LEMMA TokenKept ==
    ASSUME TokenInv, SignalsKept, UNCHANGED queues,
           \A q \in Queues : /\ DispatcherHolds(q)' => DispatcherHolds(q)
                             /\ ProducerHolds(q)' => ProducerHolds(q)
                             /\ LoopHolds(q)' => LoopHolds(q)
                             /\ \A c \in Cmds \ Direct : RunnerHolds(c, q)' => RunnerHolds(c, q)
    PROVE  TokenInv'
  BY DEF TokenInv, SignalsKept, OneHolder, TokenOut

\* The two queue loops pass the hold on a queue on and never double it.
LEMMA TokenQueueStep ==
    ASSUME TypeInv, QueueNames, TokenInv, SignalsKept, QueueStep, UNCHANGED pmVars
    PROVE  TokenInv'
<1> USE CmdAssumption, QueueAssumption
<1>0. QueueTypeOK /\ QueueLocals
  BY DEF TypeInv, TypeOK
<1>a. \A q \in Queues : /\ LoopHolds(q)' <=> LoopHolds(q)
                        /\ \A c \in Cmds : RunnerHolds(c, q)' <=> RunnerHolds(c, q)
  BY DEF pmVars, LoopHolds, RunnerHolds
<1>b. UNCHANGED prod => \A q \in Queues : ProducerHolds(q)' <=> ProducerHolds(q)
  BY DEF ProducerHolds
<1>c. UNCHANGED disp => \A q \in Queues : DispatcherHolds(q)' <=> DispatcherHolds(q)
  BY DEF DispatcherHolds
<1>1. CASE DispatcherLookup
  <2>1. UNCHANGED prod /\ \A q \in Queues : ~DispatcherHolds(q)
    BY <1>1 DEF DispatcherLookup, DispatcherHolds
  <2>2. \A q \in Queues : DispatcherHolds(q)' => queues[q] = Nil /\ q = QueueOf[disp.cmd]
    BY <1>0, <1>1 DEF DispatcherLookup, DispatcherHolds
  <2> QED
    BY <1>0, <1>1, <1>a, <1>b, <2>1, <2>2 DEF DispatcherLookup, QueueTypeOK, QueueLocals, Pushing,
       TokenInv, SignalsKept, OneHolder, TokenOut
<1>2. CASE DispatcherPush
  <2>1. UNCHANGED <<queues, prod>>
    BY <1>2 DEF DispatcherPush
  <2>2. \A q \in Queues : DispatcherHolds(q)' => DispatcherHolds(q)
    BY <1>0, <1>2 DEF DispatcherPush, AfterPush, DispatcherIdle, DispatcherHolds,
       QueueTypeOK, DispatcherState
  <2> QED
    BY <1>a, <1>b, <2>1, <2>2, TokenKept
<1>3. CASE DispatcherSignal
  <2>1. \A q \in Queues : /\ ~DispatcherHolds(q)' /\ ~ProducerHolds(q)
                          /\ ProducerHolds(q)' => DispatcherHolds(q)
    BY <1>0, <1>3 DEF DispatcherSignal, ProducerRecv, DispatcherIdle, DispatcherHolds,
       ProducerHolds
  <2>2. UNCHANGED queues
    BY <1>3 DEF DispatcherSignal
  <2> QED
    BY <1>a, <2>1, <2>2 DEF TokenInv, SignalsKept, OneHolder, TokenOut
<1>4. CASE ProducerLookup
  <2>1. UNCHANGED disp /\ ProducerHolds(prod.queue) /\ prod.queue \in Queues
    BY <1>0, <1>4 DEF ProducerLookup, ProducerHolds, QueueLocals, Pushing
  <2>2. CASE UNCHANGED queues
    <3>1. \A q \in Queues : ProducerHolds(q)' => ProducerHolds(q)
      <4>1. CASE prod' = ProducerIdle
        BY <4>1 DEF ProducerIdle, ProducerHolds
      <4>2. CASE prod' = [prod EXCEPT !.pc = "remove", !.list = queues[prod.queue]]
        BY <1>0, <1>4, <4>2 DEF ProducerLookup, ProducerHolds, QueueTypeOK, ProducerState
      <4> QED
        BY <1>4, <4>1, <4>2 DEF ProducerLookup
    <3> QED
      BY <1>a, <1>c, <2>1, <2>2, <3>1, TokenKept
  <2>3. CASE queues' = [queues EXCEPT ![prod.queue] = Nil] /\ prod' = ProducerIdle
    <3>1. \A q \in Queues : ~ProducerHolds(q)'
      BY <2>3 DEF ProducerIdle, ProducerHolds
    <3> QED
      BY <1>0, <1>a, <1>c, <2>1, <2>3, <3>1 DEF QueueTypeOK, TokenInv, SignalsKept, OneHolder, TokenOut
  <2> QED
    BY <1>4, <2>2, <2>3 DEF ProducerLookup
<1>5. CASE ProducerRemove
  <2>1. \A q \in Queues : ProducerHolds(q)' => ProducerHolds(q)
    BY <1>0, <1>5 DEF ProducerRemove, Taken, ProducerHolds, QueueTypeOK, ProducerState
  <2>2. UNCHANGED <<queues, disp>>
    BY <1>5 DEF ProducerRemove
  <2> QED
    BY <1>a, <1>c, <2>1, <2>2, TokenKept
<1>6. CASE RacingPushRemove
  <2>1. \A q \in Queues : ProducerHolds(q)' => ProducerHolds(q)
    BY <1>0, <1>6 DEF RacingPushRemove, Taken, ProducerHolds, QueueTypeOK, ProducerState
  <2>2. \A q \in Queues : DispatcherHolds(q)' => DispatcherHolds(q)
    BY <1>0, <1>6 DEF RacingPushRemove, AfterPush, DispatcherIdle, DispatcherHolds,
       QueueTypeOK, DispatcherState
  <2>3. UNCHANGED queues
    BY <1>6 DEF RacingPushRemove
  <2> QED
    BY <1>a, <2>1, <2>2, <2>3, TokenKept
<1> QED
  BY <1>1, <1>2, <1>3, <1>4, <1>5, <1>6 DEF QueueStep

\* Holders whose variables a step leaves alone.
LEMMA HoldersKept ==
    /\ UNCHANGED disp => \A q \in Queues : DispatcherHolds(q)' <=> DispatcherHolds(q)
    /\ UNCHANGED prod => \A q \in Queues : ProducerHolds(q)' <=> ProducerHolds(q)
    /\ UNCHANGED loop => \A q \in Queues : LoopHolds(q)' <=> LoopHolds(q)
    /\ UNCHANGED rpc => \A q \in Queues, c \in Cmds : RunnerHolds(c, q)' <=> RunnerHolds(c, q)
  BY DEF DispatcherHolds, ProducerHolds, LoopHolds, RunnerHolds

\* A sink holds no queue.
LEMMA TokenSinkStep ==
    ASSUME TypeInv, TokenInv, SignalsKept, NEW s \in Sinks, SinkStep(s)
    PROVE  TokenInv'
<1> USE QueueAssumption
<1>1. CASE SinkGetNext(s)
  BY <1>1, HoldersKept, TokenKept DEF SinkGetNext, queueVars
<1>2. CASE SinkPushCmd(s)
  <2>1. \A q \in Queues : ~LoopHolds(q)'
    BY <1>2 DEF SinkPushCmd, LoopHolds
  <2> QED
    BY <1>2, <2>1, HoldersKept, TokenKept DEF SinkPushCmd, queueVars
<1>3. CASE SinkPushCmdToQueue(s)
  <2>1. \A q \in Queues : ~DispatcherHolds(q)'
    BY <1>3 DEF SinkPushCmdToQueue, DispatcherRecv, DispatcherHolds
  <2> QED
    BY <1>3, <2>1, HoldersKept, TokenKept DEF SinkPushCmdToQueue, DispatcherRecv
<1> QED
  BY <1>1, <1>2, <1>3 DEF SinkStep

\* RunCmd makes at most the runner of its own command a holder.
LEMMA RunCmdHolders ==
    ASSUME TypeInv, NEW c \in Cmds, RunCmd(c)
    PROVE  \A q \in Queues, d \in Cmds :
              RunnerHolds(d, q)' => RunnerHolds(d, q) \/ (d = c /\ QueueOf[c] = q)
  BY DEF TypeInv, TypeOK, RunCmd, RunUnknown, RunDuplicate, NewRunner, RunnerHolds

\* The runner of a direct command holds no token.
LEMMA TokenDirectRunCmd ==
    ASSUME TypeInv, TokenInv, SignalsKept, NEW c \in Cmds, DirectRunCmd(c)
    PROVE  TokenInv'
<1>1. RunCmd(c) /\ c \in Direct /\ UNCHANGED <<queueVars, loop>>
  BY DEF DirectRunCmd
<1>2. \A q \in Queues, d \in Cmds \ Direct : RunnerHolds(d, q)' => RunnerHolds(d, q)
  BY <1>1, RunCmdHolders
<1> QED
  BY <1>1, <1>2, HoldersKept, TokenKept DEF queueVars

\* processCmds takes the hold over from the producer and gives it to a runner.
LEMMA TokenLoopStep ==
    ASSUME TypeInv, QueueNames, TokenInv, SignalsKept, LoopStep
    PROVE  TokenInv'
<1>1. CASE LoopCheck \/ LoopWait
  <2>1. \A q \in Queues : ~LoopHolds(q)'
    BY <1>1 DEF LoopCheck, LoopWait, LoopHolds, TypeInv, TypeOK
  <2> QED
    BY <1>1, <2>1, HoldersKept, TokenKept DEF LoopCheck, LoopWait, queueVars
<1>2. CASE LoopReceiveQueued
  <2>1. \A q \in Queues : /\ ~ProducerHolds(q)' /\ ~LoopHolds(q)
                          /\ LoopHolds(q)' => ProducerHolds(q)
    BY <1>2 DEF LoopReceiveQueued, ProducerSend, ProducerIdle, ProducerHolds, LoopHolds,
       QueueNames, Pushing
  <2>2. UNCHANGED <<queues, disp, rpc>>
    BY <1>2 DEF LoopReceiveQueued, ProducerSend
  <2> QED
    BY <2>1, <2>2, HoldersKept DEF TokenInv, SignalsKept, OneHolder, TokenOut
<1>3. CASE LoopRunCmd
  <2>1. /\ loop.cmd \in Cmds /\ RunCmd(loop.cmd) /\ UNCHANGED <<queues, disp, prod>>
        /\ loop.pc = "run" /\ loop'.pc = "check"
    BY <1>3 DEF LoopRunCmd, TypeInv, PmLocals, queueVars
  <2>2. \A q \in Queues : ~LoopHolds(q)' /\ (LoopHolds(q) <=> QueueOf[loop.cmd] = q)
    BY <2>1 DEF LoopHolds
  <2>3. \A q \in Queues, d \in Cmds :
           RunnerHolds(d, q)' => RunnerHolds(d, q) \/ (d = loop.cmd /\ LoopHolds(q))
    BY <2>1, <2>2, RunCmdHolders
  <2> QED
    BY <2>1, <2>2, <2>3, HoldersKept DEF TokenInv, SignalsKept, OneHolder, TokenOut
<1> QED
  BY <1>1, <1>2, <1>3 DEF LoopStep

\* A runner gives its hold to the producer when it calls Notify; that of a direct
\* command, which had none, makes a foreign signal.
LEMMA TokenRunnerStep ==
    ASSUME TypeInv, TokenInv, SignalsKept, NEW c \in Cmds, RunnerStep(c)
    PROVE  TokenInv'
<1> USE QueueAssumption DEF TypeInv, TypeOK
<1>1. CASE CleanUpNotify(c)
  <2>1. \A q \in Queues, d \in Cmds :
           RunnerHolds(d, q)' => RunnerHolds(d, q) /\ d # c
    BY <1>1 DEF CleanUpNotify, RunnerHolds, Live
  <2>2. \A q \in Queues : ProducerHolds(q)' =>
           ProducerHolds(q) \/ (RunnerHolds(c, q) /\ ~ProducerHolds(q))
    BY <1>1 DEF CleanUpNotify, ProducerRecv, ProducerHolds, RunnerHolds
  <2>3. UNCHANGED <<queues, disp, loop>>
    BY <1>1 DEF CleanUpNotify
  <2>4. \A q \in Queues : c \in Direct /\ RunnerHolds(c, q) => ForeignSignal(q)'
    BY <1>1 DEF CleanUpNotify, RunnerHolds, ForeignSignal
  <2>5. \A q \in Queues : ~ForeignSignal(q)' /\ ProducerHolds(q)' =>
           ProducerHolds(q) \/ (c \notin Direct /\ RunnerHolds(c, q) /\ ~ProducerHolds(q))
    BY <2>2, <2>4
  <2> QED
    BY <2>1, <2>3, <2>5, HoldersKept DEF TokenInv, SignalsKept, OneHolder, TokenOut
<1>2. CASE CleanUpBroadcast(c)
  <2>1. \A q \in Queues : LoopHolds(q)' => LoopHolds(q)
    BY <1>2 DEF CleanUpBroadcast, LoopHolds
  <2>2. \A q \in Queues, d \in Cmds : RunnerHolds(d, q)' => RunnerHolds(d, q)
    BY <1>2 DEF CleanUpBroadcast, RunnerHolds, Live
  <2> QED
    BY <1>2, <2>1, <2>2, HoldersKept, TokenKept DEF CleanUpBroadcast, queueVars
<1>3. CASE ~CleanUpNotify(c) /\ ~CleanUpBroadcast(c)
  <2>1. /\ UNCHANGED <<queueVars, loop>>
        /\ rpc[c] \in Live
        /\ \E pc \in RunnerPc : rpc' = [rpc EXCEPT ![c] = pc]
    BY <1>3 DEF RunnerStep, RunnerExit, RunnerTimeout, RunnerDrained, RunnerRestart, RunnerReport,
       CleanUpDelete, RunnerPc, Live
  <2>2. \A q \in Queues, d \in Cmds : RunnerHolds(d, q)' => RunnerHolds(d, q)
    BY <2>1 DEF RunnerHolds
  <2> QED
    BY <2>1, <2>2, HoldersKept, TokenKept DEF queueVars
<1> QED
  BY <1>1, <1>2, <1>3

\* Kills move runners about and leave the holds alone.
LEMMA TokenBodyStep ==
    ASSUME TypeInv, TokenInv, SignalsKept, NEW c \in Cmds, BodyStep(c)
    PROVE  TokenInv'
<1>1. UNCHANGED <<queues, disp, prod, loop>>
  BY DEF BodyStep, BodyEnd, KillLookup, KillLookupRace, KillallLock, KillSend, queueVars, pmVars
<1>2. \A q \in Queues, d \in Cmds : RunnerHolds(d, q)' => RunnerHolds(d, q)
  <2>1. CASE KillSend(c)
    BY <2>1 DEF KillSend, Receptive, RunnerHolds, Live, TypeInv, TypeOK
  <2>2. CASE ~KillSend(c)
    BY <2>2, HoldersKept DEF BodyStep, BodyEnd, KillLookup, KillLookupRace, KillallLock, pmVars
  <2> QED
    BY <2>1, <2>2
<1> QED
  BY <1>1, <1>2, HoldersKept, TokenKept

\* Every queue has at most one holder, and none when it is not in the map.
LEMMA TokenInvariant ==
    Spec => [](QueueNames /\ DirectOnce /\ TokenInv)
<1>1. Init => QueueNames /\ DirectOnce /\ TokenInv
  BY CmdAssumption, SubsetAssumption DEF Init, QueueInit, QueueNames, Pushing, Belongs,
     EmptyList, DispatcherIdle, ProducerIdle, DirectOnce, TokenInv, OneHolder, TokenOut,
     DispatcherHolds, ProducerHolds, LoopHolds, RunnerHolds, Live
<1>2. /\ TypeInv /\ QueueNames /\ DirectOnce /\ TokenInv /\ [Next]_vars
      => (QueueNames /\ DirectOnce /\ TokenInv)'
  <2> SUFFICES ASSUME TypeInv, QueueNames, DirectOnce, TokenInv, [Next]_vars
               PROVE  QueueNames' /\ DirectOnce' /\ TokenInv'
    OBVIOUS
  <2>1. QueueNames'
    BY QueueNamesStep, QueueNamesOther
  <2>2. SignalsKept /\ DirectOnce'
    BY SignalStep
  <2>3. CASE UNCHANGED vars
    <3>1. UNCHANGED queues /\ UNCHANGED disp /\ UNCHANGED prod /\ UNCHANGED loop /\ UNCHANGED rpc
      BY <2>3 DEF vars, queueVars, pmVars
    <3>2. \A q \in Queues : /\ DispatcherHolds(q)' => DispatcherHolds(q)
                            /\ ProducerHolds(q)' => ProducerHolds(q)
                            /\ LoopHolds(q)' => LoopHolds(q)
                            /\ \A c \in Cmds \ Direct : RunnerHolds(c, q)' => RunnerHolds(c, q)
      BY <3>1, HoldersKept
    <3> QED
      BY <2>1, <2>2, <3>1, <3>2, TokenKept
  <2>4. TokenInv'
    BY <2>2, <2>3, TokenQueueStep, TokenSinkStep, TokenDirectRunCmd, TokenLoopStep,
       TokenRunnerStep, TokenBodyStep DEF Next
  <2> QED
    BY <2>1, <2>2, <2>4
<1> QED
  BY <1>1, <1>2, TypeInvariant, PTL DEF Spec

\* The commands of a queue run one after the other, for any commands, sinks, direct
\* callers, kills, refusals and crashes, until a direct command that names the queue has
\* ended: only its cleanUp can signal a queue that somebody else holds.
THEOREM SerialQueues == Spec => []SerialExecution
<1>1. TokenInv => SerialExecution
  BY DEF TokenInv, OneHolder, SerialExecution, RunningFrom, RunnerHolds
<1> QED
  BY <1>1, TokenInvariant, PTL

-----------------------------------------------------------------------------
(* Every queue in the map has a holder                                     *)

\* A step after which every queue that had a holder still has one.
LEMMA DrivenKept ==
    ASSUME QueueDriven, UNCHANGED queues, rejected \subseteq rejected',
           \A q \in Queues : Held(q) => Held(q)'
    PROVE  QueueDriven'
  BY DEF QueueDriven, Refused

\* The queue loops lose the hold on a queue only by dropping the queue.
LEMMA DrivenQueueStep ==
    ASSUME TypeInv, QueueDriven, QueueStep, UNCHANGED pmVars
    PROVE  QueueDriven'
<1> USE CmdAssumption, QueueAssumption
<1>0. QueueTypeOK /\ QueueLocals
  BY DEF TypeInv, TypeOK
<1>a. UNCHANGED loop /\ UNCHANGED rpc /\ UNCHANGED rejected
  BY DEF pmVars
<1>1. CASE DispatcherLookup
  <2>1. /\ UNCHANGED prod
        /\ \A q \in Queues : /\ ~DispatcherHolds(q)
                             /\ queues[q] = Nil /\ queues'[q] # Nil => DispatcherHolds(q)'
    BY <1>0, <1>1 DEF DispatcherLookup, DispatcherHolds, QueueTypeOK, QueueLocals
  <2> QED
    BY <1>a, <2>1, HoldersKept DEF QueueDriven, Refused, Held
<1>2. CASE DispatcherPush
  <2>1. UNCHANGED <<queues, prod>>
    BY <1>2 DEF DispatcherPush
  <2>2. \A q \in Queues : DispatcherHolds(q) => DispatcherHolds(q)'
    BY <1>0, <1>2 DEF DispatcherPush, Pushing, AfterPush, DispatcherHolds, QueueTypeOK,
       DispatcherState
  <2> QED
    BY <1>a, <2>1, <2>2, HoldersKept, DrivenKept DEF Held
<1>3. CASE DispatcherSignal
  <2>1. /\ UNCHANGED queues
        /\ \A q \in Queues : ~ProducerHolds(q) /\ (DispatcherHolds(q) => ProducerHolds(q)')
    BY <1>3 DEF DispatcherSignal, ProducerRecv, DispatcherHolds, ProducerHolds
  <2> QED
    BY <1>a, <2>1, HoldersKept, DrivenKept DEF Held
<1>4. CASE ProducerLookup
  <2>1. /\ UNCHANGED disp /\ prod.queue \in Queues
        /\ \A q \in Queues : ProducerHolds(q) <=> q = prod.queue
    BY <1>0, <1>4 DEF ProducerLookup, QueueLocals, ProducerHolds
  <2>2. CASE queues'[prod.queue] = Nil
    <3>1. \A q \in Queues : q # prod.queue => queues'[q] = queues[q]
      BY <1>0, <1>4, <2>1 DEF ProducerLookup, QueueTypeOK
    <3> QED
      BY <1>a, <2>1, <2>2, <3>1, HoldersKept DEF QueueDriven, Refused, Held
  <2>3. CASE queues'[prod.queue] # Nil
    <3>1. UNCHANGED queues /\ prod' = [prod EXCEPT !.pc = "remove", !.list = queues[prod.queue]]
      BY <1>0, <1>4, <2>1, <2>3 DEF ProducerLookup, QueueTypeOK
    <3>2. \A q \in Queues : ProducerHolds(q) => ProducerHolds(q)'
      BY <1>0, <3>1 DEF ProducerHolds, QueueTypeOK, ProducerState
    <3> QED
      BY <1>a, <2>1, <3>1, <3>2, HoldersKept, DrivenKept DEF Held
  <2> QED
    BY <2>2, <2>3
<1>5. CASE ProducerRemove
  <2>1. \A q \in Queues : ProducerHolds(q) => ProducerHolds(q)'
    BY <1>0, <1>5 DEF ProducerRemove, Taken, ProducerHolds, QueueTypeOK, ProducerState
  <2>2. UNCHANGED <<queues, disp>>
    BY <1>5 DEF ProducerRemove
  <2> QED
    BY <1>a, <2>1, <2>2, HoldersKept, DrivenKept DEF Held
<1>6. CASE RacingPushRemove
  <2>1. \A q \in Queues : ProducerHolds(q) => ProducerHolds(q)'
    BY <1>0, <1>6 DEF RacingPushRemove, Taken, ProducerHolds, QueueTypeOK, ProducerState
  <2>2. \A q \in Queues : DispatcherHolds(q) => DispatcherHolds(q)'
    BY <1>0, <1>6 DEF RacingPushRemove, Pushing, AfterPush, DispatcherHolds, QueueTypeOK,
       DispatcherState
  <2>3. UNCHANGED queues
    BY <1>6 DEF RacingPushRemove
  <2> QED
    BY <1>a, <2>1, <2>2, <2>3, HoldersKept, DrivenKept DEF Held
<1> QED
  BY <1>1, <1>2, <1>3, <1>4, <1>5, <1>6 DEF QueueStep

\* A sink takes no hold away.
LEMMA DrivenSinkStep ==
    ASSUME QueueDriven, NEW s \in Sinks, SinkStep(s)
    PROVE  QueueDriven'
<1>1. CASE SinkGetNext(s)
  BY <1>1, HoldersKept, DrivenKept DEF SinkGetNext, queueVars, Held
<1>2. CASE SinkPushCmd(s)
  <2>1. \A q \in Queues : ~LoopHolds(q)
    BY <1>2 DEF SinkPushCmd, LoopHolds
  <2> QED
    BY <1>2, <2>1, HoldersKept, DrivenKept DEF SinkPushCmd, queueVars, Held
<1>3. CASE SinkPushCmdToQueue(s)
  <2>1. \A q \in Queues : ~DispatcherHolds(q)
    BY <1>3 DEF SinkPushCmdToQueue, DispatcherRecv, DispatcherHolds
  <2> QED
    BY <1>3, <2>1, HoldersKept, DrivenKept DEF SinkPushCmdToQueue, DispatcherRecv, Held
<1> QED
  BY <1>1, <1>2, <1>3 DEF SinkStep

\* RunCmd takes the token from nobody's runner.
LEMMA RunCmdKeepsHolders ==
    ASSUME TypeInv, NEW c \in Cmds, RunCmd(c)
    PROVE  \A q \in Queues, d \in Cmds : RunnerHolds(d, q) => RunnerHolds(d, q)'
  BY DEF TypeInv, TypeOK, RunCmd, RunUnknown, RunDuplicate, NewRunner, RunnerHolds, Live

\* Nor does a direct command.
LEMMA DrivenDirectRunCmd ==
    ASSUME TypeInv, QueueDriven, NEW c \in Cmds, DirectRunCmd(c)
    PROVE  QueueDriven'
<1>1. RunCmd(c) /\ UNCHANGED <<queueVars, loop>> /\ rejected \subseteq rejected'
  BY DEF DirectRunCmd, RunCmd, RunUnknown, RunDuplicate, NewRunner
<1> QED
  BY <1>1, RunCmdKeepsHolders, HoldersKept, DrivenKept DEF queueVars, Held

\* processCmds passes the hold on, unless RunCmd refuses the command.
LEMMA DrivenLoopStep ==
    ASSUME TypeInv, QueueNames, QueueDriven, LoopStep
    PROVE  QueueDriven'
<1>1. CASE LoopCheck \/ LoopWait
  <2>1. \A q \in Queues : ~LoopHolds(q)
    BY <1>1 DEF LoopCheck, LoopWait, LoopHolds
  <2> QED
    BY <1>1, <2>1, HoldersKept, DrivenKept DEF LoopCheck, LoopWait, queueVars, Held
<1>2. CASE LoopReceiveQueued
  <2>1. \A q \in Queues : ~LoopHolds(q) /\ (ProducerHolds(q) => LoopHolds(q)')
    BY <1>2 DEF LoopReceiveQueued, ProducerSend, ProducerHolds, LoopHolds, QueueNames
  <2>2. UNCHANGED <<queues, disp, rpc, rejected>>
    BY <1>2 DEF LoopReceiveQueued, ProducerSend
  <2> QED
    BY <2>1, <2>2, HoldersKept, DrivenKept DEF Held
<1>3. CASE LoopRunCmd
  <2>1. loop.cmd \in Cmds /\ RunCmd(loop.cmd) /\ UNCHANGED <<queues, disp, prod>>
    BY <1>3 DEF LoopRunCmd, TypeInv, PmLocals, queueVars
  <2>2. PICK c \in Cmds : c = loop.cmd
    BY <2>1
  <2>3. \A q \in Queues : LoopHolds(q) => RunnerHolds(c, q)' \/ Refused(q)'
    <3> SUFFICES ASSUME NEW q \in Queues, LoopHolds(q) PROVE RunnerHolds(c, q)' \/ Refused(q)'
      OBVIOUS
    <3>1. QueueOf[c] = q /\ c \notin Direct
      BY <2>2 DEF LoopHolds, QueueNames
    <3>2. CASE c \in rejected'
      BY <3>1, <3>2 DEF Refused
    <3>3. CASE rpc' = [rpc EXCEPT ![c] = "open"]
      BY <3>1, <3>3 DEF RunnerHolds, Live, TypeInv, TypeOK
    <3> QED
      BY <2>1, <2>2, <3>2, <3>3 DEF RunCmd, RunUnknown, RunDuplicate, NewRunner
  <2>4. rejected \subseteq rejected'
    BY <2>1 DEF RunCmd, RunUnknown, RunDuplicate, NewRunner
  <2> QED
    BY <2>1, <2>3, <2>4, RunCmdKeepsHolders, HoldersKept DEF QueueDriven, Refused, Held
<1> QED
  BY <1>1, <1>2, <1>3 DEF LoopStep

\* A runner keeps its hold until the producer has it.
LEMMA DrivenRunnerStep ==
    ASSUME TypeInv, QueueDriven, NEW c \in Cmds, RunnerStep(c)
    PROVE  QueueDriven'
<1> USE DEF TypeInv, TypeOK
<1>1. CASE CleanUpNotify(c)
  <2>1. /\ UNCHANGED <<queues, disp, loop, rejected>>
        /\ \A q \in Queues, d \in Cmds : RunnerHolds(d, q) /\ d # c => RunnerHolds(d, q)'
    BY <1>1 DEF CleanUpNotify, RunnerHolds
  <2>2. CASE QueueOf[c] = NoQueue
    BY <1>1, <2>1, <2>2, QueueAssumption, HoldersKept, DrivenKept
       DEF CleanUpNotify, RunnerHolds, Held
  <2>3. CASE QueueOf[c] # NoQueue
    <3>1. \A q \in Queues : ~ProducerHolds(q) /\ (RunnerHolds(c, q) => ProducerHolds(q)')
      BY <1>1, <2>3 DEF CleanUpNotify, ProducerRecv, ProducerHolds, RunnerHolds
    <3> QED
      BY <2>1, <3>1, HoldersKept, DrivenKept DEF Held
  <2> QED
    BY <2>2, <2>3
<1>2. CASE CleanUpBroadcast(c)
  <2>1. \A q \in Queues : LoopHolds(q) => LoopHolds(q)'
    BY <1>2 DEF CleanUpBroadcast, LoopHolds
  <2>2. \A q \in Queues, d \in Cmds : RunnerHolds(d, q) => RunnerHolds(d, q)'
    BY <1>2 DEF CleanUpBroadcast, RunnerHolds, Live
  <2> QED
    BY <1>2, <2>1, <2>2, HoldersKept, DrivenKept DEF CleanUpBroadcast, queueVars, Held
<1>3. CASE ~CleanUpNotify(c) /\ ~CleanUpBroadcast(c)
  <2>1. /\ UNCHANGED <<queueVars, loop, rejected>>
        /\ \E pc \in Live \cup {"notify"} : rpc' = [rpc EXCEPT ![c] = pc]
    BY <1>3 DEF RunnerStep, RunnerExit, RunnerTimeout, RunnerDrained, RunnerRestart, RunnerReport,
       CleanUpDelete, Live
  <2>2. \A q \in Queues, d \in Cmds : RunnerHolds(d, q) => RunnerHolds(d, q)'
    BY <2>1 DEF RunnerHolds
  <2> QED
    BY <2>1, <2>2, HoldersKept, DrivenKept DEF queueVars, Held
<1> QED
  BY <1>1, <1>2, <1>3

\* A killed runner keeps its hold.
LEMMA DrivenBodyStep ==
    ASSUME TypeInv, QueueDriven, NEW c \in Cmds, BodyStep(c)
    PROVE  QueueDriven'
<1>1. UNCHANGED <<queues, disp, prod, loop, rejected>>
  BY DEF BodyStep, BodyEnd, KillLookup, KillLookupRace, KillallLock, KillSend, queueVars, pmVars
<1>2. \A q \in Queues, d \in Cmds : RunnerHolds(d, q) => RunnerHolds(d, q)'
  <2>1. CASE KillSend(c)
    BY <2>1 DEF KillSend, RunnerHolds, Live, TypeInv, TypeOK
  <2>2. CASE ~KillSend(c)
    BY <2>2, HoldersKept DEF BodyStep, BodyEnd, KillLookup, KillLookupRace, KillallLock, pmVars
  <2> QED
    BY <2>1, <2>2
<1> QED
  BY <1>1, <1>2, HoldersKept, DrivenKept DEF Held

\* A queue in the map is never abandoned, for any commands, direct callers, kills and
\* crashes, unless RunCmd refused one of its commands: it reports the refusal and
\* forgets the token the command carried.
THEOREM QueuesDriven == Spec => []QueueDriven
<1>1. Init => QueueDriven
  BY DEF Init, QueueInit, QueueDriven
<1>2. TypeInv /\ QueueNames /\ QueueDriven /\ [Next]_vars => QueueDriven'
  <2> SUFFICES ASSUME TypeInv, QueueNames, QueueDriven, [Next]_vars
               PROVE  QueueDriven'
    OBVIOUS
  <2>1. CASE UNCHANGED vars
    BY <2>1, HoldersKept, DrivenKept DEF vars, queueVars, pmVars, Held
  <2> QED
    BY <2>1, DrivenQueueStep, DrivenSinkStep, DrivenDirectRunCmd, DrivenLoopStep,
       DrivenRunnerStep, DrivenBodyStep DEF Next
<1> QED
  BY <1>1, <1>2, TypeInvariant, TokenInvariant, PTL DEF Spec

-----------------------------------------------------------------------------
(* The limit on running jobs                                               *)

\* The entries of the table, and the runners that processCmds started and that are in it.
Filed   == {i \in Ids : runners[i] # Nil}
Started == {c \in Cmds \ Direct : rpc[c] \in Live}

\* processCmds has room for the command that it waits for, or has received.
RoomInv ==
    /\ IsFiniteSet(Filed)
    /\ JobsBounded
    /\ loop.pc \in {"select", "run"} => Cardinality(Started) < MaxJobs

\* There are at most as many of these runners as entries.
LEMMA StartedFiled ==
    ASSUME TypeInv, TableInv, IsFiniteSet(Filed)
    PROVE  /\ IsFiniteSet(Started) /\ Cardinality(Started) \in Nat /\ Jobs \in Nat
           /\ Cardinality(Started) <= Jobs
<1>1. PICK f : f = [c \in Started |-> IdOf[c]] OBVIOUS
<1>2. ASSUME NEW c \in Started PROVE f[c] \in Filed /\ runners[f[c]] = c
  <2>1. c \in Cmds /\ rpc[c] \in Live BY DEF Started
  <2>2. runners[IdOf[c]] = c /\ IdOf[c] \in Ids BY <2>1, IdAssumption DEF TableInv, RunnerTableExact
  <2> QED BY <1>1, <2>1, <2>2, CmdAssumption DEF Filed
<1>3. f \in [Started -> Filed] BY <1>1, <1>2
<1>4. \A c, d \in Started : f[c] = f[d] => c = d BY <1>2
<1>5. f \in Injection(Started, Filed) BY <1>3, <1>4 DEF Injection, IsInjective
<1>6. IsFiniteSet(Started) /\ Cardinality(Started) <= Cardinality(Filed) BY <1>5, FS_Injection
<1>7. Cardinality(Started) \in Nat /\ Cardinality(Filed) \in Nat BY <1>6, FS_CardinalityType
<1> QED BY <1>6, <1>7 DEF Jobs, Filed

\* A step that starts no runner, and lets processCmds through only when there is room.
LEMMA RoomKept ==
    ASSUME TypeInv, TableInv, RoomInv, Filed' \subseteq Filed, Started' \subseteq Started,
           loop'.pc \in {"select", "run"} => loop.pc \in {"select", "run"} \/ Jobs < MaxJobs
    PROVE  RoomInv'
<1>1. /\ IsFiniteSet(Started) /\ Cardinality(Started) \in Nat /\ Jobs \in Nat /\ Cardinality(Started) <= Jobs
  BY StartedFiled DEF RoomInv
<1>2. IsFiniteSet(Filed') BY FS_Subset DEF RoomInv
<1>3. IsFiniteSet(Started') /\ Cardinality(Started') <= Cardinality(Started) BY <1>1, FS_Subset
<1>4. Cardinality(Started') \in Nat BY <1>3, FS_CardinalityType
<1>5. PICK n, m : n = Cardinality(Started) /\ m = Cardinality(Started') OBVIOUS
<1>6. n <= MaxJobs BY <1>5 DEF RoomInv, JobsBounded, Started
<1>7. m <= MaxJobs BY <1>1, <1>3, <1>4, <1>5, <1>6, MaxJobsAssumption
<1>8. loop'.pc \in {"select", "run"} => m < MaxJobs
  <2>1. loop.pc \in {"select", "run"} => n < MaxJobs BY <1>5 DEF RoomInv
  <2> QED BY <1>1, <1>3, <1>4, <1>5, <2>1, MaxJobsAssumption
<1>9. JobsBounded' BY <1>5, <1>7 DEF JobsBounded, Started
<1> QED BY <1>2, <1>5, <1>8, <1>9 DEF RoomInv

\* RunCmd adds one entry, and one runner that was not in the table.
LEMMA RoomRunCmd ==
    ASSUME TypeInv, TableInv, RoomInv, NEW c \in Cmds, RunCmd(c)
    PROVE  /\ IsFiniteSet(Filed')
           /\ Started' \subseteq Started \cup ({c} \ Direct)
<1>1. CASE NewRunner(c)
  <2>1. runners' = [runners EXCEPT ![IdOf[c]] = c] /\ rpc' = [rpc EXCEPT ![c] = "open"] BY <1>1 DEF NewRunner
  <2>2. Filed' \subseteq Filed \cup {IdOf[c]} BY <2>1 DEF Filed, TypeInv, TypeOK
  <2>3. IsFiniteSet(Filed \cup {IdOf[c]}) BY FS_AddElement DEF RoomInv
  <2>4. IsFiniteSet(Filed') BY <2>2, <2>3, FS_Subset
  <2>5. Started' \subseteq Started \cup ({c} \ Direct) BY <2>1 DEF Started, TypeInv, TypeOK
  <2> QED BY <2>4, <2>5
<1>2. CASE RunUnknown(c) \/ RunDuplicate(c)
  <2>1. UNCHANGED <<runners, rpc>> BY <1>2 DEF RunUnknown, RunDuplicate
  <2>2. Filed' = Filed /\ Started' = Started BY <2>1 DEF Filed, Started
  <2> QED BY <2>2 DEF RoomInv
<1> QED BY <1>1, <1>2 DEF RunCmd

\* A command passed to RunCmd directly does not count.
LEMMA RoomDirect ==
    ASSUME TypeInv, TableInv, RoomInv, NEW c \in Cmds, DirectRunCmd(c)
    PROVE  RoomInv'
<1>1. RunCmd(c) /\ c \in Direct /\ loop' = loop BY DEF DirectRunCmd
<1>2. IsFiniteSet(Filed') /\ Started' \subseteq Started BY <1>1, RoomRunCmd
<1>3. IsFiniteSet(Started) /\ Cardinality(Started) \in Nat BY StartedFiled DEF RoomInv
<1>4. IsFiniteSet(Started') /\ Cardinality(Started') <= Cardinality(Started) BY <1>2, <1>3, FS_Subset
<1>5. Cardinality(Started') \in Nat BY <1>4, FS_CardinalityType
<1>6. PICK n, m : n = Cardinality(Started) /\ m = Cardinality(Started') OBVIOUS
<1>7. n <= MaxJobs /\ (loop.pc \in {"select", "run"} => n < MaxJobs) BY <1>6 DEF RoomInv, JobsBounded, Started
<1>8. m <= MaxJobs /\ (loop.pc \in {"select", "run"} => m < MaxJobs)
  BY <1>3, <1>4, <1>5, <1>6, <1>7, MaxJobsAssumption
<1>9. JobsBounded' BY <1>6, <1>8 DEF JobsBounded, Started
<1> QED BY <1>1, <1>2, <1>6, <1>8, <1>9 DEF RoomInv

\* processCmds takes the room it saw, however long ago that was.
LEMMA RoomLoopStep ==
    ASSUME TypeInv, TableInv, RoomInv, LoopStep
    PROVE  RoomInv'
<1>1. CASE LoopCheck
  <2>1. UNCHANGED <<runners, rpc>> /\ loop'.pc = IF Jobs >= MaxJobs THEN "enroll" ELSE "select"
    BY <1>1 DEF LoopCheck, TypeInv, TypeOK
  <2>2. Filed' = Filed /\ Started' = Started BY <2>1 DEF Filed, Started
  <2>3. Jobs \in Nat BY StartedFiled DEF RoomInv
  <2>4. loop'.pc \in {"select", "run"} => Jobs < MaxJobs BY <2>1, <2>3, MaxJobsAssumption
  <2> QED BY <2>2, <2>4, RoomKept
<1>2. CASE LoopWait \/ LoopReceiveQueued
  <2>1. UNCHANGED <<runners, rpc>> /\ (loop'.pc \in {"select", "run"} => loop.pc \in {"select", "run"})
    BY <1>2 DEF LoopWait, LoopReceiveQueued, TypeInv, TypeOK
  <2>2. Filed' = Filed /\ Started' = Started BY <2>1 DEF Filed, Started
  <2> QED BY <2>1, <2>2, RoomKept
<1>3. CASE LoopRunCmd
  <2>1. loop.pc = "run" /\ RunCmd(loop.cmd) /\ loop.cmd \in Cmds /\ loop'.pc = "check"
    BY <1>3 DEF LoopRunCmd, TypeInv, PmLocals
  <2>2. IsFiniteSet(Filed') /\ Started' \subseteq Started \cup {loop.cmd} BY <2>1, RoomRunCmd
  <2>3. IsFiniteSet(Started) /\ Cardinality(Started) \in Nat BY StartedFiled DEF RoomInv
  <2>4. /\ IsFiniteSet(Started \cup {loop.cmd})
        /\ Cardinality(Started \cup {loop.cmd}) <= Cardinality(Started) + 1
        /\ Cardinality(Started \cup {loop.cmd}) \in Nat
    BY <2>3, FS_AddElement
  <2>5. IsFiniteSet(Started') /\ Cardinality(Started') <= Cardinality(Started \cup {loop.cmd})
    BY <2>2, <2>4, FS_Subset
  <2>6. Cardinality(Started') \in Nat BY <2>5, FS_CardinalityType
  <2>7. PICK n, m, k : n = Cardinality(Started) /\ m = Cardinality(Started') /\ k = Cardinality(Started \cup {loop.cmd})
    OBVIOUS
  <2>8. n < MaxJobs BY <2>1, <2>7 DEF RoomInv
  <2>9. m <= MaxJobs BY <2>3, <2>4, <2>5, <2>6, <2>7, <2>8, MaxJobsAssumption
  <2>10. JobsBounded' BY <2>7, <2>9 DEF JobsBounded, Started
  <2> QED BY <2>1, <2>2, <2>10 DEF RoomInv
<1> QED BY <1>1, <1>2, <1>3 DEF LoopStep

\* A runner only ever leaves the table, and wakes processCmds to look again.
LEMMA RoomRunnerStep ==
    ASSUME TypeInv, TableInv, RoomInv, NEW c \in Cmds, RunnerStep(c)
    PROVE  RoomInv'
<1>1. CASE CleanUpDelete(c)
  <2>1. runners' = [runners EXCEPT ![IdOf[c]] = Nil] /\ rpc' = [rpc EXCEPT ![c] = "notify"] /\ loop' = loop
    BY <1>1 DEF CleanUpDelete
  <2>2. Filed' \subseteq Filed BY <2>1 DEF Filed, TypeInv, TypeOK
  <2>3. Started' \subseteq Started BY <2>1 DEF Started, TypeInv, TypeOK, Live
  <2> QED BY <2>1, <2>2, <2>3, RoomKept
<1>2. CASE ~CleanUpDelete(c)
  <2>1. /\ UNCHANGED runners
        /\ \E pc \in RunnerPc : /\ rpc' = [rpc EXCEPT ![c] = pc]
                                /\ rpc[c] \in Live <=> pc \in Live
    BY <1>2 DEF RunnerStep, RunnerExit, RunnerTimeout, RunnerDrained, RunnerRestart, RunnerReport,
         CleanUpNotify, CleanUpBroadcast, RunnerPc, Live
  <2>2. loop' = loop \/ loop'.pc = "check"
    BY <1>2 DEF RunnerStep, RunnerExit, RunnerTimeout, RunnerDrained, RunnerRestart, RunnerReport,
         CleanUpNotify, CleanUpBroadcast, TypeInv, TypeOK
  <2>3. Filed' = Filed BY <2>1 DEF Filed
  <2>4. Started' \subseteq Started BY <2>1 DEF Started, TypeInv, TypeOK
  <2> QED BY <2>2, <2>3, <2>4, RoomKept
<1> QED BY <1>1, <1>2

\* A kill moves a runner from one live state to another.
LEMMA RoomBodyStep ==
    ASSUME TypeInv, TableInv, RoomInv, NEW c \in Cmds, BodyStep(c)
    PROVE  RoomInv'
<1>1. runners' = runners /\ loop' = loop
  BY DEF BodyStep, BodyEnd, KillLookup, KillLookupRace, KillallLock, KillSend, pmVars
<1>2. Filed' = Filed BY <1>1 DEF Filed
<1>3. CASE KillSend(c)
  <2>1. aim[c] \in Cmds /\ rpc[aim[c]] \in Live /\ rpc' = [rpc EXCEPT ![aim[c]] = "killed"]
    BY <1>3 DEF KillSend, Receptive, Live, TypeInv, PmLocals
  <2>2. Started' \subseteq Started BY <2>1 DEF Started, TypeInv, TypeOK
  <2> QED BY <1>1, <1>2, <2>2, RoomKept
<1>4. CASE ~KillSend(c)
  <2>1. rpc' = rpc BY <1>4 DEF BodyStep, BodyEnd, KillLookup, KillLookupRace, KillallLock, pmVars
  <2>2. Started' = Started BY <2>1 DEF Started
  <2> QED BY <1>1, <1>2, <2>2, RoomKept
<1> QED BY <1>3, <1>4

\* There is always room.
LEMMA RoomInvariant == Spec => []RoomInv
<1>1. Init => RoomInv
  <2> SUFFICES ASSUME Init PROVE RoomInv OBVIOUS
  <2>1. Filed = {} /\ Started = {} /\ loop.pc = "check" BY DEF Init, Filed, Started, Live
  <2>2. IsFiniteSet(Filed) /\ Cardinality(Started) = 0 BY <2>1, FS_EmptySet
  <2>3. JobsBounded BY <2>2, MaxJobsAssumption DEF JobsBounded, Started
  <2> QED BY <2>1, <2>2, <2>3 DEF RoomInv
<1>2. TypeInv /\ TableInv /\ RoomInv /\ [Next]_vars => RoomInv'
  <2> SUFFICES ASSUME TypeInv, TableInv, RoomInv, [Next]_vars PROVE RoomInv' OBVIOUS
  <2>1. ASSUME UNCHANGED <<runners, rpc>>, loop'.pc \in {"select", "run"} => loop.pc \in {"select", "run"}
        PROVE  RoomInv'
    <3>1. Filed' = Filed /\ Started' = Started BY <2>1 DEF Filed, Started
    <3> QED BY <2>1, <3>1, RoomKept
  <2>2. CASE QueueStep /\ UNCHANGED pmVars BY <2>1, <2>2 DEF pmVars
  <2>3. CASE \E s \in Sinks : SinkStep(s) BY <2>1, <2>3 DEF SinkStep, SinkGetNext, SinkPushCmd, SinkPushCmdToQueue
  <2>4. CASE UNCHANGED vars BY <2>1, <2>4 DEF vars, pmVars
  <2> QED BY <2>2, <2>3, <2>4, RoomDirect, RoomLoopStep, RoomRunnerStep, RoomBodyStep DEF Next
<1> QED BY <1>1, <1>2, TypeInvariant, TableInvariant, PTL DEF Spec

\* processCmds never has more than maxJobs commands running: it alone starts them, after
\* it saw room in the table, and other code that adds to the table does not count.
THEOREM MaxJobsRunning == Spec => []JobsBounded
  BY RoomInvariant, PTL DEF RoomInv

-----------------------------------------------------------------------------
(* First come, first served                                                *)

\* The queue manager received a command, or received c before d.
Arrived(c)   == \E i \in 1 .. Len(arrived) : arrived[i] = c
Before(c, d) == \E i, j \in 1 .. Len(arrived) : i < j /\ arrived[i] = c /\ arrived[j] = d

\* A command that no sink has handed over yet has left no trace.
Unissued(c) == ~Arrived(c) /\ ~Served(c)

\* No command was received twice.
ReceivedOnce == \A i, j \in 1 .. Len(arrived) : arrived[i] = arrived[j] => i = j

\* Every queued command is received once: it is in Redis, then with one sink, and then
\* with the queue manager.
OnceInv ==
    /\ ReceivedOnce
    /\ \A c \in Cmds : Arrived(c) => c \notin Direct /\ QueueOf[c] \in Queues
    /\ \A c \in todo : Unissued(c)
    /\ \A s \in Sinks : sinkCmd[s] # Nil =>
          /\ sinkCmd[s] \notin todo \cup Direct
          /\ Unissued(sinkCmd[s])
          /\ \A t \in Sinks : sinkCmd[t] = sinkCmd[s] => s = t

\* A list holds received commands, in the order they were received.
Sorted(list) ==
    \A i \in 1 .. Len(list.items) : list.items[i] # Nil =>
        /\ Arrived(list.items[i])
        /\ \A j \in 1 .. Len(list.items) :
              i < j /\ list.items[j] # Nil => Before(list.items[i], list.items[j])

\* A command is in a list.
In(c, list) == \E i \in 1 .. Len(list.items) : list.items[i] = c

\* The command that dispatcherLoop is about to file was received last and is nowhere yet.
ListInv ==
    /\ \A l \in Cmds : Sorted(lists[l])
    /\ \A l \in Cmds : ~Arrived(l) \/ (disp.pc = "lookup" /\ disp.cmd = l)
                          => lists[l].items = <<>>
    /\ \A q \in Queues : queues[q] # Nil => Arrived(queues[q])
    /\ Pushing => Arrived(disp.list)
    /\ disp.pc = "lookup" \/ Pushing =>
          /\ arrived # <<>> /\ disp.cmd = arrived[Len(arrived)]
          /\ ~Served(disp.cmd)
          /\ \A l \in Cmds : ~In(disp.cmd, lists[l])
    /\ prod.pc = "remove" => prod.list = queues[prod.queue]

\* No command received after one that waits in the list of its queue was taken off.
FirstInv ==
    \A q \in Queues : queues[q] # Nil =>
        \A c, d \in Cmds :
            In(c, lists[queues[q]]) /\ QueueOf[d] = q /\ Served(d) => ~Before(c, d)

FifoInv == OnceInv /\ ListInv /\ FirstInv

\* The order of arrival is strict, and the command received last comes after all others.
LEMMA BeforeFacts ==
    ASSUME arrived \in Seq(Cmds), ReceivedOnce, NEW c, NEW d
    PROVE  /\ Before(c, d) => Arrived(c) /\ Arrived(d) /\ ~Before(d, c)
           /\ arrived # <<>> =>
                 /\ Arrived(arrived[Len(arrived)])
                 /\ ~Before(arrived[Len(arrived)], d)
                 /\ Arrived(c) /\ c # arrived[Len(arrived)] => Before(c, arrived[Len(arrived)])
<1> USE DEF Before, Arrived, ReceivedOnce
<1>1. Before(c, d) => Arrived(c) /\ Arrived(d)
  OBVIOUS
<1>2. Before(c, d) => ~Before(d, c)
  OBVIOUS
<1>3. ASSUME arrived # <<>>
      PROVE  /\ Arrived(arrived[Len(arrived)])
             /\ ~Before(arrived[Len(arrived)], d)
             /\ Arrived(c) /\ c # arrived[Len(arrived)] => Before(c, arrived[Len(arrived)])
  <2>1. Len(arrived) \in Nat /\ Len(arrived) \in 1 .. Len(arrived)
    BY <1>3
  <2> QED
    BY <2>1
<1> QED
  BY <1>1, <1>2, <1>3

\* What receiving a new command does to the order.
LEMMA Receiving ==
    ASSUME arrived \in Seq(Cmds), ReceivedOnce, NEW c \in Cmds, ~Arrived(c),
           arrived' = Append(arrived, c)
    PROVE  /\ ReceivedOnce'
           /\ arrived' # <<>> /\ arrived'[Len(arrived')] = c
           /\ \A x : Arrived(x)' <=> Arrived(x) \/ x = c
           /\ \A x, y : Before(x, y)' <=> Before(x, y) \/ (Arrived(x) /\ y = c)
<1>1. PICK n \in Nat : n = Len(arrived)
  OBVIOUS
<1>2. /\ Len(arrived') = n + 1 /\ arrived'[n + 1] = c
      /\ \A i \in 1 .. n : arrived'[i] = arrived[i] /\ arrived[i] # c
  BY <1>1 DEF Arrived
<1>3. ReceivedOnce'
  BY <1>1, <1>2 DEF ReceivedOnce
<1>4. \A x : Arrived(x)' <=> Arrived(x) \/ x = c
  BY <1>1, <1>2 DEF Arrived
<1>5. \A x, y : Before(x, y)' <=> Before(x, y) \/ (Arrived(x) /\ y = c)
  <2> TAKE x, y
  <2>1. ASSUME Before(x, y)' PROVE Before(x, y) \/ (Arrived(x) /\ y = c)
    <3>1. PICK i, j \in 1 .. n + 1 : i < j /\ arrived'[i] = x /\ arrived'[j] = y
      BY <1>2, <2>1 DEF Before
    <3>2. i \in 1 .. n
      BY <1>1, <3>1
    <3>3. CASE j = n + 1
      BY <1>1, <1>2, <3>1, <3>2, <3>3 DEF Arrived
    <3>4. CASE j # n + 1
      <4>1. j \in 1 .. n
        BY <1>1, <3>1, <3>4
      <4> QED
        BY <1>1, <1>2, <3>1, <3>2, <4>1 DEF Before
    <3> QED
      BY <3>3, <3>4
  <2>2. ASSUME Before(x, y) PROVE Before(x, y)'
    BY <1>1, <1>2, <2>2 DEF Before
  <2>3. ASSUME Arrived(x), y = c PROVE Before(x, y)'
    BY <1>1, <1>2, <2>3 DEF Before, Arrived
  <2> QED
    BY <2>1, <2>2, <2>3
<1> QED
  BY <1>1, <1>2, <1>3, <1>4, <1>5

\* PushBack, also when it loses its command, keeps a list in order and brings in nothing else.
LEMMA SortedOps ==
    ASSUME NEW l \in List, NEW c \in Cmds, NEW n, Sorted(l), Arrived(c),
           \A x \in Cmds : In(x, l) => Before(x, c),
           NEW rest \in {Append(l.items, c), <<c>>, <<>>, <<Nil>>}
    PROVE  LET new == [items |-> rest, len |-> n]
           IN  /\ Sorted(new)
               /\ \A x \in Cmds : In(x, new) => In(x, l) \/ x = c
<1> USE CmdAssumption
<1>0. PICK m \in Nat : m = Len(l.items) /\ l.items \in Seq(Cmds \cup {Nil})
  BY DEF List
<1>1. \A i \in 1 .. m : l.items[i] # Nil => In(l.items[i], l) /\ l.items[i] \in Cmds
  BY <1>0 DEF In
<1>2. CASE rest \in {<<c>>, <<>>, <<Nil>>}
  BY <1>2 DEF Sorted, In
<1>3. CASE rest = Append(l.items, c)
  <2>1. /\ Len(rest) = m + 1 /\ rest[m + 1] = c
        /\ \A i \in 1 .. m : rest[i] = l.items[i]
    BY <1>0, <1>3
  <2>2. \A i \in 1 .. Len(rest) : rest[i] # Nil =>
           rest[i] = c \/ (In(rest[i], l) /\ rest[i] \in Cmds)
    BY <1>0, <1>1, <2>1
  <2>3. \A i \in 1 .. Len(rest) : rest[i] # Nil => Arrived(rest[i])
    BY <1>0, <2>1 DEF Sorted
  <2>4. \A i, j \in 1 .. Len(rest) :
           rest[i] # Nil /\ rest[j] # Nil /\ i < j => Before(rest[i], rest[j])
    BY <1>0, <1>1, <2>1 DEF Sorted
  <2> QED
    BY <2>2, <2>3, <2>4 DEF Sorted, In
<1> QED
  BY <1>2, <1>3

\* So does Remove, and what is behind the front of a list was received after it.
LEMMA FrontFirst ==
    ASSUME NEW l \in List, HasFront(l), Sorted(l), NEW n
    PROVE  LET new == [items |-> Tail(l.items), len |-> n]
           IN  /\ Head(l.items) \in Cmds /\ In(Head(l.items), l) /\ Arrived(Head(l.items))
               /\ Sorted(new)
               /\ \A x \in Cmds : In(x, new) => In(x, l) /\ Before(Head(l.items), x)
<1> USE CmdAssumption
<1> DEFINE rest == Tail(l.items)
<1>0. PICK m \in Nat : /\ m = Len(l.items) /\ l.items \in Seq(Cmds \cup {Nil})
                       /\ m > 0 /\ Head(l.items) = l.items[1] /\ l.items[1] # Nil
  BY DEF List, HasFront
<1>1. Len(rest) = m - 1 /\ \A i \in 1 .. m - 1 : rest[i] = l.items[i + 1]
  BY <1>0
<1>2. Head(l.items) \in Cmds /\ In(Head(l.items), l) /\ Arrived(Head(l.items))
  BY <1>0 DEF Sorted, In
<1>3. \A i \in 1 .. Len(rest) : rest[i] # Nil =>
         Arrived(rest[i]) /\ In(rest[i], l) /\ Before(Head(l.items), rest[i])
  BY <1>0, <1>1 DEF Sorted, In
<1>4. \A i, j \in 1 .. Len(rest) :
         rest[i] # Nil /\ rest[j] # Nil /\ i < j => Before(rest[i], rest[j])
  BY <1>0, <1>1 DEF Sorted
<1> HIDE DEF rest
<1>5. Sorted([items |-> rest, len |-> n])
  BY <1>3, <1>4 DEF Sorted
<1>6. \A x \in Cmds : In(x, [items |-> rest, len |-> n]) => In(x, l) /\ Before(Head(l.items), x)
  BY <1>3 DEF In
<1> QED
  BY <1>2, <1>5, <1>6 DEF rest

\* Only received commands are in a list.
LEMMA InArrived ==
    ASSUME NEW l, Sorted(l), NEW c \in Cmds, In(c, l)
    PROVE  Arrived(c)
  BY CmdAssumption DEF Sorted, In

\* Every queued command is received once, whoever serves it.
LEMMA OnceKept ==
    ASSUME TypeInv, OnceInv, UNCHANGED <<arrived, todo, sinkCmd>>,
           \A c \in Cmds : Served(c)' => Served(c) \/ Arrived(c)
    PROVE  OnceInv'
<1>1. /\ ReceivedOnce' /\ \A c : Arrived(c)' <=> Arrived(c)
      /\ \A c \in Cmds : Unissued(c) => Unissued(c)'
  BY DEF OnceInv, ReceivedOnce, Arrived, Unissued
<1>2. todo \subseteq Cmds /\ \A s \in Sinks : sinkCmd[s] \in Cmds \cup {Nil}
  BY DEF TypeInv, TypeOK
<1> QED
  BY <1>1, <1>2 DEF OnceInv

\* A step that leaves the lists alone and serves no command that the queue manager has.
LEMMA FirstKept ==
    ASSUME TypeInv, OnceInv, ListInv, FirstInv, UNCHANGED <<queues, lists, disp, arrived>>,
           prod' = prod \/ prod'.pc # "remove",
           \A c \in Cmds : Served(c)' => Served(c) \/ ~Arrived(c)
    PROVE  ListInv' /\ FirstInv'
<1>0. arrived \in Seq(Cmds) /\ ReceivedOnce /\ QueueLocals
  BY DEF TypeInv, TypeOK, QueueTypeOK, OnceInv
<1>1. /\ \A c : Arrived(c)' <=> Arrived(c)
      /\ \A c, d : Before(c, d)' <=> Before(c, d)
      /\ \A l \in Cmds : Sorted(lists[l])' <=> Sorted(lists[l])
      /\ Pushing' <=> Pushing
  BY DEF Arrived, Before, Sorted, Pushing
<1>2. disp.pc = "lookup" \/ Pushing => ~Served(disp.cmd)'
  BY <1>0, BeforeFacts DEF ListInv, QueueLocals, Pushing
<1>3. prod'.pc = "remove" => prod'.list = queues'[prod'.queue]
  BY DEF ListInv
<1>4. \A c, l : In(c, lists[l])' <=> In(c, lists[l])
  BY DEF In
<1>5. ListInv'
  BY <1>1, <1>2, <1>3, <1>4 DEF ListInv
<1>6. FirstInv'
  BY <1>0, <1>1, <1>4, BeforeFacts DEF FirstInv
<1> QED
  BY <1>5, <1>6

\* A sink hands a command over once, to processCmds or to dispatcherLoop.
LEMMA FifoSinkStep ==
    ASSUME TypeInv, FifoInv, NEW s \in Sinks, SinkStep(s)
    PROVE  FifoInv'
<1> USE CmdAssumption, QueueAssumption
<1>0. /\ arrived \in Seq(Cmds) /\ lists \in [Cmds -> List] /\ queues \in [Queues -> Cmds \cup {Nil}]
      /\ todo \subseteq Cmds /\ sinkCmd \in [Sinks -> Cmds \cup {Nil}]
      /\ ReceivedOnce /\ QueueLocals /\ OnceInv /\ ListInv /\ FirstInv
  BY DEF TypeInv, TypeOK, QueueTypeOK, FifoInv, OnceInv
<1>1. CASE SinkGetNext(s)
  <2>1. /\ UNCHANGED <<queues, lists, disp, prod, arrived, loop, rpc, rejected>>
        /\ sinkCmd[s] = Nil
    BY <1>1 DEF SinkGetNext, queueVars
  <2>2. PICK c \in todo \ Direct : sinkCmd' = [sinkCmd EXCEPT ![s] = c] /\ todo' = todo \ {c}
    BY <1>1 DEF SinkGetNext
  <2>3. /\ \A d : Served(d)' <=> Served(d)
        /\ \A d : Unissued(d)' <=> Unissued(d)
        /\ \A d : Arrived(d)' <=> Arrived(d)
        /\ ReceivedOnce'
    BY <1>0, <2>1 DEF Served, Unissued, Arrived, ReceivedOnce
  <2>4. ListInv' /\ FirstInv'
    BY <1>0, <2>1, <2>3, FirstKept
  <2>5. \A t \in Sinks : sinkCmd'[t] = IF t = s THEN c ELSE sinkCmd[t]
    BY <1>0, <2>2
  <2>6. \A t \in Sinks : sinkCmd[t] # c
    BY <1>0, <2>2 DEF OnceInv
  <2>7. OnceInv'
    BY <1>0, <2>2, <2>3, <2>5, <2>6 DEF OnceInv
  <2> QED
    BY <2>4, <2>7 DEF FifoInv
<1>2. CASE SinkPushCmd(s)
  <2> DEFINE c == sinkCmd[s]
  <2>1. /\ UNCHANGED <<queues, lists, disp, prod, arrived, rpc, rejected, todo>>
        /\ c # Nil /\ c \in Cmds /\ QueueOf[c] = NoQueue
        /\ loop' = [pc |-> "run", cmd |-> c] /\ loop.pc = "select"
        /\ sinkCmd' = [sinkCmd EXCEPT ![s] = Nil]
    BY <1>0, <1>2 DEF SinkPushCmd, queueVars
  <2>2. /\ \A d : Served(d)' => Served(d) \/ d = c
        /\ \A d : Arrived(d)' <=> Arrived(d)
        /\ ReceivedOnce'
    BY <1>0, <2>1 DEF Served, Arrived, ReceivedOnce
  <2>3. ~Arrived(c)
    BY <1>0, <2>1 DEF OnceInv
  <2>4. ListInv' /\ FirstInv'
    BY <1>0, <2>1, <2>2, <2>3, FirstKept
  <2>5. \A t \in Sinks : sinkCmd'[t] = IF t = s THEN Nil ELSE sinkCmd[t]
    BY <1>0, <2>1
  <2>6. c \notin todo /\ \A t \in Sinks : t # s => sinkCmd[t] # c
    BY <1>0, <2>1 DEF OnceInv
  <2>7. \A d \in Cmds : d # c /\ Unissued(d) => Unissued(d)'
    BY <2>2 DEF Unissued
  <2>8. OnceInv'
    BY <1>0, <2>1, <2>2, <2>5, <2>6, <2>7 DEF OnceInv
  <2> QED
    BY <2>4, <2>8 DEF FifoInv
<1>3. CASE SinkPushCmdToQueue(s)
  <2>a. PICK c \in Cmds : c = sinkCmd[s]
    BY <1>0, <1>3 DEF SinkPushCmdToQueue
  <2>1. /\ UNCHANGED <<queues, lists, prod, loop, rpc, rejected, todo>>
        /\ sinkCmd[s] = c /\ QueueOf[c] \in Queues
        /\ disp.pc = "recv" /\ disp' = [pc |-> "lookup", cmd |-> c, list |-> Nil]
        /\ arrived' = Append(arrived, c)
        /\ sinkCmd' = [sinkCmd EXCEPT ![s] = Nil]
    BY <1>0, <1>3, <2>a DEF SinkPushCmdToQueue, DispatcherRecv
  <2>2. c \notin todo \cup Direct /\ Unissued(c) /\ \A t \in Sinks : t # s => sinkCmd[t] # c
    BY <1>0, <2>1 DEF OnceInv
  <2>3. ~Arrived(c) /\ ~Served(c) /\ \A d : Served(d)' <=> Served(d)
    BY <2>1, <2>2 DEF Unissued, Served
  <2>4. /\ ReceivedOnce'
        /\ arrived' # <<>> /\ arrived'[Len(arrived')] = c
        /\ \A x : Arrived(x)' <=> Arrived(x) \/ x = c
        /\ \A x, y : Before(x, y)' <=> Before(x, y) \/ (Arrived(x) /\ y = c)
    BY <1>0, <2>1, <2>3, Receiving
  <2>5. \A t \in Sinks : sinkCmd'[t] = IF t = s THEN Nil ELSE sinkCmd[t]
    BY <1>0, <2>1
  <2>6. \A d \in Cmds : d # c /\ Unissued(d) => Unissued(d)'
    BY <2>3, <2>4 DEF Unissued
  <2>7. OnceInv'
    BY <1>0, <2>1, <2>2, <2>4, <2>5, <2>6 DEF OnceInv
  <2>8. \A l \in Cmds : Sorted(lists[l])'
    BY <1>0, <2>1, <2>4 DEF ListInv, Sorted
  <2>9. \A l, d \in Cmds : /\ In(d, lists[l])' <=> In(d, lists[l])
                           /\ In(d, lists[l]) => Arrived(d)
    <3>1. \A l, d \in Cmds : In(d, lists[l])' <=> In(d, lists[l])
      BY <2>1 DEF In
    <3>2. \A l, d \in Cmds : In(d, lists[l]) => Arrived(d)
      BY <1>0 DEF ListInv, Sorted, In
    <3> QED
      BY <3>1, <3>2
  <2>10. ~Pushing' /\ disp'.pc = "lookup" /\ disp'.cmd = c
    BY <2>1 DEF Pushing
  <2>11. ListInv'
    <3>1. \A l \in Cmds : ~In(c, lists[l])'
      BY <2>1, <2>3, <2>9
    <3>2. \A l \in Cmds : ~Arrived(l)' \/ l = c => lists'[l].items = <<>>
      BY <1>0, <2>1, <2>3, <2>4 DEF ListInv
    <3>3. \A q \in Queues : queues'[q] # Nil => Arrived(queues[q])'
      BY <1>0, <2>1, <2>4 DEF ListInv
    <3>4. ~Served(disp.cmd)'
      BY <2>3, <2>10
    <3>5. prod'.pc = "remove" => prod'.list = queues'[prod'.queue]
      BY <1>0, <2>1 DEF ListInv
    <3> QED
      BY <2>4, <2>8, <2>10, <3>1, <3>2, <3>3, <3>4, <3>5, <2>1 DEF ListInv
  <2>12. FirstInv'
    BY <1>0, <2>1, <2>3, <2>4, <2>9 DEF FirstInv
  <2> QED
    BY <2>7, <2>11, <2>12 DEF FifoInv
<1> QED
  BY <1>1, <1>2, <1>3 DEF SinkStep

\* A direct command never gets to the queue manager.
LEMMA FifoDirectRunCmd ==
    ASSUME TypeInv, FifoInv, NEW c \in Cmds, DirectRunCmd(c)
    PROVE  FifoInv'
<1>0. /\ todo \subseteq Cmds /\ sinkCmd \in [Sinks -> Cmds \cup {Nil}]
      /\ OnceInv /\ ListInv /\ FirstInv
  BY DEF TypeInv, TypeOK, FifoInv
<1>1. /\ UNCHANGED <<queues, lists, disp, prod, arrived, sinkCmd, loop>>
      /\ c \in todo \cap Direct /\ todo' = todo \ {c} /\ RunCmd(c)
  BY DEF DirectRunCmd, queueVars
<1>2. \A d \in Cmds : Served(d)' => Served(d) \/ d = c
  BY <1>1 DEF RunCmd, RunUnknown, RunDuplicate, NewRunner, Served, TypeInv, TypeOK
<1>3. ReceivedOnce' /\ \A d : Arrived(d)' <=> Arrived(d)
  BY <1>0, <1>1 DEF OnceInv, ReceivedOnce, Arrived
<1>4. ~Arrived(c) /\ \A d \in Cmds : d # c /\ Unissued(d) => Unissued(d)'
  BY <1>0, <1>1, <1>2, <1>3 DEF OnceInv, Unissued
<1>5. ListInv' /\ FirstInv'
  BY <1>0, <1>1, <1>2, <1>4, FirstKept
<1>6. OnceInv'
  BY <1>0, <1>1, <1>3, <1>4 DEF OnceInv
<1> QED
  BY <1>5, <1>6 DEF FifoInv

\* Neither processCmds nor a runner nor a kill takes a command off a queue.
LEMMA FifoOthers ==
    ASSUME TypeInv, FifoInv,
           \/ LoopStep
           \/ \E c \in Cmds : RunnerStep(c) \/ BodyStep(c)
           \/ UNCHANGED vars
    PROVE  FifoInv'
<1> USE DEF TypeInv, TypeOK
<1>1. /\ UNCHANGED <<queues, lists, disp, arrived, todo, sinkCmd>>
      /\ prod' = prod \/ prod'.pc # "remove"
  BY DEF vars, queueVars, pmVars, entryVars, LoopStep, LoopCheck, LoopWait, LoopReceiveQueued,
     ProducerSend, ProducerIdle, ProducerRecv, LoopRunCmd, RunnerStep, RunnerExit, RunnerTimeout,
     RunnerDrained, RunnerRestart, RunnerReport, CleanUpDelete, CleanUpNotify, CleanUpBroadcast,
     BodyStep, BodyEnd, KillLookup, KillLookupRace, KillallLock, KillSend
<1>2. \A d \in Cmds : Served(d)' => Served(d)
  <2>1. CASE LoopStep
    <3>1. CASE LoopCheck \/ LoopWait
      BY <3>1 DEF LoopCheck, LoopWait, queueVars, Served
    <3>2. CASE LoopReceiveQueued
      BY <3>2 DEF LoopReceiveQueued, ProducerSend, ProducerIdle, Served
    <3>3. CASE LoopRunCmd
      BY <3>3 DEF LoopRunCmd, queueVars, RunCmd, RunUnknown, RunDuplicate, NewRunner, PmLocals, Served
    <3> QED
      BY <2>1, <3>1, <3>2, <3>3 DEF LoopStep
  <2>2. ASSUME NEW c \in Cmds, RunnerStep(c) PROVE \A d \in Cmds : Served(d)' => Served(d)
    <3>1. UNCHANGED rejected /\ rpc[c] # "none" /\ \A d \in Cmds : d # c => rpc'[d] = rpc[d]
      BY <2>2 DEF RunnerStep, RunnerExit, RunnerTimeout, RunnerDrained, RunnerRestart,
         RunnerReport, CleanUpDelete, CleanUpNotify, CleanUpBroadcast
    <3>2. /\ loop'.pc = "run" => loop.pc = "run" /\ loop'.cmd = loop.cmd
          /\ prod'.pc = "send" => prod.pc = "send" /\ prod'.cmd = prod.cmd
      BY <2>2 DEF RunnerStep, RunnerExit, RunnerTimeout, RunnerDrained, RunnerRestart,
         RunnerReport, CleanUpDelete, CleanUpNotify, CleanUpBroadcast, ProducerRecv, queueVars
    <3> QED
      BY <3>1, <3>2 DEF Served
  <2>3. ASSUME NEW c \in Cmds, BodyStep(c) PROVE \A d \in Cmds : Served(d)' => Served(d)
    <3>1. /\ UNCHANGED <<prod, loop, rejected>>
          /\ \A d \in Cmds : rpc'[d] = rpc[d] \/ rpc[d] # "none"
      BY <2>3 DEF BodyStep, BodyEnd, KillLookup, KillLookupRace, KillallLock, KillSend, Receptive,
         queueVars, pmVars
    <3> QED
      BY <3>1 DEF Served
  <2>4. CASE UNCHANGED vars
    BY <2>4 DEF vars, queueVars, pmVars, Served
  <2> QED
    BY <2>1, <2>2, <2>3, <2>4
<1> QED
  BY <1>1, <1>2, OnceKept, FirstKept DEF FifoInv

\* A step that leaves the history alone leaves the order alone.
LEMMA OrderKept ==
    ASSUME UNCHANGED arrived
    PROVE  /\ \A c : Arrived(c)' <=> Arrived(c)
           /\ \A c, d : Before(c, d)' <=> Before(c, d)
           /\ \A k \in Cmds : Sorted(lists[k])' <=> Sorted(lists'[k])
           /\ \A k, c \in Cmds : In(c, lists[k])' <=> In(c, lists'[k])
  BY DEF Arrived, Before, Sorted, In

\* A step of PushBack, Remove, or both on one list: it may add the command of
\* dispatcherLoop, and may hand the front of the list to producerLoop.
LEMMA FifoListStep ==
    ASSUME TypeInv, QueueNames, FifoInv,
           UNCHANGED <<arrived, todo, sinkCmd, loop, rpc, rejected, queues>>,
           NEW k \in Cmds, Arrived(k), ~(disp.pc = "lookup" /\ disp.cmd = k),
           NEW new \in List, Sorted(new), lists' = [lists EXCEPT ![k] = new],
           \A x \in Cmds : In(x, new) => In(x, lists[k]) \/ (Pushing /\ x = disp.cmd),
           \/ disp'.pc \in {"recv", "signal"}
           \/ UNCHANGED disp /\ \A x \in Cmds : In(x, new) => In(x, lists[k]),
           \/ UNCHANGED prod
           \/ \E h \in Cmds :
                 /\ prod'.pc = "send" /\ prod'.cmd = h
                 /\ In(h, lists[k]) /\ QueueOf[h] \in Queues /\ queues[QueueOf[h]] = k
                 /\ \A x \in Cmds : In(x, new) => Before(h, x) \/ (Pushing /\ x = disp.cmd)
    PROVE  FifoInv'
<1> USE CmdAssumption, QueueAssumption
<1>0. /\ arrived \in Seq(Cmds) /\ lists \in [Cmds -> List] /\ queues \in [Queues -> Cmds \cup {Nil}]
      /\ disp \in DispatcherState /\ prod \in ProducerState
      /\ ReceivedOnce /\ QueueLocals /\ OnceInv /\ ListInv /\ FirstInv
  BY DEF TypeInv, TypeOK, QueueTypeOK, FifoInv, OnceInv
<1>b. /\ \A c : Arrived(c)' <=> Arrived(c)
      /\ \A c, d : Before(c, d)' <=> Before(c, d)
      /\ \A j \in Cmds : Sorted(lists[j])' <=> Sorted(lists'[j])
      /\ \A j, c \in Cmds : In(c, lists[j])' <=> In(c, lists'[j])
  BY OrderKept
<1>c. \A j, c \in Cmds : In(c, lists[j]) => Arrived(c)
  BY <1>0, InArrived DEF ListInv
<1>e. disp.pc = "lookup" \/ Pushing =>
        disp.cmd \in Cmds /\ Arrived(disp.cmd) /\ \A d \in Cmds : ~Before(disp.cmd, d)
  BY <1>0, BeforeFacts DEF ListInv, QueueLocals, Pushing
<1>d. \A c \in Cmds : Served(c)' =>
         \/ Served(c)
         \/ /\ In(c, lists[k]) /\ queues[QueueOf[c]] = k /\ UNCHANGED loop
            /\ \A x \in Cmds : In(x, new) => Before(c, x) \/ (Pushing /\ x = disp.cmd)
  BY DEF Served
<1>f. \A j \in Cmds : lists'[j] = IF j = k THEN new ELSE lists[j]
  BY <1>0
<1>g. \A c \in Cmds : Served(c)' => Served(c) \/ Arrived(c)
  BY <1>c, <1>d
<1>1. OnceInv'
  BY <1>0, <1>g, OnceKept
<1>2. ListInv'
  <2>1. \A j \in Cmds : /\ Sorted(lists[j])'
                        /\ ~Arrived(j)' => lists'[j].items = <<>>
    BY <1>0, <1>b, <1>f DEF ListInv
  <2>2. \A q \in Queues : queues'[q] # Nil => Arrived(queues[q])'
    BY <1>0 DEF ListInv, Arrived
  <2>3. prod'.pc = "remove" => prod'.list = queues'[prod'.queue]
    BY <1>0 DEF ListInv
  <2>4. CASE disp'.pc \in {"recv", "signal"}
    <3>1. ~Pushing' /\ disp'.pc # "lookup"
      BY <2>4 DEF Pushing
    <3> QED
      BY <2>1, <2>2, <2>3, <3>1 DEF ListInv
  <2>5. CASE UNCHANGED disp /\ \A x \in Cmds : In(x, new) => In(x, lists[k])
    <3>1. /\ Pushing' <=> Pushing
          /\ Pushing => Arrived(disp.list)'
      BY <1>0, <2>5 DEF ListInv, Pushing, Arrived
    <3>2. \A j \in Cmds : disp'.pc = "lookup" /\ disp'.cmd = j => lists'[j].items = <<>>
      BY <1>0, <1>f, <2>5 DEF ListInv
    <3>3. disp.pc = "lookup" \/ Pushing =>
             \A j \in Cmds : ~In(disp.cmd, lists[j]) /\ ~In(disp.cmd, lists'[j])
      BY <1>0, <1>e, <1>f, <2>5 DEF ListInv
    <3>4. disp.pc = "lookup" \/ Pushing => ~Served(disp.cmd)'
      BY <1>0, <1>d, <1>e, <2>5, <3>3 DEF ListInv, Served
    <3>5. disp.pc = "lookup" \/ Pushing => \A j \in Cmds : ~In(disp.cmd, lists[j])'
      BY <2>5, <3>3 DEF In
    <3> QED
      BY <1>0, <2>1, <2>2, <2>3, <2>5, <3>1, <3>2, <3>4, <3>5 DEF ListInv
  <2> QED
    BY <2>4, <2>5
<1>3. FirstInv'
  <2> SUFFICES ASSUME NEW q \in Queues, queues[q] # Nil, NEW c \in Cmds, NEW d \in Cmds,
                      In(c, lists'[queues[q]]), QueueOf[d] = q, Served(d)'
               PROVE  ~Before(c, d)
    BY <1>0, <1>b DEF FirstInv
  <2>1. queues[q] \in Cmds
    BY <1>0
  <2>2. CASE Served(d)
    BY <1>0, <1>e, <1>f, <2>1, <2>2 DEF FirstInv
  <2>3. CASE ~Served(d)
    <3>1. queues[q] = k /\ In(c, new)
      BY <1>d, <1>f, <2>1, <2>3
    <3>2. Before(d, c) \/ (Pushing /\ c = disp.cmd)
      BY <1>d, <2>3, <3>1
    <3> QED
      BY <1>0, <1>e, <3>2, BeforeFacts
  <2> QED
    BY <2>2, <2>3
<1> QED
  BY <1>1, <1>2, <1>3 DEF FifoInv

\* dispatcherLoop and producerLoop keep every list in order and serve its front.
LEMMA FifoQueueStep ==
    ASSUME TypeInv, QueueNames, FifoInv, QueueStep, UNCHANGED pmVars
    PROVE  FifoInv'
<1> USE CmdAssumption, QueueAssumption
<1>0. /\ arrived \in Seq(Cmds) /\ lists \in [Cmds -> List] /\ queues \in [Queues -> Cmds \cup {Nil}]
      /\ disp \in DispatcherState /\ prod \in ProducerState
      /\ ReceivedOnce /\ QueueLocals /\ OnceInv /\ ListInv /\ FirstInv
  BY DEF TypeInv, TypeOK, QueueTypeOK, FifoInv, OnceInv
<1>a. UNCHANGED <<arrived, todo, sinkCmd, loop, rpc, rejected>>
  BY DEF QueueStep, DispatcherLookup, DispatcherPush, DispatcherSignal, ProducerLookup,
     ProducerRemove, RacingPushRemove, pmVars, entryVars
<1>b. /\ \A c : Arrived(c)' <=> Arrived(c)
      /\ \A c, d : Before(c, d)' <=> Before(c, d)
      /\ \A k \in Cmds : Sorted(lists[k])' <=> Sorted(lists'[k])
      /\ \A k, c \in Cmds : In(c, lists[k])' <=> In(c, lists'[k])
  BY <1>a, OrderKept
<1>c. \A k, c \in Cmds : In(c, lists[k]) => Arrived(c)
  BY <1>0, InArrived DEF ListInv
<1>d. \A c : Served(c)' => Served(c) \/ (prod'.pc = "send" /\ prod'.cmd = c)
  BY <1>a DEF Served
<1>e. disp.pc = "lookup" \/ Pushing =>
        /\ disp.cmd \in Cmds /\ Arrived(disp.cmd)
        /\ \A d \in Cmds : ~Before(disp.cmd, d)
        /\ \A d \in Cmds : Arrived(d) /\ d # disp.cmd => Before(d, disp.cmd)
  BY <1>0, BeforeFacts DEF ListInv, QueueLocals, Pushing
<1>1. CASE DispatcherLookup
  <2> DEFINE q == QueueOf[disp.cmd]
  <2>1. /\ UNCHANGED <<lists, prod>> /\ disp.pc = "lookup" /\ q \in Queues
        /\ disp'.pc \in {"push", "pushFirst"} /\ disp'.cmd = disp.cmd
        /\ \/ queues[q] # Nil /\ disp'.list = queues[q] /\ UNCHANGED queues
           \/ /\ queues[q] = Nil /\ disp'.list = disp.cmd
              /\ queues' = [queues EXCEPT ![q] = disp.cmd]
    BY <1>0, <1>1 DEF DispatcherLookup, QueueLocals
  <2>2. \A c : Served(c)' <=> Served(c)
    BY <1>a, <2>1 DEF Served
  <2>3. OnceInv'
    BY <1>0, <1>a, <2>2, OnceKept
  <2>4. \A r \in Queues : queues'[r] = queues[r] \/ (queues[r] = Nil /\ queues'[r] = disp.cmd)
    BY <1>0, <2>1
  <2>5. lists[disp.cmd].items = <<>> /\ \A c \in Cmds : ~In(c, lists[disp.cmd])
    BY <1>0, <1>e, <2>1 DEF ListInv, In
  <2>6. Pushing' /\ disp'.pc # "lookup" /\ Arrived(disp'.list)
    BY <1>0, <1>e, <2>1 DEF Pushing, ListInv
  <2>7. ListInv'
    <3>1. \A k \in Cmds : Sorted(lists[k])' /\ (~Arrived(k)' => lists'[k].items = <<>>)
      BY <1>0, <1>b, <2>1 DEF ListInv
    <3>2. \A r \in Queues : queues'[r] # Nil => Arrived(queues'[r])
      BY <1>0, <1>e, <2>1, <2>4 DEF ListInv
    <3>3. /\ arrived # <<>> /\ disp'.cmd = arrived[Len(arrived)] /\ ~Served(disp'.cmd)
          /\ \A k \in Cmds : ~In(disp'.cmd, lists[k])
      BY <1>0, <2>1 DEF ListInv
    <3>4. prod.pc = "remove" => prod.list = queues'[prod.queue]
      BY <1>0, <2>4 DEF ListInv, QueueLocals
    <3>5. Arrived(disp.list)' /\ ~Served(disp.cmd)' /\ \A k \in Cmds : ~In(disp.cmd, lists[k])'
      BY <1>a, <1>b, <1>e, <2>1, <2>2, <2>6, <3>3 DEF Arrived, Served, In
    <3>6. \A r \in Queues : queues'[r] # Nil => Arrived(queues[r])'
      BY <1>a, <3>2 DEF Arrived
    <3> QED
      BY <1>a, <2>1, <2>6, <3>1, <3>3, <3>4, <3>5, <3>6 DEF ListInv
  <2>8. FirstInv'
    BY <1>0, <1>b, <2>1, <2>2, <2>4, <2>5 DEF FirstInv
  <2> QED
    BY <2>3, <2>7, <2>8 DEF FifoInv
<1>2. CASE DispatcherSignal
  <2>1. /\ UNCHANGED <<lists, queues>> /\ prod'.pc = "lookup" /\ disp'.pc = "recv" /\ ~Pushing'
    BY <1>2 DEF DispatcherSignal, ProducerRecv, DispatcherIdle, Pushing
  <2>2. \A c : Served(c)' => Served(c)
    BY <1>d, <2>1
  <2>3. OnceInv'
    BY <1>0, <1>a, <2>2, OnceKept
  <2>4. ListInv'
    <3>1. \A k \in Cmds : Sorted(lists[k])' /\ (~Arrived(k)' => lists'[k].items = <<>>)
      BY <1>0, <1>b, <2>1 DEF ListInv
    <3>2. \A r \in Queues : queues'[r] # Nil => Arrived(queues[r])'
      BY <1>0, <1>a, <2>1 DEF ListInv, Arrived
    <3> QED
      BY <2>1, <3>1, <3>2 DEF ListInv
  <2>5. FirstInv'
    BY <1>0, <1>b, <2>1, <2>2 DEF FirstInv
  <2> QED
    BY <2>3, <2>4, <2>5 DEF FifoInv
<1>3. CASE ProducerLookup
  <2>1. /\ UNCHANGED <<lists, disp>> /\ prod'.pc # "send"
        /\ \A r \in Queues : queues'[r] = queues[r] \/ queues'[r] = Nil
        /\ prod'.pc = "remove" => prod'.list = queues'[prod'.queue]
    <3>1. prod.pc = "lookup" /\ prod.queue \in Queues
      BY <1>0, <1>3 DEF ProducerLookup, QueueLocals
    <3>2. CASE prod' = ProducerIdle
      BY <1>0, <1>3, <3>1, <3>2 DEF ProducerLookup, ProducerIdle
    <3>3. CASE prod' = [prod EXCEPT !.pc = "remove", !.list = queues[prod.queue]] /\ UNCHANGED queues
      <4>1. prod'.pc = "remove" /\ prod'.list = queues[prod.queue] /\ prod'.queue = prod.queue
        BY <1>0, <3>3 DEF ProducerState
      <4> QED
        BY <1>3, <3>3, <4>1 DEF ProducerLookup
    <3> QED
      BY <1>3, <3>2, <3>3 DEF ProducerLookup
  <2>2. \A c : Served(c)' => Served(c)
    BY <1>d, <2>1
  <2>3. OnceInv'
    BY <1>0, <1>a, <2>2, OnceKept
  <2>4. ListInv'
    <3>1. /\ \A k \in Cmds : Sorted(lists[k])' /\ (~Arrived(k)' => lists'[k].items = <<>>)
          /\ Pushing' <=> Pushing
          /\ \A k \in Cmds : disp'.pc = "lookup" /\ disp'.cmd = k => lists'[k].items = <<>>
      BY <1>0, <1>b, <2>1 DEF ListInv, Pushing
    <3>2. \A r \in Queues : queues'[r] # Nil => Arrived(queues[r])'
      BY <1>0, <1>a, <2>1 DEF ListInv, Arrived
    <3>3. Pushing => Arrived(disp.list)'
      BY <1>0, <1>a, <2>1 DEF ListInv, Arrived
    <3>4. disp.pc = "lookup" \/ Pushing =>
             ~Served(disp.cmd)' /\ \A k \in Cmds : ~In(disp.cmd, lists[k])'
      BY <1>0, <1>b, <2>1, <2>2 DEF ListInv, In
    <3> QED
      BY <1>0, <1>a, <2>1, <3>1, <3>2, <3>3, <3>4 DEF ListInv
  <2>5. FirstInv'
    BY <1>0, <1>b, <2>1, <2>2 DEF FirstInv
  <2> QED
    BY <2>3, <2>4, <2>5 DEF FifoInv
<1>4. CASE DispatcherPush
  <2> DEFINE k == disp.list
             list == lists[k]
             new == [items |-> Append(list.items, disp.cmd), len |-> list.len + 1]
  <2>1. /\ k \in Cmds /\ disp.cmd \in Cmds /\ list \in List /\ Pushing /\ Arrived(k) /\ Sorted(list)
        /\ disp.pc # "lookup"
    BY <1>0, <1>4 DEF DispatcherPush, QueueLocals, Pushing, ListInv
  <2>2. UNCHANGED <<queues, prod>> /\ lists' = [lists EXCEPT ![k] = new]
    BY <1>4 DEF DispatcherPush
  <2>3. disp'.pc \in {"recv", "signal"}
    BY <1>0, <1>4 DEF DispatcherPush, AfterPush, DispatcherIdle, DispatcherState
  <2>4. \A x \in Cmds : In(x, list) => Before(x, disp.cmd)
    BY <1>0, <1>c, <1>e, <2>1 DEF ListInv
  <2>5. new \in List
    BY <2>1, ListOps
  <2>6. Sorted(new) /\ \A x \in Cmds : In(x, new) => In(x, list) \/ x = disp.cmd
    <3>1. PICK l \in List, c \in Cmds : l = list /\ c = disp.cmd
      BY <2>1
    <3>2. Sorted(l) /\ Arrived(c) /\ \A x \in Cmds : In(x, l) => Before(x, c)
      BY <1>e, <2>1, <2>4, <3>1
    <3>3. PICK rest \in {Append(l.items, c), <<c>>, <<>>, <<Nil>>} : rest = Append(l.items, c)
      OBVIOUS
    <3>4. PICK n : n = l.len + 1
      OBVIOUS
    <3>5. /\ Sorted([items |-> rest, len |-> n])
          /\ \A x \in Cmds : In(x, [items |-> rest, len |-> n]) => In(x, l) \/ x = c
      BY <3>2, SortedOps
    <3> QED
      BY <3>1, <3>3, <3>4, <3>5
  <2> HIDE DEF new
  <2> QED
    BY <1>a, <2>1, <2>2, <2>3, <2>5, <2>6, FifoListStep
<1>5. CASE ProducerRemove
  <2> DEFINE k == prod.list
             list == lists[k]
             new == [items |-> Tail(list.items), len |-> list.len - 1]
  <2>1. /\ k \in Cmds /\ list \in List /\ list.len > 0 /\ Sorted(list) /\ prod.queue \in Queues
        /\ queues[prod.queue] = k /\ Belongs(list, prod.queue) /\ UNCHANGED <<queues, disp>>
    BY <1>0, <1>5 DEF ProducerRemove, QueueLocals, ListInv, QueueNames
  <2>2. CASE ~HasFront(list)
    <3>1. UNCHANGED <<queues, lists, disp, prod>>
      BY <1>5, <2>2 DEF ProducerRemove
    <3>2. \A c \in Cmds : Served(c)' => Served(c)
      BY <1>a, <3>1 DEF Served
    <3> QED
      BY <1>0, <1>a, <3>1, <3>2, OnceKept, FirstKept DEF FifoInv
  <2>3. CASE HasFront(list)
    <3>1. lists' = [lists EXCEPT ![k] = new] /\ prod' = Taken(Head(list.items))
      BY <1>5, <2>3 DEF ProducerRemove
    <3>2. PICK h \in Cmds : h = Head(list.items)
      BY <2>1, <2>3, ListOps
    <3>3. prod'.pc = "send" /\ prod'.cmd = h
      BY <1>0, <3>1, <3>2 DEF Taken, ProducerState
    <3>4. /\ In(h, list) /\ Sorted(new)
          /\ \A x \in Cmds : In(x, new) => In(x, list) /\ Before(h, x)
      BY <2>1, <2>3, <3>2, FrontFirst
    <3>5. QueueOf[h] = prod.queue
      BY <2>1, <3>4 DEF Belongs, In
    <3>6. Arrived(k) /\ ~(disp.pc = "lookup" /\ disp.cmd = k)
      BY <1>0, <2>1, <3>4 DEF ListInv, In
    <3>7. new \in List
      BY <2>1, <2>3, <3>2, ListOps
    <3> HIDE DEF new
    <3>8. /\ In(h, list) /\ QueueOf[h] \in Queues /\ queues[QueueOf[h]] = k
          /\ \A x \in Cmds : In(x, new) => Before(h, x)
      BY <2>1, <3>4, <3>5
    <3> QED
      BY <1>a, <2>1, <3>1, <3>3, <3>4, <3>6, <3>7, <3>8, FifoListStep
  <2> QED
    BY <2>2, <2>3
<1>6. CASE RacingPushRemove
  <2> DEFINE k == prod.list
             list == lists[k]
             tail == [items |-> Tail(list.items), len |-> 0]
  <2>1. /\ k \in Cmds /\ list \in List /\ list.len > 0 /\ Sorted(list) /\ prod.queue \in Queues
        /\ queues[prod.queue] = k /\ Belongs(list, prod.queue) /\ UNCHANGED queues
        /\ HasFront(list) /\ Pushing /\ disp.cmd \in Cmds /\ disp.pc # "lookup"
    BY <1>0, <1>6 DEF RacingPushRemove, QueueLocals, ListInv, QueueNames, Pushing
  <2>2. CASE UNCHANGED <<lists, disp, prod>>
    <3>1. \A c \in Cmds : Served(c)' => Served(c)
      BY <1>a, <2>2 DEF Served
    <3> QED
      BY <1>0, <1>a, <2>1, <2>2, <3>1, OnceKept, FirstKept DEF FifoInv
  <2>3. CASE ~UNCHANGED <<lists, disp, prod>>
    <3>1. prod' = Taken(Head(list.items)) /\ disp' = AfterPush
      BY <1>6, <2>3 DEF RacingPushRemove
    <3>2. PICK h \in Cmds : h = Head(list.items)
      BY <2>1, ListOps
    <3>3. prod'.pc = "send" /\ prod'.cmd = h /\ disp'.pc \in {"recv", "signal"}
      BY <1>0, <3>1, <3>2 DEF Taken, ProducerState, AfterPush, DispatcherIdle, DispatcherState
    <3>4. /\ In(h, list) /\ Sorted(tail)
          /\ \A x \in Cmds : In(x, tail) => In(x, list) /\ Before(h, x)
      BY <2>1, <3>2, FrontFirst
    <3>5. QueueOf[h] = prod.queue
      BY <2>1, <3>4 DEF Belongs, In
    <3>6. Arrived(k)
      BY <1>0, <2>1, <3>4 DEF ListInv, In
    <3>7. PICK n \in (list.len - 1) .. (list.len + 1),
               rest \in {Append(tail.items, disp.cmd), <<disp.cmd>>, <<>>, <<Nil>>} :
                 lists' = [lists EXCEPT ![k] = [items |-> rest, len |-> n]]
      BY <1>6, <2>3 DEF RacingPushRemove
    <3>8. PICK new : new = [items |-> rest, len |-> n]
      OBVIOUS
    <3>9. tail \in List /\ tail.items = Tail(list.items)
      BY <2>1 DEF List, HasFront
    <3>10. \A x \in Cmds : In(x, tail) => Before(x, disp.cmd)
      BY <1>0, <1>c, <1>e, <2>1, <3>4 DEF ListInv
    <3> HIDE DEF tail
    <3>11. Sorted(new) /\ \A x \in Cmds : In(x, new) => In(x, tail) \/ x = disp.cmd
      BY <1>e, <2>1, <3>4, <3>7, <3>8, <3>9, <3>10, SortedOps
    <3>12. new \in List
      <4>1. list.len \in Nat /\ tail.items \in Seq(Cmds \cup {Nil})
        BY <2>1, <3>9 DEF List
      <4>2. n \in Nat
        BY <2>1, <3>7, <4>1
      <4>3. rest \in Seq(Cmds \cup {Nil})
        <5>1. /\ <<disp.cmd>> \in Seq(Cmds \cup {Nil})
              /\ <<>> \in Seq(Cmds \cup {Nil}) /\ <<Nil>> \in Seq(Cmds \cup {Nil})
          BY <2>1
        <5>2. Append(tail.items, disp.cmd) \in Seq(Cmds \cup {Nil})
          BY <2>1, <4>1
        <5> QED
          BY <3>7, <5>1, <5>2
      <4> QED
        BY <3>8, <4>2, <4>3 DEF List
    <3>13. /\ In(h, list) /\ QueueOf[h] \in Queues /\ queues[QueueOf[h]] = k
           /\ \A x \in Cmds : In(x, new) =>
                 /\ In(x, list) \/ (Pushing /\ x = disp.cmd)
                 /\ Before(h, x) \/ (Pushing /\ x = disp.cmd)
      BY <2>1, <3>4, <3>5, <3>11
    <3> QED
      BY <1>a, <2>1, <3>3, <3>6, <3>7, <3>8, <3>11, <3>12, <3>13, FifoListStep
  <2> QED
    BY <2>2, <2>3
<1> QED
  BY <1>1, <1>2, <1>3, <1>4, <1>5, <1>6 DEF QueueStep

\* Every list is in the order of arrival and is served from its front.
LEMMA FifoInvariant == Spec => []FifoInv
<1>1. Init => FifoInv
  <2> SUFFICES ASSUME Init PROVE FifoInv
    OBVIOUS
  <2>1. arrived = <<>> /\ (\A c : ~Arrived(c)) /\ (\A c \in Cmds : ~Served(c))
    BY DEF Init, QueueInit, Arrived, Served, ProducerIdle
  <2>2. OnceInv
    BY <2>1 DEF Init, OnceInv, ReceivedOnce, Unissued
  <2>3. ListInv
    BY <2>1 DEF Init, QueueInit, ListInv, Sorted, EmptyList, DispatcherIdle, ProducerIdle, Pushing
  <2>4. FirstInv
    BY DEF Init, QueueInit, FirstInv
  <2> QED
    BY <2>2, <2>3, <2>4 DEF FifoInv
<1>2. TypeInv /\ QueueNames /\ FifoInv /\ [Next]_vars => FifoInv'
  BY FifoQueueStep, FifoSinkStep, FifoDirectRunCmd, FifoOthers DEF Next
<1> QED
  BY <1>1, <1>2, TypeInvariant, TokenInvariant, PTL DEF Spec

\* Commands are taken off a queue in the order dispatcherLoop received them (queue.go),
\* although PushBack and Remove race and a queue is dropped and made anew; this holds
\* whatever is done behind the queue manager's back.
THEOREM FirstComeFirstServed == Spec => []FifoQueues
<1>1. TypeInv /\ FifoInv => FifoQueues
  <2> SUFFICES ASSUME TypeInv, FifoInv, NEW i \in 1 .. Len(arrived), NEW j \in 1 .. Len(arrived),
                      i < j, QueueOf[arrived[i]] = QueueOf[arrived[j]], Served(arrived[j]),
                      Waiting(arrived[i])
               PROVE  FALSE
    BY DEF FifoQueues
  <2>1. PICK c, d \in Cmds : c = arrived[i] /\ d = arrived[j]
    BY DEF TypeInv, TypeOK, QueueTypeOK
  <2>2. Arrived(c) /\ Before(c, d)
    BY <2>1 DEF Arrived, Before
  <2>3. QueueOf[c] \in Queues /\ QueueOf[d] = QueueOf[c]
    BY <2>1, <2>2 DEF FifoInv, OnceInv
  <2>4. queues[QueueOf[c]] # Nil /\ In(c, lists[queues[QueueOf[c]]])
    BY <2>1 DEF Waiting, In
  <2> QED
    BY <2>1, <2>2, <2>3, <2>4 DEF FifoInv, FirstInv
<1> QED
  BY <1>1, TypeInvariant, FifoInvariant, PTL
=============================================================================
