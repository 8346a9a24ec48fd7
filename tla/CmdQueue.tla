------------------------------- MODULE CmdQueue -------------------------------
(***************************************************************************)
(* cmdQueueManager (base/pm/queue.go): the serial command queues of the    *)
(* process manager.  Two goroutines share a map from queue names to lists: *)
(* dispatcherLoop files incoming commands, producerLoop hands out the      *)
(* front of a queue each time the queue is signalled.  The three channels  *)
(* (consumer, signal, producer) are unbuffered, so an exchange over one of *)
(* them is a single step of two goroutines; the operators below are the    *)
(* queue manager's half of it, ProcessManager supplies the other half.     *)
(*                                                                         *)
(* A command is one arrival: two commands may carry the same job id, but   *)
(* each is received once.  A list is named by the command whose arrival    *)
(* created it.  The lock is held only while the map is consulted, so each  *)
(* locked section is one step; PushBack and Remove are made outside it,    *)
(* are steps of their own, and race with each other.                       *)
(***************************************************************************)
EXTENDS Naturals, Sequences

CONSTANTS
    Cmds,      \* commands (core.Command values)
    Queues,    \* queue names
    NoQueue,   \* the empty queue name
    QueueOf,   \* the Queue field of every command
    Nil        \* a nil pointer, an absent map entry

ASSUME CmdAssumption == Nil \notin Cmds

ASSUME QueueAssumption == /\ NoQueue \notin Queues
                          /\ QueueOf \in [Cmds -> Queues \cup {NoQueue}]

VARIABLES
    queues,    \* mgr.queues: the list filed under each name, Nil when absent
    lists,     \* every list ever created: its linked elements and its len field
    disp,      \* dispatcherLoop: its position and local variables
    prod,      \* producerLoop: its position and local variables
    arrived,   \* history: the queued commands, in the order they were received
    agent      \* "crashed" once a goroutine panicked, which ends the agent

queueVars == <<queues, lists, disp, prod, arrived, agent>>

List == [items : Seq(Cmds \cup {Nil}), len : Nat]

DispatcherState == [pc    : {"recv", "lookup", "push", "pushFirst", "signal"},
                    cmd   : Cmds \cup {Nil},
                    list  : Cmds \cup {Nil}]

ProducerState == [pc    : {"recv", "lookup", "remove", "send"},
                  queue : Queues \cup {NoQueue},
                  list  : Cmds \cup {Nil},
                  cmd   : Cmds \cup {Nil}]

DispatcherIdle == [pc |-> "recv", cmd |-> Nil, list |-> Nil]
ProducerIdle   == [pc |-> "recv", queue |-> NoQueue, list |-> Nil, cmd |-> Nil]
EmptyList      == [items |-> <<>>, len |-> 0]

QueueInit == /\ queues = [q \in Queues |-> Nil]
             /\ lists = [c \in Cmds |-> EmptyList]
             /\ disp = DispatcherIdle
             /\ prod = ProducerIdle
             /\ arrived = <<>>
             /\ agent = "up"

QueueTypeOK == /\ queues \in [Queues -> Cmds \cup {Nil}]
               /\ lists \in [Cmds -> List]
               /\ disp \in DispatcherState
               /\ prod \in ProducerState
               /\ arrived \in Seq(Cmds)
               /\ agent \in {"up", "crashed"}

-----------------------------------------------------------------------------
(* dispatcherLoop                                                          *)

\* cmd := <-mgr.consumer: a command without a queue is logged and forgotten.
DispatcherRecv(c) ==
    /\ disp.pc = "recv"
    /\ IF QueueOf[c] = NoQueue
       THEN UNCHANGED <<disp, arrived>>
       ELSE /\ disp' = [pc |-> "lookup", cmd |-> c, list |-> Nil]
            /\ arrived' = Append(arrived, c)
    /\ UNCHANGED <<queues, lists, prod, agent>>

\* Under the lock: find the list of the command's queue, or file a new one.
DispatcherLookup ==
    LET q == QueueOf[disp.cmd] IN
    /\ agent = "up"
    /\ disp.pc = "lookup"
    /\ \/ /\ queues[q] # Nil
          /\ disp' = [pc |-> "push", cmd |-> disp.cmd, list |-> queues[q]]
          /\ UNCHANGED queues
       \/ /\ queues[q] = Nil
          /\ disp' = [pc |-> "pushFirst", cmd |-> disp.cmd, list |-> disp.cmd]
          /\ queues' = [queues EXCEPT ![q] = disp.cmd]
    /\ UNCHANGED <<lists, prod, arrived, agent>>

\* PushBack is next, on a list that was found or (!ok) on one that was created.
Pushing == disp.pc \in {"push", "pushFirst"}

\* Mutant: every command signals its queue, not only the one that created it.
AfterPushAlwaysSignals == [disp EXCEPT !.pc = "signal"]

\* Where dispatcherLoop goes once PushBack is over.
AfterPush == IF disp.pc = "pushFirst" THEN [disp EXCEPT !.pc = "signal"] ELSE DispatcherIdle

\* Mutant: PushFront instead of PushBack.
DispatcherPushFront ==
    /\ agent = "up"
    /\ Pushing
    /\ lists' = [lists EXCEPT ![disp.list] =
                    [items |-> <<disp.cmd>> \o @.items, len |-> @.len + 1]]
    /\ disp' = AfterPush
    /\ UNCHANGED <<queues, prod, arrived, agent>>

\* queue.PushBack(cmd), not under the lock: the list found by the lookup may
\* have been dropped from the map since.
DispatcherPush ==
    /\ agent = "up"
    /\ Pushing
    /\ lists' = [lists EXCEPT ![disp.list] =
                    [items |-> Append(@.items, disp.cmd), len |-> @.len + 1]]
    /\ disp' = AfterPush
    /\ UNCHANGED <<queues, prod, arrived, agent>>

\* The receiving half of mgr.signal <- q.
ProducerRecv(q) ==
    /\ prod.pc = "recv"
    /\ prod' = [pc |-> "lookup", queue |-> q, list |-> Nil, cmd |-> Nil]

\* mgr.signal <- cmd.Queue, for a list that was just created.
DispatcherSignal ==
    /\ agent = "up"
    /\ disp.pc = "signal"
    /\ ProducerRecv(QueueOf[disp.cmd])
    /\ disp' = DispatcherIdle
    /\ UNCHANGED <<queues, lists, arrived, agent>>

-----------------------------------------------------------------------------
(* producerLoop                                                            *)

\* Under the lock: ignore an unknown queue, drop an empty one, or go on to
\* take the front of the list.
ProducerLookup ==
    LET q == prod.queue IN
    /\ agent = "up"
    /\ prod.pc = "lookup"
    /\ \/ /\ queues[q] = Nil
          /\ prod' = ProducerIdle
          /\ UNCHANGED queues
       \/ /\ queues[q] # Nil
          /\ lists[queues[q]].len = 0
          /\ prod' = ProducerIdle
          /\ queues' = [queues EXCEPT ![q] = Nil]
       \/ /\ queues[q] # Nil
          /\ lists[queues[q]].len # 0
          /\ prod' = [prod EXCEPT !.pc = "remove", !.list = queues[q]]
          /\ UNCHANGED queues
    /\ UNCHANGED <<lists, disp, arrived, agent>>

\* The front of a list is a command.  When it is the root of the list instead
\* (its element was unlinked although len counts it), its Value is nil.
HasFront(list) == list.items # <<>> /\ Head(list.items) # Nil

Taken(c) == [prod EXCEPT !.pc = "send", !.cmd = c]

\* next := queue.Remove(queue.Front()).(*core.Command), not under the lock; the
\* type assertion panics on the root's nil Value.
ProducerRemove ==
    LET list == lists[prod.list] IN
    /\ agent = "up"
    /\ prod.pc = "remove"
    /\ \/ /\ HasFront(list)
          /\ lists' = [lists EXCEPT ![prod.list] =
                          [items |-> Tail(@.items), len |-> @.len - 1]]
          /\ prod' = Taken(Head(list.items))
          /\ UNCHANGED agent
       \/ /\ ~HasFront(list)
          /\ agent' = "crashed"
          /\ UNCHANGED <<lists, prod>>
    /\ UNCHANGED <<queues, disp, arrived>>

\* PushBack and Remove at the same time on the same list.  The updates of len
\* are unsynchronised, so either may overwrite the other.  With two or more
\* elements the two calls write different links; with one, PushBack links the
\* new element behind the one that Remove unlinks, and it stays reachable, is
\* lost, is reachable only from the back (Nil stands for the root that then is
\* the front), or PushBack follows a nil link.
RacingPushRemove ==
    LET list == lists[prod.list] IN
    /\ agent = "up"
    /\ Pushing /\ prod.pc = "remove" /\ disp.list = prod.list
    /\ HasFront(list)
    /\ \/ /\ \E n \in (list.len - 1) .. (list.len + 1) :
             \E rest \in IF Len(list.items) > 1
                         THEN {Append(Tail(list.items), disp.cmd)}
                         ELSE {<<disp.cmd>>, <<>>, <<Nil>>} :
                lists' = [lists EXCEPT ![prod.list] = [items |-> rest, len |-> n]]
          /\ disp' = AfterPush
          /\ prod' = Taken(Head(list.items))
          /\ UNCHANGED agent
       \/ /\ Len(list.items) = 1
          /\ agent' = "crashed"
          /\ UNCHANGED <<lists, disp, prod>>
    /\ UNCHANGED <<queues, arrived>>

\* mgr.producer <- next, the sending half.
ProducerSend ==
    /\ prod.pc = "send"
    /\ prod' = ProducerIdle
    /\ UNCHANGED <<queues, lists, disp, arrived, agent>>

\* The step the two loops take on their own.
QueueStep == \/ DispatcherLookup
             \/ DispatcherPush
             \/ DispatcherSignal
             \/ ProducerLookup
             \/ ProducerRemove
             \/ RacingPushRemove
=============================================================================
