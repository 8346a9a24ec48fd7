-------------------------------- MODULE PidTable --------------------------------
(***************************************************************************)
(* How the exit of a child process reaches the runner that waits for it:   *)
(* the pid table of the process manager (Register, WaitPID and             *)
(* processWait in base/pm/pm.go), the goroutines of the system and         *)
(* container processes that use it (base/pm/process/systemprocess.go,      *)
(* containerprocess.go), and, external, the kernel and the runtime that    *)
(* deliver SIGCHLD.                                                        *)
(*                                                                         *)
(* A process stands for its pid: the kernel hands pids out in turn, and a  *)
(* pid that is used again while its old entry is around is not modelled.   *)
(***************************************************************************)
EXTENDS Naturals

CONSTANTS Procs,   \* system processes
          Nil

ASSUME ProcAssumption == Nil \notin Procs

VARIABLES
    child,     \* the kernel's view: "none", "alive", "zombie", "reaped"
    sigchld,   \* SIGCHLD is "pending" in the kernel or the runtime, or "none"
    pids,      \* pm.pids: the processes that have a channel in the table
    mux,       \* the process whose Register holds pidsMux, or Nil
    wait,      \* processWait: its position and the pid that Wait4 returned
    send,      \* the goroutine that passes the status of a process on
    run,       \* the goroutines of each process: Run, then WaitPID
    agent      \* "crashed" once the runtime found a map read during a map write

vars == <<child, sigchld, pids, mux, wait, send, run, agent>>

TypeOK == /\ child \in [Procs -> {"none", "alive", "zombie", "reaped"}]
          /\ sigchld \in {"none", "pending"}
          /\ pids \subseteq Procs
          /\ mux \in Procs \cup {Nil}
          /\ wait \in [pc : {"recv", "wait4", "lookup"}, pid : Procs \cup {Nil}]
          /\ send \in [Procs -> {"none", "send", "delete", "done"}]
          /\ run \in [Procs -> {"idle", "failed", "register", "wait", "recv", "nilchan",
                                "exited"}]
          /\ agent \in {"up", "crashed"}

Receiving == [pc |-> "recv", pid |-> Nil]

Init == /\ child = [p \in Procs |-> "none"]
        /\ sigchld = "none"
        /\ pids = {}
        /\ mux = Nil
        /\ wait = Receiving
        /\ send = [p \in Procs |-> "none"]
        /\ run = [p \in Procs |-> "idle"]
        /\ agent = "up"

-----------------------------------------------------------------------------
(* Run of a system process: Register, then WaitPID in a goroutine.         *)

\* Mutant: the error path of Register does not unlock.
StartFailsLocked(p) ==
    /\ agent = "up"
    /\ run[p] = "idle" /\ mux = Nil
    /\ mux' = p
    /\ run' = [run EXCEPT ![p] = "failed"]
    /\ UNCHANGED <<child, sigchld, pids, wait, send, agent>>

\* Register locks pidsMux and calls cmd.Start, which fails
StartFails(p) ==
    /\ agent = "up"
    /\ run[p] = "idle" /\ mux = Nil
    /\ run' = [run EXCEPT ![p] = "failed"]
    /\ UNCHANGED <<child, sigchld, pids, mux, wait, send, agent>>

\* or makes a child, which runs from then on.
Start(p) ==
    /\ agent = "up"
    /\ run[p] = "idle" /\ mux = Nil
    /\ mux' = p
    /\ child' = [child EXCEPT ![p] = "alive"]
    /\ run' = [run EXCEPT ![p] = "register"]
    /\ UNCHANGED <<sigchld, pids, wait, send, agent>>

\* Register makes the channel and unlocks.
Register(p) ==
    /\ agent = "up"
    /\ run[p] = "register"
    /\ pids' = pids \cup {p}
    /\ mux' = Nil
    /\ run' = [run EXCEPT ![p] = "wait"]
    /\ UNCHANGED <<child, sigchld, wait, send, agent>>

\* WaitPID looks the channel up, without pidsMux; a missing one is nil, and to
\* receive from it is to wait for ever.
WaitPID(p) ==
    /\ agent = "up"
    /\ run[p] = "wait"
    /\ run' = [run EXCEPT ![p] = IF p \in pids THEN "recv" ELSE "nilchan"]
    /\ UNCHANGED <<child, sigchld, pids, mux, wait, send, agent>>

\* The table is written meanwhile, by Register or by a delete.
WaitPIDRace(p) ==
    /\ agent = "up"
    /\ run[p] = "wait"
    /\ mux # Nil \/ \E q \in Procs : send[q] = "delete"
    /\ agent' = "crashed"
    /\ UNCHANGED <<child, sigchld, pids, mux, wait, send, run>>

-----------------------------------------------------------------------------
(* The kernel and the runtime                                              *)

\* A child ends and is a zombie until somebody waits for it.  SIGCHLD is not
\* counted: another one that is pending is the same.
ChildExits(p) ==
    /\ agent = "up"
    /\ child[p] = "alive"
    /\ child' = [child EXCEPT ![p] = "zombie"]
    /\ sigchld' = "pending"
    /\ UNCHANGED <<pids, mux, wait, send, run, agent>>

\* SIGCHLD is also raised when a child is stopped or continued.
ChildStops(p) ==
    /\ agent = "up"
    /\ child[p] = "alive"
    /\ sigchld' = "pending"
    /\ UNCHANGED <<child, pids, mux, wait, send, run, agent>>

\* The runtime offers the signal to the channel of processWait, which has no buffer:
\* the signal is dropped unless processWait is receiving.
SignalDelivered ==
    /\ agent = "up"
    /\ sigchld = "pending"
    /\ sigchld' = "none"
    /\ wait' = IF wait.pc = "recv" THEN [pc |-> "wait4", pid |-> Nil] ELSE wait
    /\ UNCHANGED <<child, pids, mux, send, run, agent>>

-----------------------------------------------------------------------------
(* processWait                                                             *)

Zombies == {p \in Procs : child[p] = "zombie"}

\* syscall.Wait4(-1, WNOHANG) reaps one child.
Wait4(p) ==
    /\ agent = "up"
    /\ wait.pc = "wait4"
    /\ p \in Zombies
    /\ child' = [child EXCEPT ![p] = "reaped"]
    /\ wait' = [pc |-> "lookup", pid |-> p]
    /\ UNCHANGED <<sigchld, pids, mux, send, run, agent>>

\* There is none: Wait4 fails without children, and returns pid 0 otherwise.
Wait4None ==
    /\ agent = "up"
    /\ wait.pc = "wait4"
    /\ Zombies = {}
    /\ wait' = IF \E p \in Procs : child[p] = "alive"
               THEN [pc |-> "lookup", pid |-> Nil] ELSE Receiving
    /\ UNCHANGED <<child, sigchld, pids, mux, send, run, agent>>

\* Mutant: the lookup deletes the entry.
LookupDeletes ==
    /\ agent = "up"
    /\ wait.pc = "lookup"
    /\ mux = Nil
    /\ send' = [p \in Procs |-> IF p = wait.pid /\ p \in pids THEN "send" ELSE send[p]]
    /\ pids' = pids \ {wait.pid}
    /\ wait' = Receiving
    /\ UNCHANGED <<child, sigchld, mux, run, agent>>

\* Under pidsMux, and so not while a Register is under way, the channel is looked
\* up, and a goroutine is started for it.
Lookup ==
    /\ agent = "up"
    /\ wait.pc = "lookup"
    /\ mux = Nil
    /\ send' = [p \in Procs |-> IF p = wait.pid /\ p \in pids THEN "send" ELSE send[p]]
    /\ wait' = Receiving
    /\ UNCHANGED <<child, sigchld, pids, mux, run, agent>>

\* ch <- &status, received by WaitPID, and close(ch).
Handover(p) ==
    /\ agent = "up"
    /\ send[p] = "send" /\ run[p] = "recv"
    /\ send' = [send EXCEPT ![p] = "delete"]
    /\ run' = [run EXCEPT ![p] = "exited"]
    /\ UNCHANGED <<child, sigchld, pids, mux, wait, agent>>

\* delete(pm.pids, pid)
Delete(p) ==
    /\ agent = "up"
    /\ send[p] = "delete" /\ mux = Nil
    /\ pids' = pids \ {p}
    /\ send' = [send EXCEPT ![p] = "done"]
    /\ UNCHANGED <<child, sigchld, mux, wait, run, agent>>

ProcessWaitStep == (\E p \in Procs : Wait4(p)) \/ Wait4None \/ Lookup

RunStep(p) == StartFails(p) \/ Start(p) \/ Register(p) \/ WaitPID(p) \/ WaitPIDRace(p)

SendStep(p) == Handover(p) \/ Delete(p)

Next == \/ SignalDelivered
        \/ ProcessWaitStep
        \/ \E p \in Procs : RunStep(p) \/ ChildExits(p) \/ ChildStops(p) \/ SendStep(p)

Spec == Init /\ [][Next]_vars

\* Goroutines and the runtime go on when they can, and the outputs that a process
\* consumes before it calls WaitPID are closed some day.  No child is obliged to end.
Fairness == /\ WF_vars(SignalDelivered)
            /\ WF_vars(ProcessWaitStep)
            /\ \A p \in Procs : WF_vars(RunStep(p)) /\ WF_vars(SendStep(p))

FairSpec == Spec /\ Fairness

-----------------------------------------------------------------------------
(* Properties                                                              *)

\* WaitPID never ends up on a nil channel, where it would wait for ever: the entry of
\* a process is in the table until WaitPID has received.
ChannelThere == \A p \in Procs : run[p] # "nilchan"

\* The status of a child that was reaped reaches the process that waits for it, even
\* when the child ended and was reaped before its registration was complete ("Avoid
\* reading the process state before the Register call is complete", pm.go:233).
ReapedReported ==
    \A p \in Procs : (child[p] = "reaped") ~> (agent = "crashed" \/ run[p] = "exited")

\* Every entry of the table belongs to a process whose status is still to be passed
\* on: the table does not grow with the number of commands that were run.
NoStaleEntries ==
    \A p \in pids : child[p] # "reaped" \/ wait.pid = p \/ send[p] \in {"send", "delete"}

\* "Process manager monitors the behavior of the subprocess" (coreX/specs/jsagent.md:25):
\* the end of a process is noticed.
ExitNoticed ==
    \A p \in Procs : (child[p] = "zombie") ~> (agent = "crashed" \/ run[p] = "exited")
=============================================================================
