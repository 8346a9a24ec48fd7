----------------------------- MODULE PidTableProofs -----------------------------
(***************************************************************************)
(* Proofs about PidTable, for any number of processes.                     *)
(*                                                                         *)
(* PidInv, the inductive invariant, says for each process where its entry, *)
(* its status and its goroutines are: pidsMux belongs to the process that  *)
(* registers (MuxInv), the entry is in the table from Register until       *)
(* WaitPID has received (EntryInv), and a reaped status is in the hands of *)
(* processWait or of its own goroutine (StatusInv).                        *)
(***************************************************************************)
EXTENDS PidTable, TLAPS

MuxInv == \A p \in Procs : run[p] = "register" <=> mux = p

EntryInv == \A p \in Procs :
    /\ run[p] \in {"wait", "recv"} => p \in pids
    /\ send[p] \in {"delete", "done"} <=> run[p] = "exited"
    /\ p \in pids => run[p] \in {"wait", "recv", "exited"}
    /\ run[p] # "nilchan"
    /\ send[p] = "done" => p \notin pids

StatusInv == \A p \in Procs :
    /\ child[p] = "none" => run[p] \in {"idle", "failed"}
    /\ child[p] # "none" => run[p] \notin {"idle", "failed"}
    /\ wait.pid = p => wait.pc = "lookup" /\ child[p] = "reaped" /\ send[p] = "none"
    /\ send[p] # "none" => child[p] = "reaped"
    /\ child[p] = "reaped" => wait.pid = p \/ send[p] # "none"

PidInv == TypeOK /\ MuxInv /\ EntryInv /\ StatusInv

\* The empty table satisfies the invariant.
LEMMA PidInit == Init => PidInv
  BY ProcAssumption DEF Init, PidInv, TypeOK, MuxInv, EntryInv, StatusInv, Receiving

\* Every step of the processes, of processWait and of the runtime keeps the invariant.
LEMMA PidStep == PidInv /\ [Next]_vars => PidInv'
<1> SUFFICES ASSUME PidInv, [Next]_vars PROVE PidInv'
  OBVIOUS
<1> USE ProcAssumption DEF PidInv, TypeOK, MuxInv, EntryInv, StatusInv, Receiving
<1>1. ASSUME NEW p \in Procs, StartFails(p) PROVE PidInv' BY <1>1 DEF StartFails
<1>2. ASSUME NEW p \in Procs, Start(p) PROVE PidInv' BY <1>2 DEF Start
<1>3. ASSUME NEW p \in Procs, Register(p) PROVE PidInv' BY <1>3 DEF Register
<1>4. ASSUME NEW p \in Procs, WaitPID(p) PROVE PidInv' BY <1>4 DEF WaitPID
<1>5. ASSUME NEW p \in Procs, WaitPIDRace(p) PROVE PidInv' BY <1>5 DEF WaitPIDRace
<1>6. ASSUME NEW p \in Procs, ChildExits(p) \/ ChildStops(p) PROVE PidInv'
  BY <1>6 DEF ChildExits, ChildStops
<1>7. CASE SignalDelivered BY <1>7 DEF SignalDelivered
<1>8. ASSUME NEW p \in Procs, Wait4(p) PROVE PidInv' BY <1>8 DEF Wait4, Zombies
<1>9. CASE Wait4None BY <1>9 DEF Wait4None
<1>10. CASE Lookup
  <2>1. wait.pid # Nil => wait.pid \in pids BY <1>10 DEF Lookup
  <2> QED BY <1>10, <2>1 DEF Lookup
<1>11. ASSUME NEW p \in Procs, Handover(p) PROVE PidInv' BY <1>11 DEF Handover
<1>12. ASSUME NEW p \in Procs, Delete(p) PROVE PidInv' BY <1>12 DEF Delete
<1>13. CASE UNCHANGED vars BY <1>13 DEF vars
<1> QED
  BY <1>1, <1>2, <1>3, <1>4, <1>5, <1>6, <1>7, <1>8, <1>9, <1>10, <1>11, <1>12, <1>13
  DEF Next, ProcessWaitStep, RunStep, SendStep

\* PidInv holds in every reachable state.
THEOREM PidInvariance == Spec => []PidInv
  BY PidInit, PidStep, PTL DEF Spec

\* The variables of the pid table keep their types.
THEOREM PidTypeCorrect == Spec => []TypeOK
  BY PidInvariance, PTL DEF PidInv

\* WaitPID always finds the channel of its process (pm.go:264-266).
THEOREM ChannelFound == Spec => []ChannelThere
<1>1. PidInv => ChannelThere BY DEF PidInv, EntryInv, ChannelThere
<1> QED BY <1>1, PidInvariance, PTL

\* The table holds no entry of a process whose status was passed on (pm.go:238-245).
THEOREM EntriesRemoved == Spec => []NoStaleEntries
<1>1. PidInv => NoStaleEntries BY DEF PidInv, TypeOK, EntryInv, StatusInv, NoStaleEntries
<1> QED BY <1>1, PidInvariance, PTL
=============================================================================
