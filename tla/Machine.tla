---------------------------------- MODULE Machine ----------------------------------
(***************************************************************************)
(* A machine that boots (core0/bootstrap/bootstrap.go): Boot, whose second *)
(* slice waits for Network.  Network is set up by the goroutine of         *)
(* Bootstrap, while the services of the first slice go on.  A panic there  *)
(* ends core0, and with it everything.                                     *)
(***************************************************************************)
EXTENDS Boot, Network

CONSTANT Machines    \* the pairs of a service and a network configuration

ASSUME MachinesAssumption == Machines \subseteq Configs \X NetConfigs

machineVars == <<vars, netVars>>

MachineInit ==
    /\ \E m \in Machines : config = m[1] /\ netConfig = m[2]
    /\ Init /\ NetInit

\* The goroutine of Bootstrap starts the slices, and between the first two of them it
\* calls setupNetworking until there is no error.
BootstrapStep ==
    \/ (RunSlice \/ WaitAll) /\ UNCHANGED netVars
    \/ main.pc = "network" /\ SetupNetworking /\ UNCHANGED vars
    \/ At("ready") /\ NetworkReady /\ UNCHANGED netVars

ServiceStep(s) == (GoroutineStep(s) \/ RunnerStep(s) \/ HookFires(s)) /\ UNCHANGED netVars

MachineNext ==
    \/ ~At("crashed") /\ (BootstrapStep \/ \E s \in Services : ServiceStep(s))
    \/ ~At("crashed") /\ DhcpCleanUp /\ UNCHANGED vars
    \/ ReachChanges /\ UNCHANGED vars

\* setupNetworking has begun a try and not yet returned from it.
Trying == main.pc = "network" /\ net.pc \in {"configure", "force", "retest"}

\* Goroutines go on when they can.  Nothing is owed by what they wait for: the services, what
\* answers at the other end of the cables, udhcpc, and the test of the internet.
MachineFairness ==
    /\ WF_machineVars(~Trying /\ BootstrapStep)
    /\ \A s \in Services : /\ WF_machineVars(GoroutineStep(s) /\ UNCHANGED netVars)
                           /\ WF_machineVars(HookFires(s) /\ UNCHANGED netVars)

MachineSpec == MachineInit /\ [][MachineNext]_machineVars /\ MachineFairness

-----------------------------------------------------------------------------
(* Properties                                                              *)

\* Some address that setupNetworking tries reaches the internet: one that is configured,
\* a lease on an interface that asks for one, or on one where it is forced.
WayOut ==
    \/ netConfig.file = "none"
    \/ /\ netConfig.file = "read"
       /\ \E i \in Interfaces :
            \/ <<i, "static">> \in netConfig.later /\ Config(i) \in {"static", "nogateway"}
            \/ <<i, "lease">> \in netConfig.later /\ (Config(i) = "dhcp" \/ i \in Forced)

\* What the boot needs of others.  Every service that was started is reported running, or
\* ends; each try of setupNetworking returns, so udhcpc ends when its time is up and
\* http.Get answers; what is at the other end of the cables comes up; and from then on, or
\* some time later, the runner of each udhcpc is cleaned up before the next one is wanted.
ServicesReport == []<>(\A s \in Services : job[s] = "running" => chan[s] = "closed")

TriesReturn == []<>~Trying

WayOpens == <>(reaches = netConfig.later)

Udhcpc(i) == ForceDhcp(i) \/ (Config(i) = "dhcp" /\ ConfigureInterface(i))

CleanedUpInTime == <>[][\A i \in Interfaces : Udhcpc(i) => udhcpc = "none"]_machineVars

\* Given that, the machine boots, whichever services fail and whatever is configured for
\* interfaces, if there is a way out to the internet: "a broken service MUST NOT bring the
\* whole system down" (tree.go:69).  Two things do, a service whose command RunCmd refuses
\* and a static address that is not one, and they are excepted here.
BootEnds ==
    WayOut /\ ServicesReport /\ TriesReturn /\ WayOpens /\ CleanedUpInTime
      => <>(\/ main.pc = "done"
            \/ At("crashed") /\ \E i \in Interfaces : Panics(i)
            \/ \E s \in Services : job[s] = "refused")
=============================================================================
