--------------------------------- MODULE Network ---------------------------------
(***************************************************************************)
(* Setting up the network while the machine boots: setupNetworking         *)
(* (core0/bootstrap/bootstrap.go) over the interfaces of the network       *)
(* manager and its protocols (core0/network).  It is called again every    *)
(* two seconds until it succeeds.                                          *)
(*                                                                         *)
(* An interface is seen as the addresses it has: none, the one of its      *)
(* static configuration, a lease.  Whether the internet can be reached     *)
(* depends on them and on what is at the other end of the cables, which    *)
(* may change once while the network is set up.                            *)
(***************************************************************************)
EXTENDS Naturals, FiniteSets

CONSTANTS
    Interfaces,    \* the interfaces of the configuration, and those found by "auto"
    Lo,            \* the loopback interface
    NetConfigs     \* the configurations and surroundings to start from

\* What is configured for an interface: a protocol, and for "static" the section with its
\* address, which may be missing, not be an address, or have a gateway that is not one or
\* cannot be added.
InterfaceConfigs == {"dhcp", "none", "unknown", "static", "missing", "noaddress", "nogateway"}

\* file: no file is configured, it cannot be read, or it is read; infs: the interfaces;
\* later: the addresses through which the internet can be reached, in the end; leases: the
\* interfaces where a lease is offered whether it leads anywhere or not.
ASSUME NetAssumption ==
    NetConfigs \subseteq [file : {"none", "unreadable", "read"},
                          infs : [Interfaces -> InterfaceConfigs],
                          later : SUBSET (Interfaces \X {"static", "lease"}),
                          leases : SUBSET Interfaces]

VARIABLES
    netConfig,   \* the configuration and the surroundings
    reaches,     \* the addresses through which the internet can be reached now
    net,         \* setupNetworking: where it is, and the interface it is at
    todo,        \* the interfaces its loop has yet to visit
    addrs,       \* for each interface: its addresses
    udhcpc       \* the runner of the last udhcpc: "filed" in the table, or "none"

netVars == <<netConfig, reaches, net, todo, addrs, udhcpc>>

NetTypeOK ==
    /\ netConfig \in NetConfigs
    /\ reaches \in {{}, netConfig.later}
    /\ net \in [pc : {"start", "configure", "test", "force", "retest", "ready", "crashed"},
                inf : SUBSET Interfaces]
    /\ todo \subseteq Interfaces
    /\ addrs \in [Interfaces -> SUBSET {"static", "lease"}]
    /\ udhcpc \in {"filed", "none"}

NetInit ==
    /\ netConfig \in NetConfigs
    /\ reaches = {}
    /\ net = [pc |-> "start", inf |-> {}]
    /\ todo = {}
    /\ addrs = [i \in Interfaces |-> {}]
    /\ udhcpc = "none"

Config(i) == netConfig.infs[i]

At(pc) == net.pc = pc

Goto(pc, infs) == net' = [pc |-> pc, inf |-> infs]

\* Something at the other end changes.
ReachChanges ==
    /\ ~At("ready")
    /\ reaches' = netConfig.later
    /\ UNCHANGED <<netConfig, net, todo, addrs, udhcpc>>

\* The answer of canReachInternet.  The request has no time limit, so it may be long in
\* coming: the steps that test are not bound to be taken.
CanReach == \E i \in Interfaces, a \in {"static", "lease"} : a \in addrs[i] /\ <<i, a>> \in reaches

-----------------------------------------------------------------------------
(* Protocols                                                               *)

\* udhcpc gets a lease where one is offered; else it is killed after 5 seconds.
\* Its command has no id, so RunCmd refuses it as a duplicate while the runner of the last
\* one, for which Wait has returned, has yet to clean up.
Lease(i) ==
    IF udhcpc = "none" /\ (i \in netConfig.leases \/ <<i, "lease">> \in reaches) THEN {"lease"} ELSE {}

\* cleanUp of that runner.
DhcpCleanUp ==
    /\ udhcpc = "filed"
    /\ udhcpc' = "none"
    /\ UNCHANGED <<netConfig, reaches, net, todo, addrs>>

\* The addresses an interface that was cleared has after its protocol configured it.
\* DeviceUp gives it none, an unknown protocol and a missing section are errors, and a
\* gateway that cannot be set is one after the address was added.
Configured(i) ==
    CASE Config(i) = "dhcp" -> Lease(i)
      [] Config(i) \in {"static", "nogateway"} -> {"static"}
      [] OTHER -> {}

\* The error of ParseIPNet is not looked at, and its nil result is used.
Panics(i) == Config(i) = "noaddress"

-----------------------------------------------------------------------------
(* setupNetworking                                                         *)

\* Without a file there is nothing to set up; a file that cannot be read is an error.
\* Errors of tap devices are only logged.
LoadNetwork ==
    /\ At("start") /\ netConfig.file # "unreadable"
    /\ IF netConfig.file = "none" THEN Goto("ready", {}) /\ UNCHANGED todo
       ELSE Goto("configure", {}) /\ todo' = Interfaces
    /\ UNCHANGED <<netConfig, reaches, addrs, udhcpc>>

\* Clear and Configure of the next interface; an error is logged.
ConfigureInterface(i) ==
    /\ At("configure") /\ i \in todo
    /\ todo' = todo \ {i}
    /\ IF Panics(i) THEN Goto("crashed", {}) ELSE UNCHANGED net
    /\ addrs' = [addrs EXCEPT ![i] = Configured(i)]
    /\ udhcpc' = IF Config(i) = "dhcp" THEN "filed" ELSE udhcpc
    /\ UNCHANGED <<netConfig, reaches>>

\* The interfaces on which dhcp is forced.
Forced == {i \in Interfaces \ {Lo} : Config(i) \notin {"none", "dhcp"}}

TestInternet ==
    /\ At("configure") /\ todo = {}
    /\ IF CanReach THEN Goto("ready", {}) /\ UNCHANGED todo
       ELSE Goto("force", {}) /\ todo' = Forced
    /\ UNCHANGED <<netConfig, reaches, addrs, udhcpc>>

\* Clear and dhcp.Configure.
ForceDhcp(i) ==
    /\ At("force") /\ i \in todo
    /\ todo' = todo \ {i}
    /\ addrs' = [addrs EXCEPT ![i] = Lease(i)]
    /\ udhcpc' = "filed"
    /\ Goto("retest", {i})
    /\ UNCHANGED <<netConfig, reaches>>

\* Mutant: the lease stays.
RetestUncleared(i) ==
    /\ At("retest") /\ net.inf = {i}
    /\ IF CanReach THEN Goto("ready", {}) /\ UNCHANGED addrs
       ELSE /\ Goto(IF Panics(i) THEN "crashed" ELSE "force", {})
            /\ addrs' = [addrs EXCEPT ![i] = @ \cup Configured(i)]
    /\ UNCHANGED <<netConfig, reaches, todo, udhcpc>>

\* Still no internet: Clear, and Configure as before.
Retest(i) ==
    /\ At("retest") /\ net.inf = {i}
    /\ IF CanReach THEN Goto("ready", {}) /\ UNCHANGED addrs
       ELSE /\ Goto(IF Panics(i) THEN "crashed" ELSE "force", {})
            /\ addrs' = [addrs EXCEPT ![i] = Configured(i)]
    /\ UNCHANGED <<netConfig, reaches, todo, udhcpc>>

\* "couldn't reach internet": the next try comes in two seconds, whether the last udhcpc has
\* been cleaned up by then or not.
Retry ==
    /\ At("force") /\ todo = {}
    /\ Goto("start", {})
    /\ UNCHANGED <<netConfig, reaches, todo, addrs, udhcpc>>

SetupNetworking ==
    \/ LoadNetwork \/ TestInternet \/ Retry
    \/ \E i \in Interfaces : ConfigureInterface(i) \/ ForceDhcp(i) \/ Retest(i)

-----------------------------------------------------------------------------
(* Properties                                                              *)

\* An interface has what its configuration gives it, for dhcp if there was a lease.
AsConfigured(i) ==
    \/ addrs[i] = Configured(i)
    \/ Config(i) = "dhcp" /\ addrs[i] \subseteq {"lease"}

\* Between two tries every interface is as configured again.  When the network is ready
\* the internet is reached, and at most one interface is not as configured: dhcp was forced
\* on it, so it has a lease, or nothing at all if the internet came back elsewhere.  The
\* loopback interface is never the one, and no interface has two addresses.
NetworkRestored ==
    LET odd == {i \in Interfaces : ~AsConfigured(i)} IN
    /\ (At("force") /\ todo = {}) => odd = {}
    /\ (At("ready") /\ netConfig.file = "read") =>
        /\ CanReach
        /\ odd \subseteq Interfaces \ {Lo} /\ Cardinality(odd) <= 1
        /\ \A i \in odd : addrs[i] \subseteq {"lease"}
=============================================================================
