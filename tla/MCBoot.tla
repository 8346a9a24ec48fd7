--------------------------------- MODULE MCBoot ---------------------------------
(***************************************************************************)
(* A machine that boots: every configuration of a few services with short  *)
(* After lists where no network is configured, and every configuration of  *)
(* two interfaces besides the loopback where the services are simple.  And *)
(* three commands on bridges, which share nothing with the boot and are    *)
(* explored for themselves.                                                *)
(***************************************************************************)
EXTENDS Machine, Bridges

VARIABLE part   \* whether the boot or the bridges are explored

\* No dependency at all, a keyword, or one service.
ShortLists == {<<>>, <<"init">>, <<"net">>} \cup {<<d>> : d \in Services}

\* A keyword and a service, or two services.
LongLists == {<<"net", "x">>, <<"x", "y">>, <<"x", "z">>}

\* Services that report that they run and services that are awaited to the end, as the
\* second always is, and none that RunCmd refuses.  The last may have a long list, in which
\* it may name itself.
SoundConfigs ==
    {c \in [Services -> [after : ShortLists \cup LongLists, hooked : {"yes", "no"}, accepted : {"yes"}]] :
        /\ c["x"].after \in ShortLists /\ c["y"].after \in ShortLists /\ c["y"].hooked = "no"
        /\ \A s \in Services : c[s].after # <<s>>}

\* One service in each slice, the last of which may be refused.
SimpleConfigs ==
    {c \in [Services -> [after : {<<"init">>, <<"net">>, <<"boot">>}, hooked : {"no"}, accepted : {"yes", "no"}]] :
        /\ c["x"].after = <<"init">> /\ c["y"].after = <<"net">> /\ c["z"].after = <<"boot">>
        /\ c["x"].accepted = "yes" /\ c["y"].accepted = "yes"}

MCConfigs == SoundConfigs \cup SimpleConfigs

NoNetwork == [file |-> "none", infs |-> [i \in Interfaces |-> "dhcp"], later |-> {}, leases |-> {}]

Unreadable == [NoNetwork EXCEPT !.file = "unreadable"]

\* At most one address reaches the internet.  The two interfaces are interchangeable, so it
\* is one of the first; the second may offer a lease that leads nowhere.
SomeNetworks ==
    {[file |-> "read", infs |-> c, later |-> l, leases |-> o] :
        c \in {d \in [Interfaces -> InterfaceConfigs] :
                d[Lo] = "static" /\ d["eth1"] \in {"dhcp", "static", "noaddress"}},
        l \in {{}, {<<"eth0", "static">>}, {<<"eth0", "lease">>}},
        o \in {{}, {"eth1"}}}

MCNetConfigs == {NoNetwork, Unreadable} \cup SomeNetworks

MCMachines == (SoundConfigs \X {NoNetwork}) \cup (SimpleConfigs \X MCNetConfigs)

Create(n, mode, nat) == [op |-> "create", name |-> n, mode |-> mode, nat |-> nat]

Delete(n) == [op |-> "delete", name |-> n]

BridgeOps == <<Create("br", "none", "no"), Create("br", "bad", "no"), Create("br", "net", "accepted"),
               Create("br", "net", "refused"), Delete("br"), Delete("eth0")>>

\* The commands are interchangeable.
MCBridgeScenarios ==
    {[o1 |-> BridgeOps[i], o2 |-> BridgeOps[j], o3 |-> BridgeOps[k]] :
        <<i, j, k>> \in {t \in (1 .. 6) \X (1 .. 6) \X (1 .. 6) : t[1] <= t[2] /\ t[2] <= t[3]}}

MCInit ==
    \/ part = "boot" /\ MachineInit
       /\ ops = [o \in Ops |-> Delete("br")] /\ BridgesInit
    \/ part = "bridges" /\ BridgesInit
       /\ config = [s \in Services |-> [after |-> <<>>, hooked |-> "no", accepted |-> "yes"]]
       /\ netConfig = NoNetwork /\ Init /\ NetInit

MCNext ==
    \/ part = "boot" /\ MachineNext /\ UNCHANGED <<bridgeVars, part>>
    \/ part = "bridges" /\ BridgesNext /\ UNCHANGED <<machineVars, part>>

MCSpec == MCInit /\ [][MCNext]_<<machineVars, bridgeVars, part>> /\ MachineFairness
=============================================================================
