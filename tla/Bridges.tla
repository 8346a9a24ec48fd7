---------------------------------- MODULE Bridges ----------------------------------
(***************************************************************************)
(* The commands bridge.create and bridge.delete (core0/builtin/bridge.go). *)
(* Each runs in a goroutine of its own, so they interleave.  A bridge is a *)
(* link of the kernel with a name and an index; a bridge with a network    *)
(* has a dnsmasq, which runs as a job under the id dnsmasq-<name>.         *)
(*                                                                         *)
(* A command keeps the index of the link it added or found.  The runner of *)
(* a dnsmasq is named by the command that started it.                      *)
(***************************************************************************)
EXTENDS Naturals, FiniteSets

CONSTANTS
    Names,           \* names of links
    Devices,         \* those that are links but no bridges
    Ops,             \* the commands
    NoOp,            \* in place of a command: none
    BridgeScenarios  \* what each command asks for

\* mode: no network, a network (static or dnsmasq), or settings that are no good.
\* nat: not asked for, or asked for and RunCmd accepts or refuses its script.
OpTypes == [op : {"create"}, name : Names, mode : {"none", "net", "bad"},
            nat : {"no", "accepted", "refused"}]
             \cup [op : {"delete"}, name : Names]

ASSUME BridgesAssumption ==
    /\ Devices \subseteq Names /\ NoOp \notin Ops
    /\ BridgeScenarios \subseteq [Ops -> OpTypes]

VARIABLES
    ops,       \* what each command asks for
    bpc,       \* where each command is
    found,     \* the index of the link it added or found, 0 for none
    target,    \* the runner it is about to kill
    link,      \* the links: for each name an index, 0 for none
    lastIndex, \* the index given last
    filed,     \* the runner filed under dnsmasq-<name>
    live,      \* the runners whose dnsmasq runs
    exited,    \* history: those whose dnsmasq ended without being killed
    overlap,   \* history: the names on which two commands were at work at once
    notUp,     \* history: the commands for which LinkSetUp failed
    undeleted  \* history: the indices for which LinkDel failed

bridgeVars == <<ops, bpc, found, target, link, lastIndex, filed, live, exited, overlap, notUp, undeleted>>

Runners == Ops \cup {NoOp}

BridgesTypeOK ==
    /\ ops \in BridgeScenarios
    /\ bpc \in [Ops -> {"start", "up", "net", "dns", "nat", "undo", "kill", "send", "del", "ok", "err"}]
    /\ found \in [Ops -> 0 .. lastIndex] /\ link \in [Names -> 0 .. lastIndex]
    /\ target \in [Ops -> Runners] /\ filed \in [Names -> Runners]
    /\ live \subseteq Ops /\ exited \subseteq Ops /\ notUp \subseteq Ops
    /\ overlap \subseteq Names /\ undeleted \subseteq 0 .. lastIndex

BridgesInit ==
    /\ ops \in BridgeScenarios
    /\ bpc = [o \in Ops |-> "start"]
    /\ found = [o \in Ops |-> 0] /\ target = [o \in Ops |-> NoOp]
    /\ link = [n \in Names |-> IF n \in Devices THEN 1 ELSE 0] /\ lastIndex = 1
    /\ filed = [n \in Names |-> NoOp]
    /\ live = {} /\ exited = {} /\ overlap = {} /\ notUp = {} /\ undeleted = {}

Name(o) == ops[o].name

Busy(o) == bpc[o] \notin {"start", "ok", "err"}

OpAt(o, pc) == bpc[o] = pc

OpGoto(o, pc) == bpc' = [bpc EXCEPT ![o] = pc]

\* The link a command added or found is still there.
There(o) == found[o] # 0 /\ \E n \in Names : link[n] = found[o]

\* A command starts while another is at work on its name.
Overlaps(o) ==
    overlap' = IF \E p \in Ops \ {o} : Busy(p) /\ Name(p) = Name(o)
               THEN overlap \cup {Name(o)} ELSE overlap

\* LinkDel deletes by index.  It fails when the link is gone, or the kernel refuses.
LinkDel(o) ==
    /\ There(o)
    /\ link' = [n \in Names |-> IF link[n] = found[o] THEN 0 ELSE link[n]]
    /\ UNCHANGED undeleted

LinkDelFails(o) == undeleted' = undeleted \cup {found[o]} /\ UNCHANGED link

-----------------------------------------------------------------------------
(* bridge.create                                                           *)

LinkAdd(o) ==
    /\ OpAt(o, "start") /\ ops[o].op = "create"
    /\ Overlaps(o)
    /\ IF link[Name(o)] # 0 THEN OpGoto(o, "err") /\ UNCHANGED <<link, lastIndex, found>>
       ELSE /\ lastIndex' = lastIndex + 1
            /\ link' = [link EXCEPT ![Name(o)] = lastIndex + 1]
            /\ found' = [found EXCEPT ![o] = lastIndex + 1]
            /\ OpGoto(o, "up")
    /\ UNCHANGED <<ops, target, filed, live, exited, notUp, undeleted>>

\* LinkSetUp fails when the link is gone, or the kernel refuses: create returns.
LinkSetUp(o) ==
    /\ OpAt(o, "up")
    /\ \/ There(o) /\ OpGoto(o, "net") /\ UNCHANGED notUp
       \/ OpGoto(o, "err") /\ notUp' = notUp \cup {o}
    /\ UNCHANGED <<ops, found, target, link, lastIndex, filed, live, exited, overlap, undeleted>>

\* bridgeNetworking up to AddrAdd.
Networking(o) ==
    /\ OpAt(o, "net")
    /\ OpGoto(o, CASE ops[o].mode = "none" -> "ok"
                   [] ops[o].mode = "net" /\ There(o) -> "dns"
                   [] OTHER -> "undo")
    /\ UNCHANGED <<ops, found, target, link, lastIndex, filed, live, exited, overlap, notUp, undeleted>>

\* RunCmd of dnsmasq, refused while a runner is filed under its id.
StartDnsmasq(o) ==
    /\ OpAt(o, "dns")
    /\ IF filed[Name(o)] # NoOp THEN OpGoto(o, "undo") /\ UNCHANGED <<filed, live>>
       ELSE /\ filed' = [filed EXCEPT ![Name(o)] = o]
            /\ live' = live \cup {o}
            /\ OpGoto(o, IF ops[o].nat = "no" THEN "ok" ELSE "nat")
    /\ UNCHANGED <<ops, found, target, link, lastIndex, exited, overlap, notUp, undeleted>>

\* RunCmd of the script for nat.
RunNat(o) ==
    /\ OpAt(o, "nat")
    /\ OpGoto(o, IF ops[o].nat = "accepted" THEN "ok" ELSE "undo")
    /\ UNCHANGED <<ops, found, target, link, lastIndex, filed, live, exited, overlap, notUp, undeleted>>

\* bridgeNetworking failed: the link is deleted, and nobody looks at the error.
Undo(o) ==
    /\ OpAt(o, "undo")
    /\ LinkDel(o) \/ LinkDelFails(o)
    /\ OpGoto(o, "err")
    /\ UNCHANGED <<ops, found, target, lastIndex, filed, live, exited, overlap, notUp>>

-----------------------------------------------------------------------------
(* bridge.delete                                                           *)

LinkByName(o) ==
    /\ OpAt(o, "start") /\ ops[o].op = "delete"
    /\ Overlaps(o)
    /\ found' = [found EXCEPT ![o] = link[Name(o)]]
    /\ OpGoto(o, IF link[Name(o)] = 0 \/ Name(o) \in Devices THEN "err" ELSE "kill")
    /\ UNCHANGED <<ops, target, link, lastIndex, filed, live, exited, notUp, undeleted>>

\* Kill looks up the runner of dnsmasq.
KillLookup(o) ==
    /\ OpAt(o, "kill")
    /\ target' = [target EXCEPT ![o] = filed[Name(o)]]
    /\ OpGoto(o, IF filed[Name(o)] = NoOp THEN "del" ELSE "send")
    /\ UNCHANGED <<ops, found, link, lastIndex, filed, live, exited, overlap, notUp, undeleted>>

\* Mutant: dnsmasq is not killed.
KillSendNot(o) ==
    /\ OpAt(o, "send")
    /\ OpGoto(o, "del")
    /\ UNCHANGED <<ops, found, target, link, lastIndex, filed, live, exited, overlap, notUp, undeleted>>

\* The runner takes the kill; one that no longer listens keeps the command waiting.
KillSend(o) ==
    /\ OpAt(o, "send") /\ target[o] \in live
    /\ live' = live \ {target[o]}
    /\ OpGoto(o, "del")
    /\ UNCHANGED <<ops, found, target, link, lastIndex, filed, exited, overlap, notUp, undeleted>>

\* The dnsmasq is gone by now, also if the link stays.
DeleteLink(o) ==
    /\ OpAt(o, "del")
    /\ \/ LinkDel(o) /\ OpGoto(o, "ok")
       \/ LinkDelFails(o) /\ OpGoto(o, "err")
    /\ UNCHANGED <<ops, found, target, lastIndex, filed, live, exited, overlap, notUp>>

-----------------------------------------------------------------------------
(* dnsmasq and its runner                                                  *)

DnsmasqExits(o) ==
    /\ o \in live
    /\ live' = live \ {o}
    /\ exited' = exited \cup {o}
    /\ UNCHANGED <<ops, bpc, found, target, link, lastIndex, filed, overlap, notUp, undeleted>>

\* cleanUp takes the runner out of the table.
RunnerCleanUp(n) ==
    /\ filed[n] # NoOp /\ filed[n] \notin live
    /\ filed' = [filed EXCEPT ![n] = NoOp]
    /\ UNCHANGED <<ops, bpc, found, target, link, lastIndex, live, exited, overlap, notUp, undeleted>>

BridgesNext ==
    \/ \E o \in Ops : \/ LinkAdd(o) \/ LinkSetUp(o) \/ Networking(o) \/ StartDnsmasq(o)
                      \/ RunNat(o) \/ Undo(o)
                      \/ LinkByName(o) \/ KillLookup(o) \/ KillSend(o) \/ DeleteLink(o)
                      \/ DnsmasqExits(o)
    \/ \E n \in Names : RunnerCleanUp(n)

BridgesSpec == BridgesInit /\ [][BridgesNext]_bridgeVars

-----------------------------------------------------------------------------
(* Properties                                                              *)

Quiet(n) == n \notin overlap /\ \A o \in Ops : Name(o) = n => ~Busy(o)

\* The dnsmasq of a create runs, or ended by itself, or a delete took it and could then not
\* delete the bridge.
Served(o) == o \in live \cup exited \/ found[o] \in undeleted

\* A create that failed leaves no bridge behind, whatever other commands do meanwhile, unless
\* the kernel refused to set it up or to delete it (bridge.go:248, 254).  And where the
\* commands on a name came one after the other, a bridge with a network has its dnsmasq,
\* unless that ended by itself or the kernel refused to delete the bridge after the dnsmasq
\* was killed (bridge.go:293-295), and no dnsmasq is left without its bridge, unless the
\* script for nat was refused (bridge.go:213).  Nothing is said of the dnsmasq of a bridge
\* on which commands overlapped.
BridgeServed ==
    /\ \A o \in Ops : ops[o].op = "create" /\ bpc[o] = "err" =>
        ~There(o) \/ o \in notUp \/ found[o] \in undeleted
    /\ \A n \in Names : Quiet(n) =>
        /\ \A o \in Ops : /\ ops[o].op = "create" /\ bpc[o] = "ok"
                          /\ ops[o].mode = "net" /\ found[o] = link[n]
                          => Served(o)
        /\ filed[n] \in live => link[n] = found[filed[n]] \/ ops[filed[n]].nat = "refused"
=============================================================================
