------------------------------ MODULE Containers ------------------------------
(***************************************************************************)
(* The containers of core0 (core0/containers): corex.create with its       *)
(* mounts, the runner of coreX with its two hooks, the set-up after the    *)
(* start, the clean-up after the exit, corex.terminate, and corex.dispatch *)
(* with the way back of the results.                                       *)
(*                                                                         *)
(* Everything a container owns is named by its number: the runner core-N,  *)
(* the paths of the mounts, the links, the runners net-N and socat-N, and  *)
(* the Redis queue core:N. The numbers are used again once the sequence    *)
(* has wrapped; `clash` tells that one was given out which an earlier      *)
(* container had not left yet.                                             *)
(***************************************************************************)
EXTENDS Integers, FiniteSets, SequencesExt

CONSTANTS
    Creates,       \* the corex.create commands, each with the container it makes
    Dispatches,    \* the corex.dispatch commands
    SeqSize,       \* the numbers a sequence has: 2^16 in the code
    ArgSets,       \* the arguments the creates may have, see Args
    Busy,          \* container -> the mounts and the link whose removal the kernel may refuse
    Target,        \* dispatch -> the container it is for
    None           \* no container

\* What ContainerCreateArguments tell: whether they are valid, whether the root they name
\* can be mounted, and whether there is a zerotier network, a bridge besides the default
\* one, and a port forward. And the creates whose answers are awaited before this one is
\* sent, which is up to who sends them.
Args == [valid : BOOLEAN, root : BOOLEAN, zerotier : BOOLEAN, bridge : BOOLEAN, port : BOOLEAN,
         after : SUBSET Creates]

\* Where coreX finds its root, its data, the socket and its binary, and what keeps its
\* network namespace.
Paths  == {"root", "data", "redis", "corex"}
Mounts == Paths \cup {"ns"}

ASSUME ContainersAssumption ==
    /\ ArgSets \subseteq [Creates -> Args]
    /\ SeqSize \in Nat \ {0}
    /\ Busy \in [Creates -> SUBSET (Mounts \cup {"bridge"})]
    /\ Target \in [Dispatches -> Creates]
    /\ None \notin Creates

Ids    == 0 .. SeqSize - 1
Sides  == {"net", "fwd"}          \* the runners net-N and socat-N
Links  == {"bridge", "default"}   \* to the bridge of its own, to the default bridge

VARIABLES
    args,      \* the arguments of each create
    sequence,  \* containerManager.sequence
    clash,     \* history: a number was given that was not free, see Present
    cont,      \* each container, see Container
    mounts,    \* number -> mount point -> the containers mounted there, the last on top
    disp,      \* where each dispatched command is
    by         \* the container whose coreX took it

vars == <<args, sequence, clash, cont, mounts, disp, by>>

Container ==
    [id     : Ids,                                \* 0 before it has a number
     create : {"idle", "root", "data", "redis", "corex", "run", "failed", "created",
               "refused"},                        \* where create is
     job    : {"none", "filed", "select", "drain", "exit", "over"},
                                                  \* the runner core-N
     proc   : {"none", "alive", "dead"},          \* coreX itself
     pid    : {"unset", "set"},                   \* container.pid
     hook   : {"none", "begin", "ns", "net", "bridge", "bridging", "default",
               "defaulting", "fwd", "over"},
                                                  \* where onpid, with postStart, is
     clean  : {"no", "fwd", "links", "net", "ns", "mounts", "over", "stuck"},
                                                  \* where cleanup is
     late   : BOOLEAN,                            \* history: cleanup overtook onpid
     kept   : SUBSET (Mounts \cup {"bridge"}),    \* history: what cleanup could not remove
     links  : [Links -> {"no", "host", "moved"}], \* "host": its peer is not in the
                                                  \* namespace of the container
     side   : [Sides -> {"none", "running", "ending", "over"}]]

TypeOK ==
    /\ args \in ArgSets
    /\ sequence \in Ids
    /\ clash \in BOOLEAN
    /\ cont \in [Creates -> Container]
    /\ mounts \in [Ids -> [Mounts -> Seq(Creates)]]
    /\ disp \in [Dispatches -> {"idle", "checked", "queued", "taken", "result", "answered",
                                "lost", "refused"}]
    /\ by \in [Dispatches -> Creates \cup {None}]

Init ==
    /\ args \in ArgSets
    /\ sequence = 0
    /\ clash = FALSE
    /\ cont = [c \in Creates |->
                 [id |-> 0, create |-> "idle", job |-> "none", proc |-> "none",
                  pid |-> "unset", hook |-> "none", clean |-> "no", late |-> FALSE,
                  kept |-> {}, links |-> [l \in Links |-> "no"], side |-> [x \in Sides |-> "none"]]]
    /\ mounts = [i \in Ids |-> [w \in Mounts |-> << >>]]
    /\ disp = [d \in Dispatches |-> "idle"]
    /\ by = [d \in Dispatches |-> None]

otherVars == <<args, clash, disp, by>>

-------------------------------------------------------------------------------
(* The runner table, as far as containers are in it. *)

CoreFiled(i) == \E c \in Creates : cont[c].id = i /\ cont[c].job \notin {"none", "over"}

Running(c, x) == cont[c].side[x] = "running"
Ending(c, x)  == cont[c].side[x] = "ending"

\* A runner net-N or socat-N with the number of the container is in the table.
SideFiled(c, x) ==
    \E e \in Creates : cont[e].id = cont[c].id /\ (Running(e, x) \/ Ending(e, x))

-------------------------------------------------------------------------------
(* create, in the goroutine of the command. *)

Numbered(c) == cont[c].create \notin {"idle", "refused"}

\* Nothing of container c is there: no mount at its paths, no link and no helper.
Gone(c) ==
    /\ \A w \in Mounts : c \notin ToSet(mounts[cont[c].id][w])
    /\ \A l \in Links : cont[c].links[l] = "no"
    /\ \A x \in Sides : ~Running(c, x) /\ ~Ending(c, x)

\* It has left its number: neither create nor the runner, onpid or cleanup goes on, and
\* nothing of it is there.
Settled(c) ==
    /\ cont[c].job = "over" \/ (cont[c].create = "failed" /\ cont[c].clean = "over")
    /\ cont[c].hook \in {"none", "over"}
    /\ Gone(c)

Present(c) == Numbered(c) /\ ~Settled(c)

\* After the last number the sequence goes on with 0.
NextSequence == (sequence + 1) % SeqSize

\* create has returned.
Answered(c) == \/ cont[c].create \in {"refused", "created"}
               \/ cont[c].create = "failed" /\ cont[c].clean \in {"no", "over"}

\* The arguments are refused, or the container gets its number, which nobody checks.
Begin(c) ==
    /\ cont[c].create = "idle"
    /\ \A e \in args[c].after : Answered(e)
    /\ IF args[c].valid
       THEN /\ sequence' = NextSequence
            /\ clash' = (clash \/ \E e \in Creates : Present(e) /\ cont[e].id = NextSequence)
            /\ cont' = [cont EXCEPT ![c].id = NextSequence, ![c].create = "root"]
       ELSE /\ cont' = [cont EXCEPT ![c].create = "refused"]
            /\ UNCHANGED <<sequence, clash>>
    /\ UNCHANGED <<args, mounts, disp, by>>

Mount(c, w) == mounts' = [mounts EXCEPT ![cont[c].id][w] = Append(@, c)]

MountStep(c, w, next) ==
    /\ cont[c].create = w
    /\ Mount(c, w)
    /\ cont' = [cont EXCEPT ![c].create = next]
    /\ UNCHANGED <<sequence, otherVars>>

\* mount: the root (what was there is removed first) and the data directory; preStart:
\* the socket of Redis and the binary of coreX.
CreateMounts(c) ==
    \/ args[c].root /\ MountStep(c, "root", "data")
    \/ MountStep(c, "data", "redis")
    \/ MountStep(c, "redis", "corex")
    \/ MountStep(c, "corex", "run")

\* Any of them fails: Start cleans up and returns the error.
CreateFails(c) ==
    /\ cont[c].create \in {"root", "data", "redis", "corex"}
    /\ cont' = [cont EXCEPT ![c].create = "failed", ![c].clean = "fwd"]
    /\ UNCHANGED <<sequence, mounts, otherVars>>

\* NewRunner refuses an id that is in the table; Start then returns without cleaning up.
NewRunner(c) ==
    /\ cont[c].create = "run"
    /\ cont' = IF CoreFiled(cont[c].id)
               THEN [cont EXCEPT ![c].create = "failed"]
               ELSE [cont EXCEPT ![c].create = "created", ![c].job = "filed"]
    /\ UNCHANGED <<sequence, mounts, otherVars>>

-------------------------------------------------------------------------------
(* The runner of coreX. *)

\* Register starts coreX, and a goroutine for the pid hook. If coreX cannot be started
\* the exit hook is called all the same.
Spawn(c) ==
    /\ cont[c].job = "filed"
    /\ \/ cont' = [cont EXCEPT ![c].job = "select", ![c].proc = "alive",
                               ![c].hook = "begin"]
       \/ cont' = [cont EXCEPT ![c].job = "exit"]
    /\ UNCHANGED <<sequence, mounts, otherVars>>

\* A link goes with the namespace its peer is in. That lasts as long as the process, or
\* the mount that keeps it.
WithoutNamespace(l) == [x \in Links |-> IF l[x] = "moved" THEN "no" ELSE l[x]]

CoreXExits(c) ==
    /\ cont[c].proc = "alive"
    /\ cont' = [cont EXCEPT ![c].proc = "dead",
                            ![c].links = IF mounts[cont[c].id]["ns"] = << >>
                                         THEN WithoutNamespace(@) ELSE @]
    /\ UNCHANGED <<sequence, mounts, otherVars>>

\* Mutant: the runner that takes the kill does not wait for the end of coreX.
TerminateAtOnce(c) ==
    /\ cont[c].job = "select"
    /\ cont' = [cont EXCEPT ![c].job = "exit"]
    /\ UNCHANGED <<sequence, mounts, otherVars>>

\* terminate: the runner takes the kill in its select, and kills coreX.
Terminate(c) ==
    /\ cont[c].job = "select"
    /\ cont' = [cont EXCEPT ![c].job = "drain"]
    /\ UNCHANGED <<sequence, mounts, otherVars>>

\* The status of coreX reaches its runner. It may never do: the manager can miss the
\* signal of an exit (see PidTable).
ExitSeen(c) ==
    /\ cont[c].job \in {"select", "drain"}
    /\ cont[c].proc = "dead"
    /\ cont' = [cont EXCEPT ![c].job = "exit"]
    /\ UNCHANGED <<sequence, mounts, otherVars>>

\* Mutant: the clean-up waits for onpid, which is never called if coreX did not start.
OnExitAfterHook(c) ==
    /\ cont[c].job = "exit"
    /\ cont[c].clean = "no"
    /\ cont[c].hook = "over"
    /\ cont' = [cont EXCEPT ![c].clean = "fwd"]
    /\ UNCHANGED <<sequence, mounts, otherVars>>

\* onexit, in the goroutine of the runner.
OnExit(c) ==
    /\ cont[c].job = "exit"
    /\ cont[c].clean = "no"
    /\ cont' = [cont EXCEPT ![c].clean = "fwd",
                            ![c].late = cont[c].hook \notin {"none", "over"}]
    /\ UNCHANGED <<sequence, mounts, otherVars>>

\* The manager's cleanUp takes the runner out of the table.
CleanUp(c) ==
    /\ cont[c].job = "exit"
    /\ cont[c].clean = "over"
    /\ cont' = [cont EXCEPT ![c].job = "over"]
    /\ UNCHANGED <<sequence, mounts, otherVars>>

RunnerStep(c) == Spawn(c) \/ OnExit(c) \/ CleanUp(c)

-------------------------------------------------------------------------------
(* onpid, in a goroutine of its own. An error ends it and is logged. *)

OnPid(c) ==
    /\ cont[c].hook = "begin"
    /\ cont' = [cont EXCEPT ![c].pid = "set", ![c].hook = "ns"]
    /\ UNCHANGED <<sequence, mounts, otherVars>>

\* namespace keeps the namespace of the process, which must be there.
Namespace(c) ==
    /\ cont[c].hook = "ns"
    /\ \/ /\ cont[c].proc = "alive"
          /\ Mount(c, "ns")
          /\ cont' = [cont EXCEPT ![c].hook = "net"]
       \/ /\ cont' = [cont EXCEPT ![c].hook = "over"]
          /\ UNCHANGED mounts
    /\ UNCHANGED <<sequence, otherVars>>

\* zeroTier: RunCmd refuses an id that is in the table.
ZeroTierStep(c) ==
    /\ cont[c].hook = "net"
    /\ cont' = CASE ~args[c].zerotier -> [cont EXCEPT ![c].hook = "bridge"]
                 [] args[c].zerotier /\ SideFiled(c, "net") ->
                      [cont EXCEPT ![c].hook = "over"]
                 [] OTHER ->
                      [cont EXCEPT ![c].hook = "bridge", ![c].side["net"] = "running"]
    /\ UNCHANGED <<sequence, mounts, otherVars>>

SkipBridge(c) ==
    /\ cont[c].hook = "bridge"
    /\ ~args[c].bridge
    /\ cont' = [cont EXCEPT ![c].hook = "default"]
    /\ UNCHANGED <<sequence, mounts, otherVars>>

\* bridge, once for the bridge of its own and once for the default one. First the link
\* and its peer are created.
LinkAdd(c, l, next) ==
    /\ cont[c].hook = l
    /\ l = "bridge" => args[c].bridge
    /\ \/ cont' = [cont EXCEPT ![c].hook = next, ![c].links[l] = "host"]
       \/ cont' = [cont EXCEPT ![c].hook = "over"]
    /\ UNCHANGED <<sequence, mounts, otherVars>>

\* Then the peer is moved, which takes a live process and a link that is still there,
\* renamed and given an address. It may fail before or after the move.
LinkSetUp(c, at, l, next) ==
    /\ cont[c].hook = at
    /\ \/ /\ cont[c].proc = "alive"
          /\ cont[c].links[l] = "host"
          /\ \E then \in {next, "over"} :
               cont' = [cont EXCEPT ![c].hook = then, ![c].links[l] = "moved"]
       \/ cont' = [cont EXCEPT ![c].hook = "over"]
    /\ UNCHANGED <<sequence, mounts, otherVars>>

\* Gateway and name server change nothing here. setPortForwards ignores what RunCmd says.
PortForwards(c) ==
    /\ cont[c].hook = "fwd"
    /\ cont' = IF args[c].port /\ ~SideFiled(c, "fwd")
               THEN [cont EXCEPT ![c].hook = "over", ![c].side["fwd"] = "running"]
               ELSE [cont EXCEPT ![c].hook = "over"]
    /\ UNCHANGED <<sequence, mounts, otherVars>>

HookStep(c) ==
    \/ OnPid(c)
    \/ Namespace(c)
    \/ ZeroTierStep(c)
    \/ SkipBridge(c)
    \/ LinkAdd(c, "bridge", "bridging")
    \/ LinkSetUp(c, "bridging", "bridge", "default")
    \/ LinkAdd(c, "default", "defaulting")
    \/ LinkSetUp(c, "defaulting", "default", "fwd")
    \/ PortForwards(c)

-------------------------------------------------------------------------------
(* The runners net-N and socat-N, and Kill of them. *)

\* The process ends by itself, or was killed; then its runner leaves the table.
SideEnds(c, x) ==
    /\ Running(c, x)
    /\ cont' = [cont EXCEPT ![c].side[x] = "ending"]
    /\ UNCHANGED <<sequence, mounts, otherVars>>

SideLeaves(c, x) ==
    /\ Ending(c, x)
    /\ cont' = [cont EXCEPT ![c].side[x] = "over"]
    /\ UNCHANGED <<sequence, mounts, otherVars>>

\* pm.Kill within cleanup: nothing for an id that is not in the table, the kill is taken
\* by a runner in its select loop, and a runner past it never takes it.
KillSide(c, at, x, next) ==
    /\ cont[c].clean = at
    /\ \/ /\ ~SideFiled(c, x)
          /\ cont' = [cont EXCEPT ![c].clean = next]
       \/ \E e \in Creates :
            /\ cont[e].id = cont[c].id /\ Running(e, x)
            /\ cont' = [cont EXCEPT ![e].side[x] = "ending", ![c].clean = next]
       \/ \E e \in Creates :
            /\ cont[e].id = cont[c].id /\ Ending(e, x)
            /\ cont' = [cont EXCEPT ![c].clean = "stuck"]
    /\ UNCHANGED <<sequence, mounts, otherVars>>

-------------------------------------------------------------------------------
(* cleanup, by create when it fails and by onexit. *)

\* unbridge removes the link to the bridge of its own, if the kernel lets it; cleanup does
\* not look for the default one, which goes with the namespace if its peer is there.
CleanLinks(c) ==
    /\ cont[c].clean = "links"
    /\ \/ cont' = [cont EXCEPT ![c].clean = "net",
                               ![c].links["bridge"] = IF args[c].bridge THEN "no" ELSE @]
       \/ /\ "bridge" \in Busy[c] /\ args[c].bridge /\ cont[c].links["bridge"] # "no"
          /\ cont' = [cont EXCEPT ![c].clean = "net", ![c].kept = @ \cup {"bridge"}]
    /\ UNCHANGED <<sequence, mounts, otherVars>>

\* What is on top at a mount point goes.
Popped(s) == IF s = << >> THEN s ELSE Front(s)

\* Mutant: the data directory is forgotten.
UnmountAllButData(m, refused) ==
    [w \in Mounts |-> IF w \in Paths \ ({"data"} \cup refused) THEN Popped(m[w]) ELSE m[w]]

\* An unmount that is refused is logged, and that is all. (That a lazy unmount of the root
\* takes along what is below it is not used.)
UnmountAll(m, refused) ==
    [w \in Mounts |-> IF w \in Paths \ refused THEN Popped(m[w]) ELSE m[w]]

\* The mount that keeps the namespace is only looked at if onpid has run.
CleanNs(c) ==
    /\ cont[c].clean = "ns"
    /\ \/ /\ cont[c].pid = "set"
          /\ mounts' = [mounts EXCEPT ![cont[c].id]["ns"] = Popped(@)]
          /\ cont' = [cont EXCEPT ![c].clean = "mounts", ![c].links = WithoutNamespace(@)]
       \/ /\ "ns" \in Busy[c] /\ cont[c].pid = "set" /\ mounts[cont[c].id]["ns"] # << >>
          /\ cont' = [cont EXCEPT ![c].clean = "mounts", ![c].kept = @ \cup {"ns"}]
          /\ UNCHANGED mounts
       \/ /\ cont[c].pid = "unset"
          /\ cont' = [cont EXCEPT ![c].clean = "mounts"]
          /\ UNCHANGED mounts
    /\ UNCHANGED <<sequence, otherVars>>

CleanMounts(c) ==
    /\ cont[c].clean = "mounts"
    /\ \E refused \in SUBSET {w \in Busy[c] \cap Paths : mounts[cont[c].id][w] # << >>} :
         /\ mounts' = [mounts EXCEPT ![cont[c].id] = UnmountAll(@, refused)]
         /\ cont' = [cont EXCEPT ![c].clean = "over", ![c].kept = @ \cup refused]
    /\ UNCHANGED <<sequence, otherVars>>

CleanStep(c) ==
    \/ KillSide(c, "fwd", "fwd", "links")
    \/ CleanLinks(c)
    \/ KillSide(c, "net", "net", "ns")
    \/ CleanNs(c)
    \/ CleanMounts(c)

-------------------------------------------------------------------------------
(* dispatch, and the way of a dispatched command through Redis. *)

contVars == <<args, sequence, clash, cont, mounts>>

\* Who dispatches knows a number. It is refused if it is 0, although a sequence that has
\* wrapped hands it out, or if no container with that number is in the table.
DispatchCheck(d) ==
    /\ disp[d] = "idle"
    /\ Numbered(Target[d])
    /\ LET i == cont[Target[d]].id IN
         disp' = [disp EXCEPT ![d] = IF i # 0 /\ CoreFiled(i) THEN "checked"
                                     ELSE "refused"]
    /\ UNCHANGED <<contVars, by>>

\* RPUSH to core:N, or its error, which is returned.
DispatchPush(d) ==
    /\ disp[d] = "checked"
    /\ \E to \in {"queued", "refused"} : disp' = [disp EXCEPT ![d] = to]
    /\ UNCHANGED <<contVars, by>>

\* Mutant: the command stays in the queue.
CoreXTakesCopy(c, d) ==
    /\ disp[d] = "queued"
    /\ cont[c].proc = "alive"
    /\ cont[c].id = cont[Target[d]].id
    /\ by' = [by EXCEPT ![d] = c]
    /\ UNCHANGED <<contVars, disp>>

\* The sink of a coreX with that number takes it.
CoreXTakes(c, d) ==
    /\ disp[d] = "queued"
    /\ cont[c].proc = "alive"
    /\ cont[c].id = cont[Target[d]].id
    /\ disp' = [disp EXCEPT ![d] = "taken"]
    /\ by' = [by EXCEPT ![d] = c]
    /\ UNCHANGED contVars

\* It answers to the common queue of results.
CoreXAnswers(d) ==
    /\ disp[d] = "taken"
    /\ cont[by[d]].proc = "alive"
    /\ disp' = [disp EXCEPT ![d] = "result"]
    /\ UNCHANGED <<contVars, by>>

\* forwardNext takes a result and sends it to the sink its tags name; if that fails, the
\* result is gone.
ForwardNext(d) ==
    /\ disp[d] = "result"
    /\ \E end \in {"answered", "lost"} : disp' = [disp EXCEPT ![d] = end]
    /\ UNCHANGED <<contVars, by>>

DispatchStep(d) ==
    \/ DispatchPush(d)
    \/ \E c \in Creates : CoreXTakes(c, d)
    \/ CoreXAnswers(d)
    \/ ForwardNext(d)

-------------------------------------------------------------------------------
CreateStep(c) == CreateMounts(c) \/ NewRunner(c)

\* A coreX that was killed dies.
Killed(c) == cont[c].job = "drain" /\ CoreXExits(c)

\* The steps of goroutines that are under way, and what the kernel does for them.
Progress ==
    \/ \E c \in Creates : CreateStep(c) \/ RunnerStep(c) \/ HookStep(c) \/ CleanStep(c)
                          \/ Killed(c)
                          \/ \E x \in Sides : SideLeaves(c, x)
    \/ \E d \in Dispatches : DispatchStep(d)

Next ==
    \/ \E c \in Creates : \/ Begin(c) \/ CreateFails(c) \/ CoreXExits(c) \/ Terminate(c)
                          \/ ExitSeen(c)
                          \/ \E x \in Sides : SideEnds(c, x)
    \/ \E d \in Dispatches : DispatchCheck(d)
    \/ Progress

Spec == Init /\ [][Next]_vars

\* What is under way goes on. There is no cycle in what containers do, so one goroutine
\* cannot keep another from its turn for ever. No coreX has to end unless it is killed, and
\* no status has to arrive.
FairSpec == Spec /\ WF_vars(Progress)

-------------------------------------------------------------------------------
(* Properties. *)

\* As long as coreX lives its root, its data, the socket and its binary are mounted at
\* its paths, for it, and with nothing mounted over them: create was complete, and neither
\* another container nor a clean-up disturbed them. This holds as long as no number was
\* given that an earlier container still had; create does not look (manager.go:252).
RootIntact ==
    ~clash => \A c \in Creates : cont[c].proc = "alive" =>
        \A w \in Paths :
            LET m == mounts[cont[c].id][w] IN m # << >> /\ Last(m) = c

\* A container that was cleaned up, after its exit or because create failed, leaves no
\* mount and no link of its own but those the kernel refused to remove, no namespace (nor a
\* link into it) unless its mount is one of these, and no helper that runs. Excepted are
\* a clean-up that overtook onpid (late), and a number that was not free (clash). A link to
\* the default bridge whose peer onpid did not get into the namespace may stay on the
\* host: cleanup does not remove it (container.go:145).
CleanedUp ==
    ~clash => \A c \in Creates : cont[c].clean = "over" /\ ~cont[c].late =>
        /\ \A i \in Ids, w \in Mounts : c \in ToSet(mounts[i][w]) => w \in cont[c].kept
        /\ cont[c].links["bridge"] = "no" \/ "bridge" \in cont[c].kept
        /\ cont[c].links["default"] = "moved" => "ns" \in cont[c].kept
        /\ \A x \in Sides : ~Running(c, x)

\* What destroying a container would mean, without the exceptions, once the set-up is over
\* too. The code does not keep it.
TerminateDestroys ==
    \A c \in Creates : cont[c].job = "over" /\ cont[c].hook \in {"none", "over"} => Gone(c)

\* A dispatched command is never run by another container while there is anything left of
\* the one it was meant for. (After that the next one with its number takes it: nobody
\* empties the queue.)
RightContainer ==
    ~clash => \A d \in Dispatches : by[d] \in {None, Target[d]} \/ Settled(Target[d])

\* Where container k is in its life: what was not cleaned up is not gone.
LifeOf(k) ==
    IF k.create = "idle" THEN "none"
    ELSE IF k.create = "refused" THEN "refused"
    ELSE IF k.clean = "over" THEN "gone"
    ELSE IF k.proc = "alive" THEN "live"
    ELSE IF k.create = "failed" \/ k.proc = "dead" \/ k.job \in {"exit", "over"}
         THEN "ending"
    ELSE "building"

\* The paths where something is mounted for container c.
Held(c, m) == {w \in Paths : c \in ToSet(m[w])}

lives    == [c \in Creates |-> LifeOf(cont[c])]
numbers  == [c \in Creates |-> cont[c].id]
holdings == [c \in Creates |-> Held(c, mounts[cont[c].id])]

Life == INSTANCE ContainerLife WITH
            Numbers <- Ids, life <- lives, number <- numbers, holds <- holdings, server <- by

\* As long as no number was given that was not free, every step is one of ContainerLife: a
\* container has a number no other has, starts on complete mounts and keeps them while it
\* lives, lives once, is gone when its mounts are, but for those the kernel refused to
\* unmount, and what was dispatched to it is served once, by it, or when it is gone by
\* the next container with its number.
ImplementsContainerLife ==
    Life!LifeInit /\ [][~clash' => Life!LifeNext]_(Life!lifeVars)

\* The manager does not lose the status of a dead coreX for good.
StatusArrives(c) ==
    []<>~(cont[c].proc = "dead" /\ cont[c].job \in {"select", "drain"})

\* A container that could not start, was terminated or has died, and whose status arrives,
\* leaves the table of runners, unless its clean-up waits in Kill for a helper that is
\* past its select loop.
ContainerEnds ==
    \A c \in Creates :
        StatusArrives(c) =>
            (cont[c].job \in {"drain", "exit"} \/ cont[c].proc = "dead")
                ~> (cont[c].job = "over" \/ cont[c].clean = "stuck")
===============================================================================
