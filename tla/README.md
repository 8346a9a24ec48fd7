# A verification project for core0 / coreX

core0 is the process manager that runs as process 1 of a g8os machine; coreX is the same
manager inside a container. Commands come in over Redis, are admitted by one loop, run as
processes or built-in functions, are watched, restarted, killed and timed out, and every
one of them is to be answered. This directory holds TLA+ models of that core, TLC
configurations that check them on small instances, and proofs that TLAPS checks for every
value of the constants. `PROJECT.json` maps each definition to the lines it models.

## 1. Inventory

| Part | State | Operations | What makes it correct |
|---|---|---|---|
| Sinks (`base/sink.go`, `sinkclient.go`, `utils/redis.go`) | the command just fetched, a pool of connections, a result handler per sink | fetch, hand over to `PushCmd` or `PushCmdToQueue`; answer | a command is run and answered at most once, where it came from, and is answered if nothing fails |
| Serial queues (`base/pm/queue.go`) | map name -> list, two goroutines, three channels | dispatch, signal, produce | a queue runs one command at a time, in order, and never stops while it has commands |
| Process manager (`base/pm/pm.go`) | `runners` by id, `maxJobs` slots, `pids` | `RunCmd`, `NewRunner`, `processCmds`, `cleanUp`, `Kill`, `Killall`, `RunSlice`, `processWait` | the table is the set of live runners; slots are respected; a free slot is used |
| Runner (`base/pm/runner.go`) | the process, its state, `runs`, `wg` | `run`, `Run`, `Kill`, `Wait` | one answer; KILLED if and only if a kill was accepted; never two processes; no restart after a kill |
| Processes (`base/pm/process`) | pipes, pid | `Run`, `Kill` | the exit message is last, then the channel closes |
| Pid table (`processWait`, `Register`, `WaitPID`) | pid -> channel | reap, register, wait | the exit status reaches the process that waits for it |
| Startup tree (`base/settings/startup.go`, `tree.go`) | weights | `Weight`, `Slice` | broken services are left out, a service is not in an earlier slice than what it waits for |
| Boot (`core0/bootstrap`, `waitmachine.go`, `runnerhook.go`) | slice, channels and states of services | `RunSlice`, `Wait`, `WaitAll`, `Release`, hooks | a service starts after what it waits for; the boot ends |
| Local transport (`base/local.go`) | connections | run a command, return its result | its jobs do not disturb those of the sinks |
| Statistics (`base/stats`, `statsbuffer.go`, `utils/buffer.go`) | aggregation buffers by key; a timed buffer | `op`, flush, `Stop`; append, flush by size and time, push to Redis | no value lost or counted twice; feeding never blocks a runner |
| Output stream (`base/pm/stream`) | multi-line message under way, last lines | `consume`, `Append` | every message is seen once, in order, and before the exit |
| Loggers (`base/logger`, `core0/logger`) | a channel per Redis logger, the lists `core.logs`, the database | log, push and trim, forward, store; `get_msgs` | no message is stored twice, or lost without a fault or a limit; the lists stay bounded; a logger never stops its jobs |
| Containers (`core0/containers`) | `uint16` sequence; per container its pid, mounts, links, helpers | create, list, dispatch, terminate; the hooks onpid and onexit | a live container keeps its mounts, everything created is undone, a command runs in the container it is for |
| Network (`core0/network`, `setupNetworking`) | addresses of interfaces, the runner of `udhcpc` | configure, test, force dhcp, restore, retry | a try that failed leaves what was configured; the machine gets out if it can |
| Bridges (`core0/builtin/bridge.go`) | links of the kernel, a `dnsmasq` per bridge | create, delete | a bridge with a network has its dnsmasq, and none is left over |
| Settings, btrfs (`settings/include.go`, `builtin/btrfs.go`) | none | merge files, parse the output of a tool | what is read is what is there |
| Info and disk commands, reboot, `main` | | | I/O and calls of tools |

Interaction: sinks call into the manager, the manager's loop and the queue's two
goroutines exchange commands over unbuffered channels, a runner goroutine per command
reports back through callbacks and `cleanUp`, which signals the queue and then wakes the
loop; `process.kill` and `process.killall` are themselves commands that act on other
runners; `processWait` is the only place where children are reaped; the boot runs commands
through the same manager and is driven by hooks that runners call; messages of a runner go
through the loggers of its agent, those of containers through a Redis to the loggers of
core0; the network and the bridges run their tools as commands of the manager.

What is hard here: almost everything is shared between goroutines, with locks held for
part of an operation (the queue lists, the runner table, the count of jobs), with channel
sends that need a partner who may be gone (`Kill`, `Notify`), with signals that may be
lost (`SIGCHLD`, `Broadcast`), and with errors that nobody looks at (`RunCmd`). Around it a
Redis goes away and comes back while commands, results, logs and statistics are on their
way, and kernel objects outlive the command that made them. The hazards
are listed with their lines in `PROJECT.json`.

## 2. Modules

| Module | Models | State and actions |
|---|---|---|
| `CmdQueue` | `queue.go` | `queues` is the map, `lists` the linked lists with their separate `len` field, `disp` and `prod` the two loops. `PushBack` and `Remove` are outside the lock in the code, so they are steps of their own, and `RacingPushRemove` has the outcomes of running them at the same time |
| `ProcessManager` | `pm.go` with sinks, `kill.go`, `killall.go` | extends `CmdQueue`. `loop` is `processCmds`, `runners` the table, `rpc` where each runner is, `body` what its process does, `mux` the killall that holds `runnersMux`. An exchange over an unbuffered channel is one step of both sides. The race of `Kill`'s unlocked map read is `KillLookupRace`, which may end the agent |
| `Runner` | `runner.go` | one job in detail: `pc` is the position of `Run`, `proc` the process as its message channel shows it. `cmd` is chosen initially from all kinds of command |
| `JobLife` | what a job promises | abstract: a job is live, may accept a kill, is answered once, then leaves. `Runner` implements it (`ImplementsJobLife`) |
| `StartupTree` | `startup.go`, `tree.go` | operators: `ChainWeight` is `Startup.Weight` as a recursive function over (services on the way, service), `Slice` and `StageOf` the three slices of `Bootstrap`; `Below`, the least set that is closed under what its services need, says what they should be |
| `Boot` | `bootstrap.go`, `RunSlice`, `waitmachine.go`, `runnerhook.go` | extends `StartupTree`. `main` is `Bootstrap`, `gor` the goroutine of each service, `job`/`hook` its runner and hook, `chan`/`up` the state machine |
| `PidTable` | `processWait`, `Register`, `WaitPID`, the start of a process | `child` and `sigchld` are the kernel's, `wait` is `processWait`, `send` its hand-over goroutines, `run` the goroutine of each process. The unlocked read in `WaitPID` is `WaitPIDRace` |
| `Statsd` | `stats/stats.go`, `stats/buffer.go` | `buffer` is the map of aggregation buffers, `gor` the goroutine of `Run` with the message in its `hand`, `flusher` the two calls of `flush` (tick and `Stop`), which read and reset key by key. `sent` and `flushed` are history. The sender is in the module that extends it |
| `JobOutput` | `stream/*.go`, `Run` of `systemprocess.go` and `containerprocess.go`, the select loop of `runner.go` | extends `Statsd`. `pc` "stdin" is the write of the standard input, before which nothing is received; `cons` are the consumers of the two pipes, `closer` the goroutine that sends the exit message, `pc`, `state`, `streams`, `result`, `feed` the runner. A line is its form (empty, plain, `n::`, `n:::`, `:::`), its level and what it means to `Feed`; a text is the numbers of its lines |
| `Sinks` | `sink.go`, `sinkclient.go`, `local.go`, `utils/redis.go`, the callbacks of `pm.go` | `fetch` is the goroutine of each sink, `pool` its connections, those that work and those that died with their Redis; `inbox`, `replies`, `expiring` are the lists in Redis; `run` has for each command who called `RunCmd` and the goroutines in `Run` (two for a local command); `client` is the local server; `slot` tells that `processCmds` has found a free one of the `MaxJobs` slots and is ready for a command. A job is one step, its end (`statsd.Stop`, `resultCallback`, `Done`, `cleanUp`) is in steps. `RegisterRace` has the outcomes of writing the map of handlers without a lock. Redis and the agent fail and return; an error of `Accept` is one way the agent ends |
| `Logs` | `base/logger`, `core0/logger`, `msgCallback` | `sending` and `ch` are the runners at the channel of a Redis logger and the channel, `pusher` and `conn` the goroutine that pushes, `list` the list of each Redis, `forwarder` that of core0, `batch` and `db` the database. Faults: a Redis goes with or without its list, a call is executed but not answered, a container ends |
| `StatsBuffer` | `utils/buffer.go`, `statsbuffer.go` | `array` is the buffer, `baskets` and `pushing` the goroutines that push, `idle` their pool |
| `Network` | `setupNetworking`, `core0/network` | `net` is the position of `setupNetworking`, `addrs` the addresses of each interface, `reaches` the addresses that lead to the internet, `udhcpc` whether the runner of the last one is still filed |
| `Machine` | `Bootstrap` | composes `Boot` and `Network`: `NetworkReady` of `Boot` is the end of `setupNetworking` |
| `Bridges` | `bridge.go` | commands in goroutines of their own: `bpc` their positions, `link` the links of the kernel by name with their index, `filed`, `live` the runners of `dnsmasq`; `overlap`, `notUp` and `undeleted` are history, of names on which commands overlapped and of links the kernel refused to set up or to delete |
| `Inputs` | `include.go`, `get_msgs.go`, `utils.go`, `btrfs.go` | operators: `GetIncludedSettings`, `Expand`, `getMsgs`, `btrfsParseList` |
| `Containers` | `core0/containers` | `cont` has for each container where `create`, the runner of coreX, `onpid` and `cleanup` are, its links and helpers; `mounts` is a stack per mount point, since a mount over another hides it; `disp` follows a dispatched command through Redis. The sequence goes round and numbers are given again; `clash` notes that one was given that was not free, `kept` what the kernel refused to remove (`Busy`), `late` that the clean-up overtook `onpid`. Mounts, links and namespaces follow the kernel: a link goes with the namespace of its peer, a bind mount keeps that namespace |
| `ContainerLife` | what a container promises | abstract: a container is refused or gets a number nobody has, is built mount by mount, lives once and only on complete mounts, ends, and is gone with its mounts but for those that could not be removed; a dispatched command is served once, by its container while that lives, or when that is gone by the next with its number. `Containers` implements it until a number is given that is not free (`ImplementsContainerLife`): `LifeOf` tells where a container is from `create`, its process, its runner and `cleanup`, `Held` what is mounted for it |
| `MC*` | instances | the commands, configurations and reference definitions the runs use |
| `*Proofs` | theorems | see section 4 |

`ProcessManager` has a coarse runner (seven positions), `Runner` a fine one; what the
coarse one relies on (a killed runner is not restarted, a runner reports once and then
cleans up) is what `Runner` and `JobLife` establish. A definition whose comment begins
with "Mutant:" is a plausible bug of the definition below it and is used by no
specification: each run is repeated with such a definition in place of the real one, and
the named property must then fail.

## 3. Runs

Bounds are the constants in the `.cfg` files.

| Run | Instance | Shows |
|---|---|---|
| `jobs` | a restarted and timed service and another command of its queue, a direct killall that has the id of the service and names the queue, an unknown command, a kill; two slots | in spite of the races on the list: `FifoQueues`; `SerialExecution` until a direct command signalled the queue; `QueueDriven` until a command of the queue was refused; `RunnerTableExact`, `JobsBounded` |
| `runner` | 24 kinds of command, two killers, two waiters, at most five starts | `RetriesBounded`, `KilledNotRestarted`, `OneProcess`, `ImplementsJobLife`, and under fairness `Finishes` and `WaitersReturn` |
| `algorithms` | every configuration of three services with up to two names each, unknown names included; up to three files of an include directory, rows of a log (limits around the bound, which is 2 here, and levels as a text or left out) and filesystems without empty lines between them: the inputs on whose meaning the code and its comments agree | the tree has exactly the services that need nothing broken, by sets closed under what their services need, and a service is never in an earlier slice than what it needs (`TreeExact`); the operators of `Inputs` equal definitions by positions (`InputsExact`) |
| `boot` | three services, with and without hooks, cyclic ones included, and no network; or one service in each slice and every configuration of two interfaces; or three commands that create and delete a bridge (`part` tells which is explored, since they share nothing) | `StartedAfterDependencies`, `SlicesInOrder`, `NetworkRestored`, `BridgeServed`; `BootEnds`, under fairness and its premises: there is a way out, services report or end, tries return, and in the end a `udhcpc` is cleaned up before the next is wanted |
| `pids` | three processes | `ChannelThere`, and under fairness `ReapedReported` |
| `output` | 110 runs of a process, some with standard input: all sequences of three forms of lines, all pairs of levels that are treated differently for both kinds of process, all types of statistics, two counter values with a tick of the meter; one flush on a tick | `OutputInOrder` and `OutputComplete` against `Shown` and `Tells`, which say by positions at which lines a message ends and what is in it; `ExitStateTrue`, `ResultExact`, `CountersConserved`, and under fairness `JobEnds`, if the status of the process arrives |
| `containers` | two numbers; a container with zerotier, a bridge and a port forward next to a refused create, or a plain one, then one whose root cannot be mounted, then a plain one with the number of the first, which may be gone or not; unmounts and a link the kernel may refuse to remove; one dispatched command | `RootIntact`, `CleanedUp`, `ImplementsContainerLife`, as long as no number was given that was not free; and under fairness `ContainerEnds`, if the status of coreX arrives |
| `sinks` | two sinks, one with a queue of its own for results, and the local socket; an unknown command behind one that does not decode, two commands with one id from two sinks or from a sink and the socket, a command without an id; one slot; one failure of a Redis or the agent | `AtMostOnce`, `AnsweredWhereAsked`, `LiveIsFiled`, and under fairness `AnswersArrive`, if `processCmds` finds a slot and the process ends |
| `logs` | two containers and core0, up to three messages, with and without a second Redis, one fault; or three statistics and a buffer for two, one outage (`part` tells which) | `Conserved`, `ListBounded`, `OneLossPerFault`, `StatsConserved`, and under fairness `LogsFlow` |

Two commands of a queue meet in the race of a push with a remove and in a push onto a list
that was just emptied and dropped; longer lists are left to the theorems of section 4. The
direct command brings the foreign signal, and the
two slots leave one for the kill while the service runs. Two killers
cover a kill that arrives after the first was accepted. Five starts exceed what a limit
of three restarts allows, so `RetriesBounded` is not cut off by the bound; a recurring job
is cut off there. Three services give chains, forks, joins and cycles of the dependencies.
Three processes let two children exit while a third is being registered. In `output` one
flush on a tick (`MaxFlushes`) is enough to meet the flush of `Stop` and a value that is
being added, and a `StreamBufferSize` of one makes the second line push out the first. In
`containers` two numbers (`SeqSize`) let the sequence go round to 0, the number `dispatch`
refuses, and the third create gets a number that was given before, free or not. One slot
(`MaxJobs`) in `sinks` makes every second command wait for it. One fault (`MaxFaults`) is enough in `sinks` and
`logs` to lose a connection at any of its calls and go on afterwards, and two of them would
only repeat it: the properties say what one fault may cost, per fault in `OneLossPerFault`
and `ListBounded`. A list
of one record (`QueueSize`) and a channel for one (`ChanSize`)
make the second message meet the limit. Two interfaces besides the loopback let dhcp be
forced on one while the other gets out, and two runners of `udhcpc` meet. Three commands on
one bridge are a create, a delete and a create that overlap. Type invariants are kept in
every module and proved for all of them but the operators of `Inputs` and `StartupTree`, which have no state;
they are no properties of the runs. Deadlock is not checked: in all of them the work is finite, and the agent idles when it is done.

The other runs check one property each that a comment or a document states and the code
does not keep:

| Run | Property | What happens |
|---|---|---|
| `slot_announced` | `UnqueuedAnswered` | one slot, two commands without a queue: `processCmds` counts the runner (pm.go:201), the runner leaves the table and broadcasts, `processCmds` goes to sleep (pm.go:202), and the second command, which "can run immediately" (pm.go:209), never does |
| `notify_blocked` | `NotifyReturns` | all slots taken; `cleanUp` waits in `Notify` for the producer, which waits for `processCmds`, which waits for the `Broadcast` after `Notify` |
| `pids_noticed` | `ExitNoticed` | two children exit, one signal arrives, one `Wait4` is made |

Other divergences met while modelling, kept here without a run. The first five can be
seen by giving TLC the named definition as the property of the named module (the instances
of `MCProcessManager` for the first two, and the instances of the runs `boot`, `output`
and `containers` for the others):

- `KillallReturns` (`ProcessManager`): `Killall` sends to a runner that is past its select
  loop, holding the lock that runner needs (pm.go:371).
- `QueuedNotLost` (`ProcessManager`): the dispatcher finds a list under the lock, the
  producer drops the queue, the dispatcher pushes to the dropped list (queue.go:61): the
  command never runs, although `PushCmdToQueue` "will queue the command for later
  execution" (pm.go:121).
- `BootEnds` without its third alternative: `RunSlice` ignores that `RunCmd` refused a
  service (pm.go:337), and waits for it for ever, although "a broken service MUST NOT bring
  the whole system down" (tree.go:69-70).
- `LastFlushComplete` (`JobOutput`): "Stop stops the stats rountine and force flushing"
  (stats.go:215), but the flush runs next to the goroutine, which may still hold a value,
  or be between reading and resetting one: the value is lost, or flushed twice
  (stats.go:219).
- `TerminateDestroys` (`Containers`): "Destroys a Core and stops the Core processes"
  (docs/commands.md:152), but onexit may clean up while onpid still sets up: a link or a
  helper added after its turn of the clean-up stays (container.go:125, 135).
- A statistic of another type than its key ends the goroutine of the statistics
  (stats.go:202), and the next feed leaves the runner in `op`; `JobEnds` excepts this. A
  type that is not known crashes the agent (stats.go:200).
- A link to the default bridge stays on the host if its set-up fails before the peer was
  moved: `cleanup` removes only links to the bridges in the arguments (container.go:145).
  `CleanedUp` excepts it.
- An unmount that fails is logged, and the mount stays (container.go:154-180). `CleanedUp`
  and `ContainerLife` allow what the kernel refused to remove, and nothing else.
- `create` takes the next number without looking whether it is in use (manager.go:252): once
  the sequence has gone round it mounts over the live container of that number, and `Start`
  leaves these mounts when `NewRunner` refuses (container.go:82-85). The model has this, and
  notes it (`clash`): the properties of containers say what holds until then. A number that
  is free again is given again without harm, but a command that nobody took is still in
  the queue of that number, and the next container runs it.
- A message of several lines ends with a line that is exactly `:::` (input.go:90); the
  documentation says "when ::: found at beginning of line" (coreX/specs/jsagent.md:51).
- `RunCmd` refuses a queued command (unknown, or its id is taken): nobody signals its
  queue again (pm.go:216). `QueueDriven` says what holds until then (`Refused`).
- A command of the local socket may name a queue (local.go:70-76): it does not wait in it,
  but its `cleanUp` signals it, and two commands of the queue may then run at once.
  `SerialExecution` says what holds until then (`ForeignSignal`).
- A failing command is started `max_restart` times in all (runner.go:254), while the
  documentation has the "Max number of retries" (docs/commands.md:19), which is one start
  more. `RetriesBounded` has the bound of the documentation, which the code keeps with one
  retry to spare.
- After an error of `Accept` the server goes on with no connection and panics on its first
  use, which ends the agent (local.go:94-98).
- The local server runs a job twice: `RunCmd` has started `Run` when local.go:82 calls it
  again. The second `Stop` of the statistics closes a closed channel and ends the agent
  (stats.go:218), which is what keeps the second `cleanUp` from taking a newer job with the
  same id out of the table.
- A connection of the pool that died with its Redis is handed out once more, untested
  (utils/redis.go:8): the result that is given to it is lost although Redis answers again.
  A result whose `EXPIRE` failed after `RPUSH` stays for ever (sinkclient.go:112).
  `AnswersArrive` excepts both (`Disturbed`).
- The forwarder passes records of containers to the loggers of core0 by `LogRecord`
  (forwarder.go:46), which does not look at levels, although "Core0 logging configuration
  applies to both `core0` and `coreX` domains" (docs/logging.md:14). `Conserved` therefore
  asks only for messages that both let pass: nothing of those that the configuration of
  core0 would have left out.
- The messages of a command without an id are never in the database: a bucket needs a name
  (logger.go:90).
- `get_msgs` without a limit returns nothing, and so does an array of levels: JSON gives
  `[]interface{}`, which is none of the types of the switch (get_msgs.go:45-52, 78).
  `InputsExact` leaves both out.
- The comment of `btrfsParseList` (btrfs.go:258-261) says an empty line ends a filesystem;
  after one, the label of the next is dropped, and with several filesystems the command
  fails. The consumers drop empty lines, so the agent never meets it, and `InputsExact` has no
  such input. A label with a blank
  is refused (btrfs.go:289). `mkfs.btrfs` gets its devices as one argument (btrfs.go:105).
- A startup section of a later file replaces an earlier one silently, an extension does not
  (include.go:96, 108).
- The command of `udhcpc` has no id (dhcp.go:22): a second one is refused as a duplicate
  until the runner of the first has cleaned up, which is after `Wait` has returned. Nothing
  but the two seconds between tries (bootstrap.go:163) sees to that; `BootEnds` has it as a
  premise (`CleanedUpInTime`).
- When the internet comes back elsewhere while dhcp is forced on an interface, that one
  stays as it is, without its own address (bootstrap.go:128-130).
- The address of a static interface is not checked (static.go:70): one that does not parse
  ends core0, and `BootEnds` excepts it.
- A service whose `RunningMatch` never matches, or whose `RunningDelay` is negative, and
  that does not end, keeps `WaitAll` waiting; `http.Get` in `canReachInternet` has no time
  limit (bootstrap.go:70). `BootEnds` has as premises that neither happens.
- A bridge that cannot be set up or deleted stays (bridge.go:248, 254, 295), in the last
  case without the dnsmasq that was killed before, a NAT script that is refused leaves
  the dnsmasq of a deleted bridge (bridge.go:213), and a delete whose `dnsmasq` ended just
  now waits for ever in `Kill` (bridge.go:293). Where commands on one name overlap, a delete
  may kill the dnsmasq of the next bridge: `BridgeServed` says nothing of such names but
  that a failed create leaves no bridge.
- While the standard input is written nothing is received: neither a kill nor the time
  limit reaches a process that does not read (systemprocess.go:232).
- A process that cannot be spawned is retried like any failed one, although the comment at
  runner.go:133-135 says it should be terminated at once.
- `Kill` of a job that is past its select loops blocks the caller (runner.go:283).
- After `max_time` the process gets SIGTERM once; one that ignores it keeps its runner
  draining (runner.go:198).
- A dependency in an earlier slice counts as running even if it failed (waitmachine.go:50):
  `StartedAfterDependencies` asks of it only that it was released.
- `Wait4` does reap a child whose registration is under way (pm.go:227, process.go:21-22);
  the status still reaches it, because the lookup waits for `pidsMux` (`ReapedReported`).

Fairness. A goroutine that can go on does (weak fairness of each goroutine's step: the Go
scheduler). What others must contribute is not fairness but a premise of the property.

- `Runner`: the receive of a kill is strongly fair, since a select with several ready
  channels picks among them at random. No process is obliged to end by itself (only one
  that was told to and obeys), and nobody to call `Kill` or `Wait`.
- `PidTable`: no child is obliged to exit.
- `JobOutput`, `Containers`: some goroutine goes on while one can; lines, ticks, flushes and
  steps of a container are finitely many, so none of them can be passed over for ever. The
  process, the owners of its pipes, and a coreX that was not killed owe nothing. The status
  of a process that exited may be lost (run `pids_noticed`), so its arrival is not fair:
  `JobEnds` and `ContainerEnds` have it as a premise (`StatusArrives`).
- `ProcessManager`: processes end (`BodyEnd`) and sinks fetch what is waiting. Only the two
  violation runs use it.
- `Machine`: the goroutines of the boot go on, but not the steps of a try, which may wait in
  `http.Get`, nor a service, which may never report. `BootEnds` has as premises that
  services report or end (`ServicesReport`), tries return (`TriesReturn`), what answers at
  the other end of the cables comes up (`WayOpens`), and from some time on a `udhcpc` is
  cleaned up before the next (`CleanedUpInTime`).
- `Sinks`: each sink, the admission of a command that `processCmds` has taken, the report of
  a job and the expiry of lists go on. Clients need not send, a Redis and the agent need
  not return, a process need not end, and a slot need not be found: the broadcast may be
  lost and `cleanUp` may wait (runs `slot_announced`, `notify_blocked`). `AnswersArrive`
  has a slot and the end of the process as premises (`Served`), and says nothing of a sink
  while its Redis or the agent is down, its handler lost or its pool has dead connections
  (`Disturbed`).
- `Logs`: the runners at a channel, each pusher, the forwarder and the database go on; a
  Redis need not return. A call of Redis that was made returns, with an answer or an error:
  the connections have no timeouts (utils/redis.go:12), so a Redis that accepts and then
  stays silent is outside of `LogsFlow`.

## 4. Proofs

All proofs are for every value of the constants, from the named assumptions next to the
constants: sets of commands with typed fields; `Nil` is not a command; the two kinds of
names are disjoint; `MaxJobs` is a natural number; there are finitely many services and
finitely many agents with a Redis logger (`Cores`), and the sequence has at least one
number (`SeqSize`, 2^16 in the code). There is one module of theorems per component:
`ProcessManagerProofs`, `RunnerProofs`, `PidTableProofs`, `MachineProofs` (StartupTree,
Boot, Network, Machine and Bridges), `SinksProofs`, `LogsProofs` (with StatsBuffer), `ContainersProofs` and
`JobOutputProofs` (with Statsd). Every argument but that for the startup tree has
the same shape: an inductive invariant that holds initially, is kept by every action, and
implies the property. Induction over data is written without a parameter for what is
shown: the set of the exceptions has a least element (`LeastNumber`, from `WFMin`), which
is shown not to be one.

| Theorem | Statement | Argument |
|---|---|---|
| `TypeCorrect` | `TypeOK` of the manager | `TypeInv` adds what the goroutines' local variables hold at each position; without it the list operations are not typed |
| `TableExact` | `RunnerTableExact` | with: every entry is filed under its own id, so deleting by id deletes one's own entry |
| `KillallTargets` | `KillallTargetsFiled` | with: the holder of the lock is a killall in its loop, so nobody else deletes |
| `SerialQueues` | `SerialExecution` | `TokenInv`: a queue is held by at most one of dispatcher, producer, loop and runners, and only while it is in the map. The hold is passed on at every exchange. It needs `QueueNames` (a list holds only commands of its queue), which survives every outcome of the race. It holds for a queue until the `cleanUp` of a direct command that names it has signalled it (`ForeignSignal`), and a direct command before that point changes nothing |
| `QueuesDriven` | `QueueDriven` | the same hold is never dropped while the queue is in the map, whatever direct commands signal, but by `RunCmd` refusing the command that has it (`Refused`) |
| `MaxJobsRunning` | `JobsBounded` | `RoomInv`: from the count of the table until `RunCmd`, the runners that `processCmds` started are fewer than `MaxJobs`; they only become fewer meanwhile, since only `processCmds` starts them, and each has an entry of its own (`TableInv`) |
| `FirstComeFirstServed` | `FifoQueues` | `FifoInv`: a command is received once (`OnceInv`); every list, dropped or not, holds received commands in their order, and the one the dispatcher is about to push is the last received and in no list (`ListInv`); nothing received after a waiting command of its queue was taken (`FirstInv`). All outcomes of the race keep it, since none of them exchanges elements. No assumption on direct commands |
| `RunnerTypeCorrect`, `RetriesAreBounded`, `NoNilMessage`, `WaitConsistent`, `OneProcessAtATime`, `NoRestartAfterKill` | safety of a job | `RunnerInv` ties the position of `Run` to the process, the counters, the state and the result |
| `RunnerImplementsJobLife` | refinement | under `RunnerInv` each step maps to a step of `JobLife` or to a stutter |
| `PidTypeCorrect`, `ChannelFound`, `EntriesRemoved` | safety of the pid table | `PidInv`: an entry is there from `Register` until the hand-over, and a reaped status is in exactly one pair of hands |
| `StartupTreeExact` | `OnlySound` and `NoneBefore` of `StartupTree`, the two halves of `TreeExact`, for every finite set of services and all After lists | `ChainInduction`: a fact of a service at the end of a chain follows from that fact of longer chains. By it the recursive functions exist (`ChainWeightIs`, `SumsAre`), weights are positive (`WeightsWeigh`), and a weight that can be computed does not depend on the chain (`SameWeight`), so it is no less than the weights of what the service needs (`WeightOfNeeds`). Services that can be weighed are a closed set, and those that can be weighed behind d one without d, so a weighed service is sound (`ComputedIsSound`); the converse is the same induction (`SoundIsComputed`) |
| `BootTypeCorrect`, `DependenciesFirst`, `SliceBySlice` | safety of the boot | `BootInv`: a state "yes" is backed by a hook that fired or a good exit, a goroutine that may still start its service has passed only dependencies that came up, a slice is left only when released, and the slices are those of the tree. What a service needs outside its slice is in an earlier one by `StartupTreeExact`, and released by `SliceBySlice` |
| `MachineImplementsBoot`, `MachineDependenciesFirst`, `MachineSliceBySlice` | `MachineSpec => Spec` of `Boot`, and so its properties | a step of `Machine` is a step of `Boot` or leaves its variables alone |
| `NetworkIsRestored`, `NetworkFirst` | `NetworkRestored`; services of the second and third slice start after the network is ready | `NetInv`: at most one interface is away from its configuration, and only while it is tested with a forced dhcp |
| `BridgesServed` | `BridgeServed` | `BridgesInv`: an index names one link for good (a link that is deleted and made again has a new one), a filed runner is one of a create of its name, and where commands did not overlap the bridge and its dnsmasq are in step but for the last steps of a delete and for links the kernel refused to delete |
| `SinksTypeCorrect`, `SinksAtMostOnce`, `SinksAnsweredWhereAsked`, `SinksLiveIsFiled` | safety of the way of a command | `SinksInv`: a command is in at most one place (client, list, sink, `processCmds`, runner), through failures of Redis and restarts of the agent; a job is filed while one of its goroutines may clean up, and the second `statsd.Stop` ends the agent before the second `cleanUp` |
| `LogsTypeCorrect`, `LogsConserved` | `Conserved` | `CountInv`: no step makes the number of places of a message grow; `LostInv` and `SuffixInv`: a list is the end of what was pushed to it, so what `LTRIM` drops has `QueueSize` newer records behind it |
| `LogsListBounded`, `LogsOneLossPerFault` | `ListBounded`, `OneLossPerFault` | every record beyond the limit is charged to a pusher that will trim (`Trimmers`) or to a fault, every lost one to a fault, with the one a pusher may lose next charged in advance (`AtRisk`) |
| `StatsAreConserved` | `StatsConserved` | `StatsInv`: baskets are not empty and have no statistic twice, so a flush never meets its own basket |
| `ContainersRootIntact`, `ContainersCleanedUp`, `ContainersRightContainer` | `RootIntact`, `CleanedUp`, `RightContainer` | `ContainersInvariance`: `ContainersInv`, with the types, until a number is given that is not free (`clash`). Two containers that have not settled have different numbers, so a container is alone at its paths: one that settled left nothing there, and one that left something the kernel refused to remove has not settled. What is mounted, linked or running for it follows from how far `create`, its runner, `onpid` and `cleanup` are |
| `ContainersImplementLife` | refinement, until `clash` | under `ContainersInv`, before and after the step, and `Unserved` (nobody serves a command before a coreX has taken it) each step maps to a step of `ContainerLife` or to a stutter. The set-up after the start and the helpers are stutters, whatever they do at the same time as the clean-up, since nothing of theirs is at the paths of coreX; what one container mounts changes nothing for another that is there, since that has other paths |
| `JobOutputTypeCorrect`, `JobOutputExitStateTrue` | `ExitStateTrue` | `JobInv`: consumers hand on no message with the level of the exit state, so only the goroutine that waits for the end sends one, once |
| `JobOutputAllRead` | when the exit message was seen, both pipes are read to their ends, unless reading failed | `JobInv`: that goroutine passes a consumer only when it is over. This is the half of `OutputComplete` that is about goroutines |
| `JobOutputInOrder`, `JobOutputComplete`, `JobOutputResultExact` | `OutputInOrder`, `OutputComplete`, `ResultExact`, for any output of any length and any size of the buffers | `OutputInv` (`JobOutputFollowsLines`): a consumer inside a message of several lines holds the text from the line that opened it, the message it is about to hand on is that of the last line it read, the history holds as many messages of a pipe as are shown up to there, each at its place, and the buffers hold the last of them. Places are counts of earlier ones (`UpTo`, `After`), and the lemmas on cardinalities say how a count changes when the set gets a new last element |
| `JobOutputCountersConserved` | `CountersConserved` | `StatsdInv`: per key, what was taken is in hand, in the buffer, in the reading of the flush under way, or flushed; before `Stop` only the goroutine of `Run` flushes |

Only model-checked:

- everything under fairness (`Finishes`, `WaitersReturn`, `BootEnds`,
  `ReapedReported`, `JobEnds`, `ContainerEnds`, `AnswersArrive`, `LogsFlow`), since TLAPS
  does not handle fairness and ENABLED;
- `InputsExact`: what the folds of `Inputs` compute;
- `TreeExact` as the run states it, with the configuration as a variable: `StartupTreeExact`
  proves its two halves for all configurations.

`KillallTargetsFiled`, `NoReceiveFromClosed`, `WaitSeesResult`, `NoStaleEntries` and
`RightContainer` are proved and not part of a run.

## 5. Not modelled

Wording of messages and logs, JSON and TOML decoding, calls of external tools: what the
info, disk and reboot commands and the other btrfs commands do is one such call each. The
size of pipes, and a standard input that a grandchild keeps open. The console logger, which
prints. The conversion of a flushed series to the arguments of RPUSH. The hooks and handlers
that see every message change nothing in `JobOutput`. `RegisterCmd`, which is done before
the first service starts. Tap devices and their errors, which are logged. coreX reaping
the child of `cmd.Run` for `hostname` (a hazard of coreX/bootstrap.go:67 that os/exec and
the kernel decide). Messages of
several lines with the level of statistics. Reuse of a pid between `Wait4` and the delete
of its entry. Keywords of `After` made of dashes only (priority -1). `recurring_period`
inside the arguments of a startup section, which `RunSlice` does not read. The files
`create` removes and writes below the root of a container. `corex.list`, which only reads.
A terminate that finds the runner past its select loop: it blocks like any `Kill`. A Redis
that takes a call and never answers.

## 6. Plan

1. Done: the core (`CmdQueue`, `ProcessManager`, `Runner` with `JobLife`, `StartupTree`,
   `Boot`, `PidTable`), then `Statsd`, `JobOutput`, `Containers`, `Sinks`, `Logs`,
   `StatsBuffer`, `Network`, `Machine`, `Bridges` and `Inputs`, and `ContainerLife`.
2. Done: the safety invariants of the runs as theorems, but for `InputsExact`, the startup
   tree for every configuration, that `Machine` implements `Boot` and `Containers`
   `ContainerLife`.
3. Left: that the coarse runner of `ProcessManager` is implemented by `Runner`.
