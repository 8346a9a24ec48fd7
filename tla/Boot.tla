---------------------------------- MODULE Boot ----------------------------------
(***************************************************************************)
(* Starting the services of a machine: Bootstrap                           *)
(* (core0/bootstrap/bootstrap.go) starts one slice of the startup tree     *)
(* after the other, RunSlice (base/pm/pm.go) runs one goroutine per        *)
(* service of a slice, which waits for the dependencies of the service on  *)
(* a state machine (base/pm/waitmachine.go), and the hooks of the runners  *)
(* (base/pm/runnerhook.go) release the services there.                     *)
(*                                                                         *)
(* A runner is seen here as the events that reach its hooks.  Tick and     *)
(* Message hooks run in goroutines of their own, so they may act after the *)
(* exit hook, which the runner calls itself.  Release writes the state and *)
(* then closes the channel; a waiter reads the state after it saw the      *)
(* channel closed, so the two can be one step.                             *)
(***************************************************************************)
EXTENDS StartupTree

CONSTANT Configs      \* the configurations to start from

\* A startup section: its After list, which may name anything; whether it has a RunningMatch or a RunningDelay
\* that is not negative, and so a hook that reports it as running; and whether RunCmd
\* accepts its command.
Startup == [after : Seq(STRING),
            hooked : {"yes", "no"},
            accepted : {"yes", "no"}]

ASSUME ConfigAssumption == Configs \subseteq [Services -> Startup]

VARIABLES
    config,    \* the included settings
    stage,     \* the startup tree: the slice of every service, 0 for none
    main,      \* Bootstrap: the slice it is at, and what it does
    gor,       \* the goroutine RunSlice started for each service
    job,       \* the runner of each service
    hook,      \* its delay or match hook: "armed", "pending" (go hook.Tick), "fired"
    chan,      \* the channel of the service in the state machine: "open", "closed"
    up         \* the state it was released with

vars == <<config, stage, main, gor, job, hook, chan, up>>

After(s) == config[s].after

Afters == [s \in Services |-> After(s)]

Started == {"running", "succeeded", "failed"}

TypeOK == /\ config \in Configs
          /\ stage \in [Services -> 0 .. 3]
          /\ main \in [stage : Stages, pc : {"run", "wait", "network", "done"}]
          /\ gor \in [Services -> [pc : {"none", "wait", "end"}, next : Nat \ {0},
                                   canRun : {"yes", "no"}]]
          /\ job \in [Services -> Started \cup {"none", "refused"}]
          /\ hook \in [Services -> {"armed", "pending", "fired"}]
          /\ chan \in [Services -> {"open", "closed"}]
          /\ up \in [Services -> {"yes", "no"}]

\* NewBootstrap reads the settings and builds the tree.
Init == /\ config \in Configs
        /\ stage = StageOf(Afters)
        /\ main = [stage |-> 1, pc |-> "run"]
        /\ gor = [s \in Services |-> [pc |-> "none", next |-> 1, canRun |-> "yes"]]
        /\ job = [s \in Services |-> "none"]
        /\ hook = [s \in Services |-> "armed"]
        /\ chan = [s \in Services |-> "open"]
        /\ up = [s \in Services |-> "no"]

-----------------------------------------------------------------------------
(* Bootstrap                                                               *)

\* startupServices: RunSlice makes a state machine with the services of the slice as
\* its keys, and a goroutine for each of them.
RunSlice ==
    /\ main.pc = "run"
    /\ main' = [main EXCEPT !.pc = "wait"]
    /\ gor' = [s \in Services |-> IF stage[s] = main.stage
                                  THEN [gor[s] EXCEPT !.pc = "wait"] ELSE gor[s]]
    /\ UNCHANGED <<config, stage, job, hook, chan, up>>

\* Mutant: the slice is not waited for.
WaitAllReturnsAtOnce ==
    /\ main.pc = "wait"
    /\ main' = IF main.stage = 3 THEN [main EXCEPT !.pc = "done"]
               ELSE [stage |-> main.stage + 1, pc |-> "run"]
    /\ UNCHANGED <<config, stage, gor, job, hook, chan, up>>

\* state.WaitAll returns.  Between the first and the second slice the network is set
\* up, and the last slice ends the boot.
WaitAll ==
    /\ main.pc = "wait"
    /\ \A s \in Services : stage[s] = main.stage => chan[s] = "closed"
    /\ main' = CASE main.stage = 1 -> [main EXCEPT !.pc = "network"]
                 [] main.stage = 2 -> [stage |-> 3, pc |-> "run"]
                 [] main.stage = 3 -> [main EXCEPT !.pc = "done"]
    /\ UNCHANGED <<config, stage, gor, job, hook, chan, up>>

\* setupNetworking succeeds; until then it is tried again every two seconds.
NetworkReady ==
    /\ main.pc = "network"
    /\ main' = [stage |-> 2, pc |-> "run"]
    /\ UNCHANGED <<config, stage, gor, job, hook, chan, up>>

-----------------------------------------------------------------------------
(* The goroutine of a service                                              *)

\* StateMachine.Release: a channel that is closed already stays closed.
Release(s, v) == /\ up' = [up EXCEPT ![s] = v]
                 /\ chan' = [chan EXCEPT ![s] = "closed"]

\* A name is a key of the state machine that the goroutine of s waits on.
Key(s, n) == n \in Services /\ stage[n] = stage[s]

\* Mutant: the state of a dependency is not looked at.
WaitNextAnyState(s) ==
    LET n == After(s)[gor[s].next] IN
    /\ gor[s].pc = "wait"
    /\ gor[s].next <= Len(After(s))
    /\ Key(s, n) => chan[n] = "closed"
    /\ gor' = [gor EXCEPT ![s].next = @ + 1]
    /\ UNCHANGED <<config, stage, main, job, hook, chan, up>>

\* One turn of the loop of StateMachine.Wait: a name that is not a key of this slice
\* is passed over, a key is waited for.
WaitNext(s) ==
    LET n == After(s)[gor[s].next] IN
    /\ gor[s].pc = "wait"
    /\ gor[s].next <= Len(After(s))
    /\ \/ /\ ~Key(s, n)
          /\ gor' = [gor EXCEPT ![s].next = @ + 1]
       \/ /\ Key(s, n)
          /\ chan[n] = "closed"
          /\ gor' = [gor EXCEPT ![s] =
                        [pc |-> "wait", next |-> @.next + 1,
                         canRun |-> IF up[n] = "yes" THEN @.canRun ELSE "no"]]
    /\ UNCHANGED <<config, stage, main, job, hook, chan, up>>

\* Every dependency was waited for.
Waited(s) == gor[s].pc = "wait" /\ gor[s].next > Len(After(s))

\* canRun: RunCmd either makes a runner with the hooks or refuses the command, which
\* nobody looks at.
StartService(s) ==
    /\ Waited(s)
    /\ gor[s].canRun = "yes"
    /\ gor' = [gor EXCEPT ![s].pc = "end"]
    /\ job' = [job EXCEPT ![s] = IF config[s].accepted = "yes" THEN "running" ELSE "refused"]
    /\ UNCHANGED <<config, stage, main, hook, chan, up>>

\* Mutant: a service that is skipped is not released.
SkipServiceSilently(s) ==
    /\ Waited(s)
    /\ gor[s].canRun = "no"
    /\ gor' = [gor EXCEPT ![s].pc = "end"]
    /\ UNCHANGED <<config, stage, main, job, hook, chan, up>>

\* Otherwise one of the dependencies failed, and so does this service.
SkipService(s) ==
    /\ Waited(s)
    /\ gor[s].canRun = "no"
    /\ gor' = [gor EXCEPT ![s].pc = "end"]
    /\ Release(s, "no")
    /\ UNCHANGED <<config, stage, main, job, hook>>

-----------------------------------------------------------------------------
(* The runner of a service                                                 *)

\* The delay passed, or the match was read: the runner starts the hook's goroutine.
HookDue(s) ==
    /\ job[s] = "running"
    /\ config[s].hooked = "yes"
    /\ hook[s] = "armed"
    /\ hook' = [hook EXCEPT ![s] = "pending"]
    /\ UNCHANGED <<config, stage, main, gor, job, chan, up>>

\* The goroutine gets to act, once.
HookFires(s) ==
    /\ hook[s] = "pending"
    /\ hook' = [hook EXCEPT ![s] = "fired"]
    /\ Release(s, "yes")
    /\ UNCHANGED <<config, stage, main, gor, job>>

\* The service ends and the runner calls the exit hook.
ServiceExits(s) ==
    /\ job[s] = "running"
    /\ \/ job' = [job EXCEPT ![s] = "succeeded"] /\ Release(s, "yes")
       \/ job' = [job EXCEPT ![s] = "failed"] /\ Release(s, "no")
    /\ UNCHANGED <<config, stage, main, gor, hook>>

MainStep == RunSlice \/ WaitAll \/ NetworkReady

GoroutineStep(s) == WaitNext(s) \/ StartService(s) \/ SkipService(s)

RunnerStep(s) == HookDue(s) \/ ServiceExits(s)

Next == \/ MainStep
        \/ \E s \in Services : GoroutineStep(s) \/ RunnerStep(s) \/ HookFires(s)

Spec == Init /\ [][Next]_vars

-----------------------------------------------------------------------------
(* Properties                                                              *)

Dependencies(s) == {After(s)[k] : k \in DOMAIN After(s)} \cap Services

\* A service was reported as running, or ended well.
CameUp(s) == hook[s] = "fired" \/ job[s] = "succeeded"

\* RunSlice "will also make sure a service won't start until it's dependencies are
\* running" (pm.go:277-278): every dependency in its slice came up before, and every other
\* service it needs is in an earlier slice and was released.
StartedAfterDependencies ==
    \A s \in Services : job[s] # "none" =>
        /\ \A d \in Dependencies(s) : stage[d] = stage[s] => CameUp(d)
        /\ \A d \in Needs(Afters, s) : stage[d] # stage[s] => stage[d] # 0 /\ chan[d] = "closed"

\* No service of a slice is started before all services of the earlier slices were
\* released, also those that were skipped or failed.
SlicesInOrder ==
    \A s, d \in Services :
        job[s] # "none" /\ stage[d] # 0 /\ stage[d] < stage[s] => chan[d] = "closed"
=============================================================================
