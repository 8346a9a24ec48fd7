----------------------------- MODULE ContainerLife -----------------------------
(***************************************************************************)
(* What core0 promises about containers (corex.create, corex.terminate and *)
(* corex.dispatch of core0/containers): a container has a number that no   *)
(* other has, it runs only on complete mounts, which stay as long as it    *)
(* lives, it lives once, when it is gone so are its mounts, but for those  *)
(* that could not be unmounted, and a command that was dispatched to it is *)
(* served once, by it or, when it is gone, by the next container with its  *)
(* number.                                                                 *)
(***************************************************************************)
CONSTANTS Creates, Dispatches, Target, None,
          Numbers,     \* what a container can be called
          Paths,       \* the mount points a container needs
          Busy         \* container -> those that may refuse to go, among others

VARIABLES life,        \* where each container is
          number,      \* its number, once it is being built
          holds,       \* the mount points where something is mounted for it
          server       \* the container that served a dispatched command, or None

lifeVars == <<life, number, holds, server>>

\* The containers that have a number of their own: it is free again when there is neither
\* life nor a mount left.
Named == {c \in Creates : \/ life[c] \in {"building", "live", "ending"}
                          \/ life[c] = "gone" /\ holds[c] # {}}

LifeInit ==
    /\ life = [c \in Creates |-> "none"]
    /\ number \in [Creates -> Numbers]
    /\ holds = [c \in Creates |-> {}]
    /\ server = [d \in Dispatches |-> None]

Refuse(c) ==
    /\ life[c] = "none"
    /\ life' = [life EXCEPT ![c] = "refused"]
    /\ UNCHANGED <<number, holds, server>>

\* A number that nobody has.
Create(c) ==
    /\ life[c] = "none"
    /\ life' = [life EXCEPT ![c] = "building"]
    /\ \E i \in Numbers \ {number[e] : e \in Named} : number' = [number EXCEPT ![c] = i]
    /\ UNCHANGED <<holds, server>>

Mount(c) ==
    /\ life[c] = "building"
    /\ \E w \in Paths \ holds[c] : holds' = [holds EXCEPT ![c] = @ \cup {w}]
    /\ UNCHANGED <<life, number, server>>

Start(c) ==
    /\ life[c] = "building"
    /\ holds[c] = Paths
    /\ life' = [life EXCEPT ![c] = "live"]
    /\ UNCHANGED <<number, holds, server>>

\* It could not be built or started, or it has ended.
End(c) ==
    /\ life[c] \in {"building", "live"}
    /\ life' = [life EXCEPT ![c] = "ending"]
    /\ UNCHANGED <<number, holds, server>>

Remove(c) ==
    /\ life[c] = "ending"
    /\ life' = [life EXCEPT ![c] = "gone"]
    /\ \E left \in SUBSET (holds[c] \cap Busy[c]) : holds' = [holds EXCEPT ![c] = left]
    /\ UNCHANGED <<number, server>>

Serve(d) ==
    /\ server[d] = None
    /\ \E c \in Creates :
         /\ life[c] = "live" /\ number[c] = number[Target[d]]
         /\ c = Target[d] \/ life[Target[d]] = "gone"
         /\ server' = [server EXCEPT ![d] = c]
    /\ UNCHANGED <<life, number, holds>>

LifeNext ==
    \/ \E c \in Creates : Refuse(c) \/ Create(c) \/ Mount(c) \/ Start(c) \/ End(c) \/ Remove(c)
    \/ \E d \in Dispatches : Serve(d)

LifeSpec == LifeInit /\ [][LifeNext]_lifeVars
=============================================================================
