----------------------------- MODULE MCContainers -----------------------------
(***************************************************************************)
(* Instances of Containers for two numbers, with a command for c2:         *)
(*   - one with everything a container may have, and a create that is      *)
(*     refused;                                                            *)
(*   - a plain container, one whose root cannot be mounted, and a plain    *)
(*     one that gets the number of the first again.                        *)
(***************************************************************************)
EXTENDS Containers

CONSTANTS c1, c2, c3, d1

Plain    == [valid |-> TRUE, root |-> TRUE, zerotier |-> FALSE, bridge |-> FALSE,
             port |-> FALSE, after |-> {}]
Full     == [Plain EXCEPT !.zerotier = TRUE, !.bridge = TRUE, !.port = TRUE]
Rootless == [Plain EXCEPT !.root = FALSE]
Invalid  == [Plain EXCEPT !.valid = FALSE]
Unsent   == [Plain EXCEPT !.after = Creates]

MCArgSets == {(c1 :> Full @@ c2 :> Invalid @@ c3 :> Unsent),
              (c1 :> [Rootless EXCEPT !.after = {c2}] @@ c2 :> Plain
                 @@ c3 :> [Plain EXCEPT !.after = {c1}])}

MCBusy == [c \in Creates |-> IF c = c1 THEN {"data", "ns", "bridge"} ELSE {}]

MCTarget == [d \in Dispatches |-> c2]
===============================================================================
