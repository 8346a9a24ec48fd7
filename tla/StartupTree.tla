------------------------------ MODULE StartupTree ------------------------------
(***************************************************************************)
(* The tree of startup services (base/settings/startup.go, tree.go): the   *)
(* weight of every service, computed along its After lists, and the slices *)
(* of services that Bootstrap starts one after the other.                  *)
(*                                                                         *)
(* A configuration is a function from services to their After list, a      *)
(* sequence of names: keywords (init, net, boot) or other services.        *)
(***************************************************************************)
EXTENDS Integers, Sequences, FiniteSets

CONSTANT Services     \* the keys of the startup sections

ASSUME ServicesAssumption == IsFiniteSet(Services)

\* Priority, as far as an After list should name it.
Priority == [init |-> 1, net |-> 1000, boot |-> 1000000]

\* A computation that may fail with an error: no value, or one.
Failed == <<>>
Value(v) == <<v>>

\* Mutant: an unknown name is ignored.
UnknownIgnored == Value(0)

\* A name that is neither a keyword nor a service is an error.
UnknownDependency == Failed

\* The weights of all names of an After list are added up.
NextSum(parts, sum, k) == IF k = 0 THEN 0 ELSE sum[k - 1] + parts[k][1]
Sums(parts) == LET sum[k \in 0 .. Len(parts)] == NextSum(parts, sum, k) IN sum
Total(parts) == Value(Sums(parts)[Len(parts)])

\* The weight of a name in an After list; chain has led to it, and w are the weights of
\* services at the end of a chain.
PartOf(w, chain, n) ==
    IF n \in DOMAIN Priority THEN Value(Priority[n])
    ELSE IF n \in Services THEN w[<<chain, n>>]
    ELSE UnknownDependency

\* Startup.Weight(i, chain...) of service s.  A service met again is a cyclic dependency,
\* an empty After list counts as boot.
WeightAfter(after, w, chain, s) ==
    LET parts == [k \in DOMAIN after[s] |-> PartOf(w, chain \cup {s}, after[s][k])]
    IN IF s \in chain THEN Failed
       ELSE IF after[s] = <<>> THEN Value(Priority["boot"])
       ELSE IF \E k \in DOMAIN parts : parts[k] = Failed THEN Failed
       ELSE Total(parts)

\* A service with the services it was reached along.
Chains == (SUBSET Services) \X Services

ChainWeight(after) ==
    LET W[p \in Chains] == WeightAfter(after, W, p[1], p[2]) IN W

Weight(after) == [s \in Services |-> ChainWeight(after)[<<{}, s>>]]

\* GetStartupTree leaves out the services whose weight cannot be computed, and
\* Slice(s, e) is what weighs at least s and less than e, -1 meaning no limit.
Slice(after, s, e) ==
    LET weight == Weight(after)
    IN {x \in Services : /\ weight[x] # Failed
                         /\ weight[x][1] >= s
                         /\ weight[x][1] < e \/ e = -1}

\* The three slices of Bootstrap, in the order they are started.
Stages == 1 .. 3

StageSlice(after) ==
    << Slice(after, Priority["init"], Priority["net"]),
       Slice(after, Priority["net"], Priority["boot"]),
       Slice(after, Priority["boot"], -1) >>

\* The stage of every service, 0 for those that no slice has.
StageOf(after) ==
    LET slices == StageSlice(after)
    IN [x \in Services |-> IF \E k \in Stages : x \in slices[k]
                           THEN CHOOSE k \in Stages : x \in slices[k]
                           ELSE 0]

-----------------------------------------------------------------------------
(* What the tree should be, by sets of services that are closed under what they need. *)

Listed(after, s) == {after[s][k] : k \in DOMAIN after[s]}

\* The services that s names: a keyword is never one.
Needs(after, s) == (Listed(after, s) \cap Services) \ DOMAIN Priority

Closed(after, C) == \A s \in C : Needs(after, s) \subseteq C

\* What s needs, directly or not: the least set with what it names that is closed.
Below(after, s) ==
    {d \in Services : \A C \in SUBSET Services :
                          Needs(after, s) \subseteq C /\ Closed(after, C) => d \in C}

\* A service is sound when nothing it needs, directly or not, needs itself or names
\* something that does not exist.
Sound(after, s) ==
    \A d \in {s} \cup Below(after, s) :
        d \notin Below(after, d) /\ Listed(after, d) \subseteq Services \cup DOMAIN Priority

\* The tree has exactly the sound services: "a broken service MUST NOT bring the whole
\* system down" (tree.go:69) and takes only those that need it with it.
OnlySound(after) == \A s \in Services : Weight(after)[s] # Failed <=> Sound(after, s)

\* A service is never in an earlier slice than what it needs: StateMachine.Wait ignores
\* names that are not in its slice (waitmachine.go:50), so the weights alone keep it from
\* starting too early.
NoneBefore(after) ==
    LET stage == StageOf(after) IN
    \A s \in Services : stage[s] # 0 => \A d \in Needs(after, s) : stage[d] \in 1 .. stage[s]
=============================================================================
