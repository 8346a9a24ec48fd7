----------------------------- MODULE MachineProofs -----------------------------
(***************************************************************************)
(* Proofs about Boot, Network, the Machine that composes them, and the     *)
(* commands on its Bridges: for any number of services, interfaces and     *)
(* commands, and every configuration, cyclic and unknown dependencies      *)
(* included.                                                               *)
(*                                                                         *)
(* The startup tree comes first: ChainInduction shows a fact of a service  *)
(* at the end of a chain from the same fact of longer chains, of which     *)
(* there are no more once a chain has all services.                        *)
(*                                                                         *)
(* BootInv, the inductive invariant of Boot: what a service was released   *)
(* with is backed by its hook or its exit (UpInv); a goroutine that may    *)
(* still run its service has only passed dependencies that came up         *)
(* (WaitInv); a runner exists only when its goroutine is through (JobInv); *)
(* Bootstrap leaves a slice only when all of it was released (SliceInv);   *)
(* and the slices are those of the startup tree (TreeInv).  Machine        *)
(* implements Boot, so BootInv holds there as well.                        *)
(*                                                                         *)
(* NetInv, that of Network: at most one interface is away from its         *)
(* configuration, and only while it is being tested with a forced dhcp.    *)
(*                                                                         *)
(* BridgesInv, that of Bridges: an index names one link for good           *)
(* (IndexInv), a runner belongs to the create that started it (RunnerInv), *)
(* and where the commands on a name came one after the other, bridge and   *)
(* dnsmasq are in step but for the last steps of a delete (AloneInv).      *)
(***************************************************************************)
EXTENDS Machine, Bridges, FiniteSetTheorems, WellFoundedInduction, TLAPS

-----------------------------------------------------------------------------
(* The startup tree                                                        *)

\* Every set of numbers that is not empty has a least one: induction, without a parameter
\* for what is shown.
LEMMA LeastNumber ==
    ASSUME NEW T \in SUBSET Nat, T # {}
    PROVE  \E n \in T : \A m \in T : n <= m
<1>1. PICK R : R = OpToRel(<, Nat) OBVIOUS
<1>2. IsWellFoundedOn(R, Nat) BY <1>1, NatLessThanWellFounded
<1>3. PICK n \in T : \A m \in T : <<m, n>> \notin R BY <1>2, WFMin
<1>4. \A m \in T : m < n => <<m, n>> \in R BY <1>1 DEF OpToRel
<1>5. \A m \in T : ~(m < n) BY <1>3, <1>4
<1> QED BY <1>5

\* The sums are defined.
LEMMA SumsAre ==
    ASSUME NEW parts, NEW N \in Nat, N = Len(parts)
    PROVE  /\ Sums(parts)[0] = 0
           /\ \A k \in 1 .. N : Sums(parts)[k] = Sums(parts)[k - 1] + parts[k][1]
<1> DEFINE D == 0 .. N
           Right(f, m) == f = [k \in D |-> f[k]] /\ \A k \in D : k < m => f[k] = NextSum(parts, f, k)
<1>1. PICK T : T = {m \in Nat : \A f : ~Right(f, m)} OBVIOUS
<1>2. T = {}
  <2> SUFFICES ASSUME T # {} PROVE FALSE OBVIOUS
  <2>1. T \in SUBSET Nat BY <1>1
  <2>2. PICK m \in T : \A j \in T : m <= j BY <2>1, LeastNumber
  <2>3. m \in Nat BY <2>1
  <2>4. m # 0
    <3>1. PICK f : f = [k \in D |-> 0] OBVIOUS
    <3>2. f = [k \in D |-> f[k]] BY <3>1
    <3>3. \A k \in D : ~(k < 0) OBVIOUS
    <3>4. Right(f, 0) BY <3>2, <3>3
    <3>5. 0 \notin T BY <1>1, <3>4
    <3> QED BY <2>2, <3>5
  <2>5. PICK n \in Nat : m = n + 1 BY <2>3, <2>4
  <2>6. n \notin T BY <2>2, <2>5
  <2>7. PICK f : Right(f, n) BY <1>1, <2>6
  <2>8. PICK g : g = [k \in D |-> NextSum(parts, f, k)] OBVIOUS
  <2>9. g = [k \in D |-> g[k]] BY <2>8
  <2>10. ASSUME NEW k \in D, k < m PROVE g[k] = NextSum(parts, g, k)
    <3>1. CASE k = 0 BY <2>8, <3>1 DEF NextSum
    <3>2. CASE k # 0
      <4>1. k - 1 \in D /\ k - 1 < n BY <2>5, <2>10, <3>2
      <4>2. g[k - 1] = f[k - 1] BY <2>7, <2>8, <4>1
      <4> QED BY <2>8, <4>2 DEF NextSum
    <3> QED BY <3>1, <3>2
  <2>11. Right(g, m) BY <2>9, <2>10
  <2> QED BY <1>1, <2>2, <2>11
<1>3. PICK f : Right(f, N + 1)
  <2>1. N + 1 \in Nat OBVIOUS
  <2> QED BY <1>1, <1>2, <2>1
<1>4. \A k \in D : k < N + 1 OBVIOUS
<1>5. f = [k \in D |-> NextSum(parts, f, k)]
  <2>1. \A k \in D : f[k] = NextSum(parts, f, k) BY <1>3, <1>4
  <2> QED BY <1>3, <2>1
<1>6. Sums(parts) = CHOOSE g : g = [k \in D |-> NextSum(parts, g, k)] BY DEF Sums
<1>7. PICK h : h = Sums(parts) OBVIOUS
<1>8. h = [k \in D |-> NextSum(parts, h, k)] BY <1>5, <1>6, <1>7
<1>9. \A k \in D : h[k] = NextSum(parts, h, k) BY <1>8
<1>10. 0 \in D /\ \A k \in 1 .. N : k \in D /\ k # 0 OBVIOUS
<1> HIDE DEF D
<1> QED BY <1>7, <1>9, <1>10 DEF NextSum

\* A weight that was computed.
Weighs(v) == v = Failed \/ \E n \in Nat \ {0} : v = Value(n)

\* A sum of weights is a weight, and no less than any of them.
LEMMA TotalGrows ==
    ASSUME NEW parts, NEW N \in Nat, N = Len(parts),
           \A k \in 1 .. N : parts[k] # Failed /\ Weighs(parts[k])
    PROVE  \E t \in Nat :
             /\ Total(parts) = Value(t)
             /\ \A k \in 1 .. N : parts[k][1] \in Nat /\ parts[k][1] <= t /\ parts[k][1] >= 1
<1>1. \A k \in 1 .. N : parts[k][1] \in Nat /\ parts[k][1] >= 1 BY DEF Weighs, Value
<1>2. PICK f : f = Sums(parts) OBVIOUS
<1>3. f[0] = 0 /\ \A k \in 1 .. N : f[k] = f[k - 1] + parts[k][1] BY <1>2, SumsAre
<1> DEFINE Grown(m) == f[m] \in Nat /\ \A k \in 1 .. m : parts[k][1] <= f[m]
<1>4. PICK T : T = {m \in 0 .. N : ~Grown(m)} OBVIOUS
<1>5. T = {}
  <2> SUFFICES ASSUME T # {} PROVE FALSE OBVIOUS
  <2>1. T \in SUBSET Nat BY <1>4
  <2>2. PICK m \in T : \A j \in T : m <= j BY <2>1, LeastNumber
  <2>3. m \in 0 .. N /\ ~Grown(m) BY <1>4, <2>2
  <2>4. Grown(0) BY <1>3
  <2>5. m # 0 BY <2>3, <2>4
  <2>6. PICK n \in 0 .. N : m = n + 1 BY <2>3, <2>5
  <2>7. n \notin T BY <2>2, <2>6
  <2>8. Grown(n) BY <1>4, <2>7
  <2>9. m \in 1 .. N /\ m - 1 = n BY <2>3, <2>6
  <2>10. f[m] = f[n] + parts[m][1] BY <1>3, <2>9
  <2>11. parts[m][1] \in Nat BY <1>1, <2>9
  <2>12. f[m] \in Nat /\ f[n] <= f[m] /\ parts[m][1] <= f[m] BY <2>8, <2>10, <2>11
  <2>13. ASSUME NEW k \in 1 .. m PROVE parts[k][1] <= f[m]
    <3>1. CASE k = m BY <2>12, <3>1
    <3>2. CASE k # m
      <4>1. k \in 1 .. n /\ k \in 1 .. N BY <2>6, <2>9, <3>2
      <4>2. parts[k][1] <= f[n] /\ parts[k][1] \in Nat BY <1>1, <2>8, <4>1
      <4> QED BY <2>8, <2>12, <4>2
    <3> QED BY <3>1, <3>2
  <2>14. Grown(m) BY <2>12, <2>13
  <2> QED BY <2>3, <2>14
<1>6. Grown(N) BY <1>4, <1>5
<1> QED BY <1>1, <1>2, <1>6 DEF Total

-----------------------------------------------------------------------------
(* Chains *)

\* The services that are not in a chain yet.
Rank(C) == Cardinality(Services \ C)

\* A chain gets longer.
LEMMA RankFalls ==
    ASSUME NEW C \in SUBSET Services, NEW s \in Services
    PROVE  /\ Rank(C) \in Nat /\ C \cup {s} \in SUBSET Services
           /\ s \notin C => Rank(C \cup {s}) < Rank(C)
<1>1. PICK A, B : A = Services \ C /\ B = Services \ (C \cup {s}) OBVIOUS
<1>2. IsFiniteSet(A) /\ IsFiniteSet(B) BY <1>1, ServicesAssumption, FS_Subset
<1>3. Cardinality(A) \in Nat /\ Cardinality(B) \in Nat BY <1>2, FS_CardinalityType
<1>4. ASSUME s \notin C PROVE Cardinality(B) < Cardinality(A)
  <2>1. A = B \cup {s} /\ s \notin B BY <1>1, <1>4
  <2>2. Cardinality(B \cup {s}) = Cardinality(B) + 1 BY <1>2, <2>1, FS_AddElement
  <2> QED BY <1>3, <2>1, <2>2
<1> QED BY <1>1, <1>3, <1>4 DEF Rank

\* Induction over chains: what is shown of a service at the end of a chain may be assumed
\* of the longer chains.
LEMMA ChainInduction ==
    ASSUME NEW B \in SUBSET Chains,
           \A C \in SUBSET Services : \A s \in Services :
               s \in C \/ (\A n \in Services : <<C \cup {s}, n>> \notin B) => <<C, s>> \notin B
    PROVE  B = {}
<1> SUFFICES ASSUME B # {} PROVE FALSE OBVIOUS
<1>1. PICK T : T = {m \in Nat : \E C \in SUBSET Services : \E s \in Services : <<C, s>> \in B /\ Rank(C) = m} OBVIOUS
<1>2. T \in SUBSET Nat BY <1>1
<1>3. T # {}
  <2>a. PICK p : p \in B OBVIOUS
  <2>b. p \in Chains BY <2>a
  <2>c. PICK C \in SUBSET Services, s \in Services : p = <<C, s>> BY <2>b DEF Chains
  <2>1. <<C, s>> \in B BY <2>a, <2>c
  <2>2. Rank(C) \in Nat BY RankFalls
  <2>3. Rank(C) \in T BY <1>1, <2>1, <2>2
  <2> QED BY <2>3
<1>4. PICK m \in T : \A j \in T : m <= j BY <1>2, <1>3, LeastNumber
<1>5. PICK C \in SUBSET Services, s \in Services : <<C, s>> \in B /\ Rank(C) = m BY <1>1, <1>4
<1>6. s \notin C BY <1>5
<1>7. PICK n \in Services : <<C \cup {s}, n>> \in B BY <1>5
<1>8. PICK D : D = C \cup {s} OBVIOUS
<1>9. D \in SUBSET Services /\ Rank(D) < m /\ m \in Nat BY <1>5, <1>6, <1>8, RankFalls
<1>10. Rank(D) \in Nat BY <1>9, RankFalls
<1>11. Rank(D) \in T BY <1>1, <1>7, <1>8, <1>9, <1>10
<1> QED BY <1>4, <1>9, <1>10, <1>11

\* The weight at the end of a chain depends only on those at the ends of longer chains.
LEMMA WeightAgrees ==
    ASSUME NEW after, NEW C, NEW s, NEW v, NEW w,
           s \in C \/ \A n \in Services : v[<<C \cup {s}, n>>] = w[<<C \cup {s}, n>>]
    PROVE  WeightAfter(after, v, C, s) = WeightAfter(after, w, C, s)
<1>1. CASE s \in C BY <1>1 DEF WeightAfter
<1>2. CASE s \notin C
  <2>1. \A n : PartOf(v, C \cup {s}, n) = PartOf(w, C \cup {s}, n) BY <1>2 DEF PartOf
  <2>2. [k \in DOMAIN after[s] |-> PartOf(v, C \cup {s}, after[s][k])]
          = [k \in DOMAIN after[s] |-> PartOf(w, C \cup {s}, after[s][k])]
    BY <2>1
  <2> QED BY <2>2 DEF WeightAfter
<1> QED BY <1>1, <1>2

\* The weights are defined.
LEMMA ChainWeightIs ==
    ASSUME NEW after, NEW C \in SUBSET Services, NEW s \in Services
    PROVE  ChainWeight(after)[<<C, s>>] = WeightAfter(after, ChainWeight(after), C, s)
<1> DEFINE Right(f, m) ==
             /\ f = [p \in Chains |-> f[p]]
             /\ \A A \in SUBSET Services : \A x \in Services :
                  Rank(A) < m => f[<<A, x>>] = WeightAfter(after, f, A, x)
<1>0. \A A \in SUBSET Services : \A x \in Services : <<A, x>> \in Chains /\ <<A, x>>[1] = A /\ <<A, x>>[2] = x
  BY DEF Chains
<1>a. \A A \in SUBSET Services : Rank(A) \in Nat BY RankFalls
<1>1. PICK T : T = {m \in Nat : \A f : ~Right(f, m)} OBVIOUS
<1>2. T = {}
  <2> SUFFICES ASSUME T # {} PROVE FALSE OBVIOUS
  <2>1. T \in SUBSET Nat BY <1>1
  <2>2. PICK m \in T : \A j \in T : m <= j BY <2>1, LeastNumber
  <2>3. m \in Nat BY <2>1
  <2>4. m # 0
    <3>1. PICK f : f = [p \in Chains |-> 0] OBVIOUS
    <3>2. f = [p \in Chains |-> f[p]] BY <3>1
    <3>3. \A A \in SUBSET Services : ~(Rank(A) < 0) BY <1>a
    <3>4. Right(f, 0) BY <3>2, <3>3
    <3>5. 0 \notin T BY <1>1, <3>4
    <3> QED BY <2>2, <3>5
  <2>5. PICK n \in Nat : m = n + 1 BY <2>3, <2>4
  <2>6. n \notin T BY <2>2, <2>5
  <2>7. PICK f : Right(f, n) BY <1>1, <2>6
  <2>8. PICK g : g = [p \in Chains |-> WeightAfter(after, f, p[1], p[2])] OBVIOUS
  <2>9. g = [p \in Chains |-> g[p]] BY <2>8
  <2>b. \A A \in SUBSET Services : \A x \in Services : g[<<A, x>>] = WeightAfter(after, f, A, x)
    BY <1>0, <2>8
  <2>10. ASSUME NEW A \in SUBSET Services, NEW x \in Services, Rank(A) < m
         PROVE  g[<<A, x>>] = WeightAfter(after, g, A, x)
    <3>1. CASE x \in A BY <2>b, <3>1, WeightAgrees
    <3>2. CASE x \notin A
      <4>1. PICK D : D = A \cup {x} OBVIOUS
      <4>2. D \in SUBSET Services /\ Rank(D) < Rank(A) /\ Rank(A) \in Nat BY <3>2, <4>1, RankFalls
      <4>3. Rank(D) \in Nat BY <1>a, <4>2
      <4>4. Rank(D) < n BY <2>5, <2>10, <4>2, <4>3
      <4>5. \A y \in Services : g[<<D, y>>] = f[<<D, y>>] BY <2>7, <2>b, <4>2, <4>4
      <4>6. WeightAfter(after, f, A, x) = WeightAfter(after, g, A, x) BY <4>1, <4>5, WeightAgrees
      <4> QED BY <2>b, <4>6
    <3> QED BY <3>1, <3>2
  <2>11. Right(g, m) BY <2>9, <2>10
  <2> QED BY <1>1, <2>2, <2>11
<1>3. PICK N \in Nat : \A A \in SUBSET Services : Rank(A) < N
  <2>1. PICK M \in Nat : M = Cardinality(Services) BY ServicesAssumption, FS_CardinalityType
  <2>2. \A A \in SUBSET Services : Rank(A) <= M BY <2>1, ServicesAssumption, FS_Subset DEF Rank
  <2>3. \A A \in SUBSET Services : Rank(A) < M + 1 BY <1>a, <2>2
  <2> QED BY <2>3
<1>4. PICK f : Right(f, N) BY <1>1, <1>2
<1>5. f = [p \in Chains |-> WeightAfter(after, f, p[1], p[2])]
  <2>1. \A p \in Chains : f[p] = WeightAfter(after, f, p[1], p[2])
    <3> SUFFICES ASSUME NEW p \in Chains PROVE f[p] = WeightAfter(after, f, p[1], p[2]) OBVIOUS
    <3>1. PICK A \in SUBSET Services, x \in Services : p = <<A, x>> BY DEF Chains
    <3> QED BY <1>3, <1>4, <3>1
  <2> QED BY <1>4, <2>1
<1>6. ChainWeight(after) = CHOOSE g : g = [p \in Chains |-> WeightAfter(after, g, p[1], p[2])] BY DEF ChainWeight
<1>7. PICK h : h = ChainWeight(after) OBVIOUS
<1>8. h = [p \in Chains |-> WeightAfter(after, h, p[1], p[2])] BY <1>5, <1>6, <1>7
<1>9. h[<<C, s>>] = WeightAfter(after, h, C, s) BY <1>0, <1>8
<1> QED BY <1>7, <1>9

\* The weight of s at the end of the chain C is what its N parts come to.
AddsUp(after, w, C, s, N, parts) ==
    /\ N \in Nat /\ DOMAIN after[s] = 1 .. N /\ (N = 0 <=> after[s] = << >>)
    /\ N = Len(parts) /\ DOMAIN parts = 1 .. N
    /\ \A k \in 1 .. N : parts[k] = PartOf(w, C \cup {s}, after[s][k])
    /\ w[<<C, s>>] = IF s \in C THEN Failed
                     ELSE IF N = 0 THEN Value(Priority["boot"])
                     ELSE IF \E k \in 1 .. N : parts[k] = Failed THEN Failed
                     ELSE Total(parts)

LEMMA PartsOf ==
    ASSUME NEW after, \A x \in Services : after[x] \in Seq(STRING),
           NEW C \in SUBSET Services, NEW s \in Services
    PROVE  \E N, parts : AddsUp(after, ChainWeight(after), C, s, N, parts)
<1>1. PICK w, N : w = ChainWeight(after) /\ N = Len(after[s]) OBVIOUS
<1>2. N \in Nat /\ DOMAIN after[s] = 1 .. N /\ (N = 0 <=> after[s] = << >>) BY <1>1
<1>3. PICK parts : parts = [k \in 1 .. N |-> PartOf(w, C \cup {s}, after[s][k])] OBVIOUS
<1>4. Len(parts) = N /\ DOMAIN parts = 1 .. N BY <1>2, <1>3
<1>5. w[<<C, s>>] = WeightAfter(after, w, C, s) BY <1>1, ChainWeightIs
<1>6. w[<<C, s>>] = IF s \in C THEN Failed
                    ELSE IF N = 0 THEN Value(Priority["boot"])
                    ELSE IF \E k \in 1 .. N : parts[k] = Failed THEN Failed
                    ELSE Total(parts)
  BY <1>2, <1>3, <1>4, <1>5 DEF WeightAfter
<1>7. \A k \in 1 .. N : parts[k] = PartOf(w, C \cup {s}, after[s][k]) BY <1>3
<1>8. AddsUp(after, w, C, s, N, parts) BY <1>2, <1>4, <1>6, <1>7 DEF AddsUp
<1> QED BY <1>1, <1>8

\* Keywords weigh something.
LEMMA KeywordsWeigh ==
    /\ \A n \in DOMAIN Priority : Weighs(Value(Priority[n])) /\ Value(Priority[n]) # Failed
    /\ "boot" \in DOMAIN Priority /\ Weighs(Failed) /\ UnknownDependency = Failed
    /\ \A v : Value(v) # Failed
<1>1. \A v : Value(v) # Failed BY DEF Value, Failed
<1>2. \A n \in DOMAIN Priority : Priority[n] \in Nat \ {0} BY DEF Priority
<1>3. "boot" \in DOMAIN Priority BY DEF Priority
<1> QED BY <1>1, <1>2, <1>3 DEF Weighs, UnknownDependency

\* Every weight is a positive number, or could not be computed.
LEMMA WeightsWeigh ==
    ASSUME NEW after, \A x \in Services : after[x] \in Seq(STRING),
           NEW C \in SUBSET Services, NEW s \in Services
    PROVE  Weighs(ChainWeight(after)[<<C, s>>])
<1>1. PICK w : w = ChainWeight(after) OBVIOUS
<1>2. PICK B : B = {p \in Chains : ~Weighs(w[p])} OBVIOUS
<1>3. ASSUME NEW A \in SUBSET Services, NEW x \in Services,
             x \in A \/ \A n \in Services : <<A \cup {x}, n>> \notin B
      PROVE  <<A, x>> \notin B
  <2>a. PICK N, parts : AddsUp(after, w, A, x, N, parts) BY <1>1, PartsOf
  <2>1. /\ N \in Nat /\ N = Len(parts)
        /\ \A k \in 1 .. N : parts[k] = PartOf(w, A \cup {x}, after[x][k])
        /\ w[<<A, x>>] = IF x \in A THEN Failed
                         ELSE IF N = 0 THEN Value(Priority["boot"])
                         ELSE IF \E k \in 1 .. N : parts[k] = Failed THEN Failed
                         ELSE Total(parts)
    BY <2>a DEF AddsUp
  <2>2. CASE x \in A BY <1>2, <2>1, <2>2, KeywordsWeigh
  <2>3. CASE x \notin A /\ N = 0 BY <1>2, <2>1, <2>3, KeywordsWeigh
  <2>4. CASE x \notin A /\ \E k \in 1 .. N : parts[k] = Failed
    <3>1. N # 0 BY <2>1, <2>4
    <3> QED BY <1>2, <2>1, <2>4, <3>1, KeywordsWeigh
  <2>5. CASE x \notin A /\ N # 0 /\ ~\E k \in 1 .. N : parts[k] = Failed
    <3>1. \A n \in Services : <<A \cup {x}, n>> \in Chains BY DEF Chains
    <3>2. \A n \in Services : Weighs(w[<<A \cup {x}, n>>]) BY <1>2, <1>3, <2>5, <3>1
    <3>3. \A k \in 1 .. N : Weighs(parts[k]) BY <2>1, <3>2, KeywordsWeigh DEF PartOf
    <3>4. PICK t \in Nat :
      /\ Total(parts) = Value(t)
      /\ \A k \in 1 .. N : parts[k][1] \in Nat /\ parts[k][1] <= t /\ parts[k][1] >= 1
      BY <2>1, <2>5, <3>3, TotalGrows
    <3>5. 1 \in 1 .. N BY <2>1, <2>5
    <3>6. t \in Nat \ {0} BY <3>4, <3>5
    <3>7. Weighs(Total(parts)) BY <3>4, <3>6 DEF Weighs
    <3> QED BY <1>2, <2>1, <2>5, <3>7
  <2> QED BY <2>2, <2>3, <2>4, <2>5
<1>4. B \in SUBSET Chains BY <1>2
<1>5. B = {} BY <1>3, <1>4, ChainInduction
<1>6. <<C, s>> \in Chains BY DEF Chains
<1> QED BY <1>1, <1>2, <1>5, <1>6

\* A weight that can be computed does not depend on how the service was reached.
LEMMA SameWeight ==
    ASSUME NEW after, \A x \in Services : after[x] \in Seq(STRING),
           NEW C \in SUBSET Services, NEW D \in SUBSET C, NEW s \in Services,
           ChainWeight(after)[<<C, s>>] # Failed
    PROVE  ChainWeight(after)[<<D, s>>] = ChainWeight(after)[<<C, s>>]
<1>1. PICK w : w = ChainWeight(after) OBVIOUS
<1>2. PICK B : B = {p \in Chains : w[p] # Failed /\ \E E \in SUBSET p[1] : w[<<E, p[2]>>] # w[p]} OBVIOUS
<1>a. \A A \in SUBSET Services : \A x \in Services :
        /\ <<A, x>> \in Chains
        /\ <<A, x>> \in B <=> w[<<A, x>>] # Failed /\ \E E \in SUBSET A : w[<<E, x>>] # w[<<A, x>>]
  BY <1>2 DEF Chains
<1>3. ASSUME NEW A \in SUBSET Services, NEW x \in Services,
             x \in A \/ \A n \in Services : <<A \cup {x}, n>> \notin B
      PROVE  <<A, x>> \notin B
  <2> SUFFICES ASSUME w[<<A, x>>] # Failed, NEW E \in SUBSET A PROVE w[<<E, x>>] = w[<<A, x>>]
    BY <1>a
  <2>a. PICK N, parts : AddsUp(after, w, A, x, N, parts) BY <1>1, PartsOf
  <2>1. /\ DOMAIN after[x] = 1 .. N /\ (N = 0 <=> after[x] = << >>)
        /\ \A k \in 1 .. N : parts[k] = PartOf(w, A \cup {x}, after[x][k])
        /\ w[<<A, x>>] = IF x \in A THEN Failed
                         ELSE IF N = 0 THEN Value(Priority["boot"])
                         ELSE IF \E k \in 1 .. N : parts[k] = Failed THEN Failed
                         ELSE Total(parts)
    BY <2>a DEF AddsUp
  <2>2. x \notin A /\ (N # 0 => \A k \in 1 .. N : parts[k] # Failed) BY <2>1
  <2>3. E \in SUBSET Services /\ x \notin E BY <2>2
  <2>4. WeightAfter(after, w, A, x) = w[<<A, x>>] /\ WeightAfter(after, w, E, x) = w[<<E, x>>]
    BY <1>1, <2>3, ChainWeightIs
  <2>5. CASE N = 0
    <3>1. after[x] = << >> BY <2>1, <2>5
    <3> QED BY <2>2, <2>3, <2>4, <3>1 DEF WeightAfter
  <2>6. CASE N # 0
    <3>1. DOMAIN after[x] = 1 .. N BY <2>1
    <3>2. PICK F, G : F = A \cup {x} /\ G = E \cup {x} OBVIOUS
    <3>3. F \in SUBSET Services /\ G \in SUBSET F BY <3>2
    <3>4. ASSUME NEW k \in 1 .. N PROVE PartOf(w, G, after[x][k]) = PartOf(w, F, after[x][k])
      <4>1. PICK n : n = after[x][k] OBVIOUS
      <4>2. PartOf(w, F, n) # Failed BY <2>1, <2>2, <2>6, <3>2, <4>1
      <4>3. CASE n \in DOMAIN Priority BY <4>1, <4>3 DEF PartOf
      <4>4. CASE n \notin DOMAIN Priority /\ n \in Services
        <5>1. w[<<F, n>>] # Failed /\ <<F, n>> \notin B BY <1>3, <2>2, <3>2, <4>2, <4>4 DEF PartOf
        <5>2. w[<<G, n>>] = w[<<F, n>>] BY <1>a, <3>3, <4>4, <5>1
        <5> QED BY <4>1, <4>4, <5>2 DEF PartOf
      <4>5. CASE n \notin DOMAIN Priority /\ n \notin Services BY <4>1, <4>5 DEF PartOf
      <4> QED BY <4>3, <4>4, <4>5
    <3>5. [k \in DOMAIN after[x] |-> PartOf(w, G, after[x][k])] = [k \in DOMAIN after[x] |-> PartOf(w, F, after[x][k])]
      BY <3>1, <3>4
    <3>6. WeightAfter(after, w, E, x) = WeightAfter(after, w, A, x) BY <2>2, <2>3, <3>2, <3>5 DEF WeightAfter
    <3> QED BY <2>4, <3>6
  <2> QED BY <2>5, <2>6
<1>4. B \in SUBSET Chains BY <1>2
<1>5. B = {} BY <1>3, <1>4, ChainInduction
<1> QED BY <1>1, <1>5, <1>a

\* A weight that can be computed names nothing unknown, and is no less than the weights it
\* is made of.
LEMMA WeightOfNeeds ==
    ASSUME NEW after, \A x \in Services : after[x] \in Seq(STRING),
           NEW C \in SUBSET Services, NEW s \in Services, NEW w, w = ChainWeight(after), w[<<C, s>>] # Failed
    PROVE  /\ s \notin C /\ Listed(after, s) \subseteq Services \cup DOMAIN Priority
           /\ \A d \in Needs(after, s) : w[<<C \cup {s}, d>>] # Failed /\ w[<<C \cup {s}, d>>][1] <= w[<<C, s>>][1]
<1>1. PICK N, parts : AddsUp(after, w, C, s, N, parts) BY PartsOf
<1>2. /\ N \in Nat /\ DOMAIN after[s] = 1 .. N /\ N = Len(parts)
      /\ \A k \in 1 .. N : parts[k] = PartOf(w, C \cup {s}, after[s][k])
      /\ w[<<C, s>>] = IF s \in C THEN Failed
                       ELSE IF N = 0 THEN Value(Priority["boot"])
                       ELSE IF \E k \in 1 .. N : parts[k] = Failed THEN Failed
                       ELSE Total(parts)
  BY <1>1 DEF AddsUp
<1>3. s \notin C /\ (N # 0 => w[<<C, s>>] = Total(parts)) BY <1>2
<1>a. N # 0 => \A k \in 1 .. N : parts[k] # Failed BY <1>2, <1>3
<1>4. \A k \in 1 .. N : parts[k] # Failed BY <1>2, <1>a
<1>5. ASSUME NEW k \in 1 .. N PROVE after[s][k] \in Services \cup DOMAIN Priority
  BY <1>2, <1>4, KeywordsWeigh DEF PartOf
<1>6. Listed(after, s) \subseteq Services \cup DOMAIN Priority BY <1>2, <1>5 DEF Listed
<1>7. PICK D : D = C \cup {s} OBVIOUS
<1>8. D \in SUBSET Services BY <1>7
<1>9. \A n \in Services : Weighs(w[<<D, n>>]) BY <1>8, WeightsWeigh
<1>10. ASSUME NEW d \in Needs(after, s)
       PROVE  w[<<D, d>>] # Failed /\ w[<<D, d>>][1] <= w[<<C, s>>][1]
  <2>1. PICK k \in 1 .. N : d = after[s][k] BY <1>2 DEF Needs, Listed
  <2>2. parts[k] = w[<<D, d>>] BY <1>2, <1>7, <2>1 DEF PartOf, Needs
  <2>3. N # 0 BY <1>2
  <2>4. ASSUME NEW j \in 1 .. N PROVE Weighs(parts[j])
    <3>1. PICK n : n = after[s][j] OBVIOUS
    <3>2. parts[j] = PartOf(w, D, n) BY <1>2, <1>7, <3>1
    <3>3. CASE n \in DOMAIN Priority BY <3>2, <3>3, KeywordsWeigh DEF PartOf
    <3>4. CASE n \notin DOMAIN Priority /\ n \in Services BY <1>9, <3>2, <3>4 DEF PartOf
    <3>5. CASE n \notin DOMAIN Priority /\ n \notin Services BY <3>2, <3>5, KeywordsWeigh DEF PartOf
    <3> QED BY <3>3, <3>4, <3>5
  <2>5. PICK t \in Nat :
    /\ Total(parts) = Value(t)
    /\ \A j \in 1 .. N : parts[j][1] \in Nat /\ parts[j][1] <= t /\ parts[j][1] >= 1
    BY <1>2, <1>4, <2>4, TotalGrows
  <2>6. w[<<C, s>>][1] = t BY <1>3, <2>3, <2>5 DEF Value
  <2> QED BY <1>4, <2>2, <2>5, <2>6
<1> QED BY <1>3, <1>6, <1>7, <1>10

\* The least closed set.
LEMMA BelowIs ==
    ASSUME NEW after, NEW s \in Services
    PROVE  /\ Needs(after, s) \subseteq Below(after, s) /\ Below(after, s) \subseteq Services
           /\ Closed(after, Below(after, s))
           /\ \A C \in SUBSET Services : Needs(after, s) \subseteq C /\ Closed(after, C) => Below(after, s) \subseteq C
           /\ \A d \in Below(after, s) : Below(after, d) \subseteq Below(after, s)
<1>0. \A d : Needs(after, d) \subseteq Services BY DEF Needs
<1>1. Below(after, s) \subseteq Services BY DEF Below
<1>2. Needs(after, s) \subseteq Below(after, s) BY <1>0 DEF Below
<1>3. \A C \in SUBSET Services : Needs(after, s) \subseteq C /\ Closed(after, C) => Below(after, s) \subseteq C
  BY DEF Below
<1>4. Closed(after, Below(after, s))
  <2> SUFFICES ASSUME NEW d \in Below(after, s), NEW e \in Needs(after, d) PROVE e \in Below(after, s) BY DEF Closed
  <2>1. ASSUME NEW C \in SUBSET Services, Needs(after, s) \subseteq C, Closed(after, C) PROVE e \in C
    <3>1. d \in C BY <1>3, <2>1
    <3> QED BY <2>1, <3>1 DEF Closed
  <2> QED BY <1>0, <2>1 DEF Below
<1>5. ASSUME NEW d \in Below(after, s) PROVE Below(after, d) \subseteq Below(after, s)
  <2>1. Needs(after, d) \subseteq Below(after, s) BY <1>4 DEF Closed
  <2>2. \A e \in Below(after, d) : \A C \in SUBSET Services :
          Needs(after, d) \subseteq C /\ Closed(after, C) => e \in C
    BY DEF Below
  <2> QED BY <1>1, <1>4, <2>1, <2>2
<1> QED BY <1>1, <1>2, <1>3, <1>4, <1>5

\* A service whose weight can be computed is sound.
LEMMA ComputedIsSound ==
    ASSUME NEW after, \A x \in Services : after[x] \in Seq(STRING), NEW s \in Services,
           ChainWeight(after)[<<{}, s>>] # Failed
    PROVE  Sound(after, s)
<1>1. PICK w : w = ChainWeight(after) OBVIOUS
<1>b. ASSUME NEW C \in SUBSET Services, NEW x \in Services, w[<<C, x>>] # Failed
      PROVE  /\ Listed(after, x) \subseteq Services \cup DOMAIN Priority
             /\ \A D : \A e \in Needs(after, x) : D = C \cup {x} => w[<<D, e>>] # Failed
  <2>1. /\ x \notin C /\ Listed(after, x) \subseteq Services \cup DOMAIN Priority
        /\ \A e \in Needs(after, x) : w[<<C \cup {x}, e>>] # Failed /\ w[<<C \cup {x}, e>>][1] <= w[<<C, x>>][1]
    BY ONLY <1>1, <1>b, WeightOfNeeds, \A y \in Services : after[y] \in Seq(STRING)
  <2> QED BY <2>1
<1>c. ASSUME NEW C \in SUBSET Services, NEW D \in SUBSET C, NEW x \in Services, w[<<C, x>>] # Failed
      PROVE  w[<<D, x>>] # Failed
  BY <1>1, <1>c, SameWeight
<1>2. PICK G : G = {d \in Services : w[<<{}, d>>] # Failed} OBVIOUS
<1>a. \A d : Needs(after, d) \subseteq Services BY DEF Needs
<1>3. ASSUME NEW d \in G
      PROVE  /\ d \in Services /\ Needs(after, d) \subseteq G
             /\ Listed(after, d) \subseteq Services \cup DOMAIN Priority
             /\ \A e \in Needs(after, d) : w[<<{d}, e>>] # Failed
  <2>1. d \in Services /\ w[<<{}, d>>] # Failed BY <1>2
  <2>a. PICK O, D : O = {} /\ D = {d} OBVIOUS
  <2>b. O \in SUBSET Services /\ D \in SUBSET Services /\ O \in SUBSET D /\ D = O \cup {d} BY <2>1, <2>a
  <2>c. w[<<O, d>>] # Failed BY <2>1, <2>a
  <2>2. /\ Listed(after, d) \subseteq Services \cup DOMAIN Priority
        /\ \A e \in Needs(after, d) : w[<<D, e>>] # Failed
    BY <1>b, <2>1, <2>b, <2>c
  <2>3. \A e \in Needs(after, d) : w[<<{d}, e>>] # Failed BY <2>a, <2>2
  <2>d. \A e \in Needs(after, d) : w[<<O, e>>] # Failed BY <1>a, <1>c, <2>b, <2>2
  <2>4. \A e \in Needs(after, d) : w[<<{}, e>>] # Failed BY <2>a, <2>d
  <2> QED BY <1>2, <1>a, <2>1, <2>2, <2>3, <2>4
<1>4. s \in G /\ G \in SUBSET Services BY <1>1, <1>2
<1>5. Closed(after, G) BY <1>3 DEF Closed
<1>6. Below(after, s) \subseteq G BY <1>3, <1>4, <1>5, BelowIs
<1>7. ASSUME NEW d \in G PROVE d \notin Below(after, d)
  <2>1. PICK H : H = {e \in Services : w[<<{d}, e>>] # Failed} OBVIOUS
  <2>2. H \in SUBSET Services /\ Needs(after, d) \subseteq H /\ d \in Services BY <1>3, <1>a, <2>1
  <2>3. Closed(after, H)
    <3> SUFFICES ASSUME NEW e \in H, NEW f \in Needs(after, e) PROVE f \in H BY DEF Closed
    <3>1. e \in Services /\ f \in Services /\ w[<<{d}, e>>] # Failed BY <1>a, <2>1
    <3>2. PICK D, F : D = {d} /\ F = D \cup {e} OBVIOUS
    <3>3. F \in SUBSET Services /\ D \in SUBSET F /\ D \in SUBSET Services BY <2>2, <3>1, <3>2
    <3>a. w[<<D, e>>] # Failed BY <3>1, <3>2
    <3>4. w[<<F, f>>] # Failed BY <1>b, <3>1, <3>2, <3>3, <3>a
    <3>5. w[<<D, f>>] # Failed BY <1>c, <3>1, <3>3, <3>4
    <3> QED BY <2>1, <3>1, <3>2, <3>5
  <2>4. Below(after, d) \subseteq H BY <2>2, <2>3, BelowIs
  <2>5. {d} \in SUBSET Services BY <2>2
  <2>6. w[<<{d}, d>>] = WeightAfter(after, w, {d}, d) BY <1>1, <2>2, <2>5, ChainWeightIs
  <2>7. w[<<{d}, d>>] = Failed BY <2>6 DEF WeightAfter
  <2> QED BY <2>1, <2>4, <2>7
<1> QED BY <1>3, <1>4, <1>6, <1>7 DEF Sound

\* The weight of a sound service can be computed.
LEMMA SoundIsComputed ==
    ASSUME NEW after, \A x \in Services : after[x] \in Seq(STRING), NEW s \in Services, Sound(after, s)
    PROVE  ChainWeight(after)[<<{}, s>>] # Failed
<1>1. PICK w : w = ChainWeight(after) OBVIOUS
<1> DEFINE Along(C, x) == Sound(after, x) /\ \A c \in C : x \in Below(after, c)
<1>2. PICK B : B = {p \in Chains : Along(p[1], p[2]) /\ w[p] = Failed} OBVIOUS
<1>a. \A A \in SUBSET Services : \A x \in Services :
        /\ <<A, x>> \in Chains
        /\ <<A, x>> \in B <=> Along(A, x) /\ w[<<A, x>>] = Failed
  BY <1>2 DEF Chains
<1>b. \A d : Needs(after, d) \subseteq Services BY DEF Needs
<1>3. ASSUME NEW A \in SUBSET Services, NEW x \in Services,
             x \in A \/ \A n \in Services : <<A \cup {x}, n>> \notin B
      PROVE  <<A, x>> \notin B
  <2> SUFFICES ASSUME Along(A, x) PROVE w[<<A, x>>] # Failed BY <1>a
  <2>1. x \notin Below(after, x) /\ Listed(after, x) \subseteq Services \cup DOMAIN Priority BY DEF Sound
  <2>2. x \notin A BY <2>1
  <2>3. PICK D : D = A \cup {x} OBVIOUS
  <2>4. D \in SUBSET Services BY <2>3
  <2>5. ASSUME NEW n \in Needs(after, x) PROVE w[<<D, n>>] # Failed
    <3>1. n \in Services /\ n \in Below(after, x) BY <1>b, BelowIs
    <3>2. Below(after, n) \subseteq Below(after, x) BY <3>1, BelowIs
    <3>3. Sound(after, n) BY <3>1, <3>2 DEF Sound
    <3>4. ASSUME NEW c \in D PROVE n \in Below(after, c)
      <4>1. CASE c = x BY <3>1, <4>1
      <4>2. CASE c \in A
        <5>1. c \in Services /\ x \in Below(after, c) BY <4>2
        <5>2. Closed(after, Below(after, c)) BY <5>1, BelowIs
        <5> QED BY <5>1, <5>2 DEF Closed
      <4> QED BY <2>3, <4>1, <4>2
    <3>5. Along(D, n) BY <3>3, <3>4
    <3>6. <<D, n>> \notin B BY <1>3, <2>2, <2>3, <3>1
    <3> QED BY <1>a, <2>4, <3>1, <3>5, <3>6
  <2>6. PICK N, parts : AddsUp(after, w, A, x, N, parts) BY <1>1, PartsOf
  <2>7. /\ DOMAIN after[x] = 1 .. N
        /\ \A k \in 1 .. N : parts[k] = PartOf(w, D, after[x][k])
        /\ w[<<A, x>>] = IF x \in A THEN Failed
                         ELSE IF N = 0 THEN Value(Priority["boot"])
                         ELSE IF \E k \in 1 .. N : parts[k] = Failed THEN Failed
                         ELSE Total(parts)
    BY <2>3, <2>6 DEF AddsUp
  <2>8. ASSUME NEW k \in 1 .. N PROVE parts[k] # Failed
    <3>1. PICK n : n = after[x][k] OBVIOUS
    <3>2. n \in Listed(after, x) BY <2>7, <3>1 DEF Listed
    <3>3. CASE n \in DOMAIN Priority BY <2>7, <3>1, <3>3, KeywordsWeigh DEF PartOf
    <3>4. CASE n \notin DOMAIN Priority
      <4>1. n \in Services /\ n \in Needs(after, x) BY <2>1, <3>2, <3>4 DEF Needs
      <4>2. parts[k] = w[<<D, n>>] BY <2>7, <3>1, <3>4, <4>1 DEF PartOf
      <4> QED BY <2>5, <4>1, <4>2
    <3> QED BY <3>3, <3>4
  <2> QED BY <2>2, <2>7, <2>8, KeywordsWeigh DEF Total
<1>4. B \in SUBSET Chains BY <1>2
<1> HIDE DEF Along
<1>5. B = {} BY <1>3, <1>4, ChainInduction
<1>6. {} \in SUBSET Services /\ Along({}, s) BY DEF Along
<1> QED BY <1>1, <1>5, <1>6, <1>a

\* The weight of a service fixes its slice.
LEMMA StageByWeight ==
    ASSUME NEW after, \A x \in Services : after[x] \in Seq(STRING), NEW s \in Services,
           NEW v, v = ChainWeight(after)[<<{}, s>>]
    PROVE  /\ StageOf(after)[s] # 0 <=> v # Failed
           /\ v # Failed => /\ v[1] \in Nat
                           /\ StageOf(after)[s] = IF v[1] < 1000 THEN 1 ELSE IF v[1] < 1000000 THEN 2 ELSE 3
<1>0. Priority["init"] = 1 /\ Priority["net"] = 1000 /\ Priority["boot"] = 1000000 BY DEF Priority
<1>1. Weight(after)[s] = v BY DEF Weight
<1>2. PICK sl : sl = StageSlice(after) OBVIOUS
<1>c. /\ sl[1] = Slice(after, 1, 1000) /\ sl[2] = Slice(after, 1000, 1000000) /\ sl[3] = Slice(after, 1000000, -1)
  BY <1>0, <1>2, SMT DEF StageSlice
<1>3. /\ s \in sl[1] <=> v # Failed /\ v[1] >= 1 /\ v[1] < 1000
      /\ s \in sl[2] <=> v # Failed /\ v[1] >= 1000 /\ v[1] < 1000000
      /\ s \in sl[3] <=> v # Failed /\ v[1] >= 1000000
  BY <1>1, <1>c, SMT DEF Slice
<1>4. StageOf(after)[s] = IF \E k \in Stages : s \in sl[k] THEN CHOOSE k \in Stages : s \in sl[k] ELSE 0
  BY <1>2 DEF StageOf
<1>a. {} \in SUBSET Services OBVIOUS
<1>5. Weighs(v) BY <1>a, WeightsWeigh
<1>b. Stages = {1, 2, 3} BY DEF Stages
<1>6. CASE v = Failed
  <2>1. ~\E k \in Stages : s \in sl[k] BY <1>3, <1>6, <1>b
  <2> QED BY <1>4, <1>6, <2>1
<1>7. CASE v # Failed
  <2>1. PICK n \in Nat \ {0} : v = Value(n) BY <1>5, <1>7 DEF Weighs
  <2>2. v[1] = n BY <2>1 DEF Value
  <2>3. PICK j \in Stages : j = IF n < 1000 THEN 1 ELSE IF n < 1000000 THEN 2 ELSE 3 BY <1>b
  <2>4. \A k \in Stages : s \in sl[k] <=> k = j BY <1>3, <1>7, <1>b, <2>1, <2>2, <2>3
  <2>5. StageOf(after)[s] = j BY <1>4, <2>4
  <2> QED BY <1>7, <2>2, <2>3, <2>5
<1> QED BY <1>6, <1>7

\* For every finite set of services and all After lists: the startup tree has exactly the
\* services that nothing broken is needed for, and no service is in an earlier slice than
\* what it needs (Startup.Weight, GetStartupTree and Slice of base/settings).
THEOREM StartupTreeExact ==
    ASSUME NEW after, \A x \in Services : after[x] \in Seq(STRING)
    PROVE  OnlySound(after) /\ NoneBefore(after)
<1>0. PICK w : w = ChainWeight(after) OBVIOUS
<1>1. PICK O : w = ChainWeight(after) /\ O = {} BY <1>0
<1>2. \A s \in Services : Weight(after)[s] = w[<<O, s>>] BY <1>1 DEF Weight
<1>3. OnlySound(after) BY <1>1, <1>2, ComputedIsSound, SoundIsComputed DEF OnlySound
<1>a. ASSUME NEW x \in Services
      PROVE  /\ StageOf(after)[x] # 0 <=> w[<<O, x>>] # Failed
             /\ w[<<O, x>>] # Failed =>
                  /\ w[<<O, x>>][1] \in Nat
                  /\ StageOf(after)[x] = IF w[<<O, x>>][1] < 1000 THEN 1 ELSE IF w[<<O, x>>][1] < 1000000 THEN 2 ELSE 3
  BY <1>1, StageByWeight, SMT
<1>b. ASSUME NEW C \in SUBSET Services, NEW x \in Services, w[<<C, x>>] # Failed
      PROVE  \A e \in Needs(after, x) : w[<<C \cup {x}, e>>] # Failed /\ w[<<C \cup {x}, e>>][1] <= w[<<C, x>>][1]
  <2>1. /\ x \notin C /\ Listed(after, x) \subseteq Services \cup DOMAIN Priority
        /\ \A e \in Needs(after, x) : w[<<C \cup {x}, e>>] # Failed /\ w[<<C \cup {x}, e>>][1] <= w[<<C, x>>][1]
    BY ONLY <1>0, <1>b, WeightOfNeeds, \A y \in Services : after[y] \in Seq(STRING)
  <2> QED BY <2>1
<1>4. ASSUME NEW s \in Services, StageOf(after)[s] # 0, NEW d \in Needs(after, s)
      PROVE  StageOf(after)[d] \in 1 .. StageOf(after)[s]
  <2>1. d \in Services BY DEF Needs
  <2>2. PICK u, v : u = w[<<O, s>>] /\ v = w[<<O, d>>] OBVIOUS
  <2>3. /\ u # Failed /\ u[1] \in Nat
        /\ StageOf(after)[s] = IF u[1] < 1000 THEN 1 ELSE IF u[1] < 1000000 THEN 2 ELSE 3
    BY <1>a, <1>4, <2>2, SMT
  <2>4. v # Failed => /\ v[1] \in Nat
                      /\ StageOf(after)[d] = IF v[1] < 1000 THEN 1 ELSE IF v[1] < 1000000 THEN 2 ELSE 3
    BY <1>a, <2>1, <2>2, SMT
  <2>5. PICK D : D = O \cup {s} OBVIOUS
  <2>6. O \in SUBSET Services /\ D \in SUBSET Services /\ O \in SUBSET D BY <1>1, <2>5
  <2>7. w[<<O, s>>] # Failed BY <2>2, <2>3
  <2>8. \A e \in Needs(after, s) : w[<<O \cup {s}, e>>] # Failed /\ w[<<O \cup {s}, e>>][1] <= w[<<O, s>>][1]
    BY <1>b, <2>6, <2>7
  <2>9. w[<<D, d>>] # Failed /\ w[<<D, d>>][1] <= u[1] BY <2>2, <2>5, <2>8
  <2>10. w[<<O, d>>] = w[<<D, d>>] BY <1>1, <2>1, <2>6, <2>9, SameWeight
  <2>11. v # Failed /\ v[1] <= u[1] BY <2>2, <2>9, <2>10
  <2> QED BY <2>3, <2>4, <2>11, SMT
<1> QED BY <1>3, <1>4 DEF NoneBefore

-----------------------------------------------------------------------------
(* Boot                                                                    *)

UpInv == \A s \in Services : up[s] = "yes" => CameUp(s)

\* The k-th name of the After list of s is no key, or it came up.
Passed(s, k) == Key(s, After(s)[k]) => CameUp(After(s)[k])

WaitInv == \A s \in Services :
    gor[s].canRun = "yes" => \A k \in 1 .. Len(After(s)) : k < gor[s].next => Passed(s, k)

JobInv == \A s \in Services :
    job[s] # "none" => /\ gor[s].pc = "end" /\ gor[s].canRun = "yes"
                       /\ gor[s].next > Len(After(s))

\* Every service of an earlier slice than k was released.
Behind(k) == \A d \in Services : stage[d] # 0 /\ stage[d] < k => chan[d] = "closed"

SliceInv == /\ Behind(main.stage)
            /\ main.pc = "network" => main.stage = 1 /\ Behind(2)
            /\ \A s \in Services : gor[s].pc # "none" =>
                  stage[s] < main.stage \/ (stage[s] = main.stage /\ main.pc # "run")

\* The tree is that of the settings, and only its services have a goroutine.
TreeInv == /\ stage = StageOf(Afters)
           /\ \A s \in Services : gor[s].pc # "none" => stage[s] # 0

BootInv == TypeOK /\ UpInv /\ WaitInv /\ JobInv /\ SliceInv /\ TreeInv

\* Every service has a typed After list.
LEMMA AfterType ==
    ASSUME TypeOK, NEW s \in Services
    PROVE  /\ Len(After(s)) \in Nat
           /\ DOMAIN After(s) = 1 .. Len(After(s))
           /\ config[s].accepted \in {"yes", "no"}
           /\ After(s) \in Seq(STRING)
<1>1. config[s] \in Startup BY ConfigAssumption DEF TypeOK
<1>2. After(s) \in Seq(STRING) BY <1>1 DEF Startup, After
<1> QED BY <1>1, <1>2 DEF Startup

\* The tree puts every service into one of three slices or into none.
LEMMA StageType == ASSUME NEW f PROVE StageOf(f) \in [Services -> 0 .. 3]
<1>1. ASSUME NEW x \in Services, NEW slices, \E k \in Stages : x \in slices[k]
      PROVE  (CHOOSE k \in Stages : x \in slices[k]) \in Stages
  BY <1>1
<1>2. Stages \subseteq 0 .. 3 /\ 0 \in 0 .. 3 BY DEF Stages
<1> QED BY <1>1, <1>2 DEF StageOf

\* The invariant holds when Bootstrap begins.
LEMMA BootInit == Init => BootInv
<1> SUFFICES ASSUME Init PROVE BootInv
  OBVIOUS
<1>1. TypeOK
  <2>1. stage \in [Services -> 0 .. 3] BY StageType DEF Init
  <2>2. main \in [stage : Stages, pc : {"run", "wait", "network", "done"}]
    BY DEF Init, Stages
  <2> QED BY <2>1, <2>2 DEF Init, TypeOK
<1>2. UpInv /\ JobInv /\ WaitInv
  BY <1>1, AfterType DEF Init, UpInv, JobInv, WaitInv
<1>3. SliceInv BY <1>1 DEF Init, SliceInv, Behind, TypeOK
<1>4. TreeInv BY DEF Init, TreeInv
<1> QED BY <1>1, <1>2, <1>3, <1>4 DEF BootInv

\* The settings are read once and the tree is built once.
LEMMA ConfigFixed == [Next]_vars => UNCHANGED <<config, stage>>
  BY DEF Next, MainStep, GoroutineStep, RunnerStep, RunSlice, WaitAll, NetworkReady, WaitNext,
     StartService, SkipService, HookDue, HookFires, ServiceExits, vars

\* Every step keeps the variables typed.
LEMMA BootTypeStep == TypeOK /\ [Next]_vars => TypeOK'
<1> SUFFICES ASSUME TypeOK, [Next]_vars PROVE TypeOK'
  OBVIOUS
<1> USE DEF TypeOK, Started, Release
<1>1. CASE RunSlice BY <1>1, SMTT(40) DEF RunSlice
<1>2. CASE WaitAll
  <2>1. main' \in [stage : Stages, pc : {"run", "wait", "network", "done"}]
    <3>1. CASE main.stage = 1 BY <1>2, <3>1 DEF WaitAll, Stages
    <3>2. CASE main.stage = 2 BY <1>2, <3>2 DEF WaitAll, Stages
    <3>3. CASE main.stage = 3 BY <1>2, <3>3 DEF WaitAll, Stages
    <3> QED BY <3>1, <3>2, <3>3 DEF Stages
  <2> QED BY <1>2, <2>1 DEF WaitAll
<1>3. CASE NetworkReady BY <1>3 DEF NetworkReady, Stages
<1>4. ASSUME NEW s \in Services, WaitNext(s) PROVE TypeOK'
  <2>1. gor[s].next + 1 \in Nat \ {0} OBVIOUS
  <2>2. gor' \in [Services -> [pc : {"none", "wait", "end"}, next : Nat \ {0},
                               canRun : {"yes", "no"}]]
    <3>1. CASE gor' = [gor EXCEPT ![s].next = @ + 1]
      <4>1. PICK g : g = [gor[s] EXCEPT !.next = gor[s].next + 1] OBVIOUS
      <4>g. gor[s] \in [pc : {"none", "wait", "end"}, next : Nat \ {0}, canRun : {"yes", "no"}]
        OBVIOUS
      <4>2. g \in [pc : {"none", "wait", "end"}, next : Nat \ {0}, canRun : {"yes", "no"}]
        BY <2>1, <4>1, <4>g, SMTT(40)
      <4>3. gor' = [gor EXCEPT ![s] = g] BY <3>1, <4>1
      <4> QED BY <4>2, <4>3
    <3>2. ASSUME NEW c \in {"yes", "no"},
                 gor' = [gor EXCEPT ![s] = [pc |-> "wait", next |-> gor[s].next + 1,
                                            canRun |-> c]]
          PROVE  gor' \in [Services -> [pc : {"none", "wait", "end"}, next : Nat \ {0},
                                        canRun : {"yes", "no"}]]
      BY <2>1, <3>2
    <3>3. gor[s].canRun \in {"yes", "no"} OBVIOUS
    <3> QED BY <1>4, <3>1, <3>2, <3>3 DEF WaitNext
  <2> QED BY <1>4, <2>2 DEF WaitNext
<1>5. ASSUME NEW s \in Services, StartService(s) PROVE TypeOK'
  BY <1>5 DEF StartService
<1>6. ASSUME NEW s \in Services, SkipService(s) PROVE TypeOK'
  BY <1>6 DEF SkipService
<1>7. ASSUME NEW s \in Services, HookDue(s) \/ HookFires(s) PROVE TypeOK'
  <2>1. CASE HookDue(s) BY <2>1, SMTT(40) DEF HookDue
  <2>2. CASE HookFires(s) BY <2>2, SMTT(40) DEF HookFires
  <2> QED BY <1>7, <2>1, <2>2
<1>8. ASSUME NEW s \in Services, ServiceExits(s) PROVE TypeOK'
  <2>1. CASE job' = [job EXCEPT ![s] = "succeeded"] /\ Release(s, "yes")
    BY <1>8, <2>1 DEF ServiceExits
  <2>2. CASE job' = [job EXCEPT ![s] = "failed"] /\ Release(s, "no")
    BY <1>8, <2>2 DEF ServiceExits
  <2> QED BY <1>8, <2>1, <2>2 DEF ServiceExits
<1>9. CASE UNCHANGED vars BY <1>9 DEF vars
<1> QED
  BY <1>1, <1>2, <1>3, <1>4, <1>5, <1>6, <1>7, <1>8, <1>9
  DEF Next, MainStep, GoroutineStep, RunnerStep

\* A service that came up stays so, and a closed channel stays closed.
LEMMA Stable ==
    ASSUME BootInv, [Next]_vars, NEW d \in Services
    PROVE  /\ CameUp(d) => CameUp(d)'
           /\ chan[d] = "closed" => chan'[d] = "closed"
<1> USE DEF BootInv, TypeOK, CameUp, Release
<1>1. CASE MainStep BY <1>1 DEF MainStep, RunSlice, WaitAll, NetworkReady
<1>2. ASSUME NEW s \in Services, WaitNext(s) PROVE UNCHANGED <<hook, job, chan>>
  BY <1>2 DEF WaitNext
<1>3. ASSUME NEW s \in Services, StartService(s)
      PROVE  UNCHANGED <<hook, chan>> /\ (job[d] = "succeeded" => job'[d] = "succeeded")
  BY <1>3 DEF StartService, Waited, JobInv
<1>4. ASSUME NEW s \in Services, SkipService(s)
      PROVE  UNCHANGED <<hook, job>> /\ (chan[d] = "closed" => chan'[d] = "closed")
  BY <1>4 DEF SkipService
<1>5. ASSUME NEW s \in Services, HookDue(s)
      PROVE  UNCHANGED <<job, chan>> /\ (hook[d] = "fired" => hook'[d] = "fired")
  BY <1>5 DEF HookDue
<1>6. ASSUME NEW s \in Services, HookFires(s)
      PROVE  UNCHANGED job /\ (chan[d] = "closed" => chan'[d] = "closed")
             /\ (hook[d] = "fired" => hook'[d] = "fired")
  BY <1>6 DEF HookFires
<1>7. ASSUME NEW s \in Services, ServiceExits(s)
      PROVE  UNCHANGED hook /\ (chan[d] = "closed" => chan'[d] = "closed")
             /\ (job[d] = "succeeded" => job'[d] = "succeeded")
  BY <1>7 DEF ServiceExits
<1>8. CASE UNCHANGED vars BY <1>8 DEF vars
<1> QED
  BY <1>1, <1>2, <1>3, <1>4, <1>5, <1>6, <1>7, <1>8 DEF Next, GoroutineStep, RunnerStep

\* A service is released as running only by its hook or its successful exit.
LEMMA UpStep == BootInv /\ [Next]_vars => UpInv'
<1> SUFFICES ASSUME BootInv, [Next]_vars, NEW d \in Services, up'[d] = "yes" PROVE CameUp(d)'
  BY DEF UpInv, CameUp
<1>1. CASE up[d] = "yes" BY <1>1, Stable DEF BootInv, UpInv
<1>2. CASE up[d] # "yes"
  <2> USE DEF BootInv, TypeOK, Release, CameUp
  <2>1. ASSUME NEW s \in Services, SkipService(s) PROVE FALSE
    BY <1>2, <2>1 DEF SkipService
  <2>2. ASSUME NEW s \in Services, HookFires(s) PROVE CameUp(d)'
    BY <1>2, <2>2 DEF HookFires
  <2>3. ASSUME NEW s \in Services, ServiceExits(s) PROVE CameUp(d)'
    BY <1>2, <2>3 DEF ServiceExits
  <2>4. CASE UNCHANGED up BY <1>2, <2>4
  <2> QED
    BY <2>1, <2>2, <2>3, <2>4 DEF Next, MainStep, GoroutineStep, RunnerStep, RunSlice, WaitAll,
       NetworkReady, WaitNext, StartService, HookDue, vars
<1> QED BY <1>1, <1>2

\* A goroutine goes past a key only when the key was released, and keeps canRun only
\* when it was released as running.
LEMMA WaitStep == BootInv /\ [Next]_vars => WaitInv'
<1> SUFFICES ASSUME BootInv, [Next]_vars, NEW d \in Services, (gor[d].canRun)' = "yes",
                    NEW k \in 1 .. Len(After(d)), k < (gor[d].next)',
                    NEW n \in Services, n = After(d)[k], Key(d, n)
             PROVE  CameUp(n)'
  BY ConfigFixed DEF WaitInv, Passed, Key, After, CameUp
<1>1. CASE gor[d].canRun = "yes" /\ k < gor[d].next
  <2>1. CameUp(n) BY <1>1 DEF BootInv, WaitInv, Passed
  <2> QED BY <2>1, Stable
<1>2. CASE ~(gor[d].canRun = "yes" /\ k < gor[d].next)
  <2> USE DEF BootInv, TypeOK
  <2>1. Len(After(d)) \in Nat BY AfterType
  <2>2. ASSUME NEW s \in Services, WaitNext(s) PROVE CameUp(n)'
    <3>1. s = d BY <1>2, <2>2 DEF WaitNext
    <3>2. gor[d].canRun = "yes" /\ k = gor[d].next
      BY <1>2, <2>1, <2>2, <3>1 DEF WaitNext
    <3>3. up[n] = "yes" BY <2>2, <3>1, <3>2 DEF WaitNext
    <3>4. CameUp(n) BY <3>3 DEF UpInv
    <3> QED BY <3>4, Stable
  <2>3. ASSUME NEW s \in Services, StartService(s) \/ SkipService(s) PROVE FALSE
    <3>1. gor' = [gor EXCEPT ![s].pc = "end"] BY <2>3 DEF StartService, SkipService
    <3>2. gor'[d].canRun = gor[d].canRun /\ gor'[d].next = gor[d].next
      <4>1. CASE s = d BY <3>1, <4>1
      <4>2. CASE s # d BY <3>1, <4>2
      <4> QED BY <4>1, <4>2
    <3> QED BY <1>2, <3>2
  <2>4. CASE RunSlice BY <1>2, <2>4 DEF RunSlice
  <2>5. CASE UNCHANGED gor BY <1>2, <2>5
  <2> QED
    BY <2>2, <2>3, <2>4, <2>5 DEF Next, MainStep, GoroutineStep, RunnerStep, WaitAll,
       NetworkReady, HookDue, HookFires, ServiceExits, vars
<1> QED BY <1>1, <1>2

\* A runner is made by a goroutine that waited for everything and may run it.
LEMMA JobStep == BootInv /\ [Next]_vars => JobInv'
<1> SUFFICES ASSUME BootInv, [Next]_vars, NEW d \in Services, job'[d] # "none"
             PROVE  /\ (gor[d].pc)' = "end" /\ (gor[d].canRun)' = "yes"
                    /\ (gor[d].next)' > Len(After(d))
  BY ConfigFixed DEF JobInv, After
<1> USE DEF BootInv, TypeOK, JobInv
<1>1. ASSUME NEW s \in Services, StartService(s), s = d
      PROVE  /\ (gor[d].pc)' = "end" /\ (gor[d].canRun)' = "yes"
             /\ (gor[d].next)' > Len(After(d))
  BY <1>1 DEF StartService, Waited
<1>2. ASSUME NEW s \in Services, StartService(s) \/ SkipService(s), s # d
      PROVE  gor'[d] = gor[d] /\ job[d] # "none"
  BY <1>2 DEF StartService, SkipService
<1>3. ASSUME NEW s \in Services, SkipService(s), s = d PROVE FALSE
  BY <1>3 DEF SkipService, Waited
<1>4. ASSUME NEW s \in Services, WaitNext(s) PROVE gor'[d] = gor[d] /\ job[d] # "none"
  BY <1>4 DEF WaitNext
<1>5. CASE RunSlice
  <2>1. job[d] # "none" /\ gor[d].pc = "end" BY <1>5 DEF RunSlice
  <2>2. stage[d] # main.stage
    <3>1. main.pc = "run" BY <1>5 DEF RunSlice
    <3>2. stage[d] < main.stage BY <2>1, <3>1 DEF SliceInv
    <3>3. stage[d] \in 0 .. 3 /\ main.stage \in 1 .. 3 BY DEF Stages
    <3> QED BY <3>2, <3>3
  <2>3. gor'[d] = gor[d] BY <1>5, <2>2 DEF RunSlice
  <2> QED BY <2>1, <2>3
<1>6. ASSUME NEW s \in Services, ServiceExits(s) PROVE gor'[d] = gor[d] /\ job[d] # "none"
  BY <1>6 DEF ServiceExits
<1>7. CASE UNCHANGED <<gor, job>> BY <1>7
<1> QED
  BY <1>1, <1>2, <1>3, <1>4, <1>5, <1>6, <1>7 DEF Next, MainStep, GoroutineStep, RunnerStep,
     WaitAll, NetworkReady, HookDue, HookFires, vars

\* Bootstrap goes on to the next slice only when every service of this one was released.
LEMMA SliceStep == BootInv /\ [Next]_vars => SliceInv'
<1> SUFFICES ASSUME BootInv, [Next]_vars PROVE SliceInv'
  OBVIOUS
<1> USE DEF BootInv, TypeOK, SliceInv
<1>0. ASSUME NEW k PROVE Behind(k) => Behind(k)'
  BY Stable, ConfigFixed DEF Behind
<1>1. CASE RunSlice
  <2>1. main'.stage = main.stage /\ main'.pc = "wait" BY <1>1 DEF RunSlice
  <2>2. ASSUME NEW s \in Services, gor'[s].pc # "none" PROVE stage'[s] <= main.stage
    BY <1>1, <2>2 DEF RunSlice, Stages
  <2> QED BY <1>0, <2>1, <2>2, <1>1 DEF RunSlice, Behind, Stages
<1>2. CASE WaitAll
  <2>1. ASSUME NEW k \in Stages, k = main.stage PROVE Behind(k + 1)
    BY <1>2, <2>1 DEF WaitAll, Behind, Stages
  <2>2. CASE main.stage = 1 BY <1>0, <1>2, <2>1, <2>2 DEF WaitAll, Behind, Stages
  <2>3. CASE main.stage = 2 BY <1>0, <1>2, <2>1, <2>3 DEF WaitAll, Behind, Stages
  <2>4. CASE main.stage = 3 BY <1>0, <1>2, <2>1, <2>4 DEF WaitAll, Behind, Stages
  <2> QED BY <2>2, <2>3, <2>4 DEF Stages
<1>3. CASE NetworkReady BY <1>3 DEF NetworkReady, Behind, Stages
<1>4. ASSUME UNCHANGED main,
             \A s \in Services : gor'[s].pc # "none" => gor[s].pc # "none"
      PROVE  SliceInv'
  <2>1. Behind(main.stage)' BY <1>0, <1>4 DEF Behind
  <2>2. (main.pc = "network" => main.stage = 1 /\ Behind(2))' BY <1>0, <1>4 DEF Behind
  <2> QED BY <2>1, <2>2, <1>4, ConfigFixed
<1>5. ASSUME NEW s \in Services, WaitNext(s) \/ StartService(s) \/ SkipService(s)
      PROVE  UNCHANGED main /\ \A d \in Services : gor'[d].pc # "none" => gor[d].pc # "none"
  <2>1. CASE WaitNext(s) BY <2>1 DEF WaitNext, Waited
  <2>2. CASE StartService(s) BY <2>2 DEF StartService, Waited
  <2>3. CASE SkipService(s) BY <2>3 DEF SkipService, Waited
  <2> QED BY <1>5, <2>1, <2>2, <2>3
<1> QED
  BY <1>1, <1>2, <1>3, <1>4, <1>5 DEF Next, MainStep, GoroutineStep, RunnerStep, HookDue,
     HookFires, ServiceExits, vars

\* A goroutine is started only for a service of the tree.
LEMMA TreeStep == BootInv /\ [Next]_vars => TreeInv'
<1> SUFFICES ASSUME BootInv, [Next]_vars PROVE TreeInv'
  OBVIOUS
<1>1. config' = config /\ stage' = stage BY ConfigFixed
<1>2. Afters' = Afters BY <1>1 DEF Afters, After
<1>3. stage' = StageOf(Afters)' BY <1>1, <1>2 DEF BootInv, TreeInv
<1>4. ASSUME NEW d \in Services, gor'[d].pc # "none" PROVE stage[d] # 0
  <2> USE DEF BootInv, TypeOK
  <2>1. CASE gor[d].pc # "none" BY <2>1 DEF TreeInv
  <2>2. CASE gor[d].pc = "none"
    <3>1. ASSUME NEW s \in Services, WaitNext(s) \/ StartService(s) \/ SkipService(s) PROVE FALSE
      <4>1. CASE WaitNext(s) BY <1>4, <2>2, <4>1 DEF WaitNext
      <4>2. CASE StartService(s) BY <1>4, <2>2, <4>2 DEF StartService, Waited
      <4>3. CASE SkipService(s) BY <1>4, <2>2, <4>3 DEF SkipService, Waited
      <4> QED BY <3>1, <4>1, <4>2, <4>3
    <3>2. CASE RunSlice
      <4>1. stage[d] = main.stage BY <1>4, <2>2, <3>2 DEF RunSlice
      <4>2. main.stage \in 1 .. 3 BY DEF Stages
      <4> QED BY <4>1, <4>2
    <3>3. CASE UNCHANGED gor BY <1>4, <2>2, <3>3
    <3> QED
      BY <3>1, <3>2, <3>3 DEF Next, MainStep, GoroutineStep, RunnerStep, WaitAll, NetworkReady,
         HookDue, HookFires, ServiceExits, vars
  <2> QED BY <2>1, <2>2
<1> QED BY <1>1, <1>3, <1>4 DEF TreeInv

\* BootInv holds in every reachable state.
THEOREM BootInvariance == Spec => []BootInv
<1>1. BootInv /\ [Next]_vars => BootInv'
  BY BootTypeStep, UpStep, WaitStep, JobStep, SliceStep, TreeStep DEF BootInv
<1> QED BY BootInit, <1>1, PTL DEF Spec

\* The variables of the boot keep their types.
THEOREM BootTypeCorrect == Spec => []TypeOK
  BY BootInvariance, PTL DEF BootInv

\* Behind the slice that Bootstrap is at, everything was released.
LEMMA SlicesKept == BootInv => SlicesInOrder
<1> SUFFICES ASSUME BootInv, NEW s \in Services, NEW d \in Services, job[s] # "none",
                    stage[d] # 0, stage[d] < stage[s]
             PROVE  chan[d] = "closed"
  BY DEF SlicesInOrder
<1>1. gor[s].pc = "end" BY DEF BootInv, JobInv
<1>2. stage[s] <= main.stage BY <1>1 DEF BootInv, SliceInv, TypeOK, Stages
<1>3. stage[d] < main.stage BY <1>2 DEF BootInv, TypeOK, Stages
<1> QED BY <1>3 DEF BootInv, SliceInv, Behind

\* No service is started before all services of the earlier slices were released
\* (bootstrap.go:134-171).
THEOREM SliceBySlice == Spec => []SlicesInOrder
  BY SlicesKept, BootInvariance, PTL

\* A service is started only after every dependency in its slice came up
\* (pm.go:302-338, waitmachine.go:46-58), and whatever else it needs is in an earlier slice
\* and was released: the weights (base/settings) and the slices (bootstrap.go) together.
THEOREM DependenciesFirst == Spec => []StartedAfterDependencies
<1>1. BootInv => StartedAfterDependencies
  <2> SUFFICES ASSUME BootInv, NEW s \in Services, job[s] # "none"
               PROVE  /\ \A d \in Dependencies(s) : stage[d] = stage[s] => CameUp(d)
                      /\ \A d \in Needs(Afters, s) :
                           stage[d] # stage[s] => stage[d] # 0 /\ chan[d] = "closed"
    BY DEF StartedAfterDependencies
  <2>1. ASSUME NEW d \in Dependencies(s), stage[d] = stage[s] PROVE CameUp(d)
    <3>1. PICK k \in 1 .. Len(After(s)) : d = After(s)[k]
      BY AfterType DEF Dependencies, BootInv
    <3>2. gor[s].next \in Nat /\ Len(After(s)) \in Nat BY AfterType DEF BootInv, TypeOK
    <3>3. gor[s].canRun = "yes" /\ k < gor[s].next BY <3>2 DEF BootInv, JobInv
    <3>4. d \in Services /\ Key(s, d) BY <2>1 DEF Dependencies, Key
    <3> QED BY <3>1, <3>3, <3>4 DEF BootInv, WaitInv, Passed
  <2>2. ASSUME NEW d \in Needs(Afters, s), stage[d] # stage[s]
        PROVE  stage[d] # 0 /\ chan[d] = "closed"
    <3>1. PICK after : after = Afters OBVIOUS
    <3>2. \A x \in Services : after[x] \in Seq(STRING) BY <3>1, AfterType DEF Afters, BootInv
    <3>3. NoneBefore(after) BY <3>2, StartupTreeExact
    <3>4. stage[s] # 0
      <4>1. gor[s].pc = "end" BY DEF BootInv, JobInv
      <4> QED BY <4>1 DEF BootInv, TreeInv
    <3>5. d \in Services BY DEF Needs
    <3>6. stage = StageOf(after) BY <3>1 DEF BootInv, TreeInv
    <3>7. stage[d] \in 1 .. stage[s] BY <3>1, <3>3, <3>4, <3>6 DEF NoneBefore
    <3>8. stage[s] \in 0 .. 3 BY DEF BootInv, TypeOK
    <3>9. stage[d] # 0 /\ stage[d] < stage[s] BY <2>2, <3>7, <3>8
    <3>10. SlicesInOrder BY SlicesKept
    <3> QED BY <3>5, <3>9, <3>10 DEF SlicesInOrder
  <2> QED BY <2>1, <2>2
<1> QED BY <1>1, BootInvariance, PTL

-----------------------------------------------------------------------------
(* Network                                                                 *)

\* What AsConfigured says, without what a dhcp would do now.
Settled(i) ==
    CASE Config(i) = "dhcp" -> addrs[i] \subseteq {"lease"}
      [] Config(i) \in {"static", "nogateway"} -> addrs[i] = {"static"}
      [] OTHER -> addrs[i] = {}

\* Every interface is as configured, but for those in S.
SettledBut(S) == \A i \in Interfaces \ S : Settled(i)

NetInv ==
    /\ NetTypeOK
    /\ net.pc \in {"configure", "force", "retest"} => netConfig.file = "read"
    /\ At("configure") => SettledBut(todo)
    /\ At("force") => SettledBut({}) /\ todo \subseteq Forced
    /\ At("retest") => /\ todo \subseteq Forced
                      /\ \E i \in Forced : /\ net.inf = {i} /\ SettledBut({i})
                                           /\ addrs[i] \subseteq {"lease"}
    /\ At("ready") /\ netConfig.file = "read" =>
          /\ CanReach
          /\ \/ SettledBut({})
             \/ \E i \in Forced : SettledBut({i}) /\ addrs[i] \subseteq {"lease"}

\* AsConfigured does not depend on the moment it is asked.
LEMMA SettledMeans == ASSUME NetTypeOK, NEW i \in Interfaces PROVE AsConfigured(i) <=> Settled(i)
<1>1. Lease(i) \subseteq {"lease"} BY DEF Lease
<1>2. CASE Config(i) = "dhcp" BY <1>1, <1>2 DEF AsConfigured, Settled, Configured
<1>3. CASE Config(i) # "dhcp" BY <1>3 DEF AsConfigured, Settled, Configured
<1> QED BY <1>2, <1>3

\* Clear and Configure leave an interface as configured.
LEMMA ConfiguredSettles ==
    ASSUME NetTypeOK, NEW i \in Interfaces, addrs' = [addrs EXCEPT ![i] = Configured(i)], UNCHANGED netConfig
    PROVE  /\ Settled(i)' /\ addrs' \in [Interfaces -> SUBSET {"static", "lease"}]
           /\ \A j \in Interfaces : j # i => addrs'[j] = addrs[j]
<1>1. Lease(i) \subseteq {"lease"} BY DEF Lease
<1>2. Configured(i) \in SUBSET {"static", "lease"} BY <1>1 DEF Configured
<1>3. addrs'[i] = Configured(i) /\ \A j \in Interfaces : j # i => addrs'[j] = addrs[j] BY DEF NetTypeOK
<1>4. addrs' \in [Interfaces -> SUBSET {"static", "lease"}] BY <1>2 DEF NetTypeOK
<1>5. CASE Config(i) = "dhcp"
  <2>1. Configured(i) = Lease(i) BY <1>5 DEF Configured
  <2> QED BY <1>1, <1>3, <1>4, <1>5, <2>1 DEF Settled, Config
<1>6. CASE Config(i) \in {"static", "nogateway"}
  <2>1. Configured(i) = {"static"} BY <1>6 DEF Configured
  <2> QED BY <1>3, <1>4, <1>6, <2>1 DEF Settled, Config
<1>7. CASE Config(i) \notin {"dhcp", "static", "nogateway"}
  <2>1. Configured(i) = {} BY <1>7 DEF Configured
  <2> QED BY <1>3, <1>4, <1>7, <2>1 DEF Settled, Config
<1> QED BY <1>3, <1>4, <1>5, <1>6, <1>7

\* An interface whose addresses are left alone stays as it is.
LEMMA SettledKept ==
    ASSUME UNCHANGED netConfig, NEW i \in Interfaces, addrs'[i] = addrs[i] PROVE Settled(i) <=> Settled(i)'
  BY DEF Settled, Config

\* The invariant holds before the network is set up.
LEMMA NetInitInv == NetInit => NetInv
<1> SUFFICES ASSUME NetInit PROVE NetInv
  OBVIOUS
<1>1. NetTypeOK BY DEF NetInit, NetTypeOK
<1> QED BY <1>1 DEF NetInit, NetInv, At

\* Every step of setupNetworking and of its surroundings keeps it.
LEMMA NetStep ==
    ASSUME NetInv, SetupNetworking \/ DhcpCleanUp \/ ReachChanges \/ UNCHANGED netVars
    PROVE  NetInv'
<1>t. NetTypeOK BY DEF NetInv
<1>f. Forced \subseteq Interfaces \ {Lo} BY DEF Forced
<1>k. UNCHANGED netConfig
  BY DEF SetupNetworking, LoadNetwork, ConfigureInterface, TestInternet, ForceDhcp, Retest, Retry,
         DhcpCleanUp, ReachChanges, netVars
<1>c. Forced' = Forced BY <1>k DEF Forced, Config
<1>l. \A i \in Interfaces : Lease(i) \subseteq {"lease"} BY DEF Lease
<1>s. ASSUME UNCHANGED addrs, NEW S PROVE SettledBut(S) => SettledBut(S)'
  BY <1>k, <1>s, SettledKept DEF SettledBut
<1>1. CASE LoadNetwork
  <2>1. NetTypeOK' BY <1>t, <1>1 DEF LoadNetwork, NetTypeOK, Goto
  <2>2. CASE netConfig.file = "none" BY <1>k, <1>1, <2>1, <2>2 DEF LoadNetwork, Goto, At, NetInv
  <2>3. CASE netConfig.file # "none"
    <3>1. net'.pc = "configure" /\ todo' = Interfaces BY <1>1, <2>3 DEF LoadNetwork, Goto
    <3>2. netConfig.file = "read"
      <4>1. netConfig.file \in {"none", "unreadable", "read"} BY <1>t, NetAssumption DEF NetTypeOK
      <4> QED BY <1>1, <2>3, <4>1 DEF LoadNetwork
    <3> QED BY <1>k, <2>1, <3>1, <3>2 DEF At, NetInv, SettledBut
  <2> QED BY <2>2, <2>3
<1>2. ASSUME NEW i \in Interfaces, ConfigureInterface(i) PROVE NetInv'
  <2>1. /\ Settled(i)' /\ addrs' \in [Interfaces -> SUBSET {"static", "lease"}]
        /\ \A j \in Interfaces : j # i => addrs'[j] = addrs[j]
    BY <1>t, <1>k, <1>2, ConfiguredSettles DEF ConfigureInterface
  <2>2. NetTypeOK' BY <1>t, <1>k, <1>2, <2>1 DEF ConfigureInterface, NetTypeOK, Goto
  <2>3. CASE Panics(i) BY <1>2, <2>2, <2>3 DEF ConfigureInterface, Goto, At, NetInv
  <2>4. CASE ~Panics(i)
    <3>1. net' = net /\ At("configure") /\ todo' = todo \ {i} BY <1>2, <2>4 DEF ConfigureInterface
    <3>2. SettledBut(todo)'
      <4> SUFFICES ASSUME NEW j \in Interfaces, j \notin todo' PROVE Settled(j)'
        BY DEF SettledBut
      <4>1. CASE j = i BY <2>1, <4>1
      <4>2. CASE j # i BY <1>k, <2>1, <3>1, <4>2, SettledKept DEF NetInv, SettledBut
      <4> QED BY <4>1, <4>2
    <3> QED BY <1>k, <2>2, <3>1, <3>2 DEF At, NetInv
  <2> QED BY <2>3, <2>4
<1>3. CASE TestInternet
  <2>1. NetTypeOK' BY <1>t, <1>f, <1>3 DEF TestInternet, NetTypeOK, Goto
  <2>2. At("configure") /\ todo = {} /\ UNCHANGED <<addrs, reaches>> BY <1>3 DEF TestInternet
  <2>3. SettledBut({})' BY <1>s, <2>2 DEF NetInv
  <2>4. CASE CanReach
    <3>1. net'.pc = "ready" /\ CanReach' BY <1>3, <2>2, <2>4 DEF TestInternet, Goto, CanReach
    <3> QED BY <2>1, <2>3, <3>1 DEF NetInv, At
  <2>5. CASE ~CanReach
    <3>1. net'.pc = "force" /\ todo' = Forced BY <1>3, <2>5 DEF TestInternet, Goto
    <3> QED BY <1>k, <1>c, <2>1, <2>2, <2>3, <3>1 DEF NetInv, At
  <2> QED BY <2>4, <2>5
<1>4. ASSUME NEW i \in Interfaces, ForceDhcp(i) PROVE NetInv'
  <2>1. /\ At("force") /\ i \in todo /\ todo' = todo \ {i} /\ net' = [pc |-> "retest", inf |-> {i}]
        /\ addrs' = [addrs EXCEPT ![i] = Lease(i)]
    BY <1>4 DEF ForceDhcp, Goto
  <2>2. addrs'[i] \subseteq {"lease"} /\ \A j \in Interfaces : j # i => addrs'[j] = addrs[j]
    BY <1>t, <1>l, <2>1 DEF NetTypeOK
  <2>3. NetTypeOK'
    <3>1. Lease(i) \in SUBSET {"static", "lease"} BY <1>l
    <3>2. addrs' \in [Interfaces -> SUBSET {"static", "lease"}] BY <1>t, <2>1, <3>1 DEF NetTypeOK
    <3> QED BY <1>t, <1>4, <2>1, <3>2 DEF ForceDhcp, NetTypeOK
  <2>4. i \in Forced /\ SettledBut({}) /\ todo \subseteq Forced BY <2>1 DEF NetInv
  <2>5. SettledBut({i})' BY <1>k, <2>2, <2>4, SettledKept DEF SettledBut
  <2> QED BY <1>k, <1>c, <2>1, <2>2, <2>3, <2>4, <2>5 DEF NetInv, At
<1>5. ASSUME NEW i \in Interfaces, Retest(i) PROVE NetInv'
  <2>1. PICK j \in Forced : net.inf = {j} /\ SettledBut({j}) /\ addrs[j] \subseteq {"lease"}
    BY <1>5 DEF Retest, NetInv
  <2>2. i = j /\ At("retest") BY <1>5, <2>1 DEF Retest
  <2>3. CASE CanReach
    <3>1. net'.pc = "ready" /\ UNCHANGED <<addrs, reaches>> BY <1>5, <2>3 DEF Retest, Goto
    <3>2. CanReach' BY <2>3, <3>1 DEF CanReach
    <3>3. NetTypeOK' BY <1>t, <1>5, <2>3 DEF Retest, Goto, NetTypeOK
    <3>4. SettledBut({j})' BY <1>s, <2>1, <3>1
    <3> QED BY <1>c, <2>1, <3>1, <3>2, <3>3, <3>4 DEF NetInv, At
  <2>4. CASE ~CanReach
    <3>1. /\ net' = [pc |-> IF Panics(i) THEN "crashed" ELSE "force", inf |-> {}]
          /\ addrs' = [addrs EXCEPT ![i] = Configured(i)] /\ UNCHANGED todo
      BY <1>5, <2>4 DEF Retest, Goto
    <3>2. /\ Settled(i)' /\ addrs' \in [Interfaces -> SUBSET {"static", "lease"}]
          /\ \A k \in Interfaces : k # i => addrs'[k] = addrs[k]
      BY <1>t, <1>k, <3>1, ConfiguredSettles
    <3>3. NetTypeOK' BY <1>t, <1>5, <3>1, <3>2 DEF Retest, NetTypeOK
    <3>4. SettledBut({})'
      <4> SUFFICES ASSUME NEW k \in Interfaces PROVE Settled(k)'
        BY DEF SettledBut
      <4>1. CASE k = i BY <3>2, <4>1
      <4>2. CASE k # i BY <1>k, <2>1, <2>2, <3>2, <4>2, SettledKept DEF SettledBut
      <4> QED BY <4>1, <4>2
    <3> QED BY <1>k, <1>c, <2>2, <3>1, <3>3, <3>4 DEF NetInv, At
  <2> QED BY <2>3, <2>4
<1>6. CASE Retry
  <2>1. NetTypeOK' BY <1>t, <1>6 DEF Retry, NetTypeOK, Goto
  <2> QED BY <1>6, <2>1 DEF Retry, Goto, NetInv, At
<1>7. CASE UNCHANGED <<net, todo, addrs>> /\ (At("ready") => UNCHANGED reaches) /\ NetTypeOK'
  <2>1. At("ready") /\ CanReach => CanReach' BY <1>7 DEF CanReach
  <2>2. \A S : SettledBut(S) => SettledBut(S)' BY <1>7, <1>s
  <2> QED BY <1>k, <1>c, <1>7, <2>1, <2>2 DEF NetInv, At
<1>8. CASE DhcpCleanUp
  <2>1. NetTypeOK' BY <1>t, <1>8 DEF DhcpCleanUp, NetTypeOK
  <2> QED BY <1>7, <1>8, <2>1 DEF DhcpCleanUp
<1>9. CASE ReachChanges
  <2>1. NetTypeOK' BY <1>t, <1>9 DEF ReachChanges, NetTypeOK
  <2> QED BY <1>7, <1>9, <2>1 DEF ReachChanges
<1>10. CASE UNCHANGED netVars
  <2>1. NetTypeOK' BY <1>t, <1>10 DEF netVars, NetTypeOK
  <2> QED BY <1>7, <1>10, <2>1 DEF netVars
<1> QED BY <1>1, <1>2, <1>3, <1>4, <1>5, <1>6, <1>8, <1>9, <1>10 DEF SetupNetworking

\* What the network owes its configuration follows.
LEMMA NetRestores == NetInv => NetworkRestored
<1> SUFFICES ASSUME NetInv PROVE NetworkRestored
  OBVIOUS
<1> DEFINE odd == {i \in Interfaces : ~AsConfigured(i)}
<1>1. \A S : SettledBut(S) => odd \subseteq S BY SettledMeans DEF NetInv, SettledBut
<1>2. At("force") /\ todo = {} => odd = {} BY <1>1 DEF NetInv
<1>3. ASSUME At("ready"), netConfig.file = "read"
      PROVE  /\ CanReach /\ odd \subseteq Interfaces \ {Lo} /\ Cardinality(odd) <= 1
             /\ \A i \in odd : addrs[i] \subseteq {"lease"}
  <2>1. CASE SettledBut({})
    <3>1. odd = {} BY <1>1, <2>1
    <3>2. Cardinality(odd) = 0 BY <3>1, FS_EmptySet
    <3> QED BY <1>3, <3>1, <3>2 DEF NetInv
  <2>2. ASSUME NEW i \in Forced, SettledBut({i}), addrs[i] \subseteq {"lease"}
        PROVE  /\ odd \subseteq Interfaces \ {Lo} /\ Cardinality(odd) <= 1
               /\ \A j \in odd : addrs[j] \subseteq {"lease"}
    <3>1. odd \subseteq {i} BY <1>1, <2>2
    <3>2. odd = {} \/ odd = {i} BY <3>1
    <3>3. Cardinality(odd) \in {0, 1} BY <3>2, FS_EmptySet, FS_Singleton
    <3> QED BY <2>2, <3>1, <3>3 DEF Forced
  <2> QED BY <1>3, <2>1, <2>2 DEF NetInv
<1> QED BY <1>2, <1>3 DEF NetworkRestored

-----------------------------------------------------------------------------
(* Machine                                                                 *)

\* What the machine does to its services is what Boot does, or nothing: the refinement
\* of Boot by the machine that sets up its network.
LEMMA MachineStepBoots == [MachineNext]_machineVars => [Next]_vars
<1>1. ASSUME NEW s \in Services, ServiceStep(s) PROVE Next BY <1>1 DEF ServiceStep, Next
<1>2. BootstrapStep => [Next]_vars BY DEF BootstrapStep, Next, MainStep
<1> QED BY <1>1, <1>2 DEF MachineNext, machineVars

\* And what it does to its network is a step of setupNetworking or of its surroundings.
LEMMA MachineStepNet ==
    [MachineNext]_machineVars => SetupNetworking \/ DhcpCleanUp \/ ReachChanges \/ UNCHANGED netVars
  BY DEF MachineNext, machineVars, BootstrapStep, ServiceStep

\* Bootstrap is past the first slice only when the network is ready.
NetworkInv == main.stage > 1 => At("ready")

\* A network that is ready stays so, and the second slice waits for it.
LEMMA NetworkFirstStep == BootInv /\ NetworkInv /\ [MachineNext]_machineVars => NetworkInv'
<1> SUFFICES ASSUME BootInv, NetworkInv, [MachineNext]_machineVars, ~UNCHANGED machineVars PROVE NetworkInv'
  BY DEF NetworkInv, machineVars, vars, netVars, At
<1>1. main.stage \in 1 .. 3 BY DEF BootInv, TypeOK, Stages
<1>2. SetupNetworking => ~At("ready")
  BY DEF SetupNetworking, LoadNetwork, ConfigureInterface, TestInternet, ForceDhcp, Retest, Retry, At
<1>3. At("ready") => At("ready")'
  <2>1. SetupNetworking \/ UNCHANGED net
    BY MachineStepNet DEF DhcpCleanUp, ReachChanges, netVars
  <2> QED BY <1>2, <2>1 DEF At
<1>4. main'.stage > 1 => main.stage > 1 \/ At("ready")
  <2>1. CASE BootstrapStep
    <3>1. CASE RunSlice BY <3>1 DEF RunSlice, BootInv, TypeOK
    <3>2. CASE WaitAll BY <1>1, <3>2 DEF WaitAll, BootInv, TypeOK
    <3> QED BY <2>1, <3>1, <3>2 DEF BootstrapStep, vars
  <2>2. ASSUME NEW s \in Services, ServiceStep(s) PROVE UNCHANGED main
    BY <2>2 DEF ServiceStep, GoroutineStep, RunnerStep, WaitNext, StartService, SkipService, HookDue,
                HookFires, ServiceExits
  <2> QED BY <2>1, <2>2 DEF MachineNext, vars
<1> QED BY <1>3, <1>4 DEF NetworkInv

\* Machine implements Boot: whatever holds of how services are started there holds of the
\* machine with its network, also when setting that up fails again and again or ends core0
\* (bootstrap.go:134-171).
THEOREM MachineImplementsBoot == MachineSpec => Spec
<1>1. MachineInit => Init BY DEF MachineInit
<1> QED BY <1>1, MachineStepBoots, PTL DEF MachineSpec, Spec

\* On the machine a service is started only after every dependency in its slice came up
\* (pm.go:302-338).
THEOREM MachineDependenciesFirst == MachineSpec => []StartedAfterDependencies
  BY MachineImplementsBoot, DependenciesFirst, PTL

\* And only after every service of the earlier slices was released (bootstrap.go:134-171).
THEOREM MachineSliceBySlice == MachineSpec => []SlicesInOrder
  BY MachineImplementsBoot, SliceBySlice, PTL

\* However often the network was tried, every interface is as configured between two tries,
\* and at most one is not when the network is ready, which is never the loopback
\* (bootstrap.go:55-110).
THEOREM NetworkIsRestored == MachineSpec => []NetworkRestored
<1>1. MachineInit => NetInv BY NetInitInv DEF MachineInit
<1>2. NetInv /\ [MachineNext]_machineVars => NetInv' BY MachineStepNet, NetStep
<1> QED BY <1>1, <1>2, NetRestores, PTL DEF MachineSpec

\* A service of the second or third slice was started only with the network ready.
ServicesAfterNetwork == \A s \in Services : stage[s] > 1 /\ job[s] # "none" => At("ready")

\* No service of the second or third slice is started before the network is ready: the
\* internet is reached, or no network was configured (bootstrap.go:143-163).
THEOREM NetworkFirst == MachineSpec => []ServicesAfterNetwork
<1>1. MachineInit => NetworkInv BY DEF MachineInit, Init, NetworkInv
<1>2. MachineSpec => []BootInv BY MachineImplementsBoot, BootInvariance, PTL
<1>3. BootInv /\ NetworkInv => ServicesAfterNetwork
  <2> SUFFICES ASSUME BootInv, NetworkInv, NEW s \in Services, stage[s] > 1, job[s] # "none"
               PROVE  At("ready")
    BY DEF ServicesAfterNetwork
  <2>1. gor[s].pc = "end" BY DEF BootInv, JobInv
  <2>2. stage[s] < main.stage \/ stage[s] = main.stage BY <2>1 DEF BootInv, SliceInv
  <2>3. stage[s] \in 0 .. 3 /\ main.stage \in 1 .. 3 BY DEF BootInv, TypeOK, Stages
  <2> QED BY <2>2, <2>3 DEF NetworkInv
<1> QED BY <1>1, <1>2, <1>3, NetworkFirstStep, PTL DEF MachineSpec

-----------------------------------------------------------------------------
(* Bridges                                                                 *)

Creates(o) == ops[o].op = "create"

\* The index a command has fits where it is.
PlaceInv(o) ==
    /\ Creates(o) => found[o] # 1
    /\ Busy(o) => found[o] > 1
    /\ OpAt(o, "start") => found[o] = 0
    /\ OpAt(o, "ok") /\ Creates(o) => found[o] > 1
    /\ bpc[o] \in {"up", "net", "dns", "nat", "undo"} => Creates(o)
    /\ bpc[o] \in {"kill", "send", "del"} => ~Creates(o)
    /\ OpAt(o, "nat") => ops[o].nat # "no"

\* An index above 1 is one link's, of the name it was given for, and one create's.
OwnerInv ==
    /\ \A o, p \in Ops : Creates(o) /\ Creates(p) /\ found[o] = found[p] /\ found[o] # 0 => o = p
    /\ \A o \in Ops, n \in Names : found[o] > 1 /\ found[o] = link[n] => n = Name(o)
    /\ \A m, n \in Names : link[m] > 1 /\ link[m] = link[n] => m = n

IndexInv ==
    /\ BridgesTypeOK /\ lastIndex \in Nat \ {0}
    /\ \A n \in Names : n \in Devices <=> link[n] = 1
    /\ OwnerInv
    /\ \A o \in Ops : PlaceInv(o)

\* Filed under a name is the runner of a create of that name; where it failed, that was for
\* its nat.
FiledInv(n) ==
    filed[n] # NoOp =>
        /\ Creates(filed[n]) /\ Name(filed[n]) = n /\ found[filed[n]] > 1
        /\ bpc[filed[n]] \in {"nat", "ok", "undo", "err"}
        /\ bpc[filed[n]] \in {"undo", "err"} => ops[filed[n]].nat = "refused"

RunnerInv ==
    /\ \A n \in Names : FiledInv(n)
    /\ \A p \in Ops : OpAt(p, "send") => target[p] # NoOp /\ Name(target[p]) = Name(p)

FailedInv == \A o \in Ops : Creates(o) /\ OpAt(o, "err") =>
    ~There(o) \/ o \in notUp \/ found[o] \in undeleted

\* What holds of a name on which the commands came one after the other.
Alone(n) ==
    /\ \A o, p \in Ops : Busy(o) /\ Busy(p) /\ Name(o) = n /\ Name(p) = n => o = p
    /\ \A o \in Ops : Busy(o) /\ Name(o) = n => link[n] = found[o]
    /\ filed[n] \in live => link[n] = found[filed[n]] \/ ops[filed[n]].nat = "refused"
    /\ \A p \in Ops : Name(p) = n /\ OpAt(p, "send") => filed[n] \in {target[p], NoOp}
    /\ \A p \in Ops : Name(p) = n /\ OpAt(p, "del") => filed[n] \notin live
    /\ \A o \in Ops : /\ Creates(o) /\ bpc[o] \in {"nat", "ok"} /\ ops[o].mode = "net"
                      /\ Name(o) = n /\ found[o] = link[n]
                      => \/ Served(o)
                         \/ \E p \in Ops : Name(p) = n /\ OpAt(p, "del")

AloneInv == \A n \in Names \ overlap : Alone(n)

BridgesInv == IndexInv /\ RunnerInv /\ FailedInv /\ AloneInv

\* What each command asks for, and the places it can be.
LEMMA OpType ==
    ASSUME BridgesTypeOK, NEW o \in Ops
    PROVE  /\ Name(o) \in Names
           /\ Creates(o) \/ ops[o].op = "delete"
           /\ Creates(o) => ops[o].mode \in {"none", "net", "bad"} /\ ops[o].nat \in {"no", "accepted", "refused"}
<1>1. ops[o] \in OpTypes BY BridgesAssumption DEF BridgesTypeOK
<1> QED BY <1>1 DEF OpTypes, Name, Creates

\* A command that moves is the only one that does.
LEMMA OpMoves ==
    ASSUME BridgesTypeOK, NEW o \in Ops, NEW pc, OpGoto(o, pc)
    PROVE  bpc'[o] = pc /\ \A p \in Ops : p # o => bpc'[p] = bpc[p]
  BY DEF BridgesTypeOK, OpGoto

\* No command has begun.
LEMMA BridgesInitInv == BridgesInit => BridgesInv
<1> SUFFICES ASSUME BridgesInit PROVE BridgesInv
  OBVIOUS
<1>1. BridgesTypeOK BY DEF BridgesInit, BridgesTypeOK, Runners
<1>2. /\ \A o \in Ops : bpc[o] = "start" /\ found[o] = 0
      /\ \A n \in Names : filed[n] = NoOp /\ link[n] = (IF n \in Devices THEN 1 ELSE 0)
      /\ live = {}
  BY DEF BridgesInit
<1>3. IndexInv BY <1>1, <1>2 DEF BridgesInit, IndexInv, OwnerInv, PlaceInv, Busy, OpAt
<1>4. RunnerInv /\ FailedInv BY <1>2 DEF RunnerInv, FiledInv, FailedInv, OpAt
<1>5. AloneInv BY <1>2 DEF AloneInv, Alone, Busy, OpAt
<1> QED BY <1>3, <1>4, <1>5 DEF BridgesInv

\* Every step keeps the variables typed, and the commands fixed.
LEMMA BridgesTypeStep ==
    ASSUME BridgesInv, [BridgesNext]_bridgeVars
    PROVE  BridgesTypeOK' /\ lastIndex' \in Nat \ {0} /\ lastIndex <= lastIndex' /\ ops' = ops
<1>t. BridgesTypeOK /\ lastIndex \in Nat \ {0} BY DEF BridgesInv, IndexInv
<1> USE DEF BridgesTypeOK
<1>n. \A o \in Ops : Name(o) \in Names BY <1>t, OpType
<1>1. ASSUME NEW o \in Ops, LinkAdd(o)
      PROVE  BridgesTypeOK' /\ lastIndex' \in Nat \ {0} /\ lastIndex <= lastIndex' /\ ops' = ops
  <2>1. bpc' \in [Ops -> {"start", "up", "net", "dns", "nat", "undo", "kill", "send", "del", "ok", "err"}]
    BY <1>t, <1>1 DEF LinkAdd, OpGoto
  <2>2. overlap' \subseteq Names BY <1>t, <1>n, <1>1 DEF LinkAdd, Overlaps
  <2>3. CASE UNCHANGED <<link, lastIndex, found>> BY <1>t, <1>1, <2>1, <2>2, <2>3 DEF LinkAdd
  <2>4. CASE /\ lastIndex' = lastIndex + 1 /\ link' = [link EXCEPT ![Name(o)] = lastIndex + 1]
             /\ found' = [found EXCEPT ![o] = lastIndex + 1]
    <3>1. 0 .. lastIndex \subseteq 0 .. lastIndex' /\ lastIndex + 1 \in 0 .. lastIndex' BY <1>t, <2>4
    <3>2. found' \in [Ops -> 0 .. lastIndex'] /\ link' \in [Names -> 0 .. lastIndex']
      BY <1>t, <1>n, <2>4, <3>1
    <3> QED BY <1>t, <1>1, <2>1, <2>2, <2>4, <3>2 DEF LinkAdd
  <2> QED BY <1>1, <2>3, <2>4 DEF LinkAdd
<1>2. ASSUME NEW o \in Ops, LinkSetUp(o) \/ Networking(o) \/ StartDnsmasq(o) \/ RunNat(o)
      PROVE  BridgesTypeOK' /\ lastIndex' \in Nat \ {0} /\ lastIndex <= lastIndex' /\ ops' = ops
  <2>1. bpc' \in [Ops -> {"start", "up", "net", "dns", "nat", "undo", "kill", "send", "del", "ok", "err"}]
    BY <1>t, <1>2 DEF LinkSetUp, Networking, StartDnsmasq, RunNat, OpGoto
  <2>2. filed' \in [Names -> Runners]
    BY <1>t, <1>n, <1>2 DEF LinkSetUp, Networking, StartDnsmasq, RunNat, Runners
  <2> QED BY <1>t, <1>2, <2>1, <2>2 DEF LinkSetUp, Networking, StartDnsmasq, RunNat
<1>3. ASSUME NEW o \in Ops, Undo(o) \/ DeleteLink(o)
      PROVE  BridgesTypeOK' /\ lastIndex' \in Nat \ {0} /\ lastIndex <= lastIndex' /\ ops' = ops
  <2>1. bpc' \in [Ops -> {"start", "up", "net", "dns", "nat", "undo", "kill", "send", "del", "ok", "err"}]
    BY <1>t, <1>3 DEF Undo, DeleteLink, OpGoto
  <2>2. CASE LinkDel(o)
    <3>1. link' \in [Names -> 0 .. lastIndex] /\ undeleted' = undeleted BY <1>t, <2>2 DEF LinkDel
    <3> QED BY <1>t, <1>3, <2>1, <3>1 DEF Undo, DeleteLink
  <2>3. CASE LinkDelFails(o)
    <3>1. found[o] \in 0 .. lastIndex BY <1>t
    <3>2. link' = link /\ undeleted' \subseteq 0 .. lastIndex BY <1>t, <2>3, <3>1 DEF LinkDelFails
    <3> QED BY <1>t, <1>3, <2>1, <3>2 DEF Undo, DeleteLink
  <2> QED BY <1>3, <2>2, <2>3 DEF Undo, DeleteLink
<1>4. ASSUME NEW o \in Ops, LinkByName(o) \/ KillLookup(o) \/ KillSend(o)
      PROVE  BridgesTypeOK' /\ lastIndex' \in Nat \ {0} /\ lastIndex <= lastIndex' /\ ops' = ops
  <2>1. bpc' \in [Ops -> {"start", "up", "net", "dns", "nat", "undo", "kill", "send", "del", "ok", "err"}]
    BY <1>t, <1>4 DEF LinkByName, KillLookup, KillSend, OpGoto
  <2>2. found' \in [Ops -> 0 .. lastIndex] /\ target' \in [Ops -> Runners]
    BY <1>t, <1>n, <1>4 DEF LinkByName, KillLookup, KillSend
  <2>3. overlap' \subseteq Names BY <1>t, <1>n, <1>4 DEF LinkByName, KillLookup, KillSend, Overlaps
  <2>4. /\ UNCHANGED <<ops, link, lastIndex, filed, exited, notUp, undeleted>> /\ live' \subseteq live
    BY <1>4 DEF LinkByName, KillLookup, KillSend
  <2> QED BY <1>t, <2>1, <2>2, <2>3, <2>4
<1>5. ASSUME NEW o \in Ops, DnsmasqExits(o)
      PROVE  BridgesTypeOK' /\ lastIndex' \in Nat \ {0} /\ lastIndex <= lastIndex' /\ ops' = ops
  BY <1>t, <1>5 DEF DnsmasqExits
<1>6. ASSUME NEW n \in Names, RunnerCleanUp(n)
      PROVE  BridgesTypeOK' /\ lastIndex' \in Nat \ {0} /\ lastIndex <= lastIndex' /\ ops' = ops
  BY <1>t, <1>6 DEF RunnerCleanUp, Runners
<1>7. CASE UNCHANGED bridgeVars BY <1>t, <1>7 DEF bridgeVars
<1> QED BY <1>1, <1>2, <1>3, <1>4, <1>5, <1>6, <1>7 DEF BridgesNext

\* What a step that moves one command, and adds no link, keeps of the indices: it finds
\* nothing new and takes links away, but no device.
LEMMA IndexKept ==
    ASSUME IndexInv, BridgesTypeOK', lastIndex' \in Nat \ {0}, ops' = ops, found' = found,
           \A n \in Names : link'[n] = link[n] \/ (link'[n] = 0 /\ n \notin Devices),
           NEW o \in Ops, Busy(o) \/ UNCHANGED bpc,
           \A p \in Ops : p # o => bpc'[p] = bpc[p],
           bpc'[o] # "start" \/ UNCHANGED bpc,
           Creates(o) => bpc'[o] \notin {"kill", "send", "del"},
           ~Creates(o) => bpc'[o] \notin {"up", "net", "dns", "nat", "undo"},
           bpc'[o] = "nat" => ops[o].nat # "no"
    PROVE  IndexInv'
<1>1. \A n \in Names : n \in Devices <=> link'[n] = 1 BY DEF IndexInv
<1>2. /\ \A p \in Ops : Name(p)' = Name(p) /\ (Creates(p)' <=> Creates(p)) /\ found'[p] = found[p]
      /\ \A p \in Ops : found[p] \in Nat
      /\ \A n \in Names : link[n] \in Nat
  BY DEF Name, Creates, IndexInv, BridgesTypeOK
<1>3. OwnerInv' BY <1>2 DEF IndexInv, OwnerInv
<1>4. ASSUME NEW p \in Ops PROVE PlaceInv(p)'
  <2>1. PlaceInv(p) BY DEF IndexInv
  <2>2. CASE bpc'[p] = bpc[p] BY <1>2, <2>1, <2>2 DEF PlaceInv, Busy, OpAt
  <2>3. CASE bpc'[p] # bpc[p] BY <1>2, <2>1, <2>3 DEF PlaceInv, Busy, OpAt
  <2> QED BY <2>2, <2>3
<1> QED BY <1>1, <1>3, <1>4 DEF IndexInv

\* What a step that moves one command and starts no dnsmasq keeps of the runners.
LEMMA RunnerKept ==
    ASSUME RunnerInv, IndexInv, ops' = ops, NEW o \in Ops,
           \A n \in Names : filed'[n] \in {filed[n], NoOp},
           \A p \in Ops : p # o => bpc'[p] = bpc[p] /\ found'[p] = found[p] /\ target'[p] = target[p],
           \/ bpc'[o] = bpc[o] /\ target'[o] = target[o]
           \/ bpc'[o] # "send"
           \/ target'[o] # NoOp /\ Name(target'[o]) = Name(o),
           \/ bpc[o] \notin {"nat", "ok", "undo", "err"}
           \/ found'[o] = found[o] /\ \/ bpc'[o] = bpc[o]
                                      \/ bpc'[o] = "ok"
                                      \/ bpc'[o] \in {"undo", "err"} /\ ops[o].nat = "refused"
                                      \/ bpc'[o] = "err" /\ bpc[o] = "undo"
    PROVE  RunnerInv'
<1>1. ASSUME NEW n \in Names PROVE FiledInv(n)'
  <2>1. FiledInv(n) BY DEF RunnerInv
  <2>2. filed[n] \in Ops \cup {NoOp} BY DEF IndexInv, BridgesTypeOK, Runners
  <2>3. CASE filed'[n] = NoOp BY <2>3 DEF FiledInv
  <2>4. CASE filed'[n] = filed[n] /\ filed[n] # NoOp
    BY <2>1, <2>2, <2>4 DEF FiledInv, Creates, Name
  <2> QED BY <2>3, <2>4
<1>2. ASSUME NEW p \in Ops, OpAt(p, "send")' PROVE (target[p] # NoOp /\ Name(target[p]) = Name(p))'
  BY <1>2 DEF RunnerInv, OpAt, Name
<1> QED BY <1>1, <1>2 DEF RunnerInv, OpAt, Name

\* A create that ends in failure leaves no link, and no link with its index appears later.
LEMMA FailedKept ==
    ASSUME FailedInv, IndexInv, ops' = ops, NEW o \in Ops, notUp \subseteq notUp', undeleted \subseteq undeleted',
           \A p \in Ops : p # o => bpc'[p] = bpc[p] /\ found'[p] = found[p],
           \A n \in Names : link'[n] \in {link[n], 0, lastIndex + 1},
           \/ bpc'[o] = bpc[o] /\ found'[o] = found[o]
           \/ bpc'[o] # "err"
           \/ ~Creates(o)
           \/ o \in notUp'
           \/ found'[o] \in undeleted'
           \/ found'[o] = 0
           \/ found'[o] > 1 /\ \A n \in Names : link'[n] # found'[o]
    PROVE  FailedInv'
<1>1. ASSUME NEW p \in Ops, Creates(p)', OpAt(p, "err")', There(p)', p \notin notUp', found'[p] \notin undeleted'
      PROVE  FALSE
  <2>1. PICK n \in Names : link'[n] = found'[p] /\ found'[p] # 0 BY <1>1 DEF There
  <2>2. Creates(p) BY <1>1 DEF Creates
  <2>3. found[p] \in 0 .. lastIndex /\ lastIndex \in Nat BY DEF IndexInv, BridgesTypeOK
  <2>4. CASE bpc'[p] = bpc[p] /\ found'[p] = found[p]
    <3>1. link[n] = found[p] BY <2>1, <2>3, <2>4
    <3> QED BY <1>1, <2>1, <2>2, <2>4, <3>1 DEF FailedInv, OpAt, There
  <2>5. CASE p = o /\ ~(bpc'[p] = bpc[p] /\ found'[p] = found[p]) BY <1>1, <2>1, <2>2, <2>5 DEF OpAt
  <2> QED BY <2>4, <2>5
<1> QED BY <1>1 DEF FailedInv

\* What is said of a name is kept by a command on another.
LEMMA AloneElsewhere ==
    ASSUME IndexInv, RunnerInv, ops' = ops, NEW o \in Ops, NEW n \in Names, Name(o) # n, Alone(n),
           \A p \in Ops : p # o => bpc'[p] = bpc[p] /\ found'[p] = found[p] /\ target'[p] = target[p],
           link'[n] = link[n], filed'[n] = filed[n], live' \subseteq Ops,
           filed[n] \in live' => filed[n] \in live,
           \A p \in Ops : Name(p) = n /\ p \in live \cup exited => p \in live' \cup exited',
           undeleted \subseteq undeleted'
    PROVE  Alone(n)'
<1>1. \A p \in Ops : (Name(p)' = Name(p)) /\ (Creates(p)' <=> Creates(p)) BY DEF Name, Creates
<1>2. \A p \in Ops : Name(p) = n => p # o OBVIOUS
<1>3. filed[n] \in live => filed[n] \in Ops /\ filed[n] # NoOp
  BY BridgesAssumption DEF IndexInv, BridgesTypeOK
<1>4. filed[n] \in live => Name(filed[n]) = n BY <1>3 DEF RunnerInv, FiledInv
<1>5. filed'[n] \in live' => link'[n] = found'[filed'[n]] \/ ops'[filed'[n]].nat = "refused"
  BY <1>2, <1>3, <1>4 DEF Alone
<1>6. \A p \in Ops : Name(p) = n => (Busy(p)' <=> Busy(p)) /\ \A pc : OpAt(p, pc)' <=> OpAt(p, pc)
  BY <1>2 DEF Busy, OpAt
<1>7. \A p, q \in Ops : Busy(p)' /\ Busy(q)' /\ Name(p)' = n /\ Name(q)' = n => p = q
  BY <1>1, <1>6 DEF Alone
<1>8. \A p \in Ops : Busy(p)' /\ Name(p)' = n => link'[n] = found'[p] BY <1>1, <1>2, <1>6 DEF Alone
<1>9. \A p \in Ops : Name(p)' = n /\ OpAt(p, "send")' => filed'[n] \in {target'[p], NoOp}
  BY <1>1, <1>2, <1>6 DEF Alone
<1>10. \A p \in Ops : Name(p)' = n /\ OpAt(p, "del")' => filed'[n] \notin live'
  BY <1>1, <1>2, <1>6 DEF Alone
<1>11. ASSUME NEW p \in Ops, Creates(p)', bpc'[p] \in {"nat", "ok"}, ops'[p].mode = "net", Name(p)' = n,
              found'[p] = link'[n]
       PROVE  Served(p)' \/ \E q \in Ops : Name(q)' = n /\ OpAt(q, "del")'
  <2>1. Served(p) \/ \E q \in Ops : Name(q) = n /\ OpAt(q, "del")
    BY <1>1, <1>2, <1>11 DEF Alone
  <2> QED BY <1>1, <1>2, <1>6, <1>11, <2>1 DEF Served
<1> QED BY <1>5, <1>7, <1>8, <1>9, <1>10, <1>11 DEF Alone

\* And by a create that only goes on, or gives up.
LEMMA AloneGoesOn ==
    ASSUME ops' = ops, NEW o \in Ops, NEW n \in Names, Alone(n), Busy(o), Creates(o), IndexInv,
           UNCHANGED <<found, target, link, filed, live, exited, undeleted>>,
           \A p \in Ops : p # o => bpc'[p] = bpc[p],
           bpc'[o] \notin {"send", "del"},
           bpc'[o] \in {"nat", "ok"} => bpc[o] = "nat" \/ ops[o].mode # "net"
    PROVE  Alone(n)'
<1>1. \A p \in Ops : (Name(p)' = Name(p)) /\ (Creates(p)' <=> Creates(p)) BY DEF Name, Creates
<1>2. \A p \in Ops : Busy(p)' => Busy(p) BY DEF Busy
<1>3. bpc[o] # "del" BY DEF IndexInv, PlaceInv
<1>4. \A p \in Ops : (OpAt(p, "send")' => OpAt(p, "send")) /\ (OpAt(p, "del")' <=> OpAt(p, "del"))
  BY <1>3 DEF OpAt
<1>5. ASSUME NEW p \in Ops, Creates(p)', bpc'[p] \in {"nat", "ok"}, ops'[p].mode = "net", Name(p)' = n,
              found'[p] = link'[n]
       PROVE  Served(p)' \/ \E q \in Ops : Name(q)' = n /\ OpAt(q, "del")'
  <2>1. bpc[p] \in {"nat", "ok"} BY <1>5
  <2>2. Served(p) \/ \E q \in Ops : Name(q) = n /\ OpAt(q, "del")
    BY <1>1, <1>5, <2>1 DEF Alone
  <2> QED BY <1>1, <1>4, <2>2 DEF Served
<1>6. \A p, q \in Ops : Busy(p)' /\ Busy(q)' /\ Name(p)' = n /\ Name(q)' = n => p = q
  BY <1>1, <1>2 DEF Alone
<1>7. \A p \in Ops : Busy(p)' /\ Name(p)' = n => link'[n] = found'[p] BY <1>1, <1>2 DEF Alone
<1> QED BY <1>1, <1>4, <1>5, <1>6, <1>7 DEF Alone

\* create adds its link, with an index nothing had before.
LEMMA LinkAddKept ==
    ASSUME BridgesInv, BridgesTypeOK', lastIndex' \in Nat \ {0}, NEW o \in Ops, LinkAdd(o)
    PROVE  BridgesInv'
<1>i. IndexInv /\ RunnerInv /\ FailedInv /\ AloneInv BY DEF BridgesInv
<1>t. BridgesTypeOK /\ lastIndex \in Nat \ {0} BY <1>i DEF IndexInv
<1>1. /\ ops' = ops /\ target' = target /\ filed' = filed /\ live' = live /\ exited' = exited
      /\ notUp' = notUp /\ undeleted' = undeleted /\ bpc[o] = "start" /\ Creates(o) /\ found[o] = 0
  BY <1>i DEF LinkAdd, OpAt, Creates, IndexInv, PlaceInv
<1>2. Name(o) \in Names BY <1>t, OpType
<1>3. /\ \A p \in Ops : Name(p)' = Name(p) /\ (Creates(p)' <=> Creates(p))
      /\ \A p \in Ops : found[p] \in 0 .. lastIndex
      /\ \A n \in Names : link[n] \in 0 .. lastIndex
  BY <1>1, <1>t DEF Name, Creates, BridgesTypeOK
<1>4. \A p \in Ops : p # o => bpc'[p] = bpc[p] /\ found'[p] = found[p]
  BY <1>t DEF LinkAdd, OpGoto, BridgesTypeOK
<1>5. \/ /\ bpc'[o] = "err" /\ link' = link /\ found' = found /\ lastIndex' = lastIndex
      \/ /\ bpc'[o] = "up" /\ link[Name(o)] = 0 /\ lastIndex' = lastIndex + 1
         /\ link'[Name(o)] = lastIndex + 1 /\ found'[o] = lastIndex + 1
         /\ \A n \in Names : n # Name(o) => link'[n] = link[n]
  BY <1>t, <1>2 DEF LinkAdd, OpGoto, BridgesTypeOK
<1>6. IndexInv'
  <2>1. \A n \in Names : n \in Devices <=> link'[n] = 1 BY <1>i, <1>t, <1>2, <1>5 DEF IndexInv
  <2>2. OwnerInv'
    <3>1. CASE link' = link /\ found' = found BY <1>i, <1>3, <3>1 DEF IndexInv, OwnerInv
    <3>2. CASE /\ lastIndex' = lastIndex + 1
               /\ link'[Name(o)] = lastIndex + 1 /\ found'[o] = lastIndex + 1
               /\ \A n \in Names : n # Name(o) => link'[n] = link[n]
      <4>1. ASSUME NEW p \in Ops, NEW q \in Ops, Creates(p), Creates(q), found'[p] = found'[q], found'[p] # 0
            PROVE  p = q
        BY <1>i, <1>t, <1>3, <1>4, <3>2, <4>1 DEF IndexInv, OwnerInv
      <4>2. ASSUME NEW p \in Ops, NEW n \in Names, found'[p] > 1, found'[p] = link'[n]
            PROVE  n = Name(p)
        BY <1>i, <1>t, <1>3, <1>4, <3>2, <4>2 DEF IndexInv, OwnerInv
      <4>3. ASSUME NEW m \in Names, NEW n \in Names, link'[m] > 1, link'[m] = link'[n]
            PROVE  m = n
        BY <1>i, <1>t, <1>3, <3>2, <4>3 DEF IndexInv, OwnerInv
      <4> QED BY <1>3, <4>1, <4>2, <4>3 DEF OwnerInv
    <3> QED BY <1>5, <3>1, <3>2
  <2>3. ASSUME NEW p \in Ops PROVE PlaceInv(p)'
    <3>1. PlaceInv(p) BY <1>i DEF IndexInv
    <3>2. CASE p # o BY <1>1, <1>3, <1>4, <3>1, <3>2 DEF PlaceInv, Busy, OpAt
    <3>3. CASE p = o BY <1>1, <1>3, <1>5, <1>t, <3>3 DEF PlaceInv, Busy, OpAt
    <3> QED BY <3>2, <3>3
  <2> QED BY <2>1, <2>2, <2>3 DEF IndexInv
<1>7. RunnerInv' BY <1>i, <1>1, <1>4, <1>5, RunnerKept
<1>8. \A n \in Names : link'[n] \in {link[n], 0, lastIndex + 1} BY <1>5
<1>9. FailedInv' BY <1>i, <1>1, <1>4, <1>5, <1>8, FailedKept
<1>10. ASSUME NEW n \in Names, n \notin overlap' PROVE Alone(n)'
  <2>1. n \notin overlap BY <1>10 DEF LinkAdd, Overlaps
  <2>2. Alone(n) BY <1>i, <2>1 DEF AloneInv
  <2>3. CASE Name(o) # n
    <3>1. link'[n] = link[n] BY <1>5, <2>3
    <3> QED BY <1>i, <1>1, <1>t, <1>4, <2>2, <2>3, <3>1, AloneElsewhere DEF BridgesTypeOK
  <2>4. CASE Name(o) = n
    <3>1. \A p \in Ops : p # o /\ Name(p) = n => ~Busy(p) BY <1>10, <2>4 DEF LinkAdd, Overlaps
    <3>2. \A p \in Ops : Busy(p)' /\ Name(p)' = n => p = o BY <1>3, <1>4, <3>1 DEF Busy
    <3>3. \A p \in Ops : Name(p)' = n => ~OpAt(p, "send")' /\ ~OpAt(p, "del")'
      BY <1>5, <3>2 DEF OpAt, Busy
    <3>4. \A p \in Ops : Name(p) = n => ~OpAt(p, "send") /\ ~OpAt(p, "del")
      BY <1>1, <3>1 DEF OpAt, Busy
    <3>5. \A p \in Ops : Busy(p)' /\ Name(p)' = n => link'[n] = found'[p]
      BY <1>5, <2>4, <3>2 DEF Busy
    <3>6. ASSUME filed[n] \in live PROVE link'[n] = found'[filed[n]] \/ ops[filed[n]].nat = "refused"
      <4>1. filed[n] \in Ops /\ filed[n] # NoOp BY <3>6, <1>t, BridgesAssumption DEF BridgesTypeOK
      <4>2. filed[n] # o /\ found[filed[n]] > 1 BY <1>i, <1>1, <4>1 DEF RunnerInv, FiledInv
      <4>3. link[n] = found[filed[n]] \/ ops[filed[n]].nat = "refused" BY <2>2, <3>6 DEF Alone
      <4> QED BY <1>4, <1>5, <2>4, <4>1, <4>2, <4>3
    <3>7. ASSUME NEW p \in Ops, Creates(p)', bpc'[p] \in {"nat", "ok"}, ops'[p].mode = "net",
                 Name(p)' = n, found'[p] = link'[n]
          PROVE  Served(p)'
      <4>1. p # o BY <1>5, <3>7
      <4>2. found'[p] = found[p] /\ bpc'[p] = bpc[p] /\ Creates(p) /\ Name(p) = n BY <1>3, <1>4, <3>7, <4>1
      <4>3. found[p] # lastIndex + 1 BY <1>3, <1>t
      <4>4. link'[n] = link[n] BY <1>5, <2>4, <3>7, <4>2, <4>3
      <4> QED BY <1>1, <2>2, <3>4, <3>7, <4>2, <4>4 DEF Alone, Served
    <3> QED BY <1>1, <3>2, <3>3, <3>5, <3>6, <3>7 DEF Alone
  <2> QED BY <2>3, <2>4
<1> QED BY <1>6, <1>7, <1>9, <1>10 DEF BridgesInv, AloneInv

\* The steps of create that change nothing but where it is.
LEMMA CreateGoesOnKept ==
    ASSUME BridgesInv, BridgesTypeOK', lastIndex' \in Nat \ {0}, NEW o \in Ops,
           LinkSetUp(o) \/ Networking(o) \/ RunNat(o)
    PROVE  BridgesInv'
<1>i. IndexInv /\ RunnerInv /\ FailedInv /\ AloneInv BY DEF BridgesInv
<1>t. BridgesTypeOK BY <1>i DEF IndexInv
<1>1. /\ ops' = ops /\ UNCHANGED <<found, target, link, lastIndex, filed, live, exited, overlap, undeleted>>
      /\ bpc[o] \in {"up", "net", "nat"}
  BY DEF LinkSetUp, Networking, RunNat, OpAt
<1>2. Busy(o) /\ Creates(o) BY <1>i, <1>1 DEF Busy, IndexInv, PlaceInv
<1>3. \A p \in Ops : p # o => bpc'[p] = bpc[p]
  BY <1>t DEF LinkSetUp, Networking, RunNat, OpGoto, BridgesTypeOK
<1>4. \/ bpc[o] = "up" /\ bpc'[o] = "net" /\ notUp' = notUp
      \/ bpc[o] = "up" /\ bpc'[o] = "err" /\ notUp' = notUp \cup {o}
      \/ bpc[o] = "net" /\ bpc'[o] = "ok" /\ ops[o].mode = "none" /\ notUp' = notUp
      \/ bpc[o] = "net" /\ bpc'[o] \in {"dns", "undo"} /\ notUp' = notUp
      \/ bpc[o] = "nat" /\ bpc'[o] = "ok" /\ notUp' = notUp
      \/ bpc[o] = "nat" /\ bpc'[o] = "undo" /\ ops[o].nat = "refused" /\ notUp' = notUp
  <2>1. CASE LinkSetUp(o) BY <1>t, <2>1 DEF LinkSetUp, OpGoto, OpAt, BridgesTypeOK
  <2>2. CASE Networking(o) BY <1>t, <2>2 DEF Networking, OpGoto, OpAt, BridgesTypeOK
  <2>3. CASE RunNat(o)
    <3>1. bpc[o] = "nat" /\ notUp' = notUp BY <2>3 DEF RunNat, OpAt
    <3>2. ops[o].nat \in {"accepted", "refused"}
      BY <1>i, <1>t, <1>2, <3>1, OpType DEF IndexInv, PlaceInv, OpAt
    <3> QED BY <1>t, <2>3, <3>1, <3>2 DEF RunNat, OpGoto, BridgesTypeOK
  <2> QED BY <2>1, <2>2, <2>3
<1>5. IndexInv' BY <1>i, <1>1, <1>2, <1>3, <1>4, IndexKept
<1>6. RunnerInv' BY <1>i, <1>1, <1>3, <1>4, RunnerKept
<1>7. FailedInv'
  <2>1. /\ notUp \subseteq notUp' /\ \A p \in Ops : p # o => bpc'[p] = bpc[p] /\ found'[p] = found[p]
        /\ \A n \in Names : link'[n] \in {link[n], 0, lastIndex + 1}
        /\ bpc'[o] # "err" \/ o \in notUp'
    BY <1>1, <1>3, <1>4
  <2> QED BY <1>i, <1>1, <2>1, FailedKept
<1>8. ASSUME NEW n \in Names, n \notin overlap' PROVE Alone(n)'
  <2>1. Alone(n) BY <1>i, <1>1, <1>8 DEF AloneInv
  <2> QED BY <1>i, <1>1, <1>2, <1>3, <1>4, <2>1, AloneGoesOn
<1> QED BY <1>5, <1>6, <1>7, <1>8 DEF BridgesInv, AloneInv

\* dnsmasq is started, unless a runner is filed under its id.
LEMMA StartDnsmasqKept ==
    ASSUME BridgesInv, BridgesTypeOK', lastIndex' \in Nat \ {0}, NEW o \in Ops, StartDnsmasq(o)
    PROVE  BridgesInv'
<1>i. IndexInv /\ RunnerInv /\ FailedInv /\ AloneInv BY DEF BridgesInv
<1>t. BridgesTypeOK BY <1>i DEF IndexInv
<1>1. /\ ops' = ops /\ UNCHANGED <<found, target, link, lastIndex, exited, overlap, notUp, undeleted>>
      /\ bpc[o] = "dns"
  BY DEF StartDnsmasq, OpAt
<1>2. Busy(o) /\ Creates(o) /\ found[o] > 1 BY <1>i, <1>1 DEF Busy, IndexInv, PlaceInv
<1>n. Name(o) \in Names BY <1>t, OpType
<1>3. \A p \in Ops : p # o => bpc'[p] = bpc[p] BY <1>t DEF StartDnsmasq, OpGoto, BridgesTypeOK
<1>4. \/ bpc'[o] = "undo" /\ UNCHANGED <<filed, live>>
      \/ /\ filed[Name(o)] = NoOp /\ filed'[Name(o)] = o /\ live' = live \cup {o}
         /\ \A n \in Names : n # Name(o) => filed'[n] = filed[n]
         /\ bpc'[o] = "ok" \/ (bpc'[o] = "nat" /\ ops[o].nat # "no")
  BY <1>t, <1>n DEF StartDnsmasq, OpGoto, BridgesTypeOK
<1>5. IndexInv' BY <1>i, <1>1, <1>2, <1>3, <1>4, IndexKept
<1>6. RunnerInv'
  <2>1. ASSUME NEW n \in Names PROVE FiledInv(n)'
    <3>1. FiledInv(n) BY <1>i DEF RunnerInv
    <3>2. CASE filed'[n] = filed[n]
      <4>1. filed[n] # NoOp => filed[n] \in Ops /\ filed[n] # o
        BY <1>1, <1>t, <3>1 DEF FiledInv, BridgesTypeOK, Runners
      <4> QED BY <1>1, <1>3, <3>1, <3>2, <4>1 DEF FiledInv, Creates, Name
    <3>3. CASE filed'[n] # filed[n]
      <4>1. n = Name(o) /\ filed'[n] = o /\ bpc'[o] \in {"ok", "nat"} BY <1>4, <3>3
      <4> QED BY <1>1, <1>2, <4>1 DEF FiledInv, Creates, Name
    <3> QED BY <3>2, <3>3
  <2>2. ASSUME NEW p \in Ops, OpAt(p, "send")' PROVE (target[p] # NoOp /\ Name(target[p]) = Name(p))'
    BY <1>i, <1>1, <1>3, <1>4, <2>2 DEF RunnerInv, OpAt, Name
  <2> QED BY <2>1, <2>2 DEF RunnerInv
<1>7. FailedInv'
  <2>1. /\ notUp \subseteq notUp' /\ \A p \in Ops : p # o => bpc'[p] = bpc[p] /\ found'[p] = found[p]
        /\ \A n \in Names : link'[n] \in {link[n], 0, lastIndex + 1}
        /\ bpc'[o] # "err"
    BY <1>1, <1>3, <1>4
  <2> QED BY <1>i, <1>1, <2>1, FailedKept
<1>8. ASSUME NEW n \in Names, n \notin overlap' PROVE Alone(n)'
  <2>1. Alone(n) BY <1>i, <1>1, <1>8 DEF AloneInv
  <2>2. CASE UNCHANGED <<filed, live>> /\ bpc'[o] = "undo"
    BY <1>i, <1>1, <1>2, <1>3, <2>1, <2>2, AloneGoesOn
  <2>3. CASE Name(o) # n
    <3>1. /\ link'[n] = link[n] /\ filed'[n] = filed[n] /\ live' \subseteq Ops
          /\ \A p \in Ops : p # o => bpc'[p] = bpc[p] /\ found'[p] = found[p] /\ target'[p] = target[p]
          /\ \A p \in Ops : p \in live \cup exited => p \in live' \cup exited'
      BY <1>1, <1>3, <1>4, <2>3 DEF BridgesTypeOK
    <3>2. filed[n] # o
      BY <1>i, <1>t, <2>3, BridgesAssumption DEF RunnerInv, FiledInv, BridgesTypeOK
    <3>3. filed[n] \in live' => filed[n] \in live BY <1>4, <3>2
    <3> QED BY <1>i, <1>1, <2>1, <2>3, <3>1, <3>3, AloneElsewhere
  <2>4. CASE /\ Name(o) = n /\ filed'[n] = o /\ live' = live \cup {o} /\ bpc'[o] \in {"ok", "nat"}
    <3>1. link[n] = found[o] /\ \A p \in Ops : Busy(p) /\ Name(p) = n => p = o BY <1>2, <2>1, <2>4 DEF Alone
    <3>2. \A p \in Ops : Busy(p)' /\ Name(p)' = n => p = o BY <1>1, <1>3, <3>1 DEF Busy, Name
    <3>3. \A p \in Ops : Name(p)' = n => ~OpAt(p, "send")' /\ ~OpAt(p, "del")'
      BY <2>4, <3>2 DEF OpAt, Busy
    <3>4. \A p \in Ops : Name(p) = n => ~OpAt(p, "del")
      BY <1>1, <3>1 DEF OpAt, Busy
    <3>5. ASSUME NEW p \in Ops, Creates(p)', bpc'[p] \in {"nat", "ok"}, ops'[p].mode = "net",
                 Name(p)' = n, found'[p] = link'[n]
          PROVE  Served(p)'
      <4>1. CASE p = o BY <2>4, <4>1 DEF Served
      <4>2. CASE p # o
        <5>1. bpc[p] \in {"nat", "ok"} /\ Creates(p) /\ ops[p].mode = "net" /\ Name(p) = n /\ found[p] = link[n]
          BY <1>1, <1>3, <3>5, <4>2 DEF Creates, Name
        <5> QED BY <1>1, <2>1, <2>4, <3>4, <5>1 DEF Alone, Served
      <4> QED BY <4>1, <4>2
    <3> QED BY <1>1, <2>4, <3>1, <3>2, <3>3, <3>5 DEF Alone
  <2> QED BY <1>4, <2>2, <2>3, <2>4
<1> QED BY <1>5, <1>6, <1>7, <1>8 DEF BridgesInv, AloneInv

\* A step that takes the link of a command away, and ends it: what it takes is that link.
LEMMA LinkDelTakes ==
    ASSUME IndexInv, NEW o \in Ops, Busy(o), LinkDel(o)
    PROVE  /\ \A n \in Names : link'[n] = link[n] \/ (link'[n] = 0 /\ n \notin Devices)
           /\ \A n \in Names : n # Name(o) => link'[n] = link[n]
           /\ \A n \in Names : link'[n] # found[o]
           /\ found[o] > 1
<1>1. found[o] > 1 /\ found[o] \in Nat BY DEF IndexInv, PlaceInv, BridgesTypeOK
<1>2. \A n \in Names : link'[n] = IF link[n] = found[o] THEN 0 ELSE link[n] BY DEF LinkDel
<1>3. \A n \in Names : link[n] = found[o] => n \notin Devices /\ n = Name(o)
  BY <1>1 DEF IndexInv, OwnerInv
<1> QED BY <1>1, <1>2, <1>3

\* The link of a command that failed, or deletes, is taken away.
LEMMA LinkGoneKept ==
    ASSUME BridgesInv, BridgesTypeOK', lastIndex' \in Nat \ {0}, NEW o \in Ops,
           Undo(o) \/ DeleteLink(o)
    PROVE  BridgesInv'
<1>i. IndexInv /\ RunnerInv /\ FailedInv /\ AloneInv BY DEF BridgesInv
<1>t. BridgesTypeOK BY <1>i DEF IndexInv
<1>1. /\ ops' = ops /\ UNCHANGED <<found, target, lastIndex, filed, live, exited, overlap, notUp>>
      /\ bpc[o] \in {"undo", "del"} /\ (LinkDel(o) \/ LinkDelFails(o))
  BY DEF Undo, DeleteLink, OpAt
<1>2. Busy(o) BY <1>1 DEF Busy
<1>n. Name(o) \in Names BY <1>t, OpType
<1>3. \A p \in Ops : p # o => bpc'[p] = bpc[p] BY <1>t DEF Undo, DeleteLink, OpGoto, BridgesTypeOK
<1>4. \/ bpc[o] = "undo" /\ bpc'[o] = "err" /\ Creates(o)
      \/ bpc[o] = "del" /\ bpc'[o] \in {"ok", "err"} /\ ~Creates(o)
  <2>1. CASE Undo(o) BY <1>i, <1>t, <2>1 DEF Undo, OpGoto, OpAt, BridgesTypeOK, IndexInv, PlaceInv
  <2>2. CASE DeleteLink(o)
    BY <1>i, <1>t, <2>2 DEF DeleteLink, OpGoto, OpAt, BridgesTypeOK, IndexInv, PlaceInv
  <2> QED BY <2>1, <2>2
<1>5. /\ \A n \in Names : link'[n] = link[n] \/ (link'[n] = 0 /\ n \notin Devices)
      /\ \A n \in Names : n # Name(o) => link'[n] = link[n]
      /\ undeleted \subseteq undeleted'
      /\ \/ LinkDel(o) /\ \A n \in Names : link'[n] # found[o]
         \/ found[o] \in undeleted' /\ link' = link
      /\ found[o] > 1
  <2>1. CASE LinkDel(o)
    <3>1. undeleted' = undeleted BY <2>1 DEF LinkDel
    <3> QED BY <1>i, <1>2, <2>1, <3>1, LinkDelTakes
  <2>2. CASE LinkDelFails(o) BY <1>i, <1>2, <2>2 DEF LinkDelFails, IndexInv, PlaceInv
  <2> QED BY <1>1, <2>1, <2>2
<1>6. IndexInv' BY <1>i, <1>1, <1>2, <1>3, <1>4, <1>5, IndexKept
<1>7. RunnerInv' BY <1>i, <1>1, <1>3, <1>4, RunnerKept
<1>8. FailedInv'
  <2>1. /\ notUp \subseteq notUp' /\ \A p \in Ops : p # o => bpc'[p] = bpc[p] /\ found'[p] = found[p]
        /\ \A n \in Names : link'[n] \in {link[n], 0, lastIndex + 1}
        /\ \/ found'[o] > 1 /\ \A n \in Names : link'[n] # found'[o]
           \/ found'[o] \in undeleted'
    BY <1>1, <1>3, <1>5
  <2> QED BY <1>i, <1>1, <1>5, <2>1, FailedKept
<1>9. ASSUME NEW n \in Names, n \notin overlap' PROVE Alone(n)'
  <2>1. Alone(n) BY <1>i, <1>1, <1>9 DEF AloneInv
  <2>2. CASE Name(o) # n
    BY <1>i, <1>t, <1>1, <1>3, <1>5, <2>1, <2>2, AloneElsewhere DEF BridgesTypeOK
  <2>3. CASE Name(o) = n
    <3>1. link[n] = found[o] /\ \A p \in Ops : Busy(p) /\ Name(p) = n => p = o BY <1>2, <2>1, <2>3 DEF Alone
    <3>2. link'[n] = 0 \/ (link'[n] = found[o] /\ found[o] \in undeleted')
      BY <1>5, <3>1 DEF LinkDel
    <3>3. \A p \in Ops : Name(p)' = n => ~Busy(p)' BY <1>1, <1>3, <1>4, <3>1 DEF Busy, Name
    <3>4. \A p \in Ops : Name(p)' = n => ~OpAt(p, "send")' /\ ~OpAt(p, "del")' BY <3>3 DEF OpAt, Busy
    <3>5. ASSUME filed[n] \in live PROVE ops[filed[n]].nat = "refused"
      <4>1. filed[n] \in Ops /\ filed[n] # NoOp BY <3>5, <1>t, BridgesAssumption DEF BridgesTypeOK
      <4>2. FiledInv(n) BY <1>i DEF RunnerInv
      <4>3. bpc[o] # "del" BY <2>1, <2>3, <3>5 DEF Alone, OpAt
      <4>4. CASE filed[n] = o BY <1>1, <4>1, <4>2, <4>3, <4>4 DEF FiledInv
      <4>5. CASE filed[n] # o
        <5>1. found[filed[n]] # found[o]
          BY <1>i, <1>4, <1>5, <4>1, <4>2, <4>3, <4>5 DEF FiledInv, IndexInv, OwnerInv
        <5> QED BY <2>1, <3>1, <3>5, <5>1 DEF Alone
      <4> QED BY <4>4, <4>5
    <3>6. \A p \in Ops : Creates(p)' /\ bpc'[p] \in {"nat", "ok"} /\ found'[p] = link'[n] => Served(p)'
      <4>1. \A p \in Ops : PlaceInv(p)' BY <1>6 DEF IndexInv
      <4> QED BY <1>1, <3>2, <4>1 DEF PlaceInv, Busy, OpAt, Served
    <3> QED BY <1>1, <3>3, <3>4, <3>5, <3>6 DEF Alone
  <2> QED BY <2>2, <2>3
<1> QED BY <1>6, <1>7, <1>8, <1>9 DEF BridgesInv, AloneInv

\* delete looks its link up.
LEMMA LinkByNameKept ==
    ASSUME BridgesInv, BridgesTypeOK', lastIndex' \in Nat \ {0}, NEW o \in Ops, LinkByName(o)
    PROVE  BridgesInv'
<1>i. IndexInv /\ RunnerInv /\ FailedInv /\ AloneInv BY DEF BridgesInv
<1>t. BridgesTypeOK /\ lastIndex \in Nat \ {0} BY <1>i DEF IndexInv
<1>1. /\ ops' = ops /\ UNCHANGED <<target, link, lastIndex, filed, live, exited, notUp, undeleted>>
      /\ bpc[o] = "start" /\ ~Creates(o)
  BY DEF LinkByName, OpAt, Creates
<1>2. Name(o) \in Names BY <1>t, OpType
<1>3. /\ \A p \in Ops : Name(p)' = Name(p) /\ (Creates(p)' <=> Creates(p))
      /\ \A p \in Ops : found[p] \in Nat
      /\ \A n \in Names : link[n] \in Nat
  BY <1>1, <1>t DEF Name, Creates, BridgesTypeOK
<1>4. \A p \in Ops : p # o => bpc'[p] = bpc[p] /\ found'[p] = found[p]
  BY <1>t DEF LinkByName, OpGoto, BridgesTypeOK
<1>5. /\ found'[o] = link[Name(o)]
      /\ \/ bpc'[o] = "err"
         \/ bpc'[o] = "kill" /\ link[Name(o)] # 0 /\ Name(o) \notin Devices
  BY <1>t, <1>2 DEF LinkByName, OpGoto, BridgesTypeOK
<1>6. IndexInv'
  <2>1. \A n \in Names : n \in Devices <=> link'[n] = 1 BY <1>i, <1>1 DEF IndexInv
  <2>2. OwnerInv'
    <3>1. ASSUME NEW p \in Ops, NEW q \in Ops, Creates(p), Creates(q), found'[p] = found'[q], found'[p] # 0
          PROVE  p = q
      BY <1>i, <1>1, <1>4, <3>1 DEF IndexInv, OwnerInv
    <3>2. ASSUME NEW p \in Ops, NEW n \in Names, found'[p] > 1, found'[p] = link[n]
          PROVE  n = Name(p)
      BY <1>i, <1>2, <1>3, <1>4, <1>5, <3>2 DEF IndexInv, OwnerInv
    <3> QED BY <1>i, <1>1, <1>3, <3>1, <3>2 DEF IndexInv, OwnerInv
  <2>3. ASSUME NEW p \in Ops PROVE PlaceInv(p)'
    <3>1. PlaceInv(p) BY <1>i DEF IndexInv
    <3>2. CASE p # o BY <1>1, <1>3, <1>4, <3>1, <3>2 DEF PlaceInv, Busy, OpAt
    <3>3. CASE p = o
      <4>1. bpc'[o] = "kill" => link[Name(o)] > 1 BY <1>i, <1>2, <1>3, <1>5 DEF IndexInv
      <4> QED BY <1>1, <1>3, <1>5, <3>3, <4>1 DEF PlaceInv, Busy, OpAt
    <3> QED BY <3>2, <3>3
  <2> QED BY <2>1, <2>2, <2>3 DEF IndexInv
<1>7. RunnerInv' BY <1>i, <1>1, <1>4, <1>5, RunnerKept
<1>8. FailedInv' BY <1>i, <1>1, <1>4, <1>5, FailedKept
<1>9. ASSUME NEW n \in Names, n \notin overlap' PROVE Alone(n)'
  <2>1. n \notin overlap BY <1>9 DEF LinkByName, Overlaps
  <2>2. Alone(n) BY <1>i, <2>1 DEF AloneInv
  <2>3. CASE Name(o) # n BY <1>i, <1>1, <1>t, <1>4, <2>2, <2>3, AloneElsewhere DEF BridgesTypeOK
  <2>4. CASE Name(o) = n
    <3>1. \A p \in Ops : p # o /\ Name(p) = n => ~Busy(p) BY <1>9, <2>4 DEF LinkByName, Overlaps
    <3>2. \A p \in Ops : Busy(p)' /\ Name(p)' = n => p = o BY <1>3, <1>4, <3>1 DEF Busy
    <3>3. \A p \in Ops : Name(p)' = n => ~OpAt(p, "send")' /\ ~OpAt(p, "del")'
      BY <1>5, <3>2 DEF OpAt, Busy
    <3>4. \A p \in Ops : Name(p) = n => ~OpAt(p, "del") BY <1>1, <3>1 DEF OpAt, Busy
    <3>5. ASSUME filed[n] \in live PROVE link'[n] = found'[filed[n]] \/ ops[filed[n]].nat = "refused"
      <4>1. filed[n] \in Ops /\ filed[n] # NoOp BY <3>5, <1>t, BridgesAssumption DEF BridgesTypeOK
      <4>2. filed[n] # o BY <1>i, <1>1, <4>1 DEF RunnerInv, FiledInv
      <4> QED BY <1>1, <1>4, <2>2, <3>5, <4>1, <4>2 DEF Alone
    <3>6. ASSUME NEW p \in Ops, Creates(p)', bpc'[p] \in {"nat", "ok"}, ops'[p].mode = "net",
                 Name(p)' = n, found'[p] = link'[n]
          PROVE  Served(p)'
      <4>1. p # o BY <1>5, <3>6
      <4>2. found[p] = link[n] /\ bpc'[p] = bpc[p] /\ Creates(p) /\ Name(p) = n
        BY <1>1, <1>3, <1>4, <3>6, <4>1
      <4> QED BY <1>1, <1>4, <2>2, <3>4, <3>6, <4>1, <4>2 DEF Alone, Served
    <3> QED BY <1>1, <1>5, <2>4, <3>2, <3>3, <3>5, <3>6 DEF Alone
  <2> QED BY <2>3, <2>4
<1> QED BY <1>6, <1>7, <1>8, <1>9 DEF BridgesInv, AloneInv

\* delete looks the runner of dnsmasq up, and kills it.
LEMMA KillKept ==
    ASSUME BridgesInv, BridgesTypeOK', lastIndex' \in Nat \ {0}, NEW o \in Ops,
           KillLookup(o) \/ KillSend(o)
    PROVE  BridgesInv'
<1>i. IndexInv /\ RunnerInv /\ FailedInv /\ AloneInv BY DEF BridgesInv
<1>t. BridgesTypeOK BY <1>i DEF IndexInv
<1>1. /\ ops' = ops /\ UNCHANGED <<found, link, lastIndex, filed, exited, overlap, notUp, undeleted>>
      /\ bpc[o] \in {"kill", "send"}
  BY DEF KillLookup, KillSend, OpAt
<1>2. Busy(o) /\ ~Creates(o) BY <1>i, <1>1 DEF Busy, IndexInv, PlaceInv
<1>n. Name(o) \in Names BY <1>t, OpType
<1>3. \A p \in Ops : p # o => bpc'[p] = bpc[p] /\ found'[p] = found[p] /\ target'[p] = target[p]
  BY <1>1, <1>t DEF KillLookup, KillSend, OpGoto, BridgesTypeOK
<1>4. \/ /\ live' = live /\ bpc[o] = "kill" /\ filed[Name(o)] = NoOp /\ bpc'[o] = "del"
      \/ /\ live' = live /\ bpc[o] = "kill" /\ filed[Name(o)] # NoOp /\ bpc'[o] = "send"
         /\ target'[o] = filed[Name(o)]
      \/ /\ live' = live \ {target[o]} /\ bpc[o] = "send" /\ bpc'[o] = "del"
  <2>1. CASE KillLookup(o) BY <1>t, <2>1 DEF KillLookup, OpGoto, OpAt, BridgesTypeOK
  <2>2. CASE KillSend(o) BY <1>t, <2>2 DEF KillSend, OpGoto, OpAt, BridgesTypeOK
  <2> QED BY <2>1, <2>2
<1>5. IndexInv' BY <1>i, <1>1, <1>2, <1>3, <1>4, IndexKept
<1>6. RunnerInv'
  <2>1. filed[Name(o)] # NoOp => Name(filed[Name(o)]) = Name(o) BY <1>i, <1>n DEF RunnerInv, FiledInv
  <2> QED BY <1>i, <1>1, <1>3, <1>4, <2>1, RunnerKept
<1>7. FailedInv'
  <2>1. /\ notUp \subseteq notUp' /\ \A p \in Ops : p # o => bpc'[p] = bpc[p] /\ found'[p] = found[p]
        /\ \A n \in Names : link'[n] \in {link[n], 0, lastIndex + 1}
    BY <1>1, <1>3
  <2> QED BY <1>i, <1>1, <1>2, <2>1, FailedKept
<1>8. ASSUME NEW n \in Names, n \notin overlap' PROVE Alone(n)'
  <2>1. Alone(n) BY <1>i, <1>1, <1>8 DEF AloneInv
  <2>2. CASE Name(o) # n
    <3>1. ASSUME NEW p \in Ops, Name(p) = n, p \in live PROVE p \in live'
      BY <1>i, <1>4, <2>2, <3>1 DEF RunnerInv, OpAt
    <3> QED BY <3>1, <1>i, <1>t, <1>1, <1>3, <1>4, <2>1, <2>2, AloneElsewhere DEF BridgesTypeOK
  <2>3. CASE Name(o) = n
    <3>1. link[n] = found[o] /\ \A p \in Ops : Busy(p) /\ Name(p) = n => p = o BY <1>2, <2>1, <2>3 DEF Alone
    <3>2. \A p \in Ops : Busy(p)' /\ Name(p)' = n => p = o BY <1>1, <1>3, <3>1 DEF Busy, Name
    <3>3. bpc'[o] = "del" => filed[n] \notin live'
      BY <1>t, <1>4, <2>1, <2>3, BridgesAssumption DEF Alone, OpAt, BridgesTypeOK
    <3>4. \A p \in Ops : Name(p)' = n /\ OpAt(p, "send")' => filed'[n] \in {target'[p], NoOp}
      <4>1. \A p \in Ops : OpAt(p, "send")' => Busy(p)' BY DEF OpAt, Busy
      <4> QED BY <1>1, <1>4, <2>3, <3>2, <4>1 DEF OpAt
    <3>5. \A p \in Ops : Name(p)' = n /\ OpAt(p, "del")' => filed'[n] \notin live'
      <4>1. \A p \in Ops : OpAt(p, "del")' => Busy(p)' BY DEF OpAt, Busy
      <4> QED BY <1>1, <3>2, <3>3, <4>1 DEF OpAt
    <3>6. ASSUME NEW p \in Ops, Creates(p)', bpc'[p] \in {"nat", "ok"}, ops'[p].mode = "net",
                 Name(p)' = n, found'[p] = link'[n]
          PROVE  Served(p)' \/ \E q \in Ops : Name(q)' = n /\ OpAt(q, "del")'
      <4>1. CASE bpc'[o] = "del" BY <1>1, <2>3, <4>1 DEF Name, OpAt
      <4>2. CASE bpc'[o] = "send"
        <5>1. p # o /\ live' = live BY <1>4, <3>6, <4>2
        <5>2. Creates(p) /\ bpc[p] \in {"nat", "ok"} /\ ops[p].mode = "net" /\ Name(p) = n /\ found[p] = link[n]
          BY <1>1, <1>3, <3>6, <5>1 DEF Creates, Name
        <5>3. \A q \in Ops : Name(q) = n => ~OpAt(q, "del") BY <1>1, <3>1 DEF OpAt, Busy
        <5> QED BY <1>1, <2>1, <5>1, <5>2, <5>3 DEF Alone, Served
      <4> QED BY <1>4, <4>1, <4>2
    <3>7. \A p \in Ops : Busy(p)' /\ Name(p)' = n => link'[n] = found'[p] BY <1>1, <3>1, <3>2
    <3>8. filed'[n] \in live' => link'[n] = found'[filed'[n]] \/ ops'[filed'[n]].nat = "refused"
      BY <1>1, <1>4, <2>1 DEF Alone
    <3> QED BY <3>2, <3>4, <3>5, <3>6, <3>7, <3>8 DEF Alone
  <2> QED BY <2>2, <2>3
<1> QED BY <1>5, <1>6, <1>7, <1>8 DEF BridgesInv, AloneInv

\* Every step keeps the invariant.
LEMMA BridgesStep == BridgesInv /\ [BridgesNext]_bridgeVars => BridgesInv'
<1> SUFFICES ASSUME BridgesInv, [BridgesNext]_bridgeVars PROVE BridgesInv'
  OBVIOUS
<1>i. IndexInv /\ RunnerInv /\ FailedInv /\ AloneInv BY DEF BridgesInv
<1>t. BridgesTypeOK' /\ lastIndex' \in Nat \ {0} BY BridgesTypeStep
<1>1. ASSUME NEW o \in Ops, LinkAdd(o) PROVE BridgesInv' BY <1>t, <1>1, LinkAddKept
<1>2. ASSUME NEW o \in Ops, LinkSetUp(o) \/ Networking(o) \/ RunNat(o) PROVE BridgesInv'
  BY <1>t, <1>2, CreateGoesOnKept
<1>3. ASSUME NEW o \in Ops, StartDnsmasq(o) PROVE BridgesInv' BY <1>t, <1>3, StartDnsmasqKept
<1>4. ASSUME NEW o \in Ops, Undo(o) \/ DeleteLink(o) PROVE BridgesInv' BY <1>t, <1>4, LinkGoneKept
<1>5. ASSUME NEW o \in Ops, LinkByName(o) PROVE BridgesInv' BY <1>t, <1>5, LinkByNameKept
<1>6. ASSUME NEW o \in Ops, KillLookup(o) \/ KillSend(o) PROVE BridgesInv' BY <1>t, <1>6, KillKept
<1>7. ASSUME NEW o \in Ops,
             \/ DnsmasqExits(o)
             \/ \E n \in Names : RunnerCleanUp(n)
      PROVE  BridgesInv'
  <2>1. UNCHANGED <<ops, bpc, found, target, link, lastIndex, overlap, notUp, undeleted>>
    BY <1>7 DEF DnsmasqExits, RunnerCleanUp
  <2>2. /\ \A n \in Names : filed'[n] \in {filed[n], NoOp}
        /\ live' \subseteq live /\ live \subseteq live' \cup exited' /\ exited \subseteq exited'
    BY <1>i, <1>7 DEF DnsmasqExits, RunnerCleanUp, IndexInv, BridgesTypeOK
  <2>3. IndexInv' BY <1>i, <1>t, <2>1 DEF IndexInv, OwnerInv, PlaceInv, Creates, Name, Busy, OpAt
  <2>4. RunnerInv' BY <1>i, <2>1, <2>2, RunnerKept
  <2>5. FailedInv' BY <1>i, <2>1 DEF FailedInv, Creates, OpAt, There
  <2>6. ASSUME NEW n \in Names \ overlap PROVE Alone(n)'
    <3>1. Alone(n) BY <1>i DEF AloneInv
    <3>2. NoOp \notin live BY <1>i, BridgesAssumption DEF IndexInv, BridgesTypeOK
    <3>3. filed'[n] \in live' => filed'[n] = filed[n] /\ filed[n] \in live BY <2>2, <3>2
    <3>4. \A p, q \in Ops : Busy(p)' /\ Busy(q)' /\ Name(p)' = n /\ Name(q)' = n => p = q
      BY <2>1, <3>1 DEF Alone, Busy, Name
    <3>5. \A p \in Ops : Busy(p)' /\ Name(p)' = n => link'[n] = found'[p]
      BY <2>1, <3>1 DEF Alone, Busy, Name
    <3>6. filed'[n] \in live' => link'[n] = found'[filed'[n]] \/ ops'[filed'[n]].nat = "refused"
      BY <2>1, <3>1, <3>3 DEF Alone
    <3>7. \A p \in Ops : Name(p)' = n /\ OpAt(p, "send")' => filed'[n] \in {target'[p], NoOp}
      BY <2>1, <2>2, <3>1 DEF Alone, OpAt, Name
    <3>8. \A p \in Ops : Name(p)' = n /\ OpAt(p, "del")' => filed'[n] \notin live'
      BY <2>1, <3>1, <3>3 DEF Alone, OpAt, Name
    <3>9. ASSUME NEW q \in Ops, Creates(q)', bpc'[q] \in {"nat", "ok"}, ops'[q].mode = "net",
                 Name(q)' = n, found'[q] = link'[n]
          PROVE  Served(q)' \/ \E p \in Ops : Name(p)' = n /\ OpAt(p, "del")'
      <4>1. Served(q) \/ \E p \in Ops : Name(p) = n /\ OpAt(p, "del")
        BY <2>1, <3>1, <3>9 DEF Alone, Creates, Name
      <4> QED BY <2>1, <2>2, <4>1 DEF OpAt, Name, Served
    <3> QED BY <3>4, <3>5, <3>6, <3>7, <3>8, <3>9 DEF Alone
  <2> QED BY <2>1, <2>3, <2>4, <2>5, <2>6 DEF BridgesInv, AloneInv
<1>8. ASSUME NEW n \in Names, RunnerCleanUp(n) PROVE BridgesInv'
  <2>1. filed[n] \in Ops BY <1>i, <1>8 DEF RunnerCleanUp, IndexInv, BridgesTypeOK, Runners
  <2> QED BY <1>7, <1>8, <2>1
<1>9. CASE UNCHANGED bridgeVars
  <2>1. IndexInv' BY <1>i, <1>t, <1>9 DEF bridgeVars, IndexInv, OwnerInv, PlaceInv, Creates, Name, Busy, OpAt
  <2>2. RunnerInv' /\ FailedInv'
    BY <1>i, <1>9 DEF bridgeVars, RunnerInv, FiledInv, FailedInv, Creates, Name, OpAt, There
  <2>3. AloneInv' BY <1>i, <1>9 DEF bridgeVars, AloneInv, Alone, Served, Creates, Name, Busy, OpAt
  <2> QED BY <2>1, <2>2, <2>3 DEF BridgesInv
<1> QED BY <1>1, <1>2, <1>3, <1>4, <1>5, <1>6, <1>7, <1>8, <1>9 DEF BridgesNext

\* However the commands on bridges interleave and whenever a dnsmasq ends: an index names one
\* link for good, a filed runner is one of a create of its name, and a name on which
\* commands did not overlap is in order (bridge.go:68-300).
THEOREM BridgesInvariance == BridgesSpec => []BridgesInv
  BY BridgesInitInv, BridgesStep, PTL DEF BridgesSpec

\* A create that failed leaves no bridge behind but one that LinkSetUp or LinkDel refused, and
\* on a name without overlapping commands a bridge with a network has its dnsmasq and a
\* dnsmasq its bridge, but for what BridgeServed excepts (bridge.go:68-300), for any number
\* of commands and names.
THEOREM BridgesServed == BridgesSpec => []BridgeServed
<1>1. BridgesInv => BridgeServed
  <2> SUFFICES ASSUME BridgesInv PROVE BridgeServed
    OBVIOUS
  <2>i. IndexInv /\ FailedInv /\ AloneInv BY DEF BridgesInv
  <2>1. \A o \in Ops : ops[o].op = "create" /\ bpc[o] = "err" =>
          ~There(o) \/ o \in notUp \/ found[o] \in undeleted
    BY <2>i DEF FailedInv, Creates, OpAt
  <2>2. ASSUME NEW n \in Names, Quiet(n)
        PROVE  /\ \A o \in Ops : /\ ops[o].op = "create" /\ bpc[o] = "ok"
                                  /\ ops[o].mode = "net" /\ found[o] = link[n]
                                  => Served(o)
               /\ filed[n] \in live => link[n] = found[filed[n]] \/ ops[filed[n]].nat = "refused"
    <3>1. Alone(n) BY <2>i, <2>2 DEF AloneInv, Quiet
    <3>2. \A p \in Ops : Name(p) = n => ~OpAt(p, "del") BY <2>2 DEF Quiet, Busy, OpAt
    <3>3. ASSUME NEW o \in Ops, Creates(o), bpc[o] = "ok", ops[o].mode = "net", found[o] = link[n]
          PROVE  Served(o)
      <4>1. found[o] > 1 BY <2>i, <3>3 DEF IndexInv, PlaceInv, OpAt
      <4>2. Name(o) = n BY <2>i, <3>3, <4>1 DEF IndexInv, OwnerInv
      <4> QED BY <3>1, <3>2, <3>3, <4>2 DEF Alone
    <3> QED BY <3>1, <3>3 DEF Alone, Creates
  <2> QED BY <2>1, <2>2 DEF BridgeServed
<1> QED BY <1>1, BridgesInvariance, PTL

=============================================================================
