----------------------------- MODULE ContainersProofs -----------------------------
(***************************************************************************)
(* Theorems about Containers (core0/containers/manager.go, container.go),  *)
(* for any creates, any number of numbers and anything the kernel may      *)
(* refuse to remove.                                                       *)
(*                                                                         *)
(* They hold as long as no number was given that was not free (clash);     *)
(* numbers whose containers are settled are given again.  ContainersInv    *)
(* has three parts.  The numbers (NumbersInv): no two containers that are  *)
(* present have the same one, so the paths of a container are its own.     *)
(* The order (OrderInv): create, the runner of coreX, its hook onpid and   *)
(* the clean-up follow each other.  The resources (HookInv, PathsInv,      *)
(* SweptInv): what is mounted, linked or running for a container follows   *)
(* from how far these four are.                                            *)
(*                                                                         *)
(* The second half shows, step by step, that Containers implements         *)
(* ContainerLife.                                                          *)
(***************************************************************************)
EXTENDS Containers, TLAPS

\* Settled, for a record of a container and the mounts at its number.
Left(c, k, m) ==
    /\ k.job = "over" \/ (k.create = "failed" /\ k.clean = "over")
    /\ k.hook \in {"none", "over"}
    /\ \A w \in Mounts : c \notin ToSet(m[w])
    /\ \A l \in Links : k.links[l] = "no"
    /\ \A x \in Sides : k.side[x] # "running" /\ k.side[x] # "ending"

\* A create that has no number has done nothing.
Untouched(k) ==
    /\ k.job = "none" /\ k.proc = "none" /\ k.hook = "none" /\ k.clean = "no" /\ k.pid = "unset"
    /\ ~k.late /\ k.kept = {}
    /\ \A l \in Links : k.links[l] = "no"
    /\ \A x \in Sides : k.side[x] = "none"

\* How the goroutines of a container are ordered: create, then the runner, then its hook
\* and the clean-up.
OrderInv(k) ==
    /\ k.create = "created" <=> k.job # "none"
    /\ k.job \in {"none", "filed"} => k.proc = "none" /\ k.hook = "none"
    /\ k.job \in {"filed", "select", "drain"} => k.clean = "no"
    /\ k.job = "none" /\ k.create # "failed" => k.clean = "no"
    /\ k.job = "over" => k.clean = "over"
    /\ k.proc = "alive" => k.job \in {"select", "drain"}
    /\ k.hook \in {"none", "begin"} <=> k.pid = "unset"
    /\ k.clean # "no" /\ ~k.late => k.hook \in {"none", "over"}

\* Before the namespace is kept there are neither links nor helpers, and a link to a bridge
\* of its own is made only for a container that has one.
HookInv(k, m, a) ==
    /\ k.hook \in {"none", "begin", "ns"} =>
         /\ m["ns"] = << >>
         /\ \A l \in Links : k.links[l] = "no"
         /\ \A x \in Sides : k.side[x] = "none"
    /\ ~a.bridge => k.links["bridge"] = "no"

\* The mounts that create has yet to make, when it is at a mount.
Pending(w) ==
    CASE w = "root" -> {"root"}
      [] w = "data" -> {"root", "data"}
      [] w = "redis" -> {"root", "data", "redis"}
      [] w = "corex" -> {"root", "data", "redis", "corex"}

\* What is mounted at the paths of a container.
PathsInv(c, k, m) ==
    /\ \A w \in Mounts : m[w] \in {<< >>, <<c>>}
    /\ \A w \in Paths : k.create \in Pending(w) => m[w] = << >>
    /\ \A w \in Paths : k.create \notin Pending(w) \cup {"failed"} /\ k.clean # "over" => m[w] = <<c>>
    /\ \A w \in Paths : k.clean = "over" /\ w \notin k.kept => m[w] = << >>

\* What cleanup has done, when the hook was over before.
SweptInv(k, m) ==
    ~k.late =>
        /\ k.clean \in {"links", "net", "ns", "mounts", "over"} => k.side["fwd"] # "running"
        /\ k.clean \in {"net", "ns", "mounts", "over"} => k.links["bridge"] = "no" \/ "bridge" \in k.kept
        /\ k.clean \in {"ns", "mounts", "over"} => k.side["net"] # "running"
        /\ k.clean \in {"mounts", "over"} /\ "ns" \notin k.kept =>
             m["ns"] = << >> /\ k.links["default"] # "moved"

Local(c, k, m, a) == OrderInv(k) /\ HookInv(k, m, a) /\ PathsInv(c, k, m) /\ SweptInv(k, m)

\* Two containers that are present have different numbers.
NumbersInv == \A c, e \in Creates : Present(c) /\ Present(e) /\ cont[c].id = cont[e].id => c = e

\* A command is with its own container, or that is settled.
ServedInv == \A d \in Dispatches : by[d] \in {None, Target[d]} \/ Settled(Target[d])

ContainersInv ==
    /\ TypeOK
    /\ NumbersInv
    /\ \A c \in Creates : Numbered(c) => OrderInv(cont[c])
    /\ \A c \in Creates : Present(c) => Local(c, cont[c], mounts[cont[c].id], args[c])
    /\ \A c \in Creates : ~Numbered(c) => Untouched(cont[c])
    /\ \A i \in Ids : (\A c \in Creates : Present(c) => cont[c].id # i) => \A w \in Mounts : mounts[i][w] = << >>
    /\ \A d \in Dispatches : disp[d] # "idle" => Numbered(Target[d])
    /\ ServedInv

-----------------------------------------------------------------------------
\* What is mounted in a sequence of at most one.
LEMMA OneIsIn ==
    ToSet(<< >>) = {} /\ \A c : ToSet(<<c>>) = {c} /\ <<c>> # << >>
  BY DEF ToSet

\* A step of one container that is present, with what is mounted at its paths.
LEMMA OneMoves ==
    ASSUME ContainersInv, NEW c \in Creates, Present(c),
           cont' \in [Creates -> Container], \A e \in Creates \ {c} : cont'[e] = cont[e],
           mounts' \in [Ids -> [Mounts -> Seq(Creates)]],
           \A i \in Ids \ {cont[c].id} : mounts'[i] = mounts[i],
           cont'[c].id = cont[c].id, cont'[c].create \notin {"idle", "refused"},
           Local(c, cont'[c], mounts'[cont[c].id], args[c]),
           UNCHANGED <<sequence, otherVars>>
    PROVE  ContainersInv'
<1>1. UNCHANGED <<args, sequence, clash, disp, by>> BY DEF otherVars
<1>2. TypeOK' BY <1>1 DEF ContainersInv, TypeOK
<1>3. Numbered(c) BY DEF Present
<1>4. \A e \in Creates : Numbered(e)' <=> Numbered(e) BY <1>3 DEF Numbered
<1>5. \A e \in Creates : cont'[e].id = cont[e].id /\ cont[e].id \in Ids BY DEF ContainersInv, TypeOK, Container
<1>6. \A w \in Mounts : mounts'[cont[c].id][w] \in {<< >>, <<c>>} BY DEF Local, PathsInv
<1>7. \A e \in Creates : /\ Settled(e) <=> Left(e, cont[e], mounts[cont[e].id])
                         /\ Settled(e)' <=> Left(e, cont'[e], mounts'[cont'[e].id])
  BY DEF Settled, Left, Gone, Running, Ending
<1>8. ASSUME NEW e \in Creates, e # c PROVE Settled(e) => Settled(e)'
  <2>1. CASE cont[e].id # cont[c].id
    <3>1. cont'[e] = cont[e] /\ mounts'[cont'[e].id] = mounts[cont[e].id] BY <1>5, <1>8, <2>1
    <3> QED BY <1>7, <3>1
  <2>2. CASE cont[e].id = cont[c].id
    <3>1. \A w \in Mounts : e \notin ToSet(mounts'[cont'[e].id][w]) BY <1>5, <1>6, <1>8, <2>2, OneIsIn
    <3> QED BY <1>7, <1>8, <3>1 DEF Left
  <2> QED BY <2>1, <2>2
<1>a. ASSUME NEW e \in Creates, e # c, Present(e) PROVE cont[e].id # cont[c].id /\ Present(e)'
  <2>1. cont[e].id # cont[c].id BY <1>a DEF ContainersInv, NumbersInv
  <2>2. cont'[e] = cont[e] /\ mounts'[cont'[e].id] = mounts[cont[e].id] BY <1>5, <1>a, <2>1
  <2>3. Numbered(e) /\ ~Settled(e) BY <1>a DEF Present
  <2>4. Numbered(e)' BY <1>4, <2>3
  <2>5. ~Settled(e)' BY <1>7, <2>2, <2>3
  <2> QED BY <2>1, <2>4, <2>5 DEF Present
<1>b. ASSUME NEW e \in Creates, e # c, Present(e)' PROVE Present(e)
  <2>1. Numbered(e)' /\ ~Settled(e)' BY <1>b DEF Present
  <2>2. Numbered(e) BY <1>4, <2>1
  <2>3. ~Settled(e) BY <1>8, <1>b, <2>1
  <2> QED BY <2>2, <2>3 DEF Present
<1>9. NumbersInv'
  <2>1. ASSUME NEW b \in Creates, NEW e \in Creates, Present(b)', Present(e)', cont'[b].id = cont'[e].id PROVE b = e
    <3>0. cont[b].id = cont[e].id BY <1>5, <2>1
    <3>1. CASE b # c /\ e # c
      <4>1. Present(b) /\ Present(e) BY <1>b, <2>1, <3>1
      <4> QED BY <3>0, <4>1 DEF ContainersInv, NumbersInv
    <3>2. CASE b = c /\ e # c
      <4>1. Present(e) BY <1>b, <2>1, <3>2
      <4> QED BY <1>a, <3>0, <3>2, <4>1
    <3>3. CASE b # c /\ e = c
      <4>1. Present(b) BY <1>b, <2>1, <3>3
      <4> QED BY <1>a, <3>0, <3>3, <4>1
    <3> QED BY <3>1, <3>2, <3>3
  <2> QED BY <2>1 DEF NumbersInv
<1>10. \A e \in Creates : Numbered(e)' => OrderInv(cont'[e])
  BY <1>4 DEF ContainersInv, Local
<1>11. ASSUME NEW e \in Creates, Present(e)' PROVE Local(e, cont'[e], mounts'[cont'[e].id], args'[e])
  <2>1. CASE e = c BY <1>1, <2>1
  <2>2. CASE e # c
    <3>1. Present(e) /\ cont[e].id \in Ids \ {cont[c].id} BY <1>5, <1>a, <1>b, <1>11, <2>2
    <3>2. mounts'[cont[e].id] = mounts[cont[e].id] /\ cont'[e] = cont[e] BY <2>2, <3>1
    <3>3. Local(e, cont[e], mounts[cont[e].id], args[e]) BY <3>1 DEF ContainersInv
    <3> QED BY <1>1, <3>2, <3>3
  <2> QED BY <2>1, <2>2
<1>12. \A e \in Creates : ~Numbered(e)' => Untouched(cont'[e]) BY <1>3, <1>4 DEF ContainersInv
<1>13. ASSUME NEW i \in Ids, \A e \in Creates : Present(e)' => cont'[e].id # i, NEW w \in Mounts
       PROVE  mounts'[i][w] = << >>
  <2>1. CASE i = cont[c].id
    <3>1. ~Present(c)' BY <1>13, <2>1
    <3>2. Settled(c)' BY <1>3, <1>4, <3>1 DEF Present
    <3>3. c \notin ToSet(mounts'[cont'[c].id][w]) BY <1>7, <3>2 DEF Left
    <3> QED BY <1>6, <2>1, <3>3, OneIsIn
  <2>2. CASE i # cont[c].id
    <3>1. ASSUME NEW e \in Creates, Present(e) PROVE cont[e].id # i
      <4>1. CASE e = c BY <2>2, <4>1
      <4>2. CASE e # c
        <5>1. Present(e)' BY <1>a, <3>1, <4>2
        <5> QED BY <1>5, <1>13, <5>1
      <4> QED BY <4>1, <4>2
    <3>2. mounts[i][w] = << >> BY <3>1 DEF ContainersInv
    <3> QED BY <2>2, <3>2
  <2> QED BY <2>1, <2>2
<1>14. (\A d \in Dispatches : disp[d] # "idle" => Numbered(Target[d]))'
  BY <1>1, <1>4, ContainersAssumption DEF ContainersInv
<1>15. ServedInv'
  <2>1. ~Settled(c) BY DEF Present
  <2>2. ASSUME NEW e \in Creates, Settled(e) PROVE Settled(e)'
    <3>1. e # c BY <2>1, <2>2
    <3> QED BY <1>8, <2>2, <3>1
  <2> QED BY <1>1, <2>2, ContainersAssumption DEF ContainersInv, ServedInv
<1> QED BY <1>2, <1>9, <1>10, <1>11, <1>12, <1>13, <1>14, <1>15 DEF ContainersInv

\* One that mounts and unmounts nothing.
LEMMA OneStays ==
    ASSUME ContainersInv, NEW c \in Creates, Present(c),
           cont' \in [Creates -> Container], \A e \in Creates \ {c} : cont'[e] = cont[e],
           cont'[c].id = cont[c].id, cont'[c].create \notin {"idle", "refused"},
           Local(c, cont'[c], mounts[cont[c].id], args[c]),
           UNCHANGED <<sequence, mounts, otherVars>>
    PROVE  ContainersInv'
<1>1. mounts \in [Ids -> [Mounts -> Seq(Creates)]] BY DEF ContainersInv, TypeOK
<1> QED BY <1>1, OneMoves

\* A container for which something goes on is present.
LEMMA AtWork ==
    ASSUME ContainersInv, NEW c \in Creates,
           \/ cont[c].create \in {"root", "data", "redis", "corex", "run"}
           \/ cont[c].job \notin {"none", "over"} \/ cont[c].proc = "alive" \/ cont[c].hook \notin {"none", "over"}
           \/ cont[c].clean \notin {"no", "over"}
           \/ \E x \in Sides : cont[c].side[x] \in {"running", "ending"}
    PROVE  Present(c)
<1>1. Numbered(c)
  <2>1. CASE cont[c].create \in {"root", "data", "redis", "corex", "run"} BY <2>1 DEF Numbered
  <2>2. CASE cont[c].create \notin {"root", "data", "redis", "corex", "run"} BY <2>2 DEF ContainersInv, Untouched
  <2> QED BY <2>1, <2>2
<1>2. OrderInv(cont[c]) /\ cont[c] \in Container BY <1>1 DEF ContainersInv, TypeOK
<1>3. ASSUME Settled(c) PROVE FALSE
  <2>1. Left(c, cont[c], mounts[cont[c].id]) BY <1>3 DEF Settled, Left, Gone, Running, Ending
  <2>2. CASE cont[c].job = "over"
    <3>1. cont[c].create = "created" /\ cont[c].clean = "over" /\ cont[c].proc # "alive" BY <1>2, <2>2 DEF OrderInv
    <3> QED BY <2>1, <2>2, <3>1 DEF Left
  <2>3. CASE cont[c].create = "failed" /\ cont[c].clean = "over"
    <3>1. cont[c].job = "none" /\ cont[c].proc # "alive" BY <1>2, <2>3 DEF OrderInv, Container
    <3> QED BY <2>1, <2>3, <3>1 DEF Left
  <2> QED BY <2>1, <2>2, <2>3 DEF Left
<1> QED BY <1>1, <1>3 DEF Present

\* What is known of one that is present.
LEMMA HasNumber ==
    ASSUME ContainersInv, NEW c \in Creates, Present(c)
    PROVE  /\ Local(c, cont[c], mounts[cont[c].id], args[c])
           /\ cont[c] \in Container /\ cont[c].id \in Ids /\ mounts[cont[c].id] \in [Mounts -> Seq(Creates)]
           /\ args[c] \in Args
           /\ cont[c].create \notin {"idle", "refused"}
           /\ \A e \in Creates : Present(e) /\ cont[e].id = cont[c].id => e = c
<1>1. cont[c] \in Container /\ cont[c].id \in Ids BY DEF ContainersInv, TypeOK, Container
<1>2. args[c] \in Args BY ContainersAssumption DEF ContainersInv, TypeOK
<1>3. cont[c].create \notin {"idle", "refused"} BY DEF Present, Numbered
<1> QED BY <1>1, <1>2, <1>3 DEF ContainersInv, TypeOK, NumbersInv

\* The mounts are made one after the other, each while create is at it.
LEMMA PendingIs ==
    /\ Pending("root") = {"root"} /\ Pending("data") = {"root", "data"}
    /\ Pending("redis") = {"root", "data", "redis"} /\ Pending("corex") = {"root", "data", "redis", "corex"}
    /\ \A w \in Paths : /\ w \in {"root", "data", "redis", "corex"} /\ w \in Mounts
                        /\ Pending(w) \subseteq {"root", "data", "redis", "corex"}
<1>1. /\ Pending("root") = {"root"} /\ Pending("data") = {"root", "data"}
      /\ Pending("redis") = {"root", "data", "redis"} /\ Pending("corex") = {"root", "data", "redis", "corex"}
  BY DEF Pending
<1>2. \A w \in Paths : w \in {"root", "data", "redis", "corex"} /\ w \in Mounts BY DEF Paths, Mounts
<1> QED BY <1>1, <1>2

\* A path has nothing mounted, or one thing.
LEMMA OneMounted ==
    ASSUME NEW c \in Creates
    PROVE  Append(<< >>, c) = <<c>> /\ <<c>> \in Seq(Creates) /\ << >> \in Seq(Creates) /\ Front(<<c>>) = << >>
<1>1. Front(<<c>>) = SubSeq(<<c>>, 1, 0) BY DEF Front
<1> QED BY <1>1

\* Unmounting one leaves nothing there.
LEMMA OnePopped ==
    ASSUME NEW c \in Creates, NEW q \in {<< >>, <<c>>}
    PROVE  Popped(q) = << >>
  BY OneMounted DEF Popped

\* What cleanup unmounts.
LEMMA AllUnmounted ==
    ASSUME NEW c \in Creates, NEW m \in [Mounts -> Seq(Creates)], \A w \in Mounts : m[w] \in {<< >>, <<c>>},
           NEW refused
    PROVE  /\ UnmountAll(m, refused) \in [Mounts -> Seq(Creates)]
           /\ \A v \in Mounts : UnmountAll(m, refused)[v] = IF v \in Paths \ refused THEN << >> ELSE m[v]
<1>1. \A v \in Mounts : UnmountAll(m, refused)[v] = IF v \in Paths \ refused THEN << >> ELSE m[v]
  BY OnePopped DEF UnmountAll
<1>2. \A v \in Mounts : UnmountAll(m, refused)[v] \in Seq(Creates) BY <1>1, OneMounted
<1> QED BY <1>1, <1>2 DEF UnmountAll

\* Create fails at a mount.
LEMMA CreateFailsStep ==
    ASSUME ContainersInv, NEW c \in Creates, CreateFails(c)
    PROVE  ContainersInv'
<1>g. cont[c].create \in {"root", "data", "redis", "corex"} /\ UNCHANGED <<sequence, mounts, otherVars>> BY DEF CreateFails
<1>n. Present(c) BY <1>g, AtWork
<1>h. /\ Local(c, cont[c], mounts[cont[c].id], args[c]) /\ cont[c] \in Container
      /\ args[c] \in Args /\ mounts[cont[c].id] \in [Mounts -> Seq(Creates)]
      /\ cont[c].create \notin {"idle", "refused"}
  BY <1>n, HasNumber
<1>t. cont \in [Creates -> Container] BY DEF ContainersInv, TypeOK
<1>k. PICK k : k = [[cont[c] EXCEPT !.create = "failed"] EXCEPT !.clean = "fwd"] OBVIOUS
<1>e. cont' = [cont EXCEPT ![c] = k] BY <1>t, <1>k DEF CreateFails
<1>f. /\ k \in Container /\ k.create = "failed" /\ k.clean = "fwd" /\ k.id = cont[c].id
      /\ k.job = cont[c].job /\ k.proc = cont[c].proc /\ k.pid = cont[c].pid
      /\ k.hook = cont[c].hook /\ k.late = cont[c].late /\ k.kept = cont[c].kept /\ k.links = cont[c].links
      /\ k.side = cont[c].side
  <2>1. k \in Container BY <1>h, <1>k DEF Container
  <2> QED BY <1>h, <1>k, <2>1 DEF Container
<1>1. OrderInv(k) BY <1>h, <1>g, <1>f DEF Local, OrderInv
<1>2. HookInv(k, mounts[cont[c].id], args[c]) BY <1>h, <1>g, <1>f DEF Local, HookInv
<1>3. PathsInv(c, k, mounts[cont[c].id]) BY <1>h, <1>g, <1>f, PendingIs DEF Local, PathsInv, Paths, Mounts
<1>4. SweptInv(k, mounts[cont[c].id]) BY <1>h, <1>g, <1>f DEF Local, SweptInv, OrderInv
<1>5. cont' \in [Creates -> Container] /\ cont'[c] = k /\ \A e \in Creates \ {c} : cont'[e] = cont[e]
  BY <1>t, <1>e, <1>f
<1>6. Local(c, cont'[c], mounts[cont[c].id], args[c]) BY <1>1, <1>2, <1>3, <1>4, <1>5 DEF Local
<1>7. cont'[c].id = cont[c].id /\ cont'[c].create \notin {"idle", "refused"} BY <1>h, <1>f, <1>5
<1> QED BY <1>n, <1>g, <1>5, <1>6, <1>7, OneStays

\* The runner takes the kill.
LEMMA TerminateStep ==
    ASSUME ContainersInv, NEW c \in Creates, Terminate(c)
    PROVE  ContainersInv'
<1>g. cont[c].job = "select" /\ UNCHANGED <<sequence, mounts, otherVars>> BY DEF Terminate
<1>n. Present(c) BY <1>g, AtWork
<1>h. /\ Local(c, cont[c], mounts[cont[c].id], args[c]) /\ cont[c] \in Container
      /\ args[c] \in Args /\ mounts[cont[c].id] \in [Mounts -> Seq(Creates)]
      /\ cont[c].create \notin {"idle", "refused"}
  BY <1>n, HasNumber
<1>t. cont \in [Creates -> Container] BY DEF ContainersInv, TypeOK
<1>k. PICK k : k = [cont[c] EXCEPT !.job = "drain"] OBVIOUS
<1>e. cont' = [cont EXCEPT ![c] = k] BY <1>t, <1>k DEF Terminate
<1>f. /\ k \in Container /\ k.job = "drain" /\ k.id = cont[c].id /\ k.create = cont[c].create
      /\ k.proc = cont[c].proc /\ k.pid = cont[c].pid /\ k.hook = cont[c].hook
      /\ k.clean = cont[c].clean /\ k.late = cont[c].late /\ k.kept = cont[c].kept /\ k.links = cont[c].links
      /\ k.side = cont[c].side
  BY <1>h, <1>g, <1>k DEF Container
<1>1. OrderInv(k) BY <1>h, <1>g, <1>f DEF Local, OrderInv
<1>2. HookInv(k, mounts[cont[c].id], args[c]) BY <1>h, <1>g, <1>f DEF Local, HookInv
<1>3. PathsInv(c, k, mounts[cont[c].id]) BY <1>h, <1>g, <1>f DEF Local, PathsInv
<1>4. SweptInv(k, mounts[cont[c].id]) BY <1>h, <1>g, <1>f DEF Local, SweptInv, OrderInv
<1>5. cont' \in [Creates -> Container] /\ cont'[c] = k /\ \A e \in Creates \ {c} : cont'[e] = cont[e]
  BY <1>t, <1>e, <1>f
<1>6. Local(c, cont'[c], mounts[cont[c].id], args[c]) BY <1>1, <1>2, <1>3, <1>4, <1>5 DEF Local
<1>7. cont'[c].id = cont[c].id /\ cont'[c].create \notin {"idle", "refused"} BY <1>h, <1>f, <1>5
<1> QED BY <1>n, <1>g, <1>5, <1>6, <1>7, OneStays

\* The runner sees the exit of coreX.
LEMMA ExitSeenStep ==
    ASSUME ContainersInv, NEW c \in Creates, ExitSeen(c)
    PROVE  ContainersInv'
<1>g. cont[c].job \in {"select", "drain"} /\ cont[c].proc = "dead" /\ UNCHANGED <<sequence, mounts, otherVars>> BY DEF ExitSeen
<1>n. Present(c) BY <1>g, AtWork
<1>h. /\ Local(c, cont[c], mounts[cont[c].id], args[c]) /\ cont[c] \in Container
      /\ args[c] \in Args /\ mounts[cont[c].id] \in [Mounts -> Seq(Creates)]
      /\ cont[c].create \notin {"idle", "refused"}
  BY <1>n, HasNumber
<1>t. cont \in [Creates -> Container] BY DEF ContainersInv, TypeOK
<1>k. PICK k : k = [cont[c] EXCEPT !.job = "exit"] OBVIOUS
<1>e. cont' = [cont EXCEPT ![c] = k] BY <1>t, <1>k DEF ExitSeen
<1>f. /\ k \in Container /\ k.job = "exit" /\ k.id = cont[c].id /\ k.create = cont[c].create
      /\ k.proc = cont[c].proc /\ k.pid = cont[c].pid /\ k.hook = cont[c].hook
      /\ k.clean = cont[c].clean /\ k.late = cont[c].late /\ k.kept = cont[c].kept /\ k.links = cont[c].links
      /\ k.side = cont[c].side
  BY <1>h, <1>g, <1>k DEF Container
<1>1. OrderInv(k) BY <1>h, <1>g, <1>f DEF Local, OrderInv
<1>2. HookInv(k, mounts[cont[c].id], args[c]) BY <1>h, <1>g, <1>f DEF Local, HookInv
<1>3. PathsInv(c, k, mounts[cont[c].id]) BY <1>h, <1>g, <1>f DEF Local, PathsInv
<1>4. SweptInv(k, mounts[cont[c].id]) BY <1>h, <1>g, <1>f DEF Local, SweptInv, OrderInv
<1>5. cont' \in [Creates -> Container] /\ cont'[c] = k /\ \A e \in Creates \ {c} : cont'[e] = cont[e]
  BY <1>t, <1>e, <1>f
<1>6. Local(c, cont'[c], mounts[cont[c].id], args[c]) BY <1>1, <1>2, <1>3, <1>4, <1>5 DEF Local
<1>7. cont'[c].id = cont[c].id /\ cont'[c].create \notin {"idle", "refused"} BY <1>h, <1>f, <1>5
<1> QED BY <1>n, <1>g, <1>5, <1>6, <1>7, OneStays

\* The clean-up starts.
LEMMA OnExitStep ==
    ASSUME ContainersInv, NEW c \in Creates, OnExit(c)
    PROVE  ContainersInv'
<1>g. cont[c].job = "exit" /\ cont[c].clean = "no" /\ UNCHANGED <<sequence, mounts, otherVars>> BY DEF OnExit
<1>n. Present(c) BY <1>g, AtWork
<1>h. /\ Local(c, cont[c], mounts[cont[c].id], args[c]) /\ cont[c] \in Container
      /\ args[c] \in Args /\ mounts[cont[c].id] \in [Mounts -> Seq(Creates)]
      /\ cont[c].create \notin {"idle", "refused"}
  BY <1>n, HasNumber
<1>t. cont \in [Creates -> Container] BY DEF ContainersInv, TypeOK
<1>k. PICK k : k = [[cont[c] EXCEPT !.clean = "fwd"] EXCEPT !.late = (cont[c].hook \notin {"none", "over"})] OBVIOUS
<1>e. cont' = [cont EXCEPT ![c] = k] BY <1>t, <1>k DEF OnExit
<1>f. /\ k \in Container /\ k.clean = "fwd" /\ k.late = (cont[c].hook \notin {"none", "over"})
      /\ k.id = cont[c].id /\ k.create = cont[c].create /\ k.job = cont[c].job
      /\ k.proc = cont[c].proc /\ k.pid = cont[c].pid /\ k.hook = cont[c].hook
      /\ k.links = cont[c].links /\ k.side = cont[c].side /\ k.kept = cont[c].kept
  BY <1>h, <1>g, <1>k DEF Container
<1>1. OrderInv(k) BY <1>h, <1>g, <1>f DEF Local, OrderInv
<1>2. HookInv(k, mounts[cont[c].id], args[c]) BY <1>h, <1>g, <1>f DEF Local, HookInv
<1>3. PathsInv(c, k, mounts[cont[c].id]) BY <1>h, <1>g, <1>f DEF Local, PathsInv
<1>4. SweptInv(k, mounts[cont[c].id]) BY <1>h, <1>g, <1>f DEF Local, SweptInv, OrderInv
<1>5. cont' \in [Creates -> Container] /\ cont'[c] = k /\ \A e \in Creates \ {c} : cont'[e] = cont[e]
  BY <1>t, <1>e, <1>f
<1>6. Local(c, cont'[c], mounts[cont[c].id], args[c]) BY <1>1, <1>2, <1>3, <1>4, <1>5 DEF Local
<1>7. cont'[c].id = cont[c].id /\ cont'[c].create \notin {"idle", "refused"} BY <1>h, <1>f, <1>5
<1> QED BY <1>n, <1>g, <1>5, <1>6, <1>7, OneStays

\* The runner leaves the table.
LEMMA CleanUpStep ==
    ASSUME ContainersInv, NEW c \in Creates, CleanUp(c)
    PROVE  ContainersInv'
<1>g. cont[c].job = "exit" /\ cont[c].clean = "over" /\ UNCHANGED <<sequence, mounts, otherVars>> BY DEF CleanUp
<1>n. Present(c) BY <1>g, AtWork
<1>h. /\ Local(c, cont[c], mounts[cont[c].id], args[c]) /\ cont[c] \in Container
      /\ args[c] \in Args /\ mounts[cont[c].id] \in [Mounts -> Seq(Creates)]
      /\ cont[c].create \notin {"idle", "refused"}
  BY <1>n, HasNumber
<1>t. cont \in [Creates -> Container] BY DEF ContainersInv, TypeOK
<1>k. PICK k : k = [cont[c] EXCEPT !.job = "over"] OBVIOUS
<1>e. cont' = [cont EXCEPT ![c] = k] BY <1>t, <1>k DEF CleanUp
<1>f. /\ k \in Container /\ k.job = "over" /\ k.id = cont[c].id /\ k.create = cont[c].create
      /\ k.proc = cont[c].proc /\ k.pid = cont[c].pid /\ k.hook = cont[c].hook
      /\ k.clean = cont[c].clean /\ k.late = cont[c].late /\ k.kept = cont[c].kept /\ k.links = cont[c].links
      /\ k.side = cont[c].side
  BY <1>h, <1>g, <1>k DEF Container
<1>1. OrderInv(k) BY <1>h, <1>g, <1>f DEF Local, OrderInv
<1>2. HookInv(k, mounts[cont[c].id], args[c]) BY <1>h, <1>g, <1>f DEF Local, HookInv
<1>3. PathsInv(c, k, mounts[cont[c].id]) BY <1>h, <1>g, <1>f DEF Local, PathsInv
<1>4. SweptInv(k, mounts[cont[c].id]) BY <1>h, <1>g, <1>f DEF Local, SweptInv, OrderInv
<1>5. cont' \in [Creates -> Container] /\ cont'[c] = k /\ \A e \in Creates \ {c} : cont'[e] = cont[e]
  BY <1>t, <1>e, <1>f
<1>6. Local(c, cont'[c], mounts[cont[c].id], args[c]) BY <1>1, <1>2, <1>3, <1>4, <1>5 DEF Local
<1>7. cont'[c].id = cont[c].id /\ cont'[c].create \notin {"idle", "refused"} BY <1>h, <1>f, <1>5
<1> QED BY <1>n, <1>g, <1>5, <1>6, <1>7, OneStays

\* The hook learns the pid.
LEMMA OnPidStep ==
    ASSUME ContainersInv, NEW c \in Creates, OnPid(c)
    PROVE  ContainersInv'
<1>g. cont[c].hook = "begin" /\ UNCHANGED <<sequence, mounts, otherVars>> BY DEF OnPid
<1>n. Present(c) BY <1>g, AtWork
<1>h. /\ Local(c, cont[c], mounts[cont[c].id], args[c]) /\ cont[c] \in Container
      /\ args[c] \in Args /\ mounts[cont[c].id] \in [Mounts -> Seq(Creates)]
      /\ cont[c].create \notin {"idle", "refused"}
  BY <1>n, HasNumber
<1>t. cont \in [Creates -> Container] BY DEF ContainersInv, TypeOK
<1>k. PICK k : k = [[cont[c] EXCEPT !.pid = "set"] EXCEPT !.hook = "ns"] OBVIOUS
<1>e. cont' = [cont EXCEPT ![c] = k] BY <1>t, <1>k DEF OnPid
<1>f. /\ k \in Container /\ k.pid = "set" /\ k.hook = "ns" /\ k.id = cont[c].id
      /\ k.create = cont[c].create /\ k.job = cont[c].job /\ k.proc = cont[c].proc
      /\ k.clean = cont[c].clean /\ k.late = cont[c].late /\ k.kept = cont[c].kept /\ k.links = cont[c].links
      /\ k.side = cont[c].side
  BY <1>h, <1>g, <1>k DEF Container
<1>1. OrderInv(k) BY <1>h, <1>g, <1>f DEF Local, OrderInv
<1>2. HookInv(k, mounts[cont[c].id], args[c]) BY <1>h, <1>g, <1>f DEF Local, HookInv
<1>3. PathsInv(c, k, mounts[cont[c].id]) BY <1>h, <1>g, <1>f DEF Local, PathsInv
<1>4. SweptInv(k, mounts[cont[c].id]) BY <1>h, <1>g, <1>f DEF Local, SweptInv, OrderInv
<1>5. cont' \in [Creates -> Container] /\ cont'[c] = k /\ \A e \in Creates \ {c} : cont'[e] = cont[e]
  BY <1>t, <1>e, <1>f
<1>6. Local(c, cont'[c], mounts[cont[c].id], args[c]) BY <1>1, <1>2, <1>3, <1>4, <1>5 DEF Local
<1>7. cont'[c].id = cont[c].id /\ cont'[c].create \notin {"idle", "refused"} BY <1>h, <1>f, <1>5
<1> QED BY <1>n, <1>g, <1>5, <1>6, <1>7, OneStays

\* A container without a bridge of its own.
LEMMA SkipBridgeStep ==
    ASSUME ContainersInv, NEW c \in Creates, SkipBridge(c)
    PROVE  ContainersInv'
<1>g. cont[c].hook = "bridge" /\ UNCHANGED <<sequence, mounts, otherVars>> BY DEF SkipBridge
<1>n. Present(c) BY <1>g, AtWork
<1>h. /\ Local(c, cont[c], mounts[cont[c].id], args[c]) /\ cont[c] \in Container
      /\ args[c] \in Args /\ mounts[cont[c].id] \in [Mounts -> Seq(Creates)]
      /\ cont[c].create \notin {"idle", "refused"}
  BY <1>n, HasNumber
<1>t. cont \in [Creates -> Container] BY DEF ContainersInv, TypeOK
<1>k. PICK k : k = [cont[c] EXCEPT !.hook = "default"] OBVIOUS
<1>e. cont' = [cont EXCEPT ![c] = k] BY <1>t, <1>k DEF SkipBridge
<1>f. /\ k \in Container /\ k.hook = "default" /\ k.id = cont[c].id /\ k.create = cont[c].create
      /\ k.job = cont[c].job /\ k.proc = cont[c].proc /\ k.pid = cont[c].pid
      /\ k.clean = cont[c].clean /\ k.late = cont[c].late /\ k.kept = cont[c].kept /\ k.links = cont[c].links
      /\ k.side = cont[c].side
  BY <1>h, <1>g, <1>k DEF Container
<1>1. OrderInv(k) BY <1>h, <1>g, <1>f DEF Local, OrderInv
<1>2. HookInv(k, mounts[cont[c].id], args[c]) BY <1>h, <1>g, <1>f DEF Local, HookInv
<1>3. PathsInv(c, k, mounts[cont[c].id]) BY <1>h, <1>g, <1>f DEF Local, PathsInv
<1>4. SweptInv(k, mounts[cont[c].id]) BY <1>h, <1>g, <1>f DEF Local, SweptInv, OrderInv
<1>5. cont' \in [Creates -> Container] /\ cont'[c] = k /\ \A e \in Creates \ {c} : cont'[e] = cont[e]
  BY <1>t, <1>e, <1>f
<1>6. Local(c, cont'[c], mounts[cont[c].id], args[c]) BY <1>1, <1>2, <1>3, <1>4, <1>5 DEF Local
<1>7. cont'[c].id = cont[c].id /\ cont'[c].create \notin {"idle", "refused"} BY <1>h, <1>f, <1>5
<1> QED BY <1>n, <1>g, <1>5, <1>6, <1>7, OneStays

\* The runner core-N is made, or refused.
LEMMA NewRunnerStep ==
    ASSUME ContainersInv, NEW c \in Creates, NewRunner(c)
    PROVE  ContainersInv'
<1>g. cont[c].create = "run" /\ UNCHANGED <<sequence, mounts, otherVars>> BY DEF NewRunner
<1>n. Present(c) BY <1>g, AtWork
<1>h. /\ Local(c, cont[c], mounts[cont[c].id], args[c]) /\ cont[c] \in Container
      /\ args[c] \in Args /\ mounts[cont[c].id] \in [Mounts -> Seq(Creates)]
      /\ cont[c].create \notin {"idle", "refused"}
  BY <1>n, HasNumber
<1>t. cont \in [Creates -> Container] BY DEF ContainersInv, TypeOK
<1>1. CASE cont' = [cont EXCEPT ![c].create = "failed"]
  <2>k. PICK k : k = [cont[c] EXCEPT !.create = "failed"] OBVIOUS
  <2>e. cont' = [cont EXCEPT ![c] = k] BY <1>t, <2>k, <1>1
  <2>f. /\ k \in Container /\ k.create = "failed" /\ k.id = cont[c].id /\ k.job = cont[c].job
        /\ k.proc = cont[c].proc /\ k.pid = cont[c].pid /\ k.hook = cont[c].hook
        /\ k.clean = cont[c].clean /\ k.late = cont[c].late /\ k.kept = cont[c].kept /\ k.links = cont[c].links
        /\ k.side = cont[c].side
    BY <1>h, <1>g, <2>k DEF Container
  <2>1. OrderInv(k) BY <1>h, <1>g, <2>f DEF Local, OrderInv
  <2>2. HookInv(k, mounts[cont[c].id], args[c]) BY <1>h, <1>g, <2>f DEF Local, HookInv
  <2>3. PathsInv(c, k, mounts[cont[c].id]) BY <1>h, <1>g, <2>f, PendingIs DEF Local, PathsInv, Paths, Mounts
  <2>4. SweptInv(k, mounts[cont[c].id]) BY <1>h, <1>g, <2>f DEF Local, SweptInv, OrderInv
  <2>5. cont' \in [Creates -> Container] /\ cont'[c] = k /\ \A e \in Creates \ {c} : cont'[e] = cont[e]
    BY <1>t, <2>e, <2>f
  <2>6. Local(c, cont'[c], mounts[cont[c].id], args[c]) BY <2>1, <2>2, <2>3, <2>4, <2>5 DEF Local
  <2>7. cont'[c].id = cont[c].id /\ cont'[c].create \notin {"idle", "refused"} BY <1>h, <2>f, <2>5
  <2> QED BY <1>n, <1>g, <2>5, <2>6, <2>7, OneStays
<1>2. CASE cont' = [cont EXCEPT ![c].create = "created", ![c].job = "filed"]
  <2>k. PICK k : k = [[cont[c] EXCEPT !.create = "created"] EXCEPT !.job = "filed"] OBVIOUS
  <2>e. cont' = [cont EXCEPT ![c] = k] BY <1>t, <2>k, <1>2
  <2>f. /\ k \in Container /\ k.create = "created" /\ k.job = "filed" /\ k.id = cont[c].id
        /\ k.proc = cont[c].proc /\ k.pid = cont[c].pid /\ k.hook = cont[c].hook
        /\ k.clean = cont[c].clean /\ k.late = cont[c].late /\ k.kept = cont[c].kept /\ k.links = cont[c].links
        /\ k.side = cont[c].side
    BY <1>h, <1>g, <2>k DEF Container
  <2>1. OrderInv(k) BY <1>h, <1>g, <2>f DEF Local, OrderInv
  <2>2. HookInv(k, mounts[cont[c].id], args[c]) BY <1>h, <1>g, <2>f DEF Local, HookInv
  <2>3. PathsInv(c, k, mounts[cont[c].id]) BY <1>h, <1>g, <2>f, PendingIs DEF Local, PathsInv, Paths, Mounts
  <2>4. SweptInv(k, mounts[cont[c].id]) BY <1>h, <1>g, <2>f DEF Local, SweptInv, OrderInv
  <2>5. cont' \in [Creates -> Container] /\ cont'[c] = k /\ \A e \in Creates \ {c} : cont'[e] = cont[e]
    BY <1>t, <2>e, <2>f
  <2>6. Local(c, cont'[c], mounts[cont[c].id], args[c]) BY <2>1, <2>2, <2>3, <2>4, <2>5 DEF Local
  <2>7. cont'[c].id = cont[c].id /\ cont'[c].create \notin {"idle", "refused"} BY <1>h, <2>f, <2>5
  <2> QED BY <1>n, <1>g, <2>5, <2>6, <2>7, OneStays
<1> QED BY <1>1, <1>2 DEF NewRunner

\* Register starts coreX, or cannot.
LEMMA SpawnStep ==
    ASSUME ContainersInv, NEW c \in Creates, Spawn(c)
    PROVE  ContainersInv'
<1>g. cont[c].job = "filed" /\ UNCHANGED <<sequence, mounts, otherVars>> BY DEF Spawn
<1>n. Present(c) BY <1>g, AtWork
<1>h. /\ Local(c, cont[c], mounts[cont[c].id], args[c]) /\ cont[c] \in Container
      /\ args[c] \in Args /\ mounts[cont[c].id] \in [Mounts -> Seq(Creates)]
      /\ cont[c].create \notin {"idle", "refused"}
  BY <1>n, HasNumber
<1>t. cont \in [Creates -> Container] BY DEF ContainersInv, TypeOK
<1>1. CASE cont' = [cont EXCEPT ![c].job = "select", ![c].proc = "alive", ![c].hook = "begin"]
  <2>k. PICK k : k = [[[cont[c] EXCEPT !.job = "select"] EXCEPT !.proc = "alive"] EXCEPT !.hook = "begin"] OBVIOUS
  <2>e. cont' = [cont EXCEPT ![c] = k] BY <1>t, <2>k, <1>1
  <2>f. /\ k \in Container /\ k.job = "select" /\ k.proc = "alive" /\ k.hook = "begin"
        /\ k.id = cont[c].id /\ k.create = cont[c].create /\ k.pid = cont[c].pid
        /\ k.clean = cont[c].clean /\ k.late = cont[c].late /\ k.kept = cont[c].kept /\ k.links = cont[c].links
        /\ k.side = cont[c].side
    BY <1>h, <1>g, <2>k DEF Container
  <2>1. OrderInv(k) BY <1>h, <1>g, <2>f DEF Local, OrderInv
  <2>2. HookInv(k, mounts[cont[c].id], args[c]) BY <1>h, <1>g, <2>f DEF Local, HookInv, OrderInv
  <2>3. PathsInv(c, k, mounts[cont[c].id]) BY <1>h, <1>g, <2>f DEF Local, PathsInv
  <2>4. SweptInv(k, mounts[cont[c].id]) BY <1>h, <1>g, <2>f DEF Local, SweptInv, OrderInv
  <2>5. cont' \in [Creates -> Container] /\ cont'[c] = k /\ \A e \in Creates \ {c} : cont'[e] = cont[e]
    BY <1>t, <2>e, <2>f
  <2>6. Local(c, cont'[c], mounts[cont[c].id], args[c]) BY <2>1, <2>2, <2>3, <2>4, <2>5 DEF Local
  <2>7. cont'[c].id = cont[c].id /\ cont'[c].create \notin {"idle", "refused"} BY <1>h, <2>f, <2>5
  <2> QED BY <1>n, <1>g, <2>5, <2>6, <2>7, OneStays
<1>2. CASE cont' = [cont EXCEPT ![c].job = "exit"]
  <2>k. PICK k : k = [cont[c] EXCEPT !.job = "exit"] OBVIOUS
  <2>e. cont' = [cont EXCEPT ![c] = k] BY <1>t, <2>k, <1>2
  <2>f. /\ k \in Container /\ k.job = "exit" /\ k.id = cont[c].id /\ k.create = cont[c].create
        /\ k.proc = cont[c].proc /\ k.pid = cont[c].pid /\ k.hook = cont[c].hook
        /\ k.clean = cont[c].clean /\ k.late = cont[c].late /\ k.kept = cont[c].kept /\ k.links = cont[c].links
        /\ k.side = cont[c].side
    BY <1>h, <1>g, <2>k DEF Container
  <2>1. OrderInv(k) BY <1>h, <1>g, <2>f DEF Local, OrderInv
  <2>2. HookInv(k, mounts[cont[c].id], args[c]) BY <1>h, <1>g, <2>f DEF Local, HookInv, OrderInv
  <2>3. PathsInv(c, k, mounts[cont[c].id]) BY <1>h, <1>g, <2>f DEF Local, PathsInv
  <2>4. SweptInv(k, mounts[cont[c].id]) BY <1>h, <1>g, <2>f DEF Local, SweptInv, OrderInv
  <2>5. cont' \in [Creates -> Container] /\ cont'[c] = k /\ \A e \in Creates \ {c} : cont'[e] = cont[e]
    BY <1>t, <2>e, <2>f
  <2>6. Local(c, cont'[c], mounts[cont[c].id], args[c]) BY <2>1, <2>2, <2>3, <2>4, <2>5 DEF Local
  <2>7. cont'[c].id = cont[c].id /\ cont'[c].create \notin {"idle", "refused"} BY <1>h, <2>f, <2>5
  <2> QED BY <1>n, <1>g, <2>5, <2>6, <2>7, OneStays
<1> QED BY <1>1, <1>2 DEF Spawn

\* The helper net-N is started.
LEMMA ZeroTierStepKeeps ==
    ASSUME ContainersInv, NEW c \in Creates, ZeroTierStep(c)
    PROVE  ContainersInv'
<1>g. cont[c].hook = "net" /\ UNCHANGED <<sequence, mounts, otherVars>> BY DEF ZeroTierStep
<1>n. Present(c) BY <1>g, AtWork
<1>h. /\ Local(c, cont[c], mounts[cont[c].id], args[c]) /\ cont[c] \in Container
      /\ args[c] \in Args /\ mounts[cont[c].id] \in [Mounts -> Seq(Creates)]
      /\ cont[c].create \notin {"idle", "refused"}
  BY <1>n, HasNumber
<1>t. cont \in [Creates -> Container] BY DEF ContainersInv, TypeOK
<1>1. CASE cont' = [cont EXCEPT ![c].hook = "bridge"]
  <2>k. PICK k : k = [cont[c] EXCEPT !.hook = "bridge"] OBVIOUS
  <2>e. cont' = [cont EXCEPT ![c] = k] BY <1>t, <2>k, <1>1
  <2>f. /\ k \in Container /\ k.hook = "bridge" /\ k.id = cont[c].id /\ k.create = cont[c].create
        /\ k.job = cont[c].job /\ k.proc = cont[c].proc /\ k.pid = cont[c].pid
        /\ k.clean = cont[c].clean /\ k.late = cont[c].late /\ k.kept = cont[c].kept /\ k.links = cont[c].links
        /\ k.side = cont[c].side
    BY <1>h, <1>g, <2>k DEF Container, Sides
  <2>1. OrderInv(k) BY <1>h, <1>g, <2>f DEF Local, OrderInv
  <2>2. HookInv(k, mounts[cont[c].id], args[c]) BY <1>h, <1>g, <2>f DEF Local, HookInv
  <2>3. PathsInv(c, k, mounts[cont[c].id]) BY <1>h, <1>g, <2>f DEF Local, PathsInv
  <2>4. SweptInv(k, mounts[cont[c].id]) BY <1>h, <1>g, <2>f DEF Local, SweptInv, OrderInv
  <2>5. cont' \in [Creates -> Container] /\ cont'[c] = k /\ \A e \in Creates \ {c} : cont'[e] = cont[e]
    BY <1>t, <2>e, <2>f
  <2>6. Local(c, cont'[c], mounts[cont[c].id], args[c]) BY <2>1, <2>2, <2>3, <2>4, <2>5 DEF Local
  <2>7. cont'[c].id = cont[c].id /\ cont'[c].create \notin {"idle", "refused"} BY <1>h, <2>f, <2>5
  <2> QED BY <1>n, <1>g, <2>5, <2>6, <2>7, OneStays
<1>2. CASE cont' = [cont EXCEPT ![c].hook = "over"]
  <2>k. PICK k : k = [cont[c] EXCEPT !.hook = "over"] OBVIOUS
  <2>e. cont' = [cont EXCEPT ![c] = k] BY <1>t, <2>k, <1>2
  <2>f. /\ k \in Container /\ k.hook = "over" /\ k.id = cont[c].id /\ k.create = cont[c].create
        /\ k.job = cont[c].job /\ k.proc = cont[c].proc /\ k.pid = cont[c].pid
        /\ k.clean = cont[c].clean /\ k.late = cont[c].late /\ k.kept = cont[c].kept /\ k.links = cont[c].links
        /\ k.side = cont[c].side
    BY <1>h, <1>g, <2>k DEF Container, Sides
  <2>1. OrderInv(k) BY <1>h, <1>g, <2>f DEF Local, OrderInv
  <2>2. HookInv(k, mounts[cont[c].id], args[c]) BY <1>h, <1>g, <2>f DEF Local, HookInv
  <2>3. PathsInv(c, k, mounts[cont[c].id]) BY <1>h, <1>g, <2>f DEF Local, PathsInv
  <2>4. SweptInv(k, mounts[cont[c].id]) BY <1>h, <1>g, <2>f DEF Local, SweptInv, OrderInv
  <2>5. cont' \in [Creates -> Container] /\ cont'[c] = k /\ \A e \in Creates \ {c} : cont'[e] = cont[e]
    BY <1>t, <2>e, <2>f
  <2>6. Local(c, cont'[c], mounts[cont[c].id], args[c]) BY <2>1, <2>2, <2>3, <2>4, <2>5 DEF Local
  <2>7. cont'[c].id = cont[c].id /\ cont'[c].create \notin {"idle", "refused"} BY <1>h, <2>f, <2>5
  <2> QED BY <1>n, <1>g, <2>5, <2>6, <2>7, OneStays
<1>3. CASE cont' = [cont EXCEPT ![c].hook = "bridge", ![c].side["net"] = "running"]
  <2>k. PICK k : k = [[cont[c] EXCEPT !.hook = "bridge"] EXCEPT !.side = [cont[c].side EXCEPT !["net"] = "running"]] OBVIOUS
  <2>e. cont' = [cont EXCEPT ![c] = k] BY <1>t, <2>k, <1>3
  <2>f. /\ k \in Container /\ k.hook = "bridge"
        /\ k.side = [cont[c].side EXCEPT !["net"] = "running"] /\ k.id = cont[c].id
        /\ k.create = cont[c].create /\ k.job = cont[c].job /\ k.proc = cont[c].proc
        /\ k.pid = cont[c].pid /\ k.clean = cont[c].clean /\ k.late = cont[c].late /\ k.kept = cont[c].kept
        /\ k.links = cont[c].links
    BY <1>h, <1>g, <2>k DEF Container, Sides
  <2>1. OrderInv(k) BY <1>h, <1>g, <2>f DEF Local, OrderInv
  <2>2. HookInv(k, mounts[cont[c].id], args[c]) BY <1>h, <1>g, <2>f DEF Local, HookInv
  <2>3. PathsInv(c, k, mounts[cont[c].id]) BY <1>h, <1>g, <2>f DEF Local, PathsInv
  <2>4. SweptInv(k, mounts[cont[c].id]) BY <1>h, <1>g, <2>f DEF Local, SweptInv, OrderInv
  <2>5. cont' \in [Creates -> Container] /\ cont'[c] = k /\ \A e \in Creates \ {c} : cont'[e] = cont[e]
    BY <1>t, <2>e, <2>f
  <2>6. Local(c, cont'[c], mounts[cont[c].id], args[c]) BY <2>1, <2>2, <2>3, <2>4, <2>5 DEF Local
  <2>7. cont'[c].id = cont[c].id /\ cont'[c].create \notin {"idle", "refused"} BY <1>h, <2>f, <2>5
  <2> QED BY <1>n, <1>g, <2>5, <2>6, <2>7, OneStays
<1> QED BY <1>1, <1>2, <1>3 DEF ZeroTierStep

\* The helper socat-N is started.
LEMMA PortForwardsStep ==
    ASSUME ContainersInv, NEW c \in Creates, PortForwards(c)
    PROVE  ContainersInv'
<1>g. cont[c].hook = "fwd" /\ UNCHANGED <<sequence, mounts, otherVars>> BY DEF PortForwards
<1>n. Present(c) BY <1>g, AtWork
<1>h. /\ Local(c, cont[c], mounts[cont[c].id], args[c]) /\ cont[c] \in Container
      /\ args[c] \in Args /\ mounts[cont[c].id] \in [Mounts -> Seq(Creates)]
      /\ cont[c].create \notin {"idle", "refused"}
  BY <1>n, HasNumber
<1>t. cont \in [Creates -> Container] BY DEF ContainersInv, TypeOK
<1>1. CASE cont' = [cont EXCEPT ![c].hook = "over", ![c].side["fwd"] = "running"]
  <2>k. PICK k : k = [[cont[c] EXCEPT !.hook = "over"] EXCEPT !.side = [cont[c].side EXCEPT !["fwd"] = "running"]] OBVIOUS
  <2>e. cont' = [cont EXCEPT ![c] = k] BY <1>t, <2>k, <1>1
  <2>f. /\ k \in Container /\ k.hook = "over" /\ k.side = [cont[c].side EXCEPT !["fwd"] = "running"]
        /\ k.id = cont[c].id /\ k.create = cont[c].create /\ k.job = cont[c].job
        /\ k.proc = cont[c].proc /\ k.pid = cont[c].pid /\ k.clean = cont[c].clean
        /\ k.late = cont[c].late /\ k.kept = cont[c].kept /\ k.links = cont[c].links
    BY <1>h, <1>g, <2>k DEF Container, Sides
  <2>1. OrderInv(k) BY <1>h, <1>g, <2>f DEF Local, OrderInv
  <2>2. HookInv(k, mounts[cont[c].id], args[c]) BY <1>h, <1>g, <2>f DEF Local, HookInv
  <2>3. PathsInv(c, k, mounts[cont[c].id]) BY <1>h, <1>g, <2>f DEF Local, PathsInv
  <2>4. SweptInv(k, mounts[cont[c].id]) BY <1>h, <1>g, <2>f DEF Local, SweptInv, OrderInv
  <2>5. cont' \in [Creates -> Container] /\ cont'[c] = k /\ \A e \in Creates \ {c} : cont'[e] = cont[e]
    BY <1>t, <2>e, <2>f
  <2>6. Local(c, cont'[c], mounts[cont[c].id], args[c]) BY <2>1, <2>2, <2>3, <2>4, <2>5 DEF Local
  <2>7. cont'[c].id = cont[c].id /\ cont'[c].create \notin {"idle", "refused"} BY <1>h, <2>f, <2>5
  <2> QED BY <1>n, <1>g, <2>5, <2>6, <2>7, OneStays
<1>2. CASE cont' = [cont EXCEPT ![c].hook = "over"]
  <2>k. PICK k : k = [cont[c] EXCEPT !.hook = "over"] OBVIOUS
  <2>e. cont' = [cont EXCEPT ![c] = k] BY <1>t, <2>k, <1>2
  <2>f. /\ k \in Container /\ k.hook = "over" /\ k.id = cont[c].id /\ k.create = cont[c].create
        /\ k.job = cont[c].job /\ k.proc = cont[c].proc /\ k.pid = cont[c].pid
        /\ k.clean = cont[c].clean /\ k.late = cont[c].late /\ k.kept = cont[c].kept /\ k.links = cont[c].links
        /\ k.side = cont[c].side
    BY <1>h, <1>g, <2>k DEF Container, Sides
  <2>1. OrderInv(k) BY <1>h, <1>g, <2>f DEF Local, OrderInv
  <2>2. HookInv(k, mounts[cont[c].id], args[c]) BY <1>h, <1>g, <2>f DEF Local, HookInv
  <2>3. PathsInv(c, k, mounts[cont[c].id]) BY <1>h, <1>g, <2>f DEF Local, PathsInv
  <2>4. SweptInv(k, mounts[cont[c].id]) BY <1>h, <1>g, <2>f DEF Local, SweptInv, OrderInv
  <2>5. cont' \in [Creates -> Container] /\ cont'[c] = k /\ \A e \in Creates \ {c} : cont'[e] = cont[e]
    BY <1>t, <2>e, <2>f
  <2>6. Local(c, cont'[c], mounts[cont[c].id], args[c]) BY <2>1, <2>2, <2>3, <2>4, <2>5 DEF Local
  <2>7. cont'[c].id = cont[c].id /\ cont'[c].create \notin {"idle", "refused"} BY <1>h, <2>f, <2>5
  <2> QED BY <1>n, <1>g, <2>5, <2>6, <2>7, OneStays
<1> QED BY <1>1, <1>2 DEF PortForwards

\* A link and its peer are created, or not.
LEMMA LinkAddStep ==
    ASSUME ContainersInv, NEW c \in Creates, NEW l \in Links, NEW next \in {"bridging", "defaulting"}, LinkAdd(c, l, next)
    PROVE  ContainersInv'
<1>g. cont[c].hook = l /\ l \in {"bridge", "default"} /\ (l = "bridge" => args[c].bridge) /\ UNCHANGED <<sequence, mounts, otherVars>> BY DEF LinkAdd, Links
<1>n. Present(c) BY <1>g, AtWork
<1>h. /\ Local(c, cont[c], mounts[cont[c].id], args[c]) /\ cont[c] \in Container
      /\ args[c] \in Args /\ mounts[cont[c].id] \in [Mounts -> Seq(Creates)]
      /\ cont[c].create \notin {"idle", "refused"}
  BY <1>n, HasNumber
<1>t. cont \in [Creates -> Container] BY DEF ContainersInv, TypeOK
<1>1. CASE cont' = [cont EXCEPT ![c].hook = next, ![c].links[l] = "host"]
  <2>k. PICK k : k = [[cont[c] EXCEPT !.hook = next] EXCEPT !.links = [cont[c].links EXCEPT ![l] = "host"]] OBVIOUS
  <2>e. cont' = [cont EXCEPT ![c] = k] BY <1>t, <2>k, <1>1
  <2>f. /\ k \in Container /\ k.hook = next /\ k.links = [cont[c].links EXCEPT ![l] = "host"]
        /\ k.id = cont[c].id /\ k.create = cont[c].create /\ k.job = cont[c].job
        /\ k.proc = cont[c].proc /\ k.pid = cont[c].pid /\ k.clean = cont[c].clean
        /\ k.late = cont[c].late /\ k.kept = cont[c].kept /\ k.side = cont[c].side
    <3>1. PICK ls \in [Links -> {"no", "host", "moved"}] : ls = [cont[c].links EXCEPT ![l] = "host"]
      BY <1>h DEF Container
    <3>2. k = [[cont[c] EXCEPT !.hook = next] EXCEPT !.links = ls] BY <2>k, <3>1
    <3>a. cont[c] \in Container BY <1>h
    <3>b. PICK j : j = [cont[c] EXCEPT !.hook = next] OBVIOUS
    <3>c. j \in Container BY <3>a, <3>b, <3>1 DEF Container
    <3>d. k = [j EXCEPT !.links = ls] BY <3>2, <3>b
    <3>3. k \in Container BY <3>1, <3>c, <3>d DEF Container
    <3> QED BY <1>h, <3>1, <3>2, <3>3 DEF Container
  <2>1. OrderInv(k) BY <1>h, <1>g, <2>f DEF Local, OrderInv
  <2>2. HookInv(k, mounts[cont[c].id], args[c]) BY <1>h, <1>g, <2>f DEF Local, HookInv, Links, Container
  <2>3. PathsInv(c, k, mounts[cont[c].id]) BY <1>h, <1>g, <2>f DEF Local, PathsInv
  <2>4. SweptInv(k, mounts[cont[c].id]) BY <1>h, <1>g, <2>f DEF Local, SweptInv, OrderInv
  <2>5. cont' \in [Creates -> Container] /\ cont'[c] = k /\ \A e \in Creates \ {c} : cont'[e] = cont[e]
    BY <1>t, <2>e, <2>f
  <2>6. Local(c, cont'[c], mounts[cont[c].id], args[c]) BY <2>1, <2>2, <2>3, <2>4, <2>5 DEF Local
  <2>7. cont'[c].id = cont[c].id /\ cont'[c].create \notin {"idle", "refused"} BY <1>h, <2>f, <2>5
  <2> QED BY <1>n, <1>g, <2>5, <2>6, <2>7, OneStays
<1>2. CASE cont' = [cont EXCEPT ![c].hook = "over"]
  <2>k. PICK k : k = [cont[c] EXCEPT !.hook = "over"] OBVIOUS
  <2>e. cont' = [cont EXCEPT ![c] = k] BY <1>t, <2>k, <1>2
  <2>f. /\ k \in Container /\ k.hook = "over" /\ k.id = cont[c].id /\ k.create = cont[c].create
        /\ k.job = cont[c].job /\ k.proc = cont[c].proc /\ k.pid = cont[c].pid
        /\ k.clean = cont[c].clean /\ k.late = cont[c].late /\ k.kept = cont[c].kept /\ k.links = cont[c].links
        /\ k.side = cont[c].side
    BY <1>h, <1>g, <2>k DEF Container, Links
  <2>1. OrderInv(k) BY <1>h, <1>g, <2>f DEF Local, OrderInv
  <2>2. HookInv(k, mounts[cont[c].id], args[c]) BY <1>h, <1>g, <2>f DEF Local, HookInv, Links, Container
  <2>3. PathsInv(c, k, mounts[cont[c].id]) BY <1>h, <1>g, <2>f DEF Local, PathsInv
  <2>4. SweptInv(k, mounts[cont[c].id]) BY <1>h, <1>g, <2>f DEF Local, SweptInv, OrderInv
  <2>5. cont' \in [Creates -> Container] /\ cont'[c] = k /\ \A e \in Creates \ {c} : cont'[e] = cont[e]
    BY <1>t, <2>e, <2>f
  <2>6. Local(c, cont'[c], mounts[cont[c].id], args[c]) BY <2>1, <2>2, <2>3, <2>4, <2>5 DEF Local
  <2>7. cont'[c].id = cont[c].id /\ cont'[c].create \notin {"idle", "refused"} BY <1>h, <2>f, <2>5
  <2> QED BY <1>n, <1>g, <2>5, <2>6, <2>7, OneStays
<1> QED BY <1>1, <1>2 DEF LinkAdd

\* The peer is moved, or not.
LEMMA LinkSetUpStep ==
    ASSUME ContainersInv, NEW c \in Creates, NEW l \in Links, NEW at \in {"bridging", "defaulting"}, NEW next \in {"default", "fwd"},
           LinkSetUp(c, at, l, next)
    PROVE  ContainersInv'
<1>g. cont[c].hook = at /\ l \in {"bridge", "default"} /\ UNCHANGED <<sequence, mounts, otherVars>> BY DEF LinkSetUp, Links
<1>n. Present(c) BY <1>g, AtWork
<1>h. /\ Local(c, cont[c], mounts[cont[c].id], args[c]) /\ cont[c] \in Container
      /\ args[c] \in Args /\ mounts[cont[c].id] \in [Mounts -> Seq(Creates)]
      /\ cont[c].create \notin {"idle", "refused"}
  BY <1>n, HasNumber
<1>t. cont \in [Creates -> Container] BY DEF ContainersInv, TypeOK
<1>1. CASE cont' = [cont EXCEPT ![c].hook = next, ![c].links[l] = "moved"] /\ cont[c].links[l] = "host"
  <2>k. PICK k : k = [[cont[c] EXCEPT !.hook = next] EXCEPT !.links = [cont[c].links EXCEPT ![l] = "moved"]] OBVIOUS
  <2>e. cont' = [cont EXCEPT ![c] = k] BY <1>t, <2>k, <1>1
  <2>f. /\ k \in Container /\ k.hook = next /\ k.links = [cont[c].links EXCEPT ![l] = "moved"]
        /\ k.id = cont[c].id /\ k.create = cont[c].create /\ k.job = cont[c].job
        /\ k.proc = cont[c].proc /\ k.pid = cont[c].pid /\ k.clean = cont[c].clean
        /\ k.late = cont[c].late /\ k.kept = cont[c].kept /\ k.side = cont[c].side
    <3>1. PICK ls \in [Links -> {"no", "host", "moved"}] : ls = [cont[c].links EXCEPT ![l] = "moved"]
      BY <1>h DEF Container
    <3>2. k = [[cont[c] EXCEPT !.hook = next] EXCEPT !.links = ls] BY <2>k, <3>1
    <3>a. cont[c] \in Container BY <1>h
    <3>b. PICK j : j = [cont[c] EXCEPT !.hook = next] OBVIOUS
    <3>c. j \in Container BY <3>a, <3>b, <3>1 DEF Container
    <3>d. k = [j EXCEPT !.links = ls] BY <3>2, <3>b
    <3>3. k \in Container BY <3>1, <3>c, <3>d DEF Container
    <3> QED BY <1>h, <3>1, <3>2, <3>3 DEF Container
  <2>1. OrderInv(k) BY <1>h, <1>g, <2>f DEF Local, OrderInv
  <2>2. HookInv(k, mounts[cont[c].id], args[c]) BY <1>h, <1>g, <2>f, <1>1 DEF Local, HookInv, Links, Container
  <2>3. PathsInv(c, k, mounts[cont[c].id]) BY <1>h, <1>g, <2>f DEF Local, PathsInv
  <2>4. SweptInv(k, mounts[cont[c].id]) BY <1>h, <1>g, <2>f DEF Local, SweptInv, OrderInv
  <2>5. cont' \in [Creates -> Container] /\ cont'[c] = k /\ \A e \in Creates \ {c} : cont'[e] = cont[e]
    BY <1>t, <2>e, <2>f
  <2>6. Local(c, cont'[c], mounts[cont[c].id], args[c]) BY <2>1, <2>2, <2>3, <2>4, <2>5 DEF Local
  <2>7. cont'[c].id = cont[c].id /\ cont'[c].create \notin {"idle", "refused"} BY <1>h, <2>f, <2>5
  <2> QED BY <1>n, <1>g, <2>5, <2>6, <2>7, OneStays
<1>2. CASE cont' = [cont EXCEPT ![c].hook = "over", ![c].links[l] = "moved"] /\ cont[c].links[l] = "host"
  <2>k. PICK k : k = [[cont[c] EXCEPT !.hook = "over"] EXCEPT !.links = [cont[c].links EXCEPT ![l] = "moved"]] OBVIOUS
  <2>e. cont' = [cont EXCEPT ![c] = k] BY <1>t, <2>k, <1>2
  <2>f. /\ k \in Container /\ k.hook = "over" /\ k.links = [cont[c].links EXCEPT ![l] = "moved"]
        /\ k.id = cont[c].id /\ k.create = cont[c].create /\ k.job = cont[c].job
        /\ k.proc = cont[c].proc /\ k.pid = cont[c].pid /\ k.clean = cont[c].clean
        /\ k.late = cont[c].late /\ k.kept = cont[c].kept /\ k.side = cont[c].side
    <3>1. PICK ls \in [Links -> {"no", "host", "moved"}] : ls = [cont[c].links EXCEPT ![l] = "moved"]
      BY <1>h DEF Container
    <3>2. k = [[cont[c] EXCEPT !.hook = "over"] EXCEPT !.links = ls] BY <2>k, <3>1
    <3>a. cont[c] \in Container BY <1>h
    <3>b. PICK j : j = [cont[c] EXCEPT !.hook = "over"] OBVIOUS
    <3>c. j \in Container BY <3>a, <3>b, <3>1 DEF Container
    <3>d. k = [j EXCEPT !.links = ls] BY <3>2, <3>b
    <3>3. k \in Container BY <3>1, <3>c, <3>d DEF Container
    <3> QED BY <1>h, <3>1, <3>2, <3>3 DEF Container
  <2>1. OrderInv(k) BY <1>h, <1>g, <2>f DEF Local, OrderInv
  <2>2. HookInv(k, mounts[cont[c].id], args[c]) BY <1>h, <1>g, <2>f, <1>2 DEF Local, HookInv, Links, Container
  <2>3. PathsInv(c, k, mounts[cont[c].id]) BY <1>h, <1>g, <2>f DEF Local, PathsInv
  <2>4. SweptInv(k, mounts[cont[c].id]) BY <1>h, <1>g, <2>f DEF Local, SweptInv, OrderInv
  <2>5. cont' \in [Creates -> Container] /\ cont'[c] = k /\ \A e \in Creates \ {c} : cont'[e] = cont[e]
    BY <1>t, <2>e, <2>f
  <2>6. Local(c, cont'[c], mounts[cont[c].id], args[c]) BY <2>1, <2>2, <2>3, <2>4, <2>5 DEF Local
  <2>7. cont'[c].id = cont[c].id /\ cont'[c].create \notin {"idle", "refused"} BY <1>h, <2>f, <2>5
  <2> QED BY <1>n, <1>g, <2>5, <2>6, <2>7, OneStays
<1>3. CASE cont' = [cont EXCEPT ![c].hook = "over"]
  <2>k. PICK k : k = [cont[c] EXCEPT !.hook = "over"] OBVIOUS
  <2>e. cont' = [cont EXCEPT ![c] = k] BY <1>t, <2>k, <1>3
  <2>f. /\ k \in Container /\ k.hook = "over" /\ k.id = cont[c].id /\ k.create = cont[c].create
        /\ k.job = cont[c].job /\ k.proc = cont[c].proc /\ k.pid = cont[c].pid
        /\ k.clean = cont[c].clean /\ k.late = cont[c].late /\ k.kept = cont[c].kept /\ k.links = cont[c].links
        /\ k.side = cont[c].side
    BY <1>h, <1>g, <2>k DEF Container, Links
  <2>1. OrderInv(k) BY <1>h, <1>g, <2>f DEF Local, OrderInv
  <2>2. HookInv(k, mounts[cont[c].id], args[c]) BY <1>h, <1>g, <2>f, <1>3 DEF Local, HookInv, Links, Container
  <2>3. PathsInv(c, k, mounts[cont[c].id]) BY <1>h, <1>g, <2>f DEF Local, PathsInv
  <2>4. SweptInv(k, mounts[cont[c].id]) BY <1>h, <1>g, <2>f DEF Local, SweptInv, OrderInv
  <2>5. cont' \in [Creates -> Container] /\ cont'[c] = k /\ \A e \in Creates \ {c} : cont'[e] = cont[e]
    BY <1>t, <2>e, <2>f
  <2>6. Local(c, cont'[c], mounts[cont[c].id], args[c]) BY <2>1, <2>2, <2>3, <2>4, <2>5 DEF Local
  <2>7. cont'[c].id = cont[c].id /\ cont'[c].create \notin {"idle", "refused"} BY <1>h, <2>f, <2>5
  <2> QED BY <1>n, <1>g, <2>5, <2>6, <2>7, OneStays
<1> QED BY <1>1, <1>2, <1>3 DEF LinkSetUp

\* unbridge removes the link, or cannot.
LEMMA CleanLinksStep ==
    ASSUME ContainersInv, NEW c \in Creates, CleanLinks(c)
    PROVE  ContainersInv'
<1>g. cont[c].clean = "links" /\ UNCHANGED <<sequence, mounts, otherVars>> BY DEF CleanLinks
<1>n. Present(c) BY <1>g, AtWork
<1>h. /\ Local(c, cont[c], mounts[cont[c].id], args[c]) /\ cont[c] \in Container
      /\ args[c] \in Args /\ mounts[cont[c].id] \in [Mounts -> Seq(Creates)]
      /\ cont[c].create \notin {"idle", "refused"}
  BY <1>n, HasNumber
<1>t. cont \in [Creates -> Container] BY DEF ContainersInv, TypeOK
<1>1. CASE cont' = [cont EXCEPT ![c].clean = "net", ![c].links["bridge"] = IF args[c].bridge THEN "no" ELSE @]
  <2>k. PICK k : k = [[cont[c] EXCEPT !.clean = "net"] EXCEPT !.links = [cont[c].links EXCEPT !["bridge"] = IF args[c].bridge THEN "no" ELSE @]] OBVIOUS
  <2>e. cont' = [cont EXCEPT ![c] = k] BY <1>t, <2>k, <1>1
  <2>f. /\ k \in Container /\ k.clean = "net"
        /\ k.links = [cont[c].links EXCEPT !["bridge"] = IF args[c].bridge THEN "no" ELSE @]
        /\ k.id = cont[c].id /\ k.create = cont[c].create /\ k.job = cont[c].job
        /\ k.proc = cont[c].proc /\ k.pid = cont[c].pid /\ k.hook = cont[c].hook
        /\ k.late = cont[c].late /\ k.kept = cont[c].kept /\ k.side = cont[c].side
    BY <1>h, <1>g, <2>k DEF Container, Links, Args
  <2>1. OrderInv(k) BY <1>h, <1>g, <2>f DEF Local, OrderInv
  <2>2. HookInv(k, mounts[cont[c].id], args[c]) BY <1>h, <1>g, <2>f DEF Local, HookInv, Links, Container
  <2>3. PathsInv(c, k, mounts[cont[c].id]) BY <1>h, <1>g, <2>f DEF Local, PathsInv
  <2>4. SweptInv(k, mounts[cont[c].id]) BY <1>h, <1>g, <2>f DEF Local, SweptInv, OrderInv, Links, HookInv, Container
  <2>5. cont' \in [Creates -> Container] /\ cont'[c] = k /\ \A e \in Creates \ {c} : cont'[e] = cont[e]
    BY <1>t, <2>e, <2>f
  <2>6. Local(c, cont'[c], mounts[cont[c].id], args[c]) BY <2>1, <2>2, <2>3, <2>4, <2>5 DEF Local
  <2>7. cont'[c].id = cont[c].id /\ cont'[c].create \notin {"idle", "refused"} BY <1>h, <2>f, <2>5
  <2> QED BY <1>n, <1>g, <2>5, <2>6, <2>7, OneStays
<1>2. CASE cont' = [cont EXCEPT ![c].clean = "net", ![c].kept = @ \cup {"bridge"}]
  <2>k. PICK k : k = [[cont[c] EXCEPT !.clean = "net"] EXCEPT !.kept = cont[c].kept \cup {"bridge"}] OBVIOUS
  <2>e. cont' = [cont EXCEPT ![c] = k] BY <1>t, <2>k, <1>2
  <2>f. /\ k \in Container /\ k.clean = "net" /\ k.kept = cont[c].kept \cup {"bridge"}
        /\ k.id = cont[c].id /\ k.create = cont[c].create /\ k.job = cont[c].job
        /\ k.proc = cont[c].proc /\ k.pid = cont[c].pid /\ k.hook = cont[c].hook
        /\ k.late = cont[c].late /\ k.links = cont[c].links /\ k.side = cont[c].side
    BY <1>h, <1>g, <2>k DEF Container
  <2>1. OrderInv(k) BY <1>h, <1>g, <2>f DEF Local, OrderInv
  <2>2. HookInv(k, mounts[cont[c].id], args[c]) BY <1>h, <1>g, <2>f DEF Local, HookInv
  <2>3. PathsInv(c, k, mounts[cont[c].id]) BY <1>h, <1>g, <2>f DEF Local, PathsInv
  <2>4. SweptInv(k, mounts[cont[c].id]) BY <1>h, <1>g, <2>f DEF Local, SweptInv, OrderInv
  <2>5. cont' \in [Creates -> Container] /\ cont'[c] = k /\ \A e \in Creates \ {c} : cont'[e] = cont[e]
    BY <1>t, <2>e, <2>f
  <2>6. Local(c, cont'[c], mounts[cont[c].id], args[c]) BY <2>1, <2>2, <2>3, <2>4, <2>5 DEF Local
  <2>7. cont'[c].id = cont[c].id /\ cont'[c].create \notin {"idle", "refused"} BY <1>h, <2>f, <2>5
  <2> QED BY <1>n, <1>g, <2>5, <2>6, <2>7, OneStays
<1> QED BY <1>1, <1>2 DEF CleanLinks

\* coreX ends, perhaps with its namespace.
LEMMA CoreXExitsStep ==
    ASSUME ContainersInv, NEW c \in Creates, CoreXExits(c)
    PROVE  ContainersInv'
<1>g. cont[c].proc = "alive" /\ UNCHANGED <<sequence, mounts, otherVars>> BY DEF CoreXExits
<1>n. Present(c) BY <1>g, AtWork
<1>h. /\ Local(c, cont[c], mounts[cont[c].id], args[c]) /\ cont[c] \in Container
      /\ args[c] \in Args /\ mounts[cont[c].id] \in [Mounts -> Seq(Creates)]
      /\ cont[c].create \notin {"idle", "refused"}
  BY <1>n, HasNumber
<1>t. cont \in [Creates -> Container] BY DEF ContainersInv, TypeOK
<1>k. PICK k : k = [[cont[c] EXCEPT !.proc = "dead"] EXCEPT !.links = IF mounts[cont[c].id]["ns"] = << >> THEN WithoutNamespace(cont[c].links) ELSE cont[c].links] OBVIOUS
<1>e. cont' = [cont EXCEPT ![c] = k] BY <1>t, <1>k DEF CoreXExits
<1>f. /\ k \in Container /\ k.proc = "dead"
      /\ k.links = IF mounts[cont[c].id]["ns"] = << >> THEN WithoutNamespace(cont[c].links) ELSE cont[c].links
      /\ k.id = cont[c].id /\ k.create = cont[c].create /\ k.job = cont[c].job
      /\ k.pid = cont[c].pid /\ k.hook = cont[c].hook /\ k.clean = cont[c].clean
      /\ k.late = cont[c].late /\ k.kept = cont[c].kept /\ k.side = cont[c].side
  BY <1>h, <1>g, <1>k DEF Container, Links, WithoutNamespace
<1>1. OrderInv(k) BY <1>h, <1>g, <1>f DEF Local, OrderInv
<1>2. HookInv(k, mounts[cont[c].id], args[c]) BY <1>h, <1>g, <1>f DEF Local, HookInv, Links, Container, WithoutNamespace
<1>3. PathsInv(c, k, mounts[cont[c].id]) BY <1>h, <1>g, <1>f DEF Local, PathsInv
<1>4. SweptInv(k, mounts[cont[c].id]) BY <1>h, <1>g, <1>f DEF Local, SweptInv, OrderInv
<1>5. cont' \in [Creates -> Container] /\ cont'[c] = k /\ \A e \in Creates \ {c} : cont'[e] = cont[e]
  BY <1>t, <1>e, <1>f
<1>6. Local(c, cont'[c], mounts[cont[c].id], args[c]) BY <1>1, <1>2, <1>3, <1>4, <1>5 DEF Local
<1>7. cont'[c].id = cont[c].id /\ cont'[c].create \notin {"idle", "refused"} BY <1>h, <1>f, <1>5
<1> QED BY <1>n, <1>g, <1>5, <1>6, <1>7, OneStays

\* A helper ends.
LEMMA SideEndsStep ==
    ASSUME ContainersInv, NEW c \in Creates, NEW x \in Sides, SideEnds(c, x)
    PROVE  ContainersInv'
<1>g. cont[c].side[x] = "running" /\ UNCHANGED <<sequence, mounts, otherVars>> BY DEF SideEnds, Running
<1>n. Present(c) BY <1>g, AtWork
<1>h. /\ Local(c, cont[c], mounts[cont[c].id], args[c]) /\ cont[c] \in Container
      /\ args[c] \in Args /\ mounts[cont[c].id] \in [Mounts -> Seq(Creates)]
      /\ cont[c].create \notin {"idle", "refused"}
  BY <1>n, HasNumber
<1>t. cont \in [Creates -> Container] BY DEF ContainersInv, TypeOK
<1>k. PICK k : k = [cont[c] EXCEPT !.side = [cont[c].side EXCEPT ![x] = "ending"]] OBVIOUS
<1>e. cont' = [cont EXCEPT ![c] = k] BY <1>t, <1>k DEF SideEnds
<1>f. /\ k \in Container /\ k.side = [cont[c].side EXCEPT ![x] = "ending"] /\ k.id = cont[c].id
      /\ k.create = cont[c].create /\ k.job = cont[c].job /\ k.proc = cont[c].proc
      /\ k.pid = cont[c].pid /\ k.hook = cont[c].hook /\ k.clean = cont[c].clean
      /\ k.late = cont[c].late /\ k.kept = cont[c].kept /\ k.links = cont[c].links
  BY <1>h, <1>g, <1>k DEF Container, Sides
<1>1. OrderInv(k) BY <1>h, <1>g, <1>f DEF Local, OrderInv
<1>2. HookInv(k, mounts[cont[c].id], args[c]) BY <1>h, <1>g, <1>f DEF Local, HookInv, Sides, Container
<1>3. PathsInv(c, k, mounts[cont[c].id]) BY <1>h, <1>g, <1>f DEF Local, PathsInv
<1>4. SweptInv(k, mounts[cont[c].id]) BY <1>h, <1>g, <1>f DEF Local, SweptInv, OrderInv, Sides, Container
<1>5. cont' \in [Creates -> Container] /\ cont'[c] = k /\ \A e \in Creates \ {c} : cont'[e] = cont[e]
  BY <1>t, <1>e, <1>f
<1>6. Local(c, cont'[c], mounts[cont[c].id], args[c]) BY <1>1, <1>2, <1>3, <1>4, <1>5 DEF Local
<1>7. cont'[c].id = cont[c].id /\ cont'[c].create \notin {"idle", "refused"} BY <1>h, <1>f, <1>5
<1> QED BY <1>n, <1>g, <1>5, <1>6, <1>7, OneStays

\* The runner of a helper leaves the table.
LEMMA SideLeavesStep ==
    ASSUME ContainersInv, NEW c \in Creates, NEW x \in Sides, SideLeaves(c, x)
    PROVE  ContainersInv'
<1>g. cont[c].side[x] = "ending" /\ UNCHANGED <<sequence, mounts, otherVars>> BY DEF SideLeaves, Ending
<1>n. Present(c) BY <1>g, AtWork
<1>h. /\ Local(c, cont[c], mounts[cont[c].id], args[c]) /\ cont[c] \in Container
      /\ args[c] \in Args /\ mounts[cont[c].id] \in [Mounts -> Seq(Creates)]
      /\ cont[c].create \notin {"idle", "refused"}
  BY <1>n, HasNumber
<1>t. cont \in [Creates -> Container] BY DEF ContainersInv, TypeOK
<1>k. PICK k : k = [cont[c] EXCEPT !.side = [cont[c].side EXCEPT ![x] = "over"]] OBVIOUS
<1>e. cont' = [cont EXCEPT ![c] = k] BY <1>t, <1>k DEF SideLeaves
<1>f. /\ k \in Container /\ k.side = [cont[c].side EXCEPT ![x] = "over"] /\ k.id = cont[c].id
      /\ k.create = cont[c].create /\ k.job = cont[c].job /\ k.proc = cont[c].proc
      /\ k.pid = cont[c].pid /\ k.hook = cont[c].hook /\ k.clean = cont[c].clean
      /\ k.late = cont[c].late /\ k.kept = cont[c].kept /\ k.links = cont[c].links
  BY <1>h, <1>g, <1>k DEF Container, Sides
<1>1. OrderInv(k) BY <1>h, <1>g, <1>f DEF Local, OrderInv
<1>2. HookInv(k, mounts[cont[c].id], args[c]) BY <1>h, <1>g, <1>f DEF Local, HookInv, Sides, Container
<1>3. PathsInv(c, k, mounts[cont[c].id]) BY <1>h, <1>g, <1>f DEF Local, PathsInv
<1>4. SweptInv(k, mounts[cont[c].id]) BY <1>h, <1>g, <1>f DEF Local, SweptInv, OrderInv, Sides, Container
<1>5. cont' \in [Creates -> Container] /\ cont'[c] = k /\ \A e \in Creates \ {c} : cont'[e] = cont[e]
  BY <1>t, <1>e, <1>f
<1>6. Local(c, cont'[c], mounts[cont[c].id], args[c]) BY <1>1, <1>2, <1>3, <1>4, <1>5 DEF Local
<1>7. cont'[c].id = cont[c].id /\ cont'[c].create \notin {"idle", "refused"} BY <1>h, <1>f, <1>5
<1> QED BY <1>n, <1>g, <1>5, <1>6, <1>7, OneStays

\* One of the mounts of create.
LEMMA MountStepKeeps ==
    ASSUME ContainersInv, NEW c \in Creates, NEW w \in Paths, NEW next \in {"data", "redis", "corex", "run"},
           \A v \in Paths : next \in Pending(v) <=> v # w /\ w \in Pending(v),
           w \in Pending(w), MountStep(c, w, next)
    PROVE  ContainersInv'
<1>g. cont[c].create = w /\ UNCHANGED <<sequence, otherVars>> BY DEF MountStep
<1>n. Present(c) BY <1>g, PendingIs, AtWork
<1>h. /\ Local(c, cont[c], mounts[cont[c].id], args[c]) /\ cont[c] \in Container
      /\ args[c] \in Args /\ mounts[cont[c].id] \in [Mounts -> Seq(Creates)]
      /\ cont[c].create \notin {"idle", "refused"}
  BY <1>n, HasNumber
<1>i. cont[c].id \in Ids /\ mounts \in [Ids -> [Mounts -> Seq(Creates)]] BY <1>n, HasNumber DEF ContainersInv, TypeOK
<1>t. cont \in [Creates -> Container] BY DEF ContainersInv, TypeOK
<1>p. PICK m : m = [mounts[cont[c].id] EXCEPT ![w] = Append(mounts[cont[c].id][w], c)] OBVIOUS
<1>m. /\ mounts'[cont[c].id] = m /\ m \in [Mounts -> Seq(Creates)] /\ mounts' \in [Ids -> [Mounts -> Seq(Creates)]]
      /\ \A i \in Ids \ {cont[c].id} : mounts'[i] = mounts[i]
      /\ \A v \in Mounts : m[v] = IF v = w THEN <<c>> ELSE mounts[cont[c].id][v]
  <2>0. w \in Mounts /\ mounts[cont[c].id][w] = << >> BY <1>h, <1>g, PendingIs DEF Local, PathsInv
  <2>1. mounts' = [mounts EXCEPT ![cont[c].id] = m] BY <1>i, <1>p DEF MountStep, Mount
  <2>2. /\ m \in [Mounts -> Seq(Creates)]
        /\ \A v \in Mounts : m[v] = IF v = w THEN <<c>> ELSE mounts[cont[c].id][v]
    BY <1>h, <1>p, <2>0, OneMounted
  <2> QED BY <1>i, <2>1, <2>2
<1>k. PICK k : k = [cont[c] EXCEPT !.create = next] OBVIOUS
<1>e. cont' = [cont EXCEPT ![c] = k] BY <1>t, <1>k DEF MountStep
<1>f. /\ k \in Container /\ k.create = next /\ k.id = cont[c].id /\ k.job = cont[c].job
      /\ k.proc = cont[c].proc /\ k.pid = cont[c].pid /\ k.hook = cont[c].hook
      /\ k.clean = cont[c].clean /\ k.late = cont[c].late /\ k.kept = cont[c].kept /\ k.links = cont[c].links
      /\ k.side = cont[c].side
  BY <1>h, <1>g, <1>k DEF Container
<1>1. OrderInv(k) BY <1>h, <1>g, <1>f, <1>m, PendingIs DEF Local, OrderInv
<1>2. HookInv(k, m, args[c]) BY <1>h, <1>g, <1>f, <1>m, PendingIs DEF Local, HookInv, Mounts, Paths
<1>3. PathsInv(c, k, m)
  <2>1. PathsInv(c, cont[c], mounts[cont[c].id]) /\ cont[c].clean = "no"
    BY <1>h, <1>g, PendingIs DEF Local, OrderInv
  <2>2. \A v \in Mounts : m[v] \in {<< >>, <<c>>} BY <1>m, <2>1 DEF PathsInv
  <2>3. ASSUME NEW v \in Paths, k.create \in Pending(v) PROVE m[v] = << >>
    <3>1. v # w /\ w \in Pending(v) /\ v \in Mounts BY <1>f, <2>3, PendingIs
    <3>2. mounts[cont[c].id][v] = << >> BY <1>g, <2>1, <3>1 DEF PathsInv
    <3> QED BY <1>m, <3>1, <3>2
  <2>4. ASSUME NEW v \in Paths, k.create \notin Pending(v) PROVE m[v] = <<c>>
    <3>1. v \in Mounts /\ w # "failed" BY PendingIs
    <3>2. v = w \/ w \notin Pending(v) BY <1>f, <2>4
    <3>3. CASE v = w BY <1>m, <3>1, <3>3
    <3>4. CASE v # w
      <4>1. w \notin Pending(v) \cup {"failed"} BY <3>1, <3>2, <3>4
      <4>2. mounts[cont[c].id][v] = <<c>> BY <1>g, <2>1, <4>1 DEF PathsInv
      <4> QED BY <1>m, <3>1, <3>4, <4>2
    <3> QED BY <3>3, <3>4
  <2>5. k.clean = "no" BY <1>f, <2>1
  <2> QED BY <2>2, <2>3, <2>4, <2>5 DEF PathsInv
<1>4. SweptInv(k, m) BY <1>h, <1>g, <1>f, <1>m, PendingIs DEF Local, SweptInv, OrderInv, Paths, Mounts
<1>l. Local(c, k, m, args[c]) BY <1>1, <1>2, <1>3, <1>4 DEF Local
<1>5. cont' \in [Creates -> Container] /\ cont'[c] = k /\ \A e \in Creates \ {c} : cont'[e] = cont[e]
  BY <1>t, <1>e, <1>f
<1>6. Local(c, cont'[c], mounts'[cont[c].id], args[c]) BY <1>5, <1>l, <1>m DEF Local
<1>7. cont'[c].id = cont[c].id /\ cont'[c].create \notin {"idle", "refused"} BY <1>h, <1>f, <1>5
<1> QED BY <1>n, <1>g, <1>m, <1>5, <1>6, <1>7, OneMoves

\* The namespace of coreX is kept, or the hook ends.
LEMMA NamespaceStep ==
    ASSUME ContainersInv, NEW c \in Creates, Namespace(c)
    PROVE  ContainersInv'
<1>g. cont[c].hook = "ns" /\ UNCHANGED <<sequence, otherVars>> BY DEF Namespace
<1>n. Present(c) BY <1>g, AtWork
<1>h. /\ Local(c, cont[c], mounts[cont[c].id], args[c]) /\ cont[c] \in Container
      /\ args[c] \in Args /\ mounts[cont[c].id] \in [Mounts -> Seq(Creates)]
      /\ cont[c].create \notin {"idle", "refused"}
  BY <1>n, HasNumber
<1>i. cont[c].id \in Ids /\ mounts \in [Ids -> [Mounts -> Seq(Creates)]] BY <1>n, HasNumber DEF ContainersInv, TypeOK
<1>t. cont \in [Creates -> Container] BY DEF ContainersInv, TypeOK
<1>1. CASE Mount(c, "ns") /\ cont' = [cont EXCEPT ![c].hook = "net"]
  <2>p. PICK m : m = [mounts[cont[c].id] EXCEPT !["ns"] = Append(mounts[cont[c].id]["ns"], c)] OBVIOUS
  <2>m. /\ mounts'[cont[c].id] = m /\ m \in [Mounts -> Seq(Creates)] /\ mounts' \in [Ids -> [Mounts -> Seq(Creates)]]
        /\ \A i \in Ids \ {cont[c].id} : mounts'[i] = mounts[i]
        /\ \A v \in Mounts : m[v] = IF v = "ns" THEN <<c>> ELSE mounts[cont[c].id][v]
    <3>1. mounts' = [mounts EXCEPT ![cont[c].id] = m] BY <1>i, <2>p, <1>1, OneMounted DEF Mount
    <3>2. /\ m \in [Mounts -> Seq(Creates)]
          /\ \A v \in Mounts : m[v] = IF v = "ns" THEN <<c>> ELSE mounts[cont[c].id][v]
      <4>1. mounts[cont[c].id]["ns"] = << >> /\ "ns" \in Mounts BY <1>h, <1>g DEF Local, HookInv, Mounts, Paths
      <4>2. m = [mounts[cont[c].id] EXCEPT !["ns"] = <<c>>] /\ <<c>> \in Seq(Creates) BY <2>p, <4>1, OneMounted
      <4> QED BY <1>h, <4>1, <4>2
    <3> QED BY <1>i, <3>1, <3>2
  <2>k. PICK k : k = [cont[c] EXCEPT !.hook = "net"] OBVIOUS
  <2>e. cont' = [cont EXCEPT ![c] = k] BY <1>t, <2>k, <1>1
  <2>f. /\ k \in Container /\ k.hook = "net" /\ k.id = cont[c].id /\ k.create = cont[c].create
        /\ k.job = cont[c].job /\ k.proc = cont[c].proc /\ k.pid = cont[c].pid
        /\ k.clean = cont[c].clean /\ k.late = cont[c].late /\ k.kept = cont[c].kept /\ k.links = cont[c].links
        /\ k.side = cont[c].side
    BY <1>h, <1>g, <2>k DEF Container
  <2>1. OrderInv(k) BY <1>h, <1>g, <2>f, <2>m DEF Local, OrderInv
  <2>2. HookInv(k, m, args[c]) BY <1>h, <1>g, <2>f, <2>m DEF Local, HookInv
  <2>3. PathsInv(c, k, m)
    <3>1. PathsInv(c, cont[c], mounts[cont[c].id]) BY <1>h DEF Local
    <3>2. \A v \in Mounts : m[v] \in {<< >>, <<c>>} BY <2>m, <3>1 DEF PathsInv
    <3>3. \A v \in Paths : v \in Mounts /\ m[v] = mounts[cont[c].id][v] BY <2>m DEF Paths, Mounts
    <3> QED BY <2>f, <3>1, <3>2, <3>3 DEF PathsInv
  <2>4. SweptInv(k, m) BY <1>h, <1>g, <2>f, <2>m DEF Local, SweptInv, OrderInv
  <2>l. Local(c, k, m, args[c]) BY <2>1, <2>2, <2>3, <2>4 DEF Local
  <2>5. cont' \in [Creates -> Container] /\ cont'[c] = k /\ \A e \in Creates \ {c} : cont'[e] = cont[e]
    BY <1>t, <2>e, <2>f
  <2>6. Local(c, cont'[c], mounts'[cont[c].id], args[c]) BY <2>5, <2>l, <2>m DEF Local
  <2>7. cont'[c].id = cont[c].id /\ cont'[c].create \notin {"idle", "refused"} BY <1>h, <2>f, <2>5
  <2> QED BY <1>n, <1>g, <2>m, <2>5, <2>6, <2>7, OneMoves
<1>2. CASE mounts' = mounts /\ cont' = [cont EXCEPT ![c].hook = "over"]
  <2>k. PICK k : k = [cont[c] EXCEPT !.hook = "over"] OBVIOUS
  <2>e. cont' = [cont EXCEPT ![c] = k] BY <1>t, <2>k, <1>2
  <2>f. /\ k \in Container /\ k.hook = "over" /\ k.id = cont[c].id /\ k.create = cont[c].create
        /\ k.job = cont[c].job /\ k.proc = cont[c].proc /\ k.pid = cont[c].pid
        /\ k.clean = cont[c].clean /\ k.late = cont[c].late /\ k.kept = cont[c].kept /\ k.links = cont[c].links
        /\ k.side = cont[c].side
    BY <1>h, <1>g, <2>k DEF Container
  <2>1. OrderInv(k) BY <1>h, <1>g, <2>f DEF Local, OrderInv
  <2>2. HookInv(k, mounts[cont[c].id], args[c]) BY <1>h, <1>g, <2>f DEF Local, HookInv
  <2>3. PathsInv(c, k, mounts[cont[c].id]) BY <1>h, <1>g, <2>f DEF Local, PathsInv
  <2>4. SweptInv(k, mounts[cont[c].id]) BY <1>h, <1>g, <2>f DEF Local, SweptInv, OrderInv
  <2>5. cont' \in [Creates -> Container] /\ cont'[c] = k /\ \A e \in Creates \ {c} : cont'[e] = cont[e]
    BY <1>t, <2>e, <2>f
  <2>6. Local(c, cont'[c], mounts[cont[c].id], args[c]) BY <2>1, <2>2, <2>3, <2>4, <2>5 DEF Local
  <2>7. cont'[c].id = cont[c].id /\ cont'[c].create \notin {"idle", "refused"} BY <1>h, <2>f, <2>5
  <2> QED BY <1>n, <1>g, <1>2, <2>5, <2>6, <2>7, OneStays
<1> QED BY <1>1, <1>2 DEF Namespace

\* The namespace is let go.
LEMMA CleanNsStep ==
    ASSUME ContainersInv, NEW c \in Creates, CleanNs(c)
    PROVE  ContainersInv'
<1>g. cont[c].clean = "ns" /\ UNCHANGED <<sequence, otherVars>> BY DEF CleanNs
<1>n. Present(c) BY <1>g, AtWork
<1>h. /\ Local(c, cont[c], mounts[cont[c].id], args[c]) /\ cont[c] \in Container
      /\ args[c] \in Args /\ mounts[cont[c].id] \in [Mounts -> Seq(Creates)]
      /\ cont[c].create \notin {"idle", "refused"}
  BY <1>n, HasNumber
<1>i. cont[c].id \in Ids /\ mounts \in [Ids -> [Mounts -> Seq(Creates)]] BY <1>n, HasNumber DEF ContainersInv, TypeOK
<1>t. cont \in [Creates -> Container] BY DEF ContainersInv, TypeOK
<1>1. CASE /\ mounts' = [mounts EXCEPT ![cont[c].id]["ns"] = Popped(@)]
           /\ cont' = [cont EXCEPT ![c].clean = "mounts", ![c].links = WithoutNamespace(@)]
  <2>p. PICK m : m = [mounts[cont[c].id] EXCEPT !["ns"] = Popped(mounts[cont[c].id]["ns"])] OBVIOUS
  <2>m. /\ mounts'[cont[c].id] = m /\ m \in [Mounts -> Seq(Creates)] /\ mounts' \in [Ids -> [Mounts -> Seq(Creates)]]
        /\ \A i \in Ids \ {cont[c].id} : mounts'[i] = mounts[i]
        /\ \A v \in Mounts : m[v] = IF v = "ns" THEN << >> ELSE mounts[cont[c].id][v]
    <3>1. mounts' = [mounts EXCEPT ![cont[c].id] = m] BY <1>i, <2>p, <1>1
    <3>2. /\ m \in [Mounts -> Seq(Creates)]
          /\ \A v \in Mounts : m[v] = IF v = "ns" THEN << >> ELSE mounts[cont[c].id][v]
      <4>1. mounts[cont[c].id]["ns"] \in {<< >>, <<c>>} /\ "ns" \in Mounts BY <1>h DEF Local, PathsInv, Mounts
      <4>2. Popped(mounts[cont[c].id]["ns"]) = << >> /\ << >> \in Seq(Creates) BY <4>1, OnePopped, OneMounted
      <4>3. m = [mounts[cont[c].id] EXCEPT !["ns"] = << >>] BY <2>p, <4>2
      <4> QED BY <1>h, <4>1, <4>2, <4>3
    <3> QED BY <1>i, <3>1, <3>2
  <2>k. PICK k : k = [[cont[c] EXCEPT !.clean = "mounts"] EXCEPT !.links = WithoutNamespace(cont[c].links)] OBVIOUS
  <2>e. cont' = [cont EXCEPT ![c] = k] BY <1>t, <2>k, <1>1
  <2>f. /\ k \in Container /\ k.clean = "mounts" /\ k.links = WithoutNamespace(cont[c].links)
        /\ k.id = cont[c].id /\ k.create = cont[c].create /\ k.job = cont[c].job
        /\ k.proc = cont[c].proc /\ k.pid = cont[c].pid /\ k.hook = cont[c].hook
        /\ k.late = cont[c].late /\ k.kept = cont[c].kept /\ k.side = cont[c].side
    BY <1>h, <1>g, <2>k DEF Container, Links, WithoutNamespace
  <2>1. OrderInv(k) BY <1>h, <1>g, <2>f, <2>m DEF Local, OrderInv
  <2>2. HookInv(k, m, args[c]) BY <1>h, <1>g, <2>f, <2>m DEF Local, HookInv, Mounts, Links, Container, WithoutNamespace, Paths
  <2>3. PathsInv(c, k, m) BY <1>h, <1>g, <2>f, <2>m DEF Local, PathsInv, Paths, Mounts
  <2>4. SweptInv(k, m) BY <1>h, <1>g, <2>f, <2>m DEF Local, SweptInv, OrderInv, Mounts, Links, Container, WithoutNamespace, Paths
  <2>l. Local(c, k, m, args[c]) BY <2>1, <2>2, <2>3, <2>4 DEF Local
  <2>5. cont' \in [Creates -> Container] /\ cont'[c] = k /\ \A e \in Creates \ {c} : cont'[e] = cont[e]
    BY <1>t, <2>e, <2>f
  <2>6. Local(c, cont'[c], mounts'[cont[c].id], args[c]) BY <2>5, <2>l, <2>m DEF Local
  <2>7. cont'[c].id = cont[c].id /\ cont'[c].create \notin {"idle", "refused"} BY <1>h, <2>f, <2>5
  <2> QED BY <1>n, <1>g, <2>m, <2>5, <2>6, <2>7, OneMoves
<1>3. CASE mounts' = mounts /\ cont' = [cont EXCEPT ![c].clean = "mounts", ![c].kept = @ \cup {"ns"}]
  <2>k. PICK k : k = [[cont[c] EXCEPT !.clean = "mounts"] EXCEPT !.kept = cont[c].kept \cup {"ns"}] OBVIOUS
  <2>e. cont' = [cont EXCEPT ![c] = k] BY <1>t, <2>k, <1>3
  <2>f. /\ k \in Container /\ k.clean = "mounts" /\ k.kept = cont[c].kept \cup {"ns"}
        /\ k.id = cont[c].id /\ k.create = cont[c].create /\ k.job = cont[c].job
        /\ k.proc = cont[c].proc /\ k.pid = cont[c].pid /\ k.hook = cont[c].hook
        /\ k.late = cont[c].late /\ k.links = cont[c].links /\ k.side = cont[c].side
    BY <1>h, <1>g, <2>k DEF Container, Mounts
  <2>1. OrderInv(k) BY <1>h, <1>g, <2>f DEF Local, OrderInv
  <2>2. HookInv(k, mounts[cont[c].id], args[c]) BY <1>h, <1>g, <2>f DEF Local, HookInv
  <2>3. PathsInv(c, k, mounts[cont[c].id]) BY <1>h, <1>g, <2>f DEF Local, PathsInv
  <2>4. SweptInv(k, mounts[cont[c].id]) BY <1>h, <1>g, <2>f DEF Local, SweptInv, OrderInv
  <2>5. cont' \in [Creates -> Container] /\ cont'[c] = k /\ \A e \in Creates \ {c} : cont'[e] = cont[e]
    BY <1>t, <2>e, <2>f
  <2>6. Local(c, cont'[c], mounts[cont[c].id], args[c]) BY <2>1, <2>2, <2>3, <2>4, <2>5 DEF Local
  <2>7. cont'[c].id = cont[c].id /\ cont'[c].create \notin {"idle", "refused"} BY <1>h, <2>f, <2>5
  <2> QED BY <1>n, <1>g, <1>3, <2>5, <2>6, <2>7, OneStays
<1>2. CASE cont[c].pid = "unset" /\ mounts' = mounts /\ cont' = [cont EXCEPT ![c].clean = "mounts"]
  <2>k. PICK k : k = [cont[c] EXCEPT !.clean = "mounts"] OBVIOUS
  <2>e. cont' = [cont EXCEPT ![c] = k] BY <1>t, <2>k, <1>2
  <2>f. /\ k \in Container /\ k.clean = "mounts" /\ k.id = cont[c].id /\ k.create = cont[c].create
        /\ k.job = cont[c].job /\ k.proc = cont[c].proc /\ k.pid = cont[c].pid
        /\ k.hook = cont[c].hook /\ k.late = cont[c].late /\ k.kept = cont[c].kept /\ k.links = cont[c].links
        /\ k.side = cont[c].side
    BY <1>h, <1>g, <2>k DEF Container
  <2>1. OrderInv(k) BY <1>h, <1>g, <2>f DEF Local, OrderInv
  <2>2. HookInv(k, mounts[cont[c].id], args[c]) BY <1>h, <1>g, <2>f DEF Local, HookInv
  <2>3. PathsInv(c, k, mounts[cont[c].id]) BY <1>h, <1>g, <2>f DEF Local, PathsInv
  <2>4. SweptInv(k, mounts[cont[c].id]) BY <1>h, <1>g, <2>f, <1>2 DEF Local, SweptInv, OrderInv, HookInv, Container, Links
  <2>5. cont' \in [Creates -> Container] /\ cont'[c] = k /\ \A e \in Creates \ {c} : cont'[e] = cont[e]
    BY <1>t, <2>e, <2>f
  <2>6. Local(c, cont'[c], mounts[cont[c].id], args[c]) BY <2>1, <2>2, <2>3, <2>4, <2>5 DEF Local
  <2>7. cont'[c].id = cont[c].id /\ cont'[c].create \notin {"idle", "refused"} BY <1>h, <2>f, <2>5
  <2> QED BY <1>n, <1>g, <1>2, <2>5, <2>6, <2>7, OneStays
<1> QED BY <1>1, <1>2, <1>3 DEF CleanNs

\* The data directory, the socket, the binary and the root are unmounted.
LEMMA CleanMountsStep ==
    ASSUME ContainersInv, NEW c \in Creates, CleanMounts(c)
    PROVE  ContainersInv'
<1>g. cont[c].clean = "mounts" /\ UNCHANGED <<sequence, otherVars>> BY DEF CleanMounts
<1>n. Present(c) BY <1>g, AtWork
<1>h. /\ Local(c, cont[c], mounts[cont[c].id], args[c]) /\ cont[c] \in Container
      /\ args[c] \in Args /\ mounts[cont[c].id] \in [Mounts -> Seq(Creates)]
      /\ cont[c].create \notin {"idle", "refused"}
  BY <1>n, HasNumber
<1>i. cont[c].id \in Ids /\ mounts \in [Ids -> [Mounts -> Seq(Creates)]] BY <1>n, HasNumber DEF ContainersInv, TypeOK
<1>t. cont \in [Creates -> Container] BY DEF ContainersInv, TypeOK
<1>q. PICK refused \in SUBSET (Busy[c] \cap Paths) :
             /\ mounts' = [mounts EXCEPT ![cont[c].id] = UnmountAll(@, refused)]
             /\ cont' = [cont EXCEPT ![c].clean = "over", ![c].kept = @ \cup refused]
  BY DEF CleanMounts
<1>p. PICK m : m = UnmountAll(mounts[cont[c].id], refused) OBVIOUS
<1>m. /\ mounts'[cont[c].id] = m /\ m \in [Mounts -> Seq(Creates)] /\ mounts' \in [Ids -> [Mounts -> Seq(Creates)]]
      /\ \A i \in Ids \ {cont[c].id} : mounts'[i] = mounts[i]
      /\ \A v \in Mounts : m[v] = IF v \in Paths \ refused THEN << >> ELSE mounts[cont[c].id][v]
  <2>1. mounts' = [mounts EXCEPT ![cont[c].id] = m] BY <1>i, <1>p, <1>q
  <2>2. /\ m \in [Mounts -> Seq(Creates)]
        /\ \A v \in Mounts : m[v] = IF v \in Paths \ refused THEN << >> ELSE mounts[cont[c].id][v]
    <3>1. \A w \in Mounts : mounts[cont[c].id][w] \in {<< >>, <<c>>} BY <1>h DEF Local, PathsInv
    <3>2. /\ UnmountAll(mounts[cont[c].id], refused) \in [Mounts -> Seq(Creates)]
          /\ \A v \in Mounts : UnmountAll(mounts[cont[c].id], refused)[v]
                                 = IF v \in Paths \ refused THEN << >> ELSE mounts[cont[c].id][v]
      BY <1>h, <3>1, AllUnmounted
    <3> QED BY <1>p, <3>2
  <2> QED BY <1>i, <2>1, <2>2
<1>k. PICK k : k = [[cont[c] EXCEPT !.clean = "over"] EXCEPT !.kept = cont[c].kept \cup refused] OBVIOUS
<1>e. cont' = [cont EXCEPT ![c] = k] BY <1>t, <1>k, <1>q
<1>f. /\ k \in Container /\ k.clean = "over" /\ k.id = cont[c].id /\ k.create = cont[c].create
      /\ k.job = cont[c].job /\ k.proc = cont[c].proc /\ k.pid = cont[c].pid
      /\ k.hook = cont[c].hook /\ k.late = cont[c].late /\ k.kept = cont[c].kept \cup refused /\ k.links = cont[c].links
      /\ k.side = cont[c].side
  BY <1>h, <1>g, <1>k, <1>q DEF Container, Paths, Mounts
<1>1. OrderInv(k) BY <1>h, <1>g, <1>f, <1>m DEF Local, OrderInv
<1>2. HookInv(k, m, args[c]) BY <1>h, <1>g, <1>f, <1>m DEF Local, HookInv, Mounts, Paths
<1>3. PathsInv(c, k, m)
  <2>1. PathsInv(c, cont[c], mounts[cont[c].id]) BY <1>h DEF Local
  <2>2. \A v \in Mounts : m[v] \in {<< >>, <<c>>} BY <1>m, <2>1 DEF PathsInv
  <2>3. \A v \in Paths : v \in Mounts BY PendingIs
  <2>4. \A v \in Paths : k.create \in Pending(v) => m[v] = << >> BY <1>f, <1>m, <2>1, <2>3 DEF PathsInv
  <2>5. \A v \in Paths : v \notin k.kept => m[v] = << >> BY <1>f, <1>m, <2>3
  <2> QED BY <1>f, <2>2, <2>4, <2>5 DEF PathsInv
<1>4. SweptInv(k, m) BY <1>h, <1>g, <1>f, <1>m DEF Local, SweptInv, OrderInv, Mounts, Paths
<1>l. Local(c, k, m, args[c]) BY <1>1, <1>2, <1>3, <1>4 DEF Local
<1>5. cont' \in [Creates -> Container] /\ cont'[c] = k /\ \A e \in Creates \ {c} : cont'[e] = cont[e]
  BY <1>t, <1>e, <1>f
<1>6. Local(c, cont'[c], mounts'[cont[c].id], args[c]) BY <1>5, <1>l, <1>m DEF Local
<1>7. cont'[c].id = cont[c].id /\ cont'[c].create \notin {"idle", "refused"} BY <1>h, <1>f, <1>5
<1> QED BY <1>n, <1>g, <1>m, <1>5, <1>6, <1>7, OneMoves

\* A helper is killed, is gone, or keeps the clean-up waiting.
LEMMA KillSideStep ==
    ASSUME ContainersInv, NEW c \in Creates, NEW x \in Sides, NEW next \in {"links", "ns"},
           next = "links" <=> x = "fwd", KillSide(c, x, x, next)
    PROVE  ContainersInv'
<1>g. cont[c].clean = x /\ x \in {"fwd", "net"} /\ UNCHANGED <<sequence, mounts, otherVars>> BY DEF KillSide, Sides
<1>n. Present(c) BY <1>g, AtWork
<1>h. /\ Local(c, cont[c], mounts[cont[c].id], args[c]) /\ cont[c] \in Container
      /\ args[c] \in Args /\ mounts[cont[c].id] \in [Mounts -> Seq(Creates)]
      /\ cont[c].create \notin {"idle", "refused"}
  BY <1>n, HasNumber
<1>t. cont \in [Creates -> Container] BY DEF ContainersInv, TypeOK
<1>1. CASE ~SideFiled(c, x) /\ cont' = [cont EXCEPT ![c].clean = next]
  <2>r. cont[c].side[x] # "running" BY <1>1 DEF SideFiled, Running
  <2>k. PICK k : k = [cont[c] EXCEPT !.clean = next] OBVIOUS
  <2>e. cont' = [cont EXCEPT ![c] = k] BY <1>t, <2>k, <1>1
  <2>f. /\ k \in Container /\ k.clean = next /\ k.id = cont[c].id /\ k.create = cont[c].create
        /\ k.job = cont[c].job /\ k.proc = cont[c].proc /\ k.pid = cont[c].pid
        /\ k.hook = cont[c].hook /\ k.late = cont[c].late /\ k.kept = cont[c].kept /\ k.links = cont[c].links
        /\ k.side = cont[c].side
    BY <1>h, <1>g, <2>k DEF Container
  <2>1. OrderInv(k) BY <1>h, <1>g, <2>f DEF Local, OrderInv
  <2>2. HookInv(k, mounts[cont[c].id], args[c]) BY <1>h, <1>g, <2>f DEF Local, HookInv
  <2>3. PathsInv(c, k, mounts[cont[c].id]) BY <1>h, <1>g, <2>f DEF Local, PathsInv
  <2>4. SweptInv(k, mounts[cont[c].id]) BY <1>h, <1>g, <2>f, <2>r DEF Local, SweptInv, OrderInv
  <2>5. cont' \in [Creates -> Container] /\ cont'[c] = k /\ \A e \in Creates \ {c} : cont'[e] = cont[e]
    BY <1>t, <2>e, <2>f
  <2>6. Local(c, cont'[c], mounts[cont[c].id], args[c]) BY <2>1, <2>2, <2>3, <2>4, <2>5 DEF Local
  <2>7. cont'[c].id = cont[c].id /\ cont'[c].create \notin {"idle", "refused"} BY <1>h, <2>f, <2>5
  <2> QED BY <1>n, <1>g, <2>5, <2>6, <2>7, OneStays
<1>2. CASE Running(c, x) /\ cont' = [cont EXCEPT ![c].side[x] = "ending", ![c].clean = next]
  <2>k. PICK k : k = [[cont[c] EXCEPT !.side = [cont[c].side EXCEPT ![x] = "ending"]] EXCEPT !.clean = next] OBVIOUS
  <2>e. cont' = [cont EXCEPT ![c] = k] BY <1>t, <2>k, <1>2
  <2>f. /\ k \in Container /\ k.side = [cont[c].side EXCEPT ![x] = "ending"] /\ k.clean = next
        /\ k.id = cont[c].id /\ k.create = cont[c].create /\ k.job = cont[c].job
        /\ k.proc = cont[c].proc /\ k.pid = cont[c].pid /\ k.hook = cont[c].hook
        /\ k.late = cont[c].late /\ k.kept = cont[c].kept /\ k.links = cont[c].links
    <3>1. PICK sd \in [Sides -> {"none", "running", "ending", "over"}] : sd = [cont[c].side EXCEPT ![x] = "ending"]
      BY <1>h DEF Container
    <3>2. k = [[cont[c] EXCEPT !.side = sd] EXCEPT !.clean = next] BY <2>k, <3>1
    <3>a. cont[c] \in Container BY <1>h
    <3>b. PICK j : j = [cont[c] EXCEPT !.side = sd] OBVIOUS
    <3>c. j \in Container BY <3>a, <3>b, <3>1 DEF Container
    <3>d. k = [j EXCEPT !.clean = next] BY <3>2, <3>b
    <3>3. k \in Container BY <3>1, <3>c, <3>d DEF Container
    <3> QED BY <1>h, <3>1, <3>2, <3>3 DEF Container
  <2>1. OrderInv(k) BY <1>h, <1>g, <2>f DEF Local, OrderInv
  <2>2. HookInv(k, mounts[cont[c].id], args[c]) BY <1>h, <1>g, <2>f, <1>2 DEF Local, HookInv, Sides, Container, Running
  <2>3. PathsInv(c, k, mounts[cont[c].id]) BY <1>h, <1>g, <2>f DEF Local, PathsInv
  <2>4. SweptInv(k, mounts[cont[c].id]) BY <1>h, <1>g, <2>f DEF Local, SweptInv, OrderInv, Sides, Container
  <2>5. cont' \in [Creates -> Container] /\ cont'[c] = k /\ \A e \in Creates \ {c} : cont'[e] = cont[e]
    BY <1>t, <2>e, <2>f
  <2>6. Local(c, cont'[c], mounts[cont[c].id], args[c]) BY <2>1, <2>2, <2>3, <2>4, <2>5 DEF Local
  <2>7. cont'[c].id = cont[c].id /\ cont'[c].create \notin {"idle", "refused"} BY <1>h, <2>f, <2>5
  <2> QED BY <1>n, <1>g, <2>5, <2>6, <2>7, OneStays
<1>3. CASE cont' = [cont EXCEPT ![c].clean = "stuck"]
  <2>k. PICK k : k = [cont[c] EXCEPT !.clean = "stuck"] OBVIOUS
  <2>e. cont' = [cont EXCEPT ![c] = k] BY <1>t, <2>k, <1>3
  <2>f. /\ k \in Container /\ k.clean = "stuck" /\ k.id = cont[c].id /\ k.create = cont[c].create
        /\ k.job = cont[c].job /\ k.proc = cont[c].proc /\ k.pid = cont[c].pid
        /\ k.hook = cont[c].hook /\ k.late = cont[c].late /\ k.kept = cont[c].kept /\ k.links = cont[c].links
        /\ k.side = cont[c].side
    BY <1>h, <1>g, <2>k DEF Container
  <2>1. OrderInv(k) BY <1>h, <1>g, <2>f DEF Local, OrderInv
  <2>2. HookInv(k, mounts[cont[c].id], args[c]) BY <1>h, <1>g, <2>f DEF Local, HookInv
  <2>3. PathsInv(c, k, mounts[cont[c].id]) BY <1>h, <1>g, <2>f DEF Local, PathsInv
  <2>4. SweptInv(k, mounts[cont[c].id]) BY <1>h, <1>g, <2>f DEF Local, SweptInv, OrderInv
  <2>5. cont' \in [Creates -> Container] /\ cont'[c] = k /\ \A e \in Creates \ {c} : cont'[e] = cont[e]
    BY <1>t, <2>e, <2>f
  <2>6. Local(c, cont'[c], mounts[cont[c].id], args[c]) BY <2>1, <2>2, <2>3, <2>4, <2>5 DEF Local
  <2>7. cont'[c].id = cont[c].id /\ cont'[c].create \notin {"idle", "refused"} BY <1>h, <2>f, <2>5
  <2> QED BY <1>n, <1>g, <2>5, <2>6, <2>7, OneStays
<1>4. ASSUME NEW e \in Creates, cont[e].id = cont[c].id, Running(e, x) PROVE e = c
  <2>1. Present(e) BY <1>4, AtWork DEF Running
  <2> QED BY <1>n, <1>4, <2>1, HasNumber
<1> QED BY <1>1, <1>2, <1>3, <1>4 DEF KillSide

\* The four mounts of create, in their order.
LEMMA CreateMountsStep ==
    ASSUME ContainersInv, NEW c \in Creates, CreateMounts(c)
    PROVE  ContainersInv'
<1>1. {"root", "data", "redis", "corex"} = Paths BY DEF Paths, Mounts
<1>2. CASE MountStep(c, "root", "data")
  <2>1. \A v \in Paths : "data" \in Pending(v) <=> v # "root" /\ "root" \in Pending(v) BY <1>1, PendingIs
  <2> QED BY <1>1, <1>2, <2>1, PendingIs, MountStepKeeps
<1>3. CASE MountStep(c, "data", "redis")
  <2>1. \A v \in Paths : "redis" \in Pending(v) <=> v # "data" /\ "data" \in Pending(v) BY <1>1, PendingIs
  <2> QED BY <1>1, <1>3, <2>1, PendingIs, MountStepKeeps
<1>4. CASE MountStep(c, "redis", "corex")
  <2>1. \A v \in Paths : "corex" \in Pending(v) <=> v # "redis" /\ "redis" \in Pending(v) BY <1>1, PendingIs
  <2> QED BY <1>1, <1>4, <2>1, PendingIs, MountStepKeeps
<1>5. CASE MountStep(c, "corex", "run")
  <2>1. \A v \in Paths : "run" \in Pending(v) <=> v # "corex" /\ "corex" \in Pending(v) BY <1>1, PendingIs
  <2> QED BY <1>1, <1>5, <2>1, PendingIs, MountStepKeeps
<1> QED BY <1>2, <1>3, <1>4, <1>5 DEF CreateMounts

\* A container gets its number, which is free.
LEMMA BeginNumbered ==
    ASSUME ContainersInv, NEW c \in Creates, Begin(c), args[c].valid, ~clash'
    PROVE  ContainersInv'
<1>g. cont[c].create = "idle" /\ UNCHANGED <<mounts, args, disp, by>> /\ sequence' = NextSequence
  BY DEF Begin
<1>n. ~Numbered(c) BY <1>g DEF Numbered
<1>t. cont \in [Creates -> Container] /\ mounts \in [Ids -> [Mounts -> Seq(Creates)]] /\ args[c] \in Args
  BY ContainersAssumption DEF ContainersInv, TypeOK
<1>i. PICK i : i = NextSequence OBVIOUS
<1>r. i \in Ids /\ \A e \in Creates : Present(e) => cont[e].id # i
  <2>1. sequence \in Ids BY DEF ContainersInv, TypeOK
  <2>2. i \in Ids BY <1>i, <2>1, ContainersAssumption DEF NextSequence, Ids
  <2> QED BY <1>i, <2>2 DEF Begin
<1>u. Untouched(cont[c]) BY <1>n DEF ContainersInv
<1>k. PICK k : k = [[cont[c] EXCEPT !.id = i] EXCEPT !.create = "root"] OBVIOUS
<1>e. cont' = [cont EXCEPT ![c] = k] BY <1>t, <1>i, <1>k DEF Begin
<1>f. /\ k \in Container /\ k.id = i /\ k.create = "root" /\ k.job = cont[c].job /\ k.proc = cont[c].proc
      /\ k.pid = cont[c].pid /\ k.hook = cont[c].hook /\ k.clean = cont[c].clean /\ k.late = cont[c].late /\ k.kept = cont[c].kept
      /\ k.links = cont[c].links /\ k.side = cont[c].side
  <2>1. cont[c] \in Container BY <1>t
  <2> QED BY <1>k, <1>r, <2>1 DEF Container
<1>m. \A w \in Mounts : mounts[i][w] = << >> BY <1>r DEF ContainersInv
<1>1. Local(c, k, mounts[i], args[c])
  <2>1. OrderInv(k) BY <1>f, <1>u DEF OrderInv, Untouched
  <2>2. HookInv(k, mounts[i], args[c]) BY <1>f, <1>u, <1>m DEF HookInv, Untouched, Mounts, Links, Paths
  <2>3. PathsInv(c, k, mounts[i])
    <3>1. \A w \in Paths : "root" \in Pending(w) BY PendingIs DEF Paths, Mounts
    <3>2. k.clean = "no" BY <1>f, <1>u DEF Untouched
    <3> QED BY <1>f, <1>m, <3>1, <3>2, PendingIs DEF PathsInv
  <2>4. SweptInv(k, mounts[i]) BY <1>f, <1>u DEF SweptInv, Untouched
  <2> QED BY <2>1, <2>2, <2>3, <2>4 DEF Local
<1>2. cont' \in [Creates -> Container] /\ cont'[c] = k /\ \A e \in Creates \ {c} : cont'[e] = cont[e]
  BY <1>t, <1>e, <1>f
<1>c. clash' \in BOOLEAN BY DEF Begin, ContainersInv, TypeOK
<1>3. TypeOK' BY <1>g, <1>i, <1>r, <1>2, <1>c DEF ContainersInv, TypeOK
<1>4. Numbered(c)' /\ \A e \in Creates \ {c} : Numbered(e)' <=> Numbered(e) BY <1>f, <1>2 DEF Numbered
<1>s. /\ \A e \in Creates \ {c} : Settled(e)' <=> Settled(e)
      /\ ~Settled(c) /\ ~Settled(c)'
  <2>1. \A e \in Creates \ {c} : Settled(e)' <=> Settled(e) BY <1>g, <1>2 DEF Settled, Gone, Running, Ending
  <2>2. ~Settled(c) BY <1>g, <1>u DEF Settled, Untouched
  <2>3. ~Settled(c)' BY <1>f, <1>u, <1>2 DEF Settled, Untouched
  <2> QED BY <2>1, <2>2, <2>3
<1>5. \A e \in Creates \ {c} : Present(e)' <=> Present(e) BY <1>4, <1>s DEF Present
<1>6. Present(c)' /\ ~Present(c) BY <1>n, <1>4, <1>s DEF Present
<1>7. NumbersInv'
  <2>1. ASSUME NEW b \in Creates, NEW e \in Creates, Present(b)', Present(e)', cont'[b].id = cont'[e].id PROVE b = e
    <3>1. CASE b # c /\ e # c
      <4>1. Present(b) /\ Present(e) /\ cont[b].id = cont[e].id BY <1>2, <1>5, <2>1, <3>1
      <4> QED BY <4>1 DEF ContainersInv, NumbersInv
    <3>2. CASE b = c \/ e = c
      <4>1. \A a \in Creates : a # c /\ Present(a)' => cont'[a].id # i BY <1>r, <1>2, <1>5
      <4> QED BY <1>f, <1>2, <2>1, <3>2, <4>1
    <3> QED BY <3>1, <3>2
  <2> QED BY <2>1 DEF NumbersInv
<1>8. \A e \in Creates : Numbered(e)' => OrderInv(cont'[e])
  <2>1. OrderInv(cont'[c]) BY <1>1, <1>2 DEF Local
  <2> QED BY <1>2, <1>4, <2>1 DEF ContainersInv
<1>9. ASSUME NEW e \in Creates, Present(e)' PROVE Local(e, cont'[e], mounts'[cont'[e].id], args'[e])
  <2>1. CASE e = c BY <1>g, <1>f, <1>1, <1>2, <2>1
  <2>2. CASE e # c
    <3>1. Present(e) /\ cont'[e] = cont[e] BY <1>2, <1>5, <1>9, <2>2
    <3>2. Local(e, cont[e], mounts[cont[e].id], args[e]) BY <3>1 DEF ContainersInv
    <3> QED BY <1>g, <3>1, <3>2
  <2> QED BY <2>1, <2>2
<1>10. \A e \in Creates : ~Numbered(e)' => Untouched(cont'[e]) BY <1>2, <1>4 DEF ContainersInv
<1>11. ASSUME NEW j \in Ids, \A e \in Creates : Present(e)' => cont'[e].id # j, NEW w \in Mounts PROVE mounts'[j][w] = << >>
  <2>1. \A e \in Creates : Present(e) => cont[e].id # j BY <1>2, <1>5, <1>6, <1>11
  <2> QED BY <1>g, <2>1 DEF ContainersInv
<1>12. (\A d \in Dispatches : disp[d] # "idle" => Numbered(Target[d]))'
  BY <1>g, <1>n, <1>4, ContainersAssumption DEF ContainersInv
<1>13. ServedInv' BY <1>g, <1>s, ContainersAssumption DEF ContainersInv, ServedInv
<1> QED BY <1>3, <1>7, <1>8, <1>9, <1>10, <1>11, <1>12, <1>13 DEF ContainersInv

\* Arguments that are refused.
LEMMA BeginRefused ==
    ASSUME ContainersInv, NEW c \in Creates, Begin(c), ~args[c].valid
    PROVE  ContainersInv'
<1>g. cont[c].create = "idle" /\ UNCHANGED <<sequence, clash, mounts, args, disp, by>>
  BY DEF Begin
<1>n. ~Numbered(c) BY <1>g DEF Numbered
<1>t. cont \in [Creates -> Container] /\ cont[c] \in Container BY DEF ContainersInv, TypeOK
<1>u. Untouched(cont[c]) BY <1>n DEF ContainersInv
<1>k. PICK k : k = [cont[c] EXCEPT !.create = "refused"] OBVIOUS
<1>e. cont' = [cont EXCEPT ![c] = k] BY <1>t, <1>k DEF Begin
<1>f. /\ k \in Container /\ k.create = "refused" /\ k.job = cont[c].job /\ k.proc = cont[c].proc
      /\ k.pid = cont[c].pid /\ k.hook = cont[c].hook /\ k.clean = cont[c].clean /\ k.late = cont[c].late /\ k.kept = cont[c].kept
      /\ k.links = cont[c].links /\ k.side = cont[c].side
  BY <1>t, <1>k DEF Container
<1>1. Untouched(k) BY <1>f, <1>u DEF Untouched
<1>2. cont' \in [Creates -> Container] /\ cont'[c] = k /\ \A e \in Creates \ {c} : cont'[e] = cont[e]
  BY <1>t, <1>e, <1>f
<1>3. TypeOK' BY <1>g, <1>2 DEF ContainersInv, TypeOK
<1>4. \A e \in Creates : Numbered(e)' <=> Numbered(e) BY <1>n, <1>f, <1>2 DEF Numbered
<1>s. /\ \A e \in Creates \ {c} : Settled(e)' <=> Settled(e)
      /\ ~Settled(c)
  <2>1. \A e \in Creates \ {c} : Settled(e)' <=> Settled(e) BY <1>g, <1>2 DEF Settled, Gone, Running, Ending
  <2>2. ~Settled(c) BY <1>g, <1>u DEF Settled, Untouched
  <2> QED BY <2>1, <2>2
<1>5. /\ \A e \in Creates : Present(e)' <=> Present(e)
      /\ \A e \in Creates : Present(e) => cont'[e] = cont[e]
  BY <1>n, <1>2, <1>4, <1>s DEF Present
<1>7. NumbersInv' BY <1>5 DEF ContainersInv, NumbersInv
<1>8. \A e \in Creates : Numbered(e)' => OrderInv(cont'[e]) BY <1>n, <1>2, <1>4 DEF ContainersInv
<1>9. \A e \in Creates : Present(e)' => Local(e, cont'[e], mounts'[cont'[e].id], args'[e])
  BY <1>g, <1>5 DEF ContainersInv
<1>10. \A e \in Creates : ~Numbered(e)' => Untouched(cont'[e]) BY <1>1, <1>2, <1>4 DEF ContainersInv
<1>11. ASSUME NEW j \in Ids, \A e \in Creates : Present(e)' => cont'[e].id # j, NEW w \in Mounts PROVE mounts'[j][w] = << >>
  <2>1. \A e \in Creates : Present(e) => cont[e].id # j BY <1>5, <1>11
  <2> QED BY <1>g, <2>1 DEF ContainersInv
<1>12. (\A d \in Dispatches : disp[d] # "idle" => Numbered(Target[d]))'
  BY <1>g, <1>4, ContainersAssumption DEF ContainersInv
<1>13. ServedInv' BY <1>g, <1>s, ContainersAssumption DEF ContainersInv, ServedInv
<1> QED BY <1>3, <1>7, <1>8, <1>9, <1>10, <1>11, <1>12, <1>13 DEF ContainersInv

\* A step of a dispatched command changes no container.
LEMMA OneDispatched ==
    ASSUME ContainersInv, UNCHANGED contVars,
           disp' \in [Dispatches -> {"idle", "checked", "queued", "taken", "result", "answered", "lost", "refused"}],
           by' \in [Dispatches -> Creates \cup {None}],
           \A d \in Dispatches : disp'[d] # "idle" => Numbered(Target[d]),
           \A d \in Dispatches : by'[d] \in {None, Target[d]} \/ Settled(Target[d])
    PROVE  ContainersInv'
<1>1. UNCHANGED <<args, sequence, clash, cont, mounts>> BY DEF contVars
<1>2. TypeOK' BY <1>1 DEF ContainersInv, TypeOK
<1>3. \A e \in Creates : (Numbered(e)' <=> Numbered(e)) /\ (Settled(e)' <=> Settled(e))
  BY <1>1 DEF Numbered, Settled, Gone, Running, Ending
<1>4. \A e \in Creates : Present(e)' <=> Present(e) BY <1>3 DEF Present
<1>5. NumbersInv' BY <1>1, <1>4 DEF ContainersInv, NumbersInv
<1>6. \A e \in Creates : Numbered(e)' => OrderInv(cont'[e]) BY <1>1, <1>3 DEF ContainersInv
<1>7. \A e \in Creates : Present(e)' => Local(e, cont'[e], mounts'[cont'[e].id], args'[e]) BY <1>1, <1>4 DEF ContainersInv
<1>8. \A e \in Creates : ~Numbered(e)' => Untouched(cont'[e]) BY <1>1, <1>3 DEF ContainersInv
<1>9. \A i \in Ids : (\A c \in Creates : Present(c)' => cont'[c].id # i) => \A w \in Mounts : mounts'[i][w] = << >>
  BY <1>1, <1>4 DEF ContainersInv
<1>10. (\A d \in Dispatches : disp[d] # "idle" => Numbered(Target[d]))'
  BY <1>3, ContainersAssumption
<1>11. ServedInv' BY <1>3, ContainersAssumption DEF ServedInv
<1> QED BY <1>2, <1>5, <1>6, <1>7, <1>8, <1>9, <1>10, <1>11 DEF ContainersInv

\* What dispatch and coreX do to a command.
LEMMA DispatchSteps ==
    ASSUME ContainersInv, NEW d \in Dispatches,
           DispatchCheck(d) \/ DispatchStep(d)
    PROVE  ContainersInv'
<1>t. /\ disp \in [Dispatches -> {"idle", "checked", "queued", "taken", "result", "answered", "lost", "refused"}]
      /\ by \in [Dispatches -> Creates \cup {None}]
      /\ \A b \in Dispatches : disp[b] # "idle" => Numbered(Target[b])
      /\ \A b \in Dispatches : by[b] \in {None, Target[b]} \/ Settled(Target[b])
      /\ Target[d] \in Creates
  BY ContainersAssumption DEF ContainersInv, TypeOK, ServedInv
<1>1. ASSUME NEW v \in {"idle", "checked", "queued", "taken", "result", "answered", "lost", "refused"},
             disp' = [disp EXCEPT ![d] = v], UNCHANGED <<contVars, by>>, Numbered(Target[d])
      PROVE  ContainersInv'
  <2>1. \A b \in Dispatches : disp'[b] # "idle" => Numbered(Target[b]) BY <1>t, <1>1
  <2> QED BY <1>t, <1>1, <2>1, OneDispatched
<1>2. CASE DispatchCheck(d) BY <1>1, <1>2 DEF DispatchCheck
<1>3. CASE DispatchPush(d)
  <2>1. disp[d] = "checked" BY <1>3 DEF DispatchPush
  <2> QED BY <1>t, <1>1, <1>3, <2>1 DEF DispatchPush
<1>4. ASSUME NEW c \in Creates, CoreXTakes(c, d) PROVE ContainersInv'
  <2>1. disp[d] = "queued" /\ cont[c].proc = "alive" /\ cont[c].id = cont[Target[d]].id BY <1>4 DEF CoreXTakes
  <2>2. Present(c) /\ Numbered(Target[d]) BY <1>t, <2>1, AtWork
  <2>3. c = Target[d] \/ Settled(Target[d]) BY <1>t, <2>1, <2>2, HasNumber DEF Present
  <2>4. UNCHANGED contVars /\ disp' = [disp EXCEPT ![d] = "taken"] /\ by' = [by EXCEPT ![d] = c]
    BY <1>4 DEF CoreXTakes
  <2>5. \A b \in Dispatches : disp'[b] # "idle" => Numbered(Target[b]) BY <1>t, <2>2, <2>4
  <2>6. \A b \in Dispatches : by'[b] \in {None, Target[b]} \/ Settled(Target[b]) BY <1>t, <2>3, <2>4
  <2> QED BY <1>t, <2>4, <2>5, <2>6, OneDispatched
<1>5. CASE CoreXAnswers(d)
  <2>1. disp[d] = "taken" BY <1>5 DEF CoreXAnswers
  <2> QED BY <1>t, <1>1, <1>5, <2>1 DEF CoreXAnswers
<1>6. CASE ForwardNext(d)
  <2>1. disp[d] = "result" BY <1>6 DEF ForwardNext
  <2> QED BY <1>t, <1>1, <1>6, <2>1 DEF ForwardNext
<1> QED BY <1>2, <1>3, <1>4, <1>5, <1>6 DEF DispatchStep

\* onpid, with postStart.
LEMMA HookSteps ==
    ASSUME ContainersInv, NEW c \in Creates, HookStep(c)
    PROVE  ContainersInv'
<1>1. CASE OnPid(c) BY <1>1, OnPidStep
<1>2. CASE Namespace(c) BY <1>2, NamespaceStep
<1>3. CASE ZeroTierStep(c) BY <1>3, ZeroTierStepKeeps
<1>4. CASE SkipBridge(c) BY <1>4, SkipBridgeStep
<1>5. CASE LinkAdd(c, "bridge", "bridging")
  <2>1. "bridge" \in Links BY DEF Links
  <2> QED BY <1>5, <2>1, LinkAddStep
<1>6. CASE LinkSetUp(c, "bridging", "bridge", "default")
  <2>1. "bridge" \in Links BY DEF Links
  <2> QED BY <1>6, <2>1, LinkSetUpStep
<1>7. CASE LinkAdd(c, "default", "defaulting")
  <2>1. "default" \in Links BY DEF Links
  <2> QED BY <1>7, <2>1, LinkAddStep
<1>8. CASE LinkSetUp(c, "defaulting", "default", "fwd")
  <2>1. "default" \in Links BY DEF Links
  <2> QED BY <1>8, <2>1, LinkSetUpStep
<1>9. CASE PortForwards(c) BY <1>9, PortForwardsStep
<1> QED BY <1>1, <1>2, <1>3, <1>4, <1>5, <1>6, <1>7, <1>8, <1>9 DEF HookStep

\* cleanup.
LEMMA CleanSteps ==
    ASSUME ContainersInv, NEW c \in Creates, CleanStep(c)
    PROVE  ContainersInv'
<1>1. CASE KillSide(c, "fwd", "fwd", "links")
  <2>1. "fwd" \in Sides BY DEF Sides
  <2> QED BY <1>1, <2>1, KillSideStep
<1>2. CASE CleanLinks(c) BY <1>2, CleanLinksStep
<1>3. CASE KillSide(c, "net", "net", "ns")
  <2>1. "net" \in Sides BY DEF Sides
  <2> QED BY <1>3, <2>1, KillSideStep
<1>4. CASE CleanNs(c) BY <1>4, CleanNsStep
<1>5. CASE CleanMounts(c) BY <1>5, CleanMountsStep
<1> QED BY <1>1, <1>2, <1>3, <1>4, <1>5 DEF CleanStep

\* Every step of one container.
LEMMA CreateSteps ==
    ASSUME ContainersInv, NEW c \in Creates, ~clash',
           \/ Begin(c) \/ CreateFails(c) \/ CoreXExits(c) \/ Terminate(c) \/ ExitSeen(c)
           \/ \E x \in Sides : SideEnds(c, x) \/ SideLeaves(c, x)
           \/ CreateStep(c) \/ RunnerStep(c) \/ HookStep(c) \/ CleanStep(c)
    PROVE  ContainersInv'
<1>1. CASE Begin(c) BY <1>1, BeginNumbered, BeginRefused
<1>2. CASE CreateFails(c) BY <1>2, CreateFailsStep
<1>3. CASE CoreXExits(c) BY <1>3, CoreXExitsStep
<1>4. CASE Terminate(c) BY <1>4, TerminateStep
<1>5. CASE \E x \in Sides : SideEnds(c, x) BY <1>5, SideEndsStep
<1>6. CASE \E x \in Sides : SideLeaves(c, x) BY <1>6, SideLeavesStep
<1>7. CASE CreateStep(c) BY <1>7, CreateMountsStep, NewRunnerStep DEF CreateStep
<1>8. CASE RunnerStep(c) BY <1>8, SpawnStep, OnExitStep, CleanUpStep DEF RunnerStep
<1>9. CASE HookStep(c) BY <1>9, HookSteps
<1>10. CASE CleanStep(c) BY <1>10, CleanSteps
<1>11. CASE ExitSeen(c) BY <1>11, ExitSeenStep
<1> QED BY <1>11, <1>1, <1>2, <1>3, <1>4, <1>5, <1>6, <1>7, <1>8, <1>9, <1>10

\* At the start no container has a number and nothing is mounted.
LEMMA ContainersStart ==
    ASSUME Init
    PROVE  ContainersInv
<1>1. SeqSize \in Nat \ {0} BY ContainersAssumption
<1>2. sequence = 0 /\ 0 \in Ids BY <1>1 DEF Init, Ids
<1>3. \A i \in Ids, w \in Mounts : mounts[i][w] = << >> BY DEF Init
<1>4. << >> \in Seq(Creates) OBVIOUS
<1>5. mounts \in [Ids -> [Mounts -> Seq(Creates)]] BY <1>4 DEF Init
<1>6. cont \in [Creates -> Container] /\ \A c \in Creates : cont[c].create = "idle" /\ Untouched(cont[c])
  BY <1>2 DEF Init, Container, Untouched, Links, Sides
<1>7. disp \in [Dispatches -> {"idle", "checked", "queued", "taken", "result", "answered", "lost", "refused"}]
      /\ by \in [Dispatches -> Creates \cup {None}]
  BY DEF Init
<1>8. TypeOK BY <1>2, <1>5, <1>6, <1>7 DEF TypeOK, Init
<1>9. \A c \in Creates : ~Numbered(c) BY <1>6 DEF Numbered
<1>10. \A c \in Creates : ~Present(c) BY <1>9 DEF Present
<1>12. NumbersInv BY <1>10 DEF NumbersInv
<1>13. \A d \in Dispatches : disp[d] = "idle" /\ by[d] = None BY DEF Init
<1>14. ServedInv BY <1>13 DEF ServedInv
<1> QED BY <1>3, <1>6, <1>8, <1>9, <1>10, <1>12, <1>13, <1>14 DEF ContainersInv

\* A step that changes nothing.
LEMMA ContainersRest ==
    ASSUME ContainersInv, UNCHANGED vars
    PROVE  ContainersInv'
<1>1. UNCHANGED contVars /\ disp' = disp /\ by' = by BY DEF vars, contVars
<1>2. /\ disp \in [Dispatches -> {"idle", "checked", "queued", "taken", "result", "answered", "lost", "refused"}]
      /\ by \in [Dispatches -> Creates \cup {None}]
      /\ \A d \in Dispatches : disp[d] # "idle" => Numbered(Target[d])
      /\ \A d \in Dispatches : by[d] \in {None, Target[d]} \/ Settled(Target[d])
  BY DEF ContainersInv, TypeOK, ServedInv
<1> QED BY <1>1, <1>2, OneDispatched

\* What a step of a container that has a number leaves alone.
LEMMA OthersStay ==
    ASSUME NEW c \in Creates,
           \/ CreateFails(c) \/ CoreXExits(c) \/ Terminate(c) \/ ExitSeen(c)
           \/ \E x \in Sides : SideEnds(c, x) \/ SideLeaves(c, x)
           \/ CreateStep(c) \/ RunnerStep(c) \/ HookStep(c) \/ CleanStep(c)
    PROVE  UNCHANGED <<clash, disp, by>>
<1>1. CASE CreateFails(c) BY <1>1 DEF CreateFails, otherVars
<1>2. CASE CoreXExits(c) BY <1>2 DEF CoreXExits, otherVars
<1>3. CASE Terminate(c) \/ ExitSeen(c) BY <1>3 DEF Terminate, ExitSeen, otherVars
<1>4. CASE \E x \in Sides : SideEnds(c, x) \/ SideLeaves(c, x) BY <1>4 DEF SideEnds, SideLeaves, otherVars
<1>5. CASE CreateStep(c) BY <1>5 DEF CreateStep, CreateMounts, MountStep, NewRunner, otherVars
<1>6. CASE RunnerStep(c) BY <1>6 DEF RunnerStep, Spawn, OnExit, CleanUp, otherVars
<1>7. CASE HookStep(c)
  BY <1>7 DEF HookStep, OnPid, Namespace, ZeroTierStep, SkipBridge, LinkAdd, LinkSetUp, PortForwards, otherVars
<1>8. CASE CleanStep(c) BY <1>8 DEF CleanStep, KillSide, CleanLinks, CleanNs, CleanMounts, otherVars
<1> QED BY <1>1, <1>2, <1>3, <1>4, <1>5, <1>6, <1>7, <1>8

\* What was a clash stays one.
LEMMA ClashStays ==
    ASSUME clash, [Next]_vars
    PROVE  clash'
<1>1. ASSUME NEW c \in Creates, Begin(c) PROVE clash' BY <1>1 DEF Begin
<1>2. ASSUME NEW d \in Dispatches, DispatchCheck(d) \/ DispatchStep(d) PROVE clash'
  BY <1>2 DEF DispatchCheck, DispatchStep, DispatchPush, CoreXTakes, CoreXAnswers, ForwardNext, contVars
<1>3. CASE UNCHANGED vars BY <1>3 DEF vars
<1> QED BY <1>1, <1>2, <1>3, OthersStay DEF Next, Progress, Killed

-----------------------------------------------------------------------------
\* As long as no number was given that was not free, the numbers, the order of the
\* goroutines and the resources of the containers are in step, whatever creates, hooks,
\* clean-ups and dispatches do at the same time (manager.go, container.go).
THEOREM ContainersInvariance == Spec => [](clash \/ ContainersInv)
<1>1. Init => ContainersInv BY ContainersStart
<1>2. (clash \/ ContainersInv) /\ [Next]_vars => (clash \/ ContainersInv)'
  <2> SUFFICES ASSUME clash \/ ContainersInv, [Next]_vars, ~clash' PROVE ContainersInv' OBVIOUS
  <2>0. ContainersInv BY ClashStays
  <2>1. ASSUME NEW c \in Creates,
               \/ Begin(c) \/ CreateFails(c) \/ CoreXExits(c) \/ Terminate(c) \/ ExitSeen(c)
               \/ \E x \in Sides : SideEnds(c, x)
        PROVE  ContainersInv'
    BY <2>0, <2>1, CreateSteps
  <2>2. CASE \E d \in Dispatches : DispatchCheck(d) BY <2>0, <2>2, DispatchSteps
  <2>3. ASSUME NEW c \in Creates,
               \/ CreateStep(c) \/ RunnerStep(c) \/ HookStep(c) \/ CleanStep(c) \/ Killed(c)
               \/ \E x \in Sides : SideLeaves(c, x)
        PROVE  ContainersInv'
    BY <2>0, <2>3, CreateSteps DEF Killed
  <2>4. CASE \E d \in Dispatches : DispatchStep(d) BY <2>0, <2>4, DispatchSteps
  <2>5. CASE UNCHANGED vars BY <2>0, <2>5, ContainersRest
  <2> QED BY <2>1, <2>2, <2>3, <2>4, <2>5 DEF Next, Progress
<1> QED BY <1>1, <1>2, PTL DEF Spec

\* As long as coreX lives, what it lives on is mounted at its paths, for it: no other create
\* mounts over them and no other clean-up unmounts them, the ones of an earlier container
\* with its number included, if that number was free (container.go).
THEOREM ContainersRootIntact == Spec => []RootIntact
<1>1. clash \/ ContainersInv => RootIntact
  <2> SUFFICES ASSUME ContainersInv, NEW c \in Creates, cont[c].proc = "alive", NEW w \in Paths
               PROVE  mounts[cont[c].id][w] # << >> /\ Last(mounts[cont[c].id][w]) = c
    BY DEF RootIntact
  <2>1. Present(c) BY AtWork
  <2>2. Local(c, cont[c], mounts[cont[c].id], args[c]) BY <2>1, HasNumber
  <2>3. cont[c].create = "created" /\ cont[c].clean = "no" BY <2>2 DEF Local, OrderInv
  <2>4. w \in Paths /\ "created" \notin Pending(w) BY PendingIs DEF Paths, Mounts
  <2>5. mounts[cont[c].id][w] = <<c>> BY <2>2, <2>3, <2>4 DEF Local, PathsInv
  <2> QED BY <2>5 DEF Last
<1> QED BY <1>1, ContainersInvariance, PTL

\* Nothing is mounted for a container at the paths of another, or for one that is settled.
LEMMA NotMounted ==
    ASSUME ContainersInv, NEW c \in Creates, NEW i \in Ids, ~Present(c) \/ cont[c].id # i, NEW w \in Mounts
    PROVE  c \notin ToSet(mounts[i][w])
<1>1. CASE \A e \in Creates : Present(e) => cont[e].id # i
  <2>1. mounts[i][w] = << >> BY <1>1 DEF ContainersInv
  <2> QED BY <2>1, OneIsIn
<1>2. CASE \E e \in Creates : Present(e) /\ cont[e].id = i
  <2>1. PICK e \in Creates : Present(e) /\ cont[e].id = i BY <1>2
  <2>2. e # c BY <2>1
  <2>3. PathsInv(e, cont[e], mounts[cont[e].id]) BY <2>1, HasNumber DEF Local
  <2>4. mounts[i][w] \in {<< >>, <<e>>} BY <2>1, <2>3 DEF PathsInv
  <2> QED BY <2>2, <2>4, OneIsIn
<1> QED BY <1>1, <1>2

\* A container that was cleaned up leaves no mounts, no namespace and no link to a bridge of
\* its own but those the kernel refused to remove, and no helper that runs, unless onpid
\* was still setting it up when cleanup began or its number was not free
\* (container.go:125, 135-180).
THEOREM ContainersCleanedUp == Spec => []CleanedUp
<1>1. clash \/ ContainersInv => CleanedUp
  <2> SUFFICES ASSUME ContainersInv, NEW c \in Creates, cont[c].clean = "over", ~cont[c].late
               PROVE  /\ \A i \in Ids, w \in Mounts : c \in ToSet(mounts[i][w]) => w \in cont[c].kept
                      /\ cont[c].links["bridge"] = "no" \/ "bridge" \in cont[c].kept
                      /\ cont[c].links["default"] = "moved" => "ns" \in cont[c].kept
                      /\ \A x \in Sides : ~Running(c, x)
    BY DEF CleanedUp
  <2>0. Numbered(c) BY DEF ContainersInv, Untouched
  <2>1. CASE Present(c)
    <3>1. SweptInv(cont[c], mounts[cont[c].id]) /\ PathsInv(c, cont[c], mounts[cont[c].id]) BY <2>1, HasNumber DEF Local
    <3>2. /\ cont[c].links["bridge"] = "no" \/ "bridge" \in cont[c].kept
          /\ "ns" \notin cont[c].kept => mounts[cont[c].id]["ns"] = << >> /\ cont[c].links["default"] # "moved"
          /\ cont[c].side["fwd"] # "running" /\ cont[c].side["net"] # "running"
      BY <3>1 DEF SweptInv
    <3>3. \A w \in Paths : w \notin cont[c].kept => mounts[cont[c].id][w] = << >> BY <3>1 DEF PathsInv
    <3>4. \A w \in Mounts : w \notin cont[c].kept => mounts[cont[c].id][w] = << >> BY <3>2, <3>3 DEF Mounts
    <3>5. ASSUME NEW i \in Ids, NEW w \in Mounts, w \notin cont[c].kept PROVE c \notin ToSet(mounts[i][w])
      <4>1. CASE i = cont[c].id BY <3>4, <3>5, <4>1, OneIsIn
      <4>2. CASE i # cont[c].id BY <4>2, NotMounted
      <4> QED BY <4>1, <4>2
    <3> QED BY <3>2, <3>5 DEF Sides, Running
  <2>2. CASE Settled(c)
    <3>1. ~Present(c) BY <2>2 DEF Present
    <3>2. \A i \in Ids, w \in Mounts : c \notin ToSet(mounts[i][w]) BY <3>1, NotMounted
    <3>3. Gone(c) BY <2>2 DEF Settled
    <3>4. cont[c].links["bridge"] = "no" /\ cont[c].links["default"] = "no" BY <3>3 DEF Gone, Links
    <3> QED BY <3>2, <3>3, <3>4 DEF Gone
  <2> QED BY <2>0, <2>1, <2>2 DEF Present
<1> QED BY <1>1, ContainersInvariance, PTL

\* A command that dispatch pushed to the queue of a container is run by that container, or
\* after it has left its number: the queue of a number outlives it (manager.go).
THEOREM ContainersRightContainer == Spec => []RightContainer
<1>1. clash \/ ContainersInv => RightContainer BY DEF ContainersInv, ServedInv, RightContainer
<1> QED BY <1>1, ContainersInvariance, PTL

-----------------------------------------------------------------------------
(* Containers implements ContainerLife. *)

\* Two records of a container are at the same point of its life.
Same(k, j) ==
    k.id = j.id /\ k.create = j.create /\ k.job = j.job /\ k.proc = j.proc /\ k.clean = j.clean

\* Nothing happens in the life of any container.
LEMMA LifeRests ==
    ASSUME \A e \in Creates : cont'[e].id = cont[e].id /\ LifeOf(cont'[e]) = LifeOf(cont[e]),
           \A e \in Creates : \A w \in Paths : mounts'[cont[e].id][w] = mounts[cont[e].id][w],
           by' = by
    PROVE  UNCHANGED Life!lifeVars
<1>1. lives' = lives BY DEF lives
<1>2. numbers' = numbers BY DEF numbers
<1>3. \A e \in Creates : Held(e, mounts'[cont'[e].id]) = Held(e, mounts[cont[e].id]) BY DEF Held
<1>4. holdings' = holdings BY <1>3 DEF holdings
<1> QED BY <1>1, <1>2, <1>4 DEF Life!lifeVars

\* One container is at another point of its life, and nothing is mounted or unmounted.
LEMMA LifeMoves ==
    ASSUME NEW c \in Creates, NEW k, cont \in [Creates -> Container], cont' = [cont EXCEPT ![c] = k],
           k.id = cont[c].id, UNCHANGED <<mounts, by>>
    PROVE  /\ lives' = [lives EXCEPT ![c] = LifeOf(k)] /\ numbers' = numbers /\ holdings' = holdings /\ by' = by
<1>1. cont'[c] = k /\ \A e \in Creates : e # c => cont'[e] = cont[e] OBVIOUS
<1>2. numbers' = numbers BY <1>1 DEF numbers
<1>3. lives' = [lives EXCEPT ![c] = LifeOf(k)] BY <1>1 DEF lives
<1>4. holdings' = holdings BY <1>1 DEF holdings
<1> QED BY <1>2, <1>3, <1>4

\* A step that leaves container c where it is, and its mounts.
LEMMA SameRests ==
    ASSUME ContainersInv, NEW c \in Creates, NEW k, cont' = [cont EXCEPT ![c] = k], Same(k, cont[c]),
           UNCHANGED <<mounts, by>>
    PROVE  UNCHANGED Life!lifeVars
<1>1. cont \in [Creates -> Container] BY DEF ContainersInv, TypeOK
<1>2. cont'[c] = k /\ \A e \in Creates : e # c => cont'[e] = cont[e] BY <1>1
<1>3. LifeOf(k) = LifeOf(cont[c]) /\ k.id = cont[c].id BY DEF Same, LifeOf
<1>4. \A e \in Creates : cont'[e].id = cont[e].id /\ LifeOf(cont'[e]) = LifeOf(cont[e]) BY <1>2, <1>3
<1> QED BY <1>4, LifeRests

\* What is mounted for a container.
LEMMA HeldIs ==
    ASSUME NEW c \in Creates, NEW m, \A w \in Paths : m[w] \in {<< >>, <<c>>}
    PROVE  Held(c, m) = {w \in Paths : m[w] = <<c>>}
<1>1. ToSet(<< >>) = {} /\ ToSet(<<c>>) = {c} BY DEF ToSet
<1>2. \A w \in Paths : c \in ToSet(m[w]) <=> m[w] = <<c>> BY <1>1
<1> QED BY <1>2 DEF Held

\* In the same way for the paths of coreX.
LEMMA HeldNot ==
    ASSUME ContainersInv, NEW c \in Creates, NEW i \in Ids, ~Present(c) \/ cont[c].id # i
    PROVE  Held(c, mounts[i]) = {}
<1>1. \A w \in Paths : w \in Mounts BY PendingIs
<1>2. \A w \in Paths : c \notin ToSet(mounts[i][w]) BY <1>1, NotMounted
<1> QED BY <1>2 DEF Held

\* The set-up after the start, and the helpers, change neither the life nor the mounts.
LEMMA HookRests ==
    ASSUME ContainersInv, NEW c \in Creates,
           \/ OnPid(c) \/ ZeroTierStep(c) \/ SkipBridge(c) \/ PortForwards(c)
           \/ \E l \in Links, next \in {"bridging", "defaulting"} : LinkAdd(c, l, next)
           \/ \E at \in {"bridging", "defaulting"}, l \in Links, next \in {"default", "fwd"} : LinkSetUp(c, at, l, next)
           \/ \E x \in Sides : SideEnds(c, x) \/ SideLeaves(c, x)
    PROVE  UNCHANGED Life!lifeVars
<1>t. cont \in [Creates -> Container] /\ cont[c] \in Container BY DEF ContainersInv, TypeOK
<1>r. cont[c].links \in [Links -> {"no", "host", "moved"}] /\ cont[c].side \in [Sides -> {"none", "running", "ending", "over"}]
  BY <1>t DEF Container
<1>1. ASSUME NEW h, NEW p, cont' = [cont EXCEPT ![c].pid = p, ![c].hook = h], UNCHANGED <<mounts, by>>
      PROVE  UNCHANGED Life!lifeVars
  <2>1. PICK k : k = [[cont[c] EXCEPT !.pid = p] EXCEPT !.hook = h] OBVIOUS
  <2>2. cont' = [cont EXCEPT ![c] = k] BY <1>1, <1>t, <2>1
  <2>3. Same(k, cont[c]) BY <1>t, <2>1 DEF Same, Container
  <2> QED BY <1>1, <2>2, <2>3, SameRests
<1>2. ASSUME NEW h, cont' = [cont EXCEPT ![c].hook = h], UNCHANGED <<mounts, by>>
      PROVE  UNCHANGED Life!lifeVars
  <2>1. PICK k : k = [cont[c] EXCEPT !.hook = h] OBVIOUS
  <2>2. cont' = [cont EXCEPT ![c] = k] BY <1>2, <1>t, <2>1
  <2>3. Same(k, cont[c]) BY <1>t, <2>1 DEF Same, Container
  <2> QED BY <1>2, <2>2, <2>3, SameRests
<1>3. ASSUME NEW h, NEW x, NEW v, cont' = [cont EXCEPT ![c].hook = h, ![c].side[x] = v], UNCHANGED <<mounts, by>>
      PROVE  UNCHANGED Life!lifeVars
  <2>1. PICK k : k = [[cont[c] EXCEPT !.hook = h] EXCEPT !.side = [cont[c].side EXCEPT ![x] = v]] OBVIOUS
  <2>2. cont' = [cont EXCEPT ![c] = k] BY <1>3, <1>t, <2>1
  <2>3. Same(k, cont[c]) BY <1>t, <2>1 DEF Same, Container
  <2> QED BY <1>3, <2>2, <2>3, SameRests
<1>4. ASSUME NEW h, NEW x, NEW v, cont' = [cont EXCEPT ![c].hook = h, ![c].links[x] = v], UNCHANGED <<mounts, by>>
      PROVE  UNCHANGED Life!lifeVars
  <2>1. PICK k : k = [[cont[c] EXCEPT !.hook = h] EXCEPT !.links = [cont[c].links EXCEPT ![x] = v]] OBVIOUS
  <2>2. cont' = [cont EXCEPT ![c] = k] BY <1>4, <1>t, <2>1
  <2>3. Same(k, cont[c]) BY <1>t, <2>1 DEF Same, Container
  <2> QED BY <1>4, <2>2, <2>3, SameRests
<1>5. ASSUME NEW x, NEW v, cont' = [cont EXCEPT ![c].side[x] = v], UNCHANGED <<mounts, by>>
      PROVE  UNCHANGED Life!lifeVars
  <2>1. PICK k : k = [cont[c] EXCEPT !.side = [cont[c].side EXCEPT ![x] = v]] OBVIOUS
  <2>2. cont' = [cont EXCEPT ![c] = k] BY <1>5, <1>t, <2>1
  <2>3. Same(k, cont[c]) BY <1>t, <2>1 DEF Same, Container
  <2> QED BY <1>5, <2>2, <2>3, SameRests
<1>6. CASE OnPid(c) BY <1>1, <1>6 DEF OnPid, otherVars
<1>7. CASE SkipBridge(c) BY <1>2, <1>7 DEF SkipBridge, otherVars
<1>8. CASE ZeroTierStep(c)
  <2>1. \/ cont' = [cont EXCEPT ![c].hook = "bridge"] \/ cont' = [cont EXCEPT ![c].hook = "over"]
        \/ cont' = [cont EXCEPT ![c].hook = "bridge", ![c].side["net"] = "running"]
    BY <1>8 DEF ZeroTierStep
  <2>2. UNCHANGED <<mounts, by>> BY <1>8 DEF ZeroTierStep, otherVars
  <2> QED BY <1>2, <1>3, <2>1, <2>2
<1>9. CASE PortForwards(c)
  <2>1. \/ cont' = [cont EXCEPT ![c].hook = "over", ![c].side["fwd"] = "running"]
        \/ cont' = [cont EXCEPT ![c].hook = "over"]
    BY <1>9 DEF PortForwards
  <2>2. UNCHANGED <<mounts, by>> BY <1>9 DEF PortForwards, otherVars
  <2> QED BY <1>2, <1>3, <2>1, <2>2
<1>10. ASSUME NEW l \in Links, NEW next \in {"bridging", "defaulting"}, LinkAdd(c, l, next) PROVE UNCHANGED Life!lifeVars
  <2>1. \/ cont' = [cont EXCEPT ![c].hook = next, ![c].links[l] = "host"]
        \/ cont' = [cont EXCEPT ![c].hook = "over"]
    BY <1>10 DEF LinkAdd
  <2>2. UNCHANGED <<mounts, by>> BY <1>10 DEF LinkAdd, otherVars
  <2> QED BY <1>2, <1>4, <2>1, <2>2
<1>11. ASSUME NEW at \in {"bridging", "defaulting"}, NEW l \in Links, NEW next \in {"default", "fwd"}, LinkSetUp(c, at, l, next)
       PROVE  UNCHANGED Life!lifeVars
  <2>1. \/ \E then \in {next, "over"} : cont' = [cont EXCEPT ![c].hook = then, ![c].links[l] = "moved"]
        \/ cont' = [cont EXCEPT ![c].hook = "over"]
    BY <1>11 DEF LinkSetUp
  <2>2. UNCHANGED <<mounts, by>> BY <1>11 DEF LinkSetUp, otherVars
  <2> QED BY <1>2, <1>4, <2>1, <2>2
<1>12. ASSUME NEW x \in Sides, SideEnds(c, x) \/ SideLeaves(c, x) PROVE UNCHANGED Life!lifeVars
  <2>1. \E v : cont' = [cont EXCEPT ![c].side[x] = v] BY <1>12 DEF SideEnds, SideLeaves
  <2>2. UNCHANGED <<mounts, by>> BY <1>12 DEF SideEnds, SideLeaves, otherVars
  <2> QED BY <1>5, <2>1, <2>2
<1> QED BY <1>6, <1>7, <1>8, <1>9, <1>10, <1>11, <1>12

\* A container at one point of its life, whatever it does there.
LEMMA OneRests ==
    ASSUME ContainersInv, NEW c \in Creates, NEW k, cont' = [cont EXCEPT ![c] = k], k.id = cont[c].id,
           LifeOf(k) = LifeOf(cont[c]), by' = by,
           \A i \in Ids : \A w \in Paths : mounts'[i][w] = mounts[i][w]
    PROVE  UNCHANGED Life!lifeVars
<1>1. cont \in [Creates -> Container] BY DEF ContainersInv, TypeOK
<1>2. cont'[c] = k /\ \A e \in Creates : e # c => cont'[e] = cont[e] BY <1>1
<1>4. \A e \in Creates : cont'[e].id = cont[e].id /\ LifeOf(cont'[e]) = LifeOf(cont[e]) BY <1>2
<1>5. \A e \in Creates : cont[e].id \in Ids BY <1>1 DEF Container
<1> QED BY <1>4, <1>5, LifeRests

\* The end of coreX goes on.
LEMMA EndRests ==
    ASSUME ContainersInv, NEW c \in Creates,
           Terminate(c) \/ ExitSeen(c) \/ OnExit(c) \/ CleanUp(c) \/ CleanLinks(c)
    PROVE  UNCHANGED Life!lifeVars
<1>t. cont \in [Creates -> Container] /\ cont[c] \in Container BY DEF ContainersInv, TypeOK
<1>n. Present(c) BY AtWork DEF Terminate, ExitSeen, OnExit, CleanUp, CleanLinks
<1>o. OrderInv(cont[c]) /\ cont[c].create \notin {"idle", "refused"} BY <1>n, HasNumber DEF Local, Numbered
<1>m. UNCHANGED <<mounts, by>> BY DEF Terminate, ExitSeen, OnExit, CleanUp, CleanLinks, otherVars
<1>1. CASE Terminate(c)
  <2>1. PICK k : k = [cont[c] EXCEPT !.job = "drain"] OBVIOUS
  <2>2. cont' = [cont EXCEPT ![c] = k] BY <1>1, <1>t, <2>1 DEF Terminate
  <2>3. /\ k.id = cont[c].id /\ k.create = cont[c].create /\ k.clean = cont[c].clean /\ k.proc = cont[c].proc
        /\ k.job = "drain" /\ cont[c].job = "select"
    BY <1>1, <1>t, <2>1 DEF Container, Terminate
  <2>4. LifeOf(k) = LifeOf(cont[c]) BY <2>3 DEF LifeOf
  <2> QED BY <1>m, <2>2, <2>3, <2>4, OneRests
<1>2. CASE ExitSeen(c)
  <2>1. PICK k : k = [cont[c] EXCEPT !.job = "exit"] OBVIOUS
  <2>2. cont' = [cont EXCEPT ![c] = k] BY <1>2, <1>t, <2>1 DEF ExitSeen
  <2>3. /\ k.id = cont[c].id /\ k.create = cont[c].create /\ k.clean = cont[c].clean /\ k.proc = cont[c].proc
        /\ cont[c].proc = "dead"
    BY <1>2, <1>t, <2>1 DEF Container, ExitSeen
  <2>4. LifeOf(k) = LifeOf(cont[c]) BY <2>3 DEF LifeOf
  <2> QED BY <1>m, <2>2, <2>3, <2>4, OneRests
<1>3. CASE OnExit(c)
  <2>0. PICK b : b = (cont[c].hook \notin {"none", "over"}) OBVIOUS
  <2>1. PICK k : k = [[cont[c] EXCEPT !.clean = "fwd"] EXCEPT !.late = b] OBVIOUS
  <2>2. cont' = [cont EXCEPT ![c] = k] BY <1>3, <1>t, <2>0, <2>1 DEF OnExit
  <2>3. /\ k.id = cont[c].id /\ k.create = cont[c].create /\ k.job = cont[c].job /\ k.proc = cont[c].proc
        /\ cont[c].clean = "no" /\ k.clean = "fwd"
    BY <1>3, <1>t, <2>1 DEF Container, OnExit
  <2>4. LifeOf(k) = LifeOf(cont[c]) BY <2>3 DEF LifeOf
  <2> QED BY <1>m, <2>2, <2>3, <2>4, OneRests
<1>4. CASE CleanUp(c)
  <2>1. PICK k : k = [cont[c] EXCEPT !.job = "over"] OBVIOUS
  <2>2. cont' = [cont EXCEPT ![c] = k] BY <1>4, <1>t, <2>1 DEF CleanUp
  <2>3. /\ k.id = cont[c].id /\ k.create = cont[c].create /\ k.clean = cont[c].clean /\ k.proc = cont[c].proc
        /\ cont[c].clean = "over"
    BY <1>4, <1>t, <2>1 DEF Container, CleanUp
  <2>4. LifeOf(k) = LifeOf(cont[c]) BY <2>3 DEF LifeOf
  <2> QED BY <1>m, <2>2, <2>3, <2>4, OneRests
<1>5. CASE CleanLinks(c)
  <2>1. PICK k : cont' = [cont EXCEPT ![c] = k] /\ k.id = cont[c].id /\ k.create = cont[c].create
                 /\ k.job = cont[c].job /\ k.proc = cont[c].proc /\ k.clean = "net"
    <3>1. CASE cont' = [cont EXCEPT ![c].clean = "net", ![c].links["bridge"] = IF args[c].bridge THEN "no" ELSE @]
      <4>1. PICK k : k = [[cont[c] EXCEPT !.clean = "net"] EXCEPT !.links = [cont[c].links EXCEPT !["bridge"] = IF args[c].bridge THEN "no" ELSE @]] OBVIOUS
      <4>2. cont' = [cont EXCEPT ![c] = k] BY <1>t, <3>1, <4>1
      <4>3. k.id = cont[c].id /\ k.create = cont[c].create /\ k.job = cont[c].job /\ k.proc = cont[c].proc /\ k.clean = "net"
        BY <1>t, <4>1 DEF Container
      <4> QED BY <4>2, <4>3
    <3>2. CASE cont' = [cont EXCEPT ![c].clean = "net", ![c].kept = @ \cup {"bridge"}]
      <4>1. PICK k : k = [[cont[c] EXCEPT !.clean = "net"] EXCEPT !.kept = cont[c].kept \cup {"bridge"}] OBVIOUS
      <4>2. cont' = [cont EXCEPT ![c] = k] BY <1>t, <3>2, <4>1
      <4>3. k.id = cont[c].id /\ k.create = cont[c].create /\ k.job = cont[c].job /\ k.proc = cont[c].proc /\ k.clean = "net"
        BY <1>t, <4>1 DEF Container
      <4> QED BY <4>2, <4>3
    <3> QED BY <1>5, <3>1, <3>2 DEF CleanLinks
  <2>2. cont[c].clean = "links" BY <1>5 DEF CleanLinks
  <2>3. LifeOf(k) = LifeOf(cont[c]) BY <2>1, <2>2 DEF LifeOf
  <2> QED BY <1>m, <2>1, <2>3, OneRests
<1> QED BY <1>1, <1>2, <1>3, <1>4, <1>5

\* A runner is made: there is none with its number.
LEMMA NewRunnerRests ==
    ASSUME ContainersInv, NEW c \in Creates, NewRunner(c)
    PROVE  UNCHANGED Life!lifeVars
<1>t. cont \in [Creates -> Container] /\ cont[c] \in Container BY DEF ContainersInv, TypeOK
<1>g. cont[c].create = "run" BY DEF NewRunner
<1>n. Present(c) BY <1>g, AtWork
<1>o. OrderInv(cont[c]) /\ \A e \in Creates : Present(e) /\ cont[e].id = cont[c].id => e = c
  BY <1>n, HasNumber DEF Local
<1>j. cont[c].job = "none" /\ cont[c].proc = "none" /\ cont[c].clean = "no" BY <1>g, <1>o, <1>t DEF OrderInv, Container
<1>1. ~CoreFiled(cont[c].id) BY <1>o, <1>j, AtWork DEF CoreFiled
<1>2. PICK k : k = [[cont[c] EXCEPT !.create = "created"] EXCEPT !.job = "filed"] OBVIOUS
<1>3. cont' = [cont EXCEPT ![c] = k] BY <1>1, <1>t, <1>2 DEF NewRunner
<1>4. /\ k.id = cont[c].id /\ k.create = "created" /\ k.job = "filed" /\ k.proc = cont[c].proc /\ k.clean = cont[c].clean
  BY <1>t, <1>2 DEF Container
<1>5. LifeOf(k) = LifeOf(cont[c]) BY <1>g, <1>j, <1>4 DEF LifeOf
<1>6. UNCHANGED <<mounts, by>> BY DEF NewRunner, otherVars
<1> QED BY <1>3, <1>4, <1>5, <1>6, OneRests

\* The mount that keeps the namespace is none of the paths of coreX.
LEMMA NsIsNoPath ==
    ASSUME ContainersInv, NEW i \in Ids, NEW s, mounts' = [mounts EXCEPT ![i]["ns"] = s]
    PROVE  \A j \in Ids : \A w \in Paths : mounts'[j][w] = mounts[j][w]
<1>1. mounts \in [Ids -> [Mounts -> Seq(Creates)]] BY DEF ContainersInv, TypeOK
<1>2. \A w \in Paths : w # "ns" /\ w \in Mounts BY DEF Paths, Mounts
<1> QED BY <1>1, <1>2

LEMMA NamespaceRests ==
    ASSUME ContainersInv, NEW c \in Creates, Namespace(c)
    PROVE  UNCHANGED Life!lifeVars
<1>t. cont \in [Creates -> Container] /\ cont[c] \in Container /\ cont[c].id \in Ids BY DEF ContainersInv, TypeOK, Container
<1>1. PICK h : cont' = [cont EXCEPT ![c].hook = h] BY DEF Namespace
<1>2. PICK k : k = [cont[c] EXCEPT !.hook = h] OBVIOUS
<1>3. cont' = [cont EXCEPT ![c] = k] BY <1>1, <1>t, <1>2
<1>4. Same(k, cont[c]) BY <1>t, <1>2 DEF Same, Container
<1>5. k.id = cont[c].id /\ LifeOf(k) = LifeOf(cont[c]) BY <1>4 DEF Same, LifeOf
<1>6. by' = by BY DEF Namespace, otherVars
<1>7. \A i \in Ids : \A w \in Paths : mounts'[i][w] = mounts[i][w]
  <2>1. CASE UNCHANGED mounts BY <2>1
  <2>2. CASE Mount(c, "ns") BY <1>t, <2>2, NsIsNoPath DEF Mount
  <2> QED BY <2>1, <2>2 DEF Namespace
<1> QED BY <1>3, <1>5, <1>6, <1>7, OneRests

LEMMA CleanNsRests ==
    ASSUME ContainersInv, NEW c \in Creates, CleanNs(c)
    PROVE  UNCHANGED Life!lifeVars
<1>t. cont \in [Creates -> Container] /\ cont[c] \in Container /\ cont[c].id \in Ids BY DEF ContainersInv, TypeOK, Container
<1>g. cont[c].clean = "ns" BY DEF CleanNs
<1>1. PICK k : cont' = [cont EXCEPT ![c] = k] /\ k.id = cont[c].id /\ k.create = cont[c].create
               /\ k.job = cont[c].job /\ k.proc = cont[c].proc /\ k.clean = "mounts"
  <2>1. CASE cont' = [cont EXCEPT ![c].clean = "mounts", ![c].links = WithoutNamespace(@)]
    <3>1. PICK k : k = [[cont[c] EXCEPT !.clean = "mounts"] EXCEPT !.links = WithoutNamespace(cont[c].links)] OBVIOUS
    <3>2. cont' = [cont EXCEPT ![c] = k] BY <1>t, <2>1, <3>1
    <3>3. k.id = cont[c].id /\ k.create = cont[c].create /\ k.job = cont[c].job /\ k.proc = cont[c].proc /\ k.clean = "mounts"
      BY <1>t, <3>1 DEF Container
    <3> QED BY <3>2, <3>3
  <2>2. CASE cont' = [cont EXCEPT ![c].clean = "mounts", ![c].kept = @ \cup {"ns"}]
    <3>1. PICK k : k = [[cont[c] EXCEPT !.clean = "mounts"] EXCEPT !.kept = cont[c].kept \cup {"ns"}] OBVIOUS
    <3>2. cont' = [cont EXCEPT ![c] = k] BY <1>t, <2>2, <3>1
    <3>3. k.id = cont[c].id /\ k.create = cont[c].create /\ k.job = cont[c].job /\ k.proc = cont[c].proc /\ k.clean = "mounts"
      BY <1>t, <3>1 DEF Container
    <3> QED BY <3>2, <3>3
  <2>3. CASE cont' = [cont EXCEPT ![c].clean = "mounts"]
    <3>1. PICK k : k = [cont[c] EXCEPT !.clean = "mounts"] OBVIOUS
    <3>2. cont' = [cont EXCEPT ![c] = k] BY <1>t, <2>3, <3>1
    <3>3. k.id = cont[c].id /\ k.create = cont[c].create /\ k.job = cont[c].job /\ k.proc = cont[c].proc /\ k.clean = "mounts"
      BY <1>t, <3>1 DEF Container
    <3> QED BY <3>2, <3>3
  <2> QED BY <2>1, <2>2, <2>3 DEF CleanNs
<1>2. LifeOf(k) = LifeOf(cont[c]) BY <1>g, <1>1 DEF LifeOf
<1>3. by' = by BY DEF CleanNs, otherVars
<1>4. \A i \in Ids : \A w \in Paths : mounts'[i][w] = mounts[i][w]
  <2>1. CASE UNCHANGED mounts BY <2>1
  <2>2. CASE mounts' = [mounts EXCEPT ![cont[c].id]["ns"] = Popped(@)]
    <3>1. mounts \in [Ids -> [Mounts -> Seq(Creates)]] BY DEF ContainersInv, TypeOK
    <3>2. PICK s : s = Popped(mounts[cont[c].id]["ns"]) OBVIOUS
    <3>3. mounts' = [mounts EXCEPT ![cont[c].id]["ns"] = s] BY <1>t, <2>2, <3>1, <3>2
    <3> QED BY <1>t, <3>3, NsIsNoPath
  <2> QED BY <2>1, <2>2 DEF CleanNs
<1> QED BY <1>1, <1>2, <1>3, <1>4, OneRests

\* Helpers are killed.
LEMMA KillSideRests ==
    ASSUME ContainersInv, NEW c \in Creates, NEW at \in {"fwd", "net"}, NEW x \in Sides,
           NEW next \in {"links", "ns"}, KillSide(c, at, x, next)
    PROVE  UNCHANGED Life!lifeVars
<1>t. cont \in [Creates -> Container] /\ cont[c] \in Container BY DEF ContainersInv, TypeOK
<1>g. cont[c].clean = at BY DEF KillSide
<1>m. UNCHANGED <<mounts, by>> BY DEF KillSide, otherVars
<1>n. Present(c) BY <1>g, AtWork
<1>o. \A e \in Creates : Present(e) /\ cont[e].id = cont[c].id => e = c BY <1>n, HasNumber
<1>1. \E v \in {next, "stuck"} : \/ cont' = [cont EXCEPT ![c].clean = v]
                                \/ cont' = [cont EXCEPT ![c].side[x] = "ending", ![c].clean = v]
  <2>1. ASSUME NEW e \in Creates, cont[e].id = cont[c].id, Running(e, x) PROVE e = c
    <3>1. Present(e) BY <2>1, AtWork DEF Running
    <3> QED BY <1>o, <2>1, <3>1
  <2> QED BY <2>1 DEF KillSide
<1>2. PICK v \in {next, "stuck"} : \/ cont' = [cont EXCEPT ![c].clean = v]
                                   \/ cont' = [cont EXCEPT ![c].side[x] = "ending", ![c].clean = v]
  BY <1>1
<1>3. PICK k : cont' = [cont EXCEPT ![c] = k] /\ k.id = cont[c].id /\ k.create = cont[c].create
               /\ k.job = cont[c].job /\ k.proc = cont[c].proc /\ k.clean = v
  <2>1. CASE cont' = [cont EXCEPT ![c].clean = v]
    <3>1. PICK k : k = [cont[c] EXCEPT !.clean = v] OBVIOUS
    <3>2. cont' = [cont EXCEPT ![c] = k] BY <1>t, <2>1, <3>1
    <3>3. k.id = cont[c].id /\ k.create = cont[c].create /\ k.job = cont[c].job /\ k.proc = cont[c].proc /\ k.clean = v
      BY <1>t, <3>1 DEF Container
    <3> QED BY <3>2, <3>3
  <2>2. CASE cont' = [cont EXCEPT ![c].side[x] = "ending", ![c].clean = v]
    <3>1. PICK k : k = [[cont[c] EXCEPT !.side = [cont[c].side EXCEPT ![x] = "ending"]] EXCEPT !.clean = v] OBVIOUS
    <3>2. cont' = [cont EXCEPT ![c] = k] BY <1>t, <2>2, <3>1
    <3>3. k.id = cont[c].id /\ k.create = cont[c].create /\ k.job = cont[c].job /\ k.proc = cont[c].proc /\ k.clean = v
      BY <1>t, <3>1 DEF Container
    <3> QED BY <3>2, <3>3
  <2> QED BY <1>2, <2>1, <2>2
<1>4. LifeOf(k) = LifeOf(cont[c]) BY <1>g, <1>3 DEF LifeOf
<1> QED BY <1>m, <1>3, <1>4, OneRests

\* Create fails at a mount, coreX cannot be started, or it ends.
LEMMA LifeEnds ==
    ASSUME ContainersInv, NEW c \in Creates, NEW k, cont' = [cont EXCEPT ![c] = k], k.id = cont[c].id,
           UNCHANGED <<mounts, by>>, LifeOf(cont[c]) \in {"building", "live"}, LifeOf(k) = "ending"
    PROVE  Life!LifeNext
<1>1. cont \in [Creates -> Container] BY DEF ContainersInv, TypeOK
<1>2. lives' = [lives EXCEPT ![c] = "ending"] /\ numbers' = numbers /\ holdings' = holdings /\ by' = by
  BY <1>1, LifeMoves
<1>3. lives[c] \in {"building", "live"} BY DEF lives
<1>4. Life!End(c) BY <1>2, <1>3 DEF Life!End
<1> QED BY <1>4 DEF Life!LifeNext

LEMMA CreateFailsEnds ==
    ASSUME ContainersInv, NEW c \in Creates, CreateFails(c)
    PROVE  Life!LifeNext
<1>t. cont \in [Creates -> Container] /\ cont[c] \in Container BY DEF ContainersInv, TypeOK
<1>g. cont[c].create \in {"root", "data", "redis", "corex"} /\ UNCHANGED <<mounts, by>> BY DEF CreateFails, otherVars
<1>n. Present(c) BY <1>g, AtWork
<1>o. OrderInv(cont[c]) BY <1>n, HasNumber DEF Local
<1>j. cont[c].job = "none" /\ cont[c].proc = "none" /\ cont[c].clean = "no" BY <1>g, <1>o, <1>t DEF OrderInv, Container
<1>1. PICK k : k = [[cont[c] EXCEPT !.create = "failed"] EXCEPT !.clean = "fwd"] OBVIOUS
<1>2. cont' = [cont EXCEPT ![c] = k] BY <1>t, <1>1 DEF CreateFails
<1>3. k.id = cont[c].id /\ k.create = "failed" /\ k.clean = "fwd" /\ k.proc = cont[c].proc BY <1>t, <1>1 DEF Container
<1>4. LifeOf(cont[c]) = "building" BY <1>g, <1>j DEF LifeOf
<1>5. LifeOf(k) = "ending" BY <1>j, <1>3 DEF LifeOf
<1> QED BY <1>g, <1>2, <1>3, <1>4, <1>5, LifeEnds

LEMMA CoreXExitsEnds ==
    ASSUME ContainersInv, NEW c \in Creates, CoreXExits(c)
    PROVE  Life!LifeNext
<1>t. cont \in [Creates -> Container] /\ cont[c] \in Container BY DEF ContainersInv, TypeOK
<1>g. cont[c].proc = "alive" /\ UNCHANGED <<mounts, by>> BY DEF CoreXExits, otherVars
<1>n. Present(c) BY <1>g, AtWork
<1>o. OrderInv(cont[c]) /\ cont[c].create \notin {"idle", "refused"} BY <1>n, HasNumber DEF Local, Numbered
<1>j. cont[c].clean = "no" BY <1>g, <1>o, <1>t DEF OrderInv, Container
<1>1. PICK k : k = [[cont[c] EXCEPT !.proc = "dead"] EXCEPT !.links = IF mounts[cont[c].id]["ns"] = << >> THEN WithoutNamespace(cont[c].links) ELSE cont[c].links] OBVIOUS
<1>2. cont' = [cont EXCEPT ![c] = k] BY <1>t, <1>1 DEF CoreXExits
<1>3. k.id = cont[c].id /\ k.create = cont[c].create /\ k.clean = cont[c].clean /\ k.proc = "dead" BY <1>t, <1>1 DEF Container
<1>4. LifeOf(cont[c]) = "live" BY <1>g, <1>j, <1>o DEF LifeOf
<1>5. LifeOf(k) = "ending" BY <1>j, <1>o, <1>3 DEF LifeOf
<1> QED BY <1>g, <1>2, <1>3, <1>4, <1>5, LifeEnds

\* coreX is started when everything is mounted.
LEMMA SpawnStarts ==
    ASSUME ContainersInv, NEW c \in Creates, Spawn(c)
    PROVE  Life!LifeNext
<1>t. cont \in [Creates -> Container] /\ cont[c] \in Container BY DEF ContainersInv, TypeOK
<1>g. cont[c].job = "filed" /\ UNCHANGED <<mounts, by>> BY DEF Spawn, otherVars
<1>n. Present(c) BY <1>g, AtWork
<1>o. OrderInv(cont[c]) /\ PathsInv(c, cont[c], mounts[cont[c].id]) BY <1>n, HasNumber DEF Local
<1>j. cont[c].create = "created" /\ cont[c].proc = "none" /\ cont[c].clean = "no" BY <1>g, <1>o, <1>t DEF OrderInv, Container
<1>b. LifeOf(cont[c]) = "building" BY <1>g, <1>j DEF LifeOf
<1>1. CASE cont' = [cont EXCEPT ![c].job = "select", ![c].proc = "alive", ![c].hook = "begin"]
  <2>1. PICK k : k = [[[cont[c] EXCEPT !.job = "select"] EXCEPT !.proc = "alive"] EXCEPT !.hook = "begin"] OBVIOUS
  <2>2. cont' = [cont EXCEPT ![c] = k] BY <1>t, <1>1, <2>1
  <2>3. k.id = cont[c].id /\ k.create = cont[c].create /\ k.clean = cont[c].clean /\ k.proc = "alive" BY <1>t, <2>1 DEF Container
  <2>4. LifeOf(k) = "live" BY <1>j, <2>3 DEF LifeOf
  <2>l. lives' = [lives EXCEPT ![c] = LifeOf(k)] /\ numbers' = numbers /\ holdings' = holdings /\ by' = by
    BY <1>g, <1>t, <2>2, <2>3, LifeMoves
  <2>5. lives' = [lives EXCEPT ![c] = "live"] /\ numbers' = numbers /\ holdings' = holdings /\ by' = by
    BY <2>4, <2>l
  <2>6. \A w \in Paths : mounts[cont[c].id][w] = <<c>> BY <1>j, <1>o, PendingIs DEF PathsInv
  <2>7. Held(c, mounts[cont[c].id]) = Paths BY <2>6, HeldIs
  <2>8. lives[c] = "building" /\ holdings[c] = Paths BY <1>b, <2>7 DEF lives, holdings
  <2>9. Life!Start(c) BY <2>5, <2>8 DEF Life!Start
  <2> QED BY <2>9 DEF Life!LifeNext
<1>2. CASE cont' = [cont EXCEPT ![c].job = "exit"]
  <2>1. PICK k : k = [cont[c] EXCEPT !.job = "exit"] OBVIOUS
  <2>2. cont' = [cont EXCEPT ![c] = k] BY <1>t, <1>2, <2>1
  <2>3. k.id = cont[c].id /\ k.create = cont[c].create /\ k.clean = cont[c].clean /\ k.proc = cont[c].proc /\ k.job = "exit"
    BY <1>t, <2>1 DEF Container
  <2>4. LifeOf(k) = "ending" BY <1>j, <2>3 DEF LifeOf
  <2> QED BY <1>b, <1>g, <2>2, <2>3, <2>4, LifeEnds
<1> QED BY <1>1, <1>2 DEF Spawn

\* What changes at the paths of a container is its own.
LEMMA OthersHold ==
    ASSUME ContainersInv, NEW c \in Creates, Present(c), NEW k,
           cont' = [cont EXCEPT ![c] = k], k.id = cont[c].id,
           \A i \in Ids \ {cont[c].id} : mounts'[i] = mounts[i],
           \A w \in Paths : mounts'[cont[c].id][w] \in {<< >>, <<c>>}
    PROVE  /\ lives' = [lives EXCEPT ![c] = LifeOf(k)] /\ numbers' = numbers
           /\ holdings' = [holdings EXCEPT ![c] = Held(c, mounts'[cont[c].id])]
<1>t. cont \in [Creates -> Container] BY DEF ContainersInv, TypeOK
<1>1. cont'[c] = k /\ \A e \in Creates : e # c => cont'[e] = cont[e] BY <1>t
<1>2. numbers' = numbers BY <1>1 DEF numbers
<1>3. lives' = [lives EXCEPT ![c] = LifeOf(k)]
  <2>1. \A e \in Creates : lives'[e] = IF e = c THEN LifeOf(k) ELSE lives[e] BY <1>1 DEF lives
  <2> QED BY <2>1 DEF lives
<1>4. ASSUME NEW e \in Creates, e # c PROVE Held(e, mounts'[cont'[e].id]) = Held(e, mounts[cont[e].id])
  <2>0. cont[e].id \in Ids /\ cont[c].id \in Ids /\ cont'[e] = cont[e] BY <1>1, <1>4, <1>t DEF Container
  <2>1. CASE cont[e].id # cont[c].id BY <2>0, <2>1
  <2>2. CASE cont[e].id = cont[c].id
    <3>1. ~Present(e) BY <1>4, <2>2, HasNumber
    <3>3. Held(e, mounts[cont[e].id]) = {} BY <2>0, <3>1, HeldNot
    <3>6. \A w \in Paths : mounts'[cont'[e].id][w] \in {<< >>, <<c>>} BY <2>0, <2>2
    <3>7. ToSet(<< >>) = {} /\ ToSet(<<c>>) = {c} BY DEF ToSet
    <3>8. Held(e, mounts'[cont'[e].id]) = {} BY <1>4, <3>6, <3>7 DEF Held
    <3> QED BY <3>3, <3>8
  <2> QED BY <2>1, <2>2
<1>5. holdings' = [holdings EXCEPT ![c] = Held(c, mounts'[cont[c].id])]
  <2>1. \A e \in Creates : holdings'[e] = IF e = c THEN Held(c, mounts'[cont[c].id]) ELSE holdings[e]
    BY <1>1, <1>4 DEF holdings
  <2> QED BY <2>1 DEF holdings
<1> QED BY <1>2, <1>3, <1>5

\* One of the paths is mounted.
LEMMA MountMounts ==
    ASSUME ContainersInv, NEW c \in Creates, NEW w \in Paths,
           NEW next \in {"data", "redis", "corex", "run"}, MountStep(c, w, next)
    PROVE  Life!LifeNext
<1>t. cont \in [Creates -> Container] /\ cont[c] \in Container /\ cont[c].id \in Ids BY DEF ContainersInv, TypeOK, Container
<1>g. cont[c].create = w /\ by' = by /\ w \in {"root", "data", "redis", "corex"} /\ w \in Mounts
  BY PendingIs DEF MountStep, otherVars
<1>n. Present(c) BY <1>g, AtWork
<1>o. OrderInv(cont[c]) /\ PathsInv(c, cont[c], mounts[cont[c].id]) BY <1>n, HasNumber DEF Local
<1>j. cont[c].job = "none" /\ cont[c].proc = "none" /\ cont[c].clean = "no" BY <1>g, <1>o, <1>t DEF OrderInv, Container
<1>1. PICK k : k = [cont[c] EXCEPT !.create = next] OBVIOUS
<1>2. cont' = [cont EXCEPT ![c] = k] BY <1>t, <1>1 DEF MountStep
<1>3. k.id = cont[c].id /\ k.create = next /\ k.clean = cont[c].clean /\ k.proc = cont[c].proc /\ k.job = cont[c].job
  BY <1>t, <1>1 DEF Container
<1>4. LifeOf(cont[c]) = "building" /\ LifeOf(k) = "building" BY <1>g, <1>j, <1>3 DEF LifeOf
<1>5. cont'[c] = k BY <1>t, <1>2
<1>7. mounts \in [Ids -> [Mounts -> Seq(Creates)]] BY DEF ContainersInv, TypeOK
<1>8. mounts' = [mounts EXCEPT ![cont[c].id][w] = Append(mounts[cont[c].id][w], c)] BY DEF MountStep, Mount
<1>9. \A i \in Ids \ {cont[c].id} : mounts'[i] = mounts[i] BY <1>7, <1>8
<1>11. PICK m, n : m = mounts[cont[c].id] /\ n = mounts'[cont[c].id] OBVIOUS
<1>12. m[w] = << >> BY <1>g, <1>o, <1>11, PendingIs DEF PathsInv
<1>13. n[w] = <<c>> /\ \A v \in Paths : v # w => n[v] = m[v]
  <2>1. m[w] \in Seq(Creates) /\ n = [m EXCEPT ![w] = Append(m[w], c)] BY <1>g, <1>t, <1>7, <1>8, <1>11
  <2>2. n[w] = Append(<< >>, c) BY <1>g, <1>t, <1>7, <1>11, <1>12, <2>1
  <2>3. \A v \in Paths : v # w => n[v] = m[v] BY <1>t, <1>7, <1>11, <2>1 DEF Paths, Mounts
  <2> QED BY <2>2, <2>3, OneMounted
<1>14. \A v \in Paths : m[v] \in {<< >>, <<c>>} /\ n[v] \in {<< >>, <<c>>}
  BY <1>o, <1>11, <1>13 DEF PathsInv, Paths, Mounts
<1>6. \A v \in Paths : mounts'[cont[c].id][v] \in {<< >>, <<c>>} BY <1>11, <1>14
<1>l. /\ lives' = [lives EXCEPT ![c] = LifeOf(k)] /\ numbers' = numbers
      /\ holdings' = [holdings EXCEPT ![c] = Held(c, mounts'[cont[c].id])]
  BY <1>n, <1>2, <1>3, <1>6, <1>9, OthersHold
<1>10. /\ lives' = [lives EXCEPT ![c] = "building"] /\ numbers' = numbers
       /\ holdings' = [holdings EXCEPT ![c] = Held(c, mounts'[cont[c].id])]
  BY <1>4, <1>l
<1>15. Held(c, m) = {v \in Paths : m[v] = <<c>>} /\ Held(c, n) = {v \in Paths : n[v] = <<c>>} BY <1>14, HeldIs
<1>a. <<c>> # << >> OBVIOUS
<1>16. Held(c, n) = Held(c, m) \cup {w} /\ w \notin Held(c, m) BY <1>12, <1>13, <1>15, <1>a
<1>17. lives[c] = "building" /\ holdings[c] = Held(c, m) BY <1>4, <1>11 DEF lives, holdings
<1>18. lives' = lives
  <2>1. lives = [e \in Creates |-> lives[e]] BY DEF lives
  <2> QED BY <1>10, <1>17, <2>1
<1>19. Life!Mount(c) BY <1>g, <1>10, <1>11, <1>16, <1>17, <1>18 DEF Life!Mount
<1> QED BY <1>19 DEF Life!LifeNext

\* The paths are unmounted, all in one step, but those that the kernel keeps.
LEMMA CleanMountsRemoves ==
    ASSUME ContainersInv, NEW c \in Creates, CleanMounts(c)
    PROVE  Life!LifeNext
<1>t. cont \in [Creates -> Container] /\ cont[c] \in Container /\ cont[c].id \in Ids BY DEF ContainersInv, TypeOK, Container
<1>g. cont[c].clean = "mounts" /\ by' = by BY DEF CleanMounts, otherVars
<1>n. Present(c) BY <1>g, AtWork
<1>o. OrderInv(cont[c]) /\ PathsInv(c, cont[c], mounts[cont[c].id]) /\ cont[c].create \notin {"idle", "refused"}
  BY <1>n, HasNumber DEF Local
<1>j. cont[c].proc # "alive" /\ (cont[c].create = "failed" \/ cont[c].job = "exit" \/ cont[c].job = "over")
  BY <1>g, <1>o, <1>t DEF OrderInv, Container
<1>q. PICK refused \in SUBSET {w \in Busy[c] \cap Paths : mounts[cont[c].id][w] # << >>} :
             /\ mounts' = [mounts EXCEPT ![cont[c].id] = UnmountAll(@, refused)]
             /\ cont' = [cont EXCEPT ![c].clean = "over", ![c].kept = @ \cup refused]
  BY DEF CleanMounts
<1>1. PICK k : k = [[cont[c] EXCEPT !.clean = "over"] EXCEPT !.kept = cont[c].kept \cup refused] OBVIOUS
<1>2. cont' = [cont EXCEPT ![c] = k] BY <1>t, <1>1, <1>q
<1>3. k.id = cont[c].id /\ k.create = cont[c].create /\ k.clean = "over" BY <1>t, <1>1 DEF Container
<1>4. LifeOf(k) = "gone" BY <1>o, <1>3 DEF LifeOf
<1>5. LifeOf(cont[c]) = "ending" BY <1>g, <1>o, <1>j DEF LifeOf
<1>8. mounts \in [Ids -> [Mounts -> Seq(Creates)]] BY DEF ContainersInv, TypeOK
<1>9. \A i \in Ids \ {cont[c].id} : mounts'[i] = mounts[i] BY <1>8, <1>q
<1>m. PICK m, n : m = mounts[cont[c].id] /\ n = mounts'[cont[c].id] OBVIOUS
<1>p. m \in [Mounts -> Seq(Creates)] /\ \A w \in Mounts : m[w] \in {<< >>, <<c>>} BY <1>8, <1>m, <1>o, <1>t DEF PathsInv
<1>a. \A v \in Paths : v \in Mounts BY PendingIs
<1>b. n = UnmountAll(m, refused) BY <1>8, <1>m, <1>q, <1>t
<1>d. \A v \in Paths : n[v] = IF v \in refused THEN m[v] ELSE << >> BY <1>a, <1>b, <1>p, AllUnmounted
<1>e. \A v \in Paths : m[v] \in {<< >>, <<c>>} /\ n[v] \in {<< >>, <<c>>} BY <1>a, <1>d, <1>p
<1>f. \A v \in Paths : mounts'[cont[c].id][v] \in {<< >>, <<c>>} BY <1>e, <1>m
<1>l. /\ lives' = [lives EXCEPT ![c] = LifeOf(k)] /\ numbers' = numbers
      /\ holdings' = [holdings EXCEPT ![c] = Held(c, mounts'[cont[c].id])]
  BY <1>n, <1>2, <1>3, <1>9, <1>f, OthersHold
<1>10. /\ lives' = [lives EXCEPT ![c] = "gone"] /\ numbers' = numbers
       /\ holdings' = [holdings EXCEPT ![c] = Held(c, n)]
  BY <1>4, <1>l, <1>m
<1>11. Held(c, m) = {v \in Paths : m[v] = <<c>>} /\ Held(c, n) = {v \in Paths : n[v] = <<c>>} BY <1>e, HeldIs
<1>12. Held(c, n) \in SUBSET (Held(c, m) \cap Busy[c]) BY <1>d, <1>11, <1>q, OneIsIn
<1>13. lives[c] = "ending" /\ holdings[c] = Held(c, m) BY <1>5, <1>m DEF lives, holdings
<1>14. Life!Remove(c) BY <1>g, <1>10, <1>12, <1>13 DEF Life!Remove
<1> QED BY <1>14 DEF Life!LifeNext

\* Arguments that are refused.
LEMMA BeginRefuses ==
    ASSUME ContainersInv, NEW c \in Creates, Begin(c), ~args[c].valid
    PROVE  Life!LifeNext
<1>t. cont \in [Creates -> Container] /\ cont[c] \in Container BY DEF ContainersInv, TypeOK
<1>g. cont[c].create = "idle" /\ UNCHANGED <<mounts, by>> BY DEF Begin, otherVars
<1>1. PICK k : k = [cont[c] EXCEPT !.create = "refused"] OBVIOUS
<1>2. cont' = [cont EXCEPT ![c] = k] BY <1>t, <1>1 DEF Begin
<1>3. k.id = cont[c].id /\ k.create = "refused" BY <1>t, <1>1 DEF Container
<1>4. LifeOf(k) = "refused" /\ LifeOf(cont[c]) = "none" BY <1>g, <1>3 DEF LifeOf
<1>5. lives' = [lives EXCEPT ![c] = LifeOf(k)] /\ numbers' = numbers /\ holdings' = holdings /\ by' = by
  BY <1>g, <1>t, <1>2, <1>3, LifeMoves
<1>6. lives' = [lives EXCEPT ![c] = "refused"] BY <1>4, <1>5
<1>7. lives[c] = "none" BY <1>4 DEF lives
<1>8. Life!Refuse(c) BY <1>5, <1>6, <1>7 DEF Life!Refuse
<1> QED BY <1>8 DEF Life!LifeNext

\* A container gets a number that no other has, and finds nothing at its paths.
LEMMA BeginCreates ==
    ASSUME ContainersInv, NEW c \in Creates, Begin(c), args[c].valid, ~clash'
    PROVE  Life!LifeNext
<1>t. cont \in [Creates -> Container] /\ cont[c] \in Container /\ cont[c].id \in Ids BY DEF ContainersInv, TypeOK, Container
<1>g. cont[c].create = "idle" /\ UNCHANGED <<mounts, by>> BY DEF Begin, otherVars
<1>n. ~Numbered(c) /\ ~Present(c) BY <1>g DEF Numbered, Present
<1>u. Untouched(cont[c]) BY <1>n DEF ContainersInv
<1>i. PICK i \in Ids : i = NextSequence /\ \A e \in Creates : Present(e) => cont[e].id # i
  <2>1. sequence \in Ids BY DEF ContainersInv, TypeOK
  <2>2. NextSequence \in Ids BY <2>1, ContainersAssumption DEF NextSequence, Ids
  <2> QED BY <2>2 DEF Begin
<1>k. PICK k : k = [[cont[c] EXCEPT !.id = i] EXCEPT !.create = "root"] OBVIOUS
<1>1. cont' = [cont EXCEPT ![c] = k] BY <1>t, <1>i, <1>k DEF Begin
<1>2. k.id = i /\ k.create = "root" /\ k.job = cont[c].job /\ k.proc = cont[c].proc /\ k.clean = cont[c].clean
  BY <1>t, <1>k DEF Container
<1>3. cont'[c] = k /\ \A e \in Creates : e # c => cont'[e] = cont[e] BY <1>t, <1>1
<1>4. LifeOf(k) = "building" BY <1>2, <1>u DEF LifeOf, Untouched
<1>5. LifeOf(cont[c]) = "none" BY <1>g DEF LifeOf
<1>6. lives[c] = "none" BY <1>5 DEF lives
<1>7. lives' = [lives EXCEPT ![c] = "building"]
  <2>1. \A e \in Creates : lives'[e] = IF e = c THEN "building" ELSE lives[e] BY <1>3, <1>4 DEF lives
  <2> QED BY <2>1 DEF lives
<1>8. numbers' = [numbers EXCEPT ![c] = i]
  <2>1. \A e \in Creates : numbers'[e] = IF e = c THEN i ELSE numbers[e] BY <1>2, <1>3 DEF numbers
  <2> QED BY <2>1 DEF numbers
<1>9. holdings' = holdings
  <2>1. Held(c, mounts[cont[c].id]) = {} BY <1>n, <1>t, HeldNot
  <2>2. Held(c, mounts[i]) = {} BY <1>n, HeldNot
  <2>3. \A e \in Creates : Held(e, mounts'[cont'[e].id]) = Held(e, mounts[cont[e].id])
    BY <1>g, <1>2, <1>3, <2>1, <2>2
  <2> QED BY <2>3 DEF holdings
<1>10. i \in Ids \ {numbers[e] : e \in Life!Named}
  <2>1. ASSUME NEW e \in Life!Named PROVE e \in Creates /\ numbers[e] # i
    <3>1. e \in Creates /\ (lives[e] \in {"building", "live", "ending"} \/ (lives[e] = "gone" /\ holdings[e] # {}))
      BY DEF Life!Named
    <3>2. LifeOf(cont[e]) \notin {"none", "refused"} BY <3>1 DEF lives
    <3>3. Numbered(e) BY <3>2 DEF LifeOf, Numbered
    <3>4. Present(e)
      <4>1. CASE lives[e] = "gone" /\ holdings[e] # {}
        <5>1. Held(e, mounts[cont[e].id]) # {} /\ cont[e].id \in Ids BY <1>t, <3>1, <4>1 DEF holdings, Container
        <5> QED BY <3>1, <5>1, HeldNot
      <4>2. CASE lives[e] \in {"building", "live", "ending"}
        <5>1. LifeOf(cont[e]) # "gone" BY <3>1, <4>2 DEF lives
        <5>2. cont[e].clean # "over" BY <3>2, <5>1 DEF LifeOf
        <5>3. OrderInv(cont[e]) BY <3>1, <3>3 DEF ContainersInv
        <5>4. ~Settled(e) BY <5>2, <5>3 DEF Settled, OrderInv
        <5> QED BY <3>3, <5>4 DEF Present
      <4> QED BY <3>1, <4>1, <4>2
    <3> QED BY <1>i, <3>1, <3>4 DEF numbers
  <2> QED BY <2>1
<1>11. Life!Create(c) BY <1>g, <1>6, <1>7, <1>8, <1>9, <1>10 DEF Life!Create
<1> QED BY <1>11 DEF Life!LifeNext

\* A command is not served before a coreX has taken it.
Unserved ==
    /\ disp \in [Dispatches -> {"idle", "checked", "queued", "taken", "result", "answered", "lost", "refused"}]
    /\ by \in [Dispatches -> Creates \cup {None}]
    /\ \A d \in Dispatches : disp[d] \in {"idle", "checked", "queued"} => by[d] = None

\* It is served once.
LEMMA UnservedKept ==
    ASSUME Unserved, [Next]_vars
    PROVE  Unserved'
<1>1. CASE UNCHANGED <<disp, by>> BY <1>1 DEF Unserved
<1>2. ASSUME NEW d \in Dispatches, NEW v \in {"checked", "queued", "refused", "result", "answered", "lost"},
             disp' = [disp EXCEPT ![d] = v], by' = by,
             disp[d] \in {"idle", "checked"} \/ v \in {"result", "answered", "lost"}
      PROVE  Unserved'
  BY <1>2 DEF Unserved
<1>3. ASSUME NEW d \in Dispatches, DispatchCheck(d) PROVE Unserved' BY <1>2, <1>3 DEF DispatchCheck
<1>4. ASSUME NEW d \in Dispatches, DispatchPush(d) PROVE Unserved' BY <1>2, <1>4 DEF DispatchPush
<1>5. ASSUME NEW d \in Dispatches, CoreXAnswers(d) PROVE Unserved' BY <1>2, <1>5 DEF CoreXAnswers
<1>6. ASSUME NEW d \in Dispatches, ForwardNext(d) PROVE Unserved' BY <1>2, <1>6 DEF ForwardNext
<1>7. ASSUME NEW d \in Dispatches, NEW c \in Creates, CoreXTakes(c, d) PROVE Unserved'
  BY <1>7 DEF CoreXTakes, Unserved
<1>8. ASSUME NEW c \in Creates, Begin(c) PROVE UNCHANGED <<disp, by>> BY <1>8 DEF Begin
<1>9. CASE UNCHANGED vars BY <1>1, <1>9 DEF vars
<1>10. CASE \E c \in Creates : \/ Begin(c) \/ CreateFails(c) \/ CoreXExits(c) \/ Terminate(c) \/ ExitSeen(c)
                              \/ \E x \in Sides : SideEnds(c, x)
  BY <1>1, <1>8, <1>10, OthersStay
<1>11. CASE \E c \in Creates : \/ CreateStep(c) \/ RunnerStep(c) \/ HookStep(c) \/ CleanStep(c) \/ Killed(c)
                               \/ \E x \in Sides : SideLeaves(c, x)
  BY <1>1, <1>11, OthersStay DEF Killed
<1>12. CASE \E d \in Dispatches : DispatchCheck(d) \/ DispatchStep(d)
  BY <1>3, <1>4, <1>5, <1>6, <1>7, <1>12 DEF DispatchStep
<1> QED BY <1>9, <1>10, <1>11, <1>12 DEF Next, Progress

\* What dispatch and coreX do to a command: it is served, or nothing happens to the containers.
LEMMA DispatchServes ==
    ASSUME ContainersInv, Unserved, NEW d \in Dispatches, DispatchCheck(d) \/ DispatchStep(d)
    PROVE  [Life!LifeNext]_(Life!lifeVars)
<1>t. Target[d] \in Creates /\ by \in [Dispatches -> Creates \cup {None}] BY ContainersAssumption DEF ContainersInv, TypeOK
<1>1. CASE DispatchCheck(d) \/ DispatchPush(d) \/ CoreXAnswers(d) \/ ForwardNext(d)
  <2>1. UNCHANGED <<cont, mounts, by>> BY <1>1 DEF DispatchCheck, DispatchPush, CoreXAnswers, ForwardNext, contVars
  <2>2. UNCHANGED Life!lifeVars BY <2>1, LifeRests
  <2> QED BY <2>2
<1>2. ASSUME NEW c \in Creates, CoreXTakes(c, d) PROVE Life!LifeNext
  <2>1. /\ disp[d] = "queued" /\ cont[c].proc = "alive" /\ cont[c].id = cont[Target[d]].id
        /\ UNCHANGED <<cont, mounts>> /\ by' = [by EXCEPT ![d] = c]
    BY <1>2 DEF CoreXTakes, contVars
  <2>2. Present(c) /\ Numbered(Target[d]) BY <1>t, <2>1, AtWork DEF ContainersInv
  <2>4. OrderInv(cont[c]) /\ cont[c].create \notin {"idle", "refused"} /\ cont[c] \in Container
    BY <2>2, HasNumber DEF Local
  <2>5. cont[c].clean = "no" BY <2>1, <2>4 DEF OrderInv, Container
  <2>6. LifeOf(cont[c]) = "live" BY <2>1, <2>4, <2>5 DEF LifeOf
  <2>3. c = Target[d] \/ LifeOf(cont[Target[d]]) = "gone"
    <3>1. CASE Present(Target[d]) BY <1>t, <2>1, <2>2, <3>1, HasNumber
    <3>2. CASE Settled(Target[d])
      <4>1. OrderInv(cont[Target[d]]) BY <1>t, <2>2 DEF ContainersInv
      <4>2. cont[Target[d]].clean = "over" BY <3>2, <4>1 DEF Settled, OrderInv
      <4> QED BY <2>2, <4>2 DEF LifeOf, Numbered
    <3> QED BY <2>2, <3>1, <3>2 DEF Present
  <2>7. /\ lives[c] = "live" /\ numbers[c] = numbers[Target[d]]
        /\ c = Target[d] \/ lives[Target[d]] = "gone"
    BY <1>t, <2>1, <2>3, <2>6 DEF lives, numbers
  <2>8. lives' = lives /\ numbers' = numbers /\ holdings' = holdings BY <2>1 DEF lives, numbers, holdings
  <2>9. by[d] = None BY <2>1 DEF Unserved
  <2>10. Life!Serve(d) BY <2>1, <2>7, <2>8, <2>9 DEF Life!Serve
  <2> QED BY <2>10 DEF Life!LifeNext
<1> QED BY <1>1, <1>2 DEF DispatchStep

\* What the hook does.
LEMMA HookStepRests ==
    ASSUME ContainersInv, NEW c \in Creates, HookStep(c)
    PROVE  UNCHANGED Life!lifeVars
<1>1. "bridge" \in Links /\ "default" \in Links BY DEF Links
<1>2. CASE Namespace(c) BY <1>2, NamespaceRests
<1>3. CASE OnPid(c) \/ ZeroTierStep(c) \/ SkipBridge(c) \/ PortForwards(c) BY <1>3, HookRests
<1>4. CASE LinkAdd(c, "bridge", "bridging") \/ LinkAdd(c, "default", "defaulting")
  <2>1. \E l \in Links, next \in {"bridging", "defaulting"} : LinkAdd(c, l, next) BY <1>1, <1>4
  <2> QED BY <2>1, HookRests
<1>5. CASE LinkSetUp(c, "bridging", "bridge", "default") \/ LinkSetUp(c, "defaulting", "default", "fwd")
  <2>1. \E at \in {"bridging", "defaulting"}, l \in Links, next \in {"default", "fwd"} : LinkSetUp(c, at, l, next)
    BY <1>1, <1>5
  <2> QED BY <2>1, HookRests
<1> QED BY <1>2, <1>3, <1>4, <1>5 DEF HookStep

\* What cleanup does.
LEMMA CleanStepRemoves ==
    ASSUME ContainersInv, NEW c \in Creates, CleanStep(c)
    PROVE  [Life!LifeNext]_(Life!lifeVars)
<1>1. "fwd" \in Sides /\ "net" \in Sides BY DEF Sides
<1>2. CASE KillSide(c, "fwd", "fwd", "links") BY <1>1, <1>2, KillSideRests
<1>3. CASE KillSide(c, "net", "net", "ns") BY <1>1, <1>3, KillSideRests
<1>4. CASE CleanLinks(c) BY <1>4, EndRests
<1>5. CASE CleanNs(c) BY <1>5, CleanNsRests
<1>6. CASE CleanMounts(c) BY <1>6, CleanMountsRemoves
<1> QED BY <1>2, <1>3, <1>4, <1>5, <1>6 DEF CleanStep

\* What create does after it has a number.
LEMMA CreateStepMounts ==
    ASSUME ContainersInv, NEW c \in Creates, CreateStep(c)
    PROVE  [Life!LifeNext]_(Life!lifeVars)
<1>1. "root" \in Paths /\ "data" \in Paths /\ "redis" \in Paths /\ "corex" \in Paths BY DEF Paths, Mounts
<1>2. CASE NewRunner(c) BY <1>2, NewRunnerRests
<1>3. CASE CreateMounts(c) BY <1>1, <1>3, MountMounts DEF CreateMounts
<1> QED BY <1>2, <1>3 DEF CreateStep

\* No container is there at the start.
LEMMA LifeStart == Init => Life!LifeInit
<1> SUFFICES ASSUME Init PROVE Life!LifeInit OBVIOUS
<1>1. SeqSize \in Nat \ {0} BY ContainersAssumption
<1>2. 0 \in Ids BY <1>1 DEF Ids
<1>3. \A c \in Creates : cont[c].create = "idle" /\ cont[c].id = 0 BY DEF Init
<1>4. \A c \in Creates : LifeOf(cont[c]) = "none" BY <1>3 DEF LifeOf
<1>5. lives = [c \in Creates |-> "none"] BY <1>4 DEF lives
<1>6. numbers \in [Creates -> Ids] BY <1>2, <1>3 DEF numbers
<1>7. \A w \in Paths : mounts[0][w] = << >> BY <1>2 DEF Init, Paths, Mounts
<1>8. ToSet(<< >>) = {} BY DEF ToSet
<1>9. \A c \in Creates : Held(c, mounts[cont[c].id]) = {} BY <1>3, <1>7, <1>8 DEF Held
<1>10. holdings = [c \in Creates |-> {}] BY <1>9 DEF holdings
<1>11. by = [d \in Dispatches |-> None] BY DEF Init
<1> QED BY <1>5, <1>6, <1>10, <1>11 DEF Life!LifeInit

\* Every step is one of the life of a container, or leaves all of them where they are.
LEMMA LifeStep ==
    ContainersInv /\ Unserved /\ [Next]_vars => [~clash' => Life!LifeNext]_(Life!lifeVars)
<1> SUFFICES ASSUME ContainersInv, Unserved, [Next]_vars, ~clash' PROVE [Life!LifeNext]_(Life!lifeVars)
  OBVIOUS
<1>1. ASSUME NEW c \in Creates,
             Begin(c) \/ CreateFails(c) \/ CoreXExits(c) \/ Terminate(c) \/ ExitSeen(c) \/ \E x \in Sides : SideEnds(c, x)
      PROVE  [Life!LifeNext]_(Life!lifeVars)
  <2>1. CASE Begin(c) BY <2>1, BeginRefuses, BeginCreates
  <2>2. CASE CreateFails(c) BY <2>2, CreateFailsEnds
  <2>3. CASE CoreXExits(c) BY <2>3, CoreXExitsEnds
  <2>4. CASE Terminate(c) \/ ExitSeen(c) BY <2>4, EndRests
  <2>5. CASE \E x \in Sides : SideEnds(c, x)
    <3>1. \E x \in Sides : SideEnds(c, x) \/ SideLeaves(c, x) BY <2>5
    <3> QED BY <3>1, HookRests
  <2> QED BY <1>1, <2>1, <2>2, <2>3, <2>4, <2>5
<1>2. ASSUME NEW c \in Creates,
             \/ CreateStep(c) \/ RunnerStep(c) \/ HookStep(c) \/ CleanStep(c) \/ Killed(c)
             \/ \E x \in Sides : SideLeaves(c, x)
      PROVE  [Life!LifeNext]_(Life!lifeVars)
  <2>1. CASE CreateStep(c) BY <2>1, CreateStepMounts
  <2>2. CASE RunnerStep(c) BY <2>2, SpawnStarts, EndRests DEF RunnerStep
  <2>3. CASE HookStep(c) BY <2>3, HookStepRests
  <2>4. CASE CleanStep(c) BY <2>4, CleanStepRemoves
  <2>5. CASE Killed(c) BY <2>5, CoreXExitsEnds DEF Killed
  <2>6. CASE \E x \in Sides : SideLeaves(c, x)
    <3>1. \E x \in Sides : SideEnds(c, x) \/ SideLeaves(c, x) BY <2>6
    <3> QED BY <3>1, HookRests
  <2> QED BY <1>2, <2>1, <2>2, <2>3, <2>4, <2>5, <2>6
<1>3. ASSUME NEW d \in Dispatches, DispatchCheck(d) \/ DispatchStep(d) PROVE [Life!LifeNext]_(Life!lifeVars)
  BY <1>3, DispatchServes
<1>4. CASE UNCHANGED vars
  <2>1. UNCHANGED <<cont, mounts, by>> BY <1>4 DEF vars
  <2>2. UNCHANGED Life!lifeVars BY <2>1, LifeRests
  <2> QED BY <2>2
<1> QED BY <1>1, <1>2, <1>3, <1>4 DEF Next, Progress

\* core0 keeps what ContainerLife promises, for any number of containers and of commands that
\* are dispatched to them, as long as no number was given that was not free: coreX runs only
\* on complete mounts and keeps them while it lives, it lives once, its mounts are taken away
\* before it is gone, but those the kernel refused to unmount, and a command is served once,
\* by the container it was for or, when that is gone, by the next with its number
\* (manager.go, container.go).
THEOREM ContainersImplementLife == Spec => ImplementsContainerLife
<1>1. Init => Unserved BY DEF Init, Unserved
<1>2. Unserved /\ [Next]_vars => Unserved' BY UnservedKept
<1>3. Spec => []Unserved BY <1>1, <1>2, PTL DEF Spec
<1>4. (clash \/ ContainersInv) /\ Unserved /\ [Next]_vars => [~clash' => Life!LifeNext]_(Life!lifeVars)
  BY LifeStep, ClashStays
<1> QED BY <1>3, <1>4, LifeStart, ContainersInvariance, PTL DEF Spec, ImplementsContainerLife
=============================================================================
