------------------------------ MODULE MCAlgorithms ------------------------------
(***************************************************************************)
(* The algorithms of StartupTree and Inputs against reference definitions, *)
(* over bounded inputs.  An algorithm is chosen, and its input is built    *)
(* one part at a time: the After lists of every configuration of a few     *)
(* services, the files of an include directory, the rows get_msgs looks    *)
(* at, the filesystems of a machine.                                       *)
(***************************************************************************)
EXTENDS StartupTree, Inputs, TLC

CONSTANTS Keywords,    \* the keywords that are tried
          Unknown,     \* a name that is neither a keyword nor a service
          MaxAfter,    \* bound on the length of an After list
          MaxParts     \* bound on the number of files, rows and filesystems

VARIABLES algorithm, after, input

Names == Services \cup Keywords \cup {Unknown}

\* The names of the services mean nothing.
ServiceSymmetry == Permutations(Services)

Grow(parts) ==
    /\ Len(input.parts) < MaxParts
    /\ \E p \in parts : input' = [input EXCEPT !.parts = Append(@, p)]
    /\ UNCHANGED <<algorithm, after>>

-----------------------------------------------------------------------------
(* The startup tree                                                        *)

GrowAfter ==
    /\ algorithm = "tree"
    /\ \E s \in Services, n \in Names :
        /\ Len(after[s]) < MaxAfter
        /\ after' = [after EXCEPT ![s] = Append(@, n)]
    /\ UNCHANGED <<algorithm, input>>

\* The tree has exactly the services whose dependencies are sound (GetStartupTree), and its
\* slices never start one before what it needs (Weight, Slice).
TreeExact == OnlySound(after) /\ NoneBefore(after)

-----------------------------------------------------------------------------
(* The include directory                                                   *)

MainKeys == {"m"}

Files == [suffix : {TRUE}, loads : {TRUE}, extension : SUBSET {"m", "e"}, startup : SUBSET {"s", "t"}]
           \cup {[suffix |-> x, loads |-> FALSE, extension |-> {}, startup |-> {}] : x \in BOOLEAN}

Loaded == {i \in DOMAIN input.parts : input.parts[i].suffix /\ input.parts[i].loads}

\* The first file that has an extension counts, and the last that has a startup section;
\* extensions of the main settings cannot be replaced.
IncludedExact ==
    LET files == input.parts
        got == GetIncludedSettings(MainKeys, files)
        Ext(k) == {i \in Loaded : k \in files[i].extension}
        Start(k) == {i \in Loaded : k \in files[i].startup} IN
    /\ DOMAIN got.extension = {k \in {"e"} : Ext(k) # {}}
    /\ \A k \in DOMAIN got.extension :
        got.extension[k] \in Ext(k) /\ \A i \in Ext(k) : got.extension[k] <= i
    /\ DOMAIN got.startup = {k \in {"s", "t"} : Start(k) # {}}
    /\ \A k \in DOMAIN got.startup :
        got.startup[k] \in Start(k) /\ \A i \in Start(k) : got.startup[k] >= i
    /\ got.errors = Cardinality({i \in DOMAIN files : files[i].suffix /\ ~files[i].loads})
                      + Cardinality(Ext("m"))
                      + (IF Ext("e") = {} THEN 0 ELSE Cardinality(Ext("e")) - 1)

-----------------------------------------------------------------------------
(* get_msgs                                                                *)

Part(l, u) == [lower |-> l, upper |-> u]

\* Queries whose meaning the code and its comments agree on: levels that are left out or a
\* text (not an array, which the comment at get_msgs.go:48 wants read as numbers and the
\* switch does not), and a limit that is given (without one, nothing is returned).
LevelQueries == {[form |-> "absent"]}
                  \cup {[form |-> "text", parts |-> p] :
                         p \in {<<Part(Star, None)>>, <<Part(1, None), Part(20, 40)>>,
                                <<Part(2, 1)>>, <<Part(1, NaN)>>, <<Part(NaN, None)>>}}

Queries == [levels : LevelQueries, limit : 1 .. cmdGetMsgsDefaultLimit + 1]

Rows == [epoch : 1 .. 2, level : {1, 2, 30}]

WrongText(q) == q.form = "text" /\ \E k \in DOMAIN q.parts : NaN \in {q.parts[k].lower, q.parts[k].upper}

Selects(q, l) ==
    \/ q.form = "absent"
    \/ /\ q.form = "text"
       /\ \E k \in DOMAIN q.parts :
            LET p == q.parts[k] IN
            \/ p.lower = Star
            \/ p.upper = None /\ p.lower = l
            \/ p.upper # None /\ p.lower <= l /\ l <= p.upper

Before(r, s) == r.epoch < s.epoch \/ (r.epoch = s.epoch /\ r.level < s.level)

\* The newest rows of the levels that were asked for, newest first, as many as the limit
\* allows and never more than the most that is returned.
GetMsgsExact ==
    LET rows == {input.parts[k] : k \in DOMAIN input.parts}
        q == input.query
        got == getMsgs(rows, q)
        wanted == {r \in rows : Selects(q.levels, r.level)}
        most == IF q.limit > cmdGetMsgsDefaultLimit THEN cmdGetMsgsDefaultLimit ELSE q.limit
        taken == {got[1][k] : k \in DOMAIN got[1]} IN
    IF WrongText(q.levels) THEN got = Error
    ELSE /\ taken \subseteq wanted
         /\ Len(got[1]) = IF Cardinality(wanted) < most THEN Cardinality(wanted) ELSE most
         /\ \A j, k \in DOMAIN got[1] : j < k => Before(got[1][k], got[1][j])
         /\ \A r \in wanted \ taken, s \in taken : Before(r, s)

-----------------------------------------------------------------------------
(* btrfs.list                                                              *)

\* A filesystem has devices, and perhaps some are missing.
Filesystems == [devices : {<<1>>, <<1, 2>>}, missing : BOOLEAN]

\* What the agent collects of the output of the tool, with the end of the last line or
\* without.  There is no empty line in it, since the consumers of the output drop them: the
\* tool's own layout, which the comment at btrfs.go:258-261 names too, never gets here.
Printed(f, n) ==
    <<Line("Label", n), Line("Total", n)>>
      \o [k \in DOMAIN f.devices |-> Line("devid", f.devices[k])]
      \o (IF f.missing THEN <<Line("missing", n)>> ELSE <<>>)

Output ==
    LET fss == input.parts IN
    FoldLeftDomain(LAMBDA lines, n : lines \o Printed(fss[n], n), <<>>, fss)
      \o (IF input.query = "newline" THEN <<Empty>> ELSE <<>>)

\* Every filesystem is found, with all its devices and no other, although the label that
\* begins a filesystem ends the one before; the command fails where there is none.
BtrfsExact ==
    LET fss == input.parts IN
    btrfsParseList(Output) =
        IF fss = <<>> THEN Error
        ELSE Ok([n \in DOMAIN fss |-> [uuid |-> n, devices |-> fss[n].devices]])

-----------------------------------------------------------------------------
Init ==
    /\ after = [s \in Services |-> <<>>]
    /\ \/ algorithm = "tree" /\ input = <<>>
       \/ algorithm = "include" /\ input = [parts |-> <<>>]
       \/ algorithm = "get_msgs" /\ \E q \in Queries : input = [parts |-> <<>>, query |-> q]
       \/ algorithm = "btrfs" /\ \E f \in {"newline", "none"} : input = [parts |-> <<>>, query |-> f]

Next ==
    \/ GrowAfter
    \/ algorithm = "include" /\ Grow(Files)
    \/ algorithm = "get_msgs" /\ Grow(Rows)
    \/ algorithm = "btrfs" /\ Grow(Filesystems)

Spec == Init /\ [][Next]_<<algorithm, after, input>>

\* Of the include directory, of a query and of the filesystems the agent gets exactly what
\* the reference definitions say, for the inputs on whose meaning code and comments agree.
InputsExact ==
    CASE algorithm = "include"  -> IncludedExact
      [] algorithm = "get_msgs" -> GetMsgsExact
      [] algorithm = "btrfs"    -> BtrfsExact
      [] OTHER -> TRUE
=============================================================================
