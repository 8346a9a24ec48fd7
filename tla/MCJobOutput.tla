------------------------------ MODULE MCJobOutput ------------------------------
(***************************************************************************)
(* Instances of JobOutput: the kinds of lines, and the statistics they     *)
(* carry.                                                                  *)
(***************************************************************************)
EXTENDS JobOutput

MCKeys == {"k", "_cpu_"}

One      == [text |-> "num", sign |-> "no", num |-> 1]
Count    == [optype |-> "c", key |-> "k", value |-> One]
Gauge    == [optype |-> "g", key |-> "k", value |-> [One EXCEPT !.sign = "+"]]
Unknown  == [optype |-> "other", key |-> "k", value |-> One]
MCGauges == <<[optype |-> "g", key |-> "_cpu_", value |-> One]>>

Plain(form)      == [form |-> form, level |-> 0, stat |-> NoMsg]
Leveled(form, l) == [form |-> form, level |-> l, stat |-> NoMsg]
Stat(m)          == [form |-> "single", level |-> 10, stat |-> m]

Script(k, o, e, t) == [kind |-> k, stdin |-> FALSE, out |-> o, err |-> e, ticks |-> t]

WithInput(s) == [s EXCEPT !.stdin = TRUE]

SeqsOf(S, n) == [1 .. n -> S]

Forms  == {Plain("empty"), Plain("plain"), Plain("close"), Leveled("open", 3)}
Levels == {Leveled("single", 20), Leveled("single", 50), Leveled("single", 101)}

\* A change of type, a type that is not known for a new key and for one in use, and a
\* text that Feed refuses.
Stats  == {<<Stat(Gauge), Stat(Count)>>, <<Stat(Unknown)>>,
           <<Stat(Count), Stat(Unknown)>>, <<Stat(NoMsg), Stat(Gauge)>>}
              \cup {<<Stat([Count EXCEPT !.optype = t])>> : t \in {"kv", "s", "ms"}}

\* Lines of every form next to the other pipe, all levels that are treated differently
\* in both kinds of process, and statistics; two counter values with a tick of the meter;
\* a process that is given input and writes to both pipes.
MCScripts ==
    {Script("system", <<Leveled("open", 3)>> \o s, <<Plain("plain")>>, 0) :
            s \in SeqsOf(Forms, 2)}
        \cup {Script("system", o, << >>, 0) : o \in SeqsOf(Forms, 3)}
        \cup {Script(k, o, << >>, 0) : k \in Kinds, o \in SeqsOf(Levels, 2)}
        \cup {Script("system", << >>, e, 0) : e \in Stats}
        \cup {Script("system", << >>, <<Stat(Count), Stat(Count)>>, 1)}
        \cup {WithInput(Script("system", o, <<Plain("plain")>>, 0)) : o \in SeqsOf(Forms, 1)}
===============================================================================
