-------------------------------- MODULE StatsBuffer --------------------------------
(***************************************************************************)
(* The statistics of the jobs on their way to Redis: the timed buffer      *)
(* (base/utils/buffer.go) that collects what the statsd goroutines flush,  *)
(* and the goroutine that pushes a basket of them to the list agent.stats  *)
(* (base/statsbuffer.go).                                                  *)
(*                                                                         *)
(* The baskets are pushed by goroutines of their own, which share a pool   *)
(* of connections.  RPUSH is only buffered by Send; the Close of the       *)
(* connection sends it, so a connection that broke while it was idle takes *)
(* its basket with it and nobody is told.                                  *)
(***************************************************************************)
EXTENDS Naturals, Sequences, FiniteSets

CONSTANTS
    Stats,         \* the statistics that are flushed
    Capacity,      \* the capacity of the buffer
    MaxOutages     \* bound on the outages of Redis

ASSUME StatsAssumption == Capacity \in Nat \ {0} /\ MaxOutages \in Nat

VARIABLES
    toFlush,     \* the statistics statsd has yet to hand over
    appending,   \* those whose goroutine waits in Append
    array,       \* the buffer
    baskets,     \* the baskets whose goroutine has yet to get a connection
    pushing,     \* the baskets whose goroutine has a connection, and that connection
    idle,        \* the idle connections of the pool, the first is taken next
    statsList,   \* the list agent.stats
    statsUp,     \* Redis answers
    outages      \* how often it went away

statsVars == <<toFlush, appending, array, baskets, pushing, idle, statsList, statsUp, outages>>

StatsTypeOK ==
    /\ toFlush \subseteq Stats /\ appending \subseteq Stats
    /\ array \in Seq(Stats) /\ Len(array) < Capacity
    /\ \A b \in baskets : b \in Seq(Stats)
    /\ \A p \in pushing : p.basket \in Seq(Stats) /\ p.conn \in {"ok", "broken", "error"}
    /\ idle \in Seq({"ok", "broken"})
    /\ statsList \in Seq(Stats)
    /\ statsUp \in BOOLEAN /\ outages \in 0 .. MaxOutages

StatsInit ==
    /\ toFlush = Stats
    /\ appending = {} /\ array = <<>> /\ baskets = {} /\ pushing = {} /\ idle = <<>>
    /\ statsList = <<>> /\ statsUp = TRUE /\ outages = 0

\* A statsd goroutine calls the handler, which waits in Append for the buffer.
Handler(s) ==
    /\ s \in toFlush
    /\ toFlush' = toFlush \ {s}
    /\ appending' = appending \cup {s}
    /\ UNCHANGED <<array, baskets, pushing, idle, statsList, statsUp, outages>>

\* Mutant: the array is not emptied.
FlushKeeps(all) ==
    /\ baskets' = baskets \cup {all}
    /\ array' = all

\* flush copies the array into a basket for a goroutine of its own, and empties it.  The
\* goroutine of an empty basket returns at once.
Flush(all) ==
    /\ baskets' = IF all = <<>> THEN baskets ELSE baskets \cup {all}
    /\ array' = <<>>

\* The goroutine of the buffer receives, and flushes a full buffer.
Collect(s) ==
    /\ s \in appending
    /\ appending' = appending \ {s}
    /\ LET all == Append(array, s) IN
        IF Len(all) >= Capacity THEN Flush(all) ELSE array' = all /\ UNCHANGED baskets
    /\ UNCHANGED <<toFlush, pushing, idle, statsList, statsUp, outages>>

Timeout ==
    /\ Flush(array)
    /\ UNCHANGED <<toFlush, appending, pushing, idle, statsList, statsUp, outages>>

\* onFlush gets a connection: an idle one, untested, or a new one.
GetConn(b) ==
    /\ b \in baskets
    /\ baskets' = baskets \ {b}
    /\ idle' = IF idle = <<>> THEN idle ELSE Tail(idle)
    /\ LET c == IF idle # <<>> THEN Head(idle) ELSE IF statsUp THEN "ok" ELSE "error" IN
        pushing' = pushing \cup {[basket |-> b, conn |-> c]}
    /\ UNCHANGED <<toFlush, appending, array, statsList, statsUp, outages>>

\* Send and Close: a connection that works is used and returned to the pool, another one
\* is closed, and the basket is lost.
OnFlush(p) ==
    /\ p \in pushing
    /\ pushing' = pushing \ {p}
    /\ statsList' = IF p.conn = "ok" THEN statsList \o p.basket ELSE statsList
    /\ idle' = IF p.conn = "ok" THEN <<"ok">> \o idle ELSE idle
    /\ UNCHANGED <<toFlush, appending, array, baskets, statsUp, outages>>

\* Redis goes away, and every connection with it.
StatsRedisFails ==
    /\ statsUp /\ outages < MaxOutages
    /\ statsUp' = FALSE /\ outages' = outages + 1
    /\ idle' = [i \in DOMAIN idle |-> "broken"]
    /\ pushing' = {[p EXCEPT !.conn = IF @ = "ok" THEN "broken" ELSE @] : p \in pushing}
    /\ UNCHANGED <<toFlush, appending, array, baskets, statsList>>

StatsRedisReturns ==
    /\ ~statsUp
    /\ statsUp' = TRUE
    /\ UNCHANGED <<toFlush, appending, array, baskets, pushing, idle, statsList, outages>>

StatsNext ==
    \/ \E s \in Stats : Handler(s) \/ Collect(s)
    \/ Timeout
    \/ \E b \in baskets : GetConn(b)
    \/ \E p \in pushing : OnFlush(p)
    \/ StatsRedisFails \/ StatsRedisReturns

StatsSpec == StatsInit /\ [][StatsNext]_statsVars

-----------------------------------------------------------------------------
Occurs(s, seq) == Cardinality({i \in DOMAIN seq : seq[i] = s})

\* How often a statistic is between statsd and the end of agent.stats.
Copies(s) ==
    Cardinality({b \in baskets : Occurs(s, b) > 0})
      + Cardinality({p \in pushing : Occurs(s, p.basket) > 0})
      + Occurs(s, array) + Occurs(s, statsList) + (IF s \in toFlush \cup appending THEN 1 ELSE 0)

\* A statistic is in one basket only and reaches agent.stats at most once, however flushes
\* by time and by size and their goroutines interleave; and it is lost only by an outage.
StatsConserved ==
    \A s \in Stats : Copies(s) <= 1 /\ (outages = 0 => Copies(s) = 1)
=============================================================================
