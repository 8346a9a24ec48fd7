--------------------------------- MODULE MCSinks ---------------------------------
(***************************************************************************)
(* Two sinks and a local client.  The clients send an unknown command      *)
(* behind something that does not decode; two commands with one id, to     *)
(* both sinks or to a sink and over the local socket; or a command without *)
(* an id.                                                                  *)
(***************************************************************************)
EXTENDS Sinks

MCCmds == {"bad", "a", "b", "c", "n", "l"}

MCTraffic == {{"bad", "a"}, {"b", "c"}, {"n"}, {"b", "l"}}

MCSentTo == [bad |-> "s1", a |-> "s1", b |-> "s2", c |-> "s1", n |-> "s1", l |-> Local]

MCIds == [bad |-> "bad", a |-> "a", b |-> "x", c |-> "x", n |-> NoId, l |-> "x"]

\* The second sink has one queue for all its results, as the sink of a container.
MCReplyTo == [s1 |-> NoQueue, s2 |-> "main"]
=============================================================================
