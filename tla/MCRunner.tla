-------------------------------- MODULE MCRunner --------------------------------
(***************************************************************************)
(* Runner for commands of every kind.                                      *)
(***************************************************************************)
EXTENDS Runner

\* No restart, one run counted against the limit, and a limit that is reached after
\* several failed runs, each with and without a time limit and a recurring period, for
\* processes that end when they are killed and for those that need not.
AllCommands == [maxRestart : {0, 1, 3}, maxTime : {"yes", "no"},
                recurring : {"yes", "no"}, obedient : {"yes", "no"}]
=============================================================================
