-------------------------- MODULE MCEngineDownload --------------------------
(***************************************************************************)
(* Instances of EngineDownload for TLC.                                    *)
(***************************************************************************)
EXTENDS EngineDownload

Environment(p, l, n) == [protocol |-> p, late |-> l, commands |-> n]

\* No central; one of either protocol, in time or late, and a command at the
\* console while the others are at work.
AllEnvironments ==
  {Environment("UNKNOWN", 0, 1), Environment("LOKNAMEN", 0, 0), Environment("LOKLISTE", 0, 1),
   Environment("LOKNAMEN", 2, 0)}
=============================================================================
