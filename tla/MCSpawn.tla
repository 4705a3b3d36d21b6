------------------------------- MODULE MCSpawn -------------------------------
(***************************************************************************)
(* SpawnWatchdog for TLC: tasks with a pid are interchangeable, and so are *)
(* the processes that run the daemon.                                      *)
(***************************************************************************)
EXTENDS SpawnProperties, TLC

Alike == Permutations(Task \ Visible) \cup Permutations(Host)
=============================================================================
