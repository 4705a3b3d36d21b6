----------------------------- MODULE MCSyncMesh -----------------------------
(***************************************************************************)
(* SyncMesh on three machines in a line: 1 and 3 list 2 as their only      *)
(* peer, 2 lists none, so what 1 and 3 write reaches the other through 2.  *)
(* Machine 3 starts without a database: it is set up from a copy of one of *)
(* the others.                                                             *)
(***************************************************************************)
EXTENDS SyncRefinement, TLC

LinePeers == (1 :> <<2>>) @@ (2 :> <<>>) @@ (3 :> <<2>>)

\* The wall clock of 1 runs ahead of the others.
Skewed == (1 :> {1}) @@ (2 :> {0}) @@ (3 :> {0})

NoFailure    == (1 :> 0) @@ (2 :> 0) @@ (3 :> 0)
FirstMayFail == (1 :> 1) @@ (2 :> 0) @@ (3 :> 0)

=============================================================================
