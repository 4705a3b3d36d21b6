--------------------------- MODULE MCSyncRestore ---------------------------
(* SyncRestore on two machines: 1 is the client of 2.                      *)
EXTENDS SyncRestore, TLC

PairPeers == (1 :> <<2>>) @@ (2 :> <<>>)
PairWall  == (1 :> {0}) @@ (2 :> {0, 1})
NoFailure == (1 :> 0) @@ (2 :> 0)
=============================================================================
