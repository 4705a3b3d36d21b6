---------------------------- MODULE MCSyncStale ----------------------------
(* SyncStaleApply on two machines: 1 is the client of 2, and the wall clock *)
(* of 1 reads a later time.                                                *)
EXTENDS SyncStaleApply, TLC

PairPeers == (1 :> <<2>>) @@ (2 :> <<>>)
PairWall  == (1 :> {1}) @@ (2 :> {0})
NoFailure == (1 :> 0) @@ (2 :> 0)
=============================================================================
