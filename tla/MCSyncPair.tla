----------------------------- MODULE MCSyncPair -----------------------------
(***************************************************************************)
(* SyncTornCollect on two machines, with two rows in different tables: 1   *)
(* is the client of 2.                                                     *)
(***************************************************************************)
EXTENDS SyncTornCollect, TLC

CONSTANTS g1, g2
PairPeers == (1 :> <<2>>) @@ (2 :> <<>>)
PairWall  == (1 :> {0}) @@ (2 :> {0})
NoFailure == (1 :> 0) @@ (2 :> 0)
Tables    == (g1 :> 1) @@ (g2 :> 2)
=============================================================================
