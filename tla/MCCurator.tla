------------------------------ MODULE MCCurator ------------------------------
(***************************************************************************)
(* CuratorPass for TLC.                                                    *)
(***************************************************************************)
EXTENDS CuratorProperties

Children == 1..2
SkilledBatches == {1}

\* A second pass meets what the first has left behind, which no tick sees where it
\* is a continuation.
Passes == [l \in Limits |-> IF l = 0 THEN 2 ELSE 1]
=============================================================================
