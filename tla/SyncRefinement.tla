--------------------------- MODULE SyncRefinement ---------------------------
(***************************************************************************)
(* The mesh of SyncMesh implements ReplicatedMap.                          *)
(***************************************************************************)
EXTENDS SyncProperties

\* The writes that n holds or has something newer for.
seen == [n \in Node |-> {w \in written : Covers(n, w.gid, w.hlc)}]

Map == INSTANCE ReplicatedMap WITH written <- written, seen <- seen

\* Every step of the mesh is a write that outranks what its author has seen,
\* or adds to what one node has seen, or changes nothing a user can see.
ImplementsMap == Map!Spec
=============================================================================
