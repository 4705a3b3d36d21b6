---------------------------- MODULE ReplicatedMap ----------------------------
(***************************************************************************)
(* What docs/sync.md promises of the mesh, with no wall clock, row,        *)
(* tombstone or message: every node writes on its own, a node's knowledge  *)
(* of the writes only grows, a new write outranks everything its author    *)
(* has seen, and of two writes of one row the one of higher rank wins.     *)
(*                                                                         *)
(* seen[n] holds the writes that n has or has something newer for.         *)
(***************************************************************************)
EXTENDS SyncClock

VARIABLES written, seen

Outranks(v, w) == Less(w.hlc, v.hlc)
SameRow(v, w)  == v.gid = w.gid

\* The writes of W that are in S or outranked by one in S on the same row.
Below(S, W) == {v \in W : \E u \in S : SameRow(u, v) /\ (u = v \/ Outranks(u, v))}

Init ==
  /\ written = {}
  /\ seen = [n \in Node |-> {}]

\* n writes.  Its author has seen the write; another node can already have
\* something newer for the row.
Write(n) ==
  \E w \in written' \ written :
    /\ \A v \in seen[n] : Outranks(w, v)
    /\ written' = written \cup {w}
    /\ seen' = [m \in Node |->
                  Below(IF m = n THEN seen[m] \cup {w} ELSE seen[m], written')]

\* n receives some writes.
Learn(n) ==
  /\ seen[n] \subseteq seen'[n]
  /\ seen'[n] = Below(seen'[n], written)
  /\ seen' = [seen EXCEPT ![n] = seen'[n]]
  /\ UNCHANGED written

Next == \E n \in Node : Write(n) \/ Learn(n)

Spec == Init /\ [][Next]_<<written, seen>>
=============================================================================
