------------------------------ MODULE SyncStore ------------------------------
(***************************************************************************)
(* The replicated part of one node's database and the primitives of        *)
(* threadkeeper/sync that read and write it: the capture triggers          *)
(* (capture.py), the version vector, collect_changes and apply_changes     *)
(* (protocol.py).  SyncMesh composes them.                                 *)
(*                                                                         *)
(* The content of a row is abstracted to its stamp: two rows with the same *)
(* stamp were written by the same statement on the same node.  The origin  *)
(* of a row is the node in its stamp, as the triggers write both columns   *)
(* from the same sync_state row.  The 'put' records of sync_oplog are      *)
(* never read by the protocol and are left out.                            *)
(***************************************************************************)
EXTENDS SyncClock, FiniteSets

CONSTANTS Gid,        \* global row ids (table and primary key)
          Wall,       \* Wall[n]: what the wall clock of n may read
          MaxWrites   \* bound of the local writes of TLC's instances

ASSUME StoreAssumption == Wall \in [Node -> SUBSET Nat] /\ MaxWrites \in Nat

Op  == {"put", "del"}

\* What travels in a changeset; also one row of sync_oplog with op = 'del'.
Change == [op : Op, gid : Gid, hlc : Stamp]

VARIABLES
  nid,       \* nid[n]: node_id in n's database; 0 while n has no database
  clock,     \* clock[n]: (hlc_phys_ms, hlc_counter)
  row,       \* row[n][g]: stamp of the row g of n, NoStamp when absent
  tomb,      \* tomb[n]: the delete records of n's sync_oplog
  written    \* history: every local write of every node

storeVars == <<nid, clock, row, tomb, written>>

StoreTypeOK ==
  /\ nid \in [Node -> Node \cup {0}]
  /\ clock \in [Node -> ClockValue]
  /\ row \in [Node -> [Gid -> StampOrNone]]
  /\ tomb \in [Node -> SUBSET Change]
  /\ written \in SUBSET Change

-----------------------------------------------------------------------------
\* Everything that n can show a peer: its rows and its tombstones.
HeldRows(n) == {[op |-> "put", gid |-> g, hlc |-> row[n][g]] :
                   g \in {h \in Gid : row[n][h] # NoStamp}}

Held(n) == HeldRows(n) \cup tomb[n]

\* The highest stamp held per origin node.
IsVersionVector(n, vv) ==
  \A o \in Node :
    /\ \A c \in Held(n) : Origin(c.hlc) = o => Leq(c.hlc, vv[o])
    /\ vv[o] # NoStamp => \E c \in Held(n) : c.hlc = vv[o] /\ Origin(c.hlc) = o

\* The version vectors of n: there is exactly one.
VersionVectors(n) ==
  {vv \in [Node -> {NoStamp} \cup {c.hlc : c \in Held(n)}] :
     IsVersionVector(n, vv)}

\* Mutation of CollectChanges: a sender that leaves out the rows it has from
\* other nodes.
CollectOwnRows(n, peerVV) ==
  {c \in Held(n) : Origin(c.hlc) = nid[n] /\ Less(peerVV[nid[n]], c.hlc)}

CollectChanges(n, peerVV) ==
  {c \in Held(n) : Less(peerVV[Origin(c.hlc)], c.hlc)}

-----------------------------------------------------------------------------
\* apply_changes, with r and t the rows and tombstones of the receiver.  A
\* changeset lists the puts before the deletes and holds one put per row; the
\* tombstone of a delete is always kept.

\* Mutations of Accepts: no look at the tombstones, or at the local version.
AcceptsDeleted(r, t, c) == c.op = "put" /\ Less(r[c.gid], c.hlc)
AcceptsOlder(r, t, c) ==
  c.op = "put" /\ ~ \E d \in t : d.gid = c.gid /\ Leq(c.hlc, d.hlc)

Accepts(r, t, c) ==
  /\ c.op = "put"
  /\ ~ \E d \in t : d.gid = c.gid /\ Leq(c.hlc, d.hlc)
  /\ Less(r[c.gid], c.hlc)

AfterPuts(r, t, changes, g) ==
  IF \E c \in changes : c.gid = g /\ Accepts(r, t, c)
    THEN (CHOOSE c \in changes : c.gid = g /\ Accepts(r, t, c)).hlc
    ELSE r[g]

Deletes(changes) == {c \in changes : c.op = "del"}

\* Mutation of AfterDeletes: the tombstone is stored, the row stays.
AfterTombstones(r, t, changes, g) == AfterPuts(r, t, changes, g)

AfterDeletes(r, t, changes, g) ==
  IF \E d \in Deletes(changes) : d.gid = g /\ Less(AfterPuts(r, t, changes, g), d.hlc)
    THEN NoStamp
    ELSE AfterPuts(r, t, changes, g)

\* Mutation of AbsorbChanges: the received stamps are not absorbed.
AbsorbNothing(n, changes) == UNCHANGED clock

\* The clock after the highest received stamp has been absorbed; nothing is
\* absorbed from an empty changeset.
AbsorbChanges(n, changes) ==
  \/ changes = {} /\ UNCHANGED clock
  \/ \E c \in changes, now \in Wall[n] :
       /\ \A d \in changes : Leq(d.hlc, c.hlc)
       /\ clock' = [clock EXCEPT ![n] = Absorb(@, c.hlc, now)]

ApplyChanges(n, changes) ==
  /\ row' = [row EXCEPT ![n] = 
              [g \in Gid |-> AfterDeletes(row[n], tomb[n], changes, g)]]
  /\ tomb' = [tomb EXCEPT ![n] = @ \cup Deletes(changes)]
  /\ AbsorbChanges(n, changes)
  /\ UNCHANGED <<nid, written>>

-----------------------------------------------------------------------------
\* Local writes, captured by the triggers in the transaction of the write.
\* Mutation of LocalStamp: sync_state holds no node_id yet.
StampWithoutNode(n, now) == <<Send(clock[n], now)[1], Send(clock[n], now)[2], 0>>

LocalStamp(n, now) == <<Send(clock[n], now)[1], Send(clock[n], now)[2], nid[n]>>

\* INSERT of a new row (also of one that was deleted before) or UPDATE.
LocalPut(n, g) ==
  /\ nid[n] # 0
  /\ Cardinality(written) < MaxWrites
  /\ \E now \in Wall[n] :
       /\ clock' = [clock EXCEPT ![n] = Send(@, now)]
       /\ row' = [row EXCEPT ![n][g] = LocalStamp(n, now)]
       /\ written' = written \cup
            {[op |-> "put", gid |-> g, hlc |-> LocalStamp(n, now)]}
  /\ UNCHANGED <<nid, tomb>>

LocalDelete(n, g) ==
  /\ nid[n] # 0
  /\ row[n][g] # NoStamp
  /\ Cardinality(written) < MaxWrites
  /\ \E now \in Wall[n] :
       LET d == [op |-> "del", gid |-> g, hlc |-> LocalStamp(n, now)]
       IN  /\ clock' = [clock EXCEPT ![n] = Send(@, now)]
           /\ row' = [row EXCEPT ![n][g] = NoStamp]
           /\ tomb' = [tomb EXCEPT ![n] = @ \cup {d}]
           /\ written' = written \cup {d}
  /\ UNCHANGED nid

-----------------------------------------------------------------------------
\* n holds the write of stamp s on row g, or a later write on g.
Covers(n, g, s) ==
  \/ Leq(s, row[n][g])
  \/ \E t \in tomb[n] : t.gid = g /\ Leq(s, t.hlc)
=============================================================================
