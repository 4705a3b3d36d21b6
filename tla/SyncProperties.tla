--------------------------- MODULE SyncProperties ---------------------------
(***************************************************************************)
(* What the mesh of SyncMesh promises.                                     *)
(***************************************************************************)
EXTENDS SyncMesh

\* Every variable has its type.
TypeOK ==
  /\ StoreTypeOK
  /\ pc \in [Node -> {"idle", "pulling", "pulled", "applied", "pushing"}]
  /\ turn \in [Node -> Nat \ {0}]
  /\ askVV \in [Node -> [Node -> StampOrNone]]
  /\ replyVV \in [Node -> [Node -> StampOrNone]]
  /\ inbox \in [Node -> SUBSET Change]
  /\ pushes \in SUBSET Push
  /\ fails \in [Node -> Nat]

\* The clock of a node is never behind a row or tombstone the node holds
\* (hlc_absorb inside apply_changes, the high-water mark of reset_node): the
\* next local write of a row outranks every version of it the node has seen.
ClockDominates ==
  \A n \in Node : \A c \in Held(n) : ClockLeq(Time(c.hlc), clock[n])

\* No two local writes of the mesh have the same stamp, so the order of
\* last-writer-wins is total: a stepped-back wall clock, a relayed stamp or a
\* cloned database never makes a node issue a stamp twice.
StampsUnique ==
  \A v, w \in written : v.hlc = w.hlc => v = w

\* A deleted row does not come back: no node holds a version of a row that is
\* not newer than a tombstone of the row that the node holds.
NoResurrection ==
  \A n \in Node : \A t \in tomb[n] :
    row[n][t.gid] # NoStamp => Less(t.hlc, row[n][t.gid])

\* A version vector is honest.  When the highest stamp that n holds of origin
\* o is s, then n has, or has overwritten by something newer, every write of
\* o up to s: a peer that leaves those out of a changeset loses nothing.
NoGap ==
  \A n \in Node : nid[n] # 0 =>
    \A c \in Held(n) : \A w \in written :
      Origin(w.hlc) = Origin(c.hlc) /\ Leq(w.hlc, c.hlc) => Covers(n, w.gid, w.hlc)

\* Databases whose rows differ have something to exchange: a session between
\* them, although it compares only version vectors and looks at no row that
\* they cover, pulls or pushes at least one change.
DifferenceShows ==
  \A m, n \in Node : nid[m] # 0 /\ nid[n] # 0 /\ row[m] # row[n] =>
    \A u \in VersionVectors(m), v \in VersionVectors(n) :
      CollectChanges(m, v) \cup CollectChanges(n, u) # {}

\* Last writer wins at every node at every step: what a node has of a row
\* never goes back to an older version, whatever arrives late or twice.
NeverBack ==
  [][\A n \in Node : \A w \in written :
       Covers(n, w.gid, w.hlc) => Covers(n, w.gid, w.hlc)']_vars

\* The row g of n after the changesets S and then T have been merged.
AfterBoth(n, S, T, g) ==
  AfterDeletes([h \in Gid |-> AfterDeletes(row[n], tomb[n], S, h)],
               tomb[n] \cup Deletes(S), T, g)

\* The changesets that n may merge next.
Arriving(n) == {p.changes : p \in {q \in pushes : q.to = n}}
               \cup {S \in {inbox[n]} : pc[n] = "pulled"}

\* The order in which a server's threads and its own pull merge what has
\* arrived makes no difference to the rows, nor does a push merged twice.
MergesCommute ==
  \A n \in Node : \A S, T \in Arriving(n) : \A g \in Gid :
    /\ AfterBoth(n, S, T, g) = AfterBoth(n, T, S, g)
    /\ AfterBoth(n, S, S, g) = AfterDeletes(row[n], tomb[n], S, g)

\* Every write reaches every node that has a database, directly or relayed,
\* or is superseded there by a newer write of the same row.
EveryWriteArrives ==
  <>[](\A n \in Node : nid[n] # 0 =>
         \A w \in written : Covers(n, w.gid, w.hlc))

\* Once writing stops, all databases become and stay equal.
Converges ==
  <>[](\A m, n \in Node : nid[m] # 0 /\ nid[n] # 0 => row[m] = row[n])
=============================================================================
