----------------------------- MODULE SyncProofs -----------------------------
(***************************************************************************)
(* Proofs that the mesh of SyncMesh keeps the invariants of SyncProperties *)
(* for any number of nodes and rows, any peer lists and any wall clocks.   *)
(***************************************************************************)
EXTENDS SyncStoreProofs, SyncRefinement

\* The inductive invariant of the sessions: a session runs on a node that has
\* a database and a peer, and only written changes travel.
SessionInv ==
  /\ TypeOK
  /\ \A n \in Node : Peers[n] # <<>> => turn[n] \in 1 .. Len(Peers[n])
  /\ \A n \in Node : pc[n] # "idle" => nid[n] # 0 /\ Peers[n] # <<>>
  /\ \A n \in Node : inbox[n] \subseteq written
  /\ \A p \in pushes : p.changes \subseteq written

Inv == StoreInv /\ SessionInv

-----------------------------------------------------------------------------
\* The current peer of a node is a node.
LEMMA PeerType ==
  ASSUME SessionInv, NEW n \in Node, Peers[n] # <<>>
  PROVE  Peer(n) \in Node
  <1>1. Peers[n] \in Seq(Node)
    BY MeshAssumption
  <1>2. turn[n] \in 1 .. Len(Peers[n])
    BY DEF SessionInv
  <1>3. QED
    BY <1>1, <1>2 DEF Peer

\* A version vector has a stamp, or none, for every node.
LEMMA VersionVectorType ==
  ASSUME StoreTypeOK, NEW n \in Node, NEW vv \in VersionVectors(n)
  PROVE  vv \in [Node -> StampOrNone] /\ IsVersionVector(n, vv)
  BY HeldType, ChangeType DEF VersionVectors, StampOrNone

\* A changeset holds only what its sender holds.
LEMMA CollectHeld ==
  ASSUME StoreTypeOK, NEW n \in Node, NEW vv
  PROVE  CollectChanges(n, vv) \in SUBSET Held(n) /\ CollectChanges(n, vv) \in SUBSET Change
  BY HeldType DEF CollectChanges

\* The empty version vector is one.
LEMMA NoVVType ==
  NoVV \in [Node -> StampOrNone]
  BY DEF NoVV, StampOrNone

\* Ending a session keeps what the invariant says of the session.
LEMMA EndKeeps ==
  ASSUME SessionInv, NEW n \in Node, pc[n] # "idle", EndSession(n)
  PROVE  /\ pc' \in [Node -> {"idle", "pulling", "pulled", "applied", "pushing"}]
         /\ turn' \in [Node -> Nat \ {0}]
         /\ askVV' \in [Node -> [Node -> StampOrNone]]
         /\ replyVV' \in [Node -> [Node -> StampOrNone]]
         /\ inbox' \in [Node -> SUBSET Change]
         /\ \A m \in Node : Peers[m] # <<>> => turn'[m] \in 1 .. Len(Peers[m])
         /\ \A m \in Node : pc'[m] # "idle" => pc[m] # "idle"
         /\ \A m \in Node : inbox'[m] \subseteq inbox[m]
  <1>1. /\ pc' = [pc EXCEPT ![n] = "idle"]
        /\ turn' = [turn EXCEPT ![n] = IF turn[n] = Len(Peers[n]) THEN 1 ELSE turn[n] + 1]
        /\ askVV' = [askVV EXCEPT ![n] = NoVV]
        /\ replyVV' = [replyVV EXCEPT ![n] = NoVV]
        /\ inbox' = [inbox EXCEPT ![n] = {}]
    BY DEF EndSession
  <1>2. /\ pc \in [Node -> {"idle", "pulling", "pulled", "applied", "pushing"}]
        /\ turn \in [Node -> Nat \ {0}]
        /\ askVV \in [Node -> [Node -> StampOrNone]]
        /\ replyVV \in [Node -> [Node -> StampOrNone]]
        /\ inbox \in [Node -> SUBSET Change]
    BY DEF SessionInv, TypeOK
  <1>3. turn[n] \in 1 .. Len(Peers[n]) /\ Len(Peers[n]) \in Nat
    BY MeshAssumption DEF SessionInv
  <1>4. turn'[n] \in 1 .. Len(Peers[n]) /\ turn' \in [Node -> Nat \ {0}]
    BY <1>1, <1>2, <1>3
  <1>5. \A m \in Node : Peers[m] # <<>> => turn'[m] \in 1 .. Len(Peers[m])
    <2> SUFFICES ASSUME NEW m \in Node, Peers[m] # <<>>
                 PROVE  turn'[m] \in 1 .. Len(Peers[m])
      OBVIOUS
    <2>1. CASE m = n
      BY <2>1, <1>4
    <2>2. CASE m # n
      <3>1. turn'[m] = turn[m]
        BY <2>2, <1>1, <1>2
      <3>2. QED
        BY <3>1 DEF SessionInv
    <2>3. QED
      BY <2>1, <2>2
  <1>6. QED
    BY <1>1, <1>2, <1>4, <1>5, NoVVType

-----------------------------------------------------------------------------
\* The initial state.
LEMMA InitInv ==
  ASSUME Init
  PROVE  Inv
  <1>1. TypeOK
    <2>1. StoreTypeOK
      BY DEF Init, StoreTypeOK, ClockValue, StampOrNone
    <2>2. QED
      BY <2>1, NoVVType DEF Init, TypeOK
  <1>2. \A n \in Node : Held(n) = {}
    BY DEF Init, Held, HeldRows
  <1>3. StoreInv
    <2>1. OwnIdentity
      BY DEF Init, OwnIdentity
    <2>2. HeldWritten /\ OwnClock /\ ClockDominates /\ StampsUnique
      BY <1>2 DEF Init, HeldWritten, OwnClock, ClockDominates, StampsUnique
    <2>3. NoResurrection
      BY DEF Init, NoResurrection
    <2>4. QED
      BY <1>1, <2>1, <2>2, <2>3 DEF StoreInv, HistoryInv, TypeOK
  <1>4. \A n \in Node : Peers[n] # <<>> => turn[n] \in 1 .. Len(Peers[n])
    <2> SUFFICES ASSUME NEW n \in Node, Peers[n] # <<>>
                 PROVE  turn[n] \in 1 .. Len(Peers[n])
      OBVIOUS
    <2>1. Peers[n] \in Seq(Node)
      BY MeshAssumption
    <2>2. Len(Peers[n]) \in Nat \ {0}
      BY <2>1
    <2>3. QED
      BY <2>2 DEF Init
  <1>5. QED
    BY <1>1, <1>3, <1>4 DEF Inv, SessionInv, Init
-----------------------------------------------------------------------------
\* What a step may do to the databases.
StoreMove ==
  \/ UNCHANGED storeVars
  \/ \E n \in Node, g \in Gid : LocalPut(n, g)
  \/ \E n \in Node, g \in Gid : LocalDelete(n, g)
  \/ \E n \in Node, changes \in SUBSET written :
       nid[n] # 0 /\ ApplyChanges(n, changes)
  \/ \E src \in Node, dst \in Node : ResetNode(src, dst)

\* Such a move keeps the invariant of the databases.
LEMMA MoveKeepsStoreInv ==
  ASSUME StoreInv, StoreMove
  PROVE  StoreInv'
  <1>1. CASE UNCHANGED storeVars
    <2>1. \A n \in Node : Held(n)' = Held(n)
      BY <1>1 DEF storeVars, Held, HeldRows
    <2>2. QED
      BY <1>1, <2>1 DEF storeVars, StoreInv, HistoryInv, StoreTypeOK, OwnIdentity,
         HeldWritten, OwnClock, ClockDominates, StampsUnique, NoResurrection
  <1>2. QED
    BY <1>1, PutKeepsInvariants, DeleteKeepsInvariants, ApplyKeepsStoreInv,
       ResetKeepsStoreInv DEF StoreMove, StoreInv

\* It takes no write back.
LEMMA MoveKeepsWritten ==
  ASSUME StoreInv, StoreMove
  PROVE  written \subseteq written'
  <1>1. ASSUME NEW n \in Node, NEW g \in Gid, LocalPut(n, g) \/ LocalDelete(n, g)
        PROVE  written \subseteq written'
    BY <1>1, PutEffect, DeleteEffect DEF StoreInv, Issues
  <1>2. ASSUME NEW n \in Node, NEW changes, ApplyChanges(n, changes)
        PROVE  written' = written
    BY <1>2 DEF ApplyChanges
  <1>3. ASSUME NEW src \in Node, NEW dst \in Node, ResetNode(src, dst)
        PROVE  written' = written
    BY <1>3 DEF ResetNode
  <1>4. QED
    BY <1>1, <1>2, <1>3 DEF storeVars, StoreMove

\* Every step of the mesh is one.
LEMMA StoreStep ==
  ASSUME Inv, [Next]_vars
  PROVE  StoreMove
  <1>1. ASSUME NEW n \in Node, LocalWrite(n)
        PROVE  \E g \in Gid : LocalPut(n, g) \/ LocalDelete(n, g)
    BY <1>1 DEF LocalWrite
  <1>2. ASSUME NEW n \in Node, SendPull(n) \/ ServePull(n) \/ SendPush(n) \/ FailSession(n)
        PROVE  UNCHANGED storeVars
    BY <1>2 DEF SendPull, ServePull, SendPush, FailSession
  <1>3. ASSUME NEW n \in Node, ApplyPull(n)
        PROVE  \E changes \in SUBSET written : nid[n] # 0 /\ ApplyChanges(n, changes)
    BY <1>3 DEF ApplyPull, Inv, SessionInv
  <1>4. ASSUME NEW p \in pushes, ServePush(p)
        PROVE  \E n \in Node, changes \in SUBSET written :
                 nid[n] # 0 /\ ApplyChanges(n, changes)
    BY <1>4 DEF ServePush, Inv, SessionInv, TypeOK, Push
  <1>5. ASSUME NEW p \in pushes, LosePush(p)
        PROVE  UNCHANGED storeVars
    BY <1>5 DEF LosePush
  <1>6. CASE UNCHANGED vars
    BY <1>6 DEF vars, StoreMove
  <1>7. QED
    BY <1>1, <1>2, <1>3, <1>4, <1>5, <1>6 DEF Next, StoreMove

\* So every step keeps the invariant of the databases.
LEMMA StepStoreInv ==
  ASSUME Inv, [Next]_vars
  PROVE  StoreInv' /\ written \subseteq written'
  BY StoreStep, MoveKeepsStoreInv, MoveKeepsWritten DEF Inv

\* Every step keeps the invariant of the sessions.
LEMMA StepSessionInv ==
  ASSUME Inv, [Next]_vars
  PROVE  SessionInv'
  <1>1. StoreTypeOK' /\ StoreTypeOK
    BY StepStoreInv DEF Inv, StoreInv, HistoryInv
  <1>2. CASE UNCHANGED vars
    BY <1>1, <1>2 DEF vars, storeVars, sessionVars, Inv, SessionInv, TypeOK
  <1>3. CASE Next
    <2> USE <1>3
    <2>1. /\ pc \in [Node -> {"idle", "pulling", "pulled", "applied", "pushing"}]
          /\ turn \in [Node -> Nat \ {0}]
          /\ askVV \in [Node -> [Node -> StampOrNone]]
          /\ replyVV \in [Node -> [Node -> StampOrNone]]
          /\ inbox \in [Node -> SUBSET Change]
          /\ pushes \in SUBSET Push
          /\ fails \in [Node -> Nat]
          /\ \A n \in Node : inbox[n] \subseteq written
          /\ \A p \in pushes : p.changes \subseteq written
          /\ \A n \in Node : pc[n] # "idle" => nid[n] # 0 /\ Peers[n] # <<>>
          /\ \A n \in Node : Peers[n] # <<>> => turn[n] \in 1 .. Len(Peers[n])
          /\ written \subseteq written'
      BY StepStoreInv DEF Inv, SessionInv, TypeOK
    <2>2. \A n \in Node : Held(n) \subseteq written
      BY DEF Inv, StoreInv, HistoryInv, HeldWritten
    <2>3. ASSUME NEW n \in Node, LocalWrite(n)
          PROVE  SessionInv'
      <3>1. nid' = nid
        BY <2>3 DEF LocalWrite, LocalPut, LocalDelete
      <3>2. QED
        BY <2>3, <3>1, <1>1, <2>1 DEF LocalWrite, sessionVars, SessionInv, TypeOK
    <2>4. ASSUME NEW n \in Node, SendPull(n)
          PROVE  SessionInv'
      <3>1. PICK vv \in VersionVectors(n) : askVV' = [askVV EXCEPT ![n] = vv]
        BY <2>4 DEF SendPull
      <3>2. vv \in [Node -> StampOrNone]
        BY <1>1, VersionVectorType
      <3>3. askVV' \in [Node -> [Node -> StampOrNone]]
        BY <3>1, <3>2, <2>1
      <3>4. /\ pc' = [pc EXCEPT ![n] = "pulling"] /\ nid[n] # 0 /\ Peers[n] # <<>>
            /\ UNCHANGED <<storeVars, turn, replyVV, inbox, pushes, fails>>
        BY <2>4 DEF SendPull
      <3>5. QED
        BY <3>3, <3>4, <1>1, <2>1 DEF storeVars, SessionInv, TypeOK
    <2>5. ASSUME NEW n \in Node, ServePull(n)
          PROVE  SessionInv'
      <3>1. /\ pc[n] = "pulling" /\ pc' = [pc EXCEPT ![n] = "pulled"]
            /\ inbox' = [inbox EXCEPT ![n] = CollectChanges(Peer(n), askVV[n])]
            /\ askVV' = [askVV EXCEPT ![n] = NoVV]
            /\ UNCHANGED <<storeVars, turn, pushes, fails>>
        BY <2>5 DEF ServePull
      <3>2. PICK vv \in VersionVectors(Peer(n)) : replyVV' = [replyVV EXCEPT ![n] = vv]
        BY <2>5 DEF ServePull
      <3>3. Peer(n) \in Node
        BY <3>1, <2>1, PeerType DEF Inv
      <3>4. vv \in [Node -> StampOrNone]
        BY <3>3, <1>1, VersionVectorType
      <3>5. /\ CollectChanges(Peer(n), askVV[n]) \subseteq written
            /\ CollectChanges(Peer(n), askVV[n]) \in SUBSET Change
        BY <3>3, <1>1, <2>2, CollectHeld
      <3>6. /\ askVV' \in [Node -> [Node -> StampOrNone]]
            /\ replyVV' \in [Node -> [Node -> StampOrNone]]
            /\ inbox' \in [Node -> SUBSET Change]
            /\ \A m \in Node : inbox'[m] \subseteq written
        BY <3>1, <3>2, <3>4, <3>5, <2>1, NoVVType
      <3>7. QED
        BY <3>1, <3>6, <1>1, <2>1 DEF storeVars, SessionInv, TypeOK
    <2>6. ASSUME NEW n \in Node, ApplyPull(n)
          PROVE  SessionInv'
      <3>1. /\ pc[n] = "pulled" /\ pc' = [pc EXCEPT ![n] = "applied"]
            /\ inbox' = [inbox EXCEPT ![n] = {}]
            /\ UNCHANGED <<nid, written, turn, askVV, replyVV, pushes, fails>>
        BY <2>6 DEF ApplyPull, ApplyChanges
      <3>2. QED
        BY <3>1, <1>1, <2>1 DEF SessionInv, TypeOK
    <2>7. ASSUME NEW n \in Node, SendPush(n)
          PROVE  SessionInv'
      <3> DEFINE p == [from |-> n, to |-> Peer(n), try |-> fails[n],
                       changes |-> CollectChanges(n, replyVV[n])]
      <3>1. /\ pc[n] = "applied" /\ pc' = [pc EXCEPT ![n] = "pushing"]
            /\ pushes' = pushes \cup {p}
            /\ replyVV' = [replyVV EXCEPT ![n] = NoVV]
            /\ UNCHANGED <<storeVars, turn, askVV, inbox, fails>>
        BY <2>7 DEF SendPush
      <3>2. Peer(n) \in Node
        BY <3>1, <2>1, PeerType DEF Inv
      <3>3. p \in Push /\ p.changes \subseteq written
        BY <3>2, <1>1, <2>1, <2>2, CollectHeld DEF Push
      <3> HIDE DEF p
      <3>4. QED
        BY <3>1, <3>3, <1>1, <2>1, NoVVType DEF storeVars, SessionInv, TypeOK
    <2>8. ASSUME NEW n \in Node, FailSession(n)
          PROVE  SessionInv'
      <3>1. /\ pc[n] # "idle" /\ EndSession(n)
            /\ fails' = [fails EXCEPT ![n] = fails[n] + 1]
            /\ UNCHANGED <<storeVars, pushes>>
        BY <2>8 DEF FailSession
      <3>2. fails' \in [Node -> Nat]
        BY <3>1, <2>1
      <3>3. QED
        BY <3>1, <3>2, <1>1, <2>1, EndKeeps DEF storeVars, Inv, SessionInv, TypeOK
    <2>9. ASSUME NEW p \in pushes, ServePush(p)
          PROVE  SessionInv'
      <3>1. /\ pushes' = pushes \ {p} /\ UNCHANGED <<nid, written, fails>>
            /\ \/ Waiting(p) /\ EndSession(p.from)
               \/ UNCHANGED <<pc, turn, askVV, replyVV, inbox>>
        BY <2>9 DEF ServePush, ApplyChanges
      <3>2. CASE Waiting(p) /\ EndSession(p.from)
        <4>1. p.from \in Node /\ pc[p.from] # "idle"
          BY <3>2, <2>1 DEF Waiting, Push
        <4>2. QED
          BY <4>1, <3>1, <3>2, <1>1, <2>1, EndKeeps DEF Inv, SessionInv, TypeOK
      <3>3. CASE UNCHANGED <<pc, turn, askVV, replyVV, inbox>>
        BY <3>1, <3>3, <1>1, <2>1 DEF SessionInv, TypeOK
      <3>4. QED
        BY <3>1, <3>2, <3>3
    <2>10. ASSUME NEW p \in pushes, LosePush(p)
           PROVE  SessionInv'
      <3>1. /\ pushes' = pushes \ {p} /\ UNCHANGED storeVars
            /\ \/ /\ Waiting(p) /\ EndSession(p.from)
                  /\ fails' = [fails EXCEPT ![p.from] = @ + 1]
               \/ UNCHANGED <<pc, turn, askVV, replyVV, inbox, fails>>
        BY <2>10 DEF LosePush
      <3>2. CASE /\ Waiting(p) /\ EndSession(p.from)
                 /\ fails' = [fails EXCEPT ![p.from] = @ + 1]
        <4>1. p.from \in Node /\ pc[p.from] # "idle"
          BY <3>2, <2>1 DEF Waiting, Push
        <4>2. fails' \in [Node -> Nat]
          BY <4>1, <3>2, <2>1
        <4>3. QED
          BY <4>1, <4>2, <3>1, <3>2, <1>1, <2>1, EndKeeps
          DEF storeVars, Inv, SessionInv, TypeOK
      <3>3. CASE UNCHANGED <<pc, turn, askVV, replyVV, inbox, fails>>
        BY <3>1, <3>3, <1>1, <2>1 DEF storeVars, SessionInv, TypeOK
      <3>4. QED
        BY <3>1, <3>2, <3>3
    <2>11. ASSUME NEW src \in Node, NEW dst \in Node, ResetNode(src, dst)
           PROVE  SessionInv'
      <3>1. /\ nid' = [nid EXCEPT ![dst] = dst] /\ UNCHANGED <<written, sessionVars>>
        BY <2>11 DEF ResetNode
      <3>2. \A m \in Node : nid[m] # 0 => nid'[m] # 0
        BY <3>1, <1>1, NodeAssumption DEF StoreTypeOK
      <3>3. QED
        BY <3>1, <3>2, <1>1, <2>1 DEF sessionVars, SessionInv, TypeOK
    <2>12. QED
      BY <2>3, <2>4, <2>5, <2>6, <2>7, <2>8, <2>9, <2>10, <2>11 DEF Next
  <1>4. QED
    BY <1>2, <1>3
-----------------------------------------------------------------------------
\* Inv is an inductive invariant.
THEOREM Invariance == Spec => []Inv
  <1>1. Init => Inv
    BY InitInv
  <1>2. Inv /\ [Next]_vars => Inv'
    BY StepStoreInv, StepSessionInv DEF Inv
  <1>3. QED
    BY <1>1, <1>2, PTL DEF Spec

\* Every variable of the databases and of the sync sessions has its type: in
\* particular every stamp that apply_changes stores or a trigger writes names
\* an identity.
THEOREM TypeCorrect == Spec => []TypeOK
  <1>1. Inv => TypeOK
    BY DEF Inv, SessionInv
  <1>2. QED
    BY <1>1, Invariance, PTL

\* A node's clock is never behind a row or a tombstone it holds
\* (hlc_absorb in apply_changes, the high-water mark of reset_node).
THEOREM ClockDominance == Spec => []ClockDominates
  <1>1. Inv => ClockDominates
    BY DEF Inv, StoreInv, HistoryInv
  <1>2. QED
    BY <1>1, Invariance, PTL

\* No two local writes of the mesh have the same stamp: neither a wall clock
\* that stands still nor a cloned database makes a node repeat one.
THEOREM UniqueStamps == Spec => []StampsUnique
  <1>1. Inv => StampsUnique
    BY DEF Inv, StoreInv, HistoryInv
  <1>2. QED
    BY <1>1, Invariance, PTL

\* apply_changes never brings a deleted row back.
THEOREM NoneResurrected == Spec => []NoResurrection
  <1>1. Inv => NoResurrection
    BY DEF Inv, StoreInv, HistoryInv
  <1>2. QED
    BY <1>1, Invariance, PTL

-----------------------------------------------------------------------------
\* Last writer wins at every step.

\* A merge covers whatever the node covered.
LEMMA ApplyCovers ==
  ASSUME HistoryInv, NEW n \in Node, NEW changes \in SUBSET written,
         ApplyChanges(n, changes),
         NEW m \in Node, NEW g \in Gid, NEW s \in Stamp, Covers(m, g, s)
  PROVE  Covers(m, g, s)'
  <1>1. changes \in SUBSET Change
    BY DEF HistoryInv, StoreTypeOK
  <1>2. /\ row[n] \in [Gid -> StampOrNone] /\ tomb[n] \in SUBSET Change
        /\ s \in StampOrNone
    BY DEF HistoryInv, StoreTypeOK, StampOrNone
  <1>3. /\ \A k \in Node \ {n} : row'[k] = row[k] /\ tomb'[k] = tomb[k]
        /\ \A h \in Gid : row'[n][h] = AfterDeletes(row[n], tomb[n], changes, h)
        /\ tomb'[n] = tomb[n] \cup Deletes(changes)
    BY <1>1, ApplyEffect DEF HistoryInv
  <1>4. CASE m # n \/ \E t \in tomb[m] : t.gid = g /\ Leq(s, t.hlc)
    BY <1>3, <1>4 DEF Covers
  <1>5. CASE m = n /\ Leq(s, row[n][g])
    BY <1>1, <1>2, <1>3, <1>5, MergeCovers DEF Covers
  <1>6. QED
    BY <1>4, <1>5 DEF Covers

\* So does a local write, which outranks the version it replaces.
LEMMA WriteCovers ==
  ASSUME HistoryInv, NEW n \in Node, NEW h \in Gid,
         LocalPut(n, h) \/ LocalDelete(n, h),
         NEW m \in Node, NEW g \in Gid, NEW s \in Stamp, Covers(m, g, s)
  PROVE  Covers(m, g, s)'
  <1>1. PICK w \in Change :
          /\ w.gid = h /\ Issues(n, w)
          /\ \/ /\ row' = [row EXCEPT ![n][h] = w.hlc]
                /\ tomb' = tomb
             \/ /\ row' = [row EXCEPT ![n][h] = NoStamp]
                /\ tomb' = [tomb EXCEPT ![n] = @ \cup {w}]
    BY PutEffect, DeleteEffect
  <1>2. /\ row \in [Node -> [Gid -> StampOrNone]] /\ tomb \in [Node -> SUBSET Change]
        /\ s \in StampOrNone /\ w.hlc \in StampOrNone /\ w.hlc \in Stamp
    BY ChangeType DEF HistoryInv, StoreTypeOK, StampOrNone
  <1>3. \A k \in Node : tomb[k] \subseteq tomb'[k]
    BY <1>1, <1>2
  <1>4. \A k \in Node, i \in Gid : k # n \/ i # h => row'[k][i] = row[k][i]
    BY <1>1, <1>2
  <1>5. CASE \E t \in tomb[m] : t.gid = g /\ Leq(s, t.hlc)
    BY <1>3, <1>5 DEF Covers
  <1>6. CASE Leq(s, row[m][g]) /\ (m # n \/ g # h)
    BY <1>4, <1>6 DEF Covers
  <1>7. CASE Leq(s, row[m][g]) /\ m = n /\ g = h
    <2>1. row[n][h] # NoStamp
      BY <1>7, NoStampLeast
    <2>2. [op |-> "put", gid |-> h, hlc |-> row[n][h]] \in Held(n)
      BY <2>1 DEF Held, HeldRows
    <2>3. Less(row[n][h], w.hlc)
      BY <2>2, <1>1, Outranked
    <2>4. Leq(s, w.hlc)
      BY <2>3, <1>2, <1>7, LessLeqTransitive DEF Leq
    <2>5. row'[n][h] = w.hlc \/ w \in tomb'[n]
      BY <1>1, <1>2
    <2>6. QED
      BY <2>4, <2>5, <1>1, <1>7 DEF Covers
  <1>8. QED
    BY <1>5, <1>6, <1>7 DEF Covers

\* A node without a database covers nothing, so cloning takes nothing back.
LEMMA ResetCovers ==
  ASSUME StoreInv, NEW src \in Node, NEW dst \in Node, ResetNode(src, dst),
         NEW m \in Node, NEW g \in Gid, NEW s \in Stamp, Covers(m, g, s)
  PROVE  Covers(m, g, s)'
  <1>1. /\ nid[dst] = 0
        /\ row' = [row EXCEPT ![dst] = row[src]]
        /\ tomb' = [tomb EXCEPT ![dst] = tomb[src]]
    BY ResetEffect
  <1>2. CASE m = dst
    <2>1. row[m][g] = NoStamp /\ tomb[m] = {}
      BY <1>1, <1>2 DEF StoreInv, HistoryInv, OwnIdentity
    <2>2. QED
      BY <2>1, NoStampLeast DEF Covers
  <1>3. CASE m # dst
    BY <1>1, <1>3 DEF Covers, StoreInv, HistoryInv, StoreTypeOK
  <1>4. QED
    BY <1>2, <1>3

\* What a node has, or has something newer for, it keeps.
LEMMA MoveCovers ==
  ASSUME StoreInv, StoreMove,
         NEW m \in Node, NEW g \in Gid, NEW s \in Stamp, Covers(m, g, s)
  PROVE  Covers(m, g, s)'
  <1>1. CASE UNCHANGED storeVars
    BY <1>1 DEF storeVars, Covers
  <1>2. QED
    BY <1>1, ApplyCovers, WriteCovers, ResetCovers DEF StoreMove, StoreInv

\* The same of a step of the mesh.
LEMMA StepCovers ==
  ASSUME Inv, [Next]_vars,
         NEW m \in Node, NEW g \in Gid, NEW s \in Stamp, Covers(m, g, s)
  PROVE  Covers(m, g, s)'
  BY StoreStep, MoveCovers DEF Inv

\* Last writer wins at every node and at every step: whatever version of a row
\* a node has, no merge, write or cloning replaces it by an older one.
THEOREM NeverGoesBack == Spec => NeverBack
  <1>1. Inv /\ [Next]_vars =>
          [\A n \in Node : \A w \in written :
             Covers(n, w.gid, w.hlc) => Covers(n, w.gid, w.hlc)']_vars
    <2> SUFFICES ASSUME Inv, [Next]_vars, NEW n \in Node, NEW w \in written,
                        Covers(n, w.gid, w.hlc)
                 PROVE  Covers(n, w.gid, w.hlc)'
      OBVIOUS
    <2>1. w.gid \in Gid /\ w.hlc \in Stamp
      BY ChangeType DEF Inv, StoreInv, HistoryInv, StoreTypeOK
    <2>2. QED
      BY <2>1, StepCovers
  <1>2. QED
    BY <1>1, Invariance, PTL DEF Spec, NeverBack

-----------------------------------------------------------------------------
\* The mesh implements ReplicatedMap, under the mapping of SyncRefinement.

\* Membership in the refinement mapping, before and after a step.
LEMMA SeenMember ==
  ASSUME NEW n \in Node
  PROVE  /\ \A w : w \in seen[n] <=> w \in written /\ Covers(n, w.gid, w.hlc)
         /\ \A w : w \in seen'[n] <=> w \in written' /\ Covers(n, w.gid, w.hlc)'
  BY DEF seen

\* The two copies of the order of the stamps are the same.
LEMMA OutranksLess ==
  \A v, w : Map!Outranks(v, w) <=> Less(w.hlc, v.hlc)
  BY DEF Map!Outranks, Map!Less, Less

-----------------------------------------------------------------------------
\* A step that changes the databases of n alone and no write adds to what n
\* has seen.
LEMMA LearnStep ==
  ASSUME StoreInv, StoreMove, NEW n \in Node, written' = written,
         \A m \in Node \ {n} : row'[m] = row[m] /\ tomb'[m] = tomb[m]
  PROVE  Map!Learn(n)
  <1>1. seen[n] \subseteq seen'[n]
    <2> SUFFICES ASSUME NEW w \in seen[n] PROVE w \in seen'[n]
      OBVIOUS
    <2>1. w \in written /\ Covers(n, w.gid, w.hlc)
      BY SeenMember
    <2>2. w.gid \in Gid /\ w.hlc \in Stamp
      BY <2>1, ChangeType DEF StoreInv, HistoryInv, StoreTypeOK
    <2>3. QED
      BY <2>1, <2>2, MoveCovers, SeenMember
  <1>2. seen'[n] = Map!Below(seen'[n], written)
    <2>1. ASSUME NEW v \in written, NEW u \in seen'[n], u.gid = v.gid, Less(v.hlc, u.hlc)
          PROVE  v \in seen'[n]
      <3>1. u \in written /\ Covers(n, u.gid, u.hlc)'
        BY <2>1, SeenMember
      <3>2. /\ v.hlc \in StampOrNone /\ u.hlc \in StampOrNone /\ u.gid \in Gid
        BY <3>1, ChangeType DEF StoreInv, HistoryInv, StoreTypeOK
      <3>3. /\ row'[n][u.gid] \in StampOrNone
            /\ \A t \in tomb'[n] : t.hlc \in StampOrNone
        BY <3>2, MoveKeepsStoreInv, ChangeType DEF StoreInv, HistoryInv, StoreTypeOK
      <3>4. Covers(n, v.gid, v.hlc)'
        BY <2>1, <3>1, <3>2, <3>3, LessLeqTransitive DEF Covers, Leq
      <3>5. QED
        BY <3>4, SeenMember
    <2>2. seen'[n] \subseteq written
      BY SeenMember
    <2>3. QED
      BY <2>1, <2>2, OutranksLess DEF Map!Below, Map!SameRow
  <1>3. seen' = [seen EXCEPT ![n] = seen'[n]]
    <2>1. \A m \in Node \ {n} : seen'[m] = seen[m]
      BY DEF seen, Covers
    <2>2. QED
      BY <2>1 DEF seen
  <1>4. QED
    BY <1>1, <1>2, <1>3 DEF Map!Learn

-----------------------------------------------------------------------------
\* A local write outranks what its author has seen, and another node has seen
\* it only if it has something newer for the row.
LEMMA WriteStep ==
  ASSUME StoreInv, StoreMove, NEW n \in Node, NEW g \in Gid,
         LocalPut(n, g) \/ LocalDelete(n, g)
  PROVE  Map!Write(n)
  <1>1. PICK w \in Change :
          /\ w.gid = g /\ Issues(n, w)
          /\ \/ /\ tomb' = tomb /\ row' = [row EXCEPT ![n][g] = w.hlc]
             \/ /\ row' = [row EXCEPT ![n][g] = NoStamp]
                /\ tomb' = [tomb EXCEPT ![n] = @ \cup {w}]
    BY PutEffect, DeleteEffect DEF StoreInv
  <1>2. /\ row \in [Node -> [Gid -> StampOrNone]] /\ tomb \in [Node -> SUBSET Change]
        /\ StoreTypeOK' /\ StoreInv'
    BY MoveKeepsStoreInv DEF StoreInv, HistoryInv, StoreTypeOK
  <1>3. w \in written' \ written
    BY <1>1, Outranked DEF StoreInv, Issues
  <1>4. Covers(n, w.gid, w.hlc)'
    BY <1>1, <1>2 DEF Covers, Leq
  <1>5. \A v \in seen[n] : Map!Outranks(w, v)
    <2> SUFFICES ASSUME NEW v \in written, Covers(n, v.gid, v.hlc)
                 PROVE  Less(v.hlc, w.hlc)
      BY SeenMember, OutranksLess
    <2>1. /\ v.gid \in Gid /\ v.hlc \in Stamp /\ v.hlc \in StampOrNone
          /\ w.hlc \in StampOrNone
      BY <1>1, ChangeType DEF StoreInv, HistoryInv, StoreTypeOK
    <2>2. PICK c \in Held(n) : Leq(v.hlc, c.hlc)
      <3>1. CASE Leq(v.hlc, row[n][v.gid])
        <4>1. row[n][v.gid] # NoStamp
          BY <3>1, <2>1, NoStampLeast
        <4>2. [op |-> "put", gid |-> v.gid, hlc |-> row[n][v.gid]] \in Held(n)
          BY <4>1, <2>1 DEF Held, HeldRows
        <4>3. QED
          BY <3>1, <4>2
      <3>2. CASE \E t \in tomb[n] : t.gid = v.gid /\ Leq(v.hlc, t.hlc)
        BY <3>2 DEF Held
      <3>3. QED
        BY <3>1, <3>2 DEF Covers
    <2>3. c.hlc \in StampOrNone
      BY HeldType, ChangeType DEF StoreInv, HistoryInv
    <2>4. Less(c.hlc, w.hlc)
      BY <1>1, Outranked DEF StoreInv
    <2>5. QED
      BY <2>1, <2>2, <2>3, <2>4, LessLeqTransitive
  <1>6. ASSUME NEW m \in Node
        PROVE  seen'[m] = Map!Below(IF m = n THEN seen[m] \cup {w} ELSE seen[m], written')
    <2> DEFINE S == IF m = n THEN seen[m] \cup {w} ELSE seen[m]
    <2>1. ASSUME NEW u \in S
          PROVE  u \in written' /\ Covers(m, u.gid, u.hlc)'
      <3>1. CASE u \in seen[m]
        BY <3>1, SeenMember, MoveKeepsWritten, ChangeType, MoveCovers
           DEF StoreInv, HistoryInv, StoreTypeOK
      <3>2. CASE m = n /\ u = w
        BY <3>2, <1>3, <1>4
      <3>3. QED
        BY <3>1, <3>2
    <2>2. ASSUME NEW v \in written', NEW u \in S, u.gid = v.gid,
                 u = v \/ Less(v.hlc, u.hlc)
          PROVE  v \in seen'[m]
      <3>1. u \in written' /\ Covers(m, u.gid, u.hlc)'
        BY <2>1
      <3>2. /\ v.hlc \in StampOrNone /\ u.hlc \in StampOrNone /\ u.gid \in Gid
        BY <1>2, <3>1, ChangeType DEF StoreTypeOK
      <3>3. /\ row'[m][u.gid] \in StampOrNone
            /\ \A t \in tomb'[m] : t.hlc \in StampOrNone
        BY <1>2, <3>2, ChangeType DEF StoreTypeOK
      <3>4. Covers(m, v.gid, v.hlc)'
        BY <2>2, <3>1, <3>2, <3>3, LessLeqTransitive DEF Covers, Leq
      <3>5. QED
        BY <3>4, SeenMember
    <2>3. ASSUME NEW v \in seen'[m]
          PROVE  \E u \in S : u.gid = v.gid /\ (u = v \/ Less(v.hlc, u.hlc))
      <3>1. v \in written' /\ Covers(m, v.gid, v.hlc)'
        BY SeenMember
      <3>2. v \in Change /\ v.gid \in Gid /\ v.hlc \in Stamp
        BY <1>2, <3>1, ChangeType DEF StoreTypeOK
      <3>3. PICK c \in Held(m)' : c.gid = v.gid /\ Leq(v.hlc, c.hlc)
        <4>1. CASE Leq(v.hlc, row'[m][v.gid])
          <5>1. row'[m][v.gid] # NoStamp
            BY <4>1, <3>2, NoStampLeast
          <5>2. [op |-> "put", gid |-> v.gid, hlc |-> row'[m][v.gid]] \in Held(m)'
            BY <5>1, <3>2 DEF Held, HeldRows
          <5>3. QED
            BY <4>1, <5>2
        <4>2. CASE \E t \in tomb'[m] : t.gid = v.gid /\ Leq(v.hlc, t.hlc)
          BY <4>2 DEF Held
        <4>3. QED
          BY <3>1, <4>1, <4>2 DEF Covers
      <3>4. c \in written' /\ (c = v \/ Less(v.hlc, c.hlc))
        BY <1>2, <3>1, <3>3 DEF StoreInv, HistoryInv, HeldWritten, StampsUnique, Leq
      <3>5. c \in S
        <4>1. c = w \/ c \in written
          BY <3>4, <1>1 DEF Issues
        <4>2. CASE m = n /\ c = w
          BY <4>2
        <4>3. CASE m # n
          <5>1. row'[m] = row[m] /\ tomb'[m] = tomb[m]
            BY <4>3, <1>1, <1>2
          <5>2. c \in Held(m)
            BY <5>1 DEF Held, HeldRows
          <5>3. c \in written /\ Covers(m, c.gid, c.hlc)
            BY <5>2 DEF StoreInv, HistoryInv, HeldWritten, Held, HeldRows, Covers, Leq
          <5>4. QED
            BY <4>3, <5>3, SeenMember
        <4>4. CASE m = n /\ c # w
          <5>1. c \in Held(n)
            <6>1. c.hlc # w.hlc
              BY <1>2, <1>3, <3>4, <4>4 DEF StoreInv, HistoryInv, StampsUnique
            <6>2. CASE c \in tomb'[n]
              BY <6>2, <4>4, <1>1, <1>2 DEF Held
            <6>3. CASE c \notin tomb'[n]
              <7>1. PICK h \in Gid : /\ row'[n][h] # NoStamp
                         /\ c = [op |-> "put", gid |-> h, hlc |-> row'[n][h]]
                BY <6>3, <4>4 DEF Held, HeldRows
              <7>2. row'[n][h] = row[n][h]
                BY <7>1, <6>1, <1>1, <1>2
              <7>3. QED
                BY <7>1, <7>2 DEF Held, HeldRows
            <6>4. QED
              BY <6>2, <6>3
          <5>2. c \in written /\ Covers(n, c.gid, c.hlc)
            BY <5>1 DEF StoreInv, HistoryInv, HeldWritten, Held, HeldRows, Covers, Leq
          <5>3. QED
            BY <4>4, <5>2, SeenMember
        <4>5. QED
          BY <4>2, <4>3, <4>4
      <3>6. QED
        BY <3>3, <3>4, <3>5
    <2> HIDE DEF S
    <2>4. seen'[m] \subseteq written'
      BY SeenMember
    <2>5. seen'[m] = Map!Below(S, written')
      BY <2>2, <2>3, <2>4, OutranksLess DEF Map!Below, Map!SameRow
    <2>6. QED
      BY <2>5 DEF S
  <1>7. seen' = [m \in Node |->
                   Map!Below(IF m = n THEN seen[m] \cup {w} ELSE seen[m], written')]
    BY <1>6 DEF seen
  <1>8. QED
    BY <1>1, <1>3, <1>5, <1>7 DEF Map!Write, Issues
-----------------------------------------------------------------------------
\* Initial states map to initial states.
LEMMA InitRefines ==
  ASSUME Init
  PROVE  Map!Init
  BY DEF Init, Map!Init, seen

\* Every move maps to a write, to a learning step or to a stutter.
LEMMA MoveRefines ==
  ASSUME StoreInv, StoreMove
  PROVE  [Map!Next]_<<written, seen>>
  <1>1. CASE UNCHANGED storeVars
    BY <1>1 DEF storeVars, seen, Covers
  <1>2. CASE \E n \in Node, g \in Gid : LocalPut(n, g) \/ LocalDelete(n, g)
    BY <1>2, WriteStep DEF Map!Next
  <1>3. ASSUME NEW n \in Node, NEW S \in SUBSET written, ApplyChanges(n, S)
        PROVE  Map!Learn(n)
    <2>1. S \in SUBSET Change
      BY DEF StoreInv, HistoryInv, StoreTypeOK
    <2>2. QED
      BY <2>1, <1>3, ApplyEffect, LearnStep DEF StoreInv, HistoryInv
  <1>4. ASSUME NEW src \in Node, NEW dst \in Node, ResetNode(src, dst)
        PROVE  Map!Learn(dst)
    BY <1>4, LearnStep DEF ResetNode, StoreInv, HistoryInv, StoreTypeOK
  <1>5. QED
    BY <1>1, <1>2, <1>3, <1>4 DEF Map!Next, StoreMove

\* The mesh implements the replicated map: every step, whatever is lost, late,
\* repeated or cloned, is a write that outranks all its author has seen, adds
\* to what one node has seen, or changes nothing a user of the rows can see.
THEOREM MeshImplementsMap == Spec => ImplementsMap
  <1>1. Init => Map!Init
    BY InitRefines
  <1>2. Inv /\ [Next]_vars => [Map!Next]_<<written, seen>>
    BY StoreStep, MoveRefines DEF Inv
  <1>3. QED
    BY <1>1, <1>2, Invariance, PTL DEF Spec, ImplementsMap, Map!Spec
=============================================================================
