---------------------------- MODULE SyncGapProofs ----------------------------
(***************************************************************************)
(* Proof that the version vectors of the mesh are honest (NoGap), for any  *)
(* topology: the argument for why a node may leave out of a changeset what *)
(* its peer's version vector says the peer has.                            *)
(***************************************************************************)
EXTENDS SyncProofs

\* vv claims no more than n has: its entries are stamps of writes, and n has
\* or has overwritten every write up to them.
Honest(n, vv) ==
  /\ \A o \in Node : vv[o] # NoStamp =>
       \E w \in written : w.hlc = vv[o] /\ Origin(w.hlc) = o
  /\ \A w \in written :
       Leq(w.hlc, vv[Origin(w.hlc)]) => Covers(n, w.gid, w.hlc)

\* With the changeset S, n gets every write that it still lacks up to the
\* highest stamp of each origin in S.
Delivers(n, S) ==
  \A c \in S, w \in written :
    Origin(w.hlc) = Origin(c.hlc) /\ Leq(w.hlc, c.hlc) =>
      \/ Covers(n, w.gid, w.hlc)
      \/ \E d \in S : d.gid = w.gid /\ Leq(w.hlc, d.hlc)

\* The author of a write covers it.
OwnCovered == \A w \in written : Covers(Origin(w.hlc), w.gid, w.hlc)

\* The version vectors and the changeset in a session of n are sound.
SessionGap(n) ==
  /\ pc[n] = "pulling" => Honest(n, askVV[n])
  /\ pc[n] \in {"pulled", "applied"} => Honest(Peer(n), replyVV[n])
  /\ pc[n] = "pulled" => OnePut(inbox[n]) /\ Delivers(n, inbox[n])

GapInv ==
  /\ NoGap
  /\ OwnCovered
  /\ \A n \in Node : \A t \in tomb[n] : t.op = "del"
  /\ \A n \in Node : SessionGap(n)
  /\ \A p \in pushes : OnePut(p.changes) /\ Delivers(p.to, p.changes)

-----------------------------------------------------------------------------
\* When no node has gaps, a version vector computed from its store is honest.
LEMMA VersionVectorHonest ==
  ASSUME Inv, NoGap, NEW n \in Node, nid[n] # 0, NEW vv \in VersionVectors(n)
  PROVE  Honest(n, vv)
  <1>1. vv \in [Node -> StampOrNone] /\ IsVersionVector(n, vv)
    BY VersionVectorType DEF Inv, StoreInv, HistoryInv
  <1>2. Held(n) \subseteq written
    BY DEF Inv, StoreInv, HistoryInv, HeldWritten
  <1>3. ASSUME NEW w \in written, Leq(w.hlc, vv[Origin(w.hlc)])
        PROVE  Covers(n, w.gid, w.hlc)
    <2>1. w.hlc \in Stamp /\ Origin(w.hlc) \in Node
      BY ChangeType DEF Inv, StoreInv, HistoryInv, StoreTypeOK
    <2>2. vv[Origin(w.hlc)] # NoStamp
      BY <1>3, <2>1, NoStampLeast
    <2>3. PICK c \in Held(n) : c.hlc = vv[Origin(w.hlc)] /\ Origin(c.hlc) = Origin(w.hlc)
      BY <1>1, <2>1, <2>2 DEF IsVersionVector
    <2>4. QED
      BY <1>3, <2>3 DEF NoGap
  <1>4. QED
    BY <1>1, <1>2, <1>3 DEF Honest, IsVersionVector

\* A node that covers s covers what is older on the same row.
LEMMA CoversOlder ==
  ASSUME StoreTypeOK, NEW n \in Node, NEW g \in Gid, NEW s \in Stamp, NEW u \in Stamp,
         Leq(u, s), Covers(n, g, s)
  PROVE  Covers(n, g, u)
  <1>1. /\ row[n][g] \in StampOrNone /\ \A t \in tomb[n] : t.hlc \in StampOrNone
        /\ s \in StampOrNone /\ u \in StampOrNone
    BY ChangeType DEF StoreTypeOK, StampOrNone
  <1>2. QED
    BY <1>1, LeqTransitive DEF Covers

\* What m collects against an honest version vector of n leaves no gap at n.
LEMMA CollectDelivers ==
  ASSUME Inv, NoGap, NEW m \in Node, nid[m] # 0, NEW n \in Node,
         NEW vv \in [Node -> StampOrNone], Honest(n, vv)
  PROVE  Delivers(n, CollectChanges(m, vv))
  <1> SUFFICES ASSUME NEW c \in CollectChanges(m, vv), NEW w \in written,
                      Origin(w.hlc) = Origin(c.hlc), Leq(w.hlc, c.hlc),
                      ~ Covers(n, w.gid, w.hlc)
               PROVE  \E d \in CollectChanges(m, vv) :
                        d.gid = w.gid /\ Leq(w.hlc, d.hlc)
    BY DEF Delivers
  <1>1. w \in Change /\ w.gid \in Gid /\ w.hlc \in Stamp
    BY ChangeType DEF Inv, StoreInv, HistoryInv, StoreTypeOK
  <1>2. Covers(m, w.gid, w.hlc)
    BY DEF CollectChanges, NoGap
  <1>3. PICK d \in Held(m) : d.gid = w.gid /\ Leq(w.hlc, d.hlc)
    <2>1. CASE Leq(w.hlc, row[m][w.gid])
      <3>1. row[m][w.gid] # NoStamp
        BY <2>1, <1>1, NoStampLeast
      <3>2. [op |-> "put", gid |-> w.gid, hlc |-> row[m][w.gid]] \in Held(m)
        BY <3>1, <1>1 DEF Held, HeldRows
      <3>3. QED
        BY <2>1, <3>2
    <2>2. CASE \E t \in tomb[m] : t.gid = w.gid /\ Leq(w.hlc, t.hlc)
      BY <2>2 DEF Held
    <2>3. QED
      BY <1>2, <2>1, <2>2 DEF Covers
  <1>4. /\ d \in written /\ d \in Change /\ d.hlc \in Stamp /\ d.hlc \in StampOrNone
        /\ Origin(d.hlc) \in Node
    BY HeldType, ChangeType DEF Inv, StoreInv, HistoryInv, HeldWritten
  <1>5. CASE Less(vv[Origin(d.hlc)], d.hlc)
    BY <1>3, <1>5 DEF CollectChanges
  <1>6. CASE Leq(d.hlc, vv[Origin(d.hlc)])
    <2>1. Covers(n, d.gid, d.hlc)
      BY <1>4, <1>6 DEF Honest
    <2>2. QED
      BY <2>1, <1>1, <1>3, <1>4, CoversOlder DEF Inv, StoreInv, HistoryInv
  <1>7. QED
    BY <1>4, <1>5, <1>6, NotLeq

\* A collected changeset has one put per row, as a node has one version of a row.
LEMMA CollectOnePut ==
  ASSUME NEW m \in Node, NEW vv, \A t \in tomb[m] : t.op = "del"
  PROVE  OnePut(CollectChanges(m, vv))
  BY DEF OnePut, CollectChanges, Held, HeldRows

-----------------------------------------------------------------------------
\* A new write is after all writes of its author.
LEMMA NewWriteAbove ==
  ASSUME Inv, [Next]_vars, NEW w \in written' \ written,
         NEW v \in written, Origin(v.hlc) = Origin(w.hlc)
  PROVE  w.hlc \in Stamp /\ Less(v.hlc, w.hlc)
  <1>1. ASSUME NEW n \in Node, NEW g \in Gid, LocalPut(n, g) \/ LocalDelete(n, g)
        PROVE  w.hlc \in Stamp /\ Less(v.hlc, w.hlc)
    <2>1. PICK u \in Change : Issues(n, u)
      BY <1>1, PutEffect, DeleteEffect DEF Inv, StoreInv
    <2>2. u = w
      BY <2>1 DEF Issues
    <2>3. Less(v.hlc, u.hlc)
      BY <2>1, <2>2, Outranked DEF Inv, StoreInv, Issues
    <2>4. QED
      BY <2>2, <2>3, ChangeType
  <1>2. \E n \in Node, g \in Gid : LocalPut(n, g) \/ LocalDelete(n, g)
    BY StoreStep DEF StoreMove, storeVars, vars, ApplyChanges, ResetNode
  <1>3. QED
    BY <1>1, <1>2

\* Writes are never forgotten, and have the parts of a change.
LEMMA WrittenOnly ==
  ASSUME Inv, [Next]_vars
  PROVE  /\ written \subseteq written'
         /\ \A w \in written : w \in Change /\ w.gid \in Gid /\ w.hlc \in Stamp
                               /\ w.hlc \in StampOrNone
  BY StepStoreInv, ChangeType DEF vars, storeVars, Inv, StoreInv, HistoryInv, StoreTypeOK

\* A version vector that was honest stays so while it travels: what a node covers it
\* keeps covering, and new writes lie above the vector.
LEMMA HonestKept ==
  ASSUME Inv, [Next]_vars, NEW n \in Node, NEW vv \in [Node -> StampOrNone],
         Honest(n, vv)
  PROVE  Honest(n, vv)'
  <1>1. ASSUME NEW w \in written', Leq(w.hlc, vv[Origin(w.hlc)])
        PROVE  Covers(n, w.gid, w.hlc)'
    <2>1. CASE w \in written
      BY <2>1, <1>1, WrittenOnly, StepCovers DEF Honest
    <2>2. CASE w \notin written
      <3>1. w \in Change /\ Origin(w.hlc) \in Node /\ w.hlc \in Stamp /\ w.hlc \in StampOrNone
        BY StepStoreInv, ChangeType DEF StoreInv, HistoryInv, StoreTypeOK
      <3>2. vv[Origin(w.hlc)] # NoStamp
        BY <1>1, <3>1, NoStampLeast
      <3>3. PICK v \in written : v.hlc = vv[Origin(w.hlc)] /\ Origin(v.hlc) = Origin(w.hlc)
        BY <3>1, <3>2 DEF Honest
      <3>4. Less(v.hlc, w.hlc) /\ v.hlc \in StampOrNone
        BY <2>2, <3>3, NewWriteAbove, WrittenOnly
      <3>5. QED
        BY <1>1, <3>1, <3>3, <3>4, NotLeq
    <2>3. QED
      BY <2>1, <2>2
  <1>2. QED
    BY <1>1, WrittenOnly DEF Honest

\* A changeset that closes the gaps of a node still does after any step.
LEMMA DeliversKept ==
  ASSUME Inv, [Next]_vars, NEW n \in Node, NEW S \in SUBSET written, Delivers(n, S)
  PROVE  Delivers(n, S)'
  <1> SUFFICES ASSUME NEW c \in S, NEW w \in written',
                      Origin(w.hlc) = Origin(c.hlc), Leq(w.hlc, c.hlc)
               PROVE  \/ Covers(n, w.gid, w.hlc)'
                      \/ \E d \in S : d.gid = w.gid /\ Leq(w.hlc, d.hlc)
    BY DEF Delivers
  <1>1. CASE w \in written
    BY <1>1, WrittenOnly, StepCovers DEF Delivers
  <1>2. CASE w \notin written
    <2>1. w.hlc \in Stamp /\ Less(c.hlc, w.hlc)
      BY <1>2, NewWriteAbove
    <2>2. QED
      BY <2>1, WrittenOnly, NotLeq DEF StampOrNone
  <1>3. QED
    BY <1>1, <1>2
-----------------------------------------------------------------------------
\* After a merge the node covers every change of the changeset.
LEMMA ApplyReceives ==
  ASSUME StoreInv, NEW n \in Node, NEW S \in SUBSET written, OnePut(S),
         ApplyChanges(n, S), NEW d \in S
  PROVE  Covers(n, d.gid, d.hlc)'
  <1>1. /\ S \in SUBSET Change /\ d \in Change /\ d.op \in Op /\ d.gid \in Gid
        /\ d.hlc \in Stamp /\ d.hlc \in StampOrNone
    BY ChangeType DEF StoreInv, HistoryInv, StoreTypeOK
  <1>2. /\ row[n] \in [Gid -> StampOrNone] /\ tomb[n] \in SUBSET Change
    BY DEF StoreInv, HistoryInv, StoreTypeOK
  <1>3. /\ row'[n][d.gid] = AfterDeletes(row[n], tomb[n], S, d.gid)
        /\ tomb'[n] = tomb[n] \cup Deletes(S)
    BY <1>1, ApplyEffect DEF StoreInv, HistoryInv
  <1>4. CASE d.op = "del"
    BY <1>3, <1>4 DEF Covers, Deletes, Leq
  <1>5. CASE d.op = "put" /\ ~ Accepts(row[n], tomb[n], d)
    <2>1. CASE \E t \in tomb[n] : t.gid = d.gid /\ Leq(d.hlc, t.hlc)
      BY <2>1, <1>3 DEF Covers
    <2>2. CASE ~ Less(row[n][d.gid], d.hlc)
      <3>1. Leq(d.hlc, row[n][d.gid])
        BY <2>2, <1>1, <1>2, NotLeq
      <3>2. QED
        BY <3>1, <1>1, ApplyCovers DEF Covers, StoreInv
    <2>3. QED
      BY <1>5, <2>1, <2>2 DEF Accepts
  <1>6. CASE d.op = "put" /\ Accepts(row[n], tomb[n], d)
    <2> DEFINE put == AfterPuts(row[n], tomb[n], S, d.gid)
    <2>1. put = d.hlc
      BY <1>6, AcceptedPut DEF OnePut, Accepts
    <2>2. CASE row'[n][d.gid] = put
      BY <2>1, <2>2 DEF Covers, Leq
    <2>3. CASE \E e \in Deletes(S) : e.gid = d.gid /\ Less(put, e.hlc)
      BY <2>1, <2>3, <1>3 DEF Covers, Leq
    <2>4. QED
      BY <1>1, <1>2, <1>3, <2>2, <2>3, DeletesEffect
  <1>7. QED
    BY <1>1, <1>4, <1>5, <1>6 DEF Op

\* Merging a changeset that delivers leaves no gap.
LEMMA ApplyNoGap ==
  ASSUME Inv, [Next]_vars, NoGap, NEW n \in Node, nid[n] # 0,
         NEW S \in SUBSET written, OnePut(S), Delivers(n, S), ApplyChanges(n, S)
  PROVE  NoGap'
  <1>1. nid' = nid /\ written' = written
    BY DEF ApplyChanges
  <1>2. Delivers(n, S)'
    BY DeliversKept
  <1> SUFFICES ASSUME NEW m \in Node, nid[m] # 0, NEW c \in Held(m)', NEW w \in written,
                      Origin(w.hlc) = Origin(c.hlc), Leq(w.hlc, c.hlc)
               PROVE  Covers(m, w.gid, w.hlc)'
    BY <1>1 DEF NoGap
  <1>3. w.gid \in Gid /\ w.hlc \in Stamp
    BY WrittenOnly
  <1>4. CASE c \in Held(m)
    BY <1>3, <1>4, StepCovers DEF NoGap
  <1>5. CASE m = n /\ c \in S
    <2>1. CASE Covers(n, w.gid, w.hlc)'
      BY <1>5, <2>1
    <2>2. CASE \E d \in S : d.gid = w.gid /\ Leq(w.hlc, d.hlc)
      <3>1. PICK d \in S : d.gid = w.gid /\ Leq(w.hlc, d.hlc)
        BY <2>2
      <3>2. Covers(n, d.gid, d.hlc)' /\ d.hlc \in Stamp
        BY ApplyReceives, WrittenOnly DEF Inv
      <3>3. StoreTypeOK'
        BY StepStoreInv DEF StoreInv, HistoryInv
      <3>4. Covers(n, w.gid, w.hlc)'
        <4>1. /\ row'[n][w.gid] \in StampOrNone
              /\ \A t \in tomb'[n] : t.hlc \in StampOrNone
              /\ d.hlc \in StampOrNone /\ w.hlc \in StampOrNone
          BY <3>2, <3>3, <1>3, ChangeType DEF StoreTypeOK, StampOrNone
        <4>2. QED
          BY <4>1, <3>1, <3>2, LeqTransitive DEF Covers
      <3>5. QED
        BY <1>5, <3>4
    <2>3. QED
      BY <1>1, <1>2, <1>5, <2>1, <2>2 DEF Delivers
  <1>6. c \in Held(m) \/ (m = n /\ c \in S)
    <2>1. S \in SUBSET Change
      BY WrittenOnly
    <2>2. CASE m = n
      BY <2>1, <2>2, MergedHeld DEF Inv, StoreInv, HistoryInv
    <2>3. CASE m # n
      <3>1. row'[m] = row[m] /\ tomb'[m] = tomb[m]
        BY <2>1, <2>3, ApplyEffect DEF Inv, StoreInv, HistoryInv
      <3>2. QED
        BY <3>1 DEF Held, HeldRows
    <2>4. QED
      BY <2>2, <2>3
  <1>7. QED
    BY <1>4, <1>5, <1>6

\* A local write is after everything its author holds.
LEMMA WriteNoGap ==
  ASSUME Inv, [Next]_vars, NoGap, OwnCovered, NEW n \in Node, NEW g \in Gid,
         LocalPut(n, g) \/ LocalDelete(n, g)
  PROVE  NoGap'
  <1>1. PICK u \in Change :
          /\ u.gid = g /\ Issues(n, u)
          /\ \/ /\ u.op = "put" /\ tomb' = tomb
                /\ row' = [row EXCEPT ![n][g] = u.hlc]
             \/ /\ row' = [row EXCEPT ![n][g] = NoStamp]
                /\ tomb' = [tomb EXCEPT ![n] = @ \cup {u}]
    BY PutEffect, DeleteEffect DEF Inv, StoreInv
  <1>2. /\ row \in [Node -> [Gid -> StampOrNone]] /\ tomb \in [Node -> SUBSET Change]
        /\ u.hlc \in Stamp /\ u.hlc # NoStamp
    BY ChangeType, NoStampLeast DEF Inv, StoreInv, HistoryInv, StoreTypeOK
  <1>3. Covers(n, g, u.hlc)'
    BY <1>1, <1>2 DEF Covers, Leq
  <1> SUFFICES ASSUME NEW m \in Node, nid[m] # 0, NEW c \in Held(m)', NEW w \in written',
                      Origin(w.hlc) = Origin(c.hlc), Leq(w.hlc, c.hlc)
               PROVE  Covers(m, w.gid, w.hlc)'
    BY <1>1 DEF NoGap, Issues
  <1>4. c \in Held(m) \/ (m = n /\ c.hlc = u.hlc)
    BY <1>1, <1>2 DEF Held, HeldRows
  <1>5. CASE w \in written /\ c \in Held(m)
    BY <1>5, WrittenOnly, StepCovers DEF NoGap
  <1>6. CASE w \in written /\ m = n /\ c.hlc = u.hlc
    <2>1. Origin(w.hlc) = n
      BY <1>1, <1>6 DEF Issues
    <2>2. Covers(n, w.gid, w.hlc)
      BY <1>6, <2>1 DEF OwnCovered
    <2>3. QED
      BY <1>6, <2>2, WrittenOnly, StepCovers
  <1>7. CASE w \notin written
    <2>1. w = u /\ Origin(w.hlc) = n
      BY <1>1, <1>7 DEF Issues
    <2>2. m = n
      <3>1. CASE c \in Held(m)
        <4>1. c \in written /\ c.hlc \in StampOrNone
          BY <3>1, WrittenOnly DEF Inv, StoreInv, HistoryInv, HeldWritten
        <4>2. Less(c.hlc, w.hlc) /\ w.hlc \in StampOrNone
          BY <4>1, <1>7, <1>2, <2>1, NewWriteAbove DEF StampOrNone
        <4>3. QED
          BY <4>1, <4>2, NotLeq
      <3>2. QED
        BY <3>1, <1>4
    <2>3. QED
      BY <2>1, <2>2, <1>1, <1>3
  <1>8. QED
    BY <1>4, <1>5, <1>6, <1>7
\* A cloned database has the gaps of its original: none.
LEMMA ResetNoGap ==
  ASSUME Inv, NoGap, NEW src \in Node, NEW dst \in Node, ResetNode(src, dst)
  PROVE  NoGap'
  <1>1. /\ nid[src] # 0 /\ written' = written
        /\ nid' = [nid EXCEPT ![dst] = dst]
        /\ row'[dst] = row[src] /\ tomb'[dst] = tomb[src]
        /\ \A m \in Node \ {dst} : /\ row'[m] = row[m] /\ tomb'[m] = tomb[m]
                                   /\ nid'[m] = nid[m]
    BY NodeAssumption DEF ResetNode, Inv, StoreInv, HistoryInv, StoreTypeOK
  <1>2. /\ Held(dst)' = Held(src)
        /\ \A m \in Node \ {dst} : Held(m)' = Held(m)
    BY <1>1 DEF Held, HeldRows
  <1>3. \A g, s : /\ Covers(dst, g, s)' <=> Covers(src, g, s)
                  /\ \A m \in Node \ {dst} : Covers(m, g, s)' <=> Covers(m, g, s)
    BY <1>1 DEF Covers
  <1>4. QED
    BY <1>1, <1>2, <1>3 DEF NoGap

\* No step opens a gap.
LEMMA StepNoGap ==
  ASSUME Inv, GapInv, [Next]_vars
  PROVE  NoGap'
  <1>1. CASE UNCHANGED storeVars
    BY <1>1 DEF storeVars, GapInv, NoGap, Held, HeldRows, Covers
  <1>2. CASE UNCHANGED vars
    BY <1>1, <1>2 DEF vars
  <1>3. ASSUME NEW n \in Node, LocalWrite(n)
        PROVE  NoGap'
    BY <1>3, WriteNoGap DEF LocalWrite, GapInv
  <1>4. ASSUME NEW n \in Node, SendPull(n) \/ ServePull(n) \/ SendPush(n) \/ FailSession(n)
        PROVE  UNCHANGED storeVars
    BY <1>4 DEF SendPull, ServePull, SendPush, FailSession
  <1>5. ASSUME NEW n \in Node, ApplyPull(n)
        PROVE  NoGap'
    <2>1. /\ pc[n] = "pulled" /\ ApplyChanges(n, inbox[n])
      BY <1>5 DEF ApplyPull
    <2>2. /\ nid[n] # 0 /\ inbox[n] \in SUBSET written
          /\ OnePut(inbox[n]) /\ Delivers(n, inbox[n]) /\ NoGap
      BY <2>1 DEF Inv, SessionInv, GapInv, SessionGap
    <2>3. QED
      BY <2>1, <2>2, ApplyNoGap
  <1>6. ASSUME NEW p \in pushes, ServePush(p)
        PROVE  NoGap'
    <2>1. /\ nid[p.to] # 0 /\ ApplyChanges(p.to, p.changes)
      BY <1>6 DEF ServePush
    <2>2. /\ p.to \in Node /\ p.changes \in SUBSET written
          /\ OnePut(p.changes) /\ Delivers(p.to, p.changes) /\ NoGap
      BY DEF Inv, SessionInv, TypeOK, Push, GapInv
    <2>3. QED
      BY <2>1, <2>2, ApplyNoGap
  <1>7. ASSUME NEW p \in pushes, LosePush(p)
        PROVE  UNCHANGED storeVars
    BY <1>7 DEF LosePush
  <1>8. ASSUME NEW src \in Node, NEW dst \in Node, ResetNode(src, dst)
        PROVE  NoGap'
    BY <1>8, ResetNoGap DEF GapInv
  <1>9. QED
    BY <1>1, <1>2, <1>3, <1>4, <1>5, <1>6, <1>7, <1>8 DEF Next

\* No step makes an author lose what it has written.
LEMMA StepOwnCovered ==
  ASSUME Inv, GapInv, [Next]_vars
  PROVE  OwnCovered'
  <1> SUFFICES ASSUME NEW w \in written' PROVE Covers(Origin(w.hlc), w.gid, w.hlc)'
    BY DEF OwnCovered
  <1>1. CASE w \in written
    <2>1. w.gid \in Gid /\ w.hlc \in Stamp /\ Origin(w.hlc) \in Node
      BY <1>1, ChangeType DEF Inv, StoreInv, HistoryInv, StoreTypeOK
    <2>2. QED
      BY <1>1, <2>1, StepCovers DEF GapInv, OwnCovered
  <1>2. CASE w \notin written
    <2>1. \E n \in Node, g \in Gid : LocalPut(n, g) \/ LocalDelete(n, g)
      BY <1>2, StoreStep DEF StoreMove, storeVars, vars, ApplyChanges, ResetNode
    <2>2. PICK n \in Node, g \in Gid : LocalPut(n, g) \/ LocalDelete(n, g)
      BY <2>1
    <2>3. PICK u \in Change :
            /\ u.gid = g /\ Issues(n, u)
            /\ \/ /\ tomb' = tomb /\ row' = [row EXCEPT ![n][g] = u.hlc]
               \/ /\ row' = [row EXCEPT ![n][g] = NoStamp]
                  /\ tomb' = [tomb EXCEPT ![n] = @ \cup {u}]
      BY <2>2, PutEffect, DeleteEffect DEF Inv, StoreInv
    <2>4. w = u /\ Origin(u.hlc) = n
      BY <1>2, <2>3 DEF Issues
    <2>5. /\ row \in [Node -> [Gid -> StampOrNone]] /\ tomb \in [Node -> SUBSET Change]
      BY DEF Inv, StoreInv, HistoryInv, StoreTypeOK
    <2>6. QED
      BY <2>3, <2>4, <2>5 DEF Covers, Leq
  <1>3. QED
    BY <1>1, <1>2
-----------------------------------------------------------------------------
\* Tombstones are deletes.
LEMMA StepTombs ==
  ASSUME Inv, GapInv, [Next]_vars
  PROVE  \A n \in Node : \A t \in tomb'[n] : t.op = "del"
  <1>1. \A n \in Node : \A t \in tomb[n] : t.op = "del"
    BY DEF GapInv
  <1>2. tomb \in [Node -> SUBSET Change]
    BY DEF Inv, StoreInv, HistoryInv, StoreTypeOK
  <1>3. ASSUME NEW n \in Node, NEW g \in Gid, LocalPut(n, g)
        PROVE  tomb' = tomb
    BY <1>3 DEF LocalPut
  <1>4. ASSUME NEW n \in Node, NEW g \in Gid, LocalDelete(n, g)
        PROVE  \E u : u.op = "del" /\ tomb' = [tomb EXCEPT ![n] = @ \cup {u}]
    BY <1>4, DeleteEffect DEF Inv, StoreInv
  <1>5. ASSUME NEW n \in Node, NEW S \in SUBSET written, ApplyChanges(n, S)
        PROVE  tomb' = [tomb EXCEPT ![n] = @ \cup Deletes(S)]
    BY <1>5 DEF ApplyChanges
  <1>6. ASSUME NEW src \in Node, NEW dst \in Node, ResetNode(src, dst)
        PROVE  tomb' = [tomb EXCEPT ![dst] = tomb[src]]
    BY <1>6 DEF ResetNode
  <1>7. CASE UNCHANGED vars \/ UNCHANGED storeVars
    BY <1>1, <1>7 DEF vars, storeVars
  <1>8. CASE \E n \in Node, g \in Gid : LocalPut(n, g)
    BY <1>1, <1>3, <1>8
  <1>9. CASE \E n \in Node, g \in Gid : LocalDelete(n, g)
    BY <1>1, <1>2, <1>4, <1>9
  <1>10. CASE \E n \in Node, S \in SUBSET written : nid[n] # 0 /\ ApplyChanges(n, S)
    BY <1>1, <1>2, <1>5, <1>10 DEF Deletes
  <1>11. CASE \E src \in Node, dst \in Node : ResetNode(src, dst)
    BY <1>1, <1>2, <1>6, <1>11
  <1>12. QED
    BY <1>7, <1>8, <1>9, <1>10, <1>11, StoreStep DEF StoreMove

\* A session that a step leaves alone stays sound.
LEMMA QuietKept ==
  ASSUME Inv, GapInv, [Next]_vars, NEW n \in Node,
         pc'[n] = pc[n], turn'[n] = turn[n], askVV'[n] = askVV[n],
         replyVV'[n] = replyVV[n], inbox'[n] = inbox[n]
  PROVE  SessionGap(n)'
  <1>1. SessionGap(n)
    BY DEF GapInv
  <1>2. /\ askVV[n] \in [Node -> StampOrNone] /\ replyVV[n] \in [Node -> StampOrNone]
        /\ inbox[n] \in SUBSET written
    BY DEF Inv, SessionInv, TypeOK
  <1>3. Honest(n, askVV[n]) => Honest(n, askVV[n])'
    BY <1>2, HonestKept
  <1>4. ASSUME pc[n] \in {"pulled", "applied"}
        PROVE  Honest(Peer(n), replyVV[n])'
    <2>1. Peer(n) \in Node /\ Peer(n)' = Peer(n)
      BY <1>4, PeerType DEF Inv, SessionInv, Peer
    <2>2. Honest(Peer(n), replyVV[n])
      BY <1>1, <1>4 DEF SessionGap
    <2>3. QED
      BY <2>1, <2>2, <1>2, HonestKept
  <1>5. Delivers(n, inbox[n]) => Delivers(n, inbox[n])'
    BY <1>2, DeliversKept
  <1>6. QED
    BY <1>1, <1>3, <1>4, <1>5 DEF SessionGap, OnePut

\* Every step leaves the version vectors and the changeset of a session sound.
LEMMA StepSessionGap ==
  ASSUME Inv, GapInv, Next, NEW n \in Node
  PROVE  SessionGap(n)'
  <1> USE DEF vars
  <1>1. /\ pc \in [Node -> {"idle", "pulling", "pulled", "applied", "pushing"}]
        /\ turn \in [Node -> Nat \ {0}]
        /\ askVV \in [Node -> [Node -> StampOrNone]]
        /\ replyVV \in [Node -> [Node -> StampOrNone]]
        /\ inbox \in [Node -> SUBSET Change]
        /\ SessionInv /\ StoreTypeOK /\ NoGap
    BY DEF Inv, SessionInv, TypeOK, GapInv
  <1>2. CASE UNCHANGED <<pc, turn, askVV, replyVV, inbox>>
    BY <1>2, QuietKept
  <1>3. ASSUME NEW m \in Node, EndSession(m)
        PROVE  SessionGap(n)'
    <2>1. CASE m = n
      BY <2>1, <1>1, <1>3 DEF EndSession, SessionGap
    <2>2. CASE m # n
      BY <2>2, <1>1, <1>3, QuietKept DEF EndSession
    <2>3. QED
      BY <2>1, <2>2
  <1>4. ASSUME NEW m \in Node, m # n,
               SendPull(m) \/ ServePull(m) \/ ApplyPull(m) \/ SendPush(m)
        PROVE  SessionGap(n)'
    BY <1>1, <1>4, QuietKept DEF SendPull, ServePull, ApplyPull, SendPush
  <1>5. ASSUME SendPull(n)
        PROVE  SessionGap(n)'
    <2>1. PICK vv \in VersionVectors(n) : askVV' = [askVV EXCEPT ![n] = vv]
      BY <1>5 DEF SendPull
    <2>2. vv \in [Node -> StampOrNone] /\ Honest(n, vv)
      BY <1>1, <1>5, VersionVectorType, VersionVectorHonest DEF SendPull
    <2>3. Honest(n, vv)'
      BY <2>2, HonestKept
    <2>4. pc'[n] = "pulling" /\ askVV'[n] = vv
      BY <2>1, <1>1, <1>5 DEF SendPull
    <2>5. QED
      BY <2>3, <2>4 DEF SessionGap
  <1>6. ASSUME ServePull(n)
        PROVE  SessionGap(n)'
    <2>0. PICK S : S = CollectChanges(Peer(n), askVV[n])
      OBVIOUS
    <2>1. PICK vv \in VersionVectors(Peer(n)) : replyVV' = [replyVV EXCEPT ![n] = vv]
      BY <1>6 DEF ServePull
    <2>2. /\ pc[n] = "pulling" /\ nid[Peer(n)] # 0
          /\ pc'[n] = "pulled" /\ inbox'[n] = S /\ replyVV'[n] = vv
          /\ Peer(n)' = Peer(n)
      BY <2>0, <2>1, <1>1, <1>6 DEF ServePull, Peer
    <2>3. Peer(n) \in Node
      BY <2>2, <1>1, PeerType DEF SessionInv
    <2>4. vv \in [Node -> StampOrNone] /\ Honest(Peer(n), vv)
      BY <2>2, <2>3, <1>1, VersionVectorType, VersionVectorHonest
    <2>5. Honest(Peer(n), vv)'
      BY <2>2, <2>3, <2>4, HonestKept
    <2>6. OnePut(S)
      BY <2>0, <2>3, CollectOnePut DEF GapInv
    <2>7. S \in SUBSET written /\ Delivers(n, S)
      <3>1. Honest(n, askVV[n]) /\ askVV[n] \in [Node -> StampOrNone]
        BY <2>2, <1>1 DEF GapInv, SessionGap
      <3>2. QED
        BY <3>1, <2>0, <2>2, <2>3, <1>1, CollectDelivers, CollectHeld
        DEF Inv, StoreInv, HistoryInv, HeldWritten
    <2>8. Delivers(n, S)'
      BY <2>7, DeliversKept
    <2>9. QED
      BY <2>2, <2>5, <2>6, <2>8 DEF SessionGap, OnePut
  <1>7. ASSUME ApplyPull(n)
        PROVE  SessionGap(n)'
    <2>1. /\ pc[n] = "pulled" /\ pc'[n] = "applied"
          /\ replyVV' = replyVV /\ Peer(n)' = Peer(n)
      BY <1>1, <1>7 DEF ApplyPull, Peer
    <2>2. Peer(n) \in Node
      BY <2>1, <1>1, PeerType DEF SessionInv
    <2>3. Honest(Peer(n), replyVV[n])
      BY <2>1 DEF GapInv, SessionGap
    <2>4. Honest(Peer(n), replyVV[n])'
      BY <2>1, <2>2, <2>3, <1>1, HonestKept
    <2>5. QED
      BY <2>1, <2>4 DEF SessionGap
  <1>8. ASSUME SendPush(n)
        PROVE  SessionGap(n)'
    BY <1>1, <1>8 DEF SendPush, SessionGap
  <1>9. ASSUME NEW m \in Node, LocalWrite(m) \/ FailSession(m)
        PROVE  SessionGap(n)'
    BY <1>2, <1>3, <1>9 DEF LocalWrite, FailSession, sessionVars
  <1>10. ASSUME NEW p \in pushes, ServePush(p) \/ LosePush(p)
         PROVE  SessionGap(n)'
    <2>1. p.from \in Node
      BY DEF Inv, SessionInv, TypeOK, Push
    <2>2. EndSession(p.from) \/ UNCHANGED <<pc, turn, askVV, replyVV, inbox>>
      BY <1>10 DEF ServePush, LosePush
    <2>3. QED
      BY <2>1, <2>2, <1>2, <1>3
  <1>11. ASSUME NEW src \in Node, NEW dst \in Node, ResetNode(src, dst)
         PROVE  SessionGap(n)'
    BY <1>2, <1>11 DEF ResetNode, sessionVars
  <1>12. QED
    BY <1>4, <1>5, <1>6, <1>7, <1>8, <1>9, <1>10, <1>11 DEF Next

\* Every push on its way stays sound, however late it is handled.
LEMMA StepPushes ==
  ASSUME Inv, GapInv, Next, NEW p \in pushes'
  PROVE  OnePut(p.changes) /\ Delivers(p.to, p.changes)'
  <1>1. CASE p \in pushes
    <2>1. /\ p.to \in Node /\ p.changes \in SUBSET written
          /\ OnePut(p.changes) /\ Delivers(p.to, p.changes)
      BY <1>1 DEF Inv, SessionInv, TypeOK, Push, GapInv
    <2>2. QED
      BY <2>1, DeliversKept
  <1>2. CASE p \notin pushes
    <2>1. PICK n \in Node : SendPush(n)
      BY <1>2 DEF Next, LocalWrite, SendPull, ServePull, ApplyPull, FailSession,
         ServePush, LosePush, ResetNode, sessionVars
    <2>2. /\ pc[n] = "applied" /\ UNCHANGED storeVars
          /\ p = [from |-> n, to |-> Peer(n), try |-> fails[n],
                  changes |-> CollectChanges(n, replyVV[n])]
      BY <1>2, <2>1 DEF SendPush
    <2>3. /\ p.to = Peer(n) /\ p.changes = CollectChanges(n, replyVV[n])
      BY <2>2
    <2>4. /\ Peer(n) \in Node /\ nid[n] # 0
      BY <2>2, PeerType DEF Inv, SessionInv
    <2>5. /\ Honest(Peer(n), replyVV[n]) /\ replyVV[n] \in [Node -> StampOrNone]
      BY <2>2 DEF GapInv, SessionGap, Inv, SessionInv, TypeOK
    <2>6. OnePut(p.changes)
      BY <2>3, CollectOnePut DEF GapInv
    <2>7. Delivers(p.to, p.changes)
      BY <2>3, <2>4, <2>5, CollectDelivers DEF GapInv
    <2>8. QED
      BY <2>2, <2>6, <2>7 DEF storeVars, Delivers, Covers
  <1>3. QED
    BY <1>1, <1>2

\* The strengthened invariant is inductive.
LEMMA StepGapInv ==
  ASSUME Inv, GapInv, [Next]_vars
  PROVE  GapInv'
  <1>1. NoGap' /\ OwnCovered' /\ \A n \in Node : \A t \in tomb'[n] : t.op = "del"
    BY StepNoGap, StepOwnCovered, StepTombs
  <1>2. CASE Next
    BY <1>1, <1>2, StepSessionGap, StepPushes DEF GapInv, OnePut
  <1>3. CASE UNCHANGED vars
    <2>1. \A n \in Node : SessionGap(n)'
      BY <1>3, QuietKept DEF vars, sessionVars
    <2>2. \A p \in pushes : p.to \in Node /\ p.changes \in SUBSET written
      BY DEF Inv, SessionInv, TypeOK, Push
    <2>3. \A p \in pushes' : OnePut(p.changes) /\ Delivers(p.to, p.changes)'
      BY <1>3, <2>2, DeliversKept DEF vars, sessionVars, GapInv
    <2>4. QED
      BY <1>1, <2>1, <2>3 DEF GapInv, OnePut
  <1>4. QED
    BY <1>2, <1>3

\* It holds initially: nobody holds anything.
LEMMA InitGapInv ==
  ASSUME Init
  PROVE  GapInv
  <1>1. \A n \in Node : Held(n) = {}
    BY DEF Init, Held, HeldRows
  <1>2. QED
    BY <1>1 DEF Init, GapInv, NoGap, OwnCovered, SessionGap

\* A version vector is honest: a node that holds a row or tombstone of some
\* origin has, or has overwritten, all that the origin wrote before it.  So
\* collect_changes may leave out what the peer's version vector covers.
THEOREM VersionVectorsHonest == Spec => []NoGap
  <1>1. Init => Inv /\ GapInv
    BY InitInv, InitGapInv
  <1>2. (Inv /\ GapInv) /\ [Next]_vars => (Inv /\ GapInv)'
    BY StepStoreInv, StepSessionInv, StepGapInv DEF Inv
  <1>3. Inv /\ GapInv => NoGap
    BY DEF GapInv
  <1>4. QED
    BY <1>1, <1>2, <1>3, PTL DEF Spec

-----------------------------------------------------------------------------
\* Whoever lacks nothing by its version vector covers what the sender holds.
LEMMA EmptyIsCovered ==
  ASSUME Inv, NoGap, NEW m \in Node, NEW n \in Node, nid[n] # 0,
         NEW vv \in VersionVectors(n), CollectChanges(m, vv) = {},
         NEW c \in Held(m)
  PROVE  Covers(n, c.gid, c.hlc)
  <1>1. /\ c \in written /\ c.hlc \in StampOrNone /\ Origin(c.hlc) \in Node
    BY HeldType, ChangeType DEF Inv, StoreInv, HistoryInv, HeldWritten
  <1>2. vv[Origin(c.hlc)] \in StampOrNone
    BY <1>1, VersionVectorType DEF Inv, StoreInv, HistoryInv
  <1>3. Leq(c.hlc, vv[Origin(c.hlc)])
    BY <1>1, <1>2, NotLeq DEF CollectChanges
  <1>4. QED
    BY <1>1, <1>3, VersionVectorHonest DEF Honest

\* When neither has anything for the other, no row of m is newer than that of n.
LEMMA EmptyIsNewest ==
  ASSUME Inv, GapInv, NEW m \in Node, NEW n \in Node, nid[m] # 0, nid[n] # 0,
         NEW u \in VersionVectors(m), NEW v \in VersionVectors(n),
         CollectChanges(m, v) = {}, CollectChanges(n, u) = {}, NEW g \in Gid
  PROVE  Leq(row[m][g], row[n][g])
  <1>1. row[m][g] \in StampOrNone /\ row[n][g] \in StampOrNone
    BY DEF Inv, StoreInv, HistoryInv, StoreTypeOK
  <1>2. CASE row[m][g] = NoStamp
    BY <1>1, <1>2, NoStampLeast DEF Leq, StampOrNone
  <1>3. CASE row[m][g] # NoStamp
    <2> DEFINE c == [op |-> "put", gid |-> g, hlc |-> row[m][g]]
    <2>1. c \in Held(m) /\ c \in written
      BY <1>3, HeldCases DEF Inv, StoreInv, HistoryInv, HeldWritten
    <2>2. Covers(n, g, row[m][g])
      <3>1. Covers(n, c.gid, c.hlc)
        BY <2>1, EmptyIsCovered DEF GapInv
      <3>2. QED
        BY <3>1
    <2>3. ASSUME NEW t \in tomb[n], t.gid = g, Leq(row[m][g], t.hlc)
          PROVE  FALSE
      <3>1. /\ t \in Held(n) /\ t \in written /\ t.op = "del" /\ t.hlc \in StampOrNone
        BY ChangeType DEF Held, Inv, StoreInv, HistoryInv, HeldWritten, StoreTypeOK, GapInv
      <3>2. Covers(m, g, t.hlc)
        BY <2>3, <3>1, EmptyIsCovered DEF GapInv
      <3>3. t.hlc # row[m][g]
        <4>1. t # c
          BY <3>1
        <4>2. QED
          BY <2>1, <3>1, <4>1 DEF Inv, StoreInv, HistoryInv, StampsUnique
      <3>4. Less(row[m][g], t.hlc)
        BY <2>3, <3>3 DEF Leq
      <3>5. PICK d \in tomb[m] : d.gid = g /\ Leq(t.hlc, d.hlc)
        BY <1>1, <3>1, <3>2, <3>4, NotLeq DEF Covers
      <3>6. d.hlc \in StampOrNone /\ Less(d.hlc, row[m][g])
        BY <1>3, <3>5, ChangeType DEF Inv, StoreInv, HistoryInv, StoreTypeOK, NoResurrection
      <3>7. Less(row[m][g], row[m][g])
        BY <1>1, <3>1, <3>4, <3>5, <3>6, LessTransitive, LessLeqTransitive
      <3>8. QED
        BY <1>1, <3>7, LessIrreflexive
    <2>4. QED
      BY <2>2, <2>3 DEF Covers
  <1>4. QED
    BY <1>2, <1>3

\* Databases whose rows differ have something to exchange: the version vectors
\* that version_vector computes hide no difference from collect_changes.
THEOREM DifferencesShow == Spec => []DifferenceShows
  <1>1. Init => Inv /\ GapInv
    BY InitInv, InitGapInv
  <1>2. (Inv /\ GapInv) /\ [Next]_vars => (Inv /\ GapInv)'
    BY StepStoreInv, StepSessionInv, StepGapInv DEF Inv
  <1>3. Inv /\ GapInv => DifferenceShows
    <2> SUFFICES ASSUME Inv, GapInv, NEW m \in Node, NEW n \in Node,
                        nid[m] # 0, nid[n] # 0,
                        NEW u \in VersionVectors(m), NEW v \in VersionVectors(n),
                        CollectChanges(m, v) = {}, CollectChanges(n, u) = {}
                 PROVE  row[m] = row[n]
      BY DEF DifferenceShows
    <2>1. row[m] \in [Gid -> StampOrNone] /\ row[n] \in [Gid -> StampOrNone]
      BY DEF Inv, StoreInv, HistoryInv, StoreTypeOK
    <2>2. ASSUME NEW g \in Gid
          PROVE  row[m][g] = row[n][g]
      <3>1. Leq(row[m][g], row[n][g]) /\ Leq(row[n][g], row[m][g])
        BY EmptyIsNewest
      <3>2. QED
        BY <2>1, <3>1, NotLeq DEF Leq
    <2>3. QED
      BY <2>1, <2>2
  <1>4. QED
    BY <1>1, <1>2, <1>3, PTL DEF Spec

-----------------------------------------------------------------------------
\* One arriving changeset: it has one put per row, holds only what was written,
\* and no delete in it or at n has the stamp of a put.
LEMMA ArrivingSound ==
  ASSUME Inv, GapInv, NEW n \in Node, NEW S \in Arriving(n)
  PROVE  /\ S \in SUBSET written /\ S \in SUBSET Change
         /\ OnePut(S)
  <1>1. written \in SUBSET Change
    BY DEF Inv, StoreInv, HistoryInv, StoreTypeOK
  <1>2. CASE \E p \in pushes : S = p.changes
    BY <1>1, <1>2 DEF Inv, SessionInv, GapInv
  <1>3. CASE S = inbox[n] /\ pc[n] = "pulled"
    BY <1>1, <1>3 DEF Inv, SessionInv, GapInv, SessionGap
  <1>4. QED
    BY <1>2, <1>3 DEF Arriving

\* No put of a row, held or arriving, has the stamp of a delete of the row.
LEMMA PutsAreNoDeletes ==
  ASSUME Inv, GapInv, NEW n \in Node, NEW g \in Gid,
         NEW S \in SUBSET written, NEW T \in SUBSET written
  PROVE  \A d \in tomb[n] \cup Deletes(S) \cup Deletes(T) : d.gid = g =>
           d.hlc \notin {row[n][g]} \cup PutStamps(S, g) \cup PutStamps(T, g)
  <1> SUFFICES ASSUME NEW d \in tomb[n] \cup Deletes(S) \cup Deletes(T), d.gid = g,
                      d.hlc \in {row[n][g]} \cup PutStamps(S, g) \cup PutStamps(T, g)
               PROVE  FALSE
    OBVIOUS
  <1>1. d \in written /\ d.op = "del" /\ d.hlc # NoStamp
    <2>1. d \in written /\ d.op = "del"
      BY DEF Inv, StoreInv, HistoryInv, HeldWritten, Held, GapInv, Deletes
    <2>2. d.hlc \in Stamp
      BY <2>1, ChangeType DEF Inv, StoreInv, HistoryInv, StoreTypeOK
    <2>3. QED
      BY <2>1, <2>2, NoStampLeast
  <1>2. \E c \in written : c.op = "put" /\ c.hlc = d.hlc
    <2>1. CASE d.hlc = row[n][g]
      <3>1. [op |-> "put", gid |-> g, hlc |-> row[n][g]] \in Held(n)
        BY <2>1, <1>1, HeldCases
      <3>2. QED
        BY <2>1, <3>1 DEF Inv, StoreInv, HistoryInv, HeldWritten
    <2>2. CASE d.hlc \in PutStamps(S, g) \cup PutStamps(T, g)
      BY <2>2 DEF PutStamps
    <2>3. QED
      BY <2>1, <2>2
  <1>3. QED
    BY <1>1, <1>2 DEF Inv, StoreInv, HistoryInv, StampsUnique

\* Two merges in a row leave the winner of all that was there and has arrived.
LEMMA BothWin ==
  ASSUME Inv, GapInv, NEW n \in Node, NEW g \in Gid,
         NEW S \in Arriving(n), NEW T \in Arriving(n)
  PROVE  LET P == {row[n][g]} \cup PutStamps(S, g) \cup PutStamps(T, g)
             D == Stamps(tomb[n] \cup Deletes(S) \cup Deletes(T), g)
         IN  /\ AfterBoth(n, S, T, g) \in StampOrNone
             /\ Winner(P, D, AfterBoth(n, S, T, g))
             /\ T = S => Winner(P, D, AfterDeletes(row[n], tomb[n], S, g))
  <1> DEFINE r  == [h \in Gid |-> AfterDeletes(row[n], tomb[n], S, h)]
             P1 == {row[n][g]} \cup PutStamps(S, g)
  <1>1. /\ S \in SUBSET written /\ S \in SUBSET Change /\ OnePut(S)
        /\ T \in SUBSET written /\ T \in SUBSET Change /\ OnePut(T)
    BY ArrivingSound
  <1>2. /\ row[n] \in [Gid -> StampOrNone] /\ tomb[n] \in SUBSET Change
        /\ tomb[n] \cup Deletes(S) \in SUBSET Change
    BY <1>1 DEF Inv, StoreInv, HistoryInv, StoreTypeOK, Deletes
  <1>3. \A d \in tomb[n] \cup Deletes(S) \cup Deletes(T) : d.gid = g =>
          d.hlc \notin {row[n][g]} \cup PutStamps(S, g) \cup PutStamps(T, g)
    BY <1>1, PutsAreNoDeletes
  <1>4. Winner({row[n][g]}, Stamps(tomb[n], g), row[n][g])
    BY DEF Winner, Stamps, Leq, Inv, StoreInv, NoResurrection
  <1>5. {row[n][g]} \in SUBSET StampOrNone /\ P1 \in SUBSET StampOrNone
    BY <1>1, <1>2, ChangeType DEF PutStamps
  <1>6. Winner(P1, Stamps(tomb[n] \cup Deletes(S), g),
               AfterDeletes(row[n], tomb[n], S, g))
    BY <1>1, <1>2, <1>3, <1>4, <1>5, MergeWins
  <1>7. r \in [Gid -> StampOrNone] /\ r[g] = AfterDeletes(row[n], tomb[n], S, g)
    BY <1>1, <1>2, AfterDeletesType
  <1>8. AfterBoth(n, S, T, g) = AfterDeletes(r, tomb[n] \cup Deletes(S), T, g)
    BY DEF AfterBoth
  <1> HIDE DEF r, P1
  <1>9. \A d \in (tomb[n] \cup Deletes(S)) \cup Deletes(T) : d.gid = g =>
          d.hlc \notin P1 \cup PutStamps(T, g)
    BY <1>3 DEF P1
  <1>10. Winner(P1 \cup PutStamps(T, g), Stamps((tomb[n] \cup Deletes(S)) \cup Deletes(T), g),
                AfterDeletes(r, tomb[n] \cup Deletes(S), T, g))
    BY <1>1, <1>2, <1>5, <1>6, <1>7, <1>9, MergeWins
  <1>11. AfterBoth(n, S, T, g) \in StampOrNone
    BY <1>1, <1>2, <1>7, <1>8, AfterDeletesType
  <1>12. T = S => /\ P1 \cup PutStamps(T, g) = P1
                  /\ (tomb[n] \cup Deletes(S)) \cup Deletes(T) = tomb[n] \cup Deletes(S)
    BY DEF P1
  <1>13. T = S => Winner(P1 \cup PutStamps(T, g),
                         Stamps((tomb[n] \cup Deletes(S)) \cup Deletes(T), g),
                         AfterDeletes(row[n], tomb[n], S, g))
    BY <1>6, <1>12
  <1>14. QED
    BY <1>8, <1>10, <1>11, <1>13 DEF P1

\* Whatever pushes and pull responses wait for a node, the order in which they
\* are merged makes no difference to its rows, nor does a push merged twice.
THEOREM MergeOrderFree == Spec => []MergesCommute
  <1>1. Init => Inv /\ GapInv
    BY InitInv, InitGapInv
  <1>2. (Inv /\ GapInv) /\ [Next]_vars => (Inv /\ GapInv)'
    BY StepStoreInv, StepSessionInv, StepGapInv DEF Inv
  <1>3. Inv /\ GapInv => MergesCommute
    <2> SUFFICES ASSUME Inv, GapInv, NEW n \in Node, NEW g \in Gid,
                        NEW S \in Arriving(n), NEW T \in Arriving(n)
                 PROVE  /\ AfterBoth(n, S, T, g) = AfterBoth(n, T, S, g)
                        /\ AfterBoth(n, S, S, g) = AfterDeletes(row[n], tomb[n], S, g)
      BY DEF MergesCommute
    <2> DEFINE P(U, V) == {row[n][g]} \cup PutStamps(U, g) \cup PutStamps(V, g)
               D(U, V) == Stamps(tomb[n] \cup Deletes(U) \cup Deletes(V), g)
    <2>1. ASSUME NEW U \in Arriving(n), NEW V \in Arriving(n)
          PROVE  /\ P(U, V) \in SUBSET StampOrNone /\ D(U, V) \in SUBSET StampOrNone
                 /\ P(U, V) = P(V, U) /\ D(U, V) = D(V, U)
                 /\ AfterDeletes(row[n], tomb[n], U, g) \in StampOrNone
      <3>1. /\ U \in SUBSET Change /\ V \in SUBSET Change
            /\ row[n] \in [Gid -> StampOrNone] /\ tomb[n] \in SUBSET Change
        BY ArrivingSound DEF Inv, StoreInv, HistoryInv, StoreTypeOK
      <3>2. P(U, V) \in SUBSET StampOrNone
        BY <3>1, ChangeType DEF PutStamps
      <3>3. D(U, V) \in SUBSET StampOrNone
        BY <3>1, ChangeType DEF Stamps, Deletes
      <3>4. /\ tomb[n] \cup Deletes(U) \cup Deletes(V) = tomb[n] \cup Deletes(V) \cup Deletes(U)
            /\ P(U, V) = P(V, U)
        OBVIOUS
      <3>5. D(U, V) = D(V, U)
        BY <3>4
      <3>6. QED
        BY <3>1, <3>2, <3>3, <3>4, <3>5, AfterDeletesType
    <2>2. /\ Winner(P(S, T), D(S, T), AfterBoth(n, S, T, g))
          /\ Winner(P(T, S), D(T, S), AfterBoth(n, T, S, g))
          /\ Winner(P(S, S), D(S, S), AfterBoth(n, S, S, g))
          /\ Winner(P(S, S), D(S, S), AfterDeletes(row[n], tomb[n], S, g))
          /\ AfterBoth(n, S, T, g) \in StampOrNone /\ AfterBoth(n, T, S, g) \in StampOrNone
          /\ AfterBoth(n, S, S, g) \in StampOrNone
      BY BothWin
    <2> HIDE DEF P, D
    <2>3. AfterBoth(n, S, T, g) = AfterBoth(n, T, S, g)
      BY <2>1, <2>2, OneWinner
    <2>4. AfterBoth(n, S, S, g) = AfterDeletes(row[n], tomb[n], S, g)
      BY <2>1, <2>2, OneWinner
    <2>5. QED
      BY <2>3, <2>4
  <1>4. QED
    BY <1>1, <1>2, <1>3, PTL DEF Spec
=============================================================================
