--------------------------- MODULE SyncSplitProofs ---------------------------
(***************************************************************************)
(* What of the guarantees of SyncMesh survives when one call of the        *)
(* protocol is not atomic: SyncTornCollect, where a changeset is read by   *)
(* several SELECTs, and SyncStaleApply, where a merge decides on its first *)
(* change before it holds the write lock.                                  *)
(***************************************************************************)
EXTENDS SyncProofs, SyncTornCollect, SyncStaleApply

Phases == {"idle", "pulling", "serving", "pulled", "decided", "applied", "pushing"}

\* The inductive invariant of the sessions of both: a session runs on a node
\* that has a database and a peer, and only written changes travel.
Sessions ==
  /\ pc \in [Node -> Phases]
  /\ turn \in [Node -> Nat]
  /\ inbox \in [Node -> SUBSET written]
  /\ \A n \in Node : Peers[n] # <<>> => turn[n] \in 1 .. Len(Peers[n])
  /\ \A n \in Node : pc[n] # "idle" => nid[n] # 0 /\ Peers[n] # <<>>
  /\ \A p \in pushes : p.from \in Node /\ p.to \in Node /\ p.changes \subseteq written

-----------------------------------------------------------------------------
\* Sessions, step by step.

\* The peer of a session is a node.
LEMMA SplitPeer ==
  ASSUME Sessions, NEW n \in Node, Peers[n] # <<>>
  PROVE  Peer(n) \in Node
  <1>1. Peers[n] \in Seq(Node)
    BY MeshAssumption
  <1>2. turn[n] \in 1 .. Len(Peers[n])
    BY DEF Sessions
  <1>3. QED
    BY <1>1, <1>2 DEF Peer

\* The initial state has no session.
LEMMA InitSessions ==
  ASSUME Init
  PROVE  Sessions
  <1>1. ASSUME NEW n \in Node, Peers[n] # <<>>
        PROVE  turn[n] \in 1 .. Len(Peers[n])
    <2>1. Peers[n] \in Seq(Node)
      BY MeshAssumption
    <2>2. Len(Peers[n]) \in Nat \ {0}
      BY <1>1, <2>1
    <2>3. QED
      BY <2>2 DEF Init
  <1>2. QED
    BY <1>1 DEF Init, Sessions, Phases

\* A step outside the sessions keeps them.
LEMMA QuietSessions ==
  ASSUME Sessions, UNCHANGED <<pc, turn, inbox>>, nid' = nid,
         pushes' \subseteq pushes, written \subseteq written'
  PROVE  Sessions'
  BY DEF Sessions

\* So does a step of a session that does not end it.
LEMMA SessionMove ==
  ASSUME Sessions, NEW n \in Node, nid[n] # 0, Peers[n] # <<>>,
         NEW phase \in Phases, pc' = [pc EXCEPT ![n] = phase],
         inbox' \in [Node -> SUBSET written],
         UNCHANGED <<nid, turn, written>>,
         \A p \in pushes' \ pushes :
           p.from \in Node /\ p.to \in Node /\ p.changes \subseteq written
  PROVE  Sessions'
  BY DEF Sessions

\* So does the end of a session.
LEMMA SessionEnd ==
  ASSUME Sessions, NEW n \in Node, pc[n] # "idle", EndSession(n),
         nid' = nid, written' = written, pushes' \subseteq pushes
  PROVE  Sessions'
  <1>1. /\ pc' = [pc EXCEPT ![n] = "idle"]
        /\ turn' = [turn EXCEPT ![n] = IF turn[n] = Len(Peers[n]) THEN 1 ELSE turn[n] + 1]
        /\ inbox' = [inbox EXCEPT ![n] = {}]
    BY DEF EndSession
  <1>2. turn[n] \in 1 .. Len(Peers[n]) /\ Len(Peers[n]) \in Nat
    BY MeshAssumption DEF Sessions
  <1>3. turn'[n] \in 1 .. Len(Peers[n]) /\ turn' \in [Node -> Nat]
    BY <1>1, <1>2 DEF Sessions
  <1>4. \A m \in Node \ {n} : turn'[m] = turn[m]
    BY <1>1 DEF Sessions
  <1>5. QED
    BY <1>1, <1>3, <1>4 DEF Sessions, Phases

\* A server merges a push: the end of a session, or nothing to the sessions.
LEMMA ServeSessions ==
  ASSUME Sessions, NEW p \in pushes, ServePush(p)
  PROVE  Sessions'
  <1>1. pushes' \subseteq pushes /\ nid' = nid /\ written' = written /\ p.from \in Node
    BY DEF ServePush, ApplyChanges, Sessions
  <1>2. CASE Waiting(p)
    BY <1>1, <1>2, SessionEnd DEF ServePush, Waiting
  <1>3. CASE ~ Waiting(p)
    BY <1>1, <1>3, QuietSessions DEF ServePush
  <1>4. QED
    BY <1>2, <1>3

\* A pull is sent.
LEMMA SendPullSessions ==
  ASSUME Sessions, NEW n \in Node, SendPull(n)
  PROVE  Sessions' /\ UNCHANGED storeVars
  <1>1. /\ nid[n] # 0 /\ Peers[n] # <<>> /\ pc' = [pc EXCEPT ![n] = "pulling"]
        /\ UNCHANGED <<storeVars, turn, replyVV, inbox, pushes, fails>>
    BY DEF SendPull
  <1>2. QED
    BY <1>1, SessionMove DEF storeVars, Phases, Sessions

\* A merge of a pull response, whatever it does to the rows.
LEMMA PulledSessions ==
  ASSUME Sessions, NEW n \in Node, pc[n] \in {"pulled", "decided"},
         pc' = [pc EXCEPT ![n] = "applied"], inbox' = [inbox EXCEPT ![n] = {}],
         UNCHANGED <<nid, written, turn, pushes>>
  PROVE  Sessions'
  <1>1. nid[n] # 0 /\ Peers[n] # <<>> /\ inbox' \in [Node -> SUBSET written]
    BY DEF Sessions
  <1>2. QED
    BY <1>1, SessionMove DEF Phases

\* A local write is no step of a session.
LEMMA WriteSessions ==
  ASSUME Sessions, HistoryInv, NEW n \in Node, LocalWrite(n)
  PROVE  /\ Sessions' /\ written \subseteq written'
         /\ \E g \in Gid : LocalPut(n, g) \/ LocalDelete(n, g)
  <1>1. PICK g \in Gid : LocalPut(n, g) \/ LocalDelete(n, g)
    BY DEF LocalWrite
  <1>2. written \subseteq written'
    BY <1>1, PutEffect, DeleteEffect DEF Issues
  <1>3. nid' = nid
    BY <1>1 DEF LocalPut, LocalDelete
  <1>4. QED
    BY <1>1, <1>2, <1>3, QuietSessions DEF LocalWrite, sessionVars

-----------------------------------------------------------------------------
\* A collection that other transactions interrupt.

TornInv == StoreInv /\ Sessions

\* A scan of one table adds to a changeset some of what the sender holds.
LEMMA ScanSessions ==
  ASSUME TornInv, NEW n \in Node, ScanForPull(n) \/ ScanForPush(n)
  PROVE  Sessions' /\ UNCHANGED storeVars
  <1>1. \A src \in Node : \A k, vv : ScanOnce(src, k, vv) \subseteq written
    BY CollectHeld DEF TornInv, StoreInv, HistoryInv, HeldWritten, ScanOnce
  <1>2. pc[n] # "idle" /\ nid[n] # 0 /\ Peers[n] # <<>> /\ pc[n] \in Phases
    BY DEF ScanForPull, ScanForPush, TornInv, Sessions
  <1>3. Peer(n) \in Node
    BY <1>2, SplitPeer DEF TornInv
  <1>4. CASE ScanForPull(n)
    <2>1. /\ inbox' = [inbox EXCEPT ![n] = inbox[n] \cup ScanOnce(Peer(n), at[n], askVV[n])]
          /\ UNCHANGED <<storeVars, turn, askVV, replyVV, pushes, fails>>
          /\ pc' = [pc EXCEPT ![n] = "pulled"] \/ pc' = [pc EXCEPT ![n] = pc[n]]
      BY <1>4 DEF ScanForPull, TornInv, Sessions
    <2>2. inbox' \in [Node -> SUBSET written]
      BY <1>1, <1>3, <2>1 DEF TornInv, Sessions
    <2>3. \E phase \in Phases : pc' = [pc EXCEPT ![n] = phase]
      BY <1>2, <2>1 DEF Phases
    <2>4. QED
      BY <1>2, <2>1, <2>2, <2>3, SessionMove DEF storeVars, TornInv
  <1>5. CASE ScanForPush(n)
    <2> DEFINE S == inbox[n] \cup ScanOnce(n, at[n], replyVV[n])
    <2>1. /\ inbox' = [inbox EXCEPT ![n] = S]
          /\ UNCHANGED <<storeVars, turn, askVV, replyVV, fails>>
          /\ \/ /\ pc' = [pc EXCEPT ![n] = "pushing"]
                /\ pushes' = pushes \cup {[from |-> n, to |-> Peer(n),
                                           try |-> fails[n], changes |-> inbox'[n]]}
             \/ UNCHANGED <<pc, pushes>>
      BY <1>5 DEF ScanForPush
    <2>2. S \subseteq written /\ inbox'[n] = S /\ inbox' \in [Node -> SUBSET written]
      BY <1>1, <2>1 DEF TornInv, Sessions
    <2>3. \A p \in pushes' \ pushes :
            p.from \in Node /\ p.to \in Node /\ p.changes \subseteq written
      BY <1>3, <2>1, <2>2
    <2>4. \E phase \in Phases : pc' = [pc EXCEPT ![n] = phase]
      <3>1. pc = [pc EXCEPT ![n] = pc[n]]
        BY DEF TornInv, Sessions
      <3>2. QED
        BY <1>2, <2>1, <3>1 DEF Phases
    <2>5. QED
      BY <1>2, <2>1, <2>2, <2>3, <2>4, SessionMove DEF storeVars, TornInv
  <1>6. QED
    BY <1>4, <1>5

\* Every step is a move of the databases and keeps the sessions.
LEMMA TornStep ==
  ASSUME TornInv, [TornNext]_tornVars
  PROVE  StoreMove /\ Sessions'
  <1>1. ASSUME NEW n \in Node, LocalWrite(n)
        PROVE  StoreMove /\ Sessions'
    BY <1>1, WriteSessions DEF TornInv, StoreInv, StoreMove
  <1>2. ASSUME NEW n \in Node, SendPull(n)
        PROVE  StoreMove /\ Sessions'
    BY <1>2, SendPullSessions DEF TornInv, StoreMove
  <1>3. ASSUME NEW n \in Node, ApplyPull(n)
        PROVE  StoreMove /\ Sessions'
    <2>1. nid[n] # 0 /\ inbox[n] \in SUBSET written /\ ApplyChanges(n, inbox[n])
      BY <1>3 DEF ApplyPull, TornInv, Sessions
    <2>2. Sessions'
      BY <1>3, PulledSessions DEF ApplyPull, ApplyChanges, TornInv
    <2>3. QED
      BY <2>1, <2>2 DEF StoreMove
  <1>4. ASSUME NEW n \in Node, TornServePull(n)
        PROVE  StoreMove /\ Sessions'
    <2>1. /\ pc[n] = "pulling" /\ pc' = [pc EXCEPT ![n] = "serving"]
          /\ UNCHANGED <<storeVars, turn, askVV, inbox, pushes, fails>>
      BY <1>4 DEF TornServePull
    <2>2. nid[n] # 0 /\ Peers[n] # <<>> /\ inbox' \in [Node -> SUBSET written]
      BY <2>1 DEF TornInv, Sessions
    <2>3. QED
      BY <2>1, <2>2, SessionMove DEF storeVars, TornInv, Phases, StoreMove
  <1>5. ASSUME NEW n \in Node, ScanForPull(n) \/ ScanForPush(n)
        PROVE  StoreMove /\ Sessions'
    BY <1>5, ScanSessions DEF StoreMove
  <1>6. ASSUME NEW p \in pushes, ServePush(p)
        PROVE  StoreMove /\ Sessions'
    <2>1. Sessions'
      BY <1>6, ServeSessions DEF TornInv
    <2>2. /\ p.to \in Node /\ p.changes \in SUBSET written
          /\ nid[p.to] # 0 /\ ApplyChanges(p.to, p.changes)
      BY <1>6 DEF ServePush, TornInv, Sessions
    <2>3. QED
      BY <2>1, <2>2 DEF StoreMove
  <1>7. CASE UNCHANGED tornVars
    BY <1>7 DEF tornVars, vars, storeVars, sessionVars, StoreMove, TornInv, Sessions
  <1>8. QED
    BY <1>1, <1>2, <1>3, <1>4, <1>5, <1>6, <1>7 DEF TornNext

\* So TornInv is an inductive invariant.
LEMMA TornInvariant == TornSpec => []TornInv
  <1>1. TornInit => TornInv
    BY InitInv, InitSessions DEF TornInit, TornInv, Inv
  <1>2. TornInv /\ [TornNext]_tornVars => TornInv'
    BY TornStep, MoveKeepsStoreInv DEF TornInv
  <1>3. QED
    BY <1>1, <1>2, PTL DEF TornSpec

\* A changeset collected by several SELECTs may have gaps, but it never brings a
\* deleted row back, and clocks and stamps are as sound as with an atomic one.
THEOREM TornKeepsStores == TornSpec => [](ClockDominates /\ StampsUnique /\ NoResurrection)
  <1>1. TornInv => ClockDominates /\ StampsUnique /\ NoResurrection
    BY DEF TornInv, StoreInv, HistoryInv
  <1>2. QED
    BY <1>1, TornInvariant, PTL

\* Nor does it make last-writer-wins go back anywhere.
THEOREM TornNeverGoesBack == TornSpec => TornNeverBack
  <1>1. TornInv /\ [TornNext]_tornVars =>
          [\A n \in Node : \A w \in written :
             Covers(n, w.gid, w.hlc) => Covers(n, w.gid, w.hlc)']_tornVars
    <2> SUFFICES ASSUME TornInv, [TornNext]_tornVars, NEW n \in Node, NEW w \in written,
                        Covers(n, w.gid, w.hlc)
                 PROVE  Covers(n, w.gid, w.hlc)'
      OBVIOUS
    <2>1. w.gid \in Gid /\ w.hlc \in Stamp
      BY ChangeType DEF TornInv, StoreInv, HistoryInv, StoreTypeOK
    <2>2. QED
      BY <2>1, TornStep, MoveCovers DEF TornInv
  <1>2. QED
    BY <1>1, TornInvariant, PTL DEF TornSpec, TornNeverBack

\* The mesh with torn changesets still implements the replicated map, which
\* promises nothing of when a write arrives: what is lost is delivery alone.
THEOREM TornImplementsMap == TornSpec => ImplementsMap
  <1>1. TornInit => Map!Init
    BY InitRefines DEF TornInit
  <1>2. TornInv /\ [TornNext]_tornVars => [Map!Next]_<<written, seen>>
    BY TornStep, MoveRefines DEF TornInv
  <1>3. QED
    BY <1>1, <1>2, TornInvariant, PTL DEF TornSpec, ImplementsMap, Map!Spec

-----------------------------------------------------------------------------
\* A merge that decides on its first change before it has the lock.

\* What n has decided is about one change of the response it is merging.
DecidedOne(n) ==
  \/ decided[n] = NoDecision
  \/ \E c \in inbox[n] : /\ pc[n] = "decided"
                         /\ \/ c.op = "put" /\ decided[n] = [put |-> {c}, drop |-> {}]
                            \/ decided[n] = [put |-> {}, drop |-> {c}]

StaleInv ==
  /\ HistoryInv
  /\ Sessions
  /\ DOMAIN decided = Node
  /\ \A n \in Node : DecidedOne(n)

\* Executing the decision sets at most the row of the decided change, to its
\* stamp or to nothing.
LEMMA ExecutedRow ==
  ASSUME StaleInv, NEW n \in Node, NEW g \in Gid
  PROVE  LET x == Executed(row[n], decided[n])[g]
         IN  /\ \/ x = row[n][g]
                \/ x = NoStamp
                \/ \E c \in inbox[n] : c.op = "put" /\ c.gid = g /\ c.hlc = x
             /\ \/ x = row[n][g]
                \/ \E c \in decided[n].put \cup decided[n].drop : c.gid = g
  <1>1. CASE decided[n] = NoDecision
    BY <1>1 DEF NoDecision, Executed
  <1>2. ASSUME NEW c \in inbox[n], c.op = "put", decided[n] = [put |-> {c}, drop |-> {}]
        PROVE  Executed(row[n], decided[n])[g] = IF c.gid = g THEN c.hlc ELSE row[n][g]
    <2>1. decided[n].put = {c} /\ decided[n].drop = {}
      BY <1>2
    <2>2. (CHOOSE d \in {c} : TRUE) = c
      OBVIOUS
    <2>3. QED
      BY <2>1, <2>2 DEF Executed
  <1>3. ASSUME NEW c \in inbox[n], decided[n] = [put |-> {}, drop |-> {c}]
        PROVE  Executed(row[n], decided[n])[g] = IF c.gid = g THEN NoStamp ELSE row[n][g]
    <2>1. decided[n].put = {} /\ decided[n].drop = {c}
      BY <1>3
    <2>2. QED
      BY <2>1 DEF Executed
  <1>4. QED
    BY <1>1, <1>2, <1>3 DEF StaleInv, DecidedOne

\* What the merge as decided does to the databases.
LEMMA StaleApplyEffect ==
  ASSUME StaleInv, NEW n \in Node, StaleApplyPull(n)
  PROVE  /\ HistoryInv' /\ Sessions'
         /\ \A m \in Node \ {n} : row'[m] = row[m] /\ tomb'[m] = tomb[m]
         /\ tomb'[n] = tomb[n] \cup Deletes(inbox[n])
         /\ \A g \in Gid :
              row'[n][g] = AfterDeletes(Executed(row[n], decided[n]), tomb[n], inbox[n], g)
  <1> DEFINE r == Executed(row[n], decided[n])
  <1>1. /\ row' = [row EXCEPT ![n] = [g \in Gid |-> AfterDeletes(r, tomb[n], inbox[n], g)]]
        /\ tomb' = [tomb EXCEPT ![n] = @ \cup Deletes(inbox[n])]
        /\ AbsorbChanges(n, inbox[n])
        /\ UNCHANGED <<nid, written, turn, askVV, replyVV, pushes, fails>>
    BY DEF StaleApplyPull
  <1>2. /\ inbox[n] \in SUBSET written /\ inbox[n] \in SUBSET Change /\ nid[n] # 0
        /\ row \in [Node -> [Gid -> StampOrNone]] /\ tomb \in [Node -> SUBSET Change]
        /\ StoreTypeOK
    BY DEF StaleApplyPull, StaleInv, Sessions, HistoryInv, StoreTypeOK
  <1>3. r \in [Gid -> StampOrNone]
    <2>1. \A g \in Gid : r[g] \in StampOrNone
      <3>1. \A c \in inbox[n] : c.hlc \in StampOrNone
        BY <1>2, ChangeType
      <3>2. QED
        BY <1>2, <3>1, ExecutedRow DEF StampOrNone
    <2>2. QED
      BY <2>1 DEF Executed
  <1>4. /\ clock' \in [Node -> ClockValue]
        /\ \A m \in Node \ {n} : clock'[m] = clock[m]
        /\ ClockLeq(clock[n], clock'[n])
        /\ \A c \in inbox[n] : ClockLeq(Time(c.hlc), clock'[n])
    BY <1>1, <1>2, AbsorbEffect
  <1> HIDE DEF r
  <1>5. \A g \in Gid : AfterDeletes(r, tomb[n], inbox[n], g) \in StampOrNone
    BY <1>2, <1>3, AfterDeletesType
  <1>6. /\ row' \in [Node -> [Gid -> StampOrNone]]
        /\ \A m \in Node \ {n} : row'[m] = row[m]
        /\ \A g \in Gid : row'[n][g] = AfterDeletes(r, tomb[n], inbox[n], g)
    BY <1>1, <1>2, <1>5
  <1>7. /\ tomb' \in [Node -> SUBSET Change]
        /\ \A m \in Node \ {n} : tomb'[m] = tomb[m]
        /\ tomb'[n] = tomb[n] \cup Deletes(inbox[n])
    BY <1>1, <1>2 DEF Deletes
  <1>8. StoreTypeOK'
    BY <1>1, <1>2, <1>4, <1>6, <1>7 DEF StoreTypeOK
  <1>9. Held(n)' \subseteq Held(n) \cup inbox[n]
    <2> SUFFICES ASSUME NEW c \in Held(n)' PROVE c \in Held(n) \cup inbox[n]
      OBVIOUS
    <2>1. CASE c \in tomb'[n]
      BY <2>1, <1>7 DEF Held, Deletes
    <2>2. ASSUME NEW g \in Gid, row'[n][g] # NoStamp,
                 c = [op |-> "put", gid |-> g, hlc |-> row'[n][g]]
          PROVE  c \in Held(n) \cup inbox[n]
      <3>1. CASE row'[n][g] # r[g]
        BY <2>2, <3>1, <1>2, <1>3, <1>6, MergedRow
      <3>2. CASE row'[n][g] = r[g]
        <4>1. \/ r[g] = row[n][g]
              \/ \E d \in inbox[n] : d.op = "put" /\ d.gid = g /\ d.hlc = r[g]
          BY <2>2, <3>2, ExecutedRow DEF r
        <4>2. CASE r[g] = row[n][g]
          BY <2>2, <3>2, <4>2 DEF Held, HeldRows
        <4>3. ASSUME NEW d \in inbox[n], d.op = "put", d.gid = g, d.hlc = r[g]
              PROVE  c \in inbox[n]
          <5>1. d = [op |-> "put", gid |-> g, hlc |-> r[g]]
            BY <4>3, <1>2 DEF Change
          <5>2. QED
            BY <5>1, <2>2, <3>2
        <4>4. QED
          BY <4>1, <4>2, <4>3
      <3>3. QED
        BY <3>1, <3>2
    <2>3. QED
      BY <2>1, <2>2 DEF Held, HeldRows
  <1>10. HistoryInv'
    BY <1>1, <1>2, <1>4, <1>6, <1>7, <1>8, <1>9, ReceiveKeepsHistory DEF StaleInv
  <1>11. Sessions'
    BY PulledSessions DEF StaleApplyPull, StaleInv
  <1>12. QED
    BY <1>6, <1>7, <1>10, <1>11 DEF r

\* A session of n that is not merging has decided on nothing.
LEMMA DecidedKept ==
  ASSUME StaleInv, NEW n \in Node, pc[n] # "decided", decided' = decided,
         \A m \in Node \ {n} : pc'[m] = pc[m] /\ inbox'[m] = inbox[m]
  PROVE  DOMAIN decided' = Node /\ \A m \in Node : DecidedOne(m)'
  BY DEF StaleInv, DecidedOne

\* The decision is about one change of the response.
LEMMA DecideKeeps ==
  ASSUME StaleInv, NEW n \in Node, DecideFirst(n)
  PROVE  StaleInv' /\ UNCHANGED storeVars
  <1>1. /\ pc[n] = "pulled" /\ pc' = [pc EXCEPT ![n] = "decided"]
        /\ UNCHANGED <<storeVars, turn, askVV, replyVV, inbox, pushes, fails>>
    BY DEF DecideFirst
  <1>2. PICK d \in Decisions(row[n], tomb[n], inbox[n]) :
          decided' = [decided EXCEPT ![n] = d]
    BY DEF DecideFirst
  <1>3. \/ d = NoDecision
        \/ \E c \in inbox[n] : \/ c.op = "put" /\ d = [put |-> {c}, drop |-> {}]
                               \/ d = [put |-> {}, drop |-> {c}]
    BY DEF Decisions, Accepts, Deletes
  <1>4. DOMAIN decided' = Node /\ \A m \in Node : DecidedOne(m)'
    <2>1. decided'[n] = d /\ \A m \in Node \ {n} : decided'[m] = decided[m]
      BY <1>2 DEF StaleInv
    <2>2. pc'[n] = "decided" /\ \A m \in Node \ {n} : pc'[m] = pc[m]
      BY <1>1 DEF StaleInv, Sessions
    <2>3. inbox' = inbox /\ DOMAIN decided' = Node
      BY <1>1, <1>2 DEF StaleInv
    <2>4. DecidedOne(n)'
      BY <1>3, <2>1, <2>2, <2>3 DEF DecidedOne
    <2>5. \A m \in Node \ {n} : DecidedOne(m)'
      BY <2>1, <2>2, <2>3 DEF StaleInv, DecidedOne
    <2>6. QED
      BY <2>3, <2>4, <2>5
  <1>5. Sessions'
    <2>1. nid[n] # 0 /\ Peers[n] # <<>> /\ inbox' \in [Node -> SUBSET written]
      BY <1>1 DEF StaleInv, Sessions
    <2>2. QED
      BY <1>1, <2>1, SessionMove DEF storeVars, StaleInv, Phases
  <1>6. \A m \in Node : Held(m)' = Held(m)
    BY <1>1 DEF storeVars, Held, HeldRows
  <1>7. HistoryInv'
    BY <1>1, <1>6 DEF storeVars, StaleInv, HistoryInv, StoreTypeOK, OwnIdentity,
       HeldWritten, OwnClock, ClockDominates, StampsUnique
  <1>8. QED
    BY <1>1, <1>4, <1>5, <1>7 DEF StaleInv

\* What the steps other than the split merge do to the databases.
StaleMove ==
  \/ UNCHANGED storeVars
  \/ \E n \in Node, g \in Gid : LocalPut(n, g) \/ LocalDelete(n, g)
  \/ \E n \in Node, changes \in SUBSET written :
       nid[n] # 0 /\ ApplyChanges(n, changes)

\* They keep where versions come from, and take nothing back.
LEMMA StaleMoveKeeps ==
  ASSUME HistoryInv, StaleMove
  PROVE  /\ HistoryInv'
         /\ \A m \in Node, g \in Gid, s \in Stamp : Covers(m, g, s) => Covers(m, g, s)'
  <1>1. CASE UNCHANGED storeVars
    <2>1. \A n \in Node : Held(n)' = Held(n)
      BY <1>1 DEF storeVars, Held, HeldRows
    <2>2. QED
      BY <1>1, <2>1 DEF storeVars, HistoryInv, StoreTypeOK, OwnIdentity,
         HeldWritten, OwnClock, ClockDominates, StampsUnique, Covers
  <1>2. ASSUME NEW n \in Node, NEW h \in Gid, LocalPut(n, h) \/ LocalDelete(n, h)
        PROVE  /\ HistoryInv'
               /\ \A m \in Node, g \in Gid, s \in Stamp :
                    Covers(m, g, s) => Covers(m, g, s)'
    BY <1>2, PutKeepsInvariants, DeleteKeepsInvariants, WriteCovers
  <1>3. ASSUME NEW n \in Node, nid[n] # 0, NEW changes \in SUBSET written,
               ApplyChanges(n, changes)
        PROVE  /\ HistoryInv'
               /\ \A m \in Node, g \in Gid, s \in Stamp :
                    Covers(m, g, s) => Covers(m, g, s)'
    BY <1>3, ApplyKeepsHistory, ApplyCovers
  <1>4. QED
    BY <1>1, <1>2, <1>3 DEF StaleMove

\* Every step is such a move, or the split merge of a node.
LEMMA StaleStep ==
  ASSUME StaleInv, [StaleNext]_staleVars
  PROVE  /\ StaleInv'
         /\ StaleMove \/ \E n \in Node : StaleApplyPull(n)
  <1> DEFINE Good == /\ StaleMove /\ Sessions'
                     /\ DOMAIN decided' = Node /\ \A m \in Node : DecidedOne(m)'
  <1>1. ASSUME NEW n \in Node, LocalWrite(n), decided' = decided
        PROVE  Good
    <2>1. UNCHANGED <<pc, inbox>>
      BY <1>1 DEF LocalWrite, sessionVars
    <2>2. \A m \in Node : DecidedOne(m)'
      BY <1>1, <2>1 DEF StaleInv, DecidedOne
    <2>3. QED
      BY <1>1, <2>2, WriteSessions DEF StaleInv, StaleMove
  <1>2. ASSUME NEW n \in Node, SendPull(n), decided' = decided
        PROVE  Good
    <2>1. /\ pc[n] # "decided" /\ inbox' = inbox
          /\ \A m \in Node \ {n} : pc'[m] = pc[m]
      BY <1>2 DEF SendPull, StaleInv, Sessions
    <2>2. QED
      BY <1>2, <2>1, DecidedKept, SendPullSessions DEF StaleInv, StaleMove
  <1>3. ASSUME NEW n \in Node, ServePull(n), decided' = decided
        PROVE  Good
    <2>1. /\ pc[n] = "pulling" /\ pc' = [pc EXCEPT ![n] = "pulled"]
          /\ inbox' = [inbox EXCEPT ![n] = CollectChanges(Peer(n), askVV[n])]
          /\ UNCHANGED <<storeVars, turn, pushes, fails>>
      BY <1>3 DEF ServePull
    <2>2. nid[n] # 0 /\ Peers[n] # <<>> /\ Peer(n) \in Node
      BY <2>1, SplitPeer DEF StaleInv, Sessions
    <2>3. CollectChanges(Peer(n), askVV[n]) \subseteq written
      BY <2>2, CollectHeld DEF StaleInv, HistoryInv, HeldWritten
    <2>4. inbox' \in [Node -> SUBSET written]
      BY <2>1, <2>3 DEF StaleInv, Sessions
    <2>5. Sessions'
      BY <2>1, <2>2, <2>4, SessionMove DEF storeVars, StaleInv, Phases
    <2>6. \A m \in Node \ {n} : pc'[m] = pc[m] /\ inbox'[m] = inbox[m]
      BY <2>1 DEF StaleInv, Sessions
    <2>7. QED
      BY <1>3, <2>1, <2>5, <2>6, DecidedKept DEF StaleMove
  <1>4. ASSUME NEW n \in Node, SendPush(n), decided' = decided
        PROVE  Good
    <2>1. /\ pc[n] = "applied" /\ pc' = [pc EXCEPT ![n] = "pushing"]
          /\ pushes' = pushes \cup {[from |-> n, to |-> Peer(n), try |-> fails[n],
                                     changes |-> CollectChanges(n, replyVV[n])]}
          /\ UNCHANGED <<storeVars, turn, askVV, inbox, fails>>
      BY <1>4 DEF SendPush
    <2>2. /\ nid[n] # 0 /\ Peers[n] # <<>> /\ Peer(n) \in Node
          /\ inbox' \in [Node -> SUBSET written]
      BY <2>1, SplitPeer DEF StaleInv, Sessions
    <2>3. CollectChanges(n, replyVV[n]) \subseteq written
      BY CollectHeld DEF StaleInv, HistoryInv, HeldWritten
    <2>4. \A p \in pushes' \ pushes :
            p.from \in Node /\ p.to \in Node /\ p.changes \subseteq written
      BY <2>1, <2>2, <2>3
    <2>5. Sessions'
      BY <2>1, <2>2, <2>4, SessionMove DEF storeVars, StaleInv, Phases
    <2>6. \A m \in Node \ {n} : pc'[m] = pc[m] /\ inbox'[m] = inbox[m]
      BY <2>1 DEF StaleInv, Sessions
    <2>7. QED
      BY <1>4, <2>1, <2>5, <2>6, DecidedKept DEF StaleMove
  <1>5. ASSUME NEW p \in pushes, ServePush(p), decided' = decided
        PROVE  Good
    <2>1. /\ p.from \in Node /\ p.to \in Node /\ p.changes \in SUBSET written
          /\ nid[p.to] # 0 /\ ApplyChanges(p.to, p.changes)
      BY <1>5 DEF ServePush, StaleInv, Sessions
    <2>2. \A m \in Node : DecidedOne(m)'
      <3>1. CASE Waiting(p)
        <4>1. /\ pc[p.from] # "decided"
              /\ \A m \in Node \ {p.from} : pc'[m] = pc[m] /\ inbox'[m] = inbox[m]
          BY <1>5, <2>1, <3>1 DEF ServePush, Waiting, EndSession, StaleInv, Sessions
        <4>2. QED
          BY <1>5, <2>1, <4>1, DecidedKept
      <3>2. CASE ~ Waiting(p)
        BY <1>5, <3>2 DEF ServePush, StaleInv, DecidedOne
      <3>3. QED
        BY <3>1, <3>2
    <2>3. QED
      BY <1>5, <2>1, <2>2, ServeSessions DEF StaleInv, StaleMove
  <1>6. ASSUME UNCHANGED staleVars
        PROVE  Good
    <2>1. /\ UNCHANGED storeVars /\ UNCHANGED <<pc, turn, inbox, pushes, decided>>
          /\ nid' = nid /\ written' = written
      BY <1>6 DEF staleVars, vars, storeVars, sessionVars
    <2>2. DOMAIN decided' = Node /\ \A m \in Node : DecidedOne(m)'
      BY <2>1 DEF StaleInv, DecidedOne
    <2>3. Sessions'
      BY <2>1, QuietSessions DEF StaleInv
    <2>4. QED
      BY <2>1, <2>2, <2>3 DEF StaleMove
  <1>7. CASE Good
    BY <1>7, StaleMoveKeeps DEF StaleInv
  <1>8. ASSUME NEW n \in Node, StaleApplyPull(n)
        PROVE  StaleInv'
    <2>1. /\ decided' = [decided EXCEPT ![n] = NoDecision]
          /\ pc' = [pc EXCEPT ![n] = "applied"] /\ inbox' = [inbox EXCEPT ![n] = {}]
      BY <1>8 DEF StaleApplyPull
    <2>2. /\ DOMAIN decided' = Node /\ decided'[n] = NoDecision
          /\ \A m \in Node \ {n} : /\ decided'[m] = decided[m] /\ pc'[m] = pc[m]
                                   /\ inbox'[m] = inbox[m]
      BY <2>1 DEF StaleInv, Sessions
    <2>3. \A m \in Node : DecidedOne(m)'
      BY <2>2 DEF StaleInv, DecidedOne
    <2>4. QED
      BY <1>8, <2>2, <2>3, StaleApplyEffect DEF StaleInv
  <1>9. ASSUME NEW n \in Node, DecideFirst(n)
        PROVE  StaleInv' /\ StaleMove
    BY <1>9, DecideKeeps DEF StaleMove
  <1> HIDE DEF Good
  <1>10. Good \/ \E n \in Node : DecideFirst(n) \/ StaleApplyPull(n)
    BY <1>1, <1>2, <1>3, <1>4, <1>5, <1>6 DEF StaleNext
  <1>11. Good => StaleMove
    BY DEF Good
  <1>12. QED
    BY <1>7, <1>8, <1>9, <1>10, <1>11

\* So StaleInv is an inductive invariant.
LEMMA StaleInvariant == StaleSpec => []StaleInv
  <1>1. StaleInit => StaleInv
    BY InitInv, InitSessions DEF StaleInit, StaleInv, Inv, StoreInv, DecidedOne
  <1>2. StaleInv /\ [StaleNext]_staleVars => StaleInv'
    BY StaleStep
  <1>3. QED
    BY <1>1, <1>2, PTL DEF StaleSpec

\* A merge that decides too early still moves the clock past what it stores and
\* stores only what was written: stamps stay unique and clocks dominate.
THEOREM StaleKeepsClocks == StaleSpec => [](ClockDominates /\ StampsUnique)
  <1>1. StaleInv => ClockDominates /\ StampsUnique
    BY DEF StaleInv, HistoryInv
  <1>2. QED
    BY <1>1, StaleInvariant, PTL

\* The damage is confined: a merge takes back a version only of the row of the
\* change that it decided on before it had the lock.
THEOREM StaleLosesOneRow == StaleSpec => LosesDecidedOnly
  <1>1. StaleInv /\ [StaleNext]_staleVars =>
          [\A n \in Node : \A w \in written :
             Covers(n, w.gid, w.hlc) /\ ~ Covers(n, w.gid, w.hlc)' =>
               \E c \in decided[n].put \cup decided[n].drop : c.gid = w.gid]_staleVars
    <2> SUFFICES ASSUME StaleInv, [StaleNext]_staleVars, NEW n \in Node, NEW w \in written,
                        Covers(n, w.gid, w.hlc),
                        \A c \in decided[n].put \cup decided[n].drop : c.gid # w.gid
                 PROVE  Covers(n, w.gid, w.hlc)'
      OBVIOUS
    <2>1. w.gid \in Gid /\ w.hlc \in Stamp /\ w.hlc \in StampOrNone
      BY ChangeType DEF StaleInv, HistoryInv, StoreTypeOK
    <2>2. CASE StaleMove
      BY <2>1, <2>2, StaleMoveKeeps DEF StaleInv
    <2>3. ASSUME NEW m \in Node, StaleApplyPull(m)
          PROVE  Covers(n, w.gid, w.hlc)'
      <3> DEFINE r == Executed(row[m], decided[m])
      <3>1. /\ \A k \in Node \ {m} : row'[k] = row[k] /\ tomb'[k] = tomb[k]
            /\ tomb'[m] = tomb[m] \cup Deletes(inbox[m])
            /\ row'[m][w.gid] = AfterDeletes(r, tomb[m], inbox[m], w.gid)
        BY <2>1, <2>3, StaleApplyEffect
      <3>2. CASE n # m \/ \E t \in tomb[n] : t.gid = w.gid /\ Leq(w.hlc, t.hlc)
        BY <3>1, <3>2 DEF Covers
      <3>3. CASE n = m /\ Leq(w.hlc, row[n][w.gid])
        <4>1. r[w.gid] = row[m][w.gid]
          BY <2>1, <3>3, ExecutedRow
        <4>2. /\ inbox[m] \in SUBSET Change /\ tomb[m] \in SUBSET Change
              /\ \A g \in Gid : row[m][g] \in StampOrNone
          BY DEF StaleInv, Sessions, HistoryInv, StoreTypeOK
        <4>3. r \in [Gid -> StampOrNone]
          <5>1. \A c \in inbox[m] : c.hlc \in StampOrNone
            BY <4>2, ChangeType
          <5>2. \A g \in Gid : r[g] \in StampOrNone
            BY <4>2, <5>1, ExecutedRow DEF StampOrNone
          <5>3. QED
            BY <5>2 DEF Executed
        <4> HIDE DEF r
        <4>4. QED
          BY <2>1, <3>1, <3>3, <4>1, <4>2, <4>3, MergeCovers DEF Covers
      <3>4. QED
        BY <3>2, <3>3 DEF Covers
    <2>4. QED
      BY <2>2, <2>3, StaleStep
  <1>2. QED
    BY <1>1, StaleInvariant, PTL DEF StaleSpec, LosesDecidedOnly
=============================================================================
