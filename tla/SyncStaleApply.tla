--------------------------- MODULE SyncStaleApply ---------------------------
(***************************************************************************)
(* SyncMesh with apply_changes as the code runs it.  The sqlite3 module    *)
(* opens a transaction at the first INSERT, UPDATE or DELETE: what the     *)
(* code reads to decide on its first effective change (_local_hlc,         *)
(* _has_newer_tombstone) is read before the write lock is taken, so        *)
(* another connection can commit between that decision and its execution.  *)
(* The decisions on the later changes are made inside the transaction.     *)
(***************************************************************************)
EXTENDS SyncProperties

VARIABLE decided   \* decided[n]: n's merge has decided on its first change

staleVars == <<vars, decided>>

NoDecision == [put |-> {}, drop |-> {}]

\* The first change with an effect: a put to execute, or, when every put is
\* skipped, a delete together with whether the row is to be dropped.
Decisions(r, t, changes) ==
  LET puts == {c \in changes : Accepts(r, t, c)}
  IN  IF puts # {} THEN {[put |-> {c}, drop |-> {}] : c \in puts}
      ELSE {NoDecision} \cup
           {[put |-> {}, drop |-> {c}] : c \in {d \in Deletes(changes) : Less(r[d.gid], d.hlc)}}

\* The rows once the first change has been executed as decided.
Executed(r, d) ==
  [g \in Gid |-> IF \E c \in d.put : c.gid = g THEN (CHOOSE c \in d.put : TRUE).hlc
                 ELSE IF \E c \in d.drop : c.gid = g THEN NoStamp
                 ELSE r[g]]

StaleInit == Init /\ decided = [n \in Node |-> NoDecision]

DecideFirst(n) ==
  /\ pc[n] = "pulled"
  /\ \E d \in Decisions(row[n], tomb[n], inbox[n]) :
       decided' = [decided EXCEPT ![n] = d]
  /\ pc' = [pc EXCEPT ![n] = "decided"]
  /\ UNCHANGED <<storeVars, turn, askVV, replyVV, inbox, pushes, fails>>

StaleApplyPull(n) ==
  /\ pc[n] = "decided"
  /\ LET r == Executed(row[n], decided[n])
     IN  row' = [row EXCEPT ![n] = [g \in Gid |->
                   AfterDeletes(r, tomb[n], inbox[n], g)]]
  /\ tomb' = [tomb EXCEPT ![n] = @ \cup Deletes(inbox[n])]
  /\ AbsorbChanges(n, inbox[n])
  /\ decided' = [decided EXCEPT ![n] = NoDecision]
  /\ pc' = [pc EXCEPT ![n] = "applied"]
  /\ inbox' = [inbox EXCEPT ![n] = {}]
  /\ UNCHANGED <<nid, written, turn, askVV, replyVV, pushes, fails>>

StaleNext ==
  \/ \E n \in Node :
       \/ /\ LocalWrite(n) \/ SendPull(n) \/ ServePull(n) \/ SendPush(n)
          /\ UNCHANGED decided
       \/ DecideFirst(n) \/ StaleApplyPull(n)
  \/ \E p \in pushes : ServePush(p) /\ UNCHANGED decided

StaleSpec == StaleInit /\ [][StaleNext]_staleVars

\* NeverBack for the behaviours of this module.
StaleNeverBack ==
  [][\A n \in Node : \A w \in written :
       Covers(n, w.gid, w.hlc) => Covers(n, w.gid, w.hlc)']_staleVars

\* What the decision before the lock can cost: a node loses what it has of a
\* row only by a merge, and only of the row of the change decided first.
LosesDecidedOnly ==
  [][\A n \in Node : \A w \in written :
       Covers(n, w.gid, w.hlc) /\ ~ Covers(n, w.gid, w.hlc)' =>
         \E c \in decided[n].put \cup decided[n].drop : c.gid = w.gid]_staleVars
=============================================================================
