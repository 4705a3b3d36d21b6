--------------------------- MODULE SyncTornCollect ---------------------------
(***************************************************************************)
(* SyncMesh with collect_changes as the code runs it: one SELECT per       *)
(* replicated table and a last one for the tombstones, each of which reads *)
(* the database as it is at that moment.  No transaction spans them, so    *)
(* other connections commit in between.                                    *)
(***************************************************************************)
EXTENDS SyncProperties

CONSTANT TableOf    \* TableOf[g]: position of g's table in _ALL_TABLES, from 1

VARIABLE at         \* at[n]: the table n's running collection reads next

tornVars == <<vars, at>>

\* The scan that follows those of the tables reads the tombstones.
LastScan == 1 + CHOOSE k \in {TableOf[g] : g \in Gid} :
                  \A g \in Gid : TableOf[g] <= k

ScanOnce(src, k, peerVV) ==
  {c \in CollectChanges(src, peerVV) :
     IF c.op = "put" THEN TableOf[c.gid] = k ELSE k = LastScan}

TornInit == Init /\ at = [n \in Node |-> 1]

\* The server reads its version vector, then its tables one after the other.
TornServePull(n) ==
  /\ pc[n] = "pulling"
  /\ nid[Peer(n)] # 0
  /\ \E vv \in VersionVectors(Peer(n)) : replyVV' = [replyVV EXCEPT ![n] = vv]
  /\ pc' = [pc EXCEPT ![n] = "serving"]
  /\ UNCHANGED <<storeVars, turn, askVV, inbox, pushes, fails, at>>

ScanForPull(n) ==
  /\ pc[n] = "serving"
  /\ inbox' = [inbox EXCEPT ![n] = @ \cup ScanOnce(Peer(n), at[n], askVV[n])]
  /\ IF at[n] = LastScan
       THEN /\ pc' = [pc EXCEPT ![n] = "pulled"]
            /\ at' = [at EXCEPT ![n] = 1]
       ELSE /\ at' = [at EXCEPT ![n] = @ + 1]
            /\ UNCHANGED pc
  /\ UNCHANGED <<storeVars, turn, askVV, replyVV, pushes, fails>>

\* The client collects for its push in the same way.
ScanForPush(n) ==
  /\ pc[n] = "applied"
  /\ inbox' = [inbox EXCEPT ![n] = @ \cup ScanOnce(n, at[n], replyVV[n])]
  /\ IF at[n] = LastScan
       THEN /\ pushes' = pushes \cup {[from |-> n, to |-> Peer(n),
                                       try |-> fails[n], changes |-> inbox'[n]]}
            /\ pc' = [pc EXCEPT ![n] = "pushing"]
            /\ at' = [at EXCEPT ![n] = 1]
       ELSE /\ at' = [at EXCEPT ![n] = @ + 1]
            /\ UNCHANGED <<pc, pushes>>
  /\ UNCHANGED <<storeVars, turn, askVV, replyVV, fails>>

TornNext ==
  \/ \E n \in Node :
       \/ (LocalWrite(n) \/ SendPull(n) \/ ApplyPull(n)) /\ UNCHANGED at
       \/ TornServePull(n) \/ ScanForPull(n) \/ ScanForPush(n)
  \/ \E p \in pushes : ServePush(p) /\ UNCHANGED at

TornSpec == TornInit /\ [][TornNext]_tornVars

\* NeverBack for the behaviours of this module.
TornNeverBack ==
  [][\A n \in Node : \A w \in written :
       Covers(n, w.gid, w.hlc) => Covers(n, w.gid, w.hlc)']_tornVars
=============================================================================
