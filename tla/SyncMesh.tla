------------------------------- MODULE SyncMesh -------------------------------
(***************************************************************************)
(* The peer-to-peer mesh: the client daemon of threadkeeper/sync/daemon.py *)
(* and the HTTP server of threadkeeper/sync/server.py, run by every node   *)
(* over the store of SyncStore, with lost, late and repeated requests and  *)
(* with the cloning of a database (reset_node.py).                         *)
(*                                                                         *)
(* Here one call of version_vector, collect_changes or apply_changes is    *)
(* one atomic step.  SyncTornCollect and SyncStaleApply split it.          *)
(***************************************************************************)
EXTENDS SyncStore, Sequences

CONSTANTS Peers,      \* Peers[n]: THREADKEEPER_SYNC_PEERS of n, a sequence
          Spare,      \* nodes that start without a database
          MaxFails    \* MaxFails[n]: bound of the failed sessions of n in TLC's instances

ASSUME MeshAssumption ==
  /\ Peers \in [Node -> Seq(Node)]
  /\ \A n \in Node : \A i \in 1 .. Len(Peers[n]) : Peers[n][i] # n
  /\ Spare \subseteq Node
  /\ MaxFails \in [Node -> Nat]

VARIABLES
  pc,        \* pc[n]: where the sync daemon of n is in sync_with_peer
  turn,      \* turn[n]: index in Peers[n] of the peer it deals with
  askVV,     \* askVV[n]: the version vector in its pull request
  replyVV,   \* replyVV[n]: the server's version vector in the pull response
  inbox,     \* inbox[n]: the changes in the pull response
  pushes,    \* push requests some server has still to handle
  fails      \* fails[n]: sessions of n that failed so far

sessionVars == <<pc, turn, askVV, replyVV, inbox, pushes, fails>>
vars == <<storeVars, sessionVars>>

NoVV == [o \in Node |-> NoStamp]
Push == [from : Node, to : Node, try : Nat, changes : SUBSET Change]

Init ==
  /\ nid = [n \in Node |-> IF n \in Spare THEN 0 ELSE n]
  /\ clock = [n \in Node |-> <<0, 0>>]
  /\ row = [n \in Node |-> [g \in Gid |-> NoStamp]]
  /\ tomb = [n \in Node |-> {}]
  /\ written = {}
  /\ pc = [n \in Node |-> "idle"]
  /\ turn = [n \in Node |-> 1]
  /\ askVV = [n \in Node |-> NoVV]
  /\ replyVV = [n \in Node |-> NoVV]
  /\ inbox = [n \in Node |-> {}]
  /\ pushes = {}
  /\ fails = [n \in Node |-> 0]

-----------------------------------------------------------------------------
Peer(n) == Peers[n][turn[n]]

\* sync_all goes on to the next peer, or to the next tick, whether the
\* session with this peer succeeded or raised.
EndSession(n) ==
  /\ pc' = [pc EXCEPT ![n] = "idle"]
  /\ turn' = [turn EXCEPT ![n] = IF @ = Len(Peers[n]) THEN 1 ELSE @ + 1]
  /\ askVV' = [askVV EXCEPT ![n] = NoVV]
  /\ replyVV' = [replyVV EXCEPT ![n] = NoVV]
  /\ inbox' = [inbox EXCEPT ![n] = {}]

\* The client posts its version vector to /sync/pull.
SendPull(n) ==
  /\ pc[n] = "idle"
  /\ nid[n] # 0
  /\ Peers[n] # <<>>
  /\ \E vv \in VersionVectors(n) : askVV' = [askVV EXCEPT ![n] = vv]
  /\ pc' = [pc EXCEPT ![n] = "pulling"]
  /\ UNCHANGED <<storeVars, turn, replyVV, inbox, pushes, fails>>

\* The server answers with its own version vector and what the client lacks.
ServePull(n) ==
  /\ pc[n] = "pulling"
  /\ nid[Peer(n)] # 0
  /\ \E vv \in VersionVectors(Peer(n)) : replyVV' = [replyVV EXCEPT ![n] = vv]
  /\ inbox' = [inbox EXCEPT ![n] = CollectChanges(Peer(n), askVV[n])]
  /\ askVV' = [askVV EXCEPT ![n] = NoVV]
  /\ pc' = [pc EXCEPT ![n] = "pulled"]
  /\ UNCHANGED <<storeVars, turn, pushes, fails>>

\* The client merges the response in one transaction.
ApplyPull(n) ==
  /\ pc[n] = "pulled"
  /\ ApplyChanges(n, inbox[n])
  /\ pc' = [pc EXCEPT ![n] = "applied"]
  /\ inbox' = [inbox EXCEPT ![n] = {}]
  /\ UNCHANGED <<turn, askVV, replyVV, pushes, fails>>

\* The client collects what the server lacked when it answered and posts it.
SendPush(n) ==
  /\ pc[n] = "applied"
  /\ pushes' = pushes \cup {[from |-> n, to |-> Peer(n), try |-> fails[n],
                             changes |-> CollectChanges(n, replyVV[n])]}
  /\ replyVV' = [replyVV EXCEPT ![n] = NoVV]
  /\ pc' = [pc EXCEPT ![n] = "pushing"]
  /\ UNCHANGED <<storeVars, turn, askVV, inbox, fails>>

\* The client of the push request p is still waiting for the answer.
Waiting(p) == pc[p.from] = "pushing" /\ p.try = fails[p.from]

\* A server thread merges a push request, also one its client gave up on.
\* The response carries only a count.
ServePush(p) ==
  /\ nid[p.to] # 0
  /\ ApplyChanges(p.to, p.changes)
  /\ pushes' = pushes \ {p}
  /\ IF Waiting(p)
       THEN EndSession(p.from)
       ELSE UNCHANGED <<pc, turn, askVV, replyVV, inbox>>
  /\ UNCHANGED fails

-----------------------------------------------------------------------------
\* The client gives up: connection refused, timeout, lost response, or a
\* crash between two requests.  A push it sent may still be handled.
FailSession(n) ==
  /\ pc[n] # "idle"
  /\ fails[n] < MaxFails[n]
  /\ EndSession(n)
  /\ fails' = [fails EXCEPT ![n] = @ + 1]
  /\ UNCHANGED <<storeVars, pushes>>

\* A push that never reaches the server, or whose transaction is rolled back.
LosePush(p) ==
  /\ pushes' = pushes \ {p}
  /\ IF Waiting(p)
       THEN /\ fails[p.from] < MaxFails[p.from]
            /\ EndSession(p.from)
            /\ fails' = [fails EXCEPT ![p.from] = @ + 1]
       ELSE UNCHANGED <<pc, turn, askVV, replyVV, inbox, fails>>
  /\ UNCHANGED storeVars

\* A copy of the database of src becomes the new machine dst.  As reset_node
\* requires, dst gets a fresh identity before its first write or session; its
\* clock absorbs the high-water mark: the highest stamp held or issued.
HighWater(n) == {c.hlc : c \in Held(n)} \cup {<<clock[n][1], clock[n][2], nid[n]>>}

\* Mutations of ResetNode: the copy keeps the identity of its original, or
\* starts with a fresh clock.
CloneOnly(src, dst) ==
  /\ nid[src] # 0
  /\ nid[dst] = 0
  /\ nid' = [nid EXCEPT ![dst] = nid[src]]
  /\ row' = [row EXCEPT ![dst] = row[src]]
  /\ tomb' = [tomb EXCEPT ![dst] = tomb[src]]
  /\ clock' = [clock EXCEPT ![dst] = clock[src]]
  /\ UNCHANGED <<written, sessionVars>>

ResetClock(src, dst) ==
  /\ nid[src] # 0
  /\ nid[dst] = 0
  /\ nid' = [nid EXCEPT ![dst] = dst]
  /\ row' = [row EXCEPT ![dst] = row[src]]
  /\ tomb' = [tomb EXCEPT ![dst] = tomb[src]]
  /\ UNCHANGED <<clock, written, sessionVars>>

ResetNode(src, dst) ==
  /\ nid[src] # 0
  /\ nid[dst] = 0
  /\ nid' = [nid EXCEPT ![dst] = dst]
  /\ row' = [row EXCEPT ![dst] = row[src]]
  /\ tomb' = [tomb EXCEPT ![dst] = tomb[src]]
  /\ \E hw \in HighWater(src), now \in Wall[dst] :
       /\ \A s \in HighWater(src) : Leq(s, hw)
       /\ clock' = [clock EXCEPT ![dst] = Absorb(clock[src], hw, now)]
  /\ UNCHANGED <<written, sessionVars>>

-----------------------------------------------------------------------------
LocalWrite(n) ==
  /\ \E g \in Gid : LocalPut(n, g) \/ LocalDelete(n, g)
  /\ UNCHANGED sessionVars

Next ==
  \/ \E n \in Node :
       \/ LocalWrite(n)
       \/ SendPull(n) \/ ServePull(n) \/ ApplyPull(n) \/ SendPush(n)
       \/ FailSession(n)
  \/ \E p \in pushes : ServePush(p) \/ LosePush(p)
  \/ \E src, dst \in Node : ResetNode(src, dst)

Spec == Init /\ [][Next]_vars

\* The sync daemon is a loop that never stops while its process runs, and the
\* server gives every request a thread of its own.  Writes, resets and
\* failures need not happen.
Session(n) ==
  \/ SendPull(n) \/ ServePull(n) \/ ApplyPull(n) \/ SendPush(n)
  \/ \E p \in pushes : p.from = n /\ ServePush(p)

Fairness == \A n \in Node : WF_vars(Session(n))
FairSpec == Spec /\ Fairness
=============================================================================
