---------------------------- MODULE SyncRestore ----------------------------
(***************************************************************************)
(* SyncMesh with a machine that is replaced: its database is backed up,    *)
(* the machine goes on writing and syncing, and then the backup takes its  *)
(* place under the same identity, which docs/sync.md and reset_node.py     *)
(* allow because there is still only one live writer.                      *)
(***************************************************************************)
EXTENDS SyncProperties

VARIABLES
  backup,    \* the database that create_backup has written, as a set
  restored   \* the one replacement of the behaviour has taken place

restoreVars == <<vars, backup, restored>>

RestoreInit == Init /\ backup = {} /\ restored = FALSE

\* One consistent snapshot of the committed database of n.
Backup(n) ==
  /\ backup = {} /\ ~restored
  /\ nid[n] # 0
  /\ backup' = {[node |-> n, clock |-> clock[n], row |-> row[n], tomb |-> tomb[n]]}
  /\ UNCHANGED <<vars, restored>>

\* The backup replaces the database of its node while no session is running.
Restore(b) ==
  /\ pushes = {} /\ \A n \in Node : pc[n] = "idle"
  /\ clock' = [clock EXCEPT ![b.node] = b.clock]
  /\ row' = [row EXCEPT ![b.node] = b.row]
  /\ tomb' = [tomb EXCEPT ![b.node] = b.tomb]
  /\ backup' = {}
  /\ restored' = TRUE
  /\ UNCHANGED <<nid, written, sessionVars>>

RestoreNext ==
  \/ Next /\ UNCHANGED <<backup, restored>>
  \/ \E n \in Node : Backup(n)
  \/ \E b \in backup : Restore(b)

RestoreSpec == RestoreInit /\ [][RestoreNext]_restoreVars /\ Fairness
=============================================================================
