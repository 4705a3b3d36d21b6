---------------------------- MODULE SpawnWatchdog ----------------------------
(***************************************************************************)
(* The budget daemon of spawn_budget.py over the table of SpawnTasks: one  *)
(* sweep of _refresh_all_running per tick, row by row, with the watchdog   *)
(* for children past their wall-clock cap and their restart.               *)
(*                                                                         *)
(* The daemon host is one process, but without it (DAEMON_HOST_ENABLED     *)
(* off) every server runs the daemon: Host may have several members.  The  *)
(* code visits rows newest first, and rows of one second in any order;     *)
(* here any order.                                                         *)
(***************************************************************************)
EXTENDS SpawnTasks

\* h can run an UPDATE: it has the lock, or takes it with this UPDATE.
CanWrite(h) == writer \in {Nobody, h}

\* Legacy transaction mode: the first UPDATE takes the lock, the final commit
\* of the sweep gives it back.
TakeLock(h) ==
  /\ CanWrite(h)
  /\ writer' = h

\* Mutations of EndRow: autocommit instead of a transaction; no guard.
EndRowAutocommit(h, t, c) ==
  /\ CanWrite(h)
  /\ pending' = IF row[t] = "open" /\ \A e \in pending : e[1] # t
                  THEN pending \cup {<<t, c>>} ELSE pending
  /\ UNCHANGED writer

EndRowUnguarded(h, t, c) ==
  /\ TakeLock(h)
  /\ pending' = pending \cup {<<t, c>>}

\* UPDATE tasks SET ended_at, return_code ... WHERE ended_at IS NULL: what
\* counts is the row now, not the row in the snapshot.
EndRow(h, t, c) ==
  /\ TakeLock(h)
  /\ pending' = IF row[t] = "open" /\ \A e \in pending : e[1] # t
                  THEN pending \cup {<<t, c>>} ELSE pending

\* SELECT * of the open rows, and the time of the sweep: age and pid of a row
\* are those of this moment.
SweepStart(h) ==
  /\ spc[h] = "idle"
  /\ spc' = [spc EXCEPT ![h] = "scan"]
  /\ todo' = [todo EXCEPT ![h] = {[id |-> t, pid |-> pid[t], old |-> old[t]] : t \in Open}]
  /\ UNCHANGED <<tableVars, old, call, proc, target, heir, timedOut, writer, pending, faults>>

\* Writes rss_kb, or cannot measure this time.
Measure(h) ==
  /\ TakeLock(h) \/ UNCHANGED writer
  /\ UNCHANGED <<spc, target, pending>>

\* A row with a pid: its process is gone, or it is over the cap, or measured.
VisitHeadless(h, t, isOld) ==
  \/ /\ ~Alive(t)
     /\ EndRow(h, t, code[t])
     /\ UNCHANGED <<spc, target>>
  \/ /\ Alive(t) /\ isOld
     /\ spc' = [spc EXCEPT ![h] = "kill"]
     /\ target' = [target EXCEPT ![h] = t]
     /\ UNCHANGED <<writer, pending>>
  \/ /\ Alive(t) /\ ~isOld
     /\ Measure(h)

\* Mutation of VisitVisible: no time limit for a row that nothing answers for.
VisitVisibleNoTTL(h, t, isOld) ==
  \/ /\ Alive(t)
     /\ Measure(h)
  \/ /\ ~Alive(t)
     /\ UNCHANGED <<spc, target, writer, pending>>

\* _measure_visible: a row without a pid is measured if a running process
\* carries the cid of the child, which not every CLI does, and otherwise
\* ended once it is older than the TTL.
VisitVisible(h, t, isOld) ==
  \/ /\ Alive(t)
     /\ Measure(h)
  \/ /\ isOld
     /\ EndRow(h, t, code[t])
     /\ UNCHANGED <<spc, target>>
  \/ /\ ~Alive(t) /\ ~isOld
     /\ UNCHANGED <<spc, target, writer, pending>>

Visit(h) ==
  /\ spc[h] = "scan"
  /\ \E r \in todo[h] :
       /\ todo' = [todo EXCEPT ![h] = @ \ {r}]
       /\ IF r.pid THEN VisitHeadless(h, r.id, r.old) ELSE VisitVisible(h, r.id, r.old)
  /\ UNCHANGED <<tableVars, old, call, proc, heir, timedOut, faults>>

\* Mutations of Terminate: no SIGKILL; a SIGKILL that spares the wrapper.
TerminateGently(h) ==
  /\ spc[h] = "kill"
  /\ spc' = [spc EXCEPT ![h] = "close"]
  /\ UNCHANGED <<tableVars, old, call, proc, todo, target, heir, timedOut, writer, pending,
                 faults>>

TerminateChildOnly(h) ==
  /\ spc[h] = "kill"
  /\ proc' = [proc EXCEPT ![target[h]] = IF @ = "running" THEN "exited" ELSE @]
  /\ spc' = [spc EXCEPT ![h] = "close"]
  /\ UNCHANGED <<tableVars, old, call, todo, target, heir, timedOut, writer, pending, faults>>

\* _terminate_tree: SIGTERM was sent; when the grace time is over or the
\* child gone before, SIGKILL goes to what is left of the process group.
Terminate(h) ==
  /\ spc[h] = "kill"
  /\ proc' = [proc EXCEPT ![target[h]] = "dead"]
  /\ spc' = [spc EXCEPT ![h] = "close"]
  /\ UNCHANGED <<tableVars, old, call, todo, target, heir, timedOut, writer, pending, faults>>

\* _reap_timed_out after the kill: return_code 124 and a restart, if the row
\* is still open.
CloseTimedOut(h) ==
  /\ spc[h] = "close"
  /\ EndRow(h, target[h], "timeout")
  /\ timedOut' = [timedOut EXCEPT ![h] =
                    IF pending' # pending THEN @ \cup {target[h]} ELSE @]
  /\ spc' = [spc EXCEPT ![h] = "scan"]
  /\ target' = [target EXCEPT ![h] = Nobody]
  /\ UNCHANGED <<tableVars, old, call, proc, todo, heir, faults>>

\* The only commit of the sweep.
Commit(h) ==
  /\ spc[h] = "scan" /\ todo[h] = {}
  /\ IF writer = h
       THEN /\ row' = [t \in Task |->
                        IF \E e \in pending : e[1] = t THEN "closed" ELSE row[t]]
            /\ code' = [t \in Task |->
                         IF <<t, "timeout">> \in pending THEN "timeout" ELSE code[t]]
            /\ writer' = Nobody
            /\ pending' = {}
       ELSE UNCHANGED <<row, code, writer, pending>>
  /\ spc' = [spc EXCEPT ![h] = "retry"]
  /\ UNCHANGED <<pid, attempt, retryOf, respawnedAs, old, call, proc, todo, target, heir,
                 timedOut, faults>>

-----------------------------------------------------------------------------
(* _respawn_timed_out, for each task this sweep timed out. *)

\* The attempts are exhausted, the role restarts itself, or the spawn is
\* refused: by the budget, a permission, a provider.
RetrySkip(h) ==
  /\ spc[h] = "retry"
  /\ \E t \in timedOut[h] : timedOut' = [timedOut EXCEPT ![h] = @ \ {t}]
  /\ UNCHANGED <<tableVars, old, call, proc, spc, todo, target, heir, writer, pending, faults>>

\* The daemon calls _spawn_impl, for a child of the same kind, and waits for it.
RetryReserve(h, t, n) ==
  /\ spc[h] = "retry"
  /\ t \in timedOut[h]
  /\ attempt[t] + 1 <= Limit
  /\ n \in Visible <=> t \in Visible
  /\ Reserve(n, t)
  /\ spc' = [spc EXCEPT ![h] = "spawn"]
  /\ target' = [target EXCEPT ![h] = t]
  /\ heir' = [heir EXCEPT ![h] = n]
  /\ timedOut' = [timedOut EXCEPT ![h] = @ \ {t}]
  /\ UNCHANGED <<todo, writer, pending>>

\* The call is over: timeout_respawned_as, if it launched something.  A write
\* that fails here is ignored.
RetryDone(h) ==
  /\ spc[h] = "spawn" /\ call[heir[h]] = "over"
  /\ \/ /\ Unlocked
        /\ respawnedAs' = IF proc[heir[h]] = "none" THEN respawnedAs
                          ELSE [respawnedAs EXCEPT ![target[h]] = heir[h]]
        /\ UNCHANGED faults
     \/ /\ Fault
        /\ UNCHANGED respawnedAs
  /\ spc' = [spc EXCEPT ![h] = "retry"]
  /\ target' = [target EXCEPT ![h] = Nobody]
  /\ heir' = [heir EXCEPT ![h] = Nobody]
  /\ UNCHANGED <<row, pid, code, attempt, retryOf, old, call, proc, todo, timedOut,
                 writer, pending>>

SweepEnd(h) ==
  /\ spc[h] = "retry" /\ timedOut[h] = {}
  /\ spc' = [spc EXCEPT ![h] = "idle"]
  /\ UNCHANGED <<tableVars, old, call, proc, todo, target, heir, timedOut, writer, pending,
                 faults>>

\* The host dies, or an UPDATE fails and the tick is abandoned: what was not
\* committed is rolled back, what was not restarted is forgotten.
SweepFails(h) ==
  /\ spc[h] # "idle"
  /\ Fault
  /\ spc' = [spc EXCEPT ![h] = "idle"]
  /\ todo' = [todo EXCEPT ![h] = {}]
  /\ target' = [target EXCEPT ![h] = Nobody]
  /\ heir' = [heir EXCEPT ![h] = Nobody]
  /\ timedOut' = [timedOut EXCEPT ![h] = {}]
  /\ IF writer = h THEN writer' = Nobody /\ pending' = {} ELSE UNCHANGED <<writer, pending>>
  /\ call' = IF heir[h] = Nobody THEN call ELSE [call EXCEPT ![heir[h]] = "over"]
  /\ UNCHANGED <<tableVars, old, proc>>

-----------------------------------------------------------------------------
Sweep(h) ==
  \/ SweepStart(h) \/ Visit(h) \/ Terminate(h) \/ CloseTimedOut(h) \/ Commit(h)
  \/ RetrySkip(h) \/ (\E t, n \in Task : RetryReserve(h, t, n)) \/ RetryDone(h)
  \/ SweepEnd(h)

\* Steps of the spawn call of t once it has reserved.
Calling(t) == Launch(t) \/ Release(t) \/ RecordLaunch(t)

Next ==
  \/ \E t \in Task :
       \/ SpawnCall(t) \/ Launch(t) \/ LaunchFails(t) \/ Release(t)
       \/ RecordLaunch(t) \/ CallFails(t)
       \/ ChildExit(t) \/ WrapRecord(t) \/ WrapFails(t) \/ Expire(t)
       \/ ReapFinished(t) \/ CloseIdle(t) \/ ForceKill(t)
  \/ \E h \in Host : Sweep(h) \/ SweepFails(h)

Spec == Init /\ [][Next]_vars

\* Calls proceed, time passes and the daemon ticks.  Children need not exit,
\* nobody need ask for a status, and nothing need fail.
Fairness ==
  /\ \A t \in Task : WF_vars(Calling(t)) /\ WF_vars(Expire(t))
  /\ \A h \in Host : WF_vars(Sweep(h))
FairSpec == Spec /\ Fairness
=============================================================================
