----------------------------- MODULE SpawnTasks -----------------------------
(***************************************************************************)
(* The life of a spawned child: the spawn call of tools/spawn.py, the exit *)
(* recorder _spawn_wrap.py around the child, the readers that reap what    *)
(* has finished, and the budget daemon of spawn_budget.py that measures,   *)
(* caps, closes and restarts.  All of them are separate processes and meet *)
(* only in the tasks table, here one row per task.                         *)
(*                                                                         *)
(* run_write is one short transaction: one step that needs the write lock  *)
(* free.  A sweep of the daemon instead runs on a legacy connection: its   *)
(* first UPDATE takes the lock, its only commit is at the end, and in      *)
(* between it waits seconds for children to die.                           *)
(***************************************************************************)
EXTENDS Naturals, FiniteSets

CONSTANTS Task,      \* task ids; each is used once
          Visible,   \* those spawned into a Terminal window: their pid stays 0
          Host,      \* processes that run the budget daemon
          Nobody,    \* no task, no host
          Slots,     \* SPAWN_BUDGET_MB in units of one child's estimate
          Limit,     \* SPAWN_TIMEOUT_RETRY_LIMIT
          MaxFaults  \* bound of crashes and failed writes in TLC's instances

ASSUME SpawnAssumption ==
  /\ IsFiniteSet(Task)
  /\ Visible \subseteq Task
  /\ Nobody \notin Task \cup Host
  /\ Slots \in Nat
  /\ Limit \in Nat
  /\ MaxFaults \in Nat

VARIABLES
  \* the tasks table
  row,         \* row[t]: no row, open (ended_at IS NULL) or closed
  pid,         \* pid[t]: the row holds a pid > 0
  code,        \* code[t]: return_code
  attempt,     \* attempt[t]: retry_attempt
  retryOf,     \* retryOf[t]: retry_of
  respawnedAs, \* respawnedAs[t]: timeout_respawned_as
  \* the world
  old,         \* old[t]: started_at lies SPAWN_MAX_RUNTIME_S or more back
  call,        \* call[t]: where the spawn call of t is
  proc,        \* proc[t]: the child with its wrapper
  \* the budget daemon of each host
  spc,         \* spc[h]: where its sweep is
  todo,        \* todo[h]: rows of its snapshot still to visit, with their pid
  target,      \* target[h]: the task it is killing or restarting
  heir,        \* heir[h]: the continuation it is spawning
  timedOut,    \* timedOut[h]: tasks it closed as timed out in this sweep
  writer,      \* the host whose sweep holds the write lock
  pending,     \* the writer's uncommitted closes, each with its return_code
  faults       \* crashes and failed writes so far

tableVars == <<row, pid, code, attempt, retryOf, respawnedAs>>
sweepVars == <<spc, todo, target, heir, timedOut, writer, pending>>
vars == <<tableVars, old, call, proc, sweepVars, faults>>

Init ==
  /\ row = [t \in Task |-> "absent"]
  /\ pid = [t \in Task |-> FALSE]
  /\ code = [t \in Task |-> "null"]
  /\ attempt = [t \in Task |-> 0]
  /\ retryOf = [t \in Task |-> Nobody]
  /\ respawnedAs = [t \in Task |-> Nobody]
  /\ old = [t \in Task |-> FALSE]
  /\ call = [t \in Task |-> "none"]
  /\ proc = [t \in Task |-> "none"]
  /\ spc = [h \in Host |-> "idle"]
  /\ todo = [h \in Host |-> {}]
  /\ target = [h \in Host |-> Nobody]
  /\ heir = [h \in Host |-> Nobody]
  /\ timedOut = [h \in Host |-> {}]
  /\ writer = Nobody
  /\ pending = {}
  /\ faults = 0

-----------------------------------------------------------------------------
Open == {t \in Task : row[t] = "open"}

\* helpers.alive of the recorded pid: the wrapper, which outlives the child.
Alive(t) == proc[t] \in {"running", "exited"}

\* Another connection can start a write transaction.
Unlocked == writer = Nobody

Fault ==
  /\ faults < MaxFaults
  /\ faults' = faults + 1

-----------------------------------------------------------------------------
(* The spawn call. *)

\* _reserve: the budget check and the row of the new child, in one
\* transaction, before there is a child.
Reserve(t, pred) ==
  /\ call[t] = "none"
  /\ Unlocked
  /\ Cardinality(Open) + 1 <= Slots
  /\ row' = [row EXCEPT ![t] = "open"]
  /\ call' = [call EXCEPT ![t] = "reserved"]
  /\ retryOf' = [retryOf EXCEPT ![t] = pred]
  /\ attempt' = [attempt EXCEPT ![t] = IF pred = Nobody THEN 0 ELSE attempt[pred] + 1]
  /\ UNCHANGED <<pid, code, respawnedAs, old, proc, faults>>

SpawnCall(t) ==
  /\ Reserve(t, Nobody)
  /\ UNCHANGED sweepVars

\* Popen.
Launch(t) ==
  /\ call[t] = "reserved"
  /\ call' = [call EXCEPT ![t] = "launched"]
  /\ proc' = [proc EXCEPT ![t] = "running"]
  /\ UNCHANGED <<tableVars, old, sweepVars, faults>>

\* No worktree, no spool file or no process: the row is to be released.
LaunchFails(t) ==
  /\ call[t] = "reserved"
  /\ Fault
  /\ call' = [call EXCEPT ![t] = "releasing"]
  /\ UNCHANGED <<tableVars, old, proc, sweepVars>>

\* _release: deletes the row.
Release(t) ==
  /\ call[t] = "releasing"
  /\ Unlocked
  /\ row' = [row EXCEPT ![t] = "absent"]
  /\ call' = [call EXCEPT ![t] = "over"]
  /\ UNCHANGED <<pid, code, attempt, retryOf, respawnedAs, old, proc, sweepVars, faults>>

\* _record_launch: the pid, 0 for a Terminal window.
RecordLaunch(t) ==
  /\ call[t] = "launched"
  /\ Unlocked
  /\ pid' = [pid EXCEPT ![t] = t \notin Visible]
  /\ call' = [call EXCEPT ![t] = "over"]
  /\ UNCHANGED <<row, code, attempt, retryOf, respawnedAs, old, proc, sweepVars, faults>>

\* _release or _record_launch gives up on a locked database, or the calling
\* process dies: the row stays, without a pid.  The process that calls for a
\* continuation is the daemon's: SweepFails.
CallFails(t) ==
  /\ call[t] \in {"reserved", "launched", "releasing"}
  /\ \A h \in Host : heir[h] = t => call[t] # "reserved"
  /\ Fault
  /\ call' = [call EXCEPT ![t] = "over"]
  /\ UNCHANGED <<tableVars, old, proc, sweepVars>>

-----------------------------------------------------------------------------
(* The child, its wrapper, the clock. *)

\* The CLI exits: by itself or because of a SIGTERM, which the wrapper
\* forwards and the CLI may ignore.
ChildExit(t) ==
  /\ proc[t] = "running"
  /\ proc' = [proc EXCEPT ![t] = "exited"]
  /\ UNCHANGED <<tableVars, old, call, sweepVars, faults>>

\* _record of the wrapper: the exit code whatever is there, ended_at only if
\* nobody set it.  A deleted row stays deleted.
WrapRecord(t) ==
  /\ proc[t] = "exited"
  /\ Unlocked
  /\ proc' = [proc EXCEPT ![t] = "dead"]
  /\ code' = [code EXCEPT ![t] = IF row[t] = "absent" THEN @ ELSE "exit"]
  /\ row' = [row EXCEPT ![t] = IF @ = "open" THEN "closed" ELSE @]
  /\ UNCHANGED <<pid, attempt, retryOf, respawnedAs, old, call, sweepVars, faults>>

\* The wrapper waits its 30 s for the lock in vain, or dies before it records.
WrapFails(t) ==
  /\ Alive(t)
  /\ Fault
  /\ proc' = [proc EXCEPT ![t] = "dead"]
  /\ UNCHANGED <<tableVars, old, call, sweepVars>>

\* A spawn call takes seconds, the cap and the visible TTL are an hour.
Expire(t) ==
  /\ call[t] = "over"
  /\ ~old[t]
  /\ old' = [old EXCEPT ![t] = TRUE]
  /\ UNCHANGED <<tableVars, call, proc, sweepVars, faults>>

-----------------------------------------------------------------------------
(* Status readers and task_kill. *)

\* _reap_finished_tasks, and a sweep with enforce=False, on a row with a pid:
\* the exit code is known only to the parent of the child.
ReapFinished(t) ==
  /\ row[t] = "open" /\ pid[t] /\ ~Alive(t)
  /\ Unlocked
  /\ row' = [row EXCEPT ![t] = "closed"]
  /\ \E c \in {code[t], "exit"} : code' = [code EXCEPT ![t] = c]
  /\ UNCHANGED <<pid, attempt, retryOf, respawnedAs, old, call, proc, sweepVars, faults>>

\* Mutation of CloseIdle: the idle rule for every row.
CloseIdleAny(t) ==
  /\ row[t] = "open"
  /\ call[t] = "over" /\ proc[t] # "none"
  /\ Unlocked
  /\ row' = [row EXCEPT ![t] = "closed"]
  /\ UNCHANGED <<pid, code, attempt, retryOf, respawnedAs, old, call, proc, sweepVars, faults>>

\* _refresh_tasks on a row without a pid: a transcript that has not grown for
\* 30 seconds counts as the end, whether or not the child still runs.
CloseIdle(t) ==
  /\ row[t] = "open" /\ ~pid[t]
  /\ call[t] = "over" /\ proc[t] # "none"
  /\ Unlocked
  /\ row' = [row EXCEPT ![t] = "closed"]
  /\ UNCHANGED <<pid, code, attempt, retryOf, respawnedAs, old, call, proc, sweepVars, faults>>

\* task_kill with force.  SIGKILL takes the wrapper along, which then records
\* nothing.  Without force it sends a SIGTERM: ChildExit.
ForceKill(t) ==
  /\ row[t] = "open" /\ pid[t]
  /\ IF Alive(t)
       THEN /\ proc' = [proc EXCEPT ![t] = "dead"]
            /\ UNCHANGED row
       ELSE /\ Unlocked
            /\ row' = [row EXCEPT ![t] = "closed"]
            /\ UNCHANGED proc
  /\ UNCHANGED <<pid, code, attempt, retryOf, respawnedAs, old, call, sweepVars, faults>>

=============================================================================
