----------------------------- MODULE CuratorPass -----------------------------
(***************************************************************************)
(* The durable pass of curator.py.  A pass freezes its batches; each batch *)
(* is researched, evaluated and, if the evaluator proposed changes,        *)
(* verified by a spawned child, and every tick reconciles what has ended   *)
(* and launches what is next, until the pass is endorsed or abandoned.     *)
(*                                                                         *)
(* Ticks run in several processes: the daemon, and curator_run in any      *)
(* server.  The lock "curator" admits one at a time, but the first look    *)
(* at the passes is taken before it.  Children and the watchdog of         *)
(* SpawnWatchdog go on in between and after a tick has died.               *)
(***************************************************************************)
EXTENDS Naturals, FiniteSets

CONSTANTS Ticker,      \* processes that run run_curator_pass
          Daemon,      \* the one whose _serve_loop never ends
          Task,        \* 1..n: children whose row somebody may still read
          Batches,     \* batches of a pass
          Skilled,     \* those that hold skills: they need web research
          Cap,         \* CURATOR_BATCH_MAX_ATTEMPTS
          Width,       \* CURATOR_MAX_CONCURRENT_BATCHES
          Limits,      \* values of SPAWN_TIMEOUT_RETRY_LIMIT to consider
          MaxPasses,   \* bound of passes in TLC's instances, by that value
          MaxFaults    \* bound of deaths, refusals and unreadable files

ASSUME CuratorAssumption ==
  /\ Daemon \in Ticker
  /\ Task \subseteq Nat \ {0}
  /\ Batches \in Nat \ {0}
  /\ Skilled \subseteq 1..Batches
  /\ Cap \in Nat \ {0} /\ Width \in Nat \ {0}
  /\ Limits \subseteq Nat
  /\ MaxPasses \in [Limits -> Nat] /\ MaxFaults \in Nat

Batch == 1..Batches
Phase == {"research", "evaluate", "verify"}
None  == 0

VARIABLES
  limit,     \* SPAWN_TIMEOUT_RETRY_LIMIT of this machine
  pass,      \* the number of the newest pass, 0 before the first
  endorsed,  \* its endorsed_at is set
  abandoned, \* its abandoned_at is set
  state,     \* state[b][ph]: research_state, state, verify_state
  tid,       \* tid[b][ph]: the child of a running phase
  tries,     \* tries[b][ph]: research_attempts, dispatch_count, verify_attempts
  destroys,  \* destroys[b]: eval_mode is destructive
  file,      \* file[b][ph]: the child's artifact: missing or a draft, final, or for
             \* an evaluation final with proposals of changes
  task,      \* task[t]: the row of a child, and what it works on
  pc,        \* pc[k]: where the tick of k is
  plan,      \* plan[k]: launches this tick still has to make, of a batch each
  born,      \* born[k]: the child it spawned and has not recorded yet
  started,   \* started[b][ph]: children that ticks have started, and attempts to
             \* start one that failed (history)
  lost,      \* lost[b][ph]: those whose tick died before it recorded them (history)
  faults

passVars  == <<pass, endorsed, abandoned>>
batchVars == <<state, tid, tries, destroys>>
tickVars  == <<pc, plan, born>>
history   == <<started, lost>>
vars == <<limit, passVars, batchVars, file, task, tickVars, history, faults>>

\* row: none, open, or how it was closed (return_code 0, another or none, 124);
\* cont: it is the watchdog's continuation, whose prompt does not begin as a
\* curator's does; fresh: it belongs to the newest pass; due: the watchdog has
\* yet to restart it, or to record the restart; heir: what it restarted it as.
NoTask == [row |-> "none", batch |-> 0, phase |-> "evaluate", cont |-> FALSE,
           fresh |-> FALSE, due |-> FALSE, heir |-> None]

Blank(x) == [b \in Batch |-> [ph \in Phase |-> x]]

NewBatches ==
  [b \in Batch |-> [ph \in Phase |-> IF ph = "evaluate" THEN "pending" ELSE "none"]]

Init ==
  /\ limit \in Limits
  /\ pass = 0
  /\ endorsed = FALSE /\ abandoned = FALSE
  /\ state = NewBatches
  /\ tid = Blank(None)
  /\ tries = Blank(0)
  /\ destroys = [b \in Batch |-> FALSE]
  /\ file = Blank("draft")
  /\ task = [t \in Task |-> NoTask]
  /\ pc = [k \in Ticker |-> "idle"]
  /\ plan = [k \in Ticker |-> {}]
  /\ born = [k \in Ticker |-> None]
  /\ started = Blank(0)
  /\ lost = Blank(0)
  /\ faults = 0

Fault ==
  /\ faults < MaxFaults
  /\ faults' = faults + 1

-----------------------------------------------------------------------------
(* What a tick reads. *)

Active == pass > 0 /\ ~endorsed /\ ~abandoned

Open == {t \in Task : task[t].row = "open"}

\* Mutation of Recognized: the prompt of the researchers is not looked for.
RecognizedInPart == {t \in Open : ~task[t].cont /\ task[t].phase # "research"}

\* _running_curator_children: by the beginning of the prompt.
Recognized == {t \in Open : ~task[t].cont}

Known == {tid[b][ph] : b \in Batch, ph \in Phase}

Final(b) == file[b]["evaluate"] \in {"final", "proposals"}

\* timeout_respawned_as.
Heir(t) == IF task[t].due THEN None ELSE task[t].heir

Artifact(b, ph) == IF ph = "evaluate" THEN Final(b) ELSE file[b][ph] = "final"

Running(b) == {ph \in Phase : state[b][ph] = "running"}

\* _verify_due.
VerifyDue(b) ==
  \/ state[b]["verify"] = "pending"
  \/ state[b]["verify"] = "failed" /\ tries[b]["verify"] < Cap

\* Mutation of NextAction: a failed evaluation is repeated without limit.
NextActionUncapped(b) ==
  IF Running(b) # {} THEN "nothing"
  ELSE IF state[b]["evaluate"] = "complete" THEN IF VerifyDue(b) THEN "verify" ELSE "nothing"
  ELSE IF b \notin Skilled \/ state[b]["research"] = "complete" THEN "evaluate"
  ELSE IF tries[b]["research"] < Cap THEN "research"
  ELSE "unresearched"

\* _next_batch_action; "unresearched" stands for an evaluation that may not
\* change anything.
NextAction(b) ==
  IF Running(b) # {} THEN "nothing"
  ELSE IF state[b]["evaluate"] = "complete" THEN IF VerifyDue(b) THEN "verify" ELSE "nothing"
  ELSE IF state[b]["evaluate"] = "failed" /\ tries[b]["evaluate"] >= Cap THEN "nothing"
  ELSE IF b \notin Skilled \/ state[b]["research"] = "complete" THEN "evaluate"
  ELSE IF tries[b]["research"] < Cap THEN "research"
  ELSE "unresearched"

-----------------------------------------------------------------------------
(* _refresh_research_phase, _refresh_verify_phase, _refresh_pass_completion. *)

\* What becomes of a running phase: it follows a continuation; a child that
\* exited with 0 and left its artifact completes it.
Outcome(b, ph) ==
  LET t == tid[b][ph]
  IN  CASE t = None -> "failed"
        [] t # None /\ (task[t].row = "open" \/ Heir(t) # None) -> "running"
        [] OTHER -> IF task[t].row = "zero" /\ Artifact(b, ph) THEN "complete" ELSE "failed"

Settled(b, ph) ==
  IF state[b][ph] = "running" THEN Outcome(b, ph) ELSE state[b][ph]

\* A completed evaluation decides whether there is something to verify:
\* _initial_verify_state.
Refreshed(b, ph) ==
  IF ph = "verify" /\ state[b]["evaluate"] = "running"
                   /\ Settled(b, "evaluate") = "complete"
    THEN IF destroys[b] /\ file[b]["evaluate"] = "proposals" THEN "pending" ELSE "none"
    ELSE Settled(b, ph)

\* The child to look at from now on: the continuation, if the watchdog made one.
Followed(b, ph) ==
  IF state[b][ph] # "running" \/ Outcome(b, ph) # "running" THEN None
  ELSE IF task[tid[b][ph]].row = "open" THEN tid[b][ph]
  ELSE Heir(tid[b][ph])

Reviewed(b) ==
  /\ Refreshed(b, "evaluate") = "complete"
  /\ \/ Refreshed(b, "verify") \in {"none", "complete"}
     \/ Refreshed(b, "verify") = "failed" /\ tries[b]["verify"] >= Cap

\* A closed row that no tick reads any more is as good as gone.
Forget(rows, refs) ==
  [t \in Task |-> IF \/ rows[t].row \in {"open", "none"} \/ rows[t].due \/ t \in refs
                     \/ \E u \in refs : u # None /\ rows[u].heir = t
                   THEN rows[t] ELSE NoTask]

\* The phases follow their children.
Reconcile ==
  /\ state' = [b \in Batch |-> [ph \in Phase |-> Refreshed(b, ph)]]
  /\ tid' = [b \in Batch |-> [ph \in Phase |-> Followed(b, ph)]]
  /\ task' = Forget(task, {Followed(b, ph) : b \in Batch, ph \in Phase})

-----------------------------------------------------------------------------
(* run_curator_pass. *)

\* _active_pass: whoever looks, with or without the lock, abandons a pass older
\* than _pass_max_age_s.  A tick that gets no further changes nothing else: no
\* pass is due, claim_pass is refused, or the lock is taken.
Look ==
  /\ Active
  /\ abandoned' = TRUE
  /\ UNCHANGED <<limit, pass, endorsed, batchVars, file, task, tickVars, history, faults>>

\* Mutation of Locked: no single_flight_lock.
NotLocked == FALSE

\* single_flight_lock("curator").
Locked == \E k \in Ticker : pc[k] # "idle"

\* Without a pass to resume, and nobody at work, the inventory is frozen into
\* batches: _create_pass_manifest.
Create(k) ==
  /\ pc[k] = "idle" /\ ~Locked
  /\ ~Active
  /\ Recognized = {}
  /\ pass < MaxPasses[limit]
  /\ pass' = pass + 1
  /\ endorsed' = FALSE /\ abandoned' = FALSE
  /\ state' = NewBatches
  /\ tid' = Blank(None)
  /\ tries' = Blank(0)
  /\ destroys' = [b \in Batch |-> FALSE]
  /\ file' = Blank("draft")
  /\ task' = [t \in Task |-> [task[t] EXCEPT !.fresh = FALSE]]
  /\ pc' = [pc EXCEPT ![k] = "plan"]
  /\ started' = Blank(0) /\ lost' = Blank(0)
  /\ UNCHANGED <<limit, plan, born, faults>>

\* The lock, the pass, and the first half of _advance_pass: reconcile ...
Advance(k) ==
  /\ pc[k] = "idle" /\ ~Locked
  /\ Active
  /\ Reconcile
  /\ pc' = [pc EXCEPT ![k] = IF \A b \in Batch : Reviewed(b) THEN "check" ELSE "plan"]
  /\ UNCHANGED <<limit, passVars, tries, destroys, file, plan, born, history, faults>>

\* Complete batches whose report has changed since.
Unbound == {b \in Batch : ~Final(b)}

\* ... _invalidate_unbound_batch_reports: if all are reviewed, a last look at
\* the reports ...
Check(k) ==
  /\ pc[k] = "check"
  /\ state' = [b \in Batch |-> [ph \in Phase |->
                 IF ph = "evaluate" /\ b \in Unbound THEN "failed" ELSE state[b][ph]]]
  /\ pc' = [pc EXCEPT ![k] = IF Unbound = {} THEN "endorse" ELSE "plan"]
  /\ UNCHANGED <<limit, passVars, tid, tries, destroys, file, task, plan, born, history, faults>>

\* ... and the pass is endorsed, whatever has become of them since.
Endorse(k) ==
  /\ pc[k] = "endorse"
  /\ endorsed' = TRUE
  /\ pc' = [pc EXCEPT ![k] = "idle"]
  /\ UNCHANGED <<limit, pass, abandoned, batchVars, file, task, plan, born, history, faults>>

\* Mutation of Foreign: only children the manifest knows are looked at.
ForeignIgnored == {}

Foreign == Recognized \ Known

Wanted == {b \in Batch : NextAction(b) # "nothing"}

\* Mutation of Busy: a phase that has failed keeps its slot.
BusyOrFailed ==
  Cardinality({p \in Batch \X Phase : state[p[1]][p[2]] \in {"running", "failed"}})

Busy == Cardinality({p \in Batch \X Phase : state[p[1]][p[2]] = "running"})

\* The rest: wait for a child that no batch owns; give up when nothing runs
\* and nothing is left to try; or plan the next launches within the capacity,
\* in the order of the batches.
Plan(k) ==
  /\ pc[k] = "plan"
  /\ abandoned' = (abandoned \/ (Foreign = {} /\ Wanted = {} /\ Busy = 0))
  /\ LET room     == IF Busy >= Width THEN 0 ELSE Width - Busy
         ahead(b) == Cardinality({c \in Wanted : c < b})
     IN  plan' = [plan EXCEPT ![k] =
                    IF Foreign # {} THEN {} ELSE
                      {[batch |-> b, action |-> NextAction(b)] :
                         b \in {c \in Wanted : ahead(c) < room}}]
  /\ pc' = [pc EXCEPT ![k] = IF plan'[k] = {} THEN "idle" ELSE "launch"]
  /\ UNCHANGED <<limit, pass, endorsed, batchVars, file, task, born, history, faults>>

-----------------------------------------------------------------------------
(* The launches of a tick: _launch_spec, _spawn_batch_child, _mark_launched. *)

Job(k) == CHOOSE j \in plan[k] : \A i \in plan[k] : j.batch <= i.batch

\* What the tick has left after it.
Rest(k) == plan[k] \ {Job(k)}

PhaseOf(action) == IF action \in {"evaluate", "unresearched"} THEN "evaluate" ELSE action

\* On with the next launch of the tick.
Onward(k) == [pc EXCEPT ![k] = IF Rest(k) = {} THEN "idle" ELSE "launch"]

Stop(k) ==
  /\ pc' = [pc EXCEPT ![k] = "idle"]
  /\ plan' = [plan EXCEPT ![k] = {}]

Free == {t \in Task : task[t].row = "none"}

\* A failed attempt of the batch's next phase.
Attempted(b, ph) ==
  /\ state' = [state EXCEPT ![b][ph] = "failed"]
  /\ tid' = [tid EXCEPT ![b][ph] = None]
  /\ tries' = [tries EXCEPT ![b][ph] = @ + 1]

\* Such an attempt, or a child, to the history.
Launch(b, ph) == started' = [started EXCEPT ![b][ph] = @ + 1]

\* A verifier is launched for the report that completed the evaluation.
Prepared(k) == Job(k).action = "verify" => Final(Job(k).batch)

\* _verify_spec fails: the report has changed, or snapshot or audit files
\* cannot be used.  It costs an attempt and the tick goes on.
VerifyUnprepared(k) ==
  /\ pc[k] = "launch" /\ Job(k).action = "verify"
  /\ IF Prepared(k) THEN Fault ELSE UNCHANGED faults
  /\ Attempted(Job(k).batch, "verify")
  /\ Launch(Job(k).batch, "verify")
  /\ pc' = Onward(k)
  /\ plan' = [plan EXCEPT ![k] = Rest(k)]
  /\ UNCHANGED <<limit, passVars, destroys, file, task, born, lost>>

\* _evaluate_spec fails: the tick returns and nothing is recorded.
EvaluateUnprepared(k) ==
  /\ pc[k] = "launch" /\ PhaseOf(Job(k).action) = "evaluate"
  /\ Fault
  /\ Stop(k)
  /\ UNCHANGED <<limit, passVars, batchVars, file, task, born, history>>

\* The spawn is refused.  For lack of budget the batch keeps its state; any
\* other reason, or an exception, is a failed attempt.
Refused(k) ==
  /\ pc[k] = "launch"
  /\ Prepared(k)
  /\ \/ UNCHANGED <<state, tid, tries, started, faults>>
     \/ /\ Fault
        /\ Attempted(Job(k).batch, PhaseOf(Job(k).action))
        /\ Launch(Job(k).batch, PhaseOf(Job(k).action))
  /\ Stop(k)
  /\ UNCHANGED <<limit, passVars, destroys, file, task, born, lost>>

\* The spawn succeeds: there is a row.
Spawned(k) ==
  /\ pc[k] = "launch"
  /\ Prepared(k)
  /\ Free # {}
  /\ LET t == CHOOSE x \in Free : \A y \in Free : x <= y
     IN  /\ task' = [task EXCEPT ![t] = [NoTask EXCEPT
                       !.row = "open", !.batch = Job(k).batch,
                       !.phase = PhaseOf(Job(k).action), !.fresh = TRUE]]
         /\ born' = [born EXCEPT ![k] = t]
  /\ Launch(Job(k).batch, PhaseOf(Job(k).action))
  /\ pc' = [pc EXCEPT ![k] = "mark"]
  /\ UNCHANGED <<limit, passVars, batchVars, file, plan, lost, faults>>

\* _mark_launched.  A handoff that cannot be loaded turns an evaluation into
\* an unresearched one, which may not change anything.
Mark(k) ==
  /\ pc[k] = "mark"
  /\ LET b  == Job(k).batch
         ph == PhaseOf(Job(k).action)
     IN  /\ state' = [state EXCEPT ![b][ph] = "running"]
         /\ tid' = [tid EXCEPT ![b][ph] = born[k]]
         /\ tries' = [tries EXCEPT ![b][ph] = @ + 1]
         /\ destroys' = [destroys EXCEPT ![b] =
                IF ph # "evaluate" THEN @
                ELSE /\ Job(k).action = "evaluate"
                     /\ b \in Skilled => file[b]["research"] = "final"]
  /\ pc' = Onward(k)
  /\ plan' = [plan EXCEPT ![k] = Rest(k)]
  /\ born' = [born EXCEPT ![k] = None]
  /\ UNCHANGED <<limit, passVars, file, task, history, faults>>

\* The process ends in the middle of a tick; the lock goes with it, and a child
\* that it has not recorded goes on.
Die(k) ==
  /\ pc[k] # "idle"
  /\ Fault
  /\ lost' = IF pc[k] = "mark" THEN [lost EXCEPT ![Job(k).batch][PhaseOf(Job(k).action)] = @ + 1]
                               ELSE lost
  /\ Stop(k)
  /\ born' = [born EXCEPT ![k] = None]
  /\ UNCHANGED <<limit, passVars, batchVars, file, task, started>>

-----------------------------------------------------------------------------
(* Children, watchdog, clock. *)

Referred == Known \cup {born[k] : k \in Ticker}

\* curator_report_write and curator_research_write: only while the row of the
\* child is open, as often as it likes, each time the same file of its pass.
Write(t) ==
  /\ task[t].row = "open" /\ task[t].fresh
  /\ \E x \in {"draft", "final"} \cup
              (IF task[t].phase = "evaluate" THEN {"proposals"} ELSE {}) :
       /\ x = "draft" => task[t].phase # "research"
       /\ file' = [file EXCEPT ![task[t].batch][task[t].phase] = x]
  /\ UNCHANGED <<limit, passVars, batchVars, task, tickVars, history, faults>>

\* The child ends by itself, or is found dead by a reader.
End(t) ==
  /\ task[t].row = "open"
  /\ \E x \in {"zero", "fails"} : task' = Forget([task EXCEPT ![t].row = x], Referred)
  /\ UNCHANGED <<limit, passVars, batchVars, file, tickVars, history, faults>>

\* The watchdog kills it and closes its row with 124.  A restart is due unless
\* the attempts are exhausted.
TimeOut(t) ==
  /\ task[t].row = "open"
  /\ task' = Forget([task EXCEPT ![t].row = "timeout",
                                  ![t].due = limit > 0 /\ ~task[t].cont], Referred)
  /\ UNCHANGED <<limit, passVars, batchVars, file, tickVars, history, faults>>

\* _respawn_timed_out, with the authority of the first launch; or it is refused.
Restart(t) ==
  /\ task[t].due /\ task[t].heir = None
  /\ \/ \E u \in Free :
          /\ \A y \in Free : u <= y
          /\ task' = [task EXCEPT ![t].heir = u,
                        ![u] = [task[t] EXCEPT !.row = "open", !.cont = TRUE, !.due = FALSE]]
     \/ task' = Forget([task EXCEPT ![t].due = FALSE], Referred)
  /\ UNCHANGED <<limit, passVars, batchVars, file, tickVars, history, faults>>

\* timeout_respawned_as, unless that write fails.
RecordRestart(t) ==
  /\ task[t].due /\ task[t].heir # None
  /\ \/ task' = Forget([task EXCEPT ![t].due = FALSE], Referred) /\ UNCHANGED faults
     \/ task' = Forget([task EXCEPT ![t].due = FALSE, ![t].heir = None], Referred) /\ Fault
  /\ UNCHANGED <<limit, passVars, batchVars, file, tickVars, history>>

-----------------------------------------------------------------------------
\* What a tick does on its own once it has the lock.
Tick(k) ==
  \/ Check(k) \/ Endorse(k) \/ Plan(k)
  \/ VerifyUnprepared(k) \/ EvaluateUnprepared(k) \/ Refused(k) \/ Spawned(k) \/ Mark(k)

Next ==
  \/ \E k \in Ticker : Create(k) \/ Advance(k) \/ Tick(k) \/ Die(k)
  \/ \E t \in Task : Write(t) \/ End(t) \/ TimeOut(t) \/ Restart(t) \/ RecordRestart(t)
  \/ Look

Spec == Init /\ [][Next]_vars

\* _serve_loop ticks for ever and a tick takes a finite time; the watchdog ends
\* a child that does not end.  A budget refusal clears as children finish
\* (Settles of SpawnProperties): strong fairness of the spawn.
Fairness ==
  /\ WF_vars(Advance(Daemon))
  /\ WF_vars(\E k \in Ticker : Tick(k))
  /\ SF_vars(\E k \in Ticker : Spawned(k))
  /\ WF_vars(\E t \in Task : TimeOut(t) \/ Restart(t) \/ RecordRestart(t))
FairSpec == Spec /\ Fairness
=============================================================================
