------------------------------ MODULE TaskLife ------------------------------
(***************************************************************************)
(* What a reader of the tasks table may rely on, whoever spawns, sweeps,   *)
(* reaps, kills or dies: a task is admitted if there is room, ends once    *)
(* and for one reason, and is continued at most once, if it timed out.     *)
(* Nothing is said of processes, sweeps, pids and locks.                   *)
(***************************************************************************)
EXTENDS Naturals, FiniteSets

CONSTANTS Task, Nobody, Slots, Limit

VARIABLES life,      \* life[t]: unborn, working, finished, timedOut, discarded
          continues, \* continues[t]: the task that t continues
          attempt    \* attempt[t]: how many tasks before it t continues

Init ==
  /\ life = [t \in Task |-> "unborn"]
  /\ continues = [t \in Task |-> Nobody]
  /\ attempt = [t \in Task |-> 0]

Working == {t \in Task : life[t] = "working"}

Enter(t) ==
  /\ life[t] = "unborn"
  /\ Cardinality(Working) < Slots
  /\ life' = [life EXCEPT ![t] = "working"]

Admit(t) == Enter(t) /\ UNCHANGED <<continues, attempt>>

Continue(t, n) ==
  /\ life[t] = "timedOut" /\ attempt[t] < Limit
  /\ \A m \in Task : continues[m] # t
  /\ Enter(n)
  /\ continues' = [continues EXCEPT ![n] = t]
  /\ attempt' = [attempt EXCEPT ![n] = attempt[t] + 1]

\* The child could not be started.
Discard(t) ==
  /\ life[t] = "working"
  /\ life' = [life EXCEPT ![t] = "discarded"]
  /\ UNCHANGED <<continues, attempt>>

\* A sweep ends several tasks at once.
End(done, late) ==
  /\ done \cup late \subseteq Working /\ done \cap late = {}
  /\ life' = [t \in Task |-> IF t \in done THEN "finished"
                             ELSE IF t \in late THEN "timedOut" ELSE life[t]]
  /\ UNCHANGED <<continues, attempt>>

Next ==
  \/ \E t \in Task : Admit(t) \/ Discard(t)
  \/ \E t, n \in Task : Continue(t, n)
  \/ \E done, late \in SUBSET Task : End(done, late)

Spec == Init /\ [][Next]_<<life, continues, attempt>>
=============================================================================
