--------------------------- MODULE SpawnProperties ---------------------------
(***************************************************************************)
(* What the task table, the budget and the watchdog promise.               *)
(***************************************************************************)
EXTENDS SpawnWatchdog

\* Every variable has its type; a daemon knows its target exactly where it
\* needs one, and only the holder of the lock has uncommitted writes.
TypeOK ==
  /\ row \in [Task -> {"absent", "open", "closed"}]
  /\ pid \in [Task -> BOOLEAN]
  /\ code \in [Task -> {"null", "exit", "timeout"}]
  /\ attempt \in [Task -> Nat]
  /\ retryOf \in [Task -> Task \cup {Nobody}]
  /\ respawnedAs \in [Task -> Task \cup {Nobody}]
  /\ old \in [Task -> BOOLEAN]
  /\ call \in [Task -> {"none", "reserved", "launched", "releasing", "over"}]
  /\ proc \in [Task -> {"none", "running", "exited", "dead"}]
  /\ spc \in [Host -> {"idle", "scan", "kill", "close", "retry", "spawn"}]
  /\ todo \in [Host -> SUBSET [id : Task, pid : BOOLEAN, old : BOOLEAN]]
  /\ target \in [Host -> Task \cup {Nobody}]
  /\ heir \in [Host -> Task \cup {Nobody}]
  /\ timedOut \in [Host -> SUBSET Task]
  /\ writer \in Host \cup {Nobody}
  /\ pending \in SUBSET (Task \X {"null", "exit", "timeout"})
  /\ faults \in Nat
  /\ \A h \in Host : target[h] = Nobody <=> spc[h] \notin {"kill", "close", "spawn"}
  /\ \A h \in Host : heir[h] = Nobody <=> spc[h] # "spawn"
  /\ writer = Nobody => pending = {}

\* Children the budget is answerable for: those whose spawn call is under way
\* or whose pid is in the table.  Without a pid the idle rule may give a
\* child up while it runs.
Charged == {t \in Task : proc[t] = "running" /\ (pid[t] \/ call[t] = "launched")}

\* Concurrent spawns, restarts of timed-out tasks and lost races of closers
\* never put more children into the machine than the budget has room for.
WithinBudget == Cardinality(Charged) <= Slots

\* A restart never runs beside the child it continues, which works in the
\* same directory on the same assignment.
NoOverlap ==
  \A n \in Task : retryOf[n] # Nobody /\ proc[n] = "running" => ~Alive(retryOf[n])

\* However often a task times out and whoever sweeps, it has at most one
\* continuation, and a chain of restarts ends.
OneContinuation ==
  /\ \A m, n \in Task : retryOf[m] = retryOf[n] /\ retryOf[m] # Nobody => m = n
  /\ \A n \in Task : attempt[n] <= Limit

\* A closed row stays closed, and the verdict that a child timed out is never
\* replaced, although the wrapper sets return_code without looking.
Stands(t) ==
  row[t] = "closed" => row'[t] = "closed" /\ (code[t] = "timeout" => code'[t] = "timeout")

VerdictStands == [][\A t \in Task : Stands(t)]_vars

\* No row pins budget and single flight for good: a row with a pid, or whose
\* child never started or is dead, is closed or deleted in the end.  It
\* matters that a hung child is killed.
Settles ==
  \A t \in Task :
    (row[t] = "open" /\ (pid[t] \/ (call[t] = "over" /\ ~Alive(t)))) ~> row[t] # "open"

\* docs/ARCHITECTURE.md: a child the watchdog stops has its row closed with
\* return_code 124.
TimedOutIsMarked ==
  [][\A h \in Host : spc[h] = "close" /\ spc'[h] = "scan" => target[h] \in timedOut'[h]]_vars

\* A row as its readers see it.
LifeOf(t) ==
  CASE row[t] = "open" -> "working"
    [] row[t] = "closed" -> IF code[t] = "timeout" THEN "timedOut" ELSE "finished"
    [] OTHER -> IF call[t] = "none" THEN "unborn" ELSE "discarded"

Table == INSTANCE TaskLife WITH life <- [t \in Task |-> LifeOf(t)], continues <- retryOf

\* The table, the sweeps and all other closers of rows together implement the
\* life cycle of TaskLife.
ImplementsLife == Table!Spec
=============================================================================
