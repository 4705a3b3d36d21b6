---------------------------- MODULE CuratorProofs ----------------------------
(***************************************************************************)
(* Proofs about the durable pass of the curator, for any processes,        *)
(* children, batches, attempts, capacity, passes and faults.               *)
(***************************************************************************)
EXTENDS CuratorProperties, FiniteSetTheorems, WellFoundedInduction, TLAPS

\* One phase of a batch runs at a time; research comes before the evaluation
\* is complete.
OnePhase ==
  \A b \in Batch :
    /\ state[b]["evaluate"] # "none"
    /\ \A ph \in Running(b), other \in Running(b) : ph = other
    /\ state[b]["research"] = "running" => state[b]["evaluate"] # "complete"

\* The attempts are bounded.
AttemptsBounded ==
  \A b \in Batch :
    /\ tries[b]["research"] <= Cap
    /\ tries[b]["evaluate"] <= Cap
    /\ tries[b]["verify"] > 0 => tries[b]["verify"] < Cap + tries[b]["evaluate"]

\* So they are, and the next launch can rely on it: an evaluation that is under
\* way or a verification that is pending leaves room for one verifier.
SpendInv ==
  /\ AttemptsBounded
  /\ \A b \in Batch :
       /\ state[b]["evaluate"] = "pending" => tries[b]["evaluate"] = 0
       /\ state[b]["evaluate"] \in {"running", "complete"} => tries[b]["evaluate"] > 0
       /\ state[b]["evaluate"] = "running" \/ state[b]["verify"] = "pending" =>
            tries[b]["verify"] = 0 \/ tries[b]["verify"] + 2 <= Cap + tries[b]["evaluate"]

\* What a tick has planned is still due when its turn comes.
PlanDue == \A k \in Ticker : \A j \in plan[k] : NextAction(j.batch) = j.action

\* Without restarts a phase that names a child runs, and the child is its own;
\* so is the one that a tick is about to record.
NoRestarts == \A t \in Task : ~task[t].due /\ ~task[t].cont /\ task[t].heir = None

Owns(t, b, ph) == task[t].row # "none" /\ task[t].batch = b /\ task[t].phase = ph

OwnChildren ==
  /\ \A b \in Batch, ph \in Phase : tid[b][ph] # None =>
       state[b][ph] = "running" /\ Owns(tid[b][ph], b, ph)
  /\ \A k \in Ticker : born[k] # None =>
       Owns(born[k], Job(k).batch, PhaseOf(Job(k).action))

\* A child that is open is recorded, about to be recorded, or lost with the
\* tick that spawned it: then its batch is still due, but nobody launches.
Recorded(t) ==
  /\ state[task[t].batch][task[t].phase] = "running"
  /\ tid[task[t].batch][task[t].phase] = t

Unrecorded(t) == \E k \in Ticker : born[k] = t

Lost(t) ==
  /\ \A k \in Ticker : pc[k] \notin {"launch", "mark"}
  /\ NextAction(task[t].batch) # "nothing"
  /\ \A u \in Open : u = t \/ Recorded(u)

OpenPlaced ==
  \A t \in Open : /\ task[t].fresh /\ task[t].batch \in Batch /\ ~endorsed
                  /\ Recorded(t) \/ Unrecorded(t) \/ Lost(t)

Placed == NoRestarts /\ OwnChildren /\ OpenPlaced

\* Nobody works on an endorsed pass.
Unendorsed == Locked => ~endorsed

BatchInv == TypeOK /\ OnePhase /\ SpendInv /\ PlanDue /\ Unendorsed

\* A child that was started is counted as an attempt, or is about to be, or was
\* lost with its tick.
Marking(b, ph) ==
  \E k \in Ticker : pc[k] = "mark" /\ Job(k).batch = b /\ PhaseOf(Job(k).action) = ph

Counted ==
  \A b \in Batch, ph \in Phase :
    started[b][ph] <= tries[b][ph] + lost[b][ph] + IF Marking(b, ph) THEN 1 ELSE 0

\* From the moment that a tick finds all batches reviewed they stay so ...
Done(b) ==
  /\ state[b]["evaluate"] = "complete"
  /\ \/ state[b]["verify"] \in {"none", "complete"}
     \/ state[b]["verify"] = "failed" /\ tries[b]["verify"] >= Cap

Closing(where) == endorsed \/ \E k \in Ticker : pc[k] \in where

Finished == Closing({"check", "endorse"}) => \A b \in Batch : Done(b)

\* ... and, as nobody is left to change them, so do the reports after the last
\* look at them.
FilesKept == Closing({"endorse"}) => \A b \in Batch : Final(b)

\* The inductive invariant.
CuratorInv ==
  /\ BatchInv /\ Counted /\ Finished
  /\ limit = 0 => Placed /\ FilesKept

-----------------------------------------------------------------------------
\* The operators.

States == {"none", "pending", "running", "failed", "complete"}

\* Among some numbers there is a least one.
LEMMA LeastNumber ==
  ASSUME NEW S, S \subseteq Nat, S # {}
  PROVE  \E x \in S : \A y \in S : x <= y
  <1>1. PICK x \in S : \A y \in S : ~ (<<y, x>> \in OpToRel(<, Nat))
    BY NatLessThanWellFounded, WFMin
  <1>2. \A y \in S : ~ (y < x)
    BY <1>1 DEF OpToRel
  <1>3. QED
    BY <1>2

\* The next launch of a tick is one that it has planned.
LEMMA JobPlanned ==
  ASSUME TypeOK, NEW k \in Ticker, plan[k] # {}
  PROVE  /\ Job(k) \in plan[k]
         /\ Job(k).batch \in Batch
         /\ Job(k).action \in {"research", "evaluate", "unresearched", "verify"}
         /\ PhaseOf(Job(k).action) \in Phase
  <1>1. plan[k] \subseteq LaunchJob
    BY DEF TypeOK
  <1>2. {j.batch : j \in plan[k]} \subseteq Nat
    BY <1>1, CuratorAssumption DEF LaunchJob, Batch
  <1>3. PICK x \in {j.batch : j \in plan[k]} : \A y \in {j.batch : j \in plan[k]} : x <= y
    BY <1>2, LeastNumber
  <1>4. \E j \in plan[k] : \A i \in plan[k] : j.batch <= i.batch
    BY <1>3
  <1>5. Job(k) \in plan[k]
    BY <1>4 DEF Job
  <1>6. QED
    BY <1>1, <1>5 DEF LaunchJob, PhaseOf, Phase

\* A tick that launches has something to launch, and it is the only one at work.
LEMMA AtWork ==
  ASSUME TypeOK, NEW k \in Ticker, pc[k] \in {"launch", "mark"}
  PROVE  /\ plan[k] # {}
         /\ \A j \in Ticker : pc[j] # "idle" => j = k
         /\ \A j \in Ticker : j # k => plan[j] = {} /\ born[j] = None
  BY DEF TypeOK

\* A row is kept or forgotten; a row that is open, about to be restarted or
\* still read is kept.
LEMMA ForgetParts ==
  ASSUME NEW rows, NEW refs, NEW t \in Task
  PROVE  /\ Forget(rows, refs)[t] \in {rows[t], NoTask}
         /\ rows[t].row = "open" \/ t \in refs => Forget(rows, refs)[t] = rows[t]
  BY DEF Forget

\* Forgetting keeps the types.
LEMMA ForgetType ==
  ASSUME NEW rows \in [Task -> TaskRow], NEW refs
  PROVE  Forget(rows, refs) \in [Task -> TaskRow]
  <1>1. NoTask \in TaskRow
    BY DEF NoTask, TaskRow, Phase, None
  <1>2. QED
    BY <1>1 DEF Forget

\* What becomes of a phase in a tick: one that does not run stays as it is,
\* but for a verification that a completed evaluation calls for.
LEMMA RefreshedParts ==
  ASSUME TypeOK, NEW b \in Batch, NEW ph \in Phase
  PROVE  /\ Refreshed(b, ph) \in States
         /\ Refreshed(b, ph) = "running" =>
              state[b][ph] = "running" /\ Outcome(b, ph) = "running"
         /\ ph # "verify" =>
              Refreshed(b, ph) = IF state[b][ph] = "running" THEN Outcome(b, ph)
                                                             ELSE state[b][ph]
         /\ ph = "verify" /\ state[b]["evaluate"] # "running" =>
              Refreshed(b, ph) = IF state[b][ph] = "running" THEN Outcome(b, ph)
                                                             ELSE state[b][ph]
         /\ Outcome(b, ph) \in {"running", "failed", "complete"}
  <1>1. state[b][ph] \in States
    BY DEF TypeOK, States
  <1>2. Outcome(b, ph) \in {"running", "failed", "complete"}
    BY DEF Outcome
  <1>3. QED
    BY <1>1, <1>2 DEF Refreshed, Settled, States

\* The child that a phase follows from now on.
LEMMA FollowedParts ==
  ASSUME TypeOK, NEW b \in Batch, NEW ph \in Phase
  PROVE  /\ Followed(b, ph) \in Task \cup {None}
         /\ Followed(b, ph) # None =>
              /\ state[b][ph] = "running" /\ Outcome(b, ph) = "running"
              /\ tid[b][ph] \in Task
  <1>1. tid[b][ph] \in Task \cup {None}
    BY DEF TypeOK
  <1>2. Outcome(b, ph) = "running" => tid[b][ph] # None
    BY DEF Outcome
  <1>3. \A t \in Task : task[t].heir \in Task \cup {None}
    BY DEF TypeOK, TaskRow
  <1>4. QED
    BY <1>1, <1>2, <1>3 DEF Followed, Heir

\* The child of the next spawn.
LEMMA LeastFree ==
  ASSUME Free # {}
  PROVE  (CHOOSE x \in Free : \A y \in Free : x <= y) \in Free
  <1>1. Free \subseteq Nat
    BY CuratorAssumption DEF Free
  <1>2. QED
    BY <1>1, LeastNumber

-----------------------------------------------------------------------------
\* Types.

RowState == {"none", "open", "zero", "fails", "timeout"}

\* Changes of a row keep its type.
LEMMA RowsChanged ==
  ASSUME NEW rows \in [Task -> TaskRow], NEW t \in Task
  PROVE  /\ \A x \in RowState : [rows EXCEPT ![t].row = x] \in [Task -> TaskRow]
         /\ \A x \in RowState, y \in BOOLEAN :
              [rows EXCEPT ![t].row = x, ![t].due = y] \in [Task -> TaskRow]
         /\ [rows EXCEPT ![t].due = FALSE] \in [Task -> TaskRow]
         /\ [rows EXCEPT ![t].due = FALSE, ![t].heir = None] \in [Task -> TaskRow]
         /\ \A h \in Task : [rows EXCEPT ![t].heir = h] \in [Task -> TaskRow]
         /\ [rows[t] EXCEPT !.row = "open", !.cont = TRUE, !.due = FALSE] \in TaskRow
  BY DEF TaskRow, RowState

\* So do changes of a phase of a batch.
LEMMA PhaseChanged ==
  ASSUME TypeOK, NEW b \in Batch, NEW ph \in Phase
  PROVE  /\ \A x \in States : [state EXCEPT ![b][ph] = x] \in [Batch -> [Phase -> States]]
         /\ \A t \in Task \cup {None} :
              [tid EXCEPT ![b][ph] = t] \in [Batch -> [Phase -> Task \cup {None}]]
         /\ \A f \in {tries, started, lost} :
              [f EXCEPT ![b][ph] = @ + 1] \in [Batch -> [Phase -> Nat]]
  <1>1. /\ state \in [Batch -> [Phase -> States]]
        /\ tid \in [Batch -> [Phase -> Task \cup {None}]]
    BY DEF TypeOK, States
  <1>2. ASSUME NEW f \in [Batch -> [Phase -> Nat]]
        PROVE  [f EXCEPT ![b][ph] = @ + 1] \in [Batch -> [Phase -> Nat]]
    <2>1. f[b][ph] + 1 \in Nat
      BY <1>2
    <2>2. QED
      BY <1>2, <2>1
  <1>3. {tries, started, lost} \subseteq [Batch -> [Phase -> Nat]]
    BY DEF TypeOK
  <1>4. QED
    BY <1>1, <1>2, <1>3

\* Every action but a tick's launches keeps the types of what a tick holds.
LEMMA TypeStep ==
  ASSUME TypeOK, [Next]_vars
  PROVE  TypeOK'
  <1>0. /\ limit \in Limits /\ pass \in Nat /\ endorsed \in BOOLEAN /\ abandoned \in BOOLEAN
        /\ state \in [Batch -> [Phase -> States]]
        /\ tid \in [Batch -> [Phase -> Task \cup {None}]]
        /\ tries \in [Batch -> [Phase -> Nat]]
        /\ destroys \in [Batch -> BOOLEAN]
        /\ file \in [Batch -> [Phase -> {"draft", "final", "proposals"}]]
        /\ task \in [Task -> TaskRow]
        /\ pc \in [Ticker -> {"idle", "check", "endorse", "plan", "launch", "mark"}]
        /\ plan \in [Ticker -> SUBSET LaunchJob]
        /\ born \in [Ticker -> Task \cup {None}]
        /\ started \in [Batch -> [Phase -> Nat]] /\ lost \in [Batch -> [Phase -> Nat]]
        /\ faults \in Nat
        /\ \A t \in Task : t # None
    BY CuratorAssumption DEF TypeOK, States, None
  <1>t. ASSUME NEW k \in Ticker, pc[k] # "idle" \/ ~Locked,
               pc' \in [Ticker -> {"idle", "check", "endorse", "plan", "launch", "mark"}],
               plan' \in [Ticker -> SUBSET LaunchJob],
               born' \in [Ticker -> Task \cup {None}],
               \A j \in Ticker : j # k =>
                 /\ pc'[j] = pc[j] /\ plan'[j] = plan[j] /\ born'[j] = born[j],
               plan'[k] = {} <=> pc'[k] \notin {"launch", "mark"},
               born'[k] = None <=> pc'[k] # "mark"
        PROVE  /\ \A j \in Ticker : plan'[j] = {} <=> pc'[j] \notin {"launch", "mark"}
               /\ \A j \in Ticker : born'[j] = None <=> pc'[j] # "mark"
               /\ \A i, j \in Ticker : pc'[i] # "idle" /\ pc'[j] # "idle" => i = j
    BY <1>t DEF TypeOK, Locked
  <1>1. ASSUME NEW k \in Ticker, Create(k) PROVE TypeOK'
    <2>1. /\ state' \in [Batch -> [Phase -> States]] /\ tries' \in [Batch -> [Phase -> Nat]]
          /\ tid' \in [Batch -> [Phase -> Task \cup {None}]]
          /\ file' \in [Batch -> [Phase -> {"draft", "final", "proposals"}]]
          /\ started' \in [Batch -> [Phase -> Nat]] /\ lost' \in [Batch -> [Phase -> Nat]]
      BY <1>1 DEF Create, NewBatches, Blank, States
    <2>2. task' \in [Task -> TaskRow]
      <3>1. \A r \in TaskRow : [r EXCEPT !.fresh = FALSE] \in TaskRow
        BY DEF TaskRow
      <3>2. QED
        BY <1>0, <1>1, <3>1 DEF Create
    <2>3. /\ plan[k] = {} /\ born[k] = None /\ plan' = plan /\ born' = born
          /\ pc' = [pc EXCEPT ![k] = "plan"] /\ ~Locked
      BY <1>1 DEF Create, TypeOK
    <2>4. /\ \A j \in Ticker : plan'[j] = {} <=> pc'[j] \notin {"launch", "mark"}
          /\ \A j \in Ticker : born'[j] = None <=> pc'[j] # "mark"
          /\ \A i, j \in Ticker : pc'[i] # "idle" /\ pc'[j] # "idle" => i = j
      BY <1>0, <1>t, <2>3
    <2>5. QED
      <3>1. pass' \in Nat /\ limit' = limit /\ faults' = faults
        BY <1>0, <1>1 DEF Create
      <3>3. endorsed' \in BOOLEAN /\ abandoned' \in BOOLEAN
        BY <1>1 DEF Create
      <3>4. destroys' \in [Batch -> BOOLEAN]
        BY <1>1 DEF Create
      <3>2. pc' \in [Ticker -> {"idle", "check", "endorse", "plan", "launch", "mark"}]
        BY <1>0, <2>3
      <3>5. QED
        BY <1>0, <2>1, <2>2, <2>3, <2>4, <3>1, <3>2, <3>3, <3>4 DEF TypeOK, States
  <1>2. ASSUME NEW k \in Ticker, Advance(k) PROVE TypeOK'
    <2>1. state' \in [Batch -> [Phase -> States]]
      <3>1. \A b \in Batch, ph \in Phase : Refreshed(b, ph) \in States
        BY RefreshedParts
      <3>2. QED
        BY <1>2, <3>1 DEF Advance, Reconcile, States
    <2>2. tid' \in [Batch -> [Phase -> Task \cup {None}]]
      BY <1>2, FollowedParts DEF Advance, Reconcile
    <2>3. task' \in [Task -> TaskRow]
      <3>1. task' = Forget(task, {Followed(b, ph) : b \in Batch, ph \in Phase})
        BY <1>2 DEF Advance, Reconcile
      <3>2. QED
        BY <1>0, <3>1, ForgetType
    <2>4. /\ plan[k] = {} /\ born[k] = None /\ plan' = plan /\ born' = born
          /\ \E w \in {"check", "plan"} : pc' = [pc EXCEPT ![k] = w]
      BY <1>2 DEF Advance, TypeOK
    <2>5. /\ \A j \in Ticker : plan'[j] = {} <=> pc'[j] \notin {"launch", "mark"}
          /\ \A j \in Ticker : born'[j] = None <=> pc'[j] # "mark"
          /\ \A i, j \in Ticker : pc'[i] # "idle" /\ pc'[j] # "idle" => i = j
      BY <1>0, <1>2, <1>t, <2>4 DEF Advance
    <2>6. QED
      BY <1>0, <1>2, <2>1, <2>2, <2>3, <2>4, <2>5 DEF Advance, TypeOK, States, passVars, history
  <1>c. ASSUME NEW k \in Ticker, Check(k) \/ Endorse(k) PROVE TypeOK'
    <2>1. state' \in [Batch -> [Phase -> States]]
      BY <1>0, <1>c DEF Check, Endorse, batchVars, States
    <2>2. endorsed' \in BOOLEAN
      BY <1>0, <1>c DEF Check, Endorse, passVars
    <2>3. /\ plan[k] = {} /\ born[k] = None /\ plan' = plan /\ born' = born /\ pc[k] # "idle"
          /\ \E w \in {"endorse", "plan", "idle"} : pc' = [pc EXCEPT ![k] = w]
      BY <1>c DEF Check, Endorse, TypeOK
    <2>4. /\ \A j \in Ticker : plan'[j] = {} <=> pc'[j] \notin {"launch", "mark"}
          /\ \A j \in Ticker : born'[j] = None <=> pc'[j] # "mark"
          /\ \A i, j \in Ticker : pc'[i] # "idle" /\ pc'[j] # "idle" => i = j
      <3>1. PICK w \in {"endorse", "plan", "idle"} : pc' = [pc EXCEPT ![k] = w]
        BY <2>3
      <3>2. /\ pc' \in [Ticker -> {"idle", "check", "endorse", "plan", "launch", "mark"}]
            /\ pc'[k] = w /\ \A j \in Ticker : j # k => pc'[j] = pc[j]
        BY <1>0, <3>1
      <3>3. QED
        BY <1>0, <1>t, <2>3, <3>2
    <2>5. UNCHANGED <<limit, pass, abandoned, tid, tries, destroys, file, task, started, lost, faults>>
      BY <1>c DEF Check, Endorse, passVars, batchVars, history
    <2>6. pc' \in [Ticker -> {"idle", "check", "endorse", "plan", "launch", "mark"}]
      BY <1>0, <2>3
    <2>7. QED
      BY <1>0, <2>1, <2>2, <2>3, <2>4, <2>5, <2>6 DEF TypeOK, States
  <1>3. ASSUME NEW k \in Ticker, Plan(k) PROVE TypeOK'
    <2>1. \A b \in Wanted : [batch |-> b, action |-> NextAction(b)] \in LaunchJob
      BY DEF Wanted, NextAction, LaunchJob
    <2>2. plan' \in [Ticker -> SUBSET LaunchJob]
      <3>1. {[batch |-> b, action |-> NextAction(b)] : b \in Wanted} \in SUBSET LaunchJob
        BY <2>1
      <3>2. PICK S \in SUBSET LaunchJob : plan' = [plan EXCEPT ![k] = S]
        BY <1>3, <3>1 DEF Plan
      <3>3. QED
        BY <1>0, <3>2
    <2>3. /\ pc' \in [Ticker -> {"idle", "check", "endorse", "plan", "launch", "mark"}] /\ born' = born
          /\ \A j \in Ticker : j # k => pc'[j] = pc[j] /\ plan'[j] = plan[j]
          /\ pc'[k] = IF plan'[k] = {} THEN "idle" ELSE "launch"
          /\ born[k] = None /\ pc[k] # "idle"
      BY <1>0, <1>3 DEF Plan, TypeOK
    <2>4. /\ \A j \in Ticker : plan'[j] = {} <=> pc'[j] \notin {"launch", "mark"}
          /\ \A j \in Ticker : born'[j] = None <=> pc'[j] # "mark"
          /\ \A i, j \in Ticker : pc'[i] # "idle" /\ pc'[j] # "idle" => i = j
      BY <1>0, <1>t, <2>2, <2>3
    <2>5. abandoned' \in BOOLEAN
      BY <1>0, <1>3 DEF Plan
    <2>6. QED
      BY <1>0, <1>3, <2>2, <2>3, <2>4, <2>5 DEF Plan, TypeOK, States, batchVars, history
  <1>4. ASSUME NEW k \in Ticker, VerifyUnprepared(k) \/ Mark(k) PROVE TypeOK'
    <2>1. /\ Job(k).batch \in Batch /\ PhaseOf(Job(k).action) \in Phase
          /\ "verify" \in Phase /\ born[k] \in Task \cup {None}
      BY <1>0, <1>4, AtWork, JobPlanned DEF VerifyUnprepared, Mark, Phase
    <2>2. /\ state' \in [Batch -> [Phase -> States]] /\ tries' \in [Batch -> [Phase -> Nat]]
          /\ tid' \in [Batch -> [Phase -> Task \cup {None}]] /\ faults' \in Nat
          /\ started' \in [Batch -> [Phase -> Nat]] /\ lost' = lost
      <3>1. CASE VerifyUnprepared(k)
        BY <1>0, <2>1, <3>1, PhaseChanged DEF VerifyUnprepared, Attempted, Launch, Fault, States
      <3>2. CASE Mark(k)
        BY <1>0, <2>1, <3>2, PhaseChanged DEF Mark, States, history
      <3>3. QED
        BY <1>4, <3>1, <3>2
    <2>3. destroys' \in [Batch -> BOOLEAN]
      BY <1>0, <1>4, <2>1 DEF VerifyUnprepared, Mark
    <2>4. /\ pc' = Onward(k) /\ plan' = [plan EXCEPT ![k] = Rest(k)]
          /\ \A j \in Ticker : j # k => born'[j] = born[j]
          /\ born' \in [Ticker -> Task \cup {None}] /\ born'[k] = None
      BY <1>0, <1>4 DEF VerifyUnprepared, Mark, TypeOK
    <2>5. /\ pc' \in [Ticker -> {"idle", "check", "endorse", "plan", "launch", "mark"}]
          /\ plan' \in [Ticker -> SUBSET LaunchJob]
          /\ \A j \in Ticker : j # k => pc'[j] = pc[j] /\ plan'[j] = plan[j]
          /\ pc'[k] = IF plan'[k] = {} THEN "idle" ELSE "launch"
      BY <1>0, <2>4 DEF Onward, Rest
    <2>6. /\ \A j \in Ticker : plan'[j] = {} <=> pc'[j] \notin {"launch", "mark"}
          /\ \A j \in Ticker : born'[j] = None <=> pc'[j] # "mark"
          /\ \A i, j \in Ticker : pc'[i] # "idle" /\ pc'[j] # "idle" => i = j
      BY <1>0, <1>4, <1>t, <2>4, <2>5 DEF VerifyUnprepared, Mark
    <2>7. QED
      BY <1>0, <1>4, <2>2, <2>3, <2>4, <2>5, <2>6
      DEF VerifyUnprepared, Mark, TypeOK, States, passVars
  <1>5. ASSUME NEW k \in Ticker, EvaluateUnprepared(k) \/ Refused(k) \/ Die(k) PROVE TypeOK'
    <2>1. pc[k] \in {"launch", "mark"} => Job(k).batch \in Batch /\ PhaseOf(Job(k).action) \in Phase
      BY AtWork, JobPlanned
    <2>2. /\ state' \in [Batch -> [Phase -> States]] /\ tries' \in [Batch -> [Phase -> Nat]]
          /\ tid' \in [Batch -> [Phase -> Task \cup {None}]] /\ faults' \in Nat
          /\ started' \in [Batch -> [Phase -> Nat]] /\ lost' \in [Batch -> [Phase -> Nat]]
      <3>1. CASE Refused(k)
        <4>0. lost' = lost
          BY <3>1 DEF Refused
        <4>1. CASE UNCHANGED <<state, tid, tries, started, faults>>
          BY <1>0, <4>0, <4>1
        <4>2. CASE /\ Fault /\ Attempted(Job(k).batch, PhaseOf(Job(k).action))
                   /\ Launch(Job(k).batch, PhaseOf(Job(k).action))
          <5>1. PICK b \in Batch, ph \in Phase : Fault /\ Attempted(b, ph) /\ Launch(b, ph)
            BY <2>1, <3>1, <4>2 DEF Refused
          <5>2. QED
            BY <1>0, <4>0, <5>1, PhaseChanged DEF Attempted, Launch, Fault, States
        <4>3. QED
          BY <3>1, <4>1, <4>2 DEF Refused
      <3>2. CASE EvaluateUnprepared(k)
        BY <1>0, <3>2 DEF EvaluateUnprepared, Fault, batchVars, history
      <3>3. CASE Die(k)
        <4>1. UNCHANGED <<batchVars, started>> /\ faults' \in Nat
          BY <1>0, <3>3 DEF Die, Fault
        <4>2. lost' \in [Batch -> [Phase -> Nat]]
          BY <1>0, <2>1, <3>3, PhaseChanged DEF Die
        <4>3. QED
          BY <1>0, <4>1, <4>2 DEF batchVars
      <3>4. QED
        BY <1>5, <3>1, <3>2, <3>3
    <2>3. /\ pc[k] # "idle" /\ Stop(k) /\ \A j \in Ticker : j # k => born'[j] = born[j]
          /\ born' \in [Ticker -> Task \cup {None}] /\ born'[k] = None
      BY <1>0, <1>5 DEF EvaluateUnprepared, Refused, Die, TypeOK
    <2>4. /\ pc' \in [Ticker -> {"idle", "check", "endorse", "plan", "launch", "mark"}]
          /\ plan' \in [Ticker -> SUBSET LaunchJob]
          /\ \A j \in Ticker : j # k => pc'[j] = pc[j] /\ plan'[j] = plan[j]
          /\ pc'[k] = "idle" /\ plan'[k] = {}
      BY <1>0, <2>3 DEF Stop
    <2>5. /\ \A j \in Ticker : plan'[j] = {} <=> pc'[j] \notin {"launch", "mark"}
          /\ \A j \in Ticker : born'[j] = None <=> pc'[j] # "mark"
          /\ \A i, j \in Ticker : pc'[i] # "idle" /\ pc'[j] # "idle" => i = j
      BY <1>t, <2>3, <2>4
    <2>6. QED
      BY <1>0, <1>5, <2>2, <2>3, <2>4, <2>5
      DEF EvaluateUnprepared, Refused, Die, TypeOK, States, passVars, batchVars
  <1>6. ASSUME NEW k \in Ticker, Spawned(k) PROVE TypeOK'
    <2>1. PICK t \in Free :
            /\ task' = [task EXCEPT ![t] = [NoTask EXCEPT
                          !.row = "open", !.batch = Job(k).batch,
                          !.phase = PhaseOf(Job(k).action), !.fresh = TRUE]]
            /\ born' = [born EXCEPT ![k] = t]
      BY <1>6, LeastFree DEF Spawned
    <2>2. t \in Task /\ Job(k).batch \in Batch /\ PhaseOf(Job(k).action) \in Phase
      BY <1>6, <2>1, AtWork, JobPlanned DEF Spawned, Free
    <2>3. task' \in [Task -> TaskRow]
      BY <1>0, <2>1, <2>2 DEF TaskRow, NoTask
    <2>4. /\ pc' = [pc EXCEPT ![k] = "mark"] /\ plan' = plan /\ plan[k] # {} /\ t # None
      BY <1>0, <1>6, <2>2, AtWork DEF Spawned
    <2>5. /\ \A j \in Ticker : plan'[j] = {} <=> pc'[j] \notin {"launch", "mark"}
          /\ \A j \in Ticker : born'[j] = None <=> pc'[j] # "mark"
          /\ \A i, j \in Ticker : pc'[i] # "idle" /\ pc'[j] # "idle" => i = j
      <3>1. pc[k] # "idle"
        BY <1>6 DEF Spawned
      <3>2. QED
        BY <1>0, <1>t, <2>1, <2>2, <2>4, <3>1
    <2>6. started' \in [Batch -> [Phase -> Nat]]
      BY <1>0, <1>6, <2>2, PhaseChanged DEF Spawned, Launch
    <2>7. QED
      BY <1>0, <1>6, <2>1, <2>2, <2>3, <2>4, <2>5, <2>6 DEF Spawned, TypeOK, States, passVars, batchVars
  <1>7. ASSUME NEW t \in Task, Write(t) \/ End(t) \/ TimeOut(t) \/ Restart(t) \/ RecordRestart(t)
        PROVE  TypeOK'
    <2>1. task' \in [Task -> TaskRow]
      <3>1. CASE Write(t)
        BY <1>0, <3>1 DEF Write
      <3>2. CASE End(t)
        <4>1. PICK x \in RowState : task' = Forget([task EXCEPT ![t].row = x], Referred)
          BY <3>2 DEF End, RowState
        <4>2. [task EXCEPT ![t].row = x] \in [Task -> TaskRow]
          BY <1>0, RowsChanged
        <4>3. QED
          BY <4>1, <4>2, ForgetType
      <3>3. CASE TimeOut(t)
        <4>1. PICK y \in BOOLEAN :
                task' = Forget([task EXCEPT ![t].row = "timeout", ![t].due = y], Referred)
          BY <3>3 DEF TimeOut
        <4>2. [task EXCEPT ![t].row = "timeout", ![t].due = y] \in [Task -> TaskRow]
          BY <1>0, RowsChanged DEF RowState
        <4>3. QED
          BY <4>1, <4>2, ForgetType
      <3>4. CASE Restart(t)
        <4>1. Forget([task EXCEPT ![t].due = FALSE], Referred) \in [Task -> TaskRow]
          BY <1>0, RowsChanged, ForgetType
        <4>2. ASSUME NEW u \in Free
              PROVE  [task EXCEPT ![t].heir = u,
                        ![u] = [task[t] EXCEPT !.row = "open", !.cont = TRUE, !.due = FALSE]]
                       \in [Task -> TaskRow]
          <5>1. u \in Task
            BY DEF Free
          <5>2. /\ [task EXCEPT ![t].heir = u] \in [Task -> TaskRow]
                /\ [task[t] EXCEPT !.row = "open", !.cont = TRUE, !.due = FALSE] \in TaskRow
            BY <1>0, <5>1, RowsChanged
          <5>3. \A f \in [Task -> TaskRow], r \in TaskRow : [f EXCEPT ![u] = r] \in [Task -> TaskRow]
            BY <5>1
          <5>4. QED
            BY <5>2, <5>3
        <4>3. QED
          BY <3>4, <4>1, <4>2 DEF Restart
      <3>5. CASE RecordRestart(t)
        <4>1. /\ Forget([task EXCEPT ![t].due = FALSE], Referred) \in [Task -> TaskRow]
              /\ Forget([task EXCEPT ![t].due = FALSE, ![t].heir = None], Referred)
                   \in [Task -> TaskRow]
          BY <1>0, RowsChanged, ForgetType
        <4>2. QED
          BY <3>5, <4>1 DEF RecordRestart
      <3>6. QED
        BY <1>7, <3>1, <3>2, <3>3, <3>4, <3>5
    <2>2. file' \in [Batch -> [Phase -> {"draft", "final", "proposals"}]]
      <3>1. CASE Write(t)
        <4>1. PICK x \in {"draft", "final", "proposals"} :
                file' = [file EXCEPT ![task[t].batch][task[t].phase] = x]
          BY <3>1 DEF Write
        <4>2. task[t].phase \in Phase
          BY <1>0 DEF TaskRow
        <4>3. QED
          BY <1>0, <4>1, <4>2
      <3>2. CASE ~Write(t)
        BY <1>0, <1>7, <3>2 DEF End, TimeOut, Restart, RecordRestart
      <3>3. QED
        BY <3>1, <3>2
    <2>3. /\ UNCHANGED <<limit, passVars, batchVars, tickVars, history>> /\ faults' \in Nat
      BY <1>0, <1>7 DEF Write, End, TimeOut, Restart, RecordRestart, Fault
    <2>4. QED
      BY <1>0, <2>1, <2>2, <2>3 DEF TypeOK, States, passVars, batchVars, tickVars, history
  <1>8. CASE Look
    BY <1>8 DEF Look, TypeOK, batchVars, tickVars, history
  <1>9. CASE UNCHANGED vars
    BY <1>9 DEF vars, TypeOK, passVars, batchVars, tickVars, history
  <1>10. QED
    BY <1>1, <1>2, <1>c, <1>3, <1>4, <1>5, <1>6, <1>7, <1>8, <1>9 DEF Next, Tick

-----------------------------------------------------------------------------
\* Phases, attempts and plans.

\* What makes a launch due.
LEMMA DueParts ==
  ASSUME TypeOK, NEW b \in Batch
  PROVE  /\ NextAction(b) # "nothing" => Running(b) = {}
         /\ NextAction(b) = "verify" => state[b]["evaluate"] = "complete" /\ VerifyDue(b)
         /\ NextAction(b) \in {"research", "evaluate", "unresearched"} =>
              /\ state[b]["evaluate"] # "complete"
              /\ state[b]["evaluate"] = "failed" => tries[b]["evaluate"] < Cap
         /\ NextAction(b) = "research" => tries[b]["research"] < Cap
  <1>1. tries[b]["evaluate"] \in Nat /\ Cap \in Nat
    BY CuratorAssumption DEF TypeOK, Phase
  <1>2. QED
    BY <1>1 DEF NextAction

\* The next action of a batch depends on nothing but its phases and attempts.
LEMMA NextActionKept ==
  ASSUME NEW b, state'[b] = state[b], tries'[b] = tries[b]
  PROVE  NextAction(b)' = NextAction(b)
  BY DEF NextAction, Running, VerifyDue

\* A batch with a due action is not reviewed, and a tick leaves it alone.
LEMMA DueUnreviewed ==
  ASSUME TypeOK, NEW b \in Batch, NextAction(b) # "nothing"
  PROVE  /\ ~Reviewed(b)
         /\ \A ph \in Phase : Refreshed(b, ph) = state[b][ph] /\ Followed(b, ph) = None
  <1>1. \A ph \in Phase : state[b][ph] # "running"
    BY DueParts DEF Running
  <1>2. \A ph \in Phase : Refreshed(b, ph) = state[b][ph] /\ Followed(b, ph) = None
    BY <1>1 DEF Refreshed, Settled, Followed, Phase
  <1>3. tries[b]["verify"] \in Nat /\ Cap \in Nat
    BY CuratorAssumption DEF TypeOK, Phase
  <1>4. state[b]["evaluate"] = "complete" => VerifyDue(b)
    BY DEF NextAction
  <1>5. ~Reviewed(b)
    BY <1>2, <1>3, <1>4 DEF Reviewed, VerifyDue, Phase
  <1>6. QED
    BY <1>2, <1>5


\* A due launch, made or failed, takes one attempt of its phase.
LEMMA LaunchKeeps ==
  ASSUME BatchInv, NEW b \in Batch, NextAction(b) # "nothing",
         NEW ph \in Phase, ph = PhaseOf(NextAction(b)),
         NEW x \in {"running", "failed"},
         state' = [state EXCEPT ![b][ph] = x],
         tries' = [tries EXCEPT ![b][ph] = @ + 1]
  PROVE  OnePhase' /\ SpendInv'
  <1>0. /\ state \in [Batch -> [Phase -> States]] /\ tries \in [Batch -> [Phase -> Nat]]
        /\ Cap \in Nat \ {0}
        /\ NextAction(b) \in {"research", "evaluate", "unresearched", "verify"}
        /\ ph = IF NextAction(b) \in {"evaluate", "unresearched"} THEN "evaluate" ELSE NextAction(b)
    BY CuratorAssumption DEF BatchInv, TypeOK, States, NextAction, PhaseOf
  <1>1. \A c \in Batch, q \in Phase :
          /\ state'[c][q] = IF c = b /\ q = ph THEN x ELSE state[c][q]
          /\ tries'[c][q] = IF c = b /\ q = ph THEN tries[c][q] + 1 ELSE tries[c][q]
          /\ tries[c][q] \in Nat
    BY <1>0
  <1>2. \A q \in Phase : state[b][q] # "running"
    BY DueParts DEF BatchInv, Running
  <1>3. /\ ph = "verify" => state[b]["evaluate"] = "complete" /\ VerifyDue(b)
        /\ ph # "verify" => /\ state[b]["evaluate"] # "complete"
                            /\ state[b]["evaluate"] = "failed" => tries[b]["evaluate"] < Cap
        /\ ph = "research" => tries[b]["research"] < Cap
    BY <1>0, DueParts DEF BatchInv
  <1>4. OnePhase'
    BY <1>1, <1>2, <1>3 DEF BatchInv, OnePhase, Running, Phase
  <1>5. ASSUME NEW c \in Batch
        PROVE  /\ (/\ tries[c]["research"] <= Cap
                   /\ tries[c]["evaluate"] <= Cap
                   /\ tries[c]["verify"] > 0 => tries[c]["verify"] < Cap + tries[c]["evaluate"])'
               /\ (/\ state[c]["evaluate"] = "pending" => tries[c]["evaluate"] = 0
                   /\ state[c]["evaluate"] \in {"running", "complete"} => tries[c]["evaluate"] > 0
                   /\ state[c]["evaluate"] = "running" \/ state[c]["verify"] = "pending" =>
                        \/ tries[c]["verify"] = 0
                        \/ tries[c]["verify"] + 2 <= Cap + tries[c]["evaluate"])'
    <2>1. /\ "research" \in Phase /\ "evaluate" \in Phase /\ "verify" \in Phase
          /\ state[c]["evaluate"] \in {"pending", "running", "failed", "complete"}
      BY <1>0 DEF Phase, States, BatchInv, OnePhase
    <2>2. CASE c # b
      BY <1>1, <2>1, <2>2 DEF BatchInv, SpendInv, AttemptsBounded
    <2>3. CASE c = b /\ ph = "research"
      BY <1>0, <1>1, <1>2, <1>3, <2>1, <2>3 DEF BatchInv, SpendInv, AttemptsBounded
    <2>4. CASE c = b /\ ph = "evaluate"
      BY <1>0, <1>1, <1>2, <1>3, <2>1, <2>4 DEF BatchInv, SpendInv, AttemptsBounded
    <2>5. CASE c = b /\ ph = "verify"
      BY <1>0, <1>1, <1>2, <1>3, <2>1, <2>5 DEF BatchInv, SpendInv, AttemptsBounded, VerifyDue
    <2>6. QED
      BY <2>2, <2>3, <2>4, <2>5 DEF Phase
  <1>6. QED
    BY <1>4, <1>5 DEF SpendInv, AttemptsBounded

\* Reconciling a pass costs nothing and starts nothing.
LEMMA ReconcileKeeps ==
  ASSUME BatchInv, Reconcile, tries' = tries
  PROVE  OnePhase' /\ SpendInv'
  <1>0. /\ state \in [Batch -> [Phase -> States]] /\ tries \in [Batch -> [Phase -> Nat]]
        /\ "research" \in Phase /\ "evaluate" \in Phase /\ "verify" \in Phase
    BY DEF BatchInv, TypeOK, States, Phase
  <1>1. state' = [b \in Batch |-> [ph \in Phase |-> Refreshed(b, ph)]]
    BY DEF Reconcile
  <1>2. ASSUME NEW b \in Batch
        PROVE  /\ \/ state'[b]["evaluate"] \in {state[b]["evaluate"], "failed"}
                  \/ state[b]["evaluate"] = "running" /\ state'[b]["evaluate"] = "complete"
               /\ \A ph \in Phase : state'[b][ph] = "running" => state[b][ph] = "running"
               /\ state'[b]["verify"] = "pending" =>
                    state[b]["verify"] = "pending" \/ state[b]["evaluate"] = "running"
               /\ state[b]["evaluate"] # "none"
    <2>1. \A ph \in Phase : state'[b][ph] = Refreshed(b, ph)
      BY <1>1
    <2>2. /\ \A ph \in Phase : Refreshed(b, ph) = "running" => state[b][ph] = "running"
          /\ Outcome(b, "evaluate") \in {"running", "failed", "complete"}
          /\ Outcome(b, "verify") \in {"running", "failed", "complete"}
          /\ Refreshed(b, "evaluate") = IF state[b]["evaluate"] = "running"
                                          THEN Outcome(b, "evaluate") ELSE state[b]["evaluate"]
          /\ state[b]["evaluate"] # "running" =>
               Refreshed(b, "verify") = IF state[b]["verify"] = "running"
                                          THEN Outcome(b, "verify") ELSE state[b]["verify"]
      BY <1>0, RefreshedParts DEF BatchInv
    <2>3. state[b]["evaluate"] # "none"
      BY DEF BatchInv, OnePhase
    <2>4. \A ph \in Phase : state'[b][ph] = "running" => state[b][ph] = "running"
      BY <2>1, <2>2
    <2>5. /\ state'[b]["evaluate"] = Refreshed(b, "evaluate")
          /\ state'[b]["verify"] = Refreshed(b, "verify")
      BY <1>0, <2>1
    <2>6. \/ state'[b]["evaluate"] \in {state[b]["evaluate"], "failed"}
          \/ state[b]["evaluate"] = "running" /\ state'[b]["evaluate"] = "complete"
      BY <2>2, <2>5
    <2>7. state'[b]["verify"] = "pending" =>
            state[b]["verify"] = "pending" \/ state[b]["evaluate"] = "running"
      BY <2>2, <2>5
    <2>8. QED
      BY <2>3, <2>4, <2>6, <2>7
  <1>3. OnePhase'
    <2>1. ASSUME NEW b \in Batch
          PROVE  /\ state'[b]["evaluate"] # "none"
                 /\ \A ph \in Phase, other \in Phase :
                      state'[b][ph] = "running" /\ state'[b][other] = "running" => ph = other
                 /\ state'[b]["research"] = "running" => state'[b]["evaluate"] # "complete"
      <3>1. \A ph \in Phase, other \in Phase :
              state[b][ph] = "running" /\ state[b][other] = "running" => ph = other
        BY DEF BatchInv, OnePhase, Running
      <3>2. state[b]["research"] = "running" => state[b]["evaluate"] \notin {"complete", "running"}
        BY <1>0, <3>1 DEF BatchInv, OnePhase
      <3>3. QED
        BY <1>0, <1>2, <3>1, <3>2
    <2>2. QED
      BY <2>1 DEF OnePhase, Running
  <1>4. SpendInv'
    BY <1>2 DEF BatchInv, SpendInv, AttemptsBounded
  <1>5. QED
    BY <1>3, <1>4

\* What a tick planned stays due until it is launched: only the tick under the
\* lock changes phases and attempts, each time those of the batch it launches.
LEMMA PlanKeeps ==
  ASSUME BatchInv, TypeOK', NEW k \in Ticker, pc[k] \in {"launch", "mark"},
         plan' = [plan EXCEPT ![k] = Rest(k)],
         \A b \in Batch : b # Job(k).batch => state'[b] = state[b] /\ tries'[b] = tries[b]
  PROVE  PlanDue'
  <1>1. plan \in [Ticker -> SUBSET LaunchJob] /\ Job(k) \in plan[k]
    BY AtWork, JobPlanned DEF BatchInv, TypeOK
  <1>2. SUFFICES ASSUME NEW i \in Ticker, NEW j \in plan'[i]
                 PROVE  NextAction(j.batch)' = j.action
    BY DEF PlanDue
  <1>3. i = k
    BY <1>1, <1>2, AtWork DEF BatchInv
  <1>4. j \in plan[k] /\ j # Job(k)
    BY <1>1, <1>2, <1>3 DEF Rest
  <1>5. j.batch # Job(k).batch
    <2>1. /\ j \in LaunchJob /\ Job(k) \in LaunchJob
          /\ NextAction(j.batch) = j.action /\ NextAction(Job(k).batch) = Job(k).action
      BY <1>1, <1>4 DEF BatchInv, PlanDue
    <2>2. QED
      BY <1>4, <2>1 DEF LaunchJob
  <1>6. j.batch \in Batch
    BY <1>1, <1>4 DEF LaunchJob
  <1>7. NextAction(j.batch)' = NextAction(j.batch)
    BY <1>5, <1>6, NextActionKept
  <1>8. QED
    BY <1>4, <1>7 DEF BatchInv, PlanDue

\* Every action keeps phases, attempts and plans in order.
LEMMA BatchStep ==
  ASSUME BatchInv, [Next]_vars
  PROVE  BatchInv'
  <1>0. TypeOK /\ TypeOK'
    BY TypeStep DEF BatchInv
  <1>q. ASSUME UNCHANGED <<state, tries>>,
               \A i \in Ticker : plan'[i] \subseteq plan[i],
               Unendorsed'
        PROVE  BatchInv'
    <2>1. OnePhase' /\ SpendInv'
      BY <1>q DEF BatchInv, OnePhase, SpendInv, AttemptsBounded, Running
    <2>2. PlanDue'
      BY <1>q, NextActionKept DEF BatchInv, PlanDue
    <2>3. QED
      BY <1>0, <1>q, <2>1, <2>2 DEF BatchInv
  <1>e. ASSUME \A i \in Ticker : plan'[i] = {}
        PROVE  PlanDue'
    BY <1>e DEF PlanDue
  <1>i. ~Locked => \A i \in Ticker : plan[i] = {}
    BY <1>0 DEF Locked, TypeOK
  <1>p. /\ plan \in [Ticker -> SUBSET LaunchJob] /\ pc \in [Ticker -> {"idle", "check", "endorse", "plan", "launch", "mark"}]
    BY <1>0 DEF TypeOK
  <1>1. ASSUME NEW k \in Ticker, Create(k) PROVE BatchInv'
    <2>1. \A b \in Batch, ph \in Phase :
            /\ state'[b][ph] = IF ph = "evaluate" THEN "pending" ELSE "none"
            /\ tries'[b][ph] = 0
      BY <1>1 DEF Create, NewBatches, Blank
    <2>2. "research" \in Phase /\ "evaluate" \in Phase /\ "verify" \in Phase /\ Cap \in Nat
      BY CuratorAssumption DEF Phase
    <2>3. OnePhase' /\ SpendInv'
      BY <2>1, <2>2 DEF OnePhase, SpendInv, AttemptsBounded, Running
    <2>4. PlanDue' /\ Unendorsed'
      BY <1>1, <1>e, <1>i DEF Create, Unendorsed
    <2>5. QED
      BY <1>0, <2>3, <2>4 DEF BatchInv
  <1>2. ASSUME NEW k \in Ticker, Advance(k) PROVE BatchInv'
    <2>1. OnePhase' /\ SpendInv'
      BY <1>2, ReconcileKeeps DEF Advance
    <2>2. PlanDue'
      BY <1>2, <1>e, <1>i DEF Advance
    <2>3. Unendorsed'
      BY <1>2, <1>p DEF Advance, Active, Unendorsed, passVars
    <2>4. QED
      BY <1>0, <2>1, <2>2, <2>3 DEF BatchInv
  <1>c. ASSUME NEW k \in Ticker, Check(k) PROVE BatchInv'
    <2>1. /\ UNCHANGED <<tries, plan, endorsed>> /\ Locked
          /\ \A b \in Batch, ph \in Phase :
               state'[b][ph] = state[b][ph] \/ (ph = "evaluate" /\ state'[b][ph] = "failed")
      BY <1>c DEF Check, passVars, Locked
    <2>2. "research" \in Phase /\ "evaluate" \in Phase /\ "verify" \in Phase
      BY DEF Phase
    <2>3. OnePhase' /\ SpendInv'
      BY <2>1, <2>2 DEF BatchInv, OnePhase, SpendInv, AttemptsBounded, Running
    <2>4. \A i \in Ticker : plan'[i] = {}
      <3>1. pc[k] = "check"
        BY <1>c DEF Check
      <3>2. QED
        BY <1>0, <2>1, <3>1 DEF TypeOK
    <2>5. PlanDue' /\ Unendorsed'
      BY <1>e, <2>1, <2>4 DEF BatchInv, Unendorsed
    <2>6. QED
      BY <1>0, <2>3, <2>5 DEF BatchInv
  <1>d. ASSUME NEW k \in Ticker, Endorse(k) PROVE BatchInv'
    <2>1. UNCHANGED <<state, tries, plan>> /\ pc[k] = "endorse" /\ pc' = [pc EXCEPT ![k] = "idle"]
      BY <1>d DEF Endorse, batchVars
    <2>2. \A i \in Ticker : pc'[i] = "idle"
      BY <1>0, <1>p, <2>1 DEF TypeOK
    <2>3. QED
      BY <1>q, <2>1, <2>2 DEF Unendorsed, Locked
  <1>3. ASSUME NEW k \in Ticker, Plan(k) PROVE BatchInv'
    <2>1. UNCHANGED <<state, tries, endorsed>> /\ Locked
      BY <1>3 DEF Plan, batchVars, Locked
    <2>2. OnePhase' /\ SpendInv' /\ Unendorsed'
      BY <2>1 DEF BatchInv, OnePhase, SpendInv, AttemptsBounded, Running, Unendorsed
    <2>3. ASSUME NEW i \in Ticker, NEW j \in plan'[i] PROVE NextAction(j.batch)' = j.action
      <3>1. \A h \in Ticker : plan[h] = {}
        BY <1>0, <1>3 DEF Plan, TypeOK
      <3>2. PICK b \in Batch : j = [batch |-> b, action |-> NextAction(b)]
        BY <1>3, <1>p, <2>3, <3>1 DEF Plan, Wanted
      <3>3. NextAction(b)' = NextAction(b)
        BY <2>1, NextActionKept
      <3>4. QED
        BY <3>2, <3>3
    <2>4. QED
      BY <1>0, <2>2, <2>3 DEF BatchInv, PlanDue
  <1>4. ASSUME NEW k \in Ticker, VerifyUnprepared(k) \/ Mark(k) PROVE BatchInv'
    <2>1. PICK x \in {"running", "failed"} :
            /\ state' = [state EXCEPT ![Job(k).batch][PhaseOf(Job(k).action)] = x]
            /\ tries' = [tries EXCEPT ![Job(k).batch][PhaseOf(Job(k).action)] = @ + 1]
      BY <1>4 DEF VerifyUnprepared, Attempted, Mark, PhaseOf
    <2>2. /\ pc[k] \in {"launch", "mark"} /\ plan' = [plan EXCEPT ![k] = Rest(k)]
          /\ endorsed' = endorsed /\ Locked
      BY <1>4 DEF VerifyUnprepared, Mark, passVars, Locked
    <2>3. /\ Job(k) \in plan[k] /\ Job(k).batch \in Batch
          /\ PhaseOf(Job(k).action) \in Phase /\ Job(k).action # "nothing"
      BY <1>0, <2>2, AtWork, JobPlanned
    <2>4. NextAction(Job(k).batch) = Job(k).action
      BY <2>3 DEF BatchInv, PlanDue
    <2>5. OnePhase' /\ SpendInv'
      BY <2>1, <2>3, <2>4, LaunchKeeps
    <2>6. \A b \in Batch : b # Job(k).batch => state'[b] = state[b] /\ tries'[b] = tries[b]
      BY <1>0, <2>1 DEF TypeOK
    <2>7. PlanDue'
      BY <1>0, <2>2, <2>6, PlanKeeps
    <2>8. QED
      BY <1>0, <2>2, <2>5, <2>7 DEF BatchInv, Unendorsed
  <1>5. ASSUME NEW k \in Ticker, EvaluateUnprepared(k) \/ Refused(k) \/ Die(k) PROVE BatchInv'
    <2>1. /\ pc[k] # "idle" /\ plan' = [plan EXCEPT ![k] = {}]
          /\ endorsed' = endorsed /\ Locked
      BY <1>5 DEF EvaluateUnprepared, Refused, Die, Stop, passVars, Locked
    <2>2. \A i \in Ticker : plan'[i] = {}
      BY <1>0, <1>p, <2>1 DEF TypeOK
    <2>3. CASE UNCHANGED <<state, tries>>
      BY <1>q, <2>1, <2>2, <2>3 DEF BatchInv, Unendorsed
    <2>4. CASE Refused(k) /\ Attempted(Job(k).batch, PhaseOf(Job(k).action))
      <3>1. /\ Job(k) \in plan[k] /\ Job(k).batch \in Batch
            /\ PhaseOf(Job(k).action) \in Phase /\ Job(k).action # "nothing"
        BY <1>0, <2>4, AtWork, JobPlanned DEF Refused
      <3>2. NextAction(Job(k).batch) = Job(k).action
        BY <3>1 DEF BatchInv, PlanDue
      <3>3. OnePhase' /\ SpendInv'
        BY <2>4, <3>1, <3>2, LaunchKeeps DEF Attempted
      <3>4. QED
        BY <1>0, <1>e, <2>1, <2>2, <3>3 DEF BatchInv, Unendorsed
    <2>5. QED
      BY <1>5, <2>3, <2>4 DEF EvaluateUnprepared, Refused, Die, batchVars
  <1>6. ASSUME NEW k \in Ticker, Spawned(k) PROVE BatchInv'
    <2>1. UNCHANGED <<state, tries, plan, endorsed>> /\ Locked
      BY <1>6 DEF Spawned, batchVars, passVars, Locked
    <2>2. QED
      BY <1>q, <2>1 DEF BatchInv, Unendorsed
  <1>7. ASSUME NEW t \in Task, Write(t) \/ End(t) \/ TimeOut(t) \/ Restart(t) \/ RecordRestart(t)
        PROVE  BatchInv'
    <2>1. UNCHANGED <<state, tries, plan, endorsed, pc>>
      BY <1>7 DEF Write, End, TimeOut, Restart, RecordRestart, batchVars, passVars, tickVars
    <2>2. QED
      BY <1>q, <2>1 DEF BatchInv, Unendorsed, Locked
  <1>8. CASE Look \/ UNCHANGED vars
    <2>1. UNCHANGED <<state, tries, plan, endorsed, pc>>
      BY <1>8 DEF Look, vars, batchVars, passVars, tickVars
    <2>2. QED
      BY <1>q, <2>1 DEF BatchInv, Unendorsed, Locked
  <1>9. QED
    BY <1>1, <1>2, <1>c, <1>d, <1>3, <1>4, <1>5, <1>6, <1>7, <1>8 DEF Next, Tick

-----------------------------------------------------------------------------
\* Where the children are, without restarts.

\* A due batch has no recorded child, and a lost one is known to no phase.
LEMMA DueUnrecorded ==
  ASSUME BatchInv, Placed, NEW t \in Open, NextAction(task[t].batch) # "nothing"
  PROVE  ~Recorded(t) /\ t \notin Known
  <1>1. t \in Task /\ task[t].phase \in Phase /\ task[t].batch \in Batch /\ t # None
    BY CuratorAssumption DEF BatchInv, TypeOK, TaskRow, Open, Placed, OpenPlaced, None
  <1>2. \A ph \in Phase : state[task[t].batch][ph] # "running"
    BY <1>1, DueParts DEF BatchInv, Running
  <1>3. ASSUME NEW b \in Batch, NEW ph \in Phase, tid[b][ph] = t
        PROVE  FALSE
    BY <1>1, <1>2, <1>3 DEF Placed, OwnChildren, Owns
  <1>4. QED
    BY <1>1, <1>2, <1>3 DEF Recorded, Known

\* While a tick launches, every other child at work is recorded.
LEMMA OthersRecorded ==
  ASSUME BatchInv, Placed, NEW k \in Ticker, pc[k] \in {"launch", "mark"}, NEW t \in Open
  PROVE  Recorded(t) \/ (t = born[k] /\ pc[k] = "mark")
  <1>1. ~Lost(t)
    BY DEF Lost
  <1>2. t # None
    BY CuratorAssumption DEF Open, None
  <1>3. Unrecorded(t) => t = born[k] /\ pc[k] = "mark"
    BY <1>2, AtWork DEF Unrecorded, BatchInv, TypeOK
  <1>4. QED
    BY <1>1, <1>3 DEF Placed, OpenPlaced

\* A recorded child stays so while its phase and its row do.
LEMMA RecordedStays ==
  ASSUME NEW t, Recorded(t), task'[t].batch = task[t].batch, task'[t].phase = task[t].phase,
         state'[task[t].batch][task[t].phase] = "running",
         tid'[task[t].batch][task[t].phase] = tid[task[t].batch][task[t].phase]
  PROVE  Recorded(t)'
  BY DEF Recorded

\* Steps of children keep them in their places: an open child is one that was
\* open, with the same work, and rows that are read are kept.
LEMMA ChildKeeps ==
  ASSUME BatchInv, Placed, limit = 0, NEW t \in Task,
         Write(t) \/ End(t) \/ TimeOut(t) \/ Restart(t) \/ RecordRestart(t)
  PROVE  Placed'
  <1>0. task \in [Task -> TaskRow] /\ limit = 0
    BY DEF BatchInv, TypeOK
  <1>1. CASE Write(t)
    <2>1. UNCHANGED <<limit, endorsed, state, tries, tid, task, pc, plan, born>>
      BY <1>1 DEF Write, passVars, batchVars, tickVars
    <2>2. \A b \in Batch : NextAction(b)' = NextAction(b)
      BY <2>1, NextActionKept
    <2>3. Open' = Open /\ \A k \in Ticker : Job(k)' = Job(k)
      BY <2>1 DEF Open, Job
    <2>4. QED
      BY <2>1, <2>2, <2>3
      DEF Placed, NoRestarts, OwnChildren, OpenPlaced, Owns, Recorded, Unrecorded, Lost
  <1>2. CASE End(t) \/ TimeOut(t)
    <2>1. PICK rows \in [Task -> TaskRow] :
            /\ task' = Forget(rows, Referred)
            /\ \A u \in Task :
                 /\ rows[u].batch = task[u].batch /\ rows[u].phase = task[u].phase
                 /\ rows[u].fresh = task[u].fresh /\ ~rows[u].due /\ ~rows[u].cont
                 /\ rows[u].heir = None
                 /\ rows[u].row = "none" => task[u].row = "none"
                 /\ rows[u].row = "open" => task[u].row = "open"
      <3>0. \A u \in Task : ~task[u].due /\ ~task[u].cont /\ task[u].heir = None
        BY DEF Placed, NoRestarts
      <3>1. CASE End(t)
        <4>1. PICK x \in {"zero", "fails"} :
                task' = Forget([task EXCEPT ![t].row = x], Referred)
          BY <3>1 DEF End
        <4>2. [task EXCEPT ![t].row = x] \in [Task -> TaskRow]
          BY <1>0, <4>1, RowsChanged DEF RowState
        <4>3. \A u \in Task :
                 /\ [task EXCEPT ![t].row = x][u].row = IF u = t THEN x ELSE task[u].row
                 /\ [task EXCEPT ![t].row = x][u].batch = task[u].batch
                 /\ [task EXCEPT ![t].row = x][u].phase = task[u].phase
                 /\ [task EXCEPT ![t].row = x][u].fresh = task[u].fresh
                 /\ [task EXCEPT ![t].row = x][u].due = task[u].due
                 /\ [task EXCEPT ![t].row = x][u].cont = task[u].cont
                 /\ [task EXCEPT ![t].row = x][u].heir = task[u].heir
          BY <1>0 DEF TaskRow
        <4>4. x # "none" /\ x # "open"
          BY <4>1
        <4>5. QED
          BY <3>0, <4>1, <4>2, <4>3, <4>4
      <3>2. CASE TimeOut(t)
        <4> DEFINE y == limit > 0 /\ ~task[t].cont
                   f == [task EXCEPT ![t].row = "timeout", ![t].due = y]
        <4>1. task' = Forget(f, Referred)
          BY <3>2 DEF TimeOut
        <4>2. ~y /\ y \in BOOLEAN
          BY <1>0
        <4> HIDE DEF y
        <4>3. f \in [Task -> TaskRow]
          BY <1>0, <4>2, RowsChanged DEF RowState
        <4>4. \A u \in Task :
                 /\ f[u].row = IF u = t THEN "timeout" ELSE task[u].row
                 /\ f[u].batch = task[u].batch /\ f[u].phase = task[u].phase
                 /\ f[u].fresh = task[u].fresh
                 /\ f[u].due = IF u = t THEN y ELSE task[u].due
                 /\ f[u].cont = task[u].cont /\ f[u].heir = task[u].heir
          BY <1>0 DEF TaskRow
        <4> HIDE DEF f
        <4>5. \A u \in Task :
                /\ f[u].batch = task[u].batch /\ f[u].phase = task[u].phase
                /\ f[u].fresh = task[u].fresh /\ ~f[u].due /\ ~f[u].cont
                /\ f[u].heir = None
                /\ f[u].row = "none" => task[u].row = "none"
                /\ f[u].row = "open" => task[u].row = "open"
          BY <3>0, <4>2, <4>4
        <4>6. QED
          BY <4>1, <4>3, <4>5
      <3>3. QED
        BY <1>2, <3>1, <3>2
    <2>2. UNCHANGED <<limit, endorsed, state, tries, tid, pc, plan, born>>
      BY <1>2 DEF End, TimeOut, passVars, batchVars, tickVars
    <2>3. \A b \in Batch : NextAction(b)' = NextAction(b)
      BY <2>2, NextActionKept
    <2>4. \A k \in Ticker : Job(k)' = Job(k)
      BY <2>2 DEF Job
    <2>5. \A u \in Task : /\ task'[u] \in {rows[u], NoTask}
                          /\ u \in Referred => task'[u] = rows[u]
      BY <2>1, ForgetParts
    <2>6. NoRestarts'
      BY <2>1, <2>5 DEF NoRestarts, NoTask
    <2>7. OwnChildren'
      <3>1. \A b \in Batch, ph \in Phase : tid[b][ph] \in (Task \cup {None}) \cap Referred
        BY DEF BatchInv, TypeOK, Referred, Known
      <3>2. \A k \in Ticker : born[k] \in (Task \cup {None}) \cap Referred
        BY DEF BatchInv, TypeOK, Referred
      <3>3. \A u \in Task \cap Referred, b \in Batch, ph \in Phase : Owns(u, b, ph) => Owns(u, b, ph)'
        BY <2>1, <2>5 DEF Owns
      <3>4. \A k \in Ticker : born[k] # None => Job(k).batch \in Batch /\ PhaseOf(Job(k).action) \in Phase
        BY AtWork, JobPlanned DEF BatchInv, TypeOK
      <3>5. QED
        BY <2>2, <2>4, <3>1, <3>2, <3>3, <3>4 DEF Placed, OwnChildren
    <2>8. ASSUME NEW u \in Open'
          PROVE  /\ u \in Open /\ task'[u].batch = task[u].batch
                 /\ task'[u].phase = task[u].phase /\ task'[u].fresh = task[u].fresh
      BY <2>1, <2>5, <2>8 DEF Open, NoTask
    <2>9. OpenPlaced'
      <3>1. \A u \in Open' : u \in Open /\ (Recorded(u) => Recorded(u)')
        BY <2>2, <2>8, RecordedStays DEF Recorded
      <3>2. \A u \in Open' : Unrecorded(u) => Unrecorded(u)'
        BY <2>2 DEF Unrecorded
      <3>3. \A u \in Open' : task[u].batch \in Batch
        BY <2>8 DEF Placed, OpenPlaced
      <3>4. \A u \in Open' : Lost(u) => Lost(u)'
        BY <2>2, <2>3, <2>8, <3>1, <3>3 DEF Lost
      <3>5. QED
        BY <2>2, <2>8, <3>1, <3>2, <3>4 DEF Placed, OpenPlaced
    <2>10. QED
      BY <2>6, <2>7, <2>9 DEF Placed
  <1>3. CASE Restart(t) \/ RecordRestart(t)
    BY <1>3 DEF Restart, RecordRestart, Placed, NoRestarts
  <1>4. QED
    BY <1>1, <1>2, <1>3

\* A recorded child at work keeps its pass from being endorsed, and the next
\* tick follows it.
LEMMA RecordedFollowed ==
  ASSUME BatchInv, Placed, NEW t \in Open, Recorded(t)
  PROVE  /\ ~Reviewed(task[t].batch)
         /\ Refreshed(task[t].batch, task[t].phase) = "running"
         /\ Followed(task[t].batch, task[t].phase) = t
  <1>1. PICK b \in Batch, ph \in Phase : b = task[t].batch /\ ph = task[t].phase
    BY DEF BatchInv, TypeOK, TaskRow, Open, Placed, OpenPlaced
  <1>2. /\ t \in Task /\ t # None /\ task[t].row = "open"
        /\ state[b][ph] = "running" /\ tid[b][ph] = t
    BY <1>1, CuratorAssumption DEF Open, Recorded, None
  <1>3. Outcome(b, ph) = "running" /\ Followed(b, ph) = t
    BY <1>2 DEF Outcome, Followed
  <1>4. /\ ph # "evaluate" => state[b]["evaluate"] # "running"
        /\ ph = "research" => state[b]["evaluate"] # "complete"
        /\ "evaluate" \in Phase
    BY <1>2 DEF BatchInv, OnePhase, Running, Phase
  <1>5. Refreshed(b, ph) = "running"
    BY <1>2, <1>3, <1>4 DEF Refreshed, Settled
  <1>6. ~Reviewed(b)
    <2>1. CASE ph \in {"evaluate", "verify"}
      BY <1>5, <2>1 DEF Reviewed
    <2>2. CASE ph = "research"
      <3>1. Refreshed(b, "evaluate") = state[b]["evaluate"]
        BY <1>4, <2>2 DEF Refreshed, Settled
      <3>2. QED
        BY <1>4, <2>2, <3>1 DEF Reviewed
    <2>3. QED
      BY <2>1, <2>2 DEF Phase
  <1>7. QED
    BY <1>1, <1>3, <1>5, <1>6

\* A tick that reconciles the pass keeps every child in its place.
LEMMA AdvanceKeeps ==
  ASSUME BatchInv, Placed, NEW k \in Ticker, Advance(k)
  PROVE  Placed'
  <1>0. /\ task \in [Task -> TaskRow] /\ ~Locked
        /\ tid \in [Batch -> [Phase -> Task \cup {None}]]
        /\ \A i \in Ticker : pc[i] = "idle" /\ born[i] = None
        /\ pc \in [Ticker -> {"idle", "check", "endorse", "plan", "launch", "mark"}]
    BY DEF BatchInv, TypeOK, Advance, Locked
  <1>1. /\ task' = Forget(task, {Followed(b, ph) : b \in Batch, ph \in Phase})
        /\ tid' = [b \in Batch |-> [ph \in Phase |-> Followed(b, ph)]]
        /\ UNCHANGED <<limit, endorsed, tries, plan, born>>
        /\ \A i \in Ticker : pc'[i] \in {"idle", "check", "plan"}
    BY <1>0 DEF Advance, Reconcile, passVars
  <1>2. state' = [b \in Batch |-> [ph \in Phase |-> Refreshed(b, ph)]]
    BY DEF Advance, Reconcile
  <1>3. \A t \in Task : task'[t] \in {task[t], NoTask}
    BY <1>1, ForgetParts
  <1>4. \A t \in Open' : t \in Open /\ task'[t] = task[t]
    BY <1>3 DEF Open, NoTask
  <1>5. \A t \in Open : Recorded(t) \/ Lost(t)
    <2>1. \A t \in Open : ~Unrecorded(t)
      BY <1>0, CuratorAssumption DEF Unrecorded, Open, None
    <2>2. QED
      BY <2>1 DEF Placed, OpenPlaced
  <1>6. \A t \in Open : ~Reviewed(task[t].batch) /\ task[t].batch \in Batch /\ task[t].phase \in Phase
    <2>1. ASSUME NEW t \in Open PROVE task[t].batch \in Batch /\ task[t].phase \in Phase
      BY <1>0 DEF Placed, OpenPlaced, Open, TaskRow
    <2>2. ASSUME NEW t \in Open, Lost(t) PROVE ~Reviewed(task[t].batch)
      BY <2>1, <2>2, DueUnreviewed DEF Lost, BatchInv
    <2>3. ASSUME NEW t \in Open, Recorded(t) PROVE ~Reviewed(task[t].batch)
      BY <2>3, RecordedFollowed
    <2>4. QED
      BY <1>5, <2>1, <2>2, <2>3
  <1>7. ASSUME NEW t \in Open', Recorded(t) PROVE Recorded(t)'
    <2>1. PICK b \in Batch, ph \in Phase : b = task[t].batch /\ ph = task[t].phase
      BY <1>4, <1>6
    <2>2. t \in Open /\ task'[t] = task[t]
      BY <1>4
    <2>3. Refreshed(b, ph) = "running" /\ Followed(b, ph) = t
      BY <1>7, <2>1, <2>2, RecordedFollowed
    <2>4. state'[b][ph] = "running" /\ tid'[b][ph] = t
      BY <1>1, <1>2, <2>2, <2>3
    <2>5. QED
      BY <2>1, <2>2, <2>4 DEF Recorded
  <1>8. ASSUME NEW t \in Open', Lost(t) PROVE Lost(t)'
    <2>1. PICK b \in Batch : b = task[t].batch /\ t \in Open /\ task'[t] = task[t] /\ ~Reviewed(b)
      BY <1>4, <1>6
    <2>2. NextAction(b) # "nothing"
      BY <1>8, <2>1 DEF Lost
    <2>3. state'[b] = state[b]
      <3>1. \A ph \in Phase : Refreshed(b, ph) = state[b][ph]
        BY <2>2, DueUnreviewed DEF BatchInv
      <3>2. state \in [Batch -> [Phase -> States]] /\ state'[b] = [ph \in Phase |-> Refreshed(b, ph)]
        BY <1>2, <2>2 DEF BatchInv, TypeOK, States
      <3>3. QED
        BY <3>1, <3>2
    <2>4. NextAction(b)' = NextAction(b)
      BY <1>1, <2>3, NextActionKept
    <2>5. QED
      BY <1>1, <1>4, <1>7, <1>8, <2>1, <2>2, <2>4 DEF Lost
  <1>9. OpenPlaced'
    <2>1. \A t \in Open' : task'[t].fresh /\ task'[t].batch \in Batch /\ ~endorsed'
      <3>1. \A t \in Open : task[t].fresh /\ ~endorsed
        BY DEF Placed, OpenPlaced
      <3>2. QED
        BY <1>1, <1>4, <1>6, <3>1
    <2>2. QED
      BY <1>4, <1>5, <1>7, <1>8, <2>1 DEF OpenPlaced
  <1>10. NoRestarts'
    BY <1>3 DEF Placed, NoRestarts, NoTask
  <1>11. OwnChildren'
    <2>1. ASSUME NEW b \in Batch, NEW ph \in Phase, tid'[b][ph] # None
          PROVE  (state[b][ph] = "running" /\ Owns(tid[b][ph], b, ph))'
      <3>1. Followed(b, ph) # None /\ tid'[b][ph] = Followed(b, ph)
        BY <1>1, <2>1
      <3>2. state[b][ph] = "running" /\ Outcome(b, ph) = "running" /\ tid[b][ph] \in Task
        BY <3>1, FollowedParts DEF BatchInv
      <3>3. PICK t \in Task : t = tid[b][ph]
        BY <3>2
      <3>4. Heir(t) = None /\ t # None
        BY CuratorAssumption DEF Heir, Placed, NoRestarts, None
      <3>5. task[t].row = "open" /\ Followed(b, ph) = t
        BY <3>1, <3>2, <3>3, <3>4 DEF Outcome, Followed
      <3>6. Owns(t, b, ph)
        BY <3>3, <3>4 DEF Placed, OwnChildren
      <3>7. t \in Open /\ Recorded(t)
        BY <3>2, <3>3, <3>5, <3>6 DEF Open, Recorded, Owns
      <3>8. task'[t] = task[t]
        BY <1>1, <3>5, ForgetParts
      <3>9. t \in Open'
        BY <3>5, <3>8 DEF Open
      <3>10. Recorded(t)'
        BY <1>7, <3>7, <3>9
      <3>11. tid'[b][ph] = t /\ state'[b][ph] = "running"
        BY <3>1, <3>5, <3>6, <3>8, <3>10 DEF Owns, Recorded
      <3>12. QED
        BY <3>6, <3>8, <3>11 DEF Owns
    <2>2. \A i \in Ticker : born'[i] = None
      BY <1>0, <1>1
    <2>3. QED
      BY <2>1, <2>2 DEF OwnChildren
  <1>12. QED
    BY <1>9, <1>10, <1>11 DEF Placed

\* When all batches are reviewed nobody is at work on them.
LEMMA NoneOpen ==
  ASSUME BatchInv, Placed, Finished, Closing({"check", "endorse"})
  PROVE  Open = {}
  <1>0. \A k \in Ticker : pc[k] \notin {"launch", "mark"} /\ born[k] = None
    BY DEF Closing, BatchInv, TypeOK, Unendorsed, Locked
  <1>1. ASSUME NEW t \in Open PROVE FALSE
    <2>1. PICK b \in Batch, ph \in Phase : b = task[t].batch /\ ph = task[t].phase
      BY DEF BatchInv, TypeOK, TaskRow, Open, Placed, OpenPlaced
    <2>2. /\ Done(b)
          /\ state[b]["research"] = "running" => state[b]["evaluate"] # "complete"
          /\ tries[b]["verify"] \in Nat /\ Cap \in Nat
      BY CuratorAssumption DEF Finished, BatchInv, OnePhase, TypeOK, Phase
    <2>3. ~Recorded(t)
      BY <2>1, <2>2 DEF Recorded, Done, Phase
    <2>4. ~Unrecorded(t)
      BY <1>0, CuratorAssumption DEF Unrecorded, Open, None
    <2>5. ~Lost(t)
      BY <2>1, <2>2 DEF Lost, NextAction, VerifyDue, Done
    <2>6. QED
      BY <2>3, <2>4, <2>5 DEF Placed, OpenPlaced
  <1>2. QED
    BY <1>1

\* So the last look and the endorsement find nobody at work.
LEMMA ClosingKeeps ==
  ASSUME BatchInv, Placed, Finished, NEW k \in Ticker, Check(k) \/ Endorse(k)
  PROVE  Placed'
  <1>1. /\ Open = {} /\ \A b \in Batch : Done(b)
        /\ UNCHANGED <<limit, tid, task, plan, born>>
    BY NoneOpen DEF Check, Endorse, Closing, Finished, batchVars
  <1>2. OpenPlaced'
    BY <1>1 DEF Open, OpenPlaced
  <1>3. ASSUME NEW b \in Batch, NEW ph \in Phase, tid[b][ph] # None
        PROVE  state'[b][ph] = state[b][ph]
    <2>1. state[b][ph] = "running"
      BY <1>3 DEF Placed, OwnChildren
    <2>2. ph # "evaluate"
      BY <1>1, <2>1 DEF Done
    <2>3. QED
      BY <2>2 DEF Check, Endorse, batchVars
  <1>4. OwnChildren'
    BY <1>1, <1>3 DEF Placed, OwnChildren, Owns, Job
  <1>5. QED
    BY <1>1, <1>2, <1>4 DEF Placed, NoRestarts

\* An attempt that takes a launch away, with or without a child, leaves every
\* other child where it is: no child of the batch is recorded.
LEMMA OtherBatchesKept ==
  ASSUME BatchInv, Placed, NEW k \in Ticker, pc[k] \in {"launch", "mark"},
         NEW x, NEW y,
         state' = [state EXCEPT ![Job(k).batch][PhaseOf(Job(k).action)] = x],
         tid' = [tid EXCEPT ![Job(k).batch][PhaseOf(Job(k).action)] = y],
         task' = task
  PROVE  /\ Open' = Open
         /\ \A t \in Open : Recorded(t) => Recorded(t)'
         /\ \A b \in Batch, ph \in Phase :
              b # Job(k).batch \/ ph # PhaseOf(Job(k).action) =>
                (tid[b][ph] # None =>
                  (tid[b][ph] # None /\ state[b][ph] = "running" /\ Owns(tid[b][ph], b, ph))')
  <1>0. /\ state \in [Batch -> [Phase -> States]]
        /\ tid \in [Batch -> [Phase -> Task \cup {None}]] /\ task \in [Task -> TaskRow]
    BY DEF BatchInv, TypeOK, States
  <1>1. PICK c \in Batch, q \in Phase : c = Job(k).batch /\ q = PhaseOf(Job(k).action)
    BY AtWork, JobPlanned DEF BatchInv
  <1>2. NextAction(c) # "nothing"
    BY <1>1, AtWork, JobPlanned DEF BatchInv, PlanDue
  <1>3. Open' = Open
    BY DEF Open
  <1>4. ASSUME NEW t \in Open, Recorded(t) PROVE Recorded(t)'
    <2>1. PICK b \in Batch, ph \in Phase : b = task[t].batch /\ ph = task[t].phase
      BY <1>0 DEF Placed, OpenPlaced, Open, TaskRow
    <2>2. b # c
      BY <1>2, <1>4, <2>1, DueUnrecorded
    <2>3. state'[b][ph] = state[b][ph] /\ tid'[b][ph] = tid[b][ph]
      BY <1>0, <1>1, <2>2
    <2>4. QED
      BY <1>4, <2>1, <2>3 DEF Recorded
  <1>5. ASSUME NEW b \in Batch, NEW ph \in Phase, tid[b][ph] # None,
               b # Job(k).batch \/ ph # PhaseOf(Job(k).action)
        PROVE  (tid[b][ph] # None /\ state[b][ph] = "running" /\ Owns(tid[b][ph], b, ph))'
    <2>1. state[b][ph] = "running" /\ Owns(tid[b][ph], b, ph)
      BY <1>5 DEF Placed, OwnChildren
    <2>2. state'[b][ph] = state[b][ph] /\ tid'[b][ph] = tid[b][ph]
      BY <1>0, <1>1, <1>5
    <2>3. QED
      BY <1>5, <2>1, <2>2 DEF Owns
  <1>6. QED
    BY <1>3, <1>4, <1>5

\* Launches keep every child in its place.
LEMMA TickKeeps ==
  ASSUME BatchInv, BatchInv', Placed, Finished, NEW k \in Ticker, Tick(k) \/ Die(k)
  PROVE  Placed'
  <1>0. /\ task \in [Task -> TaskRow] /\ born \in [Ticker -> Task \cup {None}]
        /\ tid \in [Batch -> [Phase -> Task \cup {None}]] /\ state \in [Batch -> [Phase -> States]]
        /\ pc \in [Ticker -> {"idle", "check", "endorse", "plan", "launch", "mark"}]
        /\ plan \in [Ticker -> SUBSET LaunchJob]
        /\ \A i \in Ticker : born[i] = None <=> pc[i] # "mark"
        /\ \A t \in Task : t # None
    BY CuratorAssumption DEF BatchInv, TypeOK, States, None
  <1>1. CASE Plan(k)
    <2>1. UNCHANGED <<limit, endorsed, state, tries, tid, task, born>> /\ pc[k] = "plan"
      BY <1>1 DEF Plan, batchVars
    <2>2. /\ \A i \in Ticker : pc[i] # "mark" /\ born[i] = None
          /\ \A i \in Ticker : i # k => pc'[i] = "idle"
          /\ pc'[k] = IF plan'[k] = {} THEN "idle" ELSE "launch"
      BY <1>0, <1>1, <2>1 DEF Plan, BatchInv, TypeOK
    <2>3. Open' = Open /\ \A b \in Batch : NextAction(b)' = NextAction(b)
      BY <2>1, NextActionKept DEF Open
    <2>4. ASSUME NEW t \in Open, Lost(t) PROVE Lost(t)'
      <3>1. t \in Foreign
        BY <2>4, DueUnrecorded DEF Lost, Foreign, Recognized, Placed, NoRestarts, Open
      <3>2. plan'[k] = {}
        BY <1>0, <1>1, <3>1 DEF Plan
      <3>3. QED
        BY <2>1, <2>2, <2>3, <2>4, <3>2 DEF Lost, Recorded, Placed, OpenPlaced
    <2>5. QED
      BY <2>1, <2>2, <2>3, <2>4
      DEF Placed, NoRestarts, OwnChildren, OpenPlaced, Owns, Recorded, Unrecorded
  <1>2. CASE VerifyUnprepared(k) \/ (Refused(k) /\ Attempted(Job(k).batch, PhaseOf(Job(k).action)))
    <2>1. /\ pc[k] = "launch" /\ UNCHANGED <<limit, endorsed, task, born>>
          /\ state' = [state EXCEPT ![Job(k).batch][PhaseOf(Job(k).action)] = "failed"]
          /\ tid' = [tid EXCEPT ![Job(k).batch][PhaseOf(Job(k).action)] = None]
      BY <1>2 DEF VerifyUnprepared, Refused, Attempted, PhaseOf, passVars
    <2>2. /\ \A i \in Ticker : born[i] = None
          /\ Job(k).batch \in Batch /\ PhaseOf(Job(k).action) \in Phase
      BY <1>0, <2>1, AtWork, JobPlanned DEF BatchInv
    <2>3. \A t \in Open : Recorded(t)
      BY <2>1, OthersRecorded
    <2>4. tid'[Job(k).batch][PhaseOf(Job(k).action)] = None
      BY <1>0, <2>1, <2>2
    <2>5. OwnChildren'
      <3>1. ASSUME NEW b \in Batch, NEW ph \in Phase,
                   b # Job(k).batch \/ ph # PhaseOf(Job(k).action)
            PROVE  tid'[b][ph] = tid[b][ph]
        BY <1>0, <2>1, <2>2, <3>1
      <3>2. \A b \in Batch, ph \in Phase : tid'[b][ph] # None =>
              /\ b # Job(k).batch \/ ph # PhaseOf(Job(k).action)
              /\ tid[b][ph] # None
        BY <2>4, <3>1
      <3>3. \A b \in Batch, ph \in Phase :
              (b # Job(k).batch \/ ph # PhaseOf(Job(k).action)) /\ tid[b][ph] # None =>
                (state[b][ph] = "running" /\ Owns(tid[b][ph], b, ph))'
        BY <2>1, OtherBatchesKept
      <3>4. QED
        BY <2>1, <2>2, <3>2, <3>3 DEF OwnChildren
    <2>6. OpenPlaced'
      BY <2>1, <2>3, OtherBatchesKept DEF Placed, OpenPlaced
    <2>7. QED
      BY <2>1, <2>5, <2>6 DEF Placed, NoRestarts
  <1>3. CASE \/ EvaluateUnprepared(k) \/ Die(k)
             \/ Refused(k) /\ UNCHANGED <<state, tid, tries, started, faults>>
    <2>1. /\ UNCHANGED <<limit, endorsed, state, tries, tid, task>>
          /\ pc[k] # "idle" /\ pc' = [pc EXCEPT ![k] = "idle"]
          /\ \/ pc[k] = "launch" /\ born' = born
             \/ born' = [born EXCEPT ![k] = None]
      BY <1>3 DEF EvaluateUnprepared, Die, Refused, Stop, passVars, batchVars
    <2>2. /\ \A i \in Ticker : pc'[i] = "idle" /\ born'[i] = None
          /\ \A i \in Ticker : i # k => born[i] = None /\ pc[i] = "idle"
      BY <1>0, <2>1 DEF BatchInv, TypeOK
    <2>3. Open' = Open /\ \A b \in Batch : NextAction(b)' = NextAction(b)
      BY <2>1, NextActionKept DEF Open
    <2>4. \A t \in Open : Recorded(t) => Recorded(t)'
      BY <2>1 DEF Recorded
    <2>5. ASSUME NEW t \in Open, Lost(t) PROVE Lost(t)'
      BY <2>1, <2>2, <2>3, <2>4, <2>5 DEF Lost, Placed, OpenPlaced
    <2>6. ASSUME NEW t \in Open, Unrecorded(t) PROVE Lost(t)'
      <3>1. born[k] = t /\ pc[k] = "mark"
        BY <1>0, <2>2, <2>6 DEF Unrecorded, Open
      <3>2. NextAction(task[t].batch) # "nothing" /\ task[t].batch \in Batch
        <4>1. Job(k) \in plan[k] /\ Job(k).batch \in Batch /\ Job(k).action # "nothing"
          BY <3>1, AtWork, JobPlanned DEF BatchInv
        <4>2. task[t].batch = Job(k).batch
          BY <1>0, <3>1 DEF Placed, OwnChildren, Owns
        <4>3. QED
          BY <4>1, <4>2 DEF BatchInv, PlanDue
      <3>3. \A u \in Open : u = t \/ Recorded(u)
        BY <3>1, OthersRecorded
      <3>4. QED
        BY <2>1, <2>2, <2>3, <2>4, <3>2, <3>3 DEF Lost
    <2>7. OpenPlaced'
      BY <2>1, <2>3, <2>4, <2>5, <2>6 DEF Placed, OpenPlaced
    <2>8. OwnChildren'
      BY <2>1, <2>2 DEF Placed, OwnChildren, Owns
    <2>9. QED
      BY <2>1, <2>7, <2>8 DEF Placed, NoRestarts
  <1>4. CASE Spawned(k)
    <2>1. PICK t \in Free :
            /\ task' = [task EXCEPT ![t] = [NoTask EXCEPT
                          !.row = "open", !.batch = Job(k).batch,
                          !.phase = PhaseOf(Job(k).action), !.fresh = TRUE]]
            /\ born' = [born EXCEPT ![k] = t]
      BY <1>4, LeastFree DEF Spawned
    <2>2. /\ UNCHANGED <<limit, endorsed, state, tries, tid, plan>> /\ pc[k] = "launch"
          /\ pc' = [pc EXCEPT ![k] = "mark"]
      BY <1>4 DEF Spawned, passVars, batchVars
    <2>3. t \in Task /\ task[t].row = "none" /\ Job(k).batch \in Batch /\ ~endorsed
      BY <2>1, <2>2, AtWork, JobPlanned DEF Free, BatchInv, Unendorsed, Locked
    <2>4. /\ \A u \in Task : u # t => task'[u] = task[u]
          /\ task'[t] = [row |-> "open", batch |-> Job(k).batch,
                         phase |-> PhaseOf(Job(k).action), cont |-> FALSE,
                         fresh |-> TRUE, due |-> FALSE, heir |-> None]
      BY <1>0, <2>1, <2>3 DEF NoTask
    <2>5. /\ \A u \in Open' : u = t \/ u \in Open
          /\ t \notin Open
      BY <2>3, <2>4 DEF Open
    <2>6. \A i \in Ticker : /\ Job(i)' = Job(i)
                            /\ i # k => born[i] = None /\ born'[i] = None
                            /\ born'[k] = t
      BY <1>0, <2>1, <2>2, <2>3, AtWork DEF Job, BatchInv
    <2>7. NoRestarts'
      BY <2>4 DEF Placed, NoRestarts
    <2>8. OwnChildren'
      <3>1. \A b \in Batch, ph \in Phase : tid[b][ph] # None =>
              /\ state[b][ph] = "running" /\ Owns(tid[b][ph], b, ph)
              /\ tid[b][ph] \in Task /\ tid[b][ph] # t
        BY <1>0, <2>3 DEF Placed, OwnChildren, Owns
      <3>2. \A b \in Batch, ph \in Phase : tid[b][ph] # None =>
              (state[b][ph] = "running" /\ Owns(tid[b][ph], b, ph))'
        BY <2>2, <2>4, <3>1 DEF Owns
      <3>3. Owns(t, Job(k).batch, PhaseOf(Job(k).action))'
        BY <2>4, <2>6 DEF Owns
      <3>4. QED
        BY <2>2, <2>6, <3>2, <3>3 DEF OwnChildren
    <2>9. ASSUME NEW u \in Open' PROVE Recorded(u)' \/ Unrecorded(u)'
      <3>1. CASE u = t
        BY <2>6, <3>1 DEF Unrecorded
      <3>2. CASE u # t
        <4>1. u \in Open /\ Recorded(u) /\ task'[u] = task[u]
          BY <2>2, <2>4, <2>5, <3>2, OthersRecorded DEF Open
        <4>2. QED
          BY <2>2, <4>1 DEF Recorded
      <3>3. QED
        BY <3>1, <3>2
    <2>10. OpenPlaced'
      <3>1. ASSUME NEW u \in Open' PROVE task'[u].fresh /\ task'[u].batch \in Batch
        BY <2>3, <2>4, <2>5 DEF Placed, OpenPlaced, Open
      <3>2. QED
        BY <2>2, <2>3, <2>9, <3>1 DEF OpenPlaced
    <2>11. QED
      BY <2>7, <2>8, <2>10 DEF Placed
  <1>5. CASE Mark(k)
    <2>1. /\ pc[k] = "mark" /\ UNCHANGED <<limit, endorsed, task>>
          /\ state' = [state EXCEPT ![Job(k).batch][PhaseOf(Job(k).action)] = "running"]
          /\ tid' = [tid EXCEPT ![Job(k).batch][PhaseOf(Job(k).action)] = born[k]]
          /\ born' = [born EXCEPT ![k] = None]
      BY <1>5 DEF Mark, passVars
    <2>2. PICK c \in Batch, q \in Phase : c = Job(k).batch /\ q = PhaseOf(Job(k).action)
      BY <2>1, AtWork, JobPlanned DEF BatchInv
    <2>3. /\ \A i \in Ticker : born'[i] = None
          /\ tid'[c][q] = born[k] /\ state'[c][q] = "running" /\ born[k] # None
          /\ Owns(born[k], c, q)
      BY <1>0, <2>1, <2>2, AtWork DEF BatchInv, Placed, OwnChildren
    <2>4. OwnChildren'
      <3>2. (state[c][q] = "running" /\ Owns(tid[c][q], c, q))'
        BY <2>1, <2>3 DEF Owns
      <3>3. \A b \in Batch, ph \in Phase : b # c \/ ph # q => tid'[b][ph] = tid[b][ph]
        BY <1>0, <2>1, <2>2
      <3>4. \A b \in Batch, ph \in Phase : (b # c \/ ph # q) /\ tid[b][ph] # None =>
              (state[b][ph] = "running" /\ Owns(tid[b][ph], b, ph))'
        BY <2>1, <2>2, OtherBatchesKept
      <3>5. QED
        BY <2>3, <3>2, <3>3, <3>4 DEF OwnChildren
    <2>5. ASSUME NEW u \in Open' PROVE u \in Open /\ Recorded(u)'
      <3>1. u \in Open
        BY <2>1 DEF Open
      <3>2. CASE u = born[k]
        <4>1. /\ task'[u].batch = c /\ task'[u].phase = q /\ tid'[c][q] = u
              /\ state'[c][q] = "running"
          BY <2>1, <2>3, <3>2 DEF Owns
        <4>2. QED
          BY <3>1, <4>1 DEF Recorded
      <3>3. CASE u # born[k]
        BY <2>1, <3>1, <3>3, OthersRecorded, OtherBatchesKept
      <3>4. QED
        BY <3>1, <3>2, <3>3
    <2>6. OpenPlaced'
      BY <2>1, <2>5 DEF Placed, OpenPlaced
    <2>7. QED
      BY <2>1, <2>4, <2>6 DEF Placed, NoRestarts
  <1>6. QED
    BY <1>1, <1>2, <1>3, <1>4, <1>5, ClosingKeeps DEF Tick, Refused

\* Without restarts every child stays in its place.
LEMMA PlacedStep ==
  ASSUME BatchInv, BatchInv', limit = 0, Placed, Finished, [Next]_vars
  PROVE  Placed'
  <1>1. ASSUME NEW k \in Ticker, Create(k) PROVE Placed'
    <2>1. \A t \in Task : task[t].row # "open"
      BY <1>1 DEF Create, Recognized, Open, Placed, NoRestarts
    <2>2. \A t \in Task : task'[t] = [task[t] EXCEPT !.fresh = FALSE] /\ task[t] \in TaskRow
      BY <1>1 DEF Create, BatchInv, TypeOK
    <2>3. \A t \in Task : /\ task'[t].row = task[t].row /\ task'[t].due = task[t].due
                          /\ task'[t].cont = task[t].cont /\ task'[t].heir = task[t].heir
      BY <2>2 DEF TaskRow
    <2>4. NoRestarts' /\ OpenPlaced'
      BY <2>1, <2>3 DEF Placed, NoRestarts, OpenPlaced, Open
    <2>5. \A b \in Batch, ph \in Phase : tid'[b][ph] = None
      BY <1>1 DEF Create, Blank
    <2>6. \A i \in Ticker : born'[i] = None
      BY <1>1 DEF Create, Locked, BatchInv, TypeOK
    <2>7. QED
      BY <2>4, <2>5, <2>6 DEF Placed, OwnChildren
  <1>2. CASE Look \/ UNCHANGED vars
    <2>1. UNCHANGED <<limit, endorsed, state, tries, tid, task, pc, plan, born>>
      BY <1>2 DEF Look, vars, passVars, batchVars, tickVars
    <2>2. \A b \in Batch : NextAction(b)' = NextAction(b)
      BY <2>1, NextActionKept
    <2>3. Open' = Open /\ \A k \in Ticker : Job(k)' = Job(k)
      BY <2>1 DEF Open, Job
    <2>4. QED
      BY <2>1, <2>2, <2>3
      DEF Placed, NoRestarts, OwnChildren, OpenPlaced, Owns, Recorded, Unrecorded, Lost
  <1>3. QED
    BY <1>1, <1>2, AdvanceKeeps, TickKeeps, ChildKeeps DEF Next

-----------------------------------------------------------------------------
\* The end of a pass.

\* A step that leaves the end of the pass alone: nobody looks at all reports for
\* the last time, and nobody endorses.
LEMMA NotClosing ==
  ASSUME TypeOK, Unendorsed, NEW k \in Ticker, pc[k] # "idle", endorsed' = endorsed,
         pc'[k] \notin {"check", "endorse"}, \A j \in Ticker : j # k => pc'[j] = pc[j]
  PROVE  ~Closing({"check", "endorse"})' /\ ~Closing({"endorse"})'
  BY DEF TypeOK, Unendorsed, Locked, Closing

\* The steps of a tick that are not about the end of the pass.
Inside(k) ==
  \/ Plan(k) \/ VerifyUnprepared(k) \/ EvaluateUnprepared(k) \/ Refused(k)
  \/ Spawned(k) \/ Mark(k) \/ Die(k)

LEMMA InsideNotClosing ==
  ASSUME TypeOK, Unendorsed, NEW k \in Ticker, Inside(k)
  PROVE  ~Closing({"check", "endorse"})' /\ ~Closing({"endorse"})'
  <1>1. pc \in [Ticker -> {"idle", "check", "endorse", "plan", "launch", "mark"}]
    BY DEF TypeOK
  <1>2. PICK w \in {"idle", "launch", "mark"} : pc' = [pc EXCEPT ![k] = w]
    BY DEF Inside, Plan, VerifyUnprepared, EvaluateUnprepared, Refused, Spawned, Mark, Die,
           Onward, Stop
  <1>3. pc[k] # "idle" /\ endorsed' = endorsed
    BY DEF Inside, Plan, VerifyUnprepared, EvaluateUnprepared, Refused, Spawned, Mark, Die,
           passVars
  <1>4. QED
    BY <1>1, <1>2, <1>3, NotClosing

\* Neither does a new pass or a reconciliation.
LEMMA StartNotClosing ==
  ASSUME TypeOK, NEW k \in Ticker, Create(k) \/ Advance(k)
  PROVE  /\ ~Closing({"endorse"})'
         /\ Closing({"check", "endorse"})' => Advance(k) /\ \A b \in Batch : Reviewed(b)
  <1>1. pc \in [Ticker -> {"idle", "check", "endorse", "plan", "launch", "mark"}]
    BY DEF TypeOK
  <1>2. \A j \in Ticker : pc[j] = "idle"
    BY DEF Create, Advance, Locked
  <1>3. ~endorsed'
    BY DEF Create, Advance, Active, passVars, TypeOK
  <1>4. \/ pc' = [pc EXCEPT ![k] = "plan"]
        \/ pc' = [pc EXCEPT ![k] = "check"] /\ Advance(k) /\ \A b \in Batch : Reviewed(b)
    <2>1. CASE Create(k)
      BY <2>1 DEF Create
    <2>2. CASE Advance(k)
      <3>1. pc' = [pc EXCEPT ![k] = IF \A b \in Batch : Reviewed(b) THEN "check" ELSE "plan"]
        BY <2>2 DEF Advance
      <3>2. QED
        BY <2>2, <3>1
    <2>3. QED
      BY <2>1, <2>2
  <1>5. QED
    BY <1>1, <1>2, <1>3, <1>4 DEF Closing

\* Steps of children, and of a look at the pass, move no tick.
LEMMA OutsideKeeps ==
  ASSUME [Next]_vars, \A k \in Ticker : ~Create(k) /\ ~Advance(k) /\ ~Tick(k) /\ ~Die(k)
  PROVE  /\ UNCHANGED <<endorsed, state, tries, pc, plan, started, lost>>
         /\ file' = file \/ \E t \in Task : Write(t)
  BY DEF Next, Write, End, TimeOut, Restart, RecordRestart, Look, vars, passVars, batchVars,
         tickVars, history

\* Reviewed batches stay so.
LEMMA FinishedStep ==
  ASSUME BatchInv, Finished, [Next]_vars
  PROVE  Finished'
  <1>0. TypeOK /\ Unendorsed
    BY DEF BatchInv
  <1>k. ASSUME UNCHANGED <<state, tries>>, NEW b \in Batch, Done(b) PROVE Done(b)'
    BY <1>k DEF Done
  <1>1. ASSUME NEW k \in Ticker, Create(k) \/ Advance(k) PROVE Finished'
    <2> SUFFICES ASSUME Closing({"check", "endorse"})', NEW b \in Batch PROVE Done(b)'
      BY DEF Finished
    <2>1. Advance(k) /\ Reviewed(b)
      BY <1>0, <1>1, StartNotClosing
    <2>2. /\ state'[b]["evaluate"] = Refreshed(b, "evaluate")
          /\ state'[b]["verify"] = Refreshed(b, "verify") /\ tries' = tries
      BY <2>1 DEF Advance, Reconcile, Phase
    <2>3. QED
      BY <2>1, <2>2 DEF Reviewed, Done
  <1>2. ASSUME NEW k \in Ticker, Check(k) PROVE Finished'
    <2>1. \A b \in Batch : Done(b)
      BY <1>2 DEF Check, Closing, Finished
    <2>2. CASE Unbound = {}
      <3>1. \A b \in Batch : state'[b]["evaluate"] = state[b]["evaluate"] /\ state'[b]["verify"] = state[b]["verify"]
        BY <1>2, <2>2 DEF Check, Phase
      <3>2. QED
        BY <1>2, <2>1, <3>1 DEF Check, Done, Finished
    <2>3. CASE Unbound # {}
      <3>1. /\ pc' = [pc EXCEPT ![k] = "plan"] /\ pc[k] = "check" /\ endorsed' = endorsed
        BY <1>2, <2>3 DEF Check, passVars
      <3>2. ~Closing({"check", "endorse"})'
        <4>1. pc \in [Ticker -> {"idle", "check", "endorse", "plan", "launch", "mark"}]
          BY <1>0 DEF TypeOK
        <4>2. QED
          BY <1>0, <3>1, <4>1, NotClosing
      <3>3. QED
        BY <3>2 DEF Finished
    <2>4. QED
      BY <2>2, <2>3
  <1>3. ASSUME NEW k \in Ticker, Endorse(k) PROVE Finished'
    BY <1>3, <1>k DEF Endorse, Closing, Finished, batchVars
  <1>4. ASSUME NEW k \in Ticker, Inside(k) PROVE Finished'
    BY <1>0, <1>4, InsideNotClosing DEF Finished
  <1>5. CASE \A k \in Ticker : ~Create(k) /\ ~Advance(k) /\ ~Tick(k) /\ ~Die(k)
    <2>1. UNCHANGED <<endorsed, state, tries, pc>>
      BY <1>5, OutsideKeeps
    <2>2. Closing({"check", "endorse"})' => Closing({"check", "endorse"})
      BY <2>1 DEF Closing
    <2>3. QED
      BY <1>k, <2>1, <2>2 DEF Finished
  <1>6. QED
    BY <1>1, <1>2, <1>3, <1>4, <1>5 DEF Tick, Inside

\* Without restarts, so do the reports that the last look has found final.
LEMMA FilesStep ==
  ASSUME BatchInv, Placed, Finished, FilesKept, [Next]_vars
  PROVE  FilesKept'
  <1>0. TypeOK /\ Unendorsed
    BY DEF BatchInv
  <1>1. ASSUME NEW k \in Ticker, Create(k) \/ Advance(k) PROVE FilesKept'
    BY <1>0, <1>1, StartNotClosing DEF FilesKept
  <1>2. ASSUME NEW k \in Ticker, Check(k) PROVE FilesKept'
    <2>1. file' = file /\ pc[k] = "check" /\ endorsed' = endorsed
      BY <1>2 DEF Check, passVars
    <2>2. CASE Unbound = {}
      BY <2>1, <2>2 DEF FilesKept, Final, Unbound
    <2>3. CASE Unbound # {}
      <3>1. pc' = [pc EXCEPT ![k] = "plan"] /\ pc \in [Ticker -> {"idle", "check", "endorse", "plan", "launch", "mark"}]
        BY <1>0, <1>2, <2>3 DEF Check, TypeOK
      <3>2. QED
        BY <1>0, <2>1, <3>1, NotClosing DEF FilesKept
    <2>4. QED
      BY <2>2, <2>3
  <1>3. ASSUME NEW k \in Ticker, Endorse(k) PROVE FilesKept'
    BY <1>3 DEF Endorse, Closing, FilesKept, Final
  <1>4. ASSUME NEW k \in Ticker, Inside(k) PROVE FilesKept'
    BY <1>0, <1>4, InsideNotClosing DEF FilesKept
  <1>5. CASE \A k \in Ticker : ~Create(k) /\ ~Advance(k) /\ ~Tick(k) /\ ~Die(k)
    <2>1. /\ UNCHANGED <<endorsed, pc>>
          /\ file' = file \/ \E t \in Task : Write(t)
      BY <1>5, OutsideKeeps
    <2>2. /\ Closing({"endorse"})' => Closing({"endorse"})
          /\ Closing({"endorse"}) => Closing({"check", "endorse"})
      BY <2>1 DEF Closing
    <2>3. Closing({"endorse"}) => file' = file
      BY <2>1, <2>2, NoneOpen DEF Write, Open
    <2>4. QED
      BY <2>2, <2>3 DEF FilesKept, Final
  <1>6. QED
    BY <1>1, <1>2, <1>3, <1>4, <1>5 DEF Tick, Inside

-----------------------------------------------------------------------------
\* What is started is counted.

LEMMA CountedStep ==
  ASSUME BatchInv, Counted, [Next]_vars
  PROVE  Counted'
  <1>0. /\ tries \in [Batch -> [Phase -> Nat]] /\ started \in [Batch -> [Phase -> Nat]]
        /\ lost \in [Batch -> [Phase -> Nat]]
        /\ pc \in [Ticker -> {"idle", "check", "endorse", "plan", "launch", "mark"}]
        /\ \A j, k \in Ticker : pc[j] # "idle" /\ pc[k] # "idle" => j = k
        /\ TypeOK
    BY DEF BatchInv, TypeOK
  <1>t. /\ tries' \in [Batch -> [Phase -> Nat]] /\ started' \in [Batch -> [Phase -> Nat]]
        /\ lost' \in [Batch -> [Phase -> Nat]]
    BY <1>0, TypeStep DEF TypeOK
  <1>u. ASSUME UNCHANGED <<started, tries, lost>>, \A j \in Ticker : pc[j] # "mark"
        PROVE  Counted'
    <2>1. \A b \in Batch, ph \in Phase : started[b][ph] <= tries[b][ph] + lost[b][ph]
      BY <1>0, <1>u DEF Counted, Marking
    <2>2. QED
      BY <1>0, <1>t, <1>u, <2>1 DEF Counted
  <1>1. ASSUME NEW k \in Ticker, Create(k) PROVE Counted'
    <2>1. \A b \in Batch, ph \in Phase : started'[b][ph] = 0
      BY <1>1 DEF Create, Blank
    <2>2. QED
      BY <1>t, <2>1 DEF Counted
  <1>2. ASSUME NEW k \in Ticker,
               \/ Advance(k) \/ Check(k) \/ Endorse(k) \/ Plan(k) \/ EvaluateUnprepared(k)
               \/ Refused(k) /\ UNCHANGED <<state, tid, tries, started, faults>>
        PROVE  Counted'
    <2>1. UNCHANGED <<started, tries, lost>>
      BY <1>2 DEF Advance, Check, Endorse, Plan, EvaluateUnprepared, Refused, batchVars, history
    <2>2. \A j \in Ticker : pc[j] # "mark"
      BY <1>0, <1>2 DEF Advance, Locked, Check, Endorse, Plan, EvaluateUnprepared, Refused
    <2>3. QED
      BY <1>u, <2>1, <2>2
  <1>3. ASSUME NEW k \in Ticker,
               \/ VerifyUnprepared(k)
               \/ Refused(k) /\ Attempted(Job(k).batch, PhaseOf(Job(k).action))
                             /\ Launch(Job(k).batch, PhaseOf(Job(k).action))
        PROVE  Counted'
    <2>1. pc[k] = "launch" /\ lost' = lost
      BY <1>3 DEF VerifyUnprepared, Refused
    <2>2. PICK c \in Batch, q \in Phase :
            /\ tries' = [tries EXCEPT ![c][q] = @ + 1]
            /\ started' = [started EXCEPT ![c][q] = @ + 1]
      <3>1. Job(k).batch \in Batch /\ PhaseOf(Job(k).action) \in Phase /\ "verify" \in Phase
        BY <1>0, <2>1, AtWork, JobPlanned DEF Phase
      <3>2. QED
        BY <1>3, <3>1 DEF VerifyUnprepared, Attempted, Launch
    <2>3. \A b \in Batch, ph \in Phase : started[b][ph] <= tries[b][ph] + lost[b][ph]
      <3>1. \A j \in Ticker : pc[j] # "mark"
        BY <1>0, <2>1
      <3>2. QED
        BY <1>0, <3>1 DEF Counted, Marking
    <2>4. \A b \in Batch, ph \in Phase : started'[b][ph] <= tries'[b][ph] + lost'[b][ph]
      BY <1>0, <2>1, <2>2, <2>3
    <2>5. QED
      BY <1>t, <2>4 DEF Counted
  <1>4. ASSUME NEW k \in Ticker, Spawned(k) PROVE Counted'
    <2>1. /\ pc[k] = "launch" /\ pc' = [pc EXCEPT ![k] = "mark"]
          /\ UNCHANGED <<tries, lost, plan>> /\ Launch(Job(k).batch, PhaseOf(Job(k).action))
      BY <1>4 DEF Spawned, batchVars
    <2>2. PICK c \in Batch, q \in Phase : c = Job(k).batch /\ q = PhaseOf(Job(k).action)
      BY <1>0, <2>1, AtWork, JobPlanned
    <2>3. \A b \in Batch, ph \in Phase : started[b][ph] <= tries[b][ph] + lost[b][ph]
      <3>1. \A j \in Ticker : pc[j] # "mark"
        BY <1>0, <2>1
      <3>2. QED
        BY <1>0, <3>1 DEF Counted, Marking
    <2>4. Marking(c, q)'
      <3>1. Job(k)' = Job(k)
        BY <2>1 DEF Job
      <3>2. QED
        BY <1>0, <2>1, <2>2, <3>1 DEF Marking
    <2>5. \A b \in Batch, ph \in Phase :
            started'[b][ph] = IF b = c /\ ph = q THEN started[b][ph] + 1 ELSE started[b][ph]
      <3>1. started' = [started EXCEPT ![c][q] = @ + 1]
        BY <2>1, <2>2 DEF Launch
      <3>2. QED
        BY <1>0, <3>1
    <2>6. ASSUME NEW b \in Batch, NEW ph \in Phase
          PROVE  started'[b][ph] <= tries'[b][ph] + lost'[b][ph]
                                      + IF Marking(b, ph)' THEN 1 ELSE 0
      <3>1. /\ started[b][ph] \in Nat /\ tries[b][ph] \in Nat /\ lost[b][ph] \in Nat
            /\ started[b][ph] <= tries[b][ph] + lost[b][ph]
            /\ tries' = tries /\ lost' = lost
        BY <1>0, <2>1, <2>3
      <3>2. CASE b = c /\ ph = q
        BY <2>4, <2>5, <3>1, <3>2
      <3>3. CASE ~(b = c /\ ph = q)
        BY <2>5, <3>1, <3>3
      <3>4. QED
        BY <3>2, <3>3
    <2>7. QED
      BY <2>6 DEF Counted
  <1>5. ASSUME NEW k \in Ticker, Mark(k) \/ Die(k) PROVE Counted'
    <2>1. CASE pc[k] = "mark"
      <3>1. PICK c \in Batch, q \in Phase : c = Job(k).batch /\ q = PhaseOf(Job(k).action)
        BY <1>0, <2>1, AtWork, JobPlanned
      <3>2. \A b \in Batch, ph \in Phase :
              started[b][ph] <= tries[b][ph] + lost[b][ph] + IF b = c /\ ph = q THEN 1 ELSE 0
        BY <1>0, <2>1, <3>1 DEF Counted, Marking
      <3>3. /\ started' = started
            /\ \/ tries' = [tries EXCEPT ![c][q] = @ + 1] /\ lost' = lost
               \/ lost' = [lost EXCEPT ![c][q] = @ + 1] /\ tries' = tries
        BY <1>5, <2>1, <3>1 DEF Mark, Die, batchVars, history
      <3>4. \A b \in Batch, ph \in Phase : started'[b][ph] <= tries'[b][ph] + lost'[b][ph]
        BY <1>0, <3>2, <3>3
      <3>5. QED
        BY <1>t, <3>4 DEF Counted
    <2>2. CASE pc[k] # "mark"
      <3>1. UNCHANGED <<started, tries, lost>> /\ \A j \in Ticker : pc[j] # "mark"
        BY <1>0, <1>5, <2>2 DEF Mark, Die, batchVars
      <3>2. QED
        BY <1>u, <3>1
    <2>3. QED
      BY <2>1, <2>2
  <1>6. CASE \A k \in Ticker : ~Create(k) /\ ~Advance(k) /\ ~Tick(k) /\ ~Die(k)
    <2>1. UNCHANGED <<tries, pc, plan, started, lost>>
      BY <1>6, OutsideKeeps
    <2>2. \A b \in Batch, ph \in Phase : Marking(b, ph)' <=> Marking(b, ph)
      BY <2>1 DEF Marking, Job
    <2>3. QED
      BY <2>1, <2>2 DEF Counted
  <1>7. QED
    BY <1>1, <1>2, <1>3, <1>4, <1>5, <1>6 DEF Tick, Refused

\* A launch that is due leaves room for one more attempt, so a child that a tick
\* is about to record fits as well.
LEMMA SpendFollows ==
  ASSUME BatchInv, Counted
  PROVE  SpendBounded
  <1> SUFFICES ASSUME NEW b \in Batch
               PROVE  /\ started[b]["research"] <= Cap + lost[b]["research"]
                      /\ started[b]["evaluate"] <= Cap + lost[b]["evaluate"]
                      /\ started[b]["verify"] < 2 * Cap + lost[b]["verify"]
    BY DEF SpendBounded
  <1>0. /\ "research" \in Phase /\ "evaluate" \in Phase /\ "verify" \in Phase
        /\ Cap \in Nat \ {0}
        /\ \A ph \in Phase : tries[b][ph] \in Nat /\ started[b][ph] \in Nat /\ lost[b][ph] \in Nat
        /\ state[b]["evaluate"] \in {"pending", "running", "failed", "complete"}
    BY CuratorAssumption DEF BatchInv, TypeOK, OnePhase, Phase
  <1>1. ASSUME NEW ph \in Phase, Marking(b, ph)
        PROVE  /\ NextAction(b) # "nothing" /\ ph = PhaseOf(NextAction(b))
               /\ NextAction(b) \in {"research", "evaluate", "unresearched", "verify"}
    <2>1. PICK k \in Ticker : pc[k] = "mark" /\ Job(k).batch = b /\ PhaseOf(Job(k).action) = ph
      BY <1>1 DEF Marking
    <2>2. /\ Job(k) \in plan[k] /\ Job(k).action # "nothing"
          /\ Job(k).action \in {"research", "evaluate", "unresearched", "verify"}
      BY <2>1, AtWork, JobPlanned DEF BatchInv
    <2>3. QED
      BY <2>1, <2>2 DEF BatchInv, PlanDue
  <1>2. /\ tries[b]["research"] <= Cap /\ tries[b]["evaluate"] <= Cap
        /\ tries[b]["verify"] > 0 => tries[b]["verify"] < Cap + tries[b]["evaluate"]
        /\ state[b]["evaluate"] = "pending" => tries[b]["evaluate"] = 0
        /\ state[b]["verify"] = "pending" =>
             tries[b]["verify"] = 0 \/ tries[b]["verify"] + 2 <= Cap + tries[b]["evaluate"]
    BY DEF BatchInv, SpendInv, AttemptsBounded
  <1>3. Marking(b, "research") => tries[b]["research"] < Cap
    BY <1>0, <1>1, DueParts DEF PhaseOf, BatchInv
  <1>4. Marking(b, "evaluate") => tries[b]["evaluate"] < Cap
    <2> SUFFICES ASSUME Marking(b, "evaluate") PROVE tries[b]["evaluate"] < Cap
      OBVIOUS
    <2>1. NextAction(b) \in {"evaluate", "unresearched"}
      BY <1>0, <1>1 DEF PhaseOf
    <2>2. /\ state[b]["evaluate"] # "complete" /\ state[b]["evaluate"] # "running"
          /\ state[b]["evaluate"] = "failed" => tries[b]["evaluate"] < Cap
      BY <1>0, <2>1, DueParts DEF BatchInv, Running
    <2>3. QED
      BY <1>0, <1>2, <2>2
  <1>5. Marking(b, "verify") => tries[b]["verify"] + 1 < 2 * Cap
    <2> SUFFICES ASSUME Marking(b, "verify") PROVE tries[b]["verify"] + 1 < 2 * Cap
      OBVIOUS
    <2>1. NextAction(b) = "verify"
      BY <1>0, <1>1 DEF PhaseOf
    <2>2. VerifyDue(b)
      BY <2>1, DueParts DEF BatchInv
    <2>3. QED
      BY <1>0, <1>2, <2>2 DEF VerifyDue
  <1>6. /\ started[b]["research"] <= tries[b]["research"] + lost[b]["research"]
             + IF Marking(b, "research") THEN 1 ELSE 0
        /\ started[b]["evaluate"] <= tries[b]["evaluate"] + lost[b]["evaluate"]
             + IF Marking(b, "evaluate") THEN 1 ELSE 0
        /\ started[b]["verify"] <= tries[b]["verify"] + lost[b]["verify"]
             + IF Marking(b, "verify") THEN 1 ELSE 0
    BY <1>0 DEF Counted
  <1>7. tries[b]["verify"] < 2 * Cap
    BY <1>0, <1>2
  <1>8. QED
    BY <1>0, <1>2, <1>3, <1>4, <1>5, <1>6, <1>7

-----------------------------------------------------------------------------
\* The theorems.

\* The inductive invariant holds in every state.
THEOREM CuratorInvariant == Spec => []CuratorInv
  <1>1. Init => CuratorInv
    <2> SUFFICES ASSUME Init PROVE CuratorInv
      OBVIOUS
    <2>0. "research" \in Phase /\ "evaluate" \in Phase /\ "verify" \in Phase /\ Cap \in Nat
      BY CuratorAssumption DEF Phase
    <2>1. \A b \in Batch, ph \in Phase :
            /\ state[b][ph] = IF ph = "evaluate" THEN "pending" ELSE "none"
            /\ tries[b][ph] = 0 /\ tid[b][ph] = None
      BY DEF Init, NewBatches, Blank
    <2>2. TypeOK
      <3>1. task \in [Task -> TaskRow]
        BY DEF Init, NoTask, TaskRow, Phase, None
      <3>2. /\ state \in [Batch -> [Phase -> States]] /\ tries \in [Batch -> [Phase -> Nat]]
            /\ tid \in [Batch -> [Phase -> Task \cup {None}]]
            /\ file \in [Batch -> [Phase -> {"draft", "final", "proposals"}]]
        BY DEF Init, NewBatches, Blank, States
      <3>3. QED
        BY <3>1, <3>2 DEF Init, TypeOK, States
    <2>3. OnePhase /\ SpendInv
      BY <2>0, <2>1 DEF OnePhase, Running, SpendInv, AttemptsBounded
    <2>4. PlanDue /\ Unendorsed
      BY DEF Init, PlanDue, Unendorsed
    <2>5. Placed
      BY <2>1 DEF Init, Placed, NoRestarts, OwnChildren, OpenPlaced, Open, NoTask
    <2>6. Finished /\ FilesKept
      BY DEF Init, Finished, FilesKept, Closing
    <2>7. Counted
      BY <2>1 DEF Init, Blank, Counted
    <2>8. QED
      BY <2>2, <2>3, <2>4, <2>5, <2>6, <2>7 DEF CuratorInv, BatchInv
  <1>2. CuratorInv /\ [Next]_vars => CuratorInv'
    <2> SUFFICES ASSUME CuratorInv, [Next]_vars PROVE CuratorInv'
      OBVIOUS
    <2>1. limit' = limit
      BY DEF Next, Tick, Create, Advance, Check, Endorse, Plan, VerifyUnprepared,
             EvaluateUnprepared, Refused, Spawned, Mark, Die, Write, End, TimeOut, Restart,
             RecordRestart, Look, vars
    <2>2. BatchInv /\ BatchInv' /\ Finished /\ Finished' /\ Counted'
      BY BatchStep, FinishedStep, CountedStep DEF CuratorInv
    <2>3. limit = 0 => Placed' /\ FilesKept'
      BY <2>2, PlacedStep, FilesStep DEF CuratorInv
    <2>4. QED
      BY <2>1, <2>2, <2>3 DEF CuratorInv
  <1>3. QED
    BY <1>1, <1>2, PTL DEF Spec

\* The variables keep their types, and the lock admits one tick at a time.
THEOREM CuratorTypes == Spec => []TypeOK
  <1>1. CuratorInv => TypeOK
    BY DEF CuratorInv, BatchInv
  <1>2. QED
    BY <1>1, CuratorInvariant, PTL

\* What a batch costs is bounded: every child that a tick starts is counted as
\* an attempt or lost with the tick, and no research and no evaluation is
\* launched beyond CURATOR_BATCH_MAX_ATTEMPTS; a repeated evaluation buys one
\* more verifier.
THEOREM SpendIsBounded == Spec => []SpendBounded
  <1>1. CuratorInv => SpendBounded
    BY SpendFollows DEF CuratorInv
  <1>2. QED
    BY <1>1, CuratorInvariant, PTL

\* Without restarts no child outlives its pass into the next, and none works
\* on an endorsed one (_running_curator_children).
THEOREM PassesStayApart == Spec => []PassesApart
  <1>1. CuratorInv => PassesApart
    BY DEF CuratorInv, Placed, OpenPlaced, PassesApart
  <1>2. QED
    BY <1>1, CuratorInvariant, PTL

\* In one batch there is one place for a child at work: two recorded ones are
\* the running phase's, one about to be recorded or lost excludes all others.
LEMMA OnePlace ==
  ASSUME BatchInv, Placed, NEW b \in Batch, NEW t \in Working(b), NEW u \in Working(b)
  PROVE  t = u
  <1>1. /\ t \in Open /\ u \in Open /\ task[t].batch = b /\ task[u].batch = b
        /\ task[t].phase \in Phase /\ task[u].phase \in Phase
    BY DEF Working, Open, BatchInv, TypeOK, TaskRow
  <1>2. ASSUME Recorded(t), Recorded(u) PROVE t = u
    BY <1>1, <1>2 DEF Recorded, BatchInv, OnePhase, Running
  <1>3. ASSUME NEW v \in Open, NEW w \in Open, ~Recorded(v),
               task[v].batch = b, task[w].batch = b
        PROVE  v = w
    <2>1. v # None /\ w # None
      BY CuratorAssumption DEF Open, None
    <2>2. CASE Unrecorded(v)
      <3>1. PICK k \in Ticker : born[k] = v
        BY <2>2 DEF Unrecorded
      <3>2. pc[k] = "mark" /\ Job(k).batch = b
        BY <1>3, <2>1, <3>1 DEF BatchInv, TypeOK, Placed, OwnChildren, Owns
      <3>3. NextAction(b) # "nothing"
        BY <3>2, AtWork, JobPlanned DEF BatchInv, PlanDue
      <3>4. ~Recorded(w)
        BY <1>3, <3>3, DueUnrecorded
      <3>5. QED
        BY <3>1, <3>2, <3>4, OthersRecorded
    <2>3. CASE Lost(v)
      <3>1. NextAction(b) # "nothing"
        BY <1>3, <2>3 DEF Lost
      <3>2. ~Recorded(w)
        BY <1>3, <3>1, DueUnrecorded
      <3>3. QED
        BY <2>3, <3>2 DEF Lost
    <2>4. QED
      BY <1>3, <2>2, <2>3 DEF Placed, OpenPlaced
  <1>4. QED
    BY <1>1, <1>2, <1>3

\* Without restarts at most one child works on a batch, although a tick may
\* die between a spawn and its record and ticks run in several processes.
THEOREM OneChildPerBatch == Spec => []SoleWorker
  <1>1. CuratorInv => SoleWorker
    <2> SUFFICES ASSUME CuratorInv, limit = 0, NEW b \in Batch
                 PROVE  Cardinality(Working(b)) <= 1
      BY DEF SoleWorker, NoDuplicate
    <2>1. \A t \in Working(b), u \in Working(b) : t = u
      BY OnePlace DEF CuratorInv
    <2>2. CASE Working(b) = {}
      BY <2>2, FS_EmptySet
    <2>3. CASE Working(b) # {}
      <3>1. PICK t : Working(b) = {t}
        BY <2>1, <2>3
      <3>2. Cardinality({t}) = 1
        BY FS_Singleton
      <3>3. QED
        BY <3>1, <3>2
    <2>4. QED
      BY <2>2, <2>3
  <1>2. QED
    BY <1>1, CuratorInvariant, PTL

\* An endorsement rests on a finished review, and without restarts on reports
\* that nobody can change any more: when all batches are reviewed no child is
\* left, not even one that a tick lost.
THEOREM EndorsementsAreReviewed == Spec => []EndorsedIsReviewed
  <1>1. CuratorInv => EndorsedIsReviewed
    BY DEF CuratorInv, Finished, FilesKept, Closing, Done, EndorsedIsReviewed
  <1>2. QED
    BY <1>1, CuratorInvariant, PTL
=============================================================================
