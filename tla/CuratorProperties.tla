-------------------------- MODULE CuratorProperties --------------------------
(***************************************************************************)
(* What the durable pass of the curator promises.                          *)
(***************************************************************************)
EXTENDS CuratorPass

LaunchJob ==
  [batch : Batch, action : {"research", "evaluate", "unresearched", "verify"}]

TaskRow ==
  [row : {"none", "open", "zero", "fails", "timeout"}, batch : Batch \cup {0},
   phase : Phase, cont : BOOLEAN, fresh : BOOLEAN, due : BOOLEAN, heir : Task \cup {None}]

\* Every variable has its type; a tick has planned launches exactly while it
\* launches, holds a child nobody recorded only between spawn and record, and
\* at most one tick is under the lock.
TypeOK ==
  /\ limit \in Limits
  /\ pass \in Nat
  /\ {endorsed, abandoned} \subseteq BOOLEAN
  /\ state \in [Batch -> [Phase -> {"none", "pending", "running", "failed", "complete"}]]
  /\ tid \in [Batch -> [Phase -> Task \cup {None}]]
  /\ tries \in [Batch -> [Phase -> Nat]]
  /\ destroys \in [Batch -> BOOLEAN]
  /\ file \in [Batch -> [Phase -> {"draft", "final", "proposals"}]]
  /\ task \in [Task -> TaskRow]
  /\ pc \in [Ticker -> {"idle", "check", "endorse", "plan", "launch", "mark"}]
  /\ plan \in [Ticker -> SUBSET LaunchJob]
  /\ born \in [Ticker -> Task \cup {None}]
  /\ started \in [Batch -> [Phase -> Nat]]
  /\ lost \in [Batch -> [Phase -> Nat]]
  /\ faults \in Nat
  /\ \A k \in Ticker : plan[k] = {} <=> pc[k] \notin {"launch", "mark"}
  /\ \A k \in Ticker : born[k] = None <=> pc[k] # "mark"
  /\ \A j, k \in Ticker : pc[j] # "idle" /\ pc[k] # "idle" => j = k

Working(b) == {t \in Open : task[t].fresh /\ task[t].batch = b}

\* Comment in _refresh_pass_completion: when the watchdog continues a child,
\* the batch follows it rather than launching a duplicate.  At most one child
\* works on a batch.
NoDuplicate == \A b \in Batch : Cardinality(Working(b)) <= 1

\* Without continuations that much is true, although a tick may die between a
\* spawn and its record, and ticks run in several processes.
SoleWorker == limit = 0 => NoDuplicate

\* The docstring of _running_curator_children: no two passes are at work on
\* the one store.  No child outlives its pass into the next, and none works
\* on after the pass has been endorsed.
PassesApart ==
  limit = 0 => \A t \in Open : task[t].fresh /\ ~endorsed

\* An endorsement rests on a finished review: every batch is evaluated, and its
\* proposals are verified or given up after all attempts.  Without continuations
\* the reports are final and stay so: nobody makes a draft of one again between
\* the last look at it, the endorsement and the next pass.
EndorsedIsReviewed ==
  endorsed =>
    \A b \in Batch :
      /\ state[b]["evaluate"] = "complete"
      /\ state[b]["verify"] \in {"none", "complete"} \/ tries[b]["verify"] >= Cap
      /\ limit = 0 => Final(b)

\* What a batch may cost is bounded: ticks start no more researchers and
\* evaluators than attempts, and fewer than twice as many verifiers, as a
\* repeated evaluation buys one more; only a tick that died before it recorded
\* its child has started one more.  Continuations are the watchdog's.
SpendBounded ==
  \A b \in Batch :
    /\ started[b]["research"] <= Cap + lost[b]["research"]
    /\ started[b]["evaluate"] <= Cap + lost[b]["evaluate"]
    /\ started[b]["verify"] < 2 * Cap + lost[b]["verify"]

\* Every pass is endorsed or given up in the end, and not only because it gets
\* too old: attempts run out whatever fails, and no phase waits for a child
\* that has ended.
PassEnds == Active ~> ~Active
=============================================================================
