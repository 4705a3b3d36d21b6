--------------------------- MODULE EvolveApplier ---------------------------
(***************************************************************************)
(* evolve_applier.py: implementer children turn GitHub issues into pull    *)
(* requests, repair children work on the open ones, and a landing sweep of *)
(* the parent merges them.                                                 *)
(*                                                                         *)
(* Several hosts act as one GitHub account and share nothing but GitHub.   *)
(* On a host a daemon runs passes, and any server may be asked for an      *)
(* issue by hand.  Every call of gh is a step of its own: what a process   *)
(* has read may be outdated when it writes.                                *)
(***************************************************************************)
EXTENDS Naturals, FiniteSets, FiniteSetsExt, Sequences, SequencesExt

CONSTANTS Process,     \* processes that run the applier
          Daemon,      \* those that run passes, elected one per machine; the
                       \* others are called by hand
          Host,        \* machines, each with its own ledger of events
          HostOf,      \* the machine of a process
          Issue,       \* numbers of issues
          Sites,       \* deployments to consider
          PrRepairMax, \* PR_REPAIR_MAX_ATTEMPTS
          MaxPulls     \* bound of pull requests in TLC's instances

ASSUME EvolveAssumption ==
  /\ Daemon \subseteq Process
  /\ HostOf \in [Process -> Host]
  /\ \A p, q \in Daemon : HostOf[p] = HostOf[q] => p = q
  /\ Issue \subseteq Nat \ {0}
  /\ Sites \subseteq [process : SUBSET Process, issues : SUBSET Issue,
                     cap : Nat \ {0}, faults : Nat,
                     retries : BOOLEAN, required : BOOLEAN]
  /\ MaxPulls \in Nat
  /\ PrRepairMax \in Nat \ {0}

Pull     == 1..MaxPulls
\* A process has the children it spawned and those that the watchdog started of
\* them; at most one of each kind is followed at a time.
Worker   == Process \X {"child", "continuation"}
Own(p)   == <<p, "child">>
Again(p) == <<p, "continuation">>
Boss(w)  == w[1]
Place(w) == HostOf[Boss(w)]

None     == 0
Requeued == MaxPulls + 1

VARIABLES
  site,     \* who runs; the issues; ROADMAP_ISSUE_MAX_ATTEMPTS; the bound of
            \* deaths, lost calls, drafts and human acts; whether the watchdog
            \* restarts; and whether the base branch requires checks
  pull,     \* the pull requests of GitHub
  claims,   \* claims[i]: who posted the claim comments of an issue, oldest first
  blocked,  \* issues with the label that excludes them
  marker,   \* marker[h][i]: the pull request of roadmap_issue_applied, or Requeued
  tries,    \* tries[h][i]: roadmap_issue_attempt events
  cooling,  \* cooling[h]: issues within their backoff window
  repairs,  \* repairs[h][n]: evolve_pr_repair_attempt events
  child,    \* child[w]: what a worker of a process works on
  pc,       \* pc[p]: where a pass, or a call by hand, is
  queue,    \* queue[p]: open pull requests as p has read them
  cand,     \* cand[p]: issues it has still to try
  named,    \* those whose caller has named an issue
  builds,   \* builds[h][i]: implementers that h has started for an issue that
            \* nobody named; a history, like the next three
  mends,    \* mends[h][n]: repair children that passes of h have started
  lost,     \* lost[h]: processes of h that died between a start and its record
  bare,     \* pull requests whose head a sweep found mergeable without any check
  faults

github  == <<pull, claims, blocked>>
ledger  == <<marker, tries, cooling, repairs>>
process == <<pc, queue, cand, named>>
spent   == <<builds, mends, lost>>
vars    == <<site, github, ledger, child, process, spent, bare, faults>>

NoPull == [issue |-> 0, host |-> None, state |-> "none", draft |-> FALSE,
           checks |-> "none", base |-> "fresh"]

\* on: an issue to implement or a pull request to repair; pull: the one opened.
NoChild == [kind |-> "none", on |-> 0, pull |-> None]

Init ==
  /\ site \in Sites
  /\ pull = [n \in Pull |-> NoPull]
  /\ claims = [i \in Issue |-> <<>>]
  /\ blocked = {}
  /\ marker = [h \in Host |-> [i \in Issue |-> None]]
  /\ tries = [h \in Host |-> [i \in Issue |-> 0]]
  /\ cooling = [h \in Host |-> {}]
  /\ repairs = [h \in Host |-> [n \in Pull |-> 0]]
  /\ child = [w \in Worker |-> NoChild]
  /\ pc = [p \in Process |-> "idle"]
  /\ queue = [p \in Process |-> {}]
  /\ cand = [p \in Process |-> {}]
  /\ named = {}
  /\ builds = [h \in Host |-> [i \in Issue |-> 0]]
  /\ mends = [h \in Host |-> [n \in Pull |-> 0]]
  /\ lost = [h \in Host |-> 0]
  /\ bare = {}
  /\ faults = 0

Fault ==
  /\ faults < site.faults
  /\ faults' = faults + 1

-----------------------------------------------------------------------------
(* What a process sees. *)

OpenPulls == {n \in Pull : pull[n].state = "open"}

\* Closes #i: the merge closes the issue.
OpenIssues == {i \in site.issues : \A n \in Pull : pull[n].issue = i => pull[n].state # "merged"}

\* Mutation of Busy: nobody looks for children.
BusyIgnored(h) == FALSE

\* _running_applier_children: of all processes of the machine.  It looks for the
\* prefix of applier prompts, which _continuation_prompt does not have.
Busy(h) == \E p \in Process : HostOf[p] = h /\ child[Own(p)] # NoChild

\* _pr_handoff_wait_reason: the ledger of this machine speaks of another pull
\* request for the issue, or took the hand-off back.
Stale(h, n) == marker[h][pull[n].issue] \notin {None, n}

\* _pr_landing_action, _applier_pr_queue.  _pr_checks_state takes a head without
\* any check for a passing one; where the branch requires checks, GitHub does not
\* call it mergeable.
Action(h, n) ==
  CASE Stale(h, n)                  -> "wait"
    [] ~Stale(h, n) /\ pull[n].base = "conflict" -> "repair"
    [] ~Stale(h, n) /\ pull[n].base = "behind"   -> "update"
    [] ~Stale(h, n) /\ pull[n].base = "fresh"    ->
         IF pull[n].checks = "pending" THEN "wait"
         ELSE IF pull[n].checks = "red" THEN "fix"
         ELSE IF pull[n].draft THEN "ready"
         ELSE IF pull[n].checks = "none" /\ site.required THEN "wait" ELSE "merge"

\* _pr_needs_human.
NeedsHuman(h, n, action) ==
  action \in {"repair", "fix"} /\ repairs[h][n] >= PrRepairMax

\* The entries of p's queue with one of these actions.
Queued(p, actions) == {e \in queue[p] : e.action \in actions}

Oldest(entries) == CHOOSE e \in entries : \A f \in entries : e.pull <= f.pull

\* GitHub compares the head that the caller names: a push since then made the
\* entry outdated.
Pushed(n) == [p \in Process |->
  {[e EXCEPT !.head = e.head /\ e.pull # n] : e \in queue[p]}]

\* A new head on the newest base, for which no check has reported yet.
Rebased(n) == [pull EXCEPT ![n].base = "fresh", ![n].checks = "none"]

-----------------------------------------------------------------------------
(* The landing sweep: _land_applier_prs. *)

\* Both kinds of pass begin by reading the queue, while no child runs; without
\* anything to land there is no sweep.
Sweep(p) ==
  /\ p \in Daemon /\ pc[p] = "idle"
  /\ ~Busy(HostOf[p])
  /\ queue' = [queue EXCEPT ![p] =
       {[pull |-> n, action |-> Action(HostOf[p], n), head |-> TRUE] : n \in OpenPulls}]
  /\ pc' = [pc EXCEPT ![p] =
       IF \E e \in queue'[p] : e.action \in {"merge", "ready", "update"} THEN "merge" ELSE "work"]
  /\ bare' = bare \cup
       {n \in OpenPulls : Action(HostOf[p], n) = "merge" /\ pull[n].checks = "none"}
  /\ UNCHANGED <<site, github, ledger, child, cand, named, spent, faults>>

\* Mutation of Mergeable: the head is not pinned.
MergeableUnpinned(e) ==
  pull[e.pull].state = "open" /\ pull[e.pull].base = "fresh" /\ ~pull[e.pull].draft

\* What GitHub merges: it insists on the head and, if that is protected, on the
\* newest base; the checks are the caller's concern.
Mergeable(e) ==
  /\ e.head
  /\ pull[e.pull].state = "open" /\ pull[e.pull].base = "fresh" /\ ~pull[e.pull].draft

\* What a new commit on the base does to an open pull request.
Overtaken(m, conflicting) ==
  IF pull[m].state # "open" THEN pull[m]
  ELSE [pull[m] EXCEPT !.base =
          IF @ = "conflict" \/ m \in conflicting THEN "conflict" ELSE "behind"]

\* Squash-merges the oldest green one that GitHub lets it, unless another
\* process of the machine is at it.  A call that fails is skipped; one that the
\* rate budget refuses ends the sweep.
Merge(p) ==
  /\ pc[p] = "merge"
  /\ IF \E q \in Process : HostOf[q] = HostOf[p] /\ pc[q] \in {"ready", "update"}
       THEN /\ pc' = [pc EXCEPT ![p] = "work"]
            /\ UNCHANGED <<pull, queue, faults>>
       ELSE LET able == {e \in Queued(p, {"merge"}) : Mergeable(e)}
            IN  \/ /\ able = {} /\ UNCHANGED <<pull, queue, faults>>
                   /\ pc' = [pc EXCEPT ![p] = "ready"]
                \/ /\ able # {} /\ Fault /\ UNCHANGED <<pull, queue>>
                   /\ \E where \in {"ready", "work"} : pc' = [pc EXCEPT ![p] = where]
                \/ /\ able # {}
                   /\ pc' = [pc EXCEPT ![p] = "ready"]
                   /\ LET e == Oldest(able)
                      IN  /\ \E conflicting \in SUBSET OpenPulls :
                               pull' = [m \in Pull |->
                                 IF m = e.pull THEN [pull[m] EXCEPT !.state = "merged"]
                                 ELSE Overtaken(m, conflicting)]
                          /\ queue' = [queue EXCEPT ![p] = @ \ {e}]
                   /\ UNCHANGED faults
  /\ UNCHANGED <<site, claims, blocked, ledger, child, cand, named, spent, bare>>

\* _ready_applier_draft: the oldest.
Ready(p) ==
  /\ pc[p] = "ready"
  /\ LET drafts == Queued(p, {"ready"})
     IN  IF drafts = {} \/ pull[Oldest(drafts).pull].state # "open"
           THEN UNCHANGED <<pull, faults>> /\ pc' = [pc EXCEPT ![p] = "update"]
           ELSE \/ /\ Fault /\ UNCHANGED pull
                   /\ \E where \in {"update", "work"} : pc' = [pc EXCEPT ![p] = where]
                \/ /\ pull' = [pull EXCEPT ![Oldest(drafts).pull].draft = FALSE]
                   /\ pc' = [pc EXCEPT ![p] = "update"]
                   /\ UNCHANGED faults
  /\ UNCHANGED <<site, claims, blocked, ledger, child, queue, cand, named, spent, bare>>

\* _update_applier_pr_branch: GitHub merges the base into the head it is told,
\* unless there is nothing to merge, or a conflict.
Updatable(e) ==
  e.head /\ pull[e.pull].state = "open" /\ pull[e.pull].base = "behind"

\* Mutation of Pool: only those that could not be merged.
PoolGreen(p) == Queued(p, {"merge"})

\* Those that are behind by now: they were, or a merge moved the base.
Pool(p) == Queued(p, {"update", "merge"})

\* The oldest of them.
Update(p) ==
  /\ pc[p] = "update"
  /\ pc' = [pc EXCEPT ![p] = "work"]
  /\ LET able == {e \in Pool(p) : Updatable(e)}
     IN  \/ able = {} /\ UNCHANGED <<pull, queue, bare, faults>>
         \/ able # {} /\ Fault /\ UNCHANGED <<pull, queue, bare>>
         \/ /\ able # {}
            /\ pull' = Rebased(Oldest(able).pull)
            /\ queue' = Pushed(Oldest(able).pull)
            /\ bare' = bare \ {Oldest(able).pull}
            /\ UNCHANGED faults
  /\ UNCHANGED <<site, claims, blocked, ledger, child, cand, named, spent>>

-----------------------------------------------------------------------------
(* The rest of a full pass: the pull request it works on, or new work. *)

Goto(p, where) ==
  /\ pc' = [pc EXCEPT ![p] = where]
  /\ queue' = [queue EXCEPT ![p] = IF where = "idle" THEN {} ELSE @]
  /\ cand' = [cand EXCEPT ![p] = IF where = "idle" THEN {} ELSE @]
  /\ named' = IF where = "idle" THEN named \ {p} ELSE named

\* _next_applier_pr: the oldest that does not wait for a human.
Promising(p) ==
  {e \in queue[p] : ~NeedsHuman(HostOf[p], e.pull, e.action)}

\* A landing pass ends here, and a full one that has nothing to repair:
\* _waiting_outcome.
Rest(p) ==
  /\ pc[p] = "work"
  /\ Goto(p, "idle")
  /\ UNCHANGED <<site, github, ledger, child, spent, bare, faults>>

\* _update_red_pr: a red one is updated before a child works on it.
UpdateRed(p) ==
  /\ pc[p] = "work" /\ Promising(p) # {}
  /\ LET e == Oldest(Promising(p))
     IN  /\ e.action = "fix" /\ Updatable(e)
         /\ pull' = Rebased(e.pull)
         /\ pc' = [pc EXCEPT ![p] = "idle"]
         /\ queue' = [Pushed(e.pull) EXCEPT ![p] = {}]
         /\ bare' = bare \ {e.pull}
  /\ UNCHANGED <<site, claims, blocked, ledger, child, cand, named, spent, faults>>

\* _advance_open_applier_prs: the pull request that gets a child, by its entry
\* and the ledger as read before the lock.  If the update of a red one fails, the
\* child does it all.
Choose(p) ==
  /\ pc[p] = "work" /\ Promising(p) # {}
  /\ LET e == Oldest(Promising(p))
     IN  /\ e.action \in {"repair", "fix"}
         /\ IF e.action = "fix" /\ Updatable(e) THEN Fault ELSE UNCHANGED faults
         /\ queue' = [queue EXCEPT ![p] = {e}]
  /\ pc' = [pc EXCEPT ![p] = "repair"]
  /\ UNCHANGED <<site, github, ledger, child, cand, named, spent, bare>>

\* Mutation of SpawnLocked: no single_flight_lock.
SpawnUnlocked(h) == FALSE

\* _apply_spawn_lock: held while issues are tried, and by nothing that waits.
SpawnLocked(h) ==
  \E q \in Process : HostOf[q] = h /\ pc[q] \in {"check", "post", "race", "spawn"}

Mender(n) == [kind |-> "repair", on |-> n, pull |-> None]

\* apply_conflicted_pr and apply_failing_pr: nothing but the lock and the look for
\* children keeps the child from starting, unless it is refused.
Repair(p) ==
  LET n == Oldest(queue[p]).pull
      h == HostOf[p]
  IN  /\ pc[p] = "repair"
      /\ IF SpawnLocked(h) \/ Busy(h)
           THEN Goto(p, "idle") /\ UNCHANGED <<child, mends, faults>>
           ELSE \/ Goto(p, "idle") /\ Fault /\ UNCHANGED <<child, mends>>
                \/ /\ child' = [child EXCEPT ![Own(p)] = Mender(n)]
                   /\ mends' = [mends EXCEPT ![h][n] = @ + 1]
                   /\ Goto(p, "record")
                   /\ UNCHANGED faults
      /\ UNCHANGED <<site, github, ledger, builds, lost, bare>>

\* _record_pr_repair_attempt, when the lock is free again.
Record(p) ==
  /\ pc[p] = "record"
  /\ repairs' = [repairs EXCEPT ![HostOf[p]][Oldest(queue[p]).pull] = @ + 1]
  /\ Goto(p, "idle")
  /\ UNCHANGED <<site, github, marker, tries, cooling, child, spent, bare, faults>>

\* evolve_apply_conflicted_pr: by hand, without limit and record.
RepairByHand(p) ==
  /\ pc[p] = "idle"
  /\ ~SpawnLocked(HostOf[p]) /\ ~Busy(HostOf[p])
  /\ Fault
  /\ \E n \in OpenPulls : /\ pull[n].base = "conflict"
                         /\ child' = [child EXCEPT ![Own(p)] = Mender(n)]
  /\ UNCHANGED <<site, github, ledger, process, spent, bare>>

\* Mutation of Withdrawn: a hand-off is for ever.
WithdrawnNever(h) == {}

\* _roadmap_issue_applied_blocks_issue: a marker whose pull request was closed
\* unmerged is taken back.
Withdrawn(h) ==
  {i \in OpenIssues : marker[h][i] \in Pull /\ pull[marker[h][i]].state = "closed"}

\* Issues left after the markers and the label.
Unapplied(h) ==
  {i \in OpenIssues \ blocked : marker[h][i] \in {None, Requeued} \/ i \in Withdrawn(h)}

\* Mutation of DeadLetter: no limit.
DeadLetterNever(h) == {}

\* _classify_roadmap_issue.
DeadLetter(h) == {i \in Unapplied(h) : tries[h][i] >= site.cap}

Withdraw(h) ==
  marker' = [marker EXCEPT ![h] = [i \in Issue |->
               IF i \in Withdrawn(h) THEN Requeued ELSE @[i]]]

\* _open_roadmap_issue_candidates: what it reads, and what it writes on the way:
\* withdrawals, and the label of dead letters; if GitHub does not take it, that
\* is a fault of a pass, and nothing is different for a call by hand.
Select(p) ==
  LET h == HostOf[p]
  IN  /\ cand' = [cand EXCEPT ![p] = (Unapplied(h) \ DeadLetter(h)) \ cooling[h]]
      /\ Withdraw(h)
      /\ blocked' \in {blocked, blocked \cup DeadLetter(h)}
      /\ UNCHANGED named

\* Its exact mode, for the issue that a person names: attempts and backoff do not
\* count.
SelectNamed(p) ==
  /\ \E i \in site.issues : cand' = [cand EXCEPT ![p] = {i} \cap Unapplied(HostOf[p])]
  /\ Withdraw(HostOf[p])
  /\ named' = IF cand'[p] = {} THEN named ELSE named \cup {p}
  /\ UNCHANGED blocked

\* A pass with no open pull request reads the issues before it takes the lock.
Peek(p) ==
  /\ pc[p] = "work" /\ queue[p] = {}
  /\ Select(p)
  /\ IF blocked' = blocked \cup DeadLetter(HostOf[p]) THEN UNCHANGED faults ELSE Fault
  /\ pc' = [pc EXCEPT ![p] = IF cand'[p] = {} THEN "idle" ELSE "enter"]
  /\ UNCHANGED <<site, pull, claims, tries, cooling, repairs, child, queue, spent, bare>>

\* apply_roadmap_issue for a pass: the lock and another look for children.
Enter(p) ==
  /\ pc[p] = "enter"
  /\ Goto(p, IF SpawnLocked(HostOf[p]) \/ Busy(HostOf[p]) THEN "idle" ELSE "check")
  /\ UNCHANGED <<site, github, ledger, child, spent, bare, faults>>

\* evolve_apply_roadmap_issue: by hand, whatever pull requests are open, for the
\* next issue or for the one that is named.
Manual(p) ==
  /\ pc[p] = "idle"
  /\ ~SpawnLocked(HostOf[p]) /\ ~Busy(HostOf[p])
  /\ Fault
  /\ Select(p) \/ SelectNamed(p)
  /\ pc' = [pc EXCEPT ![p] = IF cand'[p] = {} THEN "idle" ELSE "check"]
  /\ UNCHANGED <<site, pull, claims, tries, cooling, repairs, child, queue, spent, bare>>

-----------------------------------------------------------------------------
(* _start_roadmap_issue_child, for one candidate after the other. *)

Trying(p) == Min(cand[p])

\* On to the next candidate.
Skip(p) ==
  /\ cand' = [cand EXCEPT ![p] = @ \ {Trying(p)}]
  /\ pc' = [pc EXCEPT ![p] = IF cand'[p] = {} THEN "idle" ELSE "check"]
  /\ named' = IF cand'[p] = {} THEN named \ {p} ELSE named
  /\ UNCHANGED queue

\* Mutation of PullFor: nobody looks for a pull request.
PullForUnchecked(i) == {}

\* _open_prs_for_issue.
PullFor(i) == {n \in OpenPulls : pull[n].issue = i}

\* _issue_has_active_claim, then the pull requests.
Check(p) ==
  /\ pc[p] = "check"
  /\ IF claims[Trying(p)] # <<>> \/ PullFor(Trying(p)) # {}
       THEN Skip(p) ELSE Goto(p, "post")
  /\ UNCHANGED <<site, github, ledger, child, spent, bare, faults>>

\* GitHub cannot be asked: the issue is skipped.
Unreachable(p) ==
  /\ pc[p] \in {"check", "post"}
  /\ Fault
  /\ Skip(p)
  /\ UNCHANGED <<site, github, ledger, child, spent, bare>>

\* _comment_issue_claim; if the answer is lost, the comment stays.
Post(p) ==
  /\ pc[p] = "post"
  /\ claims' = [claims EXCEPT ![Trying(p)] = Append(@, p)]
  /\ \/ Goto(p, "race") /\ UNCHANGED faults
     \/ Skip(p) /\ Fault
  /\ UNCHANGED <<site, pull, blocked, ledger, child, spent, bare>>

\* Mutation of Won: a claim that is still there is enough.
WonIfPresent(p, i) == p \in Range(claims[i])

\* _resolve_claim_race: the earliest claim wins.
Won(p, i) == Len(claims[i]) <= 1 \/ Head(claims[i]) = p

\* The claims of an issue without the one that p posted.
Retracted(i, p) ==
  LET mine == CHOOSE k \in 1..Len(claims[i]) : claims[i][k] = p
  IN  RemoveAt(claims[i], mine)

\* _delete_issue_comment, best effort.
Retract(p) ==
  \/ claims' = [claims EXCEPT ![Trying(p)] = Retracted(Trying(p), p)] /\ UNCHANGED faults
  \/ UNCHANGED claims /\ Fault

Race(p) ==
  /\ pc[p] = "race"
  /\ IF Won(p, Trying(p))
       THEN Goto(p, "spawn") /\ UNCHANGED <<site, claims, faults>>
       ELSE Skip(p) /\ Retract(p)
  /\ UNCHANGED <<site, pull, blocked, ledger, child, spent, bare>>

\* The comments cannot be read again, or the spawn is refused: the claim is
\* retracted.  Only the former goes on to the next issue.
Abandon(p) ==
  /\ pc[p] \in {"race", "spawn"}
  /\ IF pc[p] = "race" THEN Skip(p) ELSE Goto(p, "idle")
  /\ faults < site.faults
  /\ faults' = faults + 1
  /\ claims' = [claims EXCEPT ![Trying(p)] = Retracted(Trying(p), p)]
  /\ UNCHANGED <<site, pull, blocked, ledger, child, spent, bare>>

\* The implementer starts and the attempt is recorded, unless the process dies.
Spawn(p) ==
  LET h == HostOf[p]
      i == Trying(p)
  IN  /\ pc[p] = "spawn"
      /\ child' = [child EXCEPT ![Own(p)] = [kind |-> "issue", on |-> i, pull |-> None]]
      /\ builds' = IF p \in named THEN builds ELSE [builds EXCEPT ![h][i] = @ + 1]
      /\ \/ /\ tries' = [tries EXCEPT ![h][i] = @ + 1]
            /\ cooling' = [cooling EXCEPT ![h] = @ \cup {i}]
            /\ UNCHANGED <<lost, faults>>
         \/ /\ lost' = [lost EXCEPT ![h] = @ + 1]
            /\ UNCHANGED <<tries, cooling>> /\ Fault
      /\ Goto(p, "idle")
      /\ UNCHANGED <<site, github, marker, repairs, mends, bare>>

\* The process ends, and what it holds in its hands is gone.
Die(p) ==
  /\ pc[p] # "idle"
  /\ Fault
  /\ lost' = IF pc[p] = "record" THEN [lost EXCEPT ![HostOf[p]] = @ + 1] ELSE lost
  /\ Goto(p, "idle")
  /\ UNCHANGED <<site, github, ledger, child, builds, mends, bare>>

-----------------------------------------------------------------------------
(* Children. *)

\* The implementer opens a pull request, if its branch, which is named for the
\* issue and the machine, has none, and the issue is still open.
OpenPull(w) ==
  LET i == child[w].on
      free == {n \in Pull : pull[n].state = "none"}
  IN  /\ child[w].kind = "issue" /\ child[w].pull = None
      /\ i \in OpenIssues /\ free # {}
      /\ \A n \in OpenPulls : pull[n].issue = i => pull[n].host # Place(w)
      /\ \E draft \in BOOLEAN :
           /\ IF draft THEN Fault ELSE UNCHANGED faults
           /\ pull' = [pull EXCEPT ![Min(free)] =
                [issue |-> i, host |-> Place(w), state |-> "open", draft |-> draft,
                 checks |-> "none", base |-> "fresh"]]
      /\ child' = [child EXCEPT ![w].pull = Min(free)]
      /\ UNCHANGED <<site, claims, blocked, ledger, process, spent, bare>>

\* mark_roadmap_issue_applied: once per hand-off, and denied to a continuation,
\* whose access is read-only.
MarkApplied(p) ==
  LET job == child[Own(p)]
  IN  /\ job.pull # None
      /\ marker[HostOf[p]][job.on] \notin Pull
      /\ marker' = [marker EXCEPT ![HostOf[p]][job.on] = job.pull]
      /\ UNCHANGED <<site, github, tries, cooling, repairs, child, process, spent, bare, faults>>

\* A repair child pushes the base, merged, and perhaps a fix.
Push(w) ==
  LET n == child[w].on
  IN  /\ child[w].kind = "repair" /\ pull[n].state = "open"
      /\ pull' = Rebased(n)
      /\ queue' = Pushed(n)
      /\ bare' = bare \ {n}
      /\ child' = [child EXCEPT ![w] = NoChild]
      /\ UNCHANGED <<site, claims, blocked, ledger, pc, cand, named, spent, faults>>

\* A worker ends, whatever it has done so far.
End(w) ==
  /\ child[w] # NoChild
  /\ child' = [child EXCEPT ![w] = NoChild]
  /\ UNCHANGED <<site, github, ledger, process, spent, bare, faults>>

\* The watchdog ends a child that takes too long and starts a continuation with
\* the same assignment: _respawn_timed_out.
TimeOut(p) ==
  /\ site.retries
  /\ child[Own(p)] # NoChild /\ child[Again(p)] = NoChild
  /\ child' = [child EXCEPT ![Own(p)] = NoChild, ![Again(p)] = child[Own(p)]]
  /\ UNCHANGED <<site, github, ledger, process, spent, bare, faults>>

-----------------------------------------------------------------------------
(* GitHub, humans, time. *)

Checked(n) ==
  /\ pull[n].state = "open"
  /\ \E x \in {"pending", "red", "green"} :
       /\ pull[n].checks = "none" \/ (pull[n].checks = "pending" /\ x # "pending")
       /\ pull' = [pull EXCEPT ![n].checks = x]
  /\ UNCHANGED <<site, claims, blocked, ledger, child, process, spent, bare, faults>>

\* A human closes a pull request, or merges one of his own.
Intervene ==
  /\ Fault
  /\ OpenPulls # {}
  /\ \/ \E n \in OpenPulls : pull' = [pull EXCEPT ![n].state = "closed"]
     \/ \E conflicting \in SUBSET OpenPulls :
          pull' = [m \in Pull |-> Overtaken(m, conflicting)]
  /\ UNCHANGED <<site, claims, blocked, ledger, child, process, spent, bare>>

\* ROADMAP_ISSUE_CLAIM_TTL_S is a day: longer than a child of an hour with its
\* continuations, than a pass of the machine that claimed, and than the few calls
\* from a look at claims to a spawn.
Expire(i) ==
  /\ claims[i] # <<>>
  /\ \A p \in Process :
       HostOf[p] = HostOf[Head(claims[i])] \/ pc[p] \in {"post", "race", "spawn"}
         => i \notin cand[p]
  /\ \A w \in Worker : ~(child[w].kind = "issue" /\ child[w].on = i)
  /\ claims' = [claims EXCEPT ![i] = Tail(@)]
  /\ UNCHANGED <<site, pull, blocked, ledger, child, process, spent, bare, faults>>

\* The backoff window is over; at two days it outlasts the claims.
Cooled(h, i) ==
  /\ i \in cooling[h] /\ claims[i] = <<>>
  /\ cooling' = [cooling EXCEPT ![h] = @ \ {i}]
  /\ UNCHANGED <<site, github, marker, tries, repairs, child, process, spent, bare, faults>>

-----------------------------------------------------------------------------
Step(p) ==
  \/ Merge(p) \/ Ready(p) \/ Update(p)
  \/ UpdateRed(p) \/ Choose(p) \/ Repair(p) \/ Record(p) \/ Peek(p) \/ Enter(p)
  \/ Check(p) \/ Post(p) \/ Race(p) \/ Spawn(p)

Next ==
  \/ \E p \in site.process :
       \/ Sweep(p) \/ Manual(p) \/ RepairByHand(p) \/ Step(p) \/ Rest(p)
       \/ Unreachable(p) \/ Abandon(p) \/ Die(p)
       \/ MarkApplied(p) \/ TimeOut(p)
  \/ \E w \in Worker : OpenPull(w) \/ Push(w) \/ End(w)
  \/ \E n \in Pull : Checked(n)
  \/ \E i \in Issue : Expire(i)
  \/ \E h \in Host, i \in Issue : Cooled(h, i)
  \/ Intervene

Spec == Init /\ [][Next]_vars

\* The daemon of every machine wakes for ever, by the intervals and
\* _apply_pass_needed_now for a full pass again and again; a pass and a child take a
\* finite time, and so does a check that is required or has begun; claims and
\* backoffs run out.
Fairness ==
  /\ \A p \in Process : WF_vars(Step(p) \/ Rest(p))
  /\ \A p \in Daemon :
       /\ SF_vars(p \in site.process /\ Sweep(p))
       /\ SF_vars(UpdateRed(p) \/ Choose(p) \/ Peek(p))
  /\ WF_vars(\E w \in Worker : End(w))
  /\ WF_vars(\E n \in Pull : (site.required \/ pull[n].checks = "pending") /\ Checked(n))
  /\ SF_vars(\E i \in Issue : Expire(i))
  /\ WF_vars(\E h \in Host, i \in Issue : Cooled(h, i))
FairSpec == Spec /\ Fairness
=============================================================================
