-------------------------- MODULE EvolveProperties --------------------------
(***************************************************************************)
(* What the applier promises about issues, pull requests and children, and *)
(* that it implements IssueDesk.                                           *)
(***************************************************************************)
EXTENDS EvolveApplier

PullRecord ==
  [issue : Issue \cup {0}, host : Host \cup {None},
   state : {"none", "open", "merged", "closed"}, draft : BOOLEAN,
   checks : {"none", "pending", "red", "green"}, base : {"fresh", "behind", "conflict"}]

Entry == [pull : Pull, action : {"wait", "repair", "update", "fix", "ready", "merge"},
          head : BOOLEAN]

Assignment == {NoChild} \cup [kind : {"issue"}, on : Issue, pull : Pull \cup {None}]
                        \cup [kind : {"repair"}, on : Pull, pull : {None}]

Dispatching == {"check", "post", "race", "spawn"}

Locations == Dispatching \cup
  {"idle", "merge", "ready", "update", "work", "repair", "record", "enter"}

\* Every variable has its type; a process has candidates exactly while it tries
\* issues, and the lock admits one such process per machine.
TypeOK ==
  /\ site \in Sites
  /\ pull \in [Pull -> PullRecord]
  /\ claims \in [Issue -> Seq(Process)]
  /\ blocked \subseteq Issue
  /\ marker \in [Host -> [Issue -> Pull \cup {None, Requeued}]]
  /\ tries \in [Host -> [Issue -> Nat]]
  /\ cooling \in [Host -> SUBSET Issue]
  /\ repairs \in [Host -> [Pull -> Nat]]
  /\ child \in [Worker -> Assignment]
  /\ pc \in [Process -> Locations]
  /\ queue \in [Process -> SUBSET Entry]
  /\ cand \in [Process -> SUBSET Issue]
  /\ named \subseteq Process
  /\ builds \in [Host -> [Issue -> Nat]]
  /\ mends \in [Host -> [Pull -> Nat]]
  /\ lost \in [Host -> Nat]
  /\ bare \subseteq Pull
  /\ faults \in Nat
  /\ \A p \in Process : cand[p] # {} <=> pc[p] \in Dispatching \cup {"enter"}
  /\ \A p, q \in Process :
       pc[p] \in Dispatching /\ pc[q] \in Dispatching /\ HostOf[p] = HostOf[q] => p = q

\* The docstring of _merge_applier_pr: a push that lands after the state read is
\* never merged unchecked, whoever pushes or updates meanwhile.  What is merged is
\* green, or it is the head that a sweep found mergeable while no check had reported
\* and the branch required none.
MergedGreen ==
  \A n \in Pull : pull[n].state = "merged" =>
    pull[n].checks = "green" \/ (~site.required /\ n \in bare)

\* The docstring of _start_roadmap_issue_child, "multi-host safe": at most one
\* worker implements an issue, child or continuation, whatever hosts and calls by
\* hand race for it.
OneImplementer ==
  \A v, w \in Worker :
    child[v].kind = "issue" /\ child[w].kind = "issue" /\ child[v].on = child[w].on => v = w

\* The duplicate guard of _start_roadmap_issue_child: an issue has at most one
\* open pull request, although a child may die before it marks the issue.
OnePull == \A m, n \in OpenPulls : pull[m].issue = pull[n].issue => m = n

\* The docstring of _running_applier_children, as far as the code goes: one
\* applier child at a time on a machine; two would edit the same checkout.  Where
\* the watchdog restarts what it timed out, the look does not see the continuation,
\* and a second worker there is only ever a continuation or beside one.
SingleFlight ==
  \A v, w \in Worker :
    Place(v) = Place(w) /\ child[v] # NoChild /\ child[w] # NoChild /\ v # w
      => site.retries /\ (v = Again(Boss(v)) \/ w = Again(Boss(w)))

\* A machine starts no more children for a pull request, or for an issue that
\* nobody names, than the configuration allows, although it reads its ledger before
\* the lock and records a repair after it; each process that died between a start
\* and its record adds at most one.
SpendBounded ==
  \A h \in Host :
    /\ \A i \in Issue : builds[h][i] <= site.cap + lost[h]
    /\ \A n \in Pull : mends[h][n] <= PrRepairMax + lost[h]

\* h will do nothing more for n: its children ran out, or the pull request, or
\* an older one, contradicts the ledger of h and is only waited for.
Held(h, n) ==
  \/ NeedsHuman(h, n, Action(h, n))
  \/ \E m \in OpenPulls : m <= n /\ Stale(h, m)

\* Machines whose daemon runs.
Machines == {HostOf[p] : p \in site.process \cap Daemon}

Settled(i) ==
  \/ i \notin OpenIssues \/ i \in blocked
  \/ \A h \in Machines : tries[h][i] >= site.cap

ForHumans(n) == \A h \in Machines : Held(h, n)

\* The work gets done: a pull request that stays open is one that every machine
\* has left to humans, whatever was red, behind or in conflict, and every issue
\* is merged or a dead letter, unless such a pull request holds everything back.
Drains ==
  <>[](/\ \A n \in OpenPulls : ForHumans(n)
       /\ OpenPulls = {} => \A i \in site.issues : Settled(i))

-----------------------------------------------------------------------------
\* Where an issue is.  A worker that has opened its pull request is done with it.
Progress(i) ==
  IF i \in site.issues \ OpenIssues THEN "merged"
  ELSE IF \E n \in OpenPulls : pull[n].issue = i THEN "review"
  ELSE IF \E w \in Worker : child[w].kind = "issue" /\ child[w].on = i /\ child[w].pull = None
    THEN "started" ELSE "open"

Desk == INSTANCE IssueDesk WITH work <- [i \in Issue |-> Progress(i)]

\* Seen from the repository, an issue is started once, reviewed once and merged
\* once: no host starts what another one has under review.
ImplementsDesk == Desk!Spec
=============================================================================
