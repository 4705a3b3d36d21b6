----------------------------- MODULE IssueDesk -----------------------------
(***************************************************************************)
(* What a reader of the repository sees of the applier: every issue is     *)
(* open, implemented by one child, under review in one pull request, or    *)
(* merged.  Nothing is said of hosts, claims and ledgers.                  *)
(***************************************************************************)
CONSTANT Issue

VARIABLE work  \* work[i]: open, started, review or merged

Init == work = [i \in Issue |-> "open"]

Moves(i, from, to) ==
  /\ work[i] = from
  /\ work' = [work EXCEPT ![i] = to]

Start(i)  == Moves(i, "open", "started")
GiveUp(i) == Moves(i, "started", "open")
Hand(i)   == Moves(i, "started", "review")
Close(i)  == Moves(i, "review", "open")
Merge(i)  == Moves(i, "review", "merged")

Next == \E i \in Issue : Start(i) \/ GiveUp(i) \/ Hand(i) \/ Close(i) \/ Merge(i)

Spec == Init /\ [][Next]_work
=============================================================================
