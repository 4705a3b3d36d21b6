---------------------------- MODULE EvolveProofs ----------------------------
(***************************************************************************)
(* Proofs that the applier of EvolveApplier keeps what EvolveProperties    *)
(* says of children, claims and pull requests, and that it implements      *)
(* IssueDesk, for any machines, processes, issues and deployments.         *)
(***************************************************************************)
EXTENDS EvolveProperties, SequenceTheorems, WellFoundedInduction, TLAPS

\* A set of numbers has a least element.
LEMMA LeastNumber ==
  ASSUME NEW S \in SUBSET Nat, S # {}
  PROVE  \E x \in S : \A y \in S : x <= y
  <1>1. \E x \in S : \A y \in S : ~ (<<y, x>> \in OpToRel(<, Nat))
    BY NatLessThanWellFounded, WFMin
  <1>2. PICK x \in S : \A y \in S : ~ (<<y, x>> \in OpToRel(<, Nat))
    BY <1>1
  <1>3. \A y \in S : ~ (y < x)
    BY <1>2 DEF OpToRel
  <1>4. QED
    BY <1>3

\* What CHOOSE finds among issues, numbers of pull requests and entries.
LEMMA MinIn ==
  ASSUME NEW S \in SUBSET Nat, S # {}
  PROVE  Min(S) \in S
  BY LeastNumber DEF Min

LEMMA OldestIn ==
  ASSUME NEW S \in SUBSET Entry, S # {}
  PROVE  Oldest(S) \in S
  <1>1. {e.pull : e \in S} \in SUBSET Nat /\ {e.pull : e \in S} # {}
    BY EvolveAssumption DEF Entry, Pull
  <1>2. PICK x \in {e.pull : e \in S} : \A y \in {e.pull : e \in S} : x <= y
    BY <1>1, LeastNumber
  <1>3. \E e \in S : \A f \in S : e.pull <= f.pull
    BY <1>2
  <1>4. QED
    BY <1>3 DEF Oldest

\* A sequence without one of its elements.
LEMMA RemovedAt ==
  ASSUME NEW S, NEW s \in Seq(S), NEW c \in 1..Len(s)
  PROVE  /\ RemoveAt(s, c) \in Seq(S)
         /\ Len(RemoveAt(s, c)) = Len(s) - 1
         /\ \A j \in 1..c-1 : RemoveAt(s, c)[j] = s[j]
         /\ \A j \in c..Len(s)-1 : RemoveAt(s, c)[j] = s[j+1]
  <1> DEFINE front == SubSeq(s, 1, c-1)
             back  == SubSeq(s, c+1, Len(s))
  <1>1. Len(s) \in Nat /\ c \in 1..Len(s)
    OBVIOUS
  <1>2. front \in Seq(S) /\ Len(front) = c - 1 /\ \A j \in 1..c-1 : front[j] = s[j]
    BY <1>1
  <1>3. /\ back \in Seq(S) /\ Len(back) = Len(s) - c
        /\ \A j \in 1..Len(s)-c : back[j] = s[j + c]
    BY <1>1
  <1>4. RemoveAt(s, c) = front \o back
    BY DEF RemoveAt
  <1> HIDE DEF front, back
  <1>5. /\ front \o back \in Seq(S) /\ Len(front \o back) = Len(front) + Len(back)
        /\ \A j \in 1..Len(front) + Len(back) :
             (front \o back)[j] = IF j <= Len(front) THEN front[j] ELSE back[j - Len(front)]
    BY <1>2, <1>3, ConcatProperties
  <1>6. ASSUME NEW j \in 1..c-1 PROVE RemoveAt(s, c)[j] = s[j]
    BY <1>1, <1>2, <1>3, <1>4, <1>5
  <1>7. ASSUME NEW j \in c..Len(s)-1 PROVE RemoveAt(s, c)[j] = s[j+1]
    <2>1. (front \o back)[j] = back[j - (c - 1)] /\ j - (c-1) \in 1..Len(s)-c
      BY <1>1, <1>2, <1>3, <1>5
    <2>2. back[j - (c - 1)] = s[j - (c - 1) + c]
      BY <2>1, <1>3
    <2>3. j - (c - 1) + c = j + 1
      BY <1>1
    <2>4. QED
      BY <2>1, <2>2, <2>3, <1>4
  <1>8. Len(RemoveAt(s, c)) = Len(s) - 1
    BY <1>1, <1>2, <1>3, <1>4, <1>5
  <1>9. QED
    BY <1>4, <1>5, <1>6, <1>7, <1>8

\* A claim taken back leaves the others, in their order.
LEMMA RetractedLeaves ==
  ASSUME NEW i \in Issue, claims[i] \in Seq(Process),
         NEW k \in 1..Len(claims[i]), NEW p, claims[i][k] = p
  PROVE  /\ Retracted(i, p) \in Seq(Process)
         /\ claims[i][1] # p => /\ Retracted(i, p) # <<>>
                                /\ Retracted(i, p)[1] = claims[i][1]
         /\ \A j \in 1..Len(claims[i]) : claims[i][j] # p =>
              \E m \in 1..Len(Retracted(i, p)) : Retracted(i, p)[m] = claims[i][j]
  <1> DEFINE c == CHOOSE m \in 1..Len(claims[i]) : claims[i][m] = p
             r == RemoveAt(claims[i], c)
  <1>1. Retracted(i, p) = r
    BY DEF Retracted
  <1>2. c \in 1..Len(claims[i]) /\ claims[i][c] = p /\ Len(claims[i]) \in Nat
    OBVIOUS
  <1> HIDE DEF c
  <1>3. /\ r \in Seq(Process) /\ Len(r) = Len(claims[i]) - 1
        /\ \A j \in 1..c-1 : r[j] = claims[i][j]
        /\ \A j \in c..Len(claims[i])-1 : r[j] = claims[i][j+1]
    BY <1>2, RemovedAt
  <1> HIDE DEF r
  <1>4. ASSUME NEW j \in 1..Len(claims[i]), claims[i][j] # p
        PROVE  \E m \in 1..Len(r) : r[m] = claims[i][j]
    <2>1. CASE j < c
      BY <2>1, <1>2, <1>3
    <2>2. CASE j > c
      <3>1. r[j-1] = claims[i][j] /\ j-1 \in 1..Len(r)
        BY <2>2, <1>2, <1>3
      <3>2. QED
        BY <3>1
    <2>3. j # c
      BY <1>2, <1>4
    <2>4. QED
      BY <2>1, <2>2, <2>3, <1>2
  <1>5. claims[i][1] # p => r # <<>> /\ r[1] = claims[i][1]
    BY <1>2, <1>3
  <1>6. QED
    BY <1>1, <1>3, <1>4, <1>5

-----------------------------------------------------------------------------
\* The two workers of a process; nothing else is used of their form.
LEMMA Workers ==
  /\ \A p \in Process : /\ Own(p) \in Worker /\ Boss(Own(p)) = p
                        /\ Again(p) \in Worker /\ Boss(Again(p)) = p
                        /\ Own(p) # Again(p)
  /\ \A w \in Worker : Boss(w) \in Process /\ (w = Own(Boss(w)) \/ w = Again(Boss(w)))
  BY DEF Worker, Own, Again, Boss

\* Where processes are: the conjuncts of TypeOK about pc, queue and cand.
Placed ==
  /\ pc \in [Process -> Locations]
  /\ queue \in [Process -> SUBSET Entry]
  /\ cand \in [Process -> SUBSET Issue]
  /\ \A p \in Process : cand[p] # {} <=> pc[p] \in Dispatching \cup {"enter"}
  /\ \A p, q \in Process :
       pc[p] \in Dispatching /\ pc[q] \in Dispatching /\ HostOf[p] = HostOf[q] => p = q

LEMMA TypePlaced == TypeOK => Placed
  BY DEF TypeOK, Placed, Locations

\* A process may go among issues if it has candidates, and holds the lock
\* already or finds it free.
LEMMA GotoPlaced ==
  ASSUME Placed, NEW p \in Process, NEW where \in Locations, Goto(p, where),
         \/ where = "idle"
         \/ where = "record" /\ cand[p] = {}
         \/ where \in Dispatching /\ cand[p] # {},
         where \in Dispatching => pc[p] \in Dispatching \/ ~SpawnLocked(HostOf[p])
  PROVE  Placed'
  <1>1. \A q \in Process \ {p} :
          pc'[q] = pc[q] /\ queue'[q] = queue[q] /\ cand'[q] = cand[q]
    BY DEF Placed, Goto
  <1>2. pc'[p] = where /\ (cand'[p] # {} <=> where \in Dispatching \cup {"enter"})
    BY DEF Placed, Goto, Dispatching
  <1>3. ASSUME NEW a \in Process, NEW b \in Process, pc'[a] \in Dispatching,
               pc'[b] \in Dispatching, HostOf[a] = HostOf[b]
        PROVE  a = b
    BY <1>1, <1>2, <1>3 DEF Placed, SpawnLocked, Dispatching
  <1>4. /\ pc' \in [Process -> Locations] /\ queue' \in [Process -> SUBSET Entry]
        /\ cand' \in [Process -> SUBSET Issue]
    BY DEF Placed, Goto
  <1>5. QED
    BY <1>1, <1>2, <1>3, <1>4 DEF Placed

LEMMA SkipPlaced ==
  ASSUME Placed, NEW p \in Process, pc[p] \in Dispatching, Skip(p)
  PROVE  Placed'
  <1>1. \A q \in Process \ {p} : pc'[q] = pc[q] /\ cand'[q] = cand[q]
    BY DEF Placed, Skip
  <1>2. pc'[p] = IF cand'[p] = {} THEN "idle" ELSE "check"
    BY DEF Placed, Skip
  <1>3. /\ pc' \in [Process -> Locations] /\ queue' \in [Process -> SUBSET Entry]
        /\ cand' \in [Process -> SUBSET Issue]
    <2>1. pc' \in [Process -> Locations]
      BY DEF Placed, Skip, Locations, Dispatching
    <2>2. cand' \in [Process -> SUBSET Issue]
      BY DEF Placed, Skip
    <2>3. QED
      BY <2>1, <2>2 DEF Placed, Skip
  <1>4. ASSUME NEW a \in Process, NEW b \in Process, pc'[a] \in Dispatching,
               pc'[b] \in Dispatching, HostOf[a] = HostOf[b]
        PROVE  a = b
    BY <1>1, <1>4 DEF Placed
  <1>5. \A q \in Process : cand'[q] # {} <=> pc'[q] \in Dispatching \cup {"enter"}
    BY <1>1, <1>2 DEF Placed, Dispatching
  <1>6. QED
    BY <1>3, <1>4, <1>5 DEF Placed

\* One more in a table of counts.
LEMMA Counted ==
  ASSUME NEW S, NEW T, NEW f \in [S -> [T -> Nat]], NEW h \in S, NEW i \in T
  PROVE  [f EXCEPT ![h][i] = @ + 1] \in [S -> [T -> Nat]]
  <1>1. [f[h] EXCEPT ![i] = @ + 1] \in [T -> Nat]
    OBVIOUS
  <1>2. QED
    BY <1>1

\* Whoever goes or skips keeps, or drops, a name it was given.
LEMMA NamedType ==
  ASSUME TypeOK, NEW p \in Process, NEW where, Goto(p, where) \/ Skip(p)
  PROVE  named' \subseteq Process
  BY DEF TypeOK, Goto, Skip

\* A pass that lands pull requests stays away from issues.
LEMMA LandPlaced ==
  ASSUME Placed, NEW p \in Process,
         NEW where \in {"idle", "merge", "ready", "update", "work", "repair"},
         pc' = [pc EXCEPT ![p] = where], pc[p] \notin Dispatching \cup {"enter"},
         queue' \in [Process -> SUBSET Entry], UNCHANGED cand
  PROVE  Placed'
  BY DEF Placed, Locations, Dispatching

\* The selection of issues, with or without a name.
LEMMA SelectType ==
  ASSUME TypeOK, NEW p \in Process, Select(p) \/ SelectNamed(p)
  PROVE  /\ cand' \in [Process -> SUBSET Issue]
         /\ \A q \in Process \ {p} : cand'[q] = cand[q]
         /\ marker' \in [Host -> [Issue -> Pull \cup {None, Requeued}]]
         /\ blocked' \subseteq Issue
         /\ named' \subseteq Process
  <1> DEFINE h == HostOf[p]
  <1>1. OpenIssues \subseteq Issue /\ h \in Host
    BY EvolveAssumption DEF OpenIssues, TypeOK
  <1>2. Unapplied(h) \subseteq Issue /\ DeadLetter(h) \subseteq Issue
    BY <1>1 DEF Unapplied, DeadLetter
  <1>3. cand' \in [Process -> SUBSET Issue] /\ \A q \in Process \ {p} : cand'[q] = cand[q]
    <2>1. CASE Select(p)
      BY <1>2, <2>1 DEF Select, TypeOK
    <2>2. CASE SelectNamed(p)
      <3>1. PICK i \in site.issues : cand' = [cand EXCEPT ![p] = {i} \cap Unapplied(h)]
        BY <2>2 DEF SelectNamed
      <3>2. QED
        BY <1>2, <3>1 DEF TypeOK
    <2>3. QED
      BY <2>1, <2>2
  <1>4. blocked' \subseteq Issue /\ named' \subseteq Process
    BY <1>2 DEF Select, SelectNamed, TypeOK
  <1>5. marker' \in [Host -> [Issue -> Pull \cup {None, Requeued}]]
    <2> DEFINE taken == [i \in Issue |-> IF i \in Withdrawn(h) THEN Requeued ELSE marker[h][i]]
    <2>1. taken \in [Issue -> Pull \cup {None, Requeued}]
      BY <1>1 DEF TypeOK
    <2>2. marker' = [marker EXCEPT ![h] = taken]
      BY <1>1 DEF Select, SelectNamed, Withdraw, TypeOK
    <2> HIDE DEF taken
    <2>3. QED
      BY <1>1, <2>1, <2>2 DEF TypeOK
  <1>6. QED
    BY <1>3, <1>4, <1>5

\* The entry of a queue that a process takes.
LEMMA OldestPull ==
  ASSUME Placed, NEW p \in Process, NEW S \in SUBSET queue[p], S # {}
  PROVE  Oldest(S) \in S /\ Oldest(S) \in Entry /\ Oldest(S).pull \in Pull
  <1>1. S \in SUBSET Entry
    BY DEF Placed
  <1>2. QED
    BY <1>1, OldestIn DEF Entry

\* What happens to a pull request.
LEMMA UpdatedRecord ==
  ASSUME NEW r \in PullRecord
  PROVE  /\ \A x \in {"merged", "closed"} : [r EXCEPT !.state = x] \in PullRecord
         /\ \A x \in {"pending", "red", "green"} : [r EXCEPT !.checks = x] \in PullRecord
  BY DEF PullRecord

LEMMA RebasedType ==
  ASSUME TypeOK, NEW n \in Pull
  PROVE  Rebased(n) \in [Pull -> PullRecord] /\ Pushed(n) \in [Process -> SUBSET Entry]
  <1>1. Rebased(n) \in [Pull -> PullRecord]
    <2> DEFINE r == [pull[n] EXCEPT !.base = "fresh", !.checks = "none"]
    <2>1. pull \in [Pull -> PullRecord]
      BY DEF TypeOK
    <2>2. r \in PullRecord
      BY <2>1 DEF PullRecord
    <2>3. Rebased(n) = [pull EXCEPT ![n] = r]
      BY <2>1 DEF Rebased, PullRecord
    <2>4. QED
      BY <2>1, <2>2, <2>3
  <1>2. ASSUME NEW p \in Process, NEW e \in queue[p]
        PROVE  [e EXCEPT !.head = e.head /\ e.pull # n] \in Entry
    <2>1. e \in Entry
      BY DEF TypeOK
    <2> DEFINE v == e.head /\ e.pull # n
    <2>2. v \in BOOLEAN
      OBVIOUS
    <2> HIDE DEF v
    <2>3. [e EXCEPT !.head = v] \in Entry
      BY <2>1, <2>2 DEF Entry
    <2>4. QED
      BY <2>3 DEF v
  <1>3. QED
    BY <1>1, <1>2 DEF Pushed

LEMMA ReadiedType ==
  ASSUME TypeOK, NEW n \in Pull
  PROVE  [pull EXCEPT ![n].draft = FALSE] \in [Pull -> PullRecord]
  <1> DEFINE r == [pull[n] EXCEPT !.draft = FALSE]
  <1>1. pull \in [Pull -> PullRecord]
    BY DEF TypeOK
  <1>2. r \in PullRecord
    BY <1>1 DEF PullRecord
  <1>3. [pull EXCEPT ![n].draft = FALSE] = [pull EXCEPT ![n] = r]
    BY <1>1 DEF PullRecord
  <1>4. QED
    BY <1>1, <1>2, <1>3

LEMMA OvertakenType ==
  ASSUME TypeOK, NEW m \in Pull, NEW conflicting
  PROVE  /\ Overtaken(m, conflicting) \in PullRecord
         /\ Overtaken(m, conflicting).state = pull[m].state
         /\ Overtaken(m, conflicting).issue = pull[m].issue
  <1>1. pull[m] \in PullRecord
    BY DEF TypeOK
  <1>2. ASSUME NEW b \in {"conflict", "behind"}
        PROVE  /\ [pull[m] EXCEPT !.base = b] \in PullRecord
               /\ [pull[m] EXCEPT !.base = b].state = pull[m].state
               /\ [pull[m] EXCEPT !.base = b].issue = pull[m].issue
    BY <1>1 DEF PullRecord
  <1>3. \/ Overtaken(m, conflicting) = pull[m]
        \/ \E b \in {"conflict", "behind"} :
             Overtaken(m, conflicting) = [pull[m] EXCEPT !.base = b]
    BY <1>1 DEF Overtaken, PullRecord
  <1>4. QED
    BY <1>1, <1>2, <1>3

\* The candidate that a process tries.
LEMMA TryingIn ==
  ASSUME Placed, NEW p \in Process, pc[p] \in Dispatching
  PROVE  Trying(p) \in cand[p] /\ Trying(p) \in Issue
  <1>1. cand[p] \in SUBSET Nat /\ cand[p] # {} /\ cand[p] \subseteq Issue
    BY EvolveAssumption DEF Placed
  <1>2. QED
    BY <1>1, MinIn DEF Trying

\* Whoever waits for the outcome of a race, or won it, has a claim.
Posted ==
  \A p \in Process : pc[p] \in {"race", "spawn"} =>
    \E k \in 1..Len(claims[Trying(p)]) : claims[Trying(p)][k] = p

\* Whoever repairs a pull request, or has, knows which.
Chosen ==
  \A p \in Process : pc[p] \in {"repair", "record"} => \E e \in queue[p] : queue[p] = {e}

\* What a process with a claim takes back is a claim.
LEMMA RetractedType ==
  ASSUME TypeOK, Posted, NEW p \in Process, pc[p] \in {"race", "spawn"}
  PROVE  /\ Trying(p) \in Issue
         /\ Retracted(Trying(p), p) \in Seq(Process)
         /\ [claims EXCEPT ![Trying(p)] = Retracted(Trying(p), p)] \in [Issue -> Seq(Process)]
  <1>1. Trying(p) \in Issue
    BY TypePlaced, TryingIn DEF Dispatching
  <1>2. PICK k \in 1..Len(claims[Trying(p)]) : claims[Trying(p)][k] = p
    BY DEF Posted
  <1>3. claims[Trying(p)] \in Seq(Process)
    BY <1>1 DEF TypeOK
  <1>4. Retracted(Trying(p), p) \in Seq(Process)
    BY <1>1, <1>2, <1>3, RetractedLeaves
  <1>5. QED
    BY <1>1, <1>4 DEF TypeOK

-----------------------------------------------------------------------------
\* Types are kept, and the lock admits one process per machine.
LEMMA TypeStep ==
  ASSUME TypeOK, Posted, Chosen, [Next]_vars
  PROVE  TypeOK'
  <1> USE EvolveAssumption
  <1>0. Placed /\ site.process \subseteq Process
    BY TypePlaced DEF TypeOK, spent
  <1>p. ASSUME Placed'
        PROVE  /\ pc' \in [Process -> Locations]
               /\ queue' \in [Process -> SUBSET Entry]
               /\ cand' \in [Process -> SUBSET Issue]
               /\ \A p \in Process : cand'[p] # {} <=> pc'[p] \in Dispatching \cup {"enter"}
               /\ \A p, q \in Process :
                    pc'[p] \in Dispatching /\ pc'[q] \in Dispatching /\ HostOf[p] = HostOf[q] => p = q
    BY <1>p DEF Placed
  <1>t. /\ tries \in [Host -> [Issue -> Nat]] /\ cooling \in [Host -> SUBSET Issue]
        /\ repairs \in [Host -> [Pull -> Nat]] /\ claims \in [Issue -> Seq(Process)]
        /\ pull \in [Pull -> PullRecord] /\ child \in [Worker -> Assignment]
        /\ builds \in [Host -> [Issue -> Nat]] /\ mends \in [Host -> [Pull -> Nat]]
        /\ lost \in [Host -> Nat]
    BY DEF TypeOK, spent
  <1>f. Fault => faults' \in Nat
    BY DEF TypeOK, Fault, spent
  <1>1. ASSUME NEW p \in site.process, Sweep(p) PROVE TypeOK'
    <2>1. queue' \in [Process -> SUBSET Entry]
      <3>1. ASSUME NEW n \in Pull PROVE Action(HostOf[p], n) \in
               {"wait", "repair", "update", "fix", "ready", "merge"}
        BY DEF Action, TypeOK, PullRecord, spent
      <3>2. \A n \in OpenPulls :
               [pull |-> n, action |-> Action(HostOf[p], n), head |-> TRUE] \in Entry
        BY <3>1 DEF Entry, OpenPulls
      <3>3. {[pull |-> n, action |-> Action(HostOf[p], n), head |-> TRUE] : n \in OpenPulls}
               \in SUBSET Entry
        BY <3>2
      <3>4. QED
        BY <1>1, <3>3 DEF Sweep, TypeOK, spent
    <2>2. Placed'
      BY <1>0, <1>1, <2>1, LandPlaced DEF Sweep, Dispatching
    <2>3. bare' \subseteq Pull
      BY <1>1 DEF Sweep, TypeOK, OpenPulls
    <2>4. QED
      BY <1>0, <1>1, <1>p, <2>2, <2>3 DEF Sweep, TypeOK, github, ledger, spent
  <1>2. ASSUME NEW p \in site.process, Manual(p) PROVE TypeOK'
    <2>1. Placed'
      <3>1. cand' \in [Process -> SUBSET Issue] /\ \A q \in Process \ {p} : cand'[q] = cand[q]
        BY <1>0, <1>2, SelectType DEF Manual
      <3>2. pc' = [pc EXCEPT ![p] = IF cand'[p] = {} THEN "idle" ELSE "check"]
        BY <1>2 DEF Manual
      <3>3. pc[p] = "idle" /\ \A q \in Process : HostOf[q] = HostOf[p] => pc[q] \notin Dispatching
        BY <1>2 DEF Manual, SpawnLocked, Dispatching
      <3>4. queue' = queue /\ pc' \in [Process -> Locations]
        BY <1>0, <1>2, <3>2 DEF Manual, Placed, Locations, Dispatching
      <3>5. \A q \in Process : cand'[q] # {} <=> pc'[q] \in Dispatching \cup {"enter"}
        BY <1>0, <3>1, <3>2 DEF Placed, Dispatching
      <3>6. ASSUME NEW a \in Process, NEW b \in Process, pc'[a] \in Dispatching,
                   pc'[b] \in Dispatching, HostOf[a] = HostOf[b]
            PROVE  a = b
        BY <1>0, <3>2, <3>3, <3>6 DEF Placed
      <3>7. QED
        BY <1>0, <3>1, <3>4, <3>5, <3>6 DEF Placed
    <2>2. QED
      BY <1>0, <1>2, <1>p, <1>f, <2>1, SelectType DEF Manual, TypeOK, spent
  <1>3. ASSUME NEW p \in site.process, Merge(p) PROVE TypeOK'
    <2>1. Placed'
      <3>1. queue' \in [Process -> SUBSET Entry]
        <4>1. UNCHANGED queue \/ \E e : queue' = [queue EXCEPT ![p] = @ \ {e}]
          BY <1>3 DEF Merge
        <4>2. QED
          BY <1>0, <4>1 DEF Placed
      <3>2. QED
        BY <1>0, <1>3, <3>1, LandPlaced DEF Merge, Dispatching
    <2>2. pull' \in [Pull -> PullRecord]
      <3>1. pull \in [Pull -> PullRecord]
        BY DEF TypeOK, spent
      <3>2. ASSUME NEW m \in Pull PROVE [pull[m] EXCEPT !.state = "merged"] \in PullRecord
        BY <3>1 DEF PullRecord
      <3>3. ASSUME NEW n \in Pull, NEW conflicting
            PROVE  [m \in Pull |-> IF m = n THEN [pull[m] EXCEPT !.state = "merged"]
                                   ELSE Overtaken(m, conflicting)] \in [Pull -> PullRecord]
        BY <3>2, OvertakenType
      <3> DEFINE able == {e \in Queued(p, {"merge"}) : Mergeable(e)}
      <3>4. able # {} => Oldest(able).pull \in Pull
        BY <1>0, OldestPull DEF Queued
      <3>5. \/ UNCHANGED pull
            \/ able # {} /\ \E conflicting \in SUBSET OpenPulls :
                 pull' = [m \in Pull |->
                   IF m = Oldest(able).pull THEN [pull[m] EXCEPT !.state = "merged"]
                   ELSE Overtaken(m, conflicting)]
        BY <1>3 DEF Merge
      <3> HIDE DEF able
      <3>6. CASE UNCHANGED pull
        BY <3>1, <3>6
      <3>7. ASSUME able # {}, NEW conflicting \in SUBSET OpenPulls,
                   pull' = [m \in Pull |->
                     IF m = Oldest(able).pull THEN [pull[m] EXCEPT !.state = "merged"]
                     ELSE Overtaken(m, conflicting)]
            PROVE  pull' \in [Pull -> PullRecord]
        <4>1. PICK n \in Pull : n = Oldest(able).pull
          BY <3>4, <3>7
        <4>2. pull' = [m \in Pull |-> IF m = n THEN [pull[m] EXCEPT !.state = "merged"]
                                      ELSE Overtaken(m, conflicting)]
          BY <4>1, <3>7
        <4>3. QED
          BY <4>2, <3>3
      <3>8. QED
        BY <3>5, <3>6, <3>7
    <2>3. faults' \in Nat
      BY <1>3, <1>f DEF Merge, TypeOK, spent
    <2>4. QED
      BY <1>3, <1>p, <2>1, <2>2, <2>3 DEF Merge, TypeOK, ledger, spent
  <1>4. ASSUME NEW p \in site.process, Ready(p) PROVE TypeOK'
    <2>1. Placed'
      BY <1>0, <1>4, LandPlaced DEF Ready, Dispatching, Placed
    <2>2. pull' \in [Pull -> PullRecord]
      <3>1. pull \in [Pull -> PullRecord]
        BY DEF TypeOK, spent
      <3> DEFINE drafts == Queued(p, {"ready"})
      <3>2. drafts # {} => Oldest(drafts).pull \in Pull
        BY <1>0, OldestPull DEF Queued
      <3>3. \/ UNCHANGED pull
            \/ drafts # {} /\ pull' = [pull EXCEPT ![Oldest(drafts).pull].draft = FALSE]
        BY <1>4 DEF Ready
      <3> HIDE DEF drafts
      <3>4. QED
        BY <3>1, <3>2, <3>3, ReadiedType
    <2>3. faults' \in Nat
      BY <1>4, <1>f DEF Ready, TypeOK, spent
    <2>4. QED
      BY <1>4, <1>p, <2>1, <2>2, <2>3 DEF Ready, TypeOK, ledger, spent
  <1>5. ASSUME NEW p \in site.process, Update(p) PROVE TypeOK'
    <2> DEFINE able == {e \in Pool(p) : Updatable(e)}
    <2>1. able # {} => Oldest(able).pull \in Pull
      BY <1>0, OldestPull DEF Pool, Queued
    <2>2. \/ UNCHANGED <<pull, queue>>
          \/ /\ able # {} /\ pull' = Rebased(Oldest(able).pull)
             /\ queue' = Pushed(Oldest(able).pull)
      BY <1>5 DEF Update
    <2> HIDE DEF able
    <2>3. queue' \in [Process -> SUBSET Entry] /\ pull' \in [Pull -> PullRecord]
      BY <2>1, <2>2, RebasedType DEF TypeOK, spent
    <2>4. Placed'
      BY <1>0, <1>5, <2>3, LandPlaced DEF Update, Dispatching
    <2>5. faults' \in Nat
      BY <1>5, <1>f DEF Update, TypeOK, spent
    <2>6. QED
      BY <1>5, <1>p, <2>3, <2>4, <2>5 DEF Update, TypeOK, ledger, spent
  <1>6. ASSUME NEW p \in site.process, UpdateRed(p) PROVE TypeOK'
    <2>1. Oldest(Promising(p)).pull \in Pull
      BY <1>0, <1>6, OldestPull DEF UpdateRed, Promising
    <2>2. queue' \in [Process -> SUBSET Entry] /\ pull' \in [Pull -> PullRecord]
      BY <1>6, <2>1, RebasedType DEF UpdateRed
    <2>3. Placed'
      BY <1>0, <1>6, <2>2, LandPlaced DEF UpdateRed, Dispatching
    <2>4. QED
      BY <1>6, <1>p, <2>2, <2>3 DEF UpdateRed, TypeOK, ledger, spent
  <1>r. ASSUME NEW p \in site.process, pc[p] \in {"repair", "record"}
        PROVE  /\ Oldest(queue[p]).pull \in Pull /\ HostOf[p] \in Host
               /\ cand[p] = {} /\ pc[p] \notin Dispatching \cup {"enter"}
    <2>1. queue[p] # {}
      BY <1>0, <1>r DEF Chosen
    <2>2. Oldest(queue[p]).pull \in Pull
      BY <1>0, <2>1, OldestPull
    <2>3. pc[p] \notin Dispatching \cup {"enter"}
      BY <1>r DEF Dispatching
    <2>4. QED
      BY <1>0, <2>2, <2>3 DEF Placed
  <1>7. ASSUME NEW p \in site.process, Repair(p) PROVE TypeOK'
    <2>1. PICK n \in Pull, h \in Host : n = Oldest(queue[p]).pull /\ h = HostOf[p]
      BY <1>7, <1>r DEF Repair
    <2>2. Placed'
      BY <1>0, <1>7, <1>r, GotoPlaced DEF Repair, Locations, Dispatching
    <2>3. child' \in [Worker -> Assignment]
      <3>1. Mender(n) \in Assignment
        BY DEF Assignment, Mender
      <3>2. child' = child \/ child' = [child EXCEPT ![Own(p)] = Mender(n)]
        BY <1>7, <2>1 DEF Repair
      <3>3. QED
        BY <1>t, <3>1, <3>2
    <2>4. mends' \in [Host -> [Pull -> Nat]]
      <3>1. mends' = mends \/ mends' = [mends EXCEPT ![h][n] = @ + 1]
        BY <1>7, <2>1 DEF Repair
      <3>2. [mends EXCEPT ![h][n] = @ + 1] \in [Host -> [Pull -> Nat]]
        BY <1>t, Counted
      <3>3. QED
        BY <1>t, <3>1, <3>2
    <2>5. faults' \in Nat
      BY <1>7, <1>f DEF Repair, TypeOK, spent
    <2>6. named' \subseteq Process
      BY <1>7 DEF Repair, Goto, TypeOK, spent
    <2>7. QED
      BY <1>7, <1>p, <2>2, <2>3, <2>4, <2>5, <2>6 DEF Repair, TypeOK, github, ledger, spent
  <1>r1. ASSUME NEW p \in site.process, Record(p) PROVE TypeOK'
    <2>1. PICK n \in Pull, h \in Host : n = Oldest(queue[p]).pull /\ h = HostOf[p]
      BY <1>r1, <1>r DEF Record
    <2>2. Placed'
      BY <1>0, <1>r1, GotoPlaced DEF Record, Locations, Dispatching
    <2>3. repairs' = [repairs EXCEPT ![h][n] = @ + 1]
      BY <1>r1, <2>1 DEF Record
    <2>4. repairs' \in [Host -> [Pull -> Nat]]
      BY <1>t, <2>3
    <2>5. named' \subseteq Process
      BY <1>r1 DEF Record, Goto, TypeOK, spent
    <2>6. QED
      BY <1>r1, <1>p, <2>2, <2>4, <2>5 DEF Record, TypeOK, github, spent
  <1>r2. ASSUME NEW p \in site.process, Choose(p) PROVE TypeOK'
    <2>1. Oldest(Promising(p)) \in Entry
      BY <1>0, <1>r2, OldestPull DEF Choose, Promising
    <2>2. queue' \in [Process -> SUBSET Entry]
      BY <1>0, <1>r2, <2>1 DEF Choose, Placed
    <2>3. Placed'
      BY <1>0, <1>r2, <2>2, LandPlaced DEF Choose, Dispatching
    <2>4. faults' \in Nat
      BY <1>r2, <1>f DEF Choose, TypeOK, spent
    <2>5. QED
      BY <1>r2, <1>p, <2>3, <2>4 DEF Choose, TypeOK, github, ledger, spent
  <1>r3. ASSUME NEW p \in site.process, RepairByHand(p) PROVE TypeOK'
    <2>1. PICK n \in OpenPulls : child' = [child EXCEPT ![Own(p)] = Mender(n)]
      BY <1>r3 DEF RepairByHand
    <2>2. Mender(n) \in Assignment
      BY DEF Assignment, Mender, OpenPulls
    <2>3. child' \in [Worker -> Assignment]
      BY <1>t, <2>1, <2>2
    <2>4. QED
      BY <1>r3, <1>f, <2>3 DEF RepairByHand, TypeOK, github, ledger, process, spent
  <1>8. ASSUME NEW p \in site.process, Peek(p) PROVE TypeOK'
    <2>1. Placed'
      <3>1. cand' \in [Process -> SUBSET Issue] /\ \A q \in Process \ {p} : cand'[q] = cand[q]
        BY <1>0, <1>8, SelectType DEF Peek
      <3>2. QED
        BY <1>0, <1>8, <3>1 DEF Peek, Placed, Locations, Dispatching
    <2>2. faults' \in Nat
      BY <1>8, <1>f DEF Peek, TypeOK, spent
    <2>3. QED
      BY <1>0, <1>8, <1>p, <2>1, <2>2, SelectType DEF Peek, TypeOK, spent
  <1>9. ASSUME NEW p \in site.process, Enter(p) PROVE TypeOK'
    <2>1. Placed'
      BY <1>0, <1>9, GotoPlaced DEF Enter, Locations, Dispatching, Placed
    <2>2. named' \subseteq Process
      BY <1>0, <1>9, NamedType DEF Enter
    <2>3. QED
      BY <1>9, <1>p, <2>1, <2>2 DEF Enter, TypeOK, github, ledger, spent
  <1>10. ASSUME NEW p \in site.process, Check(p) PROVE TypeOK'
    <2>1. Placed'
      BY <1>0, <1>10, GotoPlaced, SkipPlaced DEF Check, Locations, Dispatching, Placed
    <2>2. named' \subseteq Process
      BY <1>0, <1>10, NamedType DEF Check
    <2>3. QED
      BY <1>10, <1>p, <2>1, <2>2 DEF Check, TypeOK, github, ledger, spent
  <1>11. ASSUME NEW p \in site.process, Post(p) PROVE TypeOK'
    <2>1. Placed'
      BY <1>0, <1>11, GotoPlaced, SkipPlaced DEF Post, Locations, Dispatching, Placed
    <2>2. Trying(p) \in Issue
      BY <1>0, <1>11, TryingIn DEF Post, Dispatching
    <2>3. claims' \in [Issue -> Seq(Process)] /\ faults' \in Nat
      <3>1. Append(claims[Trying(p)], p) \in Seq(Process)
        <4>1. claims[Trying(p)] \in Seq(Process) /\ p \in Process
          BY <1>0, <2>2 DEF TypeOK, spent
        <4>2. QED
          BY <4>1, AppendProperties
      <3>2. QED
        BY <1>11, <1>f, <2>2, <3>1 DEF Post, TypeOK, spent
    <2>4. named' \subseteq Process
      BY <1>0, <1>11, NamedType DEF Post
    <2>5. QED
      BY <1>11, <1>p, <2>1, <2>3, <2>4 DEF Post, TypeOK, ledger, spent
  <1>12. ASSUME NEW p \in site.process, Race(p) PROVE TypeOK'
    <2>1. Placed'
      BY <1>0, <1>12, GotoPlaced, SkipPlaced DEF Race, Locations, Dispatching, Placed
    <2>2. claims' \in [Issue -> Seq(Process)] /\ faults' \in Nat
      <3>1. claims' = claims \/ claims' = [claims EXCEPT ![Trying(p)] = Retracted(Trying(p), p)]
        BY <1>12 DEF Race, Retract
      <3>2. claims' \in [Issue -> Seq(Process)]
        <4>1. [claims EXCEPT ![Trying(p)] = Retracted(Trying(p), p)] \in [Issue -> Seq(Process)]
          BY <1>0, <1>12, RetractedType DEF Race
        <4>2. QED
          BY <1>t, <3>1, <4>1
      <3>3. QED
        BY <1>12, <1>f, <3>2 DEF Race, Retract, TypeOK, spent
    <2>3. named' \subseteq Process
      BY <1>0, <1>12, NamedType DEF Race
    <2>4. QED
      BY <1>12, <1>p, <2>1, <2>2, <2>3 DEF Race, Retract, TypeOK, Fault, ledger, spent
  <1>13. ASSUME NEW p \in site.process, Spawn(p) PROVE TypeOK'
    <2>1. Placed'
      BY <1>0, <1>13, GotoPlaced DEF Spawn, Locations, Dispatching
    <2>2. Trying(p) \in Issue /\ HostOf[p] \in Host
      BY <1>0, <1>13, TryingIn DEF Spawn, Dispatching
    <2>3. child' \in [Worker -> Assignment]
      <3>1. [kind |-> "issue", on |-> Trying(p), pull |-> None] \in Assignment
        BY <2>2 DEF Assignment
      <3>2. QED
        BY <1>13, <1>t, <3>1 DEF Spawn
    <2>4. tries' \in [Host -> [Issue -> Nat]]
      <3>1. PICK i \in Issue, h \in Host : i = Trying(p) /\ h = HostOf[p]
        BY <2>2
      <3>2. tries' = tries \/ tries' = [tries EXCEPT ![h][i] = @ + 1]
        BY <1>13, <3>1 DEF Spawn
      <3>3. CASE tries' = tries
        BY <1>t, <3>3
      <3>4. CASE tries' = [tries EXCEPT ![h][i] = @ + 1]
        BY <1>t, <3>1, <3>4
      <3>5. QED
        BY <3>2, <3>3, <3>4
    <2>5. cooling' \in [Host -> SUBSET Issue]
      <3>1. PICK i \in Issue, h \in Host : i = Trying(p) /\ h = HostOf[p]
        BY <2>2
      <3>2. cooling' = cooling \/ cooling' = [cooling EXCEPT ![h] = @ \cup {i}]
        BY <1>13, <3>1 DEF Spawn
      <3>3. CASE cooling' = cooling
        BY <1>t, <3>3
      <3>4. CASE cooling' = [cooling EXCEPT ![h] = @ \cup {i}]
        BY <1>t, <3>1, <3>4
      <3>5. QED
        BY <3>2, <3>3, <3>4
    <2>6. faults' \in Nat
      BY <1>13, <1>f DEF Spawn, TypeOK, spent
    <2>7. builds' \in [Host -> [Issue -> Nat]] /\ lost' \in [Host -> Nat]
      <3>1. PICK i \in Issue, h \in Host : i = Trying(p) /\ h = HostOf[p]
        BY <2>2
      <3>2. builds' = builds \/ builds' = [builds EXCEPT ![h][i] = @ + 1]
        BY <1>13, <3>1 DEF Spawn
      <3>3. lost' = lost \/ lost' = [lost EXCEPT ![h] = @ + 1]
        BY <1>13, <3>1 DEF Spawn
      <3>4. builds' \in [Host -> [Issue -> Nat]]
        <4>1. [builds EXCEPT ![h][i] = @ + 1] \in [Host -> [Issue -> Nat]]
          BY <1>t, Counted
        <4>2. QED
          BY <1>t, <3>2, <4>1
      <3>5. lost' \in [Host -> Nat]
        <4>1. [lost EXCEPT ![h] = @ + 1] \in [Host -> Nat]
          BY <1>t
        <4>2. QED
          BY <1>t, <3>3, <4>1
      <3>6. QED
        BY <3>4, <3>5
    <2>8. named' \subseteq Process
      BY <1>13 DEF Spawn, Goto, TypeOK, spent
    <2>9. QED
      BY <1>13, <1>p, <2>1, <2>3, <2>4, <2>5, <2>6, <2>7, <2>8 DEF Spawn, TypeOK, github, spent
  <1>14. ASSUME NEW p \in site.process, Rest(p) PROVE TypeOK'
    <2>1. Placed'
      BY <1>0, <1>14, GotoPlaced DEF Rest, Locations, Dispatching
    <2>2. named' \subseteq Process
      BY <1>0, <1>14, NamedType DEF Rest
    <2>3. QED
      BY <1>14, <1>p, <2>1, <2>2 DEF Rest, TypeOK, github, ledger, spent
  <1>15. ASSUME NEW p \in site.process, Unreachable(p) PROVE TypeOK'
    <2>1. Placed'
      BY <1>0, <1>15, SkipPlaced DEF Unreachable, Dispatching
    <2>2. named' \subseteq Process
      BY <1>0, <1>15, NamedType DEF Unreachable
    <2>3. QED
      BY <1>15, <1>p, <1>f, <2>1, <2>2 DEF Unreachable, TypeOK, github, ledger, spent
  <1>16. ASSUME NEW p \in site.process, Abandon(p) PROVE TypeOK'
    <2>1. Placed'
      BY <1>0, <1>16, SkipPlaced, GotoPlaced DEF Abandon, Locations, Dispatching
    <2>2. claims' \in [Issue -> Seq(Process)]
      BY <1>0, <1>16, RetractedType DEF Abandon
    <2>3. faults' \in Nat
      BY <1>16 DEF Abandon, TypeOK, spent
    <2>4. named' \subseteq Process
      BY <1>0, <1>16, NamedType DEF Abandon
    <2>5. QED
      BY <1>16, <1>p, <2>1, <2>2, <2>3, <2>4 DEF Abandon, TypeOK, ledger, spent
  <1>17. ASSUME NEW p \in site.process, Die(p) PROVE TypeOK'
    <2>1. Placed'
      BY <1>0, <1>17, GotoPlaced DEF Die, Locations, Dispatching
    <2>2. lost' \in [Host -> Nat]
      <3>1. PICK h \in Host : h = HostOf[p]
        BY <1>0
      <3>2. lost' = lost \/ lost' = [lost EXCEPT ![h] = @ + 1]
        BY <1>17, <3>1 DEF Die
      <3>3. [lost EXCEPT ![h] = @ + 1] \in [Host -> Nat]
        BY <1>t
      <3>4. QED
        BY <1>t, <3>2, <3>3
    <2>3. named' \subseteq Process
      BY <1>17 DEF Die, Goto, TypeOK, spent
    <2>4. QED
      BY <1>17, <1>p, <1>f, <2>1, <2>2, <2>3 DEF Die, TypeOK, github, ledger, spent
  <1>18. ASSUME NEW w \in Worker, OpenPull(w) PROVE TypeOK'
    <2> DEFINE free == {n \in Pull : pull[n].state = "none"}
    <2>1. free # {} /\ Min(free) \in Pull
      BY <1>18, MinIn DEF OpenPull, Pull
    <2>2. child[w].on \in Issue
      BY <1>18 DEF OpenPull, OpenIssues, TypeOK, spent
    <2>3. pull' \in [Pull -> PullRecord] /\ faults' \in Nat
      <3>1. ASSUME NEW draft \in BOOLEAN, NEW i \in Issue, NEW h \in Host
            PROVE  [issue |-> i, host |-> h, state |-> "open", draft |-> draft,
                    checks |-> "none", base |-> "fresh"] \in PullRecord
        BY DEF PullRecord
      <3>2. PICK draft \in BOOLEAN :
              /\ IF draft THEN Fault ELSE UNCHANGED faults
              /\ pull' = [pull EXCEPT ![Min(free)] =
                   [issue |-> child[w].on, host |-> Place(w), state |-> "open",
                    draft |-> draft, checks |-> "none", base |-> "fresh"]]
        BY <1>18 DEF OpenPull
      <3>3. pull' \in [Pull -> PullRecord]
        BY <1>0, <2>1, <2>2, <3>1, <3>2, Workers DEF TypeOK, Place, spent
      <3>4. QED
        BY <1>f, <3>2, <3>3 DEF TypeOK, spent
    <2>4. child' \in [Worker -> Assignment]
      <3>1. child[w] \in [kind : {"issue"}, on : Issue, pull : Pull \cup {None}]
        BY <1>0, <1>18, <1>t DEF OpenPull, Assignment, NoChild
      <3>2. [child[w] EXCEPT !.pull = Min(free)] \in Assignment
        BY <2>1, <3>1 DEF Assignment
      <3>3. child' = [child EXCEPT ![w] = [child[w] EXCEPT !.pull = Min(free)]]
        BY <1>0, <1>18, <1>t DEF OpenPull
      <3>4. QED
        BY <1>0, <1>t, <3>2, <3>3
    <2>5. Placed'
      BY <1>0, <1>18 DEF OpenPull, process, Placed
    <2>6. QED
      BY <1>18, <1>p, <2>3, <2>4, <2>5 DEF OpenPull, TypeOK, ledger, process, spent
  <1>19. ASSUME NEW p \in site.process, MarkApplied(p) PROVE TypeOK'
    <2>1. child[Own(p)].on \in Issue /\ child[Own(p)].pull \in Pull /\ HostOf[p] \in Host
      BY <1>0, <1>19, <1>t, Workers DEF MarkApplied, Assignment, NoChild, None, Pull
    <2>2. marker' \in [Host -> [Issue -> Pull \cup {None, Requeued}]]
      <3>1. ASSUME NEW h \in Host, NEW i \in Issue, NEW n \in Pull
            PROVE  [marker EXCEPT ![h][i] = n] \in [Host -> [Issue -> Pull \cup {None, Requeued}]]
        BY DEF TypeOK, spent
      <3>2. QED
        BY <1>19, <2>1, <3>1 DEF MarkApplied
    <2>3. QED
      BY <1>19, <2>2 DEF MarkApplied, TypeOK, github, process, spent
  <1>20. ASSUME NEW w \in Worker, Push(w) PROVE TypeOK'
    <2>1. child[w].on \in Pull
      BY <1>0, <1>20, <1>t DEF Push, Assignment, NoChild
    <2>2. pull' \in [Pull -> PullRecord] /\ queue' \in [Process -> SUBSET Entry]
      BY <1>20, <2>1, RebasedType DEF Push
    <2>3. child' \in [Worker -> Assignment]
      BY <1>0, <1>20, <1>t DEF Push, Assignment
    <2>4. Placed'
      BY <1>0, <1>20, <2>2 DEF Push, Placed
    <2>5. QED
      BY <1>20, <1>p, <2>2, <2>3, <2>4 DEF Push, TypeOK, ledger, spent
  <1>21. ASSUME NEW w \in Worker, End(w) PROVE TypeOK'
    <2>1. child' \in [Worker -> Assignment]
      BY <1>0, <1>21, <1>t DEF End, Assignment
    <2>2. QED
      BY <1>21, <2>1 DEF End, TypeOK, github, ledger, process, spent
  <1>21a. ASSUME NEW p \in site.process, TimeOut(p) PROVE TypeOK'
    <2>1. child' \in [Worker -> Assignment]
      BY <1>0, <1>21a, <1>t, Workers DEF TimeOut, Assignment
    <2>2. QED
      BY <1>21a, <2>1 DEF TimeOut, TypeOK, github, ledger, process, spent
  <1>22. ASSUME NEW n \in Pull, Checked(n) PROVE TypeOK'
    <2>1. ASSUME NEW x \in {"pending", "red", "green"}
          PROVE  [pull EXCEPT ![n].checks = x] \in [Pull -> PullRecord]
      <3> DEFINE r == [pull[n] EXCEPT !.checks = x]
      <3>1. pull \in [Pull -> PullRecord]
        BY <1>t
      <3>2. r \in PullRecord
        BY <2>1, <3>1, UpdatedRecord
      <3>3. [pull EXCEPT ![n].checks = x] = [pull EXCEPT ![n] = r]
        BY <3>1 DEF PullRecord
      <3>4. QED
        BY <3>1, <3>2, <3>3
    <2>2. pull' \in [Pull -> PullRecord]
      BY <1>22, <2>1 DEF Checked
    <2>3. QED
      BY <1>22, <2>2 DEF Checked, TypeOK, ledger, process, spent
  <1>23. ASSUME NEW i \in Issue, Expire(i) PROVE TypeOK'
    <2>1. Tail(claims[i]) \in Seq(Process)
      BY <1>23, <1>t, HeadTailProperties DEF Expire
    <2>2. claims' \in [Issue -> Seq(Process)]
      BY <1>23, <1>t, <2>1 DEF Expire
    <2>3. QED
      BY <1>23, <2>2 DEF Expire, TypeOK, ledger, process, spent
  <1>24. ASSUME NEW h \in Host, NEW i \in Issue, Cooled(h, i) PROVE TypeOK'
    <2>1. cooling' \in [Host -> SUBSET Issue]
      BY <1>24, <1>t DEF Cooled
    <2>2. Placed'
      BY <1>0, <1>24 DEF Cooled, Placed, process
    <2>3. QED
      BY <1>24, <1>p, <2>1, <2>2 DEF Cooled, TypeOK, github, process, spent
  <1>25. ASSUME Intervene PROVE TypeOK'
    <2>1. ASSUME NEW n \in Pull
          PROVE  [pull EXCEPT ![n].state = "closed"] \in [Pull -> PullRecord]
      <3> DEFINE r == [pull[n] EXCEPT !.state = "closed"]
      <3>1. pull \in [Pull -> PullRecord]
        BY <1>t
      <3>2. r \in PullRecord
        BY <2>1, <3>1, UpdatedRecord
      <3>3. [pull EXCEPT ![n].state = "closed"] = [pull EXCEPT ![n] = r]
        BY <3>1 DEF PullRecord
      <3>4. QED
        BY <3>1, <3>2, <3>3
    <2>2. ASSUME NEW conflicting \in SUBSET OpenPulls
          PROVE  [m \in Pull |-> Overtaken(m, conflicting)] \in [Pull -> PullRecord]
      BY OvertakenType
    <2>3. pull' \in [Pull -> PullRecord]
      <3>1. CASE \E n \in OpenPulls : pull' = [pull EXCEPT ![n].state = "closed"]
        BY <2>1, <3>1 DEF OpenPulls
      <3>2. CASE \E conflicting \in SUBSET OpenPulls :
                   pull' = [m \in Pull |-> Overtaken(m, conflicting)]
        BY <2>2, <3>2
      <3>3. QED
        BY <1>25, <3>1, <3>2 DEF Intervene
    <2>4. QED
      BY <1>25, <1>f, <2>3 DEF Intervene, TypeOK, ledger, process, spent
  <1>26. ASSUME UNCHANGED vars PROVE TypeOK'
    BY <1>26 DEF vars, github, ledger, process, TypeOK, spent
  <1>27. QED
    BY <1>1, <1>2, <1>3, <1>4, <1>5, <1>6, <1>7, <1>r1, <1>r2, <1>r3, <1>8, <1>9, <1>10, <1>11, <1>12, <1>13, <1>14, <1>15, <1>16, <1>17, <1>18, <1>19, <1>20, <1>21, <1>21a, <1>22, <1>23, <1>24, <1>25, <1>26 DEF Next, Step

-----------------------------------------------------------------------------
(* Why the lock, the claims and the look for pull requests are enough. *)

\* While a process tries issues its machine has no child of its own making, and
\* never has two; without restarts there are no others.
Locked ==
  /\ \A p, q \in Process :
       pc[p] \in Dispatching /\ HostOf[p] = HostOf[q] => child[Own(q)] = NoChild
  /\ \A p, q \in Process :
       HostOf[p] = HostOf[q] /\ child[Own(p)] # NoChild /\ child[Own(q)] # NoChild => p = q
  /\ site.retries \/ \A p \in Process : child[Again(p)] = NoChild

LEMMA LockedFlight == Locked => SingleFlight
  <1> SUFFICES ASSUME Locked, NEW v \in Worker, NEW w \in Worker, Place(v) = Place(w),
                      child[v] # NoChild, child[w] # NoChild, v # w
               PROVE  site.retries /\ (v = Again(Boss(v)) \/ w = Again(Boss(w)))
    BY DEF SingleFlight
  <1>1. ~(v = Own(Boss(v)) /\ w = Own(Boss(w)))
    BY Workers DEF Locked, Place
  <1>2. v = Again(Boss(v)) \/ w = Again(Boss(w))
    BY <1>1, Workers
  <1>3. site.retries
    BY <1>2, Workers DEF Locked
  <1>4. QED
    BY <1>2, <1>3

\* p's claim is the oldest: all others have lost or will lose.
Leads(p, i) == claims[i] # <<>> /\ claims[i][1] = p

\* Whoever starts an implementer leads until the last worker on it ends.
Claimed ==
  /\ \A p \in Process : pc[p] = "spawn" => Leads(p, Trying(p))
  /\ \A w \in Worker : child[w].kind = "issue" => Leads(Boss(w), child[w].on)

\* Whoever posts a claim has no worker on the issue: its claim would still stand.
Fresh ==
  \A w \in Worker : pc[Boss(w)] \in {"post", "race", "spawn"} =>
    ~(child[w].kind = "issue" /\ child[w].on = Trying(Boss(w)))

\* Once there is a pull request for an issue, whoever still wants to implement
\* it is too late: the claim of its author is older.
Late ==
  /\ \A p \in Process : pc[p] \in {"post", "race", "spawn"} /\ PullFor(Trying(p)) # {}
         => claims[Trying(p)] # <<>> /\ ~Leads(p, Trying(p))
  /\ \A w \in Worker :
       child[w].kind = "issue" /\ child[w].pull = None => PullFor(child[w].on) = {}

Orderly == Posted /\ Claimed /\ Fresh /\ Late /\ OneImplementer /\ OnePull

Inv == TypeOK /\ Chosen /\ Locked /\ Orderly

\* Nothing gets in the way of the lock, unless a process takes it or a child
\* starts.
LEMMA LockKept ==
  ASSUME Inv, UNCHANGED site,
         \A p \in Process : pc'[p] \in Dispatching => pc[p] \in Dispatching,
         \A p \in Process : child'[Own(p)] # NoChild => child[Own(p)] # NoChild,
         site.retries \/ \A p \in Process : child'[Again(p)] # NoChild => child[Again(p)] # NoChild
  PROVE  Locked'
  <1>1. \A p, q \in Process :
          pc'[p] \in Dispatching /\ HostOf[p] = HostOf[q] => child'[Own(q)] = NoChild
    BY DEF Inv, Locked
  <1>2. \A p, q \in Process :
          HostOf[p] = HostOf[q] /\ child'[Own(p)] # NoChild /\ child'[Own(q)] # NoChild => p = q
    BY DEF Inv, Locked
  <1>3. site'.retries \/ \A p \in Process : child'[Again(p)] = NoChild
    BY DEF Inv, Locked
  <1>4. QED
    BY <1>1, <1>2, <1>3 DEF Locked, Own, Again, NoChild, Dispatching

\* New pull requests come from OpenPull only.
Unopened ==
  \A n \in Pull :
    pull'[n].state = "open" => pull[n].state = "open" /\ pull'[n].issue = pull[n].issue

\* Nor in the way of the rest, unless somebody gets closer to a start, a claim
\* is posted or deleted, or a pull request is opened.
Quiet ==
  /\ UNCHANGED claims
  /\ \A p \in Process :
       pc'[p] \in {"post", "race", "spawn"} => pc'[p] = pc[p] /\ cand'[p] = cand[p]
  /\ \A w \in Worker : child'[w].kind = "issue" => child'[w] = child[w]
  /\ Unopened

\* The pull requests that count do not become more.
LEMMA PullsShrink ==
  ASSUME Unopened
  PROVE  /\ \A i : PullFor(i)' \subseteq PullFor(i)
         /\ OpenPulls' \subseteq OpenPulls
         /\ OnePull => OnePull'
  BY DEF Unopened, PullFor, OpenPulls, OnePull

LEMMA QuietKeeps ==
  ASSUME Inv, Quiet
  PROVE  Orderly'
  <1>0. \A w \in Worker : Boss(w) \in Process
    BY Workers
  <1>1. \A p \in Process : pc'[p] \in {"post", "race", "spawn"}
          => pc'[p] = pc[p] /\ Trying(p)' = Trying(p)
    BY DEF Quiet, Trying
  <1>2. Posted'
    BY <1>1 DEF Inv, Orderly, Posted, Quiet
  <1>3. Claimed'
    <2>1. \A p \in Process : pc'[p] = "spawn" => Leads(p, Trying(p))'
      BY <1>1 DEF Inv, Orderly, Claimed, Leads, Quiet
    <2>2. \A w \in Worker : child'[w].kind = "issue" =>
             claims'[child'[w].on] # <<>> /\ claims'[child'[w].on][1] = Boss(w)
      BY DEF Inv, Orderly, Claimed, Leads, Quiet
    <2>3. QED
      BY <2>1, <2>2 DEF Claimed, Leads
  <1>4. (\A i : PullFor(i)' \subseteq PullFor(i)) /\ (OnePull => OnePull')
    BY PullsShrink DEF Quiet
  <1>5. Late'
    <2>1. \A p \in Process : pc'[p] \in {"post", "race", "spawn"} /\ PullFor(Trying(p))' # {}
             => claims'[Trying(p)'] # <<>> /\ ~Leads(p, Trying(p))'
      BY <1>1, <1>4 DEF Inv, Orderly, Late, Leads, Quiet
    <2>2. \A w \in Worker : child'[w].kind = "issue" /\ child'[w].pull = None =>
             PullFor(child[w].on)' = {}
      BY <1>4 DEF Inv, Orderly, Late, Quiet
    <2>3. QED
      BY <2>1, <2>2 DEF Late
  <1>6. Fresh' /\ OneImplementer'
    BY <1>0, <1>1 DEF Inv, Orderly, Fresh, OneImplementer, Quiet
  <1>7. QED
    BY <1>2, <1>3, <1>4, <1>5, <1>6 DEF Inv, Orderly

\* A continuation takes over what its predecessor has: issue, claim, pull request.
LEMMA TimeOutKeeps ==
  ASSUME Inv, NEW p \in Process, TimeOut(p)
  PROVE  Orderly'
  <1>1. /\ child'[Own(p)] = NoChild /\ child'[Again(p)] = child[Own(p)]
        /\ \A w \in Worker \ {Own(p), Again(p)} : child'[w] = child[w]
    BY Workers DEF TimeOut, Inv, TypeOK
  <1>2. UNCHANGED <<pull, claims, pc, cand>> /\ \A q \in Process : Trying(q)' = Trying(q)
    BY DEF TimeOut, github, process, Trying
  <1>3. \A i : PullFor(i)' = PullFor(i)
    BY <1>2 DEF PullFor, OpenPulls
  <1>4. ASSUME NEW w \in Worker, child'[w].kind = "issue"
        PROVE  \E v \in Worker : /\ Boss(v) = Boss(w) /\ child'[w] = child[v]
                                 /\ v = IF w = Again(p) THEN Own(p) ELSE w
    BY <1>1, <1>4, Workers DEF NoChild
  <1>5. Posted'
    BY <1>2 DEF Inv, Orderly, Posted
  <1>6. Claimed'
    <2>1. \A q \in Process : pc'[q] = "spawn" => Leads(q, Trying(q))'
      BY <1>2 DEF Inv, Orderly, Claimed, Leads
    <2>2. \A w \in Worker : child'[w].kind = "issue" =>
             claims'[child'[w].on] # <<>> /\ claims'[child'[w].on][1] = Boss(w)
      BY <1>2, <1>4 DEF Inv, Orderly, Claimed, Leads
    <2>3. QED
      BY <2>1, <2>2 DEF Claimed, Leads
  <1>7. Late'
    <2>1. \A q \in Process : pc'[q] \in {"post", "race", "spawn"} /\ PullFor(Trying(q))' # {}
             => claims'[Trying(q)'] # <<>> /\ ~Leads(q, Trying(q))'
      BY <1>2, <1>3 DEF Inv, Orderly, Late, Leads
    <2>2. ASSUME NEW w \in Worker, child'[w].kind = "issue", child'[w].pull = None
          PROVE  PullFor(child[w].on)' = {}
      <3>1. PICK v \in Worker : child'[w] = child[v]
        BY <1>4, <2>2
      <3>2. PICK l : l = child[v].on
        OBVIOUS
      <3>3. PullFor(l) = {}
        BY <2>2, <3>1, <3>2 DEF Inv, Orderly, Late
      <3>4. PullFor(l)' = {}
        BY <1>3, <3>3
      <3>5. QED
        BY <3>1, <3>2, <3>4
    <2>3. QED
      BY <2>1, <2>2 DEF Late
  <1>8. Fresh'
    <2>1. ASSUME NEW w \in Worker, pc'[Boss(w)] \in {"post", "race", "spawn"},
                 child'[w].kind = "issue"
          PROVE  child'[w].on # Trying(Boss(w))'
      <3>1. PICK v \in Worker : Boss(v) = Boss(w) /\ child'[w] = child[v]
        BY <1>4, <2>1
      <3>2. Boss(w) \in Process
        BY Workers
      <3>3. child[v].on # Trying(Boss(w))
        BY <1>2, <2>1, <3>1 DEF Inv, Orderly, Fresh
      <3>4. Trying(Boss(w))' = Trying(Boss(w))
        BY <1>2 DEF Trying
      <3>5. QED
        BY <3>1, <3>3, <3>4
    <2>2. QED
      BY <2>1 DEF Fresh
  <1>9. OneImplementer'
    <2>1. ASSUME NEW v \in Worker, NEW w \in Worker, child'[v].kind = "issue",
                 child'[w].kind = "issue", child'[v].on = child'[w].on
          PROVE  v = w
      <3>1. v # Own(p) /\ w # Own(p)
        BY <1>1, <2>1 DEF NoChild
      <3>2. (IF v = Again(p) THEN Own(p) ELSE v) = IF w = Again(p) THEN Own(p) ELSE w
        BY <1>4, <2>1 DEF Inv, Orderly, OneImplementer
      <3>3. QED
        BY <3>1, <3>2, Workers
    <2>2. QED
      BY <2>1 DEF OneImplementer
  <1>10. OnePull'
    BY <1>2 DEF Inv, Orderly, OnePull, OpenPulls
  <1>11. QED
    BY <1>5, <1>6, <1>7, <1>8, <1>9, <1>10 DEF Orderly

\* A process that goes elsewhere disturbs no other.
LEMMA GotoQuiet ==
  ASSUME Inv, NEW p \in Process, NEW where \in Locations, Goto(p, where)
  PROVE  \A q \in Process : IF q = p THEN pc'[q] = where
                            ELSE pc'[q] = pc[q] /\ cand'[q] = cand[q]
  BY DEF Inv, TypeOK, Goto, Locations

LEMMA SkipQuiet ==
  ASSUME Inv, NEW p \in Process, Skip(p)
  PROVE  \A q \in Process : IF q = p THEN pc'[q] \in {"idle", "check"}
                            ELSE pc'[q] = pc[q] /\ cand'[q] = cand[q]
  BY DEF Inv, TypeOK, Skip

LEMMA LandQuiet ==
  ASSUME Inv, NEW p \in Process, NEW where, pc' = [pc EXCEPT ![p] = where], UNCHANGED cand
  PROVE  \A q \in Process : IF q = p THEN pc'[q] = where
                            ELSE pc'[q] = pc[q] /\ cand'[q] = cand[q]
  BY DEF Inv, TypeOK

LEMMA UnchangedUnopened == UNCHANGED pull => Unopened
  BY DEF Unopened

LEMMA RebasedUnopened ==
  ASSUME TypeOK, NEW n \in Pull, pull' = Rebased(n)
  PROVE  Unopened
  BY DEF TypeOK, PullRecord, Rebased, Unopened

LEMMA MergeUnopened ==
  ASSUME TypeOK, NEW p, Merge(p)
  PROVE  Unopened
  <1>1. CASE UNCHANGED pull
    BY <1>1, UnchangedUnopened
  <1>2. ASSUME NEW k, NEW conflicting,
               pull' = [m \in Pull |-> IF m = k THEN [pull[m] EXCEPT !.state = "merged"]
                                       ELSE Overtaken(m, conflicting)]
        PROVE  Unopened
    <2>1. ASSUME NEW n \in Pull, pull'[n].state = "open"
          PROVE  pull[n].state = "open" /\ pull'[n].issue = pull[n].issue
      <3>1. CASE n = k
        BY <1>2, <2>1, <3>1 DEF TypeOK, PullRecord
      <3>2. CASE n # k
        BY <1>2, <2>1, <3>2, OvertakenType
      <3>3. QED
        BY <3>1, <3>2
    <2>2. QED
      BY <2>1 DEF Unopened
  <1> DEFINE k == Oldest({e \in Queued(p, {"merge"}) : Mergeable(e)}).pull
  <1>3. \/ UNCHANGED pull
        \/ \E conflicting \in SUBSET OpenPulls :
             pull' = [m \in Pull |-> IF m = k THEN [pull[m] EXCEPT !.state = "merged"]
                                     ELSE Overtaken(m, conflicting)]
    BY DEF Merge
  <1> HIDE DEF k
  <1>4. ASSUME NEW conflicting \in SUBSET OpenPulls,
               pull' = [m \in Pull |-> IF m = k THEN [pull[m] EXCEPT !.state = "merged"]
                                       ELSE Overtaken(m, conflicting)]
        PROVE  Unopened
    BY <1>2, <1>4
  <1>5. QED
    BY <1>1, <1>3, <1>4

LEMMA InterveneUnopened ==
  ASSUME TypeOK, Intervene
  PROVE  Unopened
  <1>1. ASSUME NEW k \in Pull, pull' = [pull EXCEPT ![k].state = "closed"]
        PROVE  Unopened
    BY <1>1 DEF TypeOK, PullRecord, Unopened
  <1>2. ASSUME NEW conflicting, pull' = [m \in Pull |-> Overtaken(m, conflicting)]
        PROVE  Unopened
    BY <1>2, OvertakenType DEF Unopened
  <1>3. QED
    BY <1>1, <1>2 DEF Intervene, OpenPulls

LEMMA ReadyUnopened ==
  ASSUME TypeOK, NEW p, Ready(p)
  PROVE  Unopened
  <1>1. UNCHANGED pull \/ \E n : pull' = [pull EXCEPT ![n].draft = FALSE]
    BY DEF Ready
  <1>2. ASSUME NEW n, pull' = [pull EXCEPT ![n].draft = FALSE] PROVE Unopened
    BY <1>2 DEF TypeOK, PullRecord, Unopened
  <1>3. QED
    BY <1>1, <1>2, UnchangedUnopened

LEMMA CheckedUnopened ==
  ASSUME TypeOK, NEW n \in Pull, Checked(n)
  PROVE  Unopened
  BY DEF Checked, TypeOK, PullRecord, Unopened

\* The steps of the sweep, of time and of humans are quiet; so are those of a
\* pass until it starts to post claims.
LEMMA QuietSteps ==
  ASSUME Inv, NEW p \in Process,
         \/ Sweep(p) \/ Merge(p) \/ Ready(p) \/ Update(p) \/ UpdateRed(p) \/ Rest(p)
         \/ Choose(p) \/ Repair(p) \/ Record(p) \/ RepairByHand(p) \/ Peek(p) \/ Enter(p)
         \/ Manual(p) \/ Unreachable(p) \/ Die(p) \/ MarkApplied(p)
  PROVE  Quiet
  <1> DEFINE Rest0 == \A q \in Process \ {p} : pc'[q] = pc[q] /\ cand'[q] = cand[q]
  <1>0. TypeOK /\ pc \in [Process -> Locations]
    BY DEF Inv, TypeOK, Locations
  <1>a. ASSUME Rest0, UNCHANGED <<claims, child>>, Unopened,
               pc'[p] \notin {"post", "race", "spawn"}
        PROVE  Quiet
    BY <1>a DEF Quiet
  <1>b. ASSUME NEW n, child' = [child EXCEPT ![Own(p)] = Mender(n)]
        PROVE  \A w \in Worker : child'[w].kind = "issue" => child'[w] = child[w]
    BY <1>0, <1>b DEF TypeOK, Mender
  <1>1. CASE Sweep(p)
    BY <1>0, <1>1, <1>a, LandQuiet, UnchangedUnopened DEF Sweep, github
  <1>2. CASE Merge(p)
    BY <1>0, <1>2, <1>a, LandQuiet, MergeUnopened DEF Merge
  <1>3. CASE Ready(p)
    BY <1>0, <1>3, <1>a, LandQuiet, ReadyUnopened DEF Ready
  <1>4. CASE Update(p)
    <2>1. Unopened
      <3> DEFINE able == {e \in Pool(p) : Updatable(e)}
      <3>1. able # {} => Oldest(able).pull \in Pull
        BY <1>0, TypePlaced, OldestPull DEF Pool, Queued
      <3>2. UNCHANGED pull \/ (able # {} /\ pull' = Rebased(Oldest(able).pull))
        BY <1>4 DEF Update
      <3> HIDE DEF able
      <3>3. QED
        BY <1>0, <3>1, <3>2, UnchangedUnopened, RebasedUnopened
    <2>2. QED
      BY <1>0, <1>4, <1>a, <2>1, LandQuiet DEF Update
  <1>5. CASE UpdateRed(p)
    <2>1. Oldest(Promising(p)).pull \in Pull
      BY <1>0, <1>5, TypePlaced, OldestPull DEF UpdateRed, Promising
    <2>2. Unopened
      BY <1>0, <1>5, <2>1, RebasedUnopened DEF UpdateRed
    <2>3. QED
      BY <1>0, <1>5, <1>a, <2>2, LandQuiet DEF UpdateRed
  <1>6. CASE Rest(p)
    BY <1>0, <1>6, <1>a, GotoQuiet, UnchangedUnopened DEF Rest, github, Locations
  <1>7. CASE Repair(p)
    <2>1. Rest0 /\ pc'[p] \in {"idle", "record"}
      BY <1>7, GotoQuiet DEF Repair, Locations
    <2>2. UNCHANGED child \/ \E n : child' = [child EXCEPT ![Own(p)] = Mender(n)]
      BY <1>7 DEF Repair
    <2>3. \A w \in Worker : child'[w].kind = "issue" => child'[w] = child[w]
      BY <1>b, <2>2
    <2>4. QED
      BY <1>7, <2>1, <2>3, UnchangedUnopened DEF Repair, github, Quiet
  <1>8. CASE Peek(p)
    <2>1. Rest0 /\ pc'[p] \in {"idle", "enter"}
      BY <1>0, <1>8, SelectType DEF Peek
    <2>2. QED
      BY <1>8, <1>a, <2>1, UnchangedUnopened DEF Peek
  <1>9. CASE Enter(p)
    BY <1>9, <1>a, GotoQuiet, UnchangedUnopened DEF Enter, github, Locations, Dispatching
  <1>10. CASE Manual(p)
    <2>1. Rest0 /\ pc'[p] \in {"idle", "check"}
      BY <1>0, <1>10, SelectType DEF Manual
    <2>2. QED
      BY <1>10, <1>a, <2>1, UnchangedUnopened DEF Manual
  <1>11. CASE Unreachable(p)
    BY <1>11, <1>a, SkipQuiet, UnchangedUnopened DEF Unreachable, github
  <1>12. CASE Die(p)
    BY <1>12, <1>a, GotoQuiet, UnchangedUnopened DEF Die, github, Locations
  <1>13. CASE MarkApplied(p)
    BY <1>13, UnchangedUnopened DEF MarkApplied, github, process, Quiet
  <1>14. CASE Choose(p)
    BY <1>0, <1>14, <1>a, LandQuiet, UnchangedUnopened DEF Choose, github
  <1>15. CASE Record(p)
    BY <1>15, <1>a, GotoQuiet, UnchangedUnopened DEF Record, github, Locations
  <1>16. CASE RepairByHand(p)
    <2>1. \E n : child' = [child EXCEPT ![Own(p)] = Mender(n)]
      BY <1>16 DEF RepairByHand
    <2>2. QED
      BY <1>16, <1>b, <2>1, UnchangedUnopened DEF RepairByHand, github, process, Quiet
  <1>17. QED
    BY <1>1, <1>2, <1>3, <1>4, <1>5, <1>6, <1>7, <1>8, <1>9, <1>10, <1>11, <1>12, <1>13, <1>14, <1>15, <1>16

\* So are a worker's push and its end.
LEMMA QuietWorker ==
  ASSUME Inv, NEW w \in Worker, Push(w) \/ End(w)
  PROVE  Quiet
  <1>0. TypeOK
    BY DEF Inv
  <1>1. CASE Push(w)
    <2>1. child[w].on \in Pull
      <3>1. child[w] \in Assignment /\ child[w].kind = "repair"
        BY <1>0, <1>1 DEF Push, TypeOK
      <3>2. QED
        BY <3>1 DEF Assignment, NoChild
    <2>2. Unopened
      BY <1>0, <1>1, <2>1, RebasedUnopened DEF Push
    <2>3. QED
      BY <1>0, <1>1, <2>2 DEF Push, Quiet, NoChild, TypeOK
  <1>2. CASE End(w)
    BY <1>0, <1>2, UnchangedUnopened DEF End, github, process, Quiet, NoChild, TypeOK
  <1>3. QED
    BY <1>1, <1>2

\* The lock and the look for children keep everybody else away.
LEMMA LockStep ==
  ASSUME Inv, [Next]_vars
  PROVE  Locked'
  <1>0. TypeOK /\ Locked /\ site.process \subseteq Process
    BY EvolveAssumption DEF Inv, TypeOK
  <1> DEFINE NoEntry == \A p \in Process : pc'[p] \in Dispatching => pc[p] \in Dispatching
  <1>a. ASSUME NoEntry, UNCHANGED <<site, child>> PROVE Locked'
    BY <1>a, LockKept
  <1>b. ASSUME UNCHANGED site, NEW p \in Process, NEW n, pc'[p] \notin Dispatching,
               \A q \in Process \ {p} : pc'[q] = pc[q],
               child' = [child EXCEPT ![Own(p)] = n],
               \A q \in Process \ {p} : HostOf[q] = HostOf[p] =>
                 child[Own(q)] = NoChild /\ pc[q] \notin Dispatching
        PROVE  Locked'
    <2>1. \A w \in Worker \ {Own(p)} : child'[w] = child[w]
      BY <1>0, <1>b DEF TypeOK
    <2>2. \A q \in Process : child'[Again(q)] = child[Again(q)]
      BY <2>1, Workers
    <2>3. \A q \in Process \ {p} : child'[Own(q)] = child[Own(q)]
      BY <2>1, Workers
    <2>4. \A q, r \in Process :
             pc'[q] \in Dispatching /\ HostOf[q] = HostOf[r] => child'[Own(r)] = NoChild
      BY <1>0, <1>b, <2>3 DEF Locked
    <2>5. \A q, r \in Process :
             HostOf[q] = HostOf[r] /\ child'[Own(q)] # NoChild /\ child'[Own(r)] # NoChild => q = r
      BY <1>0, <1>b, <2>3 DEF Locked
    <2>6. site'.retries \/ \A q \in Process : child'[Again(q)] = NoChild
      BY <1>0, <1>b, <2>2 DEF Locked
    <2>7. QED
      BY <2>4, <2>5, <2>6 DEF Locked, Own, Again, NoChild, Dispatching
  <1>1. ASSUME NEW p \in Process,
               \/ Sweep(p) \/ Merge(p) \/ Ready(p) \/ Update(p) \/ UpdateRed(p) \/ Choose(p)
        PROVE  Locked'
    <2>1. \E where \in {"idle", "merge", "ready", "update", "work", "repair"} :
             pc' = [pc EXCEPT ![p] = where]
      BY <1>1 DEF Sweep, Merge, Ready, Update, UpdateRed, Choose
    <2>2. UNCHANGED <<site, child>>
      BY <1>1 DEF Sweep, Merge, Ready, Update, UpdateRed, Choose
    <2>3. NoEntry
      BY <1>0, <2>1 DEF TypeOK, Dispatching
    <2>4. QED
      BY <1>a, <2>2, <2>3
  <1>2. ASSUME NEW p \in Process, Rest(p) \/ Record(p) \/ Die(p) \/ Unreachable(p) \/ Check(p)
                                  \/ Post(p) \/ Race(p) \/ Abandon(p)
        PROVE  Locked'
    <2>1. pc'[p] \in Dispatching => pc[p] \in Dispatching
      BY <1>2, GotoQuiet, SkipQuiet DEF Rest, Record, Die, Unreachable, Check, Post, Race, Abandon,
                                        Dispatching, Locations
    <2>2. \A q \in Process \ {p} : pc'[q] = pc[q]
      BY <1>2, GotoQuiet, SkipQuiet DEF Rest, Record, Die, Unreachable, Check, Post, Race, Abandon,
                                        Dispatching, Locations
    <2>3. UNCHANGED <<site, child>>
      BY <1>2 DEF Rest, Record, Die, Unreachable, Check, Post, Race, Abandon
    <2>4. QED
      BY <1>a, <2>1, <2>2, <2>3
  <1>3. ASSUME NEW p \in Process, Peek(p) \/ MarkApplied(p) PROVE Locked'
    <2>1. NoEntry
      BY <1>0, <1>3 DEF Peek, MarkApplied, process, TypeOK, Dispatching
    <2>2. QED
      BY <1>3, <1>a, <2>1 DEF Peek, MarkApplied
  <1>4. ASSUME NEW w \in Worker, OpenPull(w) \/ Push(w) \/ End(w) PROVE Locked'
    <2>1. UNCHANGED <<site, pc>>
      BY <1>4 DEF OpenPull, Push, End, process
    <2>2. \A v \in Worker : child'[v] # NoChild => child[v] # NoChild
      BY <1>0, <1>4 DEF OpenPull, Push, End, TypeOK, NoChild
    <2>3. \A p \in Process : /\ child'[Own(p)] # NoChild => child[Own(p)] # NoChild
                             /\ child'[Again(p)] # NoChild => child[Again(p)] # NoChild
      BY <2>2, Workers
    <2>4. QED
      BY <2>1, <2>3, LockKept
  <1>5. ASSUME NEW p \in Process, TimeOut(p) PROVE Locked'
    <2>1. UNCHANGED <<site, pc>> /\ site.retries
      BY <1>5 DEF TimeOut, process
    <2>2. \A q \in Process : child'[Own(q)] # NoChild => child[Own(q)] # NoChild
      <3>1. \A w \in Worker \ {Own(p), Again(p)} : child'[w] = child[w]
        BY <1>0, <1>5 DEF TimeOut, TypeOK
      <3>2. child'[Own(p)] = NoChild
        BY <1>0, <1>5, Workers DEF TimeOut, TypeOK
      <3>3. \A q \in Process \ {p} : Own(q) \in Worker \ {Own(p), Again(p)}
        BY Workers
      <3>4. QED
        BY <3>1, <3>2, <3>3
    <2>3. QED
      BY <2>1, <2>2, LockKept
  <1>6. ASSUME NEW p \in Process, Enter(p) \/ Manual(p) PROVE Locked'
    <2>1. UNCHANGED <<site, child>> /\ \A q \in Process \ {p} : pc'[q] = pc[q]
      BY <1>0, <1>6, GotoQuiet DEF Enter, Manual, Locations, Dispatching, TypeOK
    <2>2. pc'[p] \in Dispatching => ~Busy(HostOf[p])
      BY <1>0, <1>6, GotoQuiet DEF Enter, Manual, Locations, Dispatching, TypeOK
    <2>3. \A q, r \in Process :
             pc'[q] \in Dispatching /\ HostOf[q] = HostOf[r] => child[Own(r)] = NoChild
      BY <1>0, <2>1, <2>2 DEF Locked, Busy
    <2>4. QED
      BY <1>0, <2>1, <2>3 DEF Locked, Dispatching
  <1>7. ASSUME NEW p \in Process, Spawn(p) PROVE Locked'
    <2>1. pc'[p] = "idle" /\ \A q \in Process \ {p} : pc'[q] = pc[q]
      BY <1>7, GotoQuiet DEF Spawn, Locations
    <2>2. \A q \in Process : HostOf[q] = HostOf[p] => child[Own(q)] = NoChild
      BY <1>0, <1>7 DEF Spawn, Locked, Dispatching
    <2>3. \A q \in Process \ {p} : HostOf[q] = HostOf[p] => pc[q] \notin Dispatching
      BY <1>0, <1>7 DEF Spawn, TypeOK, Dispatching
    <2>4. PICK n : child' = [child EXCEPT ![Own(p)] = n]
      BY <1>7 DEF Spawn
    <2>5. UNCHANGED site
      BY <1>7 DEF Spawn
    <2>6. QED
      BY <1>b, <2>1, <2>2, <2>3, <2>4, <2>5 DEF Dispatching
  <1>8. ASSUME NEW p \in Process, Repair(p) \/ RepairByHand(p) PROVE Locked'
    <2>1. pc'[p] \in {"idle", "record"} /\ \A q \in Process \ {p} : pc'[q] = pc[q]
      BY <1>8, GotoQuiet DEF Repair, RepairByHand, process, Locations
    <2>2. UNCHANGED site
      BY <1>8 DEF Repair, RepairByHand
    <2>3. \/ UNCHANGED child
          \/ /\ \E n : child' = [child EXCEPT ![Own(p)] = n]
             /\ ~Busy(HostOf[p]) /\ ~SpawnLocked(HostOf[p])
      BY <1>8 DEF Repair, RepairByHand
    <2>4. CASE UNCHANGED child
      BY <1>0, <1>a, <2>1, <2>2, <2>4 DEF Dispatching
    <2>5. CASE /\ \E n : child' = [child EXCEPT ![Own(p)] = n]
               /\ ~Busy(HostOf[p]) /\ ~SpawnLocked(HostOf[p])
      <3>1. PICK n : child' = [child EXCEPT ![Own(p)] = n]
        BY <2>5
      <3>2. \A q \in Process \ {p} : HostOf[q] = HostOf[p] =>
               child[Own(q)] = NoChild /\ pc[q] \notin Dispatching
        BY <2>5 DEF Busy, SpawnLocked, Dispatching
      <3>3. QED
        BY <1>b, <2>1, <2>2, <3>1, <3>2 DEF Dispatching
    <2>6. QED
      BY <2>3, <2>4, <2>5
  <1>9. ASSUME (\E n \in Pull : Checked(n)) \/ (\E i \in Issue : Expire(i)) \/ Intervene
               \/ (\E h \in Host, i \in Issue : Cooled(h, i)) \/ UNCHANGED vars
        PROVE  Locked'
    <2>1. UNCHANGED <<site, pc, child>>
      BY <1>9 DEF Checked, Expire, Intervene, Cooled, process, vars
    <2>2. QED
      BY <1>a, <2>1
  <1>10. QED
    BY <1>0, <1>1, <1>2, <1>3, <1>4, <1>5, <1>6, <1>7, <1>8, <1>9 DEF Next, Step

\* A push leaves as many entries as there were.
LEMMA PushedChosen ==
  ASSUME NEW n, NEW p \in Process, NEW e, queue[p] = {e}
  PROVE  \E f \in Pushed(n)[p] : Pushed(n)[p] = {f}
  <1> DEFINE f(d) == [d EXCEPT !.head = d.head /\ d.pull # n]
  <1>1. Pushed(n)[p] = {f(d) : d \in queue[p]}
    BY DEF Pushed
  <1> HIDE DEF f
  <1>2. Pushed(n)[p] = {f(e)}
    BY <1>1
  <1>3. QED
    BY <1>2

\* Whoever repairs has chosen.
LEMMA ChosenStep ==
  ASSUME TypeOK, Chosen, [Next]_vars
  PROVE  Chosen'
  <1>0. site.process \subseteq Process
    BY EvolveAssumption DEF TypeOK
  <1> DEFINE One(q) == \E e \in queue'[q] : queue'[q] = {e}
  <1>a. ASSUME NEW p \in Process, pc'[p] \in {"repair", "record"} => One(p),
               \A q \in Process \ {p} : pc'[q] = pc[q] /\ queue'[q] = queue[q]
        PROVE  Chosen'
    BY <1>a DEF Chosen
  <1>b. ASSUME NEW p \in Process, NEW n, queue' = Pushed(n) \/ queue' = [Pushed(n) EXCEPT ![p] = {}],
               pc'[p] \notin {"repair", "record"},
               \A q \in Process \ {p} : pc'[q] = pc[q]
        PROVE  Chosen'
    <2>1. \A q \in Process \ {p} : queue'[q] = Pushed(n)[q]
      BY <1>b DEF Pushed
    <2>2. ASSUME NEW q \in Process, pc'[q] \in {"repair", "record"} PROVE One(q)
      <3>1. q # p
        BY <1>b, <2>2
      <3>2. PICK e : queue[q] = {e}
        BY <1>b, <2>2, <3>1 DEF Chosen
      <3>3. QED
        BY <2>1, <3>1, <3>2, PushedChosen
    <2>3. QED
      BY <2>2 DEF Chosen
  <1>1. ASSUME NEW p \in Process,
               \/ Sweep(p) \/ Merge(p) \/ Ready(p) \/ Peek(p) \/ Enter(p) \/ Manual(p)
               \/ Check(p) \/ Post(p) \/ Race(p) \/ Spawn(p) \/ Rest(p) \/ Unreachable(p)
               \/ Abandon(p) \/ Die(p) \/ Record(p)
        PROVE  Chosen'
    <2>1. pc'[p] \notin {"repair", "record"}
      BY <1>1 DEF Sweep, Merge, Ready, Peek, Enter, Manual, Check, Post, Race, Spawn, Rest,
                  Unreachable, Abandon, Die, Record, Goto, Skip, TypeOK
    <2>2. \A q \in Process \ {p} : pc'[q] = pc[q] /\ queue'[q] = queue[q]
      BY <1>1 DEF Sweep, Merge, Ready, Peek, Enter, Manual, Check, Post, Race, Spawn, Rest,
                  Unreachable, Abandon, Die, Record, Goto, Skip, TypeOK
    <2>3. QED
      BY <1>a, <2>1, <2>2
  <1>2. ASSUME NEW p \in Process, Choose(p) PROVE Chosen'
    BY <1>2, <1>a DEF Choose, TypeOK
  <1>3. ASSUME NEW p \in Process, Repair(p) PROVE Chosen'
    <2>1. \A q \in Process \ {p} : pc'[q] = pc[q] /\ queue'[q] = queue[q]
      BY <1>3 DEF Repair, Goto, TypeOK
    <2>2. pc'[p] = "idle" \/ queue'[p] = queue[p]
      BY <1>3 DEF Repair, Goto, TypeOK
    <2>3. pc[p] = "repair"
      BY <1>3 DEF Repair
    <2>4. QED
      BY <1>a, <2>1, <2>2, <2>3 DEF Chosen
  <1>4. ASSUME NEW p \in Process, Update(p) PROVE Chosen'
    <2>1. UNCHANGED queue \/ \E n : queue' = Pushed(n)
      BY <1>4 DEF Update
    <2>2. pc'[p] = "work" /\ \A q \in Process \ {p} : pc'[q] = pc[q]
      BY <1>4 DEF Update, TypeOK
    <2>3. CASE UNCHANGED queue
      BY <1>a, <2>2, <2>3
    <2>4. CASE \E n : queue' = Pushed(n)
      BY <1>b, <2>2, <2>4
    <2>5. QED
      BY <2>1, <2>3, <2>4
  <1>5. ASSUME NEW p \in Process, UpdateRed(p) PROVE Chosen'
    <2>1. \E n : queue' = [Pushed(n) EXCEPT ![p] = {}]
      BY <1>5 DEF UpdateRed
    <2>2. pc'[p] = "idle" /\ \A q \in Process \ {p} : pc'[q] = pc[q]
      BY <1>5 DEF UpdateRed, TypeOK
    <2>3. QED
      BY <1>b, <2>1, <2>2
  <1>6. ASSUME NEW w \in Worker, Push(w) PROVE Chosen'
    <2>1. PICK n : queue' = Pushed(n)
      BY <1>6 DEF Push
    <2>2. UNCHANGED pc
      BY <1>6 DEF Push
    <2>3. ASSUME NEW q \in Process, pc'[q] \in {"repair", "record"} PROVE One(q)
      <3>1. PICK e : queue[q] = {e}
        BY <2>2, <2>3 DEF Chosen
      <3>2. QED
        BY <2>1, <3>1, PushedChosen
    <2>4. QED
      BY <2>3 DEF Chosen
  <1>7. CASE UNCHANGED <<pc, queue>>
    BY <1>7 DEF Chosen
  <1>8. ASSUME \/ \E p \in Process : RepairByHand(p) \/ MarkApplied(p) \/ TimeOut(p)
               \/ \E w \in Worker : OpenPull(w) \/ End(w)
               \/ \E n \in Pull : Checked(n)
               \/ \E i \in Issue : Expire(i)
               \/ \E h \in Host, i \in Issue : Cooled(h, i)
               \/ Intervene \/ UNCHANGED vars
        PROVE  Chosen'
    BY <1>7, <1>8 DEF RepairByHand, MarkApplied, TimeOut, OpenPull, End, Checked, Expire, Cooled,
                      Intervene, vars, process
  <1>9. QED
    BY <1>0, <1>1, <1>2, <1>3, <1>4, <1>5, <1>6, <1>8 DEF Next, Step

\* p works on an issue, for which no worker of p is there.
LEMMA AtWork ==
  ASSUME Inv, NEW p \in Process, pc[p] \in {"post", "race", "spawn"}
  PROVE  /\ Trying(p) \in Issue /\ claims[Trying(p)] \in Seq(Process)
         /\ child[Own(p)] = NoChild
         /\ \A w \in Worker : child[w].kind = "issue" /\ Boss(w) = p => child[w].on # Trying(p)
  <1>1. Trying(p) \in Issue
    BY TypePlaced, TryingIn DEF Inv, Dispatching
  <1>2. QED
    BY <1>1 DEF Inv, TypeOK, Locked, Orderly, Fresh, Dispatching

\* p deletes its claim and leaves the issue.  If p led, nothing is lost: there
\* is no pull request, and no child but p's own.
LEMMA RetractKeeps ==
  ASSUME Inv, NEW p \in Process, pc[p] \in {"race", "spawn"},
         claims' = [claims EXCEPT ![Trying(p)] = Retracted(Trying(p), p)],
         pc'[p] \in {"idle", "check"},
         \A q \in Process \ {p} : pc'[q] = pc[q] /\ cand'[q] = cand[q],
         UNCHANGED <<child, pull>>
  PROVE  Orderly'
  <1> DEFINE i == Trying(p)
  <1>1. /\ i \in Issue /\ claims[i] \in Seq(Process)
        /\ \A w \in Worker : child[w].kind = "issue" /\ Boss(w) = p => child[w].on # i
    BY AtWork
  <1>2. PICK k \in 1..Len(claims[i]) : claims[i][k] = p
    BY DEF Inv, Orderly, Posted
  <1> HIDE DEF i
  <1>3. /\ claims[i][1] # p => Retracted(i, p) # <<>> /\ Retracted(i, p)[1] = claims[i][1]
        /\ \A j \in 1..Len(claims[i]) : claims[i][j] # p =>
              \E m \in 1..Len(Retracted(i, p)) : Retracted(i, p)[m] = claims[i][j]
    BY <1>1, <1>2, RetractedLeaves
  <1>4. \A l : l # i => claims'[l] = claims[l]
    BY DEF i, Inv, TypeOK
  <1>5. claims'[i] = Retracted(i, p)
    BY <1>1 DEF i, Inv, TypeOK
  <1>6. \A q \in Process \ {p} : pc'[q] = pc[q] /\ Trying(q)' = Trying(q)
    BY DEF Trying
  <1>7. \A l : PullFor(l)' = PullFor(l)
    BY DEF PullFor, OpenPulls
  <1>8. \A q \in Process \ {p} : \A l : Leads(q, l) => Leads(q, l)'
    BY <1>3, <1>4, <1>5 DEF Leads
  <1>9. Posted'
    <2>1. ASSUME NEW q \in Process \ {p}, pc[q] \in {"race", "spawn"}
          PROVE  \E j \in 1..Len(claims'[Trying(q)]) : claims'[Trying(q)][j] = q
      BY <1>3, <1>4, <1>5, <2>1 DEF Inv, Orderly, Posted
    <2>2. QED
      BY <1>6, <2>1 DEF Posted
  <1>10. Claimed'
    <2>1. ASSUME NEW q \in Process, pc'[q] = "spawn" PROVE Leads(q, Trying(q))'
      <3>1. q # p /\ pc[q] = "spawn" /\ Trying(q)' = Trying(q)
        BY <1>6, <2>1
      <3>2. Leads(q, Trying(q))
        BY <3>1 DEF Inv, Orderly, Claimed
      <3>3. QED
        BY <1>8, <3>1, <3>2 DEF Leads
    <2>2. ASSUME NEW w \in Worker, child'[w].kind = "issue"
          PROVE  claims'[child'[w].on] # <<>> /\ claims'[child'[w].on][1] = Boss(w)
      <3>1. Leads(Boss(w), child[w].on) /\ child'[w] = child[w] /\ Boss(w) \in Process
        BY <2>2, Workers DEF Inv, Orderly, Claimed
      <3>2. CASE Boss(w) = p
        BY <1>1, <1>4, <2>2, <3>1, <3>2 DEF Leads
      <3>3. CASE Boss(w) # p
        BY <1>8, <3>1, <3>3 DEF Leads
      <3>4. QED
        BY <3>2, <3>3
    <2>3. QED
      BY <2>1, <2>2 DEF Claimed, Leads
  <1>11. Late'
    <2>1. PullFor(i) # {} => ~Leads(p, i)
      BY DEF i, Inv, Orderly, Late
    <2>2. ASSUME NEW q \in Process \ {p}, pc[q] \in {"post", "race", "spawn"},
                 PullFor(Trying(q)) # {}
          PROVE  claims'[Trying(q)] # <<>> /\ ~Leads(q, Trying(q))'
      <3>1. claims[Trying(q)] # <<>> /\ ~Leads(q, Trying(q))
        BY <2>2 DEF Inv, Orderly, Late
      <3>2. CASE Trying(q) # i
        BY <1>4, <1>6, <3>1, <3>2 DEF Leads
      <3>3. CASE Trying(q) = i
        <4>1. claims[i][1] # p
          BY <2>1, <2>2, <3>1, <3>3 DEF Leads
        <4>2. QED
          BY <1>3, <1>5, <1>6, <3>1, <3>3, <4>1 DEF Leads
      <3>4. QED
        BY <3>2, <3>3
    <2>3. \A q \in Process \ {p} : pc'[q] \in {"post", "race", "spawn"} /\ PullFor(Trying(q))' # {}
             => claims'[Trying(q)'] # <<>> /\ ~Leads(q, Trying(q))'
      BY <1>6, <1>7, <2>2
    <2>4. \A w \in Worker : child[w].kind = "issue" /\ child[w].pull = None =>
             PullFor(child[w].on)' = {}
      BY <1>7 DEF Inv, Orderly, Late
    <2>5. QED
      BY <1>6, <1>7, <2>3, <2>4 DEF Late
  <1>12. OnePull' /\ OneImplementer'
    BY DEF Inv, Orderly, OnePull, OpenPulls, OneImplementer
  <1>13. Fresh'
    BY <1>6, Workers DEF Inv, Orderly, Fresh
  <1>14. QED
    BY <1>9, <1>10, <1>11, <1>12, <1>13 DEF Orderly

\* p posts a claim, and waits for the others or gives up.
LEMMA PostKeeps ==
  ASSUME Inv, NEW p \in Process, Post(p)
  PROVE  Orderly'
  <1> DEFINE i == Trying(p)
  <1>1. i \in Issue /\ claims[i] \in Seq(Process)
    BY AtWork DEF Post
  <1>2. /\ pc'[p] \in {"race", "idle", "check"} /\ (pc'[p] = "race" => Trying(p)' = Trying(p))
        /\ \A q \in Process \ {p} : pc'[q] = pc[q] /\ Trying(q)' = Trying(q)
    <2>1. CASE Goto(p, "race")
      BY <2>1, GotoQuiet DEF Locations, Dispatching, Trying, Goto, Inv, TypeOK
    <2>2. CASE Skip(p)
      BY <2>2, SkipQuiet DEF Trying
    <2>3. QED
      BY <2>1, <2>2 DEF Post
  <1>3. claims' = [claims EXCEPT ![i] = Append(@, p)] /\ UNCHANGED <<pull, child>>
    BY DEF Post
  <1> HIDE DEF i
  <1>4. /\ claims'[i] # <<>> /\ Len(claims'[i]) = Len(claims[i]) + 1
        /\ claims'[i][Len(claims[i]) + 1] = p
        /\ \A k \in 1..Len(claims[i]) : claims'[i][k] = claims[i][k]
    <2>1. claims'[i] = Append(claims[i], p)
      BY <1>1, <1>3 DEF Inv, TypeOK
    <2>2. QED
      BY <1>1, <2>1, AppendProperties
  <1>5. \A l : l # i => claims'[l] = claims[l]
    BY <1>1, <1>3 DEF Inv, TypeOK
  <1>6. claims[i] # <<>> => claims'[i][1] = claims[i][1]
    BY <1>1, <1>4
  <1>7. \A q : \A l : Leads(q, l) => Leads(q, l)'
    BY <1>4, <1>5, <1>6 DEF Leads
  <1>8. \A q : \A l : claims[l] # <<>> /\ ~Leads(q, l) => claims'[l] # <<>> /\ ~Leads(q, l)'
    BY <1>4, <1>5, <1>6 DEF Leads
  <1>9. \A l : PullFor(l)' = PullFor(l)
    BY <1>3 DEF PullFor, OpenPulls
  <1>10. Posted'
    <2>1. ASSUME NEW q \in Process, pc[q] \in {"race", "spawn"}
          PROVE  \E k \in 1..Len(claims'[Trying(q)]) : claims'[Trying(q)][k] = q
      <3>1. PICK k \in 1..Len(claims[Trying(q)]) : claims[Trying(q)][k] = q
        BY <2>1 DEF Inv, Orderly, Posted
      <3>2. CASE Trying(q) = i
        BY <1>1, <1>4, <3>1, <3>2
      <3>3. CASE Trying(q) # i
        BY <1>5, <3>1, <3>3
      <3>4. QED
        BY <3>2, <3>3
    <2>2. ASSUME pc'[p] = "race" PROVE \E k \in 1..Len(claims'[Trying(p)']) : claims'[Trying(p)'][k] = p
      BY <1>1, <1>2, <1>4, <2>2 DEF i
    <2>3. QED
      BY <1>2, <2>1, <2>2 DEF Posted
  <1>11. Claimed'
    <2>1. \A q \in Process : pc'[q] = "spawn" => Leads(q, Trying(q))'
      BY <1>2, <1>7 DEF Inv, Orderly, Claimed, Leads
    <2>2. \A w \in Worker : child[w].kind = "issue" => Leads(Boss(w), child[w].on)
      BY DEF Inv, Orderly, Claimed
    <2>3. \A w \in Worker : child'[w].kind = "issue" =>
             claims'[child'[w].on] # <<>> /\ claims'[child'[w].on][1] = Boss(w)
      BY <1>3, <1>7, <2>2 DEF Leads
    <2>4. QED
      BY <2>1, <2>3 DEF Claimed, Leads
  <1>12. Late'
    <2>1. \A q \in Process : pc'[q] \in {"post", "race", "spawn"} =>
             pc[q] \in {"post", "race", "spawn"} /\ Trying(q)' = Trying(q)
      BY <1>2 DEF Post
    <2>2. \A q \in Process : pc'[q] \in {"post", "race", "spawn"} /\ PullFor(Trying(q))' # {}
             => claims'[Trying(q)'] # <<>> /\ ~Leads(q, Trying(q))'
      BY <1>8, <1>9, <2>1 DEF Inv, Orderly, Late, Leads
    <2>3. \A w \in Worker : child'[w].kind = "issue" /\ child'[w].pull = None =>
             PullFor(child[w].on)' = {}
      BY <1>3, <1>9 DEF Inv, Orderly, Late
    <2>4. QED
      BY <2>2, <2>3 DEF Late
  <1>13. OnePull' /\ OneImplementer'
    BY <1>3 DEF Inv, Orderly, OnePull, OpenPulls, OneImplementer
  <1>14. Fresh'
    BY <1>2, <1>3, Workers DEF Post, Inv, Orderly, Fresh
  <1>15. QED
    BY <1>10, <1>11, <1>12, <1>13, <1>14 DEF Orderly

\* Nobody has a pull request for the issue that p looks at, and none is posted.
LEMMA CheckKeeps ==
  ASSUME Inv, NEW p \in Process, Check(p)
  PROVE  Orderly'
  <1>1. CASE Skip(p)
    <2>1. Quiet
      BY <1>1, SkipQuiet, UnchangedUnopened DEF Check, github, Quiet
    <2>2. QED
      BY <2>1, QuietKeeps
  <1>2. CASE claims[Trying(p)] = <<>> /\ PullFor(Trying(p)) = {} /\ Goto(p, "post")
    <2>1. /\ pc'[p] = "post" /\ Trying(p)' = Trying(p)
          /\ \A q \in Process \ {p} : pc'[q] = pc[q] /\ Trying(q)' = Trying(q)
      BY <1>2, GotoQuiet DEF Locations, Dispatching, Trying, Goto, Inv, TypeOK
    <2>2. UNCHANGED <<claims, pull, child>>
      BY DEF Check, github
    <2>3. \A l : PullFor(l)' = PullFor(l)
      BY <2>2 DEF PullFor, OpenPulls
    <2>4. Posted'
      BY <2>1, <2>2 DEF Inv, Orderly, Posted
    <2>5. Claimed'
      BY <2>1, <2>2 DEF Inv, Orderly, Claimed, Leads
    <2>6. Late'
      <3>1. \A q \in Process : pc'[q] \in {"post", "race", "spawn"} /\ PullFor(Trying(q))' # {}
             => claims'[Trying(q)'] # <<>> /\ ~Leads(q, Trying(q))'
        BY <1>2, <2>1, <2>2, <2>3 DEF Inv, Orderly, Late, Leads
      <3>2. \A w \in Worker : child'[w].kind = "issue" /\ child'[w].pull = None =>
               PullFor(child[w].on)' = {}
        BY <2>2, <2>3 DEF Inv, Orderly, Late
      <3>3. QED
        BY <3>1, <3>2 DEF Late
    <2>7. OnePull' /\ OneImplementer'
      BY <2>2 DEF Inv, Orderly, OnePull, OpenPulls, OneImplementer
    <2>8. Fresh'
      <3>1. \A w \in Worker : ~(child[w].kind = "issue" /\ child[w].on = Trying(p))
        BY <1>2 DEF Inv, Orderly, Claimed, Leads
      <3>2. QED
        BY <2>1, <2>2, <3>1, Workers DEF Inv, Orderly, Fresh
    <2>9. QED
      BY <2>4, <2>5, <2>6, <2>7, <2>8 DEF Orderly
  <1>3. QED
    BY <1>1, <1>2 DEF Check

\* The winner of a race leads.
LEMMA RaceKeeps ==
  ASSUME Inv, NEW p \in Process, Race(p)
  PROVE  Orderly'
  <1>0. /\ Trying(p) \in Issue /\ claims[Trying(p)] \in Seq(Process)
        /\ \E k \in 1..Len(claims[Trying(p)]) : claims[Trying(p)][k] = p
    BY AtWork DEF Race, Inv, Orderly, Posted
  <1>1. CASE Won(p, Trying(p))
    <2>1. /\ pc'[p] = "spawn" /\ Trying(p)' = Trying(p)
          /\ \A q \in Process \ {p} : pc'[q] = pc[q] /\ Trying(q)' = Trying(q)
      BY <1>1, GotoQuiet DEF Race, Locations, Dispatching, Trying, Goto, Inv, TypeOK
    <2>2. UNCHANGED <<claims, pull, child>>
      BY <1>1 DEF Race
    <2>3. \A l : PullFor(l)' = PullFor(l)
      BY <2>2 DEF PullFor, OpenPulls
    <2>4. Leads(p, Trying(p))
      BY <1>0, <1>1 DEF Won, Leads
    <2>5. Posted'
      BY <2>1, <2>2, <1>0 DEF Inv, Orderly, Posted
    <2>6. Claimed'
      BY <2>1, <2>2, <2>4 DEF Inv, Orderly, Claimed, Leads
    <2>7. Late'
      <3>1. \A q \in Process : pc'[q] \in {"post", "race", "spawn"} /\ PullFor(Trying(q))' # {}
             => claims'[Trying(q)'] # <<>> /\ ~Leads(q, Trying(q))'
        BY <2>1, <2>2, <2>3 DEF Race, Inv, Orderly, Late, Leads
      <3>2. \A w \in Worker : child'[w].kind = "issue" /\ child'[w].pull = None =>
               PullFor(child[w].on)' = {}
        BY <2>2, <2>3 DEF Inv, Orderly, Late
      <3>3. QED
        BY <3>1, <3>2 DEF Late
    <2>8. OnePull' /\ OneImplementer'
      BY <2>2 DEF Inv, Orderly, OnePull, OpenPulls, OneImplementer
    <2>9. Fresh'
      BY <2>1, <2>2, Workers DEF Race, Inv, Orderly, Fresh
    <2>10. QED
      BY <2>5, <2>6, <2>7, <2>8, <2>9 DEF Orderly
  <1>2. CASE ~Won(p, Trying(p)) /\ UNCHANGED claims
    <2>1. Quiet
      BY <1>2, SkipQuiet, UnchangedUnopened DEF Race, Quiet
    <2>2. QED
      BY <2>1, QuietKeeps
  <1>3. CASE ~Won(p, Trying(p)) /\ claims' = [claims EXCEPT ![Trying(p)] = Retracted(Trying(p), p)]
    BY <1>3, SkipQuiet, RetractKeeps DEF Race
  <1>4. QED
    BY <1>1, <1>2, <1>3 DEF Race, Retract

LEMMA AbandonKeeps ==
  ASSUME Inv, NEW p \in Process, Abandon(p)
  PROVE  Orderly'
  <1>1. /\ pc'[p] \in {"idle", "check"}
        /\ \A q \in Process \ {p} : pc'[q] = pc[q] /\ cand'[q] = cand[q]
    BY GotoQuiet, SkipQuiet DEF Abandon, Locations
  <1>2. QED
    BY <1>1, RetractKeeps DEF Abandon

\* The implementer inherits the lead of its parent, who has no other worker on the
\* issue.
LEMMA SpawnKeeps ==
  ASSUME Inv, NEW p \in Process, Spawn(p)
  PROVE  Orderly'
  <1>1. pc'[p] = "idle" /\ \A q \in Process \ {p} : pc'[q] = pc[q] /\ Trying(q)' = Trying(q)
    BY GotoQuiet DEF Spawn, Locations, Trying
  <1>2. /\ child'[Own(p)] = [kind |-> "issue", on |-> Trying(p), pull |-> None]
        /\ \A w \in Worker \ {Own(p)} : child'[w] = child[w]
    BY Workers DEF Spawn, Inv, TypeOK
  <1>3. UNCHANGED <<claims, pull>>
    BY DEF Spawn, github
  <1>4. \A l : PullFor(l)' = PullFor(l)
    BY <1>3 DEF PullFor, OpenPulls
  <1>5. Leads(p, Trying(p)) /\ PullFor(Trying(p)) = {}
    BY DEF Spawn, Inv, Orderly, Claimed, Late
  <1>6. \A w \in Worker : child[w].kind = "issue" => child[w].on # Trying(p)
    <2>1. ASSUME NEW w \in Worker, child[w].kind = "issue", child[w].on = Trying(p) PROVE FALSE
      <3>1. Boss(w) = p
        BY <1>5, <2>1 DEF Inv, Orderly, Claimed, Leads
      <3>2. QED
        BY <2>1, <3>1, AtWork DEF Spawn
    <2>2. QED
      BY <2>1
  <1>7. Posted'
    BY <1>1, <1>3 DEF Inv, Orderly, Posted
  <1>8. Claimed'
    <2>1. \A q \in Process : pc'[q] = "spawn" => Leads(q, Trying(q))'
      BY <1>1, <1>3 DEF Inv, Orderly, Claimed, Leads
    <2>2. ASSUME NEW w \in Worker, child'[w].kind = "issue"
          PROVE  claims'[child'[w].on] # <<>> /\ claims'[child'[w].on][1] = Boss(w)
      <3>1. CASE w = Own(p)
        BY <1>2, <1>3, <1>5, <3>1, Workers DEF Leads
      <3>2. CASE w # Own(p)
        BY <1>2, <1>3, <2>2, <3>2 DEF Inv, Orderly, Claimed, Leads
      <3>3. QED
        BY <3>1, <3>2
    <2>3. QED
      BY <2>1, <2>2 DEF Claimed, Leads
  <1>9. Late'
    <2>1. \A q \in Process : pc'[q] \in {"post", "race", "spawn"} /\ PullFor(Trying(q))' # {}
             => claims'[Trying(q)'] # <<>> /\ ~Leads(q, Trying(q))'
      BY <1>1, <1>3, <1>4 DEF Inv, Orderly, Late, Leads
    <2>2. ASSUME NEW w \in Worker, child'[w].kind = "issue", child'[w].pull = None
          PROVE  PullFor(child[w].on)' = {}
      <3>1. PICK l : l = child'[w].on
        OBVIOUS
      <3>2. PullFor(l) = {}
        BY <1>2, <1>5, <2>2, <3>1 DEF Inv, Orderly, Late
      <3>3. PullFor(l)' = {}
        BY <1>4, <3>2
      <3>4. QED
        BY <3>1, <3>3
    <2>3. QED
      BY <2>1, <2>2 DEF Late
  <1>10. Fresh'
    BY <1>1, <1>2, Workers DEF Inv, Orderly, Fresh
  <1>11. OneImplementer' /\ OnePull'
    <2>1. OneImplementer'
      BY <1>2, <1>6 DEF Inv, Orderly, OneImplementer
    <2>2. QED
      BY <1>3, <2>1 DEF Inv, Orderly, OnePull, OpenPulls
  <1>12. QED
    BY <1>7, <1>8, <1>9, <1>10, <1>11 DEF Orderly

\* The pull request that a child opens is the only one, and too late for all
\* others, whose claims are younger.
LEMMA OpenPullKeeps ==
  ASSUME Inv, NEW w \in Worker, OpenPull(w)
  PROVE  Orderly'
  <1> DEFINE i == child[w].on
             new == Min({n \in Pull : pull[n].state = "none"})
  <1>1. new \in Pull /\ pull[new].state = "none"
    BY MinIn DEF OpenPull, Pull
  <1>2. /\ \A v \in Worker \ {w} : child'[v] = child[v]
        /\ child'[w].pull = new /\ child'[w].on = i /\ child'[w].kind = "issue"
    <2>1. child[w] \in [kind : {"issue"}, on : Issue, pull : Pull \cup {None}]
      BY DEF OpenPull, Inv, TypeOK, Assignment, NoChild
    <2>2. QED
      BY <2>1 DEF OpenPull, Inv, TypeOK
  <1>3. /\ \A n \in Pull \ {new} : pull'[n] = pull[n]
        /\ pull'[new].issue = i /\ pull'[new].state = "open"
    BY <1>1 DEF OpenPull, Inv, TypeOK
  <1>4. UNCHANGED <<claims, pc, cand>> /\ \A q \in Process : Trying(q)' = Trying(q)
    BY DEF OpenPull, process, Trying
  <1>5. child[w].kind = "issue" /\ child[w].pull = None
    BY DEF OpenPull
  <1> HIDE DEF i, new
  <1>6. PullFor(i) = {} /\ Leads(Boss(w), i)
    BY <1>5 DEF i, Inv, Orderly, Late, Claimed
  <1>7. \A l : l # i => PullFor(l)' = PullFor(l)
    BY <1>1, <1>3 DEF PullFor, OpenPulls
  <1>8. new # None
    BY <1>1 DEF Pull, None
  <1>9. Posted'
    BY <1>4 DEF Inv, Orderly, Posted
  <1>10. Claimed'
    <2>1. \A q \in Process : pc'[q] = "spawn" => Leads(q, Trying(q))'
      BY <1>4 DEF Inv, Orderly, Claimed, Leads
    <2>2. ASSUME NEW v \in Worker, child'[v].kind = "issue"
          PROVE  claims'[child'[v].on] # <<>> /\ claims'[child'[v].on][1] = Boss(v)
      <3>1. CASE v = w
        BY <1>2, <1>4, <1>6, <3>1 DEF Leads
      <3>2. CASE v # w
        BY <1>2, <1>4, <2>2, <3>2 DEF Inv, Orderly, Claimed, Leads
      <3>3. QED
        BY <3>1, <3>2
    <2>3. QED
      BY <2>1, <2>2 DEF Claimed, Leads
  <1>11. Late'
    <2>1. ASSUME NEW q \in Process, pc[q] \in {"post", "race", "spawn"}, Trying(q) = i
          PROVE  claims[i] # <<>> /\ ~Leads(q, i)
      <3>1. q # Boss(w)
        BY <1>5, <2>1, AtWork DEF i
      <3>2. QED
        BY <1>6, <3>1 DEF Leads
    <2>2. ASSUME NEW q \in Process, pc'[q] \in {"post", "race", "spawn"}, PullFor(Trying(q))' # {}
          PROVE  claims'[Trying(q)'] # <<>> /\ ~Leads(q, Trying(q))'
      BY <1>4, <1>7, <2>1, <2>2 DEF Inv, Orderly, Late, Leads
    <2>3. ASSUME NEW v \in Worker, child'[v].kind = "issue", child'[v].pull = None
          PROVE  (PullFor(child[v].on) = {})'
      <3>1. v # w
        BY <1>2, <1>8, <2>3
      <3>2. child'[v] = child[v]
        BY <1>2, <3>1
      <3>3. PICK l : l = child[v].on
        OBVIOUS
      <3>4. PullFor(l) = {}
        BY <2>3, <3>2, <3>3 DEF Inv, Orderly, Late
      <3>5. l # i
        BY <1>5, <2>3, <3>1, <3>2, <3>3 DEF i, Inv, Orderly, OneImplementer
      <3>6. PullFor(l)' = {}
        BY <1>7, <3>4, <3>5
      <3>7. QED
        BY <3>2, <3>3, <3>6
    <2>4. QED
      BY <2>2, <2>3 DEF Late
  <1>12. OnePull'
    <2>1. ASSUME NEW m \in Pull, NEW n \in Pull, pull'[m].state = "open", pull'[n].state = "open",
                 pull'[m].issue = pull'[n].issue
          PROVE  m = n
      <3>1. \A k \in Pull \ {new} : pull'[k].state = "open" => pull[k].state = "open" /\ pull[k].issue # i
        BY <1>3, <1>6 DEF PullFor, OpenPulls
      <3>2. CASE m # new /\ n # new
        BY <1>3, <2>1, <3>2 DEF Inv, Orderly, OnePull, OpenPulls
      <3>3. CASE m = new \/ n = new
        BY <1>3, <2>1, <3>1, <3>3
      <3>4. QED
        BY <3>2, <3>3
    <2>2. QED
      BY <2>1 DEF OnePull, OpenPulls
  <1>13. Fresh'
    <2>1. \A v \in Worker : child'[v].kind = "issue" => child[v].kind = "issue" /\ child'[v].on = child[v].on
      BY <1>2, <1>5 DEF i
    <2>2. QED
      BY <1>4, <2>1, Workers DEF Inv, Orderly, Fresh
  <1>14. OneImplementer'
    <2>1. \A v \in Worker : child'[v].kind = "issue" => child[v].kind = "issue" /\ child'[v].on = child[v].on
      BY <1>2, <1>5 DEF i
    <2>2. QED
      BY <2>1 DEF Inv, Orderly, OneImplementer
  <1>15. QED
    BY <1>9, <1>10, <1>11, <1>12, <1>13, <1>14 DEF Orderly

\* A claim expires after whoever relied on it is gone.
LEMMA ExpireKeeps ==
  ASSUME Inv, NEW i \in Issue, Expire(i)
  PROVE  Orderly'
  <1>1. UNCHANGED <<pull, child, pc, cand>> /\ \A q \in Process : Trying(q)' = Trying(q)
    BY DEF Expire, process, Trying
  <1>2. \A l : l # i => claims'[l] = claims[l]
    BY DEF Expire, Inv, TypeOK
  <1>3. \A p \in Process : pc[p] \in {"post", "race", "spawn"} => Trying(p) # i
    BY TypePlaced, TryingIn DEF Expire, Inv, Dispatching
  <1>4. \A w \in Worker : child[w].kind = "issue" => child[w].on # i
    BY DEF Expire
  <1>5. \A l : PullFor(l)' = PullFor(l)
    BY <1>1 DEF PullFor, OpenPulls
  <1>6. Posted'
    BY <1>1, <1>2, <1>3 DEF Inv, Orderly, Posted
  <1>7. Claimed'
    <2>1. \A q \in Process : pc'[q] = "spawn" => Leads(q, Trying(q))'
      BY <1>1, <1>2, <1>3 DEF Inv, Orderly, Claimed, Leads
    <2>2. \A w \in Worker : child'[w].kind = "issue" =>
             claims'[child'[w].on] # <<>> /\ claims'[child'[w].on][1] = Boss(w)
      BY <1>1, <1>2, <1>4 DEF Inv, Orderly, Claimed, Leads
    <2>3. QED
      BY <2>1, <2>2 DEF Claimed, Leads
  <1>8. Late'
    <2>1. \A q \in Process : pc'[q] \in {"post", "race", "spawn"} /\ PullFor(Trying(q))' # {}
             => claims'[Trying(q)'] # <<>> /\ ~Leads(q, Trying(q))'
      BY <1>1, <1>2, <1>3, <1>5 DEF Inv, Orderly, Late, Leads
    <2>2. \A w \in Worker : child'[w].kind = "issue" /\ child'[w].pull = None =>
             PullFor(child[w].on)' = {}
      BY <1>1, <1>5 DEF Inv, Orderly, Late
    <2>3. QED
      BY <2>1, <2>2 DEF Late
  <1>9. OnePull' /\ OneImplementer' /\ Fresh'
    <2>1. OnePull' /\ OneImplementer'
      BY <1>1 DEF Inv, Orderly, OnePull, OpenPulls, OneImplementer
    <2>2. Fresh'
      BY <1>1, Workers DEF Inv, Orderly, Fresh
    <2>3. QED
      BY <2>1, <2>2
  <1>10. QED
    BY <1>6, <1>7, <1>8, <1>9 DEF Orderly

-----------------------------------------------------------------------------
LEMMA InvInit == Init => Inv
  <1> SUFFICES ASSUME Init PROVE Inv
    OBVIOUS
  <1>1. TypeOK
    <2>1. pull \in [Pull -> PullRecord]
      <3>1. NoPull \in PullRecord
        BY DEF NoPull, PullRecord, None
      <3>2. QED
        BY <3>1 DEF Init
    <2>2. child \in [Worker -> Assignment]
      BY DEF Init, Assignment
    <2>3. claims \in [Issue -> Seq(Process)]
      BY DEF Init
    <2>4. /\ site \in Sites /\ faults \in Nat /\ blocked \subseteq Issue
          /\ named \subseteq Process /\ bare \subseteq Pull
      BY DEF Init
    <2>5. /\ marker \in [Host -> [Issue -> Pull \cup {None, Requeued}]]
          /\ tries \in [Host -> [Issue -> Nat]] /\ cooling \in [Host -> SUBSET Issue]
          /\ repairs \in [Host -> [Pull -> Nat]]
      BY DEF Init
    <2>6. /\ builds \in [Host -> [Issue -> Nat]] /\ mends \in [Host -> [Pull -> Nat]]
          /\ lost \in [Host -> Nat]
      BY DEF Init
    <2>7. Placed
      BY DEF Init, Placed, Locations, Dispatching
    <2>8. QED
      BY <2>1, <2>2, <2>3, <2>4, <2>5, <2>6, <2>7 DEF TypeOK, Placed, Locations
  <1>2. \A w \in Worker : child[w] = NoChild
    BY DEF Init
  <1>3. Chosen /\ Locked
    BY <1>2, Workers DEF Init, Chosen, Locked, Dispatching
  <1>4. Posted /\ Claimed /\ Fresh /\ OneImplementer
    BY <1>2, Workers DEF Init, Posted, Claimed, Fresh, OneImplementer, NoChild
  <1>5. Late /\ OnePull
    <2>1. OpenPulls = {}
      BY DEF Init, OpenPulls, NoPull
    <2>2. QED
      BY <2>1 DEF Init, Late, OnePull, PullFor
  <1>6. QED
    BY <1>1, <1>3, <1>4, <1>5 DEF Inv, Orderly

LEMMA InvStep ==
  ASSUME Inv, [Next]_vars
  PROVE  Inv'
  <1>0. site.process \subseteq Process
    BY EvolveAssumption DEF Inv, TypeOK
  <1>1. TypeOK' /\ Locked' /\ Chosen'
    BY TypeStep, LockStep, ChosenStep DEF Inv, Orderly
  <1>2. ASSUME NEW p \in Process,
               \/ Sweep(p) \/ Merge(p) \/ Ready(p) \/ Update(p) \/ UpdateRed(p) \/ Rest(p)
               \/ Choose(p) \/ Repair(p) \/ Record(p) \/ RepairByHand(p) \/ Peek(p) \/ Enter(p)
               \/ Manual(p) \/ Unreachable(p) \/ Die(p) \/ MarkApplied(p)
        PROVE  Orderly'
    BY <1>2, QuietSteps, QuietKeeps
  <1>3. ASSUME NEW p \in Process,
               Check(p) \/ Post(p) \/ Race(p) \/ Abandon(p) \/ Spawn(p) \/ TimeOut(p)
        PROVE  Orderly'
    BY <1>3, CheckKeeps, PostKeeps, RaceKeeps, AbandonKeeps, SpawnKeeps, TimeOutKeeps
  <1>4. ASSUME NEW w \in Worker, OpenPull(w) \/ Push(w) \/ End(w) PROVE Orderly'
    BY <1>4, OpenPullKeeps, QuietWorker, QuietKeeps
  <1>5. ASSUME (\E n \in Pull : Checked(n)) \/ Intervene
               \/ (\E h \in Host, i \in Issue : Cooled(h, i)) \/ UNCHANGED vars
        PROVE  Orderly'
    <2>1. UNCHANGED <<claims, pc, cand, child>>
      BY <1>5 DEF Checked, Intervene, Cooled, process, github, vars
    <2>2. Unopened
      BY <1>5, CheckedUnopened, InterveneUnopened, UnchangedUnopened DEF Inv, Cooled, github, vars
    <2>3. Quiet
      BY <2>1, <2>2 DEF Quiet
    <2>4. QED
      BY <2>3, QuietKeeps
  <1>6. Orderly'
    BY <1>0, <1>2, <1>3, <1>4, <1>5, ExpireKeeps DEF Next, Step
  <1>7. QED
    BY <1>1, <1>6 DEF Inv

\* The strengthening holds in every state.
LEMMA Invariance == Spec => []Inv
  <1>1. Init => Inv
    BY InvInit
  <1>2. Inv /\ [Next]_vars => Inv'
    BY InvStep
  <1>3. QED
    BY <1>1, <1>2, PTL DEF Spec

\* Every variable keeps its type, and the lock admits one process per machine.
THEOREM TypeCorrect == Spec => []TypeOK
  BY Invariance, PTL DEF Inv

\* A machine never starts an applier child beside another that it started: whoever
\* starts one holds the lock that the others would need, and has looked for children
\* under it.  Two workers meet there only where the watchdog restarts what it timed
\* out, and one of them is a continuation.
THEOREM OneChildPerMachine == Spec => []SingleFlight
  <1>1. Inv => SingleFlight
    BY LockedFlight DEF Inv
  <1>2. QED
    BY <1>1, Invariance, PTL

\* However many machines race for an issue, and whatever the watchdog restarts, one
\* worker implements it.
THEOREM IssueImplementedOnce == Spec => []OneImplementer
  <1>1. Inv => OneImplementer
    BY DEF Inv, Orderly
  <1>2. QED
    BY <1>1, Invariance, PTL

\* However many machines race for an issue, and whatever child dies before it
\* hands its work over, there is one open pull request.
THEOREM IssueReviewedOnce == Spec => []OnePull
  <1>1. Inv => OnePull
    BY DEF Inv, Orderly
  <1>2. QED
    BY <1>1, Invariance, PTL

-----------------------------------------------------------------------------
(* The applier implements IssueDesk. *)

\* What a step may do to pull requests, apart from their checks and bases.
Still(n) == pull'[n].state = pull[n].state /\ pull'[n].issue = pull[n].issue

Moved(n, to) ==
  /\ pull[n].state = "open" /\ pull'[n].state = to
  /\ pull'[n].issue = pull[n].issue
  /\ \A m \in Pull \ {n} : Still(m)

LEMMA RebasedStill ==
  ASSUME TypeOK, NEW n \in Pull, pull' = Rebased(n)
  PROVE  \A m \in Pull : Still(m)
  BY DEF TypeOK, PullRecord, Rebased, Still

LEMMA LandMoves ==
  ASSUME Inv, NEW p \in Process, Merge(p) \/ Ready(p) \/ Update(p) \/ UpdateRed(p)
  PROVE  (\A n \in Pull : Still(n)) \/ (\E n \in Pull : Moved(n, "merged"))
  <1>0. TypeOK /\ Placed
    BY TypePlaced DEF Inv
  <1>1. UNCHANGED pull => \A n \in Pull : Still(n)
    BY DEF Still
  <1>2. CASE Merge(p)
    <2> DEFINE able == {e \in Queued(p, {"merge"}) : Mergeable(e)}
    <2>1. \/ UNCHANGED pull
          \/ able # {} /\ \E conflicting \in SUBSET OpenPulls :
               pull' = [m \in Pull |-> IF m = Oldest(able).pull THEN [pull[m] EXCEPT !.state = "merged"]
                                       ELSE Overtaken(m, conflicting)]
      BY <1>2 DEF Merge
    <2>2. able # {} => Oldest(able).pull \in Pull /\ pull[Oldest(able).pull].state = "open"
      BY <1>0, OldestPull DEF Queued, Mergeable
    <2> HIDE DEF able
    <2>3. ASSUME able # {}, NEW conflicting \in SUBSET OpenPulls,
                 pull' = [m \in Pull |-> IF m = Oldest(able).pull THEN [pull[m] EXCEPT !.state = "merged"]
                                         ELSE Overtaken(m, conflicting)]
          PROVE  \E n \in Pull : Moved(n, "merged")
      <3>1. PICK n \in Pull : n = Oldest(able).pull /\ pull[n].state = "open"
        BY <2>2, <2>3
      <3>2. pull' = [m \in Pull |-> IF m = n THEN [pull[m] EXCEPT !.state = "merged"]
                                   ELSE Overtaken(m, conflicting)]
        BY <2>3, <3>1
      <3>3. \A m \in Pull \ {n} : Still(m)
        BY <1>0, <3>2, OvertakenType DEF Still
      <3>4. pull'[n].state = "merged" /\ pull'[n].issue = pull[n].issue
        BY <1>0, <3>2 DEF TypeOK, PullRecord
      <3>5. QED
        BY <3>1, <3>3, <3>4 DEF Moved
    <2>4. QED
      BY <1>1, <2>1, <2>3
  <1>3. CASE Ready(p)
    <2>1. UNCHANGED pull \/ \E n : pull' = [pull EXCEPT ![n].draft = FALSE]
      BY <1>3 DEF Ready
    <2>2. ASSUME NEW n, pull' = [pull EXCEPT ![n].draft = FALSE] PROVE \A m \in Pull : Still(m)
      BY <1>0, <2>2 DEF TypeOK, PullRecord, Still
    <2>3. QED
      BY <1>1, <2>1, <2>2
  <1>4. CASE Update(p)
    <2> DEFINE able == {e \in Pool(p) : Updatable(e)}
    <2>1. able # {} => Oldest(able).pull \in Pull
      BY <1>0, OldestPull DEF Pool, Queued
    <2>2. UNCHANGED pull \/ (able # {} /\ pull' = Rebased(Oldest(able).pull))
      BY <1>4 DEF Update
    <2> HIDE DEF able
    <2>3. QED
      BY <1>0, <1>1, <2>1, <2>2, RebasedStill
  <1>5. CASE UpdateRed(p)
    <2>1. Oldest(Promising(p)).pull \in Pull
      BY <1>0, <1>5, OldestPull DEF UpdateRed, Promising
    <2>2. QED
      BY <1>0, <1>5, <2>1, RebasedStill DEF UpdateRed
  <1>6. QED
    BY <1>2, <1>3, <1>4, <1>5

LEMMA InterveneMoves ==
  ASSUME Inv, Intervene
  PROVE  (\A n \in Pull : Still(n)) \/ (\E n \in Pull : Moved(n, "closed"))
  <1>1. ASSUME NEW n \in OpenPulls, pull' = [pull EXCEPT ![n].state = "closed"]
        PROVE  Moved(n, "closed")
    BY <1>1 DEF Inv, TypeOK, PullRecord, OpenPulls, Moved, Still
  <1>2. ASSUME NEW conflicting, pull' = [m \in Pull |-> Overtaken(m, conflicting)]
        PROVE  \A m \in Pull : Still(m)
    BY <1>2, OvertakenType DEF Inv, Still
  <1>3. QED
    BY <1>1, <1>2 DEF Intervene, OpenPulls

\* A pull request is for an issue of the deployment.
Known == \A n \in Pull : pull[n].state # "none" => pull[n].issue \in site.issues

\* w implements i and has no pull request yet.
Implements(w, i) == child[w].kind = "issue" /\ child[w].on = i /\ child[w].pull = None

Underway(i) == \E w \in Worker : Implements(w, i)

\* Nothing happens to an issue whose pull requests stay, and that is worked on as
\* it was.
LEMMA ProgressStays ==
  ASSUME NEW i, UNCHANGED site,
         \A n \in Pull : (pull[n].issue = i /\ pull[n].state # "none") \/ pull'[n].issue = i
                           => Still(n),
         Underway(i)' <=> Underway(i)
  PROVE  Progress(i)' = Progress(i)
  <1>1. \A n \in Pull : pull'[n].issue = i /\ pull'[n].state = "merged"
                          <=> pull[n].issue = i /\ pull[n].state = "merged"
    BY DEF Still
  <1>2. i \in OpenIssues' <=> i \in OpenIssues
    BY <1>1 DEF OpenIssues
  <1>3. (\E n \in OpenPulls' : pull'[n].issue = i) <=> (\E n \in OpenPulls : pull[n].issue = i)
    BY DEF Still, OpenPulls
  <1>4. QED
    BY <1>2, <1>3 DEF Progress, Underway, Implements

\* The moves of IssueDesk.
Allowed == {<<"open", "started">>, <<"started", "open">>, <<"started", "review">>,
            <<"review", "open">>, <<"review", "merged">>}

LEMMA OneMove ==
  ASSUME NEW k \in Issue, \A i \in Issue \ {k} : Progress(i)' = Progress(i),
         Progress(k)' = Progress(k) \/ <<Progress(k), Progress(k)'>> \in Allowed
  PROVE  [Desk!Next]_[i \in Issue |-> Progress(i)]
  <1> DEFINE work == [i \in Issue |-> Progress(i)]
             next == [i \in Issue |-> Progress(i)']
  <1>1. work' = next
    OBVIOUS
  <1>2. CASE Progress(k)' = Progress(k)
    BY <1>2
  <1>3. CASE <<Progress(k), Progress(k)'>> \in Allowed
    <2>1. next = [work EXCEPT ![k] = Progress(k)']
      OBVIOUS
    <2>2. work[k] = Progress(k)
      OBVIOUS
    <2>3. Desk!Moves(k, Progress(k), Progress(k)')
      BY <1>1, <2>1, <2>2 DEF Desk!Moves
    <2>4. \/ Desk!Moves(k, "open", "started") \/ Desk!Moves(k, "started", "open")
          \/ Desk!Moves(k, "started", "review") \/ Desk!Moves(k, "review", "open")
          \/ Desk!Moves(k, "review", "merged")
      BY <1>3, <2>3 DEF Allowed
    <2>5. QED
      BY <2>4 DEF Desk!Next, Desk!Start, Desk!GiveUp, Desk!Hand, Desk!Close, Desk!Merge
  <1>4. QED
    BY <1>2, <1>3

\* Steps that neither touch the state of a pull request nor who implements what.
LEMMA NoMove ==
  ASSUME UNCHANGED site, \A n \in Pull : Still(n),
         \A i \in Issue : Underway(i)' <=> Underway(i)
  PROVE  [Desk!Next]_[i \in Issue |-> Progress(i)]
  <1>1. \A i \in Issue : Progress(i)' = Progress(i)
    BY ProgressStays
  <1>2. [i \in Issue |-> Progress(i)]' = [i \in Issue |-> Progress(i)]
    BY <1>1
  <1>3. QED
    BY <1>2

\* An open pull request is merged or closed.
LEMMA PullMove ==
  ASSUME Inv, Known, UNCHANGED <<site, child>>, NEW to \in {"merged", "closed"},
         NEW n \in Pull, Moved(n, to)
  PROVE  [Desk!Next]_[i \in Issue |-> Progress(i)]
  <1> DEFINE k == pull[n].issue
  <1>1. k \in site.issues /\ k \in Issue
    BY EvolveAssumption DEF Known, Moved, Inv, TypeOK
  <1>2. \A i \in Issue : Underway(i)' <=> Underway(i)
    BY DEF Underway, Implements
  <1>3. ASSUME NEW i \in Issue \ {k} PROVE Progress(i)' = Progress(i)
    BY <1>2, <1>3, ProgressStays DEF Moved
  <1>4. PICK j \in Issue : j = k
    BY <1>1
  <1>5. Progress(j)' = Progress(j) \/ <<Progress(j), Progress(j)'>> \in Allowed
    <2>1. CASE j \notin OpenIssues
      <3>1. j \notin OpenIssues'
        BY <2>1 DEF OpenIssues, Moved, Still
      <3>2. QED
        BY <1>1, <1>4, <2>1, <3>1 DEF Progress
    <2>2. CASE j \in OpenIssues
      <3>1. Progress(j) = "review"
        BY <1>4, <2>2 DEF Progress, Moved, OpenPulls
      <3>2. CASE to = "merged"
        <4>1. j \notin OpenIssues'
          BY <1>4, <3>2 DEF OpenIssues, Moved
        <4>2. Progress(j)' = "merged"
          BY <1>1, <1>4, <4>1 DEF Progress
        <4>3. QED
          BY <3>1, <4>2 DEF Allowed
      <3>3. CASE to = "closed"
        <4>1. j \in OpenIssues'
          BY <1>4, <2>2, <3>3 DEF OpenIssues, Moved, Still
        <4>2. \A m \in Pull : pull'[m].issue = j => pull'[m].state # "open"
          BY <1>4, <3>3 DEF Moved, Still, Inv, Orderly, OnePull, OpenPulls
        <4>3. ~Underway(j)
          BY <1>4 DEF Underway, Implements, Inv, Orderly, Late, PullFor, OpenPulls, Moved
        <4>4. Progress(j)' = "open"
          BY <1>2, <4>1, <4>2, <4>3 DEF Progress, OpenPulls, Underway, Implements
        <4>5. QED
          BY <3>1, <4>4 DEF Allowed
      <3>4. QED
        BY <3>2, <3>3
    <2>3. QED
      BY <2>1, <2>2
  <1>6. QED
    BY <1>3, <1>4, <1>5, OneMove

\* A child starts or ends.
LEMMA ChildMove ==
  ASSUME Inv, UNCHANGED <<site, pull>>, NEW k \in Issue,
         \A i \in Issue \ {k} : Underway(i)' <=> Underway(i)
  PROVE  [Desk!Next]_[i \in Issue |-> Progress(i)]
  <1>1. \A n \in Pull : Still(n)
    BY DEF Still
  <1>2. \A i \in Issue \ {k} : Progress(i)' = Progress(i)
    BY <1>1, ProgressStays
  <1>3. OpenIssues' = OpenIssues /\ OpenPulls' = OpenPulls
    BY DEF OpenIssues, OpenPulls
  <1>4. \/ Progress(k)' = Progress(k)
        \/ Progress(k) \in {"open", "started"} /\ Progress(k)' \in {"open", "started"}
    BY <1>3 DEF Progress
  <1>5. Progress(k)' = Progress(k) \/ <<Progress(k), Progress(k)'>> \in Allowed
    BY <1>4 DEF Allowed
  <1>6. QED
    BY <1>2, <1>5, OneMove

\* A child opens its pull request.
LEMMA HandMove ==
  ASSUME Inv, NEW w \in Worker, OpenPull(w)
  PROVE  [Desk!Next]_[i \in Issue |-> Progress(i)]
  <1> DEFINE k == child[w].on
             new == Min({n \in Pull : pull[n].state = "none"})
  <1>1. new \in Pull /\ pull[new].state = "none"
    BY MinIn DEF OpenPull, Pull
  <1>2. child[w] \in [kind : {"issue"}, on : Issue, pull : Pull \cup {None}]
    BY DEF OpenPull, Inv, TypeOK, Assignment, NoChild
  <1>3. /\ \A v \in Worker \ {w} : child'[v] = child[v]
        /\ child'[w].pull = new /\ child'[w].on = k /\ child'[w].kind = "issue"
    BY <1>2 DEF OpenPull, Inv, TypeOK
  <1>4. /\ \A n \in Pull \ {new} : pull'[n] = pull[n]
        /\ pull'[new].issue = k /\ pull'[new].state = "open"
    BY <1>1 DEF OpenPull, Inv, TypeOK
  <1>5. k \in OpenIssues /\ UNCHANGED site
    BY DEF OpenPull
  <1>6. Implements(w, k) /\ PullFor(k) = {}
    BY DEF OpenPull, Implements, Inv, Orderly, Late
  <1>7. PICK j \in Issue : j = k
    BY <1>2
  <1> HIDE DEF k, new
  <1>8. new # None
    BY <1>1 DEF Pull, None
  <1>9. ASSUME NEW i \in Issue \ {j} PROVE Progress(i)' = Progress(i)
    <2>1. ASSUME NEW n \in Pull,
                 (pull[n].issue = i /\ pull[n].state # "none") \/ pull'[n].issue = i
          PROVE  Still(n)
      <3>1. n # new
        BY <1>1, <1>4, <1>7, <2>1
      <3>2. QED
        BY <1>4, <3>1 DEF Still
    <2>2. \A v \in Worker : Implements(v, i)' <=> Implements(v, i)
      BY <1>3, <1>6, <1>7, <1>8 DEF Implements
    <2>3. Underway(i)' <=> Underway(i)
      BY <2>2 DEF Underway, Implements
    <2>4. QED
      BY <1>5, <2>1, <2>3, ProgressStays
  <1>10. Progress(j) = "started"
    BY <1>5, <1>6, <1>7 DEF Progress, PullFor, Implements
  <1>11. Progress(j)' = "review"
    <2>1. j \in OpenIssues'
      BY <1>4, <1>5, <1>7 DEF OpenIssues
    <2>2. QED
      BY <1>1, <1>4, <1>7, <2>1 DEF Progress, OpenPulls
  <1>12. QED
    BY <1>9, <1>10, <1>11, OneMove DEF Allowed

LEMMA DeskStep ==
  ASSUME Inv, Known, [Next]_vars
  PROVE  [Desk!Next]_[i \in Issue |-> Progress(i)] /\ Known'
  <1>0. TypeOK /\ site.process \subseteq Process
    BY EvolveAssumption DEF Inv, TypeOK
  <1> DEFINE Goal == [Desk!Next]_[i \in Issue |-> Progress(i)] /\ Known'
  <1>a. ASSUME UNCHANGED site, \A n \in Pull : pull'[n].issue = pull[n].issue
                 /\ (pull'[n].state # "none" => pull[n].state # "none")
        PROVE  Known'
    BY <1>a DEF Known
  <1>b. ASSUME UNCHANGED site, \A n \in Pull : Still(n) PROVE Known'
    BY <1>a, <1>b DEF Still
  <1>c. ASSUME UNCHANGED site, NEW n \in Pull, NEW to, Moved(n, to) PROVE Known'
    <2>1. \A m \in Pull : pull'[m].issue = pull[m].issue
                 /\ (pull'[m].state # "none" => pull[m].state # "none")
      BY <1>c DEF Moved, Still
    <2>2. QED
      BY <1>a, <1>c, <2>1
  <1>1. ASSUME NEW p \in Process, Merge(p) \/ Ready(p) \/ Update(p) \/ UpdateRed(p)
        PROVE  Goal
    <2>1. UNCHANGED <<site, child>>
      BY <1>1 DEF Merge, Ready, Update, UpdateRed
    <2>2. CASE \A n \in Pull : Still(n)
      BY <1>b, <2>1, <2>2, NoMove DEF Underway, Implements
    <2>3. CASE \E n \in Pull : Moved(n, "merged")
      BY <1>c, <2>1, <2>3, PullMove
    <2>4. QED
      BY <1>1, <2>2, <2>3, LandMoves
  <1>2. CASE Intervene
    <2>1. UNCHANGED <<site, child>>
      BY <1>2 DEF Intervene
    <2>2. CASE \A n \in Pull : Still(n)
      BY <1>b, <2>1, <2>2, NoMove DEF Underway, Implements
    <2>3. CASE \E n \in Pull : Moved(n, "closed")
      BY <1>c, <2>1, <2>3, PullMove
    <2>4. QED
      BY <1>2, <2>2, <2>3, InterveneMoves
  <1>3. ASSUME NEW p \in Process,
               \/ Sweep(p) \/ Rest(p) \/ Peek(p) \/ Enter(p) \/ Manual(p) \/ Unreachable(p)
               \/ Die(p) \/ MarkApplied(p) \/ Check(p) \/ Post(p) \/ Race(p) \/ Abandon(p)
               \/ Choose(p) \/ Record(p)
        PROVE  Goal
    <2>1. UNCHANGED <<site, child, pull>>
      BY <1>3 DEF Sweep, Rest, Peek, Enter, Manual, Unreachable, Die, MarkApplied, Check, Post,
                  Race, Abandon, Choose, Record, github
    <2>2. QED
      BY <1>b, <2>1, NoMove DEF Underway, Implements, Still
  <1>4. CASE \/ \E n \in Pull : Checked(n)
             \/ \E i \in Issue : Expire(i)
             \/ \E h \in Host, i \in Issue : Cooled(h, i)
             \/ UNCHANGED vars
    <2>1. UNCHANGED <<site, child>>
      BY <1>4 DEF Checked, Expire, Cooled, vars
    <2>2. \A n \in Pull : Still(n)
      <3>1. UNCHANGED pull \/ \E n \in Pull, x \in {"pending", "red", "green"} :
              pull' = [pull EXCEPT ![n].checks = x]
        BY <1>4 DEF Checked, Expire, Cooled, vars, github
      <3>2. ASSUME NEW n \in Pull, NEW x, pull' = [pull EXCEPT ![n].checks = x]
            PROVE  \A m \in Pull : Still(m)
        BY <1>0, <3>2 DEF Still, TypeOK, PullRecord
      <3>3. QED
        BY <3>1, <3>2 DEF Still
    <2>3. QED
      BY <1>b, <2>1, <2>2, NoMove DEF Underway, Implements
  <1>5. ASSUME NEW p \in Process, Repair(p) \/ RepairByHand(p) PROVE Goal
    <2>1. UNCHANGED <<site, pull>>
      BY <1>5 DEF Repair, RepairByHand, github
    <2>2. \/ UNCHANGED child
          \/ child[Own(p)] = NoChild /\ \E n : child' = [child EXCEPT ![Own(p)] = Mender(n)]
      BY <1>5 DEF Repair, RepairByHand, Busy
    <2>3. \A w \in Worker : \A i \in Issue : Implements(w, i)' <=> Implements(w, i)
      <3>1. ASSUME NEW n, child' = [child EXCEPT ![Own(p)] = Mender(n)], child[Own(p)] = NoChild,
                   NEW w \in Worker, NEW i \in Issue
            PROVE  Implements(w, i)' <=> Implements(w, i)
        BY <1>0, <3>1 DEF Implements, TypeOK, NoChild, Mender
      <3>2. QED
        BY <2>2, <3>1 DEF Implements
    <2>4. \A i \in Issue : Underway(i)' <=> Underway(i)
      BY <2>3 DEF Underway, Implements
    <2>5. QED
      BY <1>b, <2>1, <2>4, NoMove DEF Still
  <1>6. ASSUME NEW p \in Process, Spawn(p) PROVE Goal
    <2>1. UNCHANGED <<site, pull>> /\ child[Own(p)] = NoChild /\ Trying(p) \in Issue
      BY <1>6, AtWork DEF Spawn, github
    <2>2. PICK k \in Issue : k = Trying(p)
      BY <2>1
    <2>3. \A w \in Worker : \A i \in Issue \ {k} : Implements(w, i)' <=> Implements(w, i)
      BY <1>0, <1>6, <2>1, <2>2 DEF Spawn, Implements, TypeOK, NoChild
    <2>4. \A i \in Issue \ {k} : Underway(i)' <=> Underway(i)
      BY <2>3 DEF Underway, Implements
    <2>5. [Desk!Next]_[i \in Issue |-> Progress(i)]
      BY <2>1, <2>4, ChildMove
    <2>6. QED
      BY <1>b, <2>1, <2>5 DEF Still
  <1>7. ASSUME NEW w \in Worker, End(w) PROVE Goal
    <2>1. UNCHANGED <<site, pull>> /\ child' = [child EXCEPT ![w] = NoChild]
      BY <1>7 DEF End, github
    <2>2. \A v \in Worker : \A i \in Issue : Implements(v, i)' => Implements(v, i)
      BY <1>0, <2>1 DEF Implements, TypeOK, NoChild
    <2>3. CASE \E k \in Issue : Implements(w, k)
      <3>1. PICK k \in Issue : Implements(w, k)
        BY <2>3
      <3>2. \A v \in Worker : \A i \in Issue \ {k} : Implements(v, i)' <=> Implements(v, i)
        BY <1>0, <2>1, <2>2, <3>1 DEF Implements, TypeOK
      <3>3. \A i \in Issue \ {k} : Underway(i)' <=> Underway(i)
        BY <3>2 DEF Underway, Implements
      <3>4. [Desk!Next]_[i \in Issue |-> Progress(i)]
        BY <2>1, <3>3, ChildMove
      <3>5. QED
        BY <1>b, <2>1, <3>4 DEF Still
    <2>4. CASE \A k \in Issue : ~Implements(w, k)
      <3>1. \A v \in Worker : \A i \in Issue : Implements(v, i)' <=> Implements(v, i)
        BY <1>0, <2>1, <2>2, <2>4 DEF Implements, TypeOK
      <3>2. \A i \in Issue : Underway(i)' <=> Underway(i)
        BY <3>1 DEF Underway, Implements
      <3>3. QED
        BY <1>b, <2>1, <3>2, NoMove DEF Still
    <2>5. QED
      BY <2>3, <2>4
  <1>8. ASSUME NEW w \in Worker, Push(w) PROVE Goal
    <2>1. child[w] \in [kind : {"repair"}, on : Pull, pull : {None}]
      BY <1>0, <1>8 DEF Push, TypeOK, Assignment, NoChild
    <2>2. UNCHANGED site /\ \A n \in Pull : Still(n)
      BY <1>0, <1>8, <2>1, RebasedStill DEF Push
    <2>3. \A v \in Worker : \A i \in Issue : Implements(v, i)' <=> Implements(v, i)
      BY <1>0, <1>8, <2>1 DEF Push, Implements, TypeOK, NoChild
    <2>4. \A i \in Issue : Underway(i)' <=> Underway(i)
      BY <2>3 DEF Underway, Implements
    <2>5. QED
      BY <1>b, <2>2, <2>4, NoMove
  <1>9. ASSUME NEW w \in Worker, OpenPull(w) PROVE Goal
    <2>1. child[w].on \in site.issues /\ UNCHANGED site
      BY <1>9 DEF OpenPull, OpenIssues
    <2>2. ASSUME NEW n \in Pull
          PROVE  pull'[n] = pull[n] \/ pull'[n].issue = child[w].on
      BY <1>0, <1>9, <2>2 DEF OpenPull, TypeOK
    <2>3. Known'
      BY <2>1, <2>2 DEF Known
    <2>4. QED
      BY <1>9, <2>3, HandMove
  <1>9a. ASSUME NEW p \in Process, TimeOut(p) PROVE Goal
    <2>1. UNCHANGED <<site, pull>>
      BY <1>9a DEF TimeOut, github
    <2>2. /\ child'[Own(p)] = NoChild /\ child'[Again(p)] = child[Own(p)]
          /\ child[Again(p)] = NoChild
          /\ \A w \in Worker \ {Own(p), Again(p)} : child'[w] = child[w]
      BY <1>0, <1>9a, Workers DEF TimeOut, TypeOK
    <2>3. ASSUME NEW i \in Issue PROVE Underway(i)' <=> Underway(i)
      <3>1. ASSUME NEW w \in Worker, Implements(w, i) PROVE Underway(i)'
        <4>1. CASE w = Own(p)
          BY <2>2, <3>1, <4>1, Workers DEF Underway, Implements
        <4>2. CASE w # Own(p)
          BY <2>2, <3>1, <4>2 DEF Underway, Implements, NoChild
        <4>3. QED
          BY <4>1, <4>2
      <3>2. ASSUME NEW w \in Worker, Implements(w, i)' PROVE Underway(i)
        <4>1. CASE w = Again(p)
          BY <2>2, <3>2, <4>1, Workers DEF Underway, Implements
        <4>2. CASE w # Again(p)
          BY <2>2, <3>2, <4>2 DEF Underway, Implements, NoChild
        <4>3. QED
          BY <4>1, <4>2
      <3>3. QED
        BY <3>1, <3>2 DEF Underway
    <2>4. QED
      BY <1>b, <2>1, <2>3, NoMove DEF Still
  <1>10. QED
    BY <1>0, <1>1, <1>2, <1>3, <1>4, <1>5, <1>6, <1>7, <1>8, <1>9, <1>9a DEF Next, Step

\* Seen from the repository, every issue is started once, reviewed once and
\* merged once, whatever machines, processes and children do.
THEOREM ApplierImplementsDesk == Spec => ImplementsDesk
  <1> DEFINE work == [i \in Issue |-> Progress(i)]
  <1>1. Init => Known /\ work = [i \in Issue |-> "open"]
    <2> SUFFICES ASSUME Init PROVE Known /\ work = [i \in Issue |-> "open"]
      OBVIOUS
    <2>1. OpenPulls = {} /\ OpenIssues = site.issues
      BY DEF Init, OpenPulls, OpenIssues, NoPull
    <2>2. \A i \in Issue : Progress(i) = "open"
      BY <2>1 DEF Init, Progress, NoChild
    <2>3. QED
      BY <2>2 DEF Init, Known, NoPull
  <1>2. Init => Desk!Init
    BY <1>1 DEF Desk!Init
  <1>3. Inv /\ Known /\ [Next]_vars => Known' /\ [Desk!Next]_work
    BY DeskStep
  <1>4. QED
    BY <1>1, <1>2, <1>3, Invariance, PTL DEF Spec, ImplementsDesk, Desk!Spec

-----------------------------------------------------------------------------
(* Nothing is merged that was not green as it is. *)

\* Green, or found without checks by a sweep where none are required.
Passing(n) == pull[n].checks = "green" \/ (~site.required /\ n \in bare)

\* An entry that may still be merged under its head speaks of what is there.
Current ==
  \A p \in Process : \A e \in queue[p] :
    /\ pull[e.pull].state # "none"
    /\ e.action = "merge" /\ e.head => Passing(e.pull)

Green == Current /\ MergedGreen

\* A push outdates all entries of the pull request.
LEMMA PushGreen ==
  ASSUME TypeOK, Green, NEW n \in Pull, pull[n].state = "open", pull' = Rebased(n),
         UNCHANGED site, bare' = bare \ {n},
         \A p \in Process : queue'[p] \subseteq Pushed(n)[p]
  PROVE  Green'
  <1>1. /\ \A m \in Pull \ {n} : pull'[m] = pull[m]
        /\ pull'[n].state = "open"
    BY DEF TypeOK, PullRecord, Rebased
  <1>2. \A m \in Pull \ {n} : Passing(m) => Passing(m)'
    BY <1>1 DEF Passing
  <1>3. MergedGreen'
    BY <1>1, <1>2 DEF Green, MergedGreen, Passing
  <1>4. Current'
    <2>1. ASSUME NEW p \in Process, NEW e \in queue'[p]
          PROVE  /\ pull'[e.pull].state # "none"
                 /\ e.action = "merge" /\ e.head => Passing(e.pull)'
      <3>1. PICK f \in queue[p] : e = [f EXCEPT !.head = f.head /\ f.pull # n]
        BY <2>1 DEF Pushed
      <3>2. f \in Entry
        BY DEF TypeOK
      <3>3. e.pull = f.pull /\ e.action = f.action /\ (e.head => f.head /\ f.pull # n)
        <4> DEFINE v == f.head /\ f.pull # n
        <4>1. e = [f EXCEPT !.head = v]
          BY <3>1
        <4> HIDE DEF v
        <4>2. e.pull = f.pull /\ e.action = f.action /\ e.head = v
          BY <3>2, <4>1 DEF Entry
        <4>3. QED
          BY <4>2 DEF v
      <3>4. PICK m \in Pull : m = f.pull
        BY <3>2 DEF Entry
      <3>5. pull[m].state # "none" /\ (f.action = "merge" /\ f.head => Passing(m))
        BY <3>4 DEF Green, Current
      <3>6. pull'[m].state # "none" /\ (e.action = "merge" /\ e.head => Passing(m)')
        BY <1>1, <1>2, <3>3, <3>4, <3>5
      <3>7. QED
        BY <3>3, <3>4, <3>6
    <2>2. QED
      BY <2>1 DEF Current
  <1>5. QED
    BY <1>3, <1>4 DEF Green

\* Nothing else turns a green head into another one.
LEMMA KeepGreen ==
  ASSUME TypeOK, Green, \A p \in Process : queue'[p] \subseteq queue[p],
         UNCHANGED <<site, bare>>,
         \A n \in Pull : /\ pull[n].state # "none" => pull'[n].state # "none"
                         /\ pull[n].state # "none" /\ pull[n].checks = "green" => pull'[n].checks = "green"
                         /\ pull'[n].state = "merged" =>
                              pull[n].state = "merged" \/ (pull[n].state = "open" /\ Passing(n))
  PROVE  Green'
  <1>1. \A p \in Process : \A e \in queue[p] : e.pull \in Pull
    BY DEF TypeOK, Entry
  <1>2. \A n \in Pull : pull[n].state # "none" /\ Passing(n) => Passing(n)'
    BY DEF Passing
  <1>3. Current'
    BY <1>1, <1>2 DEF Green, Current
  <1>4. ASSUME NEW n \in Pull, pull'[n].state = "merged" PROVE Passing(n)'
    <2>1. CASE pull[n].state = "merged"
      BY <1>2, <2>1 DEF Green, MergedGreen, Passing
    <2>2. CASE pull[n].state # "merged"
      BY <1>2, <1>4, <2>2
    <2>3. QED
      BY <2>1, <2>2
  <1>5. MergedGreen'
    BY <1>4 DEF MergedGreen, Passing
  <1>6. QED
    BY <1>3, <1>5 DEF Green

LEMMA OvertakenChecks ==
  ASSUME TypeOK, NEW m \in Pull, NEW conflicting
  PROVE  Overtaken(m, conflicting).checks = pull[m].checks
  <1>1. pull[m] \in PullRecord
    BY DEF TypeOK
  <1>2. ASSUME NEW b PROVE [pull[m] EXCEPT !.base = b].checks = pull[m].checks
    BY <1>1 DEF PullRecord
  <1>3. \/ Overtaken(m, conflicting) = pull[m]
        \/ \E b : Overtaken(m, conflicting) = [pull[m] EXCEPT !.base = b]
    BY <1>1 DEF Overtaken, PullRecord
  <1>4. QED
    BY <1>1, <1>2, <1>3

LEMMA MergeGreen ==
  ASSUME TypeOK, Green, NEW p \in Process, Merge(p)
  PROVE  Green'
  <1> DEFINE able == {e \in Queued(p, {"merge"}) : Mergeable(e)}
  <1>0. UNCHANGED <<site, bare>>
    BY DEF Merge
  <1>1. CASE UNCHANGED <<pull, queue>>
    BY <1>0, <1>1, KeepGreen
  <1>2. ASSUME able # {}, queue' = [queue EXCEPT ![p] = @ \ {Oldest(able)}],
               NEW conflicting \in SUBSET OpenPulls,
               pull' = [m \in Pull |-> IF m = Oldest(able).pull THEN [pull[m] EXCEPT !.state = "merged"]
                                       ELSE Overtaken(m, conflicting)]
        PROVE  Green'
    <2>1. Oldest(able) \in able /\ Oldest(able).pull \in Pull
      BY <1>2, TypePlaced, OldestPull DEF Queued
    <2>2. PICK n \in Pull : n = Oldest(able).pull /\ pull[n].state = "open" /\ Passing(n)
      BY <2>1 DEF Queued, Mergeable, Green, Current
    <2>3. pull' = [m \in Pull |-> IF m = n THEN [pull[m] EXCEPT !.state = "merged"]
                                  ELSE Overtaken(m, conflicting)]
      BY <1>2, <2>2
    <2>4. \A m \in Pull \ {n} : pull'[m].state = pull[m].state /\ pull'[m].checks = pull[m].checks
      BY <2>3, OvertakenType, OvertakenChecks
    <2>5. pull'[n].state = "merged" /\ pull'[n].checks = pull[n].checks
      BY <2>2, <2>3 DEF TypeOK, PullRecord
    <2>6. \A q \in Process : queue'[q] \subseteq queue[q]
      BY <1>2 DEF TypeOK
    <2>7. QED
      BY <1>0, <2>2, <2>4, <2>5, <2>6, KeepGreen
  <1>3. \/ UNCHANGED <<pull, queue>>
        \/ /\ able # {} /\ queue' = [queue EXCEPT ![p] = @ \ {Oldest(able)}]
           /\ \E conflicting \in SUBSET OpenPulls :
                pull' = [m \in Pull |-> IF m = Oldest(able).pull THEN [pull[m] EXCEPT !.state = "merged"]
                                        ELSE Overtaken(m, conflicting)]
    BY DEF Merge
  <1> HIDE DEF able
  <1>4. QED
    BY <1>1, <1>2, <1>3

LEMMA SweepGreen ==
  ASSUME TypeOK, Green, NEW p \in Process, Sweep(p)
  PROVE  Green'
  <1> DEFINE found == {n \in OpenPulls : Action(HostOf[p], n) = "merge" /\ pull[n].checks = "none"}
  <1>1. UNCHANGED <<pull, site>> /\ bare' = bare \cup found
    BY DEF Sweep, github
  <1> HIDE DEF found
  <1>2. \A n : Passing(n) => Passing(n)'
    BY <1>1 DEF Passing
  <1>3. MergedGreen'
    BY <1>1, <1>2 DEF Green, MergedGreen, Passing
  <1>4. ASSUME NEW n \in OpenPulls, Action(HostOf[p], n) = "merge"
        PROVE  Passing(n)'
    <2>1. pull[n].checks = "green" \/ (pull[n].checks = "none" /\ ~site.required)
      BY <1>4 DEF Action, TypeOK, PullRecord, OpenPulls
    <2>2. QED
      BY <1>1, <1>4, <2>1 DEF Passing, found
  <1>5. queue'[p] = {[pull |-> n, action |-> Action(HostOf[p], n), head |-> TRUE] : n \in OpenPulls}
    BY DEF Sweep, TypeOK
  <1>6. \A q \in Process \ {p} : queue'[q] = queue[q]
    BY DEF Sweep, TypeOK
  <1>7. \A e \in queue'[p] : /\ pull'[e.pull].state # "none"
                             /\ e.action = "merge" /\ e.head => Passing(e.pull)'
    BY <1>1, <1>4, <1>5 DEF OpenPulls
  <1>8. \A q \in Process \ {p} : \A e \in queue'[q] :
           /\ pull'[e.pull].state # "none"
           /\ e.action = "merge" /\ e.head => Passing(e.pull)'
    BY <1>1, <1>2, <1>6 DEF Green, Current
  <1>9. Current'
    BY <1>7, <1>8 DEF Current
  <1>10. QED
    BY <1>3, <1>9 DEF Green

LEMMA GreenStep ==
  ASSUME TypeOK, Green, [Next]_vars
  PROVE  Green'
  <1>0. Placed /\ site.process \subseteq Process
    BY EvolveAssumption, TypePlaced DEF TypeOK
  <1>1. ASSUME NEW p \in Process, Ready(p) PROVE Green'
    <2>1. UNCHANGED pull \/ \E n : pull' = [pull EXCEPT ![n].draft = FALSE]
      BY <1>1 DEF Ready
    <2>2. ASSUME NEW n, pull' = [pull EXCEPT ![n].draft = FALSE]
          PROVE  \A m \in Pull : pull'[m].state = pull[m].state /\ pull'[m].checks = pull[m].checks
      BY <2>2 DEF TypeOK, PullRecord
    <2>3. \A m \in Pull : pull'[m].state = pull[m].state /\ pull'[m].checks = pull[m].checks
      BY <2>1, <2>2
    <2>4. UNCHANGED <<site, queue, bare>>
      BY <1>1 DEF Ready
    <2>5. QED
      BY <2>3, <2>4, KeepGreen DEF Green, MergedGreen, Passing
  <1>2. ASSUME NEW p \in Process, Update(p) PROVE Green'
    <2> DEFINE able == {e \in Pool(p) : Updatable(e)}
    <2>1. able # {} => Oldest(able).pull \in Pull /\ pull[Oldest(able).pull].state = "open"
      BY <1>0, OldestPull DEF Pool, Queued, Updatable
    <2>2. \/ UNCHANGED <<site, pull, queue, bare>>
          \/ /\ able # {} /\ pull' = Rebased(Oldest(able).pull) /\ UNCHANGED site
             /\ queue' = Pushed(Oldest(able).pull) /\ bare' = bare \ {Oldest(able).pull}
      BY <1>2 DEF Update
    <2> HIDE DEF able
    <2>3. CASE UNCHANGED <<site, pull, queue, bare>>
      BY <2>3, KeepGreen DEF Green, MergedGreen, Passing
    <2>4. QED
      BY <2>1, <2>2, <2>3, PushGreen
  <1>3. ASSUME NEW p \in Process, UpdateRed(p) PROVE Green'
    <2> DEFINE n == Oldest(Promising(p)).pull
    <2>1. n \in Pull /\ pull[n].state = "open"
      BY <1>0, <1>3, OldestPull DEF UpdateRed, Promising, Updatable
    <2>2. /\ pull' = Rebased(n) /\ queue' = [Pushed(n) EXCEPT ![p] = {}]
          /\ UNCHANGED site /\ bare' = bare \ {n}
      BY <1>3 DEF UpdateRed
    <2>3. \A q \in Process : queue'[q] \subseteq Pushed(n)[q]
      BY <2>2 DEF Pushed
    <2> HIDE DEF n
    <2>4. QED
      BY <2>1, <2>2, <2>3, PushGreen
  <1>4. ASSUME NEW w \in Worker, Push(w) PROVE Green'
    <2>1. child[w].on \in Pull
      <3>1. child[w] \in Assignment /\ child[w].kind = "repair"
        BY <1>4 DEF Push, TypeOK
      <3>2. QED
        BY <3>1 DEF Assignment, NoChild
    <2>2. QED
      BY <1>4, <2>1, PushGreen DEF Push
  <1>5. ASSUME NEW w \in Worker, OpenPull(w) PROVE Green'
    <2> DEFINE new == Min({n \in Pull : pull[n].state = "none"})
    <2>1. new \in Pull /\ pull[new].state = "none"
      BY <1>5, MinIn DEF OpenPull, Pull
    <2>2. /\ \A n \in Pull \ {new} : pull'[n] = pull[n]
          /\ pull'[new].state = "open"
      BY <1>5, <2>1 DEF OpenPull, TypeOK
    <2>3. UNCHANGED <<site, queue, bare>>
      BY <1>5 DEF OpenPull, process
    <2>4. QED
      BY <2>1, <2>2, <2>3, KeepGreen DEF Green, MergedGreen, Passing
  <1>6. ASSUME NEW n \in Pull, Checked(n) PROVE Green'
    <2>1. /\ \A m \in Pull \ {n} : pull'[m] = pull[m]
          /\ pull[n].checks # "green" /\ pull[n].state = "open" /\ pull'[n].state = "open"
      BY <1>6 DEF Checked, TypeOK, PullRecord
    <2>2. UNCHANGED <<site, queue, bare>>
      BY <1>6 DEF Checked, process
    <2>3. QED
      BY <2>1, <2>2, KeepGreen DEF Green, MergedGreen, Passing
  <1>7. ASSUME Intervene PROVE Green'
    <2>1. UNCHANGED <<site, queue, bare>>
      BY <1>7 DEF Intervene, process
    <2>2. ASSUME NEW n \in OpenPulls, pull' = [pull EXCEPT ![n].state = "closed"] PROVE Green'
      <3>1. /\ \A m \in Pull \ {n} : pull'[m] = pull[m]
            /\ pull[n].state = "open" /\ pull'[n].state = "closed" /\ pull'[n].checks = pull[n].checks
        BY <2>2 DEF TypeOK, PullRecord, OpenPulls
      <3>2. QED
        BY <2>1, <3>1, KeepGreen DEF Green, MergedGreen, Passing
    <2>3. ASSUME NEW conflicting, pull' = [m \in Pull |-> Overtaken(m, conflicting)] PROVE Green'
      <3>1. \A m \in Pull : pull'[m].state = pull[m].state /\ pull'[m].checks = pull[m].checks
        BY <2>3, OvertakenType, OvertakenChecks
      <3>2. QED
        BY <2>1, <3>1, KeepGreen DEF Green, MergedGreen, Passing
    <2>4. QED
      BY <1>7, <2>2, <2>3 DEF Intervene
  <1>8. ASSUME UNCHANGED <<site, pull, bare>>, \A q \in Process : queue'[q] \subseteq queue[q] PROVE Green'
    BY <1>8, KeepGreen DEF Green, MergedGreen, Passing
  <1>9. ASSUME NEW p \in Process,
               \/ Rest(p) \/ Enter(p) \/ Die(p) \/ Repair(p) \/ Check(p) \/ Post(p) \/ Race(p)
               \/ Spawn(p) \/ Unreachable(p) \/ Abandon(p) \/ Record(p) \/ Choose(p)
        PROVE  Green'
    <2>1. UNCHANGED <<site, pull, bare>>
      BY <1>9 DEF Rest, Enter, Die, Repair, Check, Post, Race, Spawn, Unreachable, Abandon,
                  Record, Choose, github
    <2>2. Choose(p) \/ Skip(p) \/ \E where : Goto(p, where)
      BY <1>9 DEF Rest, Enter, Die, Repair, Check, Post, Race, Spawn, Unreachable, Abandon, Record
    <2>3. \A q \in Process : queue'[q] \subseteq queue[q]
      <3>1. CASE Choose(p)
        <4>1. Oldest(Promising(p)) \in queue[p]
          BY <1>0, <3>1, OldestPull DEF Choose, Promising
        <4>2. QED
          BY <3>1, <4>1 DEF Choose, TypeOK
      <3>2. CASE Skip(p) \/ \E where : Goto(p, where)
        BY <3>2 DEF Skip, Goto, TypeOK
      <3>3. QED
        BY <2>2, <3>1, <3>2
    <2>4. QED
      BY <1>8, <2>1, <2>3
  <1>10. CASE \/ \E p \in Process : \/ Peek(p) \/ Manual(p) \/ MarkApplied(p)
                                    \/ RepairByHand(p) \/ TimeOut(p)
              \/ \E w \in Worker : End(w)
              \/ \E i \in Issue : Expire(i)
              \/ \E h \in Host, i \in Issue : Cooled(h, i)
              \/ UNCHANGED vars
    BY <1>8, <1>10 DEF Peek, Manual, MarkApplied, RepairByHand, TimeOut, End, Expire, Cooled, process, github, vars
  <1>11. QED
    BY <1>0, <1>1, <1>2, <1>3, <1>4, <1>5, <1>6, <1>7, <1>9, <1>10, MergeGreen, SweepGreen DEF Next, Step

\* The sweep merges only heads that it found green, or without a check where none is
\* required, although others push and update the branch between its look and its
\* call.
THEOREM GreenWhenMerged == Spec => []MergedGreen
  <1>1. Init => Green
    BY DEF Init, Green, Current, MergedGreen, NoPull
  <1>2. TypeOK /\ Green /\ [Next]_vars => Green'
    BY GreenStep
  <1>3. Green => MergedGreen
    BY DEF Green
  <1>4. QED
    BY <1>1, <1>2, <1>3, TypeCorrect, PTL DEF Spec

-----------------------------------------------------------------------------
(* A machine spends no more than it may, although candidates are read before *)
(* the lock is taken: the claim of the first attempt keeps the second off.   *)

\* The oldest claim of i comes from the machine of p.
Taken(p, i) == claims[i] # <<>> /\ HostOf[claims[i][1]] = HostOf[p]

Starting(p, i) == pc[p] \in {"post", "race", "spawn"} /\ i = Trying(p)

\* An attempt at a candidate that nobody named is left, or a claim of its own
\* machine is in the way, whose author is done with it.
Affordable ==
  \A p \in Process \ named : \A i \in cand[p] :
    \/ tries[HostOf[p]][i] < site.cap
    \/ Taken(p, i) /\ \A q \in Process : HostOf[q] = HostOf[p] => ~Starting(q, i)

\* The ledger knows of the starts, apart from those that were lost.
Budgeted ==
  \A h \in Host : \A i \in Issue :
    /\ builds[h][i] <= tries[h][i] + lost[h]
    /\ builds[h][i] <= site.cap + lost[h]

\* A process that has read its candidates loses some, or starts with one that
\* nobody has claimed.
Fewer(p) ==
  /\ p \notin named' => p \notin named \/ cand'[p] = {}
  /\ cand'[p] \subseteq cand[p]
  /\ \A i : Starting(p, i)' => Starting(p, i) \/ claims[i] = <<>>

LEMMA SpendKept ==
  ASSUME Inv, Affordable, UNCHANGED <<site, tries>>,
         \A p \in Process : Fewer(p),
         \A p \in Process \ named : \A i \in cand[p] :
           Taken(p, i) => Taken(p, i)' \/ tries[HostOf[p]][i] < site.cap
  PROVE  Affordable'
  <1>1. ASSUME NEW p \in Process, p \notin named', NEW i \in cand'[p],
               ~(tries[HostOf[p]][i] < site.cap)
        PROVE  Taken(p, i)' /\ \A q \in Process : HostOf[q] = HostOf[p] => ~Starting(q, i)'
    <2>1. i \in cand[p] /\ p \notin named
      BY <1>1 DEF Fewer
    <2>2. Taken(p, i) /\ \A q \in Process : HostOf[q] = HostOf[p] => ~Starting(q, i)
      BY <1>1, <2>1 DEF Affordable
    <2>3. \A q \in Process : HostOf[q] = HostOf[p] => ~Starting(q, i)'
      BY <2>2 DEF Fewer, Taken
    <2>4. QED
      BY <1>1, <2>1, <2>2, <2>3
  <1>2. QED
    BY <1>1 DEF Affordable

\* The starts are as many, and the losses not fewer.
LEMMA BudgetKept ==
  ASSUME TypeOK, Budgeted, UNCHANGED <<site, builds, tries>>,
         \A h \in Host : lost'[h] \in Nat /\ lost[h] <= lost'[h]
  PROVE  Budgeted'
  <1>1. ASSUME NEW h \in Host, NEW i \in Issue
        PROVE  builds[h][i] <= tries[h][i] + lost'[h] /\ builds[h][i] <= site.cap + lost'[h]
    <2>1. /\ builds[h][i] \in Nat /\ tries[h][i] \in Nat /\ lost[h] \in Nat /\ site.cap \in Nat
          /\ lost'[h] \in Nat /\ lost[h] <= lost'[h]
      BY EvolveAssumption DEF TypeOK
    <2>2. builds[h][i] <= tries[h][i] + lost[h] /\ builds[h][i] <= site.cap + lost[h]
      BY DEF Budgeted
    <2>3. QED
      BY <2>1, <2>2
  <1>2. QED
    BY <1>1 DEF Budgeted

\* Those that do not move.
LEMMA SameFewer ==
  ASSUME NEW p \in Process, pc'[p] = pc[p], cand'[p] = cand[p], p \in named <=> p \in named'
  PROVE  Fewer(p)
  BY DEF Fewer, Starting, Trying

\* Those that give up, or only look.
LEMMA IdleFewer ==
  ASSUME NEW p \in Process, pc'[p] \notin {"post", "race", "spawn"}, cand'[p] \subseteq cand[p],
         p \notin named' => p \notin named \/ cand'[p] = {}
  PROVE  Fewer(p)
  BY DEF Fewer, Starting

LEMMA SkipFewer ==
  ASSUME Inv, NEW p \in Process, Skip(p)
  PROVE  \A q \in Process : Fewer(q)
  <1>1. \A q \in Process \ {p} : Fewer(q)
    <2>1. \A q \in Process \ {p} : q \in named <=> q \in named'
      BY DEF Skip
    <2>2. QED
      BY <2>1, SkipQuiet, SameFewer
  <1>2. Fewer(p)
    <2>1. cand'[p] \subseteq cand[p] /\ (p \notin named' => p \notin named \/ cand'[p] = {})
      BY DEF Skip, Inv, TypeOK
    <2>2. QED
      BY <2>1, SkipQuiet, IdleFewer
  <1>3. QED
    BY <1>1, <1>2

LEMMA GotoFewer ==
  ASSUME Inv, NEW p \in Process, NEW where \in Locations, Goto(p, where),
         where = "post" => claims[Trying(p)] = <<>>,
         where \in {"race", "spawn"} => pc[p] \in {"post", "race"}
  PROVE  \A q \in Process : Fewer(q)
  <1>1. \A q \in Process \ {p} : Fewer(q)
    <2>1. \A q \in Process \ {p} : q \in named <=> q \in named'
      BY DEF Goto
    <2>2. QED
      BY <2>1, GotoQuiet, SameFewer
  <1>2. /\ cand'[p] \subseteq cand[p] /\ pc'[p] = where /\ (where # "idle" => cand'[p] = cand[p])
        /\ p \notin named' => p \notin named \/ cand'[p] = {}
    BY DEF Goto, Inv, TypeOK, Locations, Dispatching
  <1>3. CASE where \notin {"post", "race", "spawn"}
    BY <1>1, <1>2, <1>3, IdleFewer
  <1>4. CASE where \in {"post", "race", "spawn"}
    <2>1. Trying(p)' = Trying(p)
      BY <1>2, <1>4 DEF Trying
    <2>2. Fewer(p)
      BY <1>2, <1>4, <2>1 DEF Fewer, Starting
    <2>3. QED
      BY <1>1, <2>2
  <1>5. QED
    BY <1>3, <1>4

LEMMA LandFewer ==
  ASSUME Inv, NEW p \in Process, NEW where \in {"idle", "merge", "ready", "update", "work", "repair"},
         pc' = [pc EXCEPT ![p] = where], UNCHANGED <<cand, named>>
  PROVE  \A q \in Process : Fewer(q)
  <1>1. \A q \in Process \ {p} : Fewer(q)
    BY LandQuiet, SameFewer
  <1>2. Fewer(p)
    BY LandQuiet, IdleFewer
  <1>3. QED
    BY <1>1, <1>2

\* A claim of the machine that is taken back was not one of too many.
LEMMA RetractSpend ==
  ASSUME Inv, Affordable, NEW p \in Process, pc[p] \in {"race", "spawn"},
         claims' = [claims EXCEPT ![Trying(p)] = Retracted(Trying(p), p)]
  PROVE  \A q \in Process \ named : \A i \in cand[q] :
           Taken(q, i) => Taken(q, i)' \/ tries[HostOf[q]][i] < site.cap
  <1>1. Trying(p) \in Issue /\ claims[Trying(p)] \in Seq(Process)
    BY AtWork
  <1>2. PICK k \in 1..Len(claims[Trying(p)]) : claims[Trying(p)][k] = p
    BY DEF Inv, Orderly, Posted
  <1>3. claims[Trying(p)][1] # p => /\ Retracted(Trying(p), p) # <<>>
                                    /\ Retracted(Trying(p), p)[1] = claims[Trying(p)][1]
    BY <1>1, <1>2, RetractedLeaves
  <1>4. \A i : i # Trying(p) => claims'[i] = claims[i]
    BY DEF Inv, TypeOK
  <1>5. claims'[Trying(p)] = Retracted(Trying(p), p)
    BY <1>1 DEF Inv, TypeOK
  <1>6. Starting(p, Trying(p))
    BY DEF Starting
  <1>7. ASSUME NEW q \in Process \ named, NEW i \in cand[q], Taken(q, i)
        PROVE  Taken(q, i)' \/ tries[HostOf[q]][i] < site.cap
    <2>1. CASE i # Trying(p)
      BY <1>4, <1>7, <2>1 DEF Taken
    <2>2. CASE i = Trying(p) /\ claims[i][1] = p
      BY <1>6, <1>7, <2>2 DEF Taken, Affordable
    <2>3. CASE i = Trying(p) /\ claims[i][1] # p
      BY <1>3, <1>5, <1>7, <2>3 DEF Taken
    <2>4. QED
      BY <2>1, <2>2, <2>3
  <1>8. QED
    BY <1>7

\* What is selected has attempts left, or a name.
LEMMA SelectSpend ==
  ASSUME Inv, Affordable, NEW p \in Process, Select(p) \/ SelectNamed(p),
         UNCHANGED <<site, tries, claims>>,
         pc[p] \notin {"post", "race", "spawn"}, pc'[p] \notin {"post", "race", "spawn"},
         \A q \in Process \ {p} : pc'[q] = pc[q]
  PROVE  Affordable'
  <1>0. \A q \in Process \ {p} : cand'[q] = cand[q] /\ (q \in named <=> q \in named')
    BY SelectType DEF Inv, Select, SelectNamed
  <1>a. \A q \in Process : \A i : Starting(q, i)' => Starting(q, i)
    BY <1>0 DEF Starting, Trying
  <1>1. ASSUME NEW q \in Process \ {p}, q \notin named', NEW i \in cand'[q]
        PROVE  \/ tries'[HostOf[q]][i] < site'.cap
               \/ Taken(q, i)' /\ \A r \in Process : HostOf[r] = HostOf[q] => ~Starting(r, i)'
    BY <1>0, <1>a, <1>1 DEF Affordable, Taken
  <1>2. ASSUME p \notin named', NEW i \in cand'[p]
        PROVE  tries'[HostOf[p]][i] < site'.cap
    <2>0. Select(p)
      BY <1>2 DEF SelectNamed
    <2>1. i \in Unapplied(HostOf[p]) /\ i \notin DeadLetter(HostOf[p])
      BY <1>2, <2>0 DEF Select, Inv, TypeOK
    <2>2. i \in Issue /\ HostOf[p] \in Host
      BY <1>2, SelectType, EvolveAssumption DEF Inv
    <2>3. tries[HostOf[p]][i] \in Nat /\ site.cap \in Nat
      BY <2>2, EvolveAssumption DEF Inv, TypeOK
    <2>4. QED
      BY <2>1, <2>3 DEF DeadLetter
  <1>3. QED
    BY <1>1, <1>2 DEF Affordable

\* The attempt was left unless the issue was named; it is recorded or lost, and its
\* claim is the oldest.
LEMMA SpawnSpend ==
  ASSUME Inv, Affordable, Budgeted, NEW p \in Process, Spawn(p)
  PROVE  Affordable' /\ Budgeted'
  <1> DEFINE h == HostOf[p]
             i == Trying(p)
  <1>0. h \in Host /\ i \in Issue /\ i \in cand[p] /\ site.cap \in Nat
    BY EvolveAssumption, TypePlaced, TryingIn DEF Spawn, Inv, TypeOK, Dispatching
  <1>1. Leads(p, i) /\ Starting(p, i) /\ (p \notin named => tries[h][i] < site.cap)
    BY <1>0 DEF Spawn, Inv, Orderly, Claimed, Affordable, Starting
  <1>2. UNCHANGED <<site, claims>>
    BY DEF Spawn, github
  <1>3. PICK k \in Issue, g \in Host : k = i /\ g = h
    BY <1>0
  <1>4. \/ tries' = [tries EXCEPT ![g][k] = @ + 1] /\ UNCHANGED lost
        \/ lost' = [lost EXCEPT ![g] = @ + 1] /\ UNCHANGED tries
    BY <1>3 DEF Spawn
  <1>5. \/ builds' = builds
        \/ p \notin named /\ builds' = [builds EXCEPT ![g][k] = @ + 1]
    BY <1>3 DEF Spawn
  <1>6. Budgeted'
    <2>1. ASSUME NEW a \in Host, NEW l \in Issue
          PROVE  builds'[a][l] <= tries'[a][l] + lost'[a] /\ builds'[a][l] <= site.cap + lost'[a]
      <3>1. /\ builds[a][l] \in Nat /\ tries[a][l] \in Nat /\ lost[a] \in Nat
            /\ builds[a][l] <= tries[a][l] + lost[a] /\ builds[a][l] <= site.cap + lost[a]
        BY DEF Inv, TypeOK, Budgeted
      <3>2. CASE a = g /\ l = k
        <4>1. \/ tries'[a][l] = tries[a][l] + 1 /\ lost'[a] = lost[a]
              \/ lost'[a] = lost[a] + 1 /\ tries'[a][l] = tries[a][l]
          BY <1>4, <3>2 DEF Inv, TypeOK
        <4>2. \/ builds'[a][l] = builds[a][l]
              \/ builds'[a][l] = builds[a][l] + 1 /\ tries[a][l] < site.cap
          BY <1>1, <1>3, <1>5, <3>2 DEF Inv, TypeOK
        <4>3. QED
          BY <1>0, <3>1, <4>1, <4>2
      <3>3. CASE ~(a = g /\ l = k)
        <4>1. builds'[a][l] = builds[a][l] /\ tries'[a][l] = tries[a][l]
          BY <1>4, <1>5, <3>3 DEF Inv, TypeOK
        <4>2. lost'[a] = lost[a] \/ lost'[a] = lost[a] + 1
          BY <1>4 DEF Inv, TypeOK
        <4>3. QED
          BY <1>0, <3>1, <4>1, <4>2
      <3>4. QED
        BY <3>2, <3>3
    <2>2. QED
      BY <1>2, <2>1 DEF Budgeted
  <1>7. /\ cand'[p] = {} /\ pc'[p] = "idle"
        /\ \A q \in Process \ {p} : /\ pc'[q] = pc[q] /\ cand'[q] = cand[q]
                                    /\ q \in named <=> q \in named'
    BY DEF Spawn, Goto, Inv, TypeOK
  <1>8. \A q \in Process : \A l : Starting(q, l)' => q # p /\ Starting(q, l)
    BY <1>7 DEF Starting, Trying
  <1>9. ASSUME NEW q \in Process \ {p}, q \notin named', NEW l \in cand'[q]
        PROVE  \/ tries'[HostOf[q]][l] < site'.cap
               \/ Taken(q, l)' /\ \A r \in Process : HostOf[r] = HostOf[q] => ~Starting(r, l)'
    <2>1. l \in Issue /\ HostOf[q] \in Host /\ l \in cand[q] /\ q \notin named
      BY <1>7, <1>9, EvolveAssumption DEF Inv, TypeOK
    <2>2. CASE HostOf[q] = h /\ l = i
      <3>1. \A r \in Process \ {p} : HostOf[r] = h => pc[r] \notin Dispatching
        BY DEF Spawn, Inv, TypeOK, Dispatching
      <3>2. \A r \in Process : HostOf[r] = HostOf[q] => ~Starting(r, l)'
        BY <1>8, <2>2, <3>1 DEF Starting, Dispatching
      <3>3. Taken(q, l)'
        BY <1>1, <1>2, <2>2 DEF Taken, Leads
      <3>4. QED
        BY <3>2, <3>3
    <2>3. CASE ~(HostOf[q] = h /\ l = i)
      <3>1. tries'[HostOf[q]][l] = tries[HostOf[q]][l]
        <4>1. PICK a \in Host : a = HostOf[q]
          BY <2>1
        <4>2. ~(a = g /\ l = k)
          BY <1>3, <2>3, <4>1
        <4>3. tries \in [Host -> [Issue -> Nat]]
          BY DEF Inv, TypeOK
        <4>4. tries'[a][l] = tries[a][l]
          BY <1>4, <2>1, <4>2, <4>3
        <4>5. QED
          BY <4>1, <4>4
      <3>2. QED
        BY <1>2, <1>8, <2>1, <3>1 DEF Affordable, Taken
    <2>4. QED
      BY <2>2, <2>3
  <1>10. Affordable'
    BY <1>7, <1>9 DEF Affordable
  <1>11. QED
    BY <1>6, <1>10

LEMMA BuildStep ==
  ASSUME Inv, Affordable, Budgeted, [Next]_vars
  PROVE  Affordable' /\ Budgeted'
  <1>0. site.process \subseteq Process /\ TypeOK
    BY EvolveAssumption DEF Inv, TypeOK
  <1>a. ASSUME UNCHANGED <<site, builds, tries, lost>> PROVE Budgeted'
    BY <1>a DEF Budgeted
  <1>b. ASSUME UNCHANGED <<site, tries, claims>>, \A q \in Process : Fewer(q) PROVE Affordable'
    BY <1>b, SpendKept DEF Taken
  <1>1. ASSUME NEW p \in Process,
               \/ Sweep(p) \/ Merge(p) \/ Ready(p) \/ Update(p) \/ UpdateRed(p) \/ Choose(p)
        PROVE  Affordable' /\ Budgeted'
    <2>1. \E where \in {"idle", "merge", "ready", "update", "work", "repair"} :
             pc' = [pc EXCEPT ![p] = where]
      BY <1>1 DEF Sweep, Merge, Ready, Update, UpdateRed, Choose
    <2>2. UNCHANGED <<site, tries, claims, cand, named, builds, lost>>
      BY <1>1 DEF Sweep, Merge, Ready, Update, UpdateRed, Choose, github, ledger, spent
    <2>3. QED
      BY <1>a, <1>b, <2>1, <2>2, LandFewer
  <1>2. ASSUME NEW p \in Process, Peek(p) \/ Manual(p) PROVE Affordable' /\ Budgeted'
    <2>1. /\ pc[p] \notin {"post", "race", "spawn"} /\ pc'[p] \notin {"post", "race", "spawn"}
          /\ \A q \in Process \ {p} : pc'[q] = pc[q]
      BY <1>2 DEF Peek, Manual, Inv, TypeOK
    <2>2. (Select(p) \/ SelectNamed(p)) /\ UNCHANGED <<site, tries, claims, builds, lost>>
      BY <1>2 DEF Peek, Manual, spent
    <2>3. QED
      BY <1>a, <2>1, <2>2, SelectSpend
  <1>3. ASSUME NEW p \in Process, Rest(p) \/ Enter(p) \/ Unreachable(p) \/ Check(p)
        PROVE  Affordable' /\ Budgeted'
    <2>1. UNCHANGED <<site, tries, claims, builds, lost>>
      BY <1>3 DEF Rest, Enter, Unreachable, Check, github, ledger, spent
    <2>2. \A q \in Process : Fewer(q)
      BY <1>3, SkipFewer, GotoFewer DEF Rest, Enter, Unreachable, Check, Locations, Dispatching
    <2>3. QED
      BY <1>a, <1>b, <2>1, <2>2
  <1>4. ASSUME NEW p \in Process, Die(p) PROVE Affordable' /\ Budgeted'
    <2>1. UNCHANGED <<site, tries, claims, builds>>
      BY <1>4 DEF Die, github, ledger
    <2>2. \A q \in Process : Fewer(q)
      BY <1>4, GotoFewer DEF Die, Locations
    <2>3. \A h \in Host : lost'[h] \in Nat /\ lost[h] <= lost'[h]
      <3>1. PICK g \in Host : g = HostOf[p]
        BY EvolveAssumption
      <3>2. lost' = lost \/ lost' = [lost EXCEPT ![g] = @ + 1]
        BY <3>1, <1>4 DEF Die
      <3>3. lost \in [Host -> Nat]
        BY <1>0 DEF TypeOK
      <3>4. QED
        BY <3>2, <3>3
    <2>4. QED
      BY <1>0, <1>b, <2>1, <2>2, <2>3, BudgetKept
  <1>5. ASSUME NEW p \in Process, Post(p) PROVE Affordable' /\ Budgeted'
    <2>1. UNCHANGED <<site, tries, builds, lost>>
      BY <1>5 DEF Post, ledger, spent
    <2>2. \A q \in Process : Fewer(q)
      BY <1>5, SkipFewer, GotoFewer DEF Post, Locations, Dispatching
    <2>3. Trying(p) \in Issue /\ claims[Trying(p)] \in Seq(Process)
      BY <1>5, AtWork DEF Post
    <2>4. claims' = [claims EXCEPT ![Trying(p)] = Append(claims[Trying(p)], p)]
      BY <1>5 DEF Post
    <2>5. \A l : claims[l] # <<>> => claims'[l] # <<>> /\ claims'[l][1] = claims[l][1]
      <3>1. claims'[Trying(p)] = Append(claims[Trying(p)], p)
        BY <2>3, <2>4 DEF Inv, TypeOK
      <3>2. claims[Trying(p)] # <<>> => /\ claims'[Trying(p)] # <<>>
                                        /\ claims'[Trying(p)][1] = claims[Trying(p)][1]
        BY <2>3, <3>1, AppendProperties
      <3>3. \A l : l # Trying(p) => claims'[l] = claims[l]
        BY <2>4 DEF Inv, TypeOK
      <3>4. QED
        BY <3>2, <3>3
    <2>6. \A q \in Process : \A l \in cand[q] : Taken(q, l) => Taken(q, l)'
      BY <2>5 DEF Taken
    <2>7. QED
      BY <1>a, <2>1, <2>2, <2>6, SpendKept
  <1>6. ASSUME NEW p \in Process, Race(p) \/ Abandon(p) PROVE Affordable' /\ Budgeted'
    <2>1. UNCHANGED <<site, tries, builds, lost>> /\ pc[p] \in {"race", "spawn"}
      BY <1>6 DEF Race, Abandon, ledger, spent
    <2>2. \A q \in Process : Fewer(q)
      BY <1>6, SkipFewer, GotoFewer DEF Race, Abandon, Locations, Dispatching
    <2>3. UNCHANGED claims \/ claims' = [claims EXCEPT ![Trying(p)] = Retracted(Trying(p), p)]
      BY <1>6 DEF Race, Abandon, Retract
    <2>4. CASE UNCHANGED claims
      BY <1>a, <1>b, <2>1, <2>2, <2>4
    <2>5. CASE claims' = [claims EXCEPT ![Trying(p)] = Retracted(Trying(p), p)]
      BY <1>a, <2>1, <2>2, <2>5, RetractSpend, SpendKept
    <2>6. QED
      BY <2>3, <2>4, <2>5
  <1>7. ASSUME NEW p \in Process, Repair(p) \/ Record(p) PROVE Affordable' /\ Budgeted'
    <2>1. UNCHANGED <<site, tries, claims, builds, lost>>
      BY <1>7 DEF Repair, Record, github, ledger, spent
    <2>2. \A q \in Process : Fewer(q)
      BY <1>7, GotoFewer DEF Repair, Record, Locations
    <2>3. QED
      BY <1>a, <1>b, <2>1, <2>2
  <1>8. ASSUME NEW i \in Issue, Expire(i) PROVE Affordable' /\ Budgeted'
    <2>1. UNCHANGED <<site, tries, builds, lost, pc, cand, named>>
      BY <1>8 DEF Expire, ledger, process, spent
    <2>2. \A l : l # i => claims'[l] = claims[l]
      BY <1>8 DEF Expire, Inv, TypeOK
    <2>3. \A q \in Process : Taken(q, i) => i \notin cand[q]
      BY <1>8 DEF Expire, Taken, Inv, TypeOK
    <2>4. \A q \in Process : \A l \in cand[q] : Taken(q, l) => Taken(q, l)'
      BY <2>2, <2>3 DEF Taken
    <2>5. QED
      BY <1>a, <2>1, <2>4, SameFewer, SpendKept
  <1>9. CASE \/ \E p \in Process : MarkApplied(p) \/ RepairByHand(p) \/ TimeOut(p)
             \/ \E w \in Worker : Push(w) \/ End(w) \/ OpenPull(w)
             \/ \E n \in Pull : Checked(n)
             \/ \E h \in Host, i \in Issue : Cooled(h, i)
             \/ Intervene \/ UNCHANGED vars
    <2>1. UNCHANGED <<site, tries, builds, lost, claims, pc, cand, named>>
      BY <1>9 DEF MarkApplied, RepairByHand, TimeOut, Push, End, OpenPull, Checked, Cooled,
                  Intervene, process, github, ledger, spent, vars
    <2>2. QED
      BY <1>a, <1>b, <2>1, SameFewer
  <1>10. QED
    BY <1>0, <1>1, <1>2, <1>3, <1>4, <1>5, <1>6, <1>7, <1>8, <1>9, SpawnSpend DEF Next, Step

-----------------------------------------------------------------------------
(* Nor does it start too many repairs, although it records them later: the *)
(* one daemon of a machine does one thing at a time.                       *)

Target(p) == Oldest(queue[p]).pull

Sweeping == {"merge", "ready", "update", "work", "repair", "record"}

\* A pass is at work on a daemon, and on a pull request that has an attempt left.
Hopeful ==
  \A p \in Process :
    /\ pc[p] \in Sweeping => p \in Daemon
    /\ pc[p] \in {"repair", "record"} => repairs[HostOf[p]][Target(p)] < PrRepairMax

\* The ledger knows of the starts, apart from those that were lost and the one that
\* is about to be recorded.
Mended ==
  \A h \in Host : \A n \in Pull :
    /\ mends[h][n] <= PrRepairMax + lost[h]
    /\ \/ mends[h][n] <= repairs[h][n] + lost[h]
       \/ /\ mends[h][n] <= repairs[h][n] + lost[h] + 1
          /\ \E p \in Process : HostOf[p] = h /\ pc[p] = "record" /\ Target(p) = n

LEMMA OldestOne ==
  ASSUME NEW e \in Entry
  PROVE  Oldest({e}) = e
  <1>1. Oldest({e}) \in {e}
    BY OldestIn
  <1>2. QED
    BY <1>1

\* What a process repairs is a pull request, whoever pushes to it.
LEMMA TargetIn ==
  ASSUME TypeOK, Chosen, NEW p \in Process, pc[p] \in {"repair", "record"}
  PROVE  Target(p) \in Pull
  <1>1. PICK e \in queue[p] : queue[p] = {e}
    BY DEF Chosen
  <1>2. e \in Entry
    BY DEF TypeOK
  <1>3. QED
    BY <1>1, <1>2, OldestOne DEF Target, Entry

LEMMA PushedTarget ==
  ASSUME TypeOK, Chosen, NEW p \in Process, pc[p] \in {"repair", "record"}, NEW n \in Pull,
         queue'[p] = Pushed(n)[p]
  PROVE  Target(p)' = Target(p)
  <1>1. PICK e \in queue[p] : queue[p] = {e}
    BY DEF Chosen
  <1>2. e \in Entry
    BY DEF TypeOK
  <1> DEFINE f(d) == [d EXCEPT !.head = d.head /\ d.pull # n]
  <1>3. Pushed(n)[p] = {f(d) : d \in queue[p]}
    BY DEF Pushed
  <1>4. f(e) \in Entry /\ f(e).pull = e.pull
    <2> DEFINE v == e.head /\ e.pull # n
    <2>1. v \in BOOLEAN
      OBVIOUS
    <2> HIDE DEF v
    <2>2. [e EXCEPT !.head = v] \in Entry /\ [e EXCEPT !.head = v].pull = e.pull
      BY <1>2, <2>1 DEF Entry
    <2>3. QED
      BY <2>2 DEF v
  <1> HIDE DEF f
  <1>5. queue'[p] = {f(e)}
    BY <1>1, <1>3
  <1>6. Oldest(queue'[p]) = f(e) /\ Oldest(queue[p]) = e
    BY <1>1, <1>2, <1>4, <1>5, OldestOne
  <1>7. QED
    BY <1>4, <1>6 DEF Target

\* Nothing is at stake unless a repair is chosen, started or recorded.
LEMMA MendKept ==
  ASSUME TypeOK, Hopeful, Mended, UNCHANGED <<mends, repairs>>,
         \A h \in Host : lost'[h] \in Nat /\ lost[h] <= lost'[h],
         \A p \in Process :
           /\ pc'[p] \in Sweeping => p \in Daemon
           /\ pc'[p] \in {"repair", "record"} \/ pc[p] = "record"
                => pc'[p] = pc[p] /\ Target(p)' = Target(p)
  PROVE  Hopeful' /\ Mended'
  <1>1. Hopeful'
    BY DEF Hopeful
  <1>2. ASSUME NEW h \in Host, NEW n \in Pull
        PROVE  /\ mends[h][n] <= PrRepairMax + lost'[h]
               /\ \/ mends[h][n] <= repairs[h][n] + lost'[h]
                  \/ /\ mends[h][n] <= repairs[h][n] + lost'[h] + 1
                     /\ \E p \in Process : HostOf[p] = h /\ pc'[p] = "record" /\ Target(p)' = n
    <2>1. /\ mends[h][n] \in Nat /\ repairs[h][n] \in Nat /\ lost[h] \in Nat /\ lost'[h] \in Nat
          /\ lost[h] <= lost'[h] /\ PrRepairMax \in Nat
      BY EvolveAssumption DEF TypeOK
    <2>2. mends[h][n] <= PrRepairMax + lost'[h]
      BY <2>1 DEF Mended
    <2>3. CASE mends[h][n] <= repairs[h][n] + lost[h]
      BY <2>1, <2>2, <2>3
    <2>4. CASE /\ mends[h][n] <= repairs[h][n] + lost[h] + 1
               /\ \E p \in Process : HostOf[p] = h /\ pc[p] = "record" /\ Target(p) = n
      <3>1. \E p \in Process : HostOf[p] = h /\ pc'[p] = "record" /\ Target(p)' = n
        BY <2>4
      <3>2. QED
        BY <2>1, <2>2, <2>4, <3>1
    <2>5. QED
      BY <2>3, <2>4 DEF Mended
  <1>3. Mended'
    BY <1>2 DEF Mended
  <1>4. QED
    BY <1>1, <1>3

\* While a daemon repairs, no other process of its machine does.
LEMMA LoneRepair ==
  ASSUME Hopeful, NEW p \in Process, NEW q \in Process, pc[p] \in {"repair", "record"},
         pc[q] \in {"repair", "record"}, HostOf[p] = HostOf[q]
  PROVE  p = q
  BY EvolveAssumption DEF Hopeful, Sweeping

\* The attempt that is started was left.
LEMMA RepairSpend ==
  ASSUME Inv, Hopeful, Mended, NEW p \in Process, Repair(p)
  PROVE  Hopeful' /\ Mended'
  <1>0. TypeOK /\ Chosen /\ pc[p] = "repair" /\ p \in Daemon
    BY DEF Inv, Repair, Hopeful, Sweeping
  <1>1. PICK n \in Pull, h \in Host : n = Target(p) /\ h = HostOf[p]
    BY <1>0, TargetIn, EvolveAssumption
  <1>2. \A q \in Process \ {p} : pc'[q] = pc[q] /\ queue'[q] = queue[q]
    BY <1>0 DEF Repair, Goto, TypeOK
  <1>3. \A q \in Process \ {p} : Target(q)' = Target(q)
    BY <1>2 DEF Target
  <1>4. UNCHANGED <<repairs, lost>>
    BY DEF Repair, ledger
  <1>5. CASE pc'[p] = "idle" /\ UNCHANGED mends
    <2>1. \A g \in Host : lost'[g] \in Nat /\ lost[g] <= lost'[g]
      BY <1>0, <1>4 DEF TypeOK
    <2>2. \A q \in Process : /\ pc'[q] \in Sweeping => q \in Daemon
                             /\ pc'[q] \in {"repair", "record"} \/ pc[q] = "record"
                                  => pc'[q] = pc[q] /\ Target(q)' = Target(q)
      BY <1>0, <1>2, <1>3, <1>5 DEF Hopeful, Sweeping
    <2>3. QED
      BY <1>0, <1>4, <1>5, <2>1, <2>2, MendKept
  <1>6. CASE /\ pc'[p] = "record" /\ queue'[p] = queue[p]
             /\ mends' = [mends EXCEPT ![h][n] = @ + 1]
    <2>1. Target(p)' = n
      BY <1>1, <1>6 DEF Target
    <2>2. Hopeful'
      BY <1>0, <1>1, <1>2, <1>3, <1>4, <1>6, <2>1 DEF Hopeful, Sweeping
    <2>3. ASSUME NEW g \in Host, NEW m \in Pull
          PROVE  /\ mends'[g][m] <= PrRepairMax + lost[g]
                 /\ \/ mends'[g][m] <= repairs[g][m] + lost[g]
                    \/ /\ mends'[g][m] <= repairs[g][m] + lost[g] + 1
                       /\ \E q \in Process : HostOf[q] = g /\ pc'[q] = "record" /\ Target(q)' = m
      <3>1. /\ mends[g][m] \in Nat /\ repairs[g][m] \in Nat /\ lost[g] \in Nat
            /\ PrRepairMax \in Nat
        BY <1>0, EvolveAssumption DEF TypeOK
      <3>2. CASE g = h /\ m = n
        <4>1. mends'[g][m] = mends[g][m] + 1
          BY <1>0, <1>6, <3>2 DEF TypeOK
        <4>2. mends[g][m] <= repairs[g][m] + lost[g]
          <5>1. \A q \in Process : HostOf[q] = h => pc[q] # "record"
            BY <1>0, <1>1, LoneRepair
          <5>2. QED
            BY <3>2, <5>1 DEF Mended
        <4>3. repairs[g][m] < PrRepairMax
          BY <1>0, <1>1, <3>2 DEF Hopeful
        <4>4. mends'[g][m] <= PrRepairMax + lost[g] /\ mends'[g][m] <= repairs[g][m] + lost[g] + 1
          BY <3>1, <4>1, <4>2, <4>3
        <4>5. HostOf[p] = g /\ pc'[p] = "record" /\ Target(p)' = m
          BY <1>1, <1>6, <2>1, <3>2
        <4>6. QED
          BY <4>4, <4>5
      <3>3. CASE ~(g = h /\ m = n)
        <4>1. mends'[g][m] = mends[g][m]
          BY <1>0, <1>6, <3>3 DEF TypeOK
        <4>2. (\E q \in Process : HostOf[q] = g /\ pc[q] = "record" /\ Target(q) = m)
                => \E q \in Process : HostOf[q] = g /\ pc'[q] = "record" /\ Target(q)' = m
          BY <1>0, <1>2, <1>3
        <4>3. QED
          BY <4>1, <4>2 DEF Mended
      <3>4. QED
        BY <3>2, <3>3
    <2>4. Mended'
      BY <1>4, <2>3 DEF Mended
    <2>5. QED
      BY <2>2, <2>4
  <1>7. QED
    <2>1. \/ Goto(p, "idle") /\ UNCHANGED mends
          \/ Goto(p, "record") /\ mends' = [mends EXCEPT ![h][n] = @ + 1]
      BY <1>1 DEF Repair, Target
    <2>2. QED
      BY <1>0, <1>5, <1>6, <2>1 DEF Goto, TypeOK

\* What was about to be recorded is, or is lost with the process.
LEMMA RecordSpend ==
  ASSUME Inv, Hopeful, Mended, NEW p \in Process, Record(p) \/ (Die(p) /\ pc[p] = "record")
  PROVE  Hopeful' /\ Mended'
  <1>0. TypeOK /\ Chosen /\ pc[p] = "record" /\ p \in Daemon
    BY DEF Inv, Record, Hopeful, Sweeping
  <1>1. PICK n \in Pull, h \in Host : n = Target(p) /\ h = HostOf[p]
    BY <1>0, TargetIn, EvolveAssumption
  <1>2. pc'[p] = "idle" /\ \A q \in Process \ {p} : pc'[q] = pc[q] /\ queue'[q] = queue[q]
    BY <1>0 DEF Record, Die, Goto, TypeOK
  <1>3. \A q \in Process \ {p} : Target(q)' = Target(q)
    BY <1>2 DEF Target
  <1>4. /\ UNCHANGED mends
        /\ \/ repairs' = [repairs EXCEPT ![h][n] = @ + 1] /\ UNCHANGED lost
           \/ lost' = [lost EXCEPT ![h] = @ + 1] /\ UNCHANGED repairs
    BY <1>0, <1>1 DEF Record, Die, spent, ledger, Target
  <1>5. \A q \in Process \ {p} : pc[q] \in {"repair", "record"} => HostOf[q] # h
    BY <1>0, <1>1, LoneRepair
  <1>6. Hopeful'
    <2>1. ASSUME NEW q \in Process PROVE pc'[q] \in Sweeping => q \in Daemon
      BY <1>2 DEF Hopeful, Sweeping
    <2>2. ASSUME NEW q \in Process, pc'[q] \in {"repair", "record"}
          PROVE  repairs'[HostOf[q]][Target(q)'] < PrRepairMax
      <3>1. q # p /\ pc[q] \in {"repair", "record"} /\ Target(q)' = Target(q)
        BY <1>2, <1>3, <2>2
      <3>2. repairs'[HostOf[q]] = repairs[HostOf[q]]
        BY <1>0, <1>4, <1>5, <3>1, EvolveAssumption DEF TypeOK
      <3>3. QED
        BY <3>1, <3>2 DEF Hopeful
    <2>3. QED
      BY <2>1, <2>2 DEF Hopeful
  <1>7. ASSUME NEW g \in Host, NEW m \in Pull
        PROVE  /\ mends[g][m] <= PrRepairMax + lost'[g]
               /\ \/ mends[g][m] <= repairs'[g][m] + lost'[g]
                  \/ /\ mends[g][m] <= repairs'[g][m] + lost'[g] + 1
                     /\ \E q \in Process : HostOf[q] = g /\ pc'[q] = "record" /\ Target(q)' = m
    <2>1. /\ mends[g][m] \in Nat /\ repairs[g][m] \in Nat /\ lost[g] \in Nat /\ PrRepairMax \in Nat
      BY <1>0, EvolveAssumption DEF TypeOK
    <2>2. lost'[g] = lost[g] \/ lost'[g] = lost[g] + 1
      BY <1>0, <1>4 DEF TypeOK
    <2>3. repairs'[g][m] = repairs[g][m] \/ repairs'[g][m] = repairs[g][m] + 1
      <3>1. repairs \in [Host -> [Pull -> Nat]]
        BY <1>0 DEF TypeOK
      <3>2. CASE g = h /\ m = n
        BY <1>4, <3>1, <3>2
      <3>3. CASE ~(g = h /\ m = n)
        BY <1>4, <3>1, <3>3
      <3>4. QED
        BY <3>2, <3>3
    <2>4. mends[g][m] <= PrRepairMax + lost'[g]
      BY <2>1, <2>2 DEF Mended
    <2>5. CASE mends[g][m] <= repairs[g][m] + lost[g]
      BY <2>1, <2>2, <2>3, <2>4, <2>5
    <2>6. CASE /\ mends[g][m] <= repairs[g][m] + lost[g] + 1
               /\ \E q \in Process : HostOf[q] = g /\ pc[q] = "record" /\ Target(q) = m
      <3>1. PICK q \in Process : HostOf[q] = g /\ pc[q] = "record" /\ Target(q) = m
        BY <2>6
      <3>2. CASE q = p
        <4>1. g = h /\ m = n
          BY <1>1, <3>1, <3>2
        <4>2. repairs'[g][m] + lost'[g] = repairs[g][m] + lost[g] + 1
          <5>1. \/ repairs'[g][m] = repairs[g][m] + 1 /\ lost'[g] = lost[g]
                \/ lost'[g] = lost[g] + 1 /\ repairs'[g][m] = repairs[g][m]
            BY <1>0, <1>4, <4>1 DEF TypeOK
          <5>2. QED
            BY <2>1, <5>1
        <4>3. QED
          BY <2>4, <2>6, <4>2
      <3>3. CASE q # p
        <4>1. pc'[q] = "record" /\ Target(q)' = m
          BY <1>2, <1>3, <3>1, <3>3
        <4>2. mends[g][m] <= repairs'[g][m] + lost'[g] + 1
          BY <2>1, <2>2, <2>3, <2>6
        <4>3. QED
          BY <2>4, <3>1, <4>1, <4>2
      <3>4. QED
        BY <3>2, <3>3
    <2>7. QED
      BY <2>5, <2>6 DEF Mended
  <1>8. Mended'
    BY <1>4, <1>7 DEF Mended
  <1>9. QED
    BY <1>6, <1>8

\* A repair is not chosen for a pull request that waits for a human.
LEMMA ChooseSpend ==
  ASSUME Inv, Hopeful, Mended, NEW p \in Process, Choose(p)
  PROVE  Hopeful' /\ Mended'
  <1>0. TypeOK /\ Placed /\ pc[p] = "work" /\ p \in Daemon
    BY TypePlaced DEF Inv, Choose, Hopeful, Sweeping
  <1>1. PICK e \in Promising(p) : e = Oldest(Promising(p)) /\ e \in Entry
    BY <1>0, OldestPull DEF Choose, Promising
  <1>2. PICK n \in Pull, h \in Host : n = e.pull /\ h = HostOf[p]
    BY <1>1, EvolveAssumption DEF Entry
  <1>3. repairs[h][n] < PrRepairMax
    <2>1. e.action \in {"repair", "fix"}
      BY <1>1 DEF Choose
    <2>2. repairs[h][n] \in Nat
      BY <1>0 DEF TypeOK
    <2>3. ~NeedsHuman(h, n, e.action)
      BY <1>1, <1>2, <2>1 DEF Promising
    <2>4. ~(repairs[h][n] >= PrRepairMax) /\ PrRepairMax \in Nat
      BY <2>1, <2>3, EvolveAssumption DEF NeedsHuman
    <2>5. QED
      BY <2>2, <2>4
  <1>4. /\ pc'[p] = "repair" /\ queue'[p] = {e}
        /\ \A q \in Process \ {p} : pc'[q] = pc[q] /\ queue'[q] = queue[q]
    BY <1>0, <1>1 DEF Choose, TypeOK
  <1>5. Target(p)' = n
    BY <1>1, <1>2, <1>4, OldestOne DEF Target
  <1>6. \A q \in Process \ {p} : Target(q)' = Target(q)
    BY <1>4 DEF Target
  <1>7. UNCHANGED <<mends, repairs, lost>>
    BY DEF Choose, ledger, spent
  <1>8. Hopeful'
    BY <1>0, <1>2, <1>3, <1>4, <1>5, <1>6, <1>7 DEF Hopeful, Sweeping
  <1>9. Mended'
    <2>1. \A g \in Host : \A m \in Pull :
            (\E q \in Process : HostOf[q] = g /\ pc[q] = "record" /\ Target(q) = m)
              => \E q \in Process : HostOf[q] = g /\ pc'[q] = "record" /\ Target(q)' = m
      BY <1>0, <1>4, <1>6
    <2>2. QED
      BY <1>7, <2>1 DEF Mended
  <1>10. QED
    BY <1>8, <1>9

LEMMA MendStep ==
  ASSUME Inv, Hopeful, Mended, [Next]_vars
  PROVE  Hopeful' /\ Mended'
  <1>0. site.process \subseteq Process /\ TypeOK /\ Chosen
    BY EvolveAssumption DEF Inv, TypeOK
  <1>a. ASSUME UNCHANGED <<mends, repairs, lost>>,
               \A p \in Process :
                 /\ pc'[p] \in Sweeping => p \in Daemon
                 /\ pc'[p] \in {"repair", "record"} \/ pc[p] = "record"
                      => pc'[p] = pc[p] /\ Target(p)' = Target(p)
        PROVE  Hopeful' /\ Mended'
    <2>1. \A h \in Host : lost'[h] \in Nat /\ lost[h] <= lost'[h]
      BY <1>0, <1>a DEF TypeOK
    <2>2. QED
      BY <1>0, <1>a, <2>1, MendKept
  <1>b. ASSUME NEW p \in Process, UNCHANGED <<mends, repairs, lost>>,
               pc'[p] \notin {"repair", "record"}, pc[p] # "record",
               pc'[p] \in Sweeping => p \in Daemon,
               \A q \in Process \ {p} : pc'[q] = pc[q],
               \/ \A q \in Process \ {p} : queue'[q] = queue[q]
               \/ \E n \in Pull : \A q \in Process \ {p} : queue'[q] = Pushed(n)[q]
        PROVE  Hopeful' /\ Mended'
    <2>1. ASSUME NEW q \in Process, pc[q] \in {"repair", "record"}, q # p
          PROVE  Target(q)' = Target(q)
      <3>1. CASE queue'[q] = queue[q]
        BY <3>1 DEF Target
      <3>2. CASE \E n \in Pull : queue'[q] = Pushed(n)[q]
        BY <1>0, <2>1, <3>2, PushedTarget
      <3>3. QED
        BY <1>b, <2>1, <3>1, <3>2
    <2>2. ASSUME NEW q \in Process
          PROVE  /\ pc'[q] \in Sweeping => q \in Daemon
                 /\ pc'[q] \in {"repair", "record"} \/ pc[q] = "record"
                      => pc'[q] = pc[q] /\ Target(q)' = Target(q)
      BY <1>b, <2>1 DEF Hopeful
    <2>3. QED
      BY <1>a, <1>b, <2>2
  <1>1. ASSUME NEW p \in Process, Sweep(p) \/ Merge(p) \/ Ready(p) PROVE Hopeful' /\ Mended'
    <2>1. /\ UNCHANGED <<mends, repairs, lost>> /\ pc[p] \in {"idle", "merge", "ready"}
          /\ \E where \in {"merge", "ready", "update", "work"} : pc' = [pc EXCEPT ![p] = where]
          /\ UNCHANGED queue \/ \E s : queue' = [queue EXCEPT ![p] = s]
      BY <1>1 DEF Sweep, Merge, Ready, ledger, spent
    <2>2. p \in Daemon
      BY <1>1 DEF Sweep, Merge, Ready, Hopeful, Sweeping
    <2>3. /\ pc'[p] \notin {"repair", "record"}
          /\ \A q \in Process \ {p} : pc'[q] = pc[q] /\ queue'[q] = queue[q]
      BY <1>0, <2>1 DEF TypeOK
    <2>4. QED
      BY <1>b, <2>1, <2>2, <2>3
  <1>2. ASSUME NEW p \in Process, Update(p) PROVE Hopeful' /\ Mended'
    <2> DEFINE able == {e \in Pool(p) : Updatable(e)}
    <2>1. /\ UNCHANGED <<mends, repairs, lost>> /\ pc[p] = "update" /\ p \in Daemon
          /\ pc' = [pc EXCEPT ![p] = "work"]
      BY <1>2 DEF Update, ledger, spent, Hopeful, Sweeping
    <2>2. able # {} => Oldest(able).pull \in Pull
      BY <1>0, TypePlaced, OldestPull DEF Pool, Queued
    <2>3. UNCHANGED queue \/ (able # {} /\ queue' = Pushed(Oldest(able).pull))
      BY <1>2 DEF Update
    <2> HIDE DEF able
    <2>4. \/ \A q \in Process \ {p} : queue'[q] = queue[q]
          \/ \E n \in Pull : \A q \in Process \ {p} : queue'[q] = Pushed(n)[q]
      BY <2>2, <2>3
    <2>5. pc'[p] = "work" /\ \A q \in Process \ {p} : pc'[q] = pc[q]
      BY <1>0, <2>1 DEF TypeOK
    <2>6. QED
      BY <1>b, <2>1, <2>4, <2>5
  <1>3. ASSUME NEW p \in Process, UpdateRed(p) PROVE Hopeful' /\ Mended'
    <2>1. /\ UNCHANGED <<mends, repairs, lost>> /\ pc[p] = "work"
          /\ pc' = [pc EXCEPT ![p] = "idle"]
      BY <1>3 DEF UpdateRed, ledger, spent
    <2>2. Oldest(Promising(p)).pull \in Pull
      BY <1>0, <1>3, TypePlaced, OldestPull DEF UpdateRed, Promising
    <2>3. PICK n \in Pull : queue' = [Pushed(n) EXCEPT ![p] = {}]
      BY <1>3, <2>2 DEF UpdateRed
    <2>4. \A q \in Process \ {p} : queue'[q] = Pushed(n)[q]
      BY <2>3 DEF Pushed
    <2>5. pc'[p] = "idle" /\ \A q \in Process \ {p} : pc'[q] = pc[q]
      BY <1>0, <2>1 DEF TypeOK
    <2>6. QED
      BY <1>b, <2>1, <2>4, <2>5 DEF Sweeping
  <1>4. ASSUME NEW p \in Process,
               \/ Peek(p) \/ Enter(p) \/ Manual(p) \/ Check(p) \/ Post(p) \/ Race(p)
               \/ Rest(p) \/ Unreachable(p) \/ Abandon(p) \/ (Die(p) /\ pc[p] # "record")
        PROVE  Hopeful' /\ Mended'
    <2>1. UNCHANGED <<mends, repairs, lost>> /\ pc[p] # "record"
      BY <1>4 DEF Peek, Enter, Manual, Check, Post, Race, Rest, Unreachable, Abandon, Die, ledger,
                  spent
    <2>2. pc'[p] \notin Sweeping
      BY <1>0, <1>4 DEF Peek, Enter, Manual, Check, Post, Race, Rest, Unreachable, Abandon, Die,
                  Goto, Skip, Sweeping, TypeOK
    <2>3. \A q \in Process \ {p} : pc'[q] = pc[q] /\ queue'[q] = queue[q]
      BY <1>0, <1>4 DEF Peek, Enter, Manual, Check, Post, Race, Rest, Unreachable, Abandon, Die,
                  Goto, Skip, TypeOK
    <2>4. QED
      BY <1>b, <2>1, <2>2, <2>3 DEF Sweeping
  <1>5. ASSUME NEW p \in Process, Spawn(p) PROVE Hopeful' /\ Mended'
    <2>1. UNCHANGED <<mends, repairs>> /\ pc[p] = "spawn"
      BY <1>5 DEF Spawn
    <2>2. pc'[p] = "idle" /\ \A q \in Process \ {p} : pc'[q] = pc[q] /\ queue'[q] = queue[q]
      BY <1>0, <1>5 DEF Spawn, Goto, TypeOK
    <2>3. \A h \in Host : lost'[h] \in Nat /\ lost[h] <= lost'[h]
      <3>1. PICK g \in Host : g = HostOf[p]
        BY EvolveAssumption
      <3>2. lost' = lost \/ lost' = [lost EXCEPT ![g] = @ + 1]
        BY <3>1, <1>5 DEF Spawn
      <3>3. lost \in [Host -> Nat]
        BY <1>0 DEF TypeOK
      <3>4. QED
        BY <3>2, <3>3
    <2>4. \A q \in Process : /\ pc'[q] \in Sweeping => q \in Daemon
                             /\ pc'[q] \in {"repair", "record"} \/ pc[q] = "record"
                                  => pc'[q] = pc[q] /\ Target(q)' = Target(q)
      BY <2>1, <2>2 DEF Hopeful, Sweeping, Target
    <2>5. QED
      BY <1>0, <2>1, <2>3, <2>4, MendKept
  <1>6. ASSUME NEW w \in Worker, Push(w) PROVE Hopeful' /\ Mended'
    <2>1. UNCHANGED <<mends, repairs, lost, pc>>
      BY <1>6 DEF Push, ledger, spent
    <2>2. child[w].on \in Pull
      <3>1. child[w] \in Assignment /\ child[w].kind = "repair"
        BY <1>0, <1>6 DEF Push, TypeOK
      <3>2. QED
        BY <3>1 DEF Assignment, NoChild
    <2>3. queue' = Pushed(child[w].on)
      BY <1>6 DEF Push
    <2>4. \A q \in Process : pc[q] \in {"repair", "record"} => Target(q)' = Target(q)
      BY <1>0, <2>2, <2>3, PushedTarget
    <2>5. QED
      BY <1>a, <2>1, <2>4 DEF Hopeful
  <1>7. CASE \/ \E p \in Process : MarkApplied(p) \/ RepairByHand(p) \/ TimeOut(p)
             \/ \E w \in Worker : End(w) \/ OpenPull(w)
             \/ \E n \in Pull : Checked(n)
             \/ \E i \in Issue : Expire(i)
             \/ \E h \in Host, i \in Issue : Cooled(h, i)
             \/ Intervene \/ UNCHANGED vars
    <2>1. UNCHANGED <<mends, repairs, lost, pc, queue>>
      BY <1>7 DEF MarkApplied, RepairByHand, TimeOut, End, OpenPull, Checked, Expire, Cooled,
                  Intervene, process, github, ledger, spent, vars
    <2>2. QED
      BY <1>a, <2>1 DEF Hopeful, Target
  <1>8. QED
    BY <1>0, <1>1, <1>2, <1>3, <1>4, <1>5, <1>6, <1>7, RepairSpend, RecordSpend, ChooseSpend
       DEF Next, Step

\* A machine starts no more children for a pull request, or for an issue that nobody
\* names, than the configuration allows, plus one for every process that dies between
\* a start and its record: it reads its ledger before it holds the lock and records a
\* repair after it, but its own claim keeps a second implementer off, and its one
\* daemon does not choose a repair before it has recorded the last.
THEOREM SpendNeverExceeded == Spec => []SpendBounded
  <1>1. Init => Affordable /\ Budgeted /\ Hopeful /\ Mended
    <2> SUFFICES ASSUME Init PROVE Affordable /\ Budgeted /\ Hopeful /\ Mended
      OBVIOUS
    <2>1. site.cap \in Nat /\ PrRepairMax \in Nat
      BY EvolveAssumption DEF Init
    <2>2. Affordable /\ Hopeful
      BY DEF Init, Affordable, Hopeful, Sweeping
    <2>3. ASSUME NEW h \in Host
          PROVE  /\ lost[h] = 0
                 /\ \A i \in Issue : builds[h][i] = 0 /\ tries[h][i] = 0
                 /\ \A n \in Pull : mends[h][n] = 0 /\ repairs[h][n] = 0
      BY DEF Init
    <2>4. Budgeted /\ Mended
      BY <2>1, <2>3 DEF Budgeted, Mended
    <2>5. QED
      BY <2>2, <2>4
  <1>2. Inv /\ Affordable /\ Budgeted /\ [Next]_vars => Affordable' /\ Budgeted'
    BY BuildStep
  <1>3. Inv /\ Hopeful /\ Mended /\ [Next]_vars => Hopeful' /\ Mended'
    BY MendStep
  <1>4. Budgeted /\ Mended => SpendBounded
    BY DEF Budgeted, Mended, SpendBounded
  <1>5. QED
    BY <1>1, <1>2, <1>3, <1>4, Invariance, PTL DEF Spec
=============================================================================
