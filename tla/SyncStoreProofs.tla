--------------------------- MODULE SyncStoreProofs ---------------------------
(***************************************************************************)
(* The inductive invariant of the databases of SyncStore, for any number   *)
(* of nodes and rows and any wall clocks: a local write, a merge of        *)
(* written changes and a cloning keep it; and the lemmas about stamps that *)
(* it rests on.                                                            *)
(***************************************************************************)
EXTENDS SyncProperties, TLAPS

-----------------------------------------------------------------------------
\* Stamps and clocks: the operators of SyncClock.

\* The components of a stamp.
LEMMA StampParts ==
  ASSUME NEW a \in StampOrNone
  PROVE  /\ a[1] \in Nat /\ a[2] \in Nat /\ a[3] \in Nat
         /\ a = <<a[1], a[2], a[3]>>
  <1>1. CASE a \in Stamp
    <2>1. a \in Nat \X Nat \X Nat
      BY <1>1, NodeAssumption DEF Stamp
    <2>2. QED
      BY <2>1
  <1>2. CASE a = NoStamp
    BY <1>2 DEF NoStamp
  <1>3. QED
    BY <1>1, <1>2 DEF StampOrNone

\* Stamps with the same parts are the same stamp.
LEMMA StampsEqual ==
  ASSUME NEW a \in StampOrNone, NEW b \in StampOrNone,
         a[1] = b[1], a[2] = b[2], a[3] = b[3]
  PROVE  a = b
  BY StampParts

\* The order of the stamps is strict, total and transitive (the string
\* comparisons of protocol.py).
LEMMA LessIrreflexive ==
  ASSUME NEW a \in StampOrNone
  PROVE  ~ Less(a, a)
  BY StampParts DEF Less

\* The order of the stamps is transitive.
LEMMA LessTransitive ==
  ASSUME NEW a \in StampOrNone, NEW b \in StampOrNone, NEW c \in StampOrNone,
         Less(a, b), Less(b, c)
  PROVE  Less(a, c)
  BY StampParts DEF Less

\* Any two stamps are ordered: last-writer-wins always has a winner.
LEMMA LessTotal ==
  ASSUME NEW a \in StampOrNone, NEW b \in StampOrNone
  PROVE  Less(a, b) \/ Less(b, a) \/ a = b
  BY StampParts, StampsEqual DEF Less

\* The absent stamp is below every stamp.
LEMMA NoStampLeast ==
  ASSUME NEW a \in Stamp
  PROVE  Less(NoStamp, a) /\ a # NoStamp /\ ~ Leq(a, NoStamp)
  <1>1. a[1] \in Nat /\ a[2] \in Nat /\ a[3] \in Node
    BY DEF Stamp
  <1>2. a[3] \in Nat \ {0}
    BY <1>1, NodeAssumption
  <1>3. NoStamp[1] = 0 /\ NoStamp[2] = 0 /\ NoStamp[3] = 0
    BY DEF NoStamp
  <1>4. QED
    BY <1>1, <1>2, <1>3 DEF Less, Leq

\* So is the order with equality.
LEMMA LeqTransitive ==
  ASSUME NEW a \in StampOrNone, NEW b \in StampOrNone, NEW c \in StampOrNone,
         Leq(a, b), Leq(b, c)
  PROVE  Leq(a, c)
  BY LessTransitive DEF Leq

\* A strict step on either side makes the chain strict.
LEMMA LessLeqTransitive ==
  ASSUME NEW a \in StampOrNone, NEW b \in StampOrNone, NEW c \in StampOrNone,
         \/ Less(a, b) /\ Leq(b, c)
         \/ Leq(a, b) /\ Less(b, c)
  PROVE  Less(a, c)
  BY LessTransitive DEF Leq

\* Of two stamps one is at most the other.
LEMMA NotLeq ==
  ASSUME NEW a \in StampOrNone, NEW b \in StampOrNone
  PROVE  Leq(a, b) <=> ~ Less(b, a)
  BY LessTotal, LessIrreflexive, LessTransitive DEF Leq

-----------------------------------------------------------------------------
\* The clock part of a stamp is a clock value.
LEMMA TimeType ==
  ASSUME NEW s \in StampOrNone
  PROVE  Time(s) \in ClockValue
  BY DEF Time, StampOrNone, Stamp, NoStamp, ClockValue

\* The order of the clock values is transitive.
LEMMA ClockLeqTransitive ==
  ASSUME NEW a \in ClockValue, NEW b \in ClockValue, NEW c \in ClockValue,
         ClockLeq(a, b), ClockLeq(b, c)
  PROVE  ClockLeq(a, c)
  BY DEF ClockLeq, ClockValue

\* The order of the stamps refines that of their times.
LEMMA LeqTime ==
  ASSUME NEW a \in StampOrNone, NEW b \in StampOrNone, Leq(a, b)
  PROVE  ClockLeq(Time(a), Time(b))
  BY DEF Leq, Less, ClockLeq, Time, StampOrNone, Stamp, NoStamp

\* The stamp of a node whose clock has passed s is above s.
LEMMA ClockLessStamp ==
  ASSUME NEW s \in StampOrNone, NEW c \in ClockValue, NEW d \in ClockValue,
         NEW n \in Node, ClockLeq(Time(s), c), ClockLess(c, d)
  PROVE  Less(s, <<d[1], d[2], n>>)
  BY DEF Less, ClockLess, ClockLeq, ClockValue, Time, StampOrNone, Stamp, NoStamp

-----------------------------------------------------------------------------
\* The send rule (_ADVANCE of capture.py, hlc_now) strictly advances the
\* clock, whatever the wall clock reads.
LEMMA SendAdvances ==
  ASSUME NEW c \in ClockValue, NEW now \in Nat
  PROVE  /\ Send(c, now) \in ClockValue
         /\ ClockLess(c, Send(c, now))
         /\ ClockLeq(c, Send(c, now))
  BY DEF Send, ClockLess, ClockLeq, ClockValue

\* The greatest of three is one of them and bounds them.
LEMMA Max3Bound ==
  ASSUME NEW a \in Nat, NEW b \in Nat, NEW c \in Nat
  PROVE  /\ Max3(a, b, c) \in {a, b, c}
         /\ a <= Max3(a, b, c) /\ b <= Max3(a, b, c) /\ c <= Max3(a, b, c)
  BY DEF Max3

\* The receive rule (hlc_absorb) takes the clock past the received stamp and
\* never back.
LEMMA AbsorbAbove ==
  ASSUME NEW c \in ClockValue, NEW r \in StampOrNone, NEW now \in Nat
  PROVE  /\ Absorb(c, r, now) \in ClockValue
         /\ ClockLeq(c, Absorb(c, r, now))
         /\ ClockLeq(Time(r), Absorb(c, r, now))
  <1> DEFINE phys == Max3(c[1], r[1], now)
  <1>1. c[1] \in Nat /\ c[2] \in Nat /\ r[1] \in Nat /\ r[2] \in Nat
    BY DEF ClockValue, StampOrNone, Stamp, NoStamp
  <1>2. phys \in Nat /\ c[1] <= phys /\ r[1] <= phys
    BY <1>1, Max3Bound
  <1> HIDE DEF phys
  <1>3. QED
    BY <1>1, <1>2 DEF Absorb, phys, ClockLeq, Time, ClockValue

-----------------------------------------------------------------------------
\* The inductive invariant of the databases.

\* A node has no identity but its own, and holds nothing before it has one.
OwnIdentity ==
  \A n \in Node :
    /\ nid[n] \in {0, n}
    /\ nid[n] = 0 => /\ tomb[n] = {}
                     /\ \A g \in Gid : row[n][g] = NoStamp

\* Nodes hold what some node has written, and nothing else.
HeldWritten == \A n \in Node : Held(n) \subseteq written

\* No write is ahead of the clock of its author.
OwnClock ==
  \A w \in written : /\ nid[Origin(w.hlc)] # 0
                     /\ ClockLeq(Time(w.hlc), clock[Origin(w.hlc)])

\* Where versions come from: what holds whatever a merge decides to keep.
HistoryInv ==
  /\ StoreTypeOK
  /\ OwnIdentity
  /\ HeldWritten
  /\ OwnClock
  /\ ClockDominates
  /\ StampsUnique

StoreInv == HistoryInv /\ NoResurrection

-----------------------------------------------------------------------------
\* What a merge does to one row.

\* The parts of a change.
LEMMA ChangeType ==
  ASSUME NEW c \in Change
  PROVE  /\ c.op \in Op /\ c.gid \in Gid /\ c.hlc \in Stamp
         /\ c.hlc \in StampOrNone
         /\ Origin(c.hlc) \in Node
         /\ Time(c.hlc) \in ClockValue
  BY TimeType DEF Change, Origin, StampOrNone, Stamp

\* After the puts of a changeset a row is unchanged, or one of them.
LEMMA AcceptedPut ==
  ASSUME NEW r, NEW t, NEW changes, NEW g
  PROVE  \/ /\ AfterPuts(r, t, changes, g) = r[g]
            /\ \A c \in changes : c.gid = g => ~ Accepts(r, t, c)
         \/ \E c \in changes : /\ c.gid = g /\ Accepts(r, t, c)
                               /\ AfterPuts(r, t, changes, g) = c.hlc
  BY DEF AfterPuts

\* A put never makes a row older.
LEMMA PutsRaise ==
  ASSUME NEW r \in [Gid -> StampOrNone], NEW t \in SUBSET Change,
         NEW changes \in SUBSET Change, NEW g \in Gid
  PROVE  /\ AfterPuts(r, t, changes, g) \in StampOrNone
         /\ Leq(r[g], AfterPuts(r, t, changes, g))
  BY AcceptedPut, ChangeType DEF Accepts, Leq

\* After the deletes it is gone because of one of them, or is what the puts left.
LEMMA DeletesEffect ==
  ASSUME NEW r \in [Gid -> StampOrNone], NEW t \in SUBSET Change,
         NEW changes \in SUBSET Change, NEW g \in Gid
  PROVE  \/ /\ AfterDeletes(r, t, changes, g) = NoStamp
            /\ \E d \in Deletes(changes) :
                 d.gid = g /\ Less(AfterPuts(r, t, changes, g), d.hlc)
         \/ /\ AfterDeletes(r, t, changes, g) = AfterPuts(r, t, changes, g)
            /\ \A d \in Deletes(changes) :
                 d.gid = g => Leq(d.hlc, AfterPuts(r, t, changes, g))
  <1>1. \A d \in Deletes(changes) : d.hlc \in StampOrNone
    BY ChangeType DEF Deletes
  <1>2. QED
    BY <1>1, PutsRaise, NotLeq DEF AfterDeletes

\* A merged row is a stamp or absent.
LEMMA AfterDeletesType ==
  ASSUME NEW r \in [Gid -> StampOrNone], NEW t \in SUBSET Change,
         NEW changes \in SUBSET Change, NEW g \in Gid
  PROVE  AfterDeletes(r, t, changes, g) \in StampOrNone
  BY PutsRaise DEF AfterDeletes, StampOrNone

\* A version s that a row covers stays covered by the merged row or by a
\* delete of the changeset.
LEMMA MergeCovers ==
  ASSUME NEW r \in [Gid -> StampOrNone], NEW t \in SUBSET Change,
         NEW changes \in SUBSET Change, NEW g \in Gid,
         NEW s \in StampOrNone, Leq(s, r[g])
  PROVE  \/ Leq(s, AfterDeletes(r, t, changes, g))
         \/ \E d \in Deletes(changes) : d.gid = g /\ Leq(s, d.hlc)
  <1> DEFINE put == AfterPuts(r, t, changes, g)
  <1>1. put \in StampOrNone /\ Leq(s, put)
    BY PutsRaise, LeqTransitive
  <1>2. \A d \in Deletes(changes) : d.hlc \in StampOrNone
    BY ChangeType DEF Deletes
  <1>3. \A d \in Deletes(changes) : Less(put, d.hlc) => Leq(s, d.hlc)
    BY <1>1, <1>2, LessLeqTransitive DEF Leq
  <1>4. QED
    BY <1>1, <1>3, DeletesEffect

\* What a merge leaves in a row was there before or is a put of the changeset.
LEMMA MergedRow ==
  ASSUME NEW r \in [Gid -> StampOrNone], NEW t \in SUBSET Change,
         NEW changes \in SUBSET Change, NEW g \in Gid,
         AfterDeletes(r, t, changes, g) # NoStamp,
         AfterDeletes(r, t, changes, g) # r[g]
  PROVE  [op |-> "put", gid |-> g, hlc |-> AfterDeletes(r, t, changes, g)]
           \in changes
  <1>1. PICK c \in changes : /\ c.gid = g /\ Accepts(r, t, c)
                             /\ AfterDeletes(r, t, changes, g) = c.hlc
    <2>1. AfterDeletes(r, t, changes, g) = AfterPuts(r, t, changes, g)
      BY DeletesEffect
    <2>2. QED
      BY <2>1, AcceptedPut
  <1>2. c = [op |-> "put", gid |-> g, hlc |-> c.hlc]
    BY <1>1 DEF Accepts, Change
  <1>3. QED
    BY <1>1, <1>2

-----------------------------------------------------------------------------
\* A merge is last-writer-wins, whatever was merged before.

\* A changeset has one put per row.
OnePut(S) == \A c, d \in S : c.op = "put" /\ d.op = "put" /\ c.gid = d.gid => c = d

\* The stamps that S has for the row g, and those of its puts.
Stamps(S, g) == {c.hlc : c \in {d \in S : d.gid = g}}
PutStamps(S, g) == {c.hlc : c \in {d \in S : d.gid = g /\ d.op = "put"}}

\* x is what the puts of the stamps P and the deletes of the stamps D leave: the
\* newest put unless a delete is newer.
Winner(P, D, x) ==
  /\ x # NoStamp => /\ x \in P
                    /\ \A p \in P : Leq(p, x)
                    /\ \A d \in D : Less(d, x)
  /\ x = NoStamp => \A p \in P : p # NoStamp => \E d \in D : Leq(p, d)

\* There is one winner.
LEMMA OneWinner ==
  ASSUME NEW P \in SUBSET StampOrNone, NEW D \in SUBSET StampOrNone,
         NEW x \in StampOrNone, NEW y \in StampOrNone, Winner(P, D, x), Winner(P, D, y)
  PROVE  x = y
  <1>1. CASE x # NoStamp /\ y # NoStamp
    BY <1>1, NotLeq DEF Winner, Leq
  <1>2. CASE x # NoStamp /\ y = NoStamp
    BY <1>2, NotLeq DEF Winner
  <1>3. CASE x = NoStamp /\ y # NoStamp
    BY <1>3, NotLeq DEF Winner
  <1>4. QED
    BY <1>1, <1>2, <1>3

\* A merge of S into the winner of what came before gives the winner of all.
LEMMA MergeWins ==
  ASSUME NEW r \in [Gid -> StampOrNone], NEW t \in SUBSET Change,
         NEW S \in SUBSET Change, OnePut(S), NEW g \in Gid,
         NEW P \in SUBSET StampOrNone, Winner(P, Stamps(t, g), r[g]),
         \A d \in t \cup Deletes(S) :
           d.gid = g => d.hlc \notin P \cup PutStamps(S, g)
  PROVE  Winner(P \cup PutStamps(S, g), Stamps(t \cup Deletes(S), g),
                AfterDeletes(r, t, S, g))
  <1> DEFINE put == AfterPuts(r, t, S, g)
             x   == AfterDeletes(r, t, S, g)
             Q   == P \cup PutStamps(S, g)
             D   == Stamps(t \cup Deletes(S), g)
  <1>1. /\ \A c \in S : c.hlc \in StampOrNone /\ c.hlc \in Stamp
        /\ \A d \in t : d.hlc \in StampOrNone
        /\ put \in StampOrNone /\ Leq(r[g], put) /\ r[g] \in StampOrNone
    BY ChangeType, PutsRaise
  <1>2. \A d \in t \cup Deletes(S) : d.gid = g => d.hlc \in D
    BY DEF Stamps
  <1>3. put = r[g] \/ put \in PutStamps(S, g)
    BY AcceptedPut DEF PutStamps, Accepts
  \* Of the stamps seen so far, put is the newest or has been deleted.
  <1>4. ASSUME NEW p \in Q, p # NoStamp
        PROVE  Leq(p, put) \/ \E d \in t : d.gid = g /\ Leq(p, d.hlc)
    <2>1. CASE p \in P
      <3>1. CASE r[g] # NoStamp
        BY <1>1, <2>1, <3>1, LeqTransitive DEF Winner
      <3>2. CASE r[g] = NoStamp
        BY <1>4, <2>1, <3>2 DEF Winner, Stamps
      <3>3. QED
        BY <3>1, <3>2
    <2>2. ASSUME NEW c \in S, c.gid = g, c.op = "put", p = c.hlc
          PROVE  Leq(p, put) \/ \E d \in t : d.gid = g /\ Leq(p, d.hlc)
      <3>1. CASE Accepts(r, t, c)
        <4>1. \E e \in S : e.gid = g /\ Accepts(r, t, e) /\ put = e.hlc
          BY <2>2, <3>1, AcceptedPut
        <4>2. put = c.hlc
          BY <2>2, <4>1 DEF OnePut, Accepts
        <4>3. QED
          BY <2>2, <4>2 DEF Leq
      <3>2. CASE ~ Less(r[g], c.hlc)
        BY <1>1, <2>2, <3>2, NotLeq, LeqTransitive
      <3>3. QED
        BY <2>2, <3>1, <3>2 DEF Accepts
    <2>3. QED
      BY <2>1, <2>2 DEF PutStamps
  \* Nothing merged before has deleted it.
  <1>5. ASSUME put # NoStamp, NEW d \in t, d.gid = g
        PROVE  Less(d.hlc, put)
    <2>1. CASE put = r[g]
      BY <1>5, <2>1 DEF Winner, Stamps
    <2>2. CASE put # r[g]
      <3>1. \E c \in S : c.gid = g /\ Accepts(r, t, c) /\ put = c.hlc
        BY <2>2, AcceptedPut
      <3>2. QED
        BY <1>1, <1>5, <3>1, NotLeq DEF Accepts
    <2>3. QED
      BY <2>1, <2>2
  <1>6. put # NoStamp => put \in Q /\ \A p \in Q : Leq(p, put)
    <2> SUFFICES ASSUME put # NoStamp PROVE put \in Q /\ \A p \in Q : Leq(p, put)
      OBVIOUS
    <2>1. put \in Q
      BY <1>3 DEF Winner
    <2>2. ASSUME NEW p \in Q PROVE Leq(p, put)
      <3>1. CASE p = NoStamp
        BY <1>1, <3>1, NoStampLeast DEF Leq, StampOrNone
      <3>2. ASSUME NEW d \in t, d.gid = g, Leq(p, d.hlc)
            PROVE  Leq(p, put)
        <4>1. Less(d.hlc, put) /\ p \in StampOrNone
          BY <3>2, <1>1, <1>5 DEF PutStamps
        <4>2. QED
          BY <1>1, <3>2, <4>1, LessLeqTransitive DEF Leq
      <3>3. QED
        BY <1>4, <3>1, <3>2
    <2>3. QED
      BY <2>1, <2>2
  <1> HIDE DEF put
  <1>7. CASE /\ x = NoStamp
             /\ \E d \in Deletes(S) : d.gid = g /\ Less(put, d.hlc)
    <2>1. PICK d \in Deletes(S) : d.gid = g /\ Less(put, d.hlc)
      BY <1>7
    <2>2. d.hlc \in StampOrNone /\ d.hlc \in D
      BY <2>1, <1>1, <1>2 DEF Deletes
    <2>3. ASSUME NEW p \in Q, p # NoStamp
          PROVE  \E e \in D : Leq(p, e)
      <3>1. CASE Leq(p, put)
        <4>1. p \in StampOrNone
          BY <1>1 DEF PutStamps
        <4>2. Leq(p, d.hlc)
          BY <1>1, <2>1, <2>2, <3>1, <4>1, LessLeqTransitive DEF Leq
        <4>3. QED
          BY <2>2, <4>2
      <3>2. QED
        BY <1>2, <1>4, <2>3, <3>1
    <2>4. QED
      BY <1>7, <2>3 DEF Winner
  <1>8. CASE /\ x = put
             /\ \A d \in Deletes(S) : d.gid = g => Leq(d.hlc, put)
    <2>1. CASE put # NoStamp
      <3>1. ASSUME NEW e \in D
            PROVE  Less(e, put)
        <4>1. PICK d \in t \cup Deletes(S) : d.gid = g /\ e = d.hlc
          BY DEF Stamps
        <4>2. e # put
          BY <1>6, <2>1, <4>1
        <4>3. CASE d \in t
          BY <1>5, <2>1, <4>1, <4>3
        <4>4. CASE d \in Deletes(S)
          BY <1>8, <4>1, <4>2, <4>4 DEF Leq
        <4>5. QED
          BY <4>1, <4>3, <4>4
      <3>2. QED
        BY <1>6, <1>8, <2>1, <3>1 DEF Winner
    <2>2. CASE put = NoStamp
      <3>1. ASSUME NEW p \in Q, p # NoStamp
            PROVE  \E e \in D : Leq(p, e)
        <4>1. p \in StampOrNone /\ p \in Stamp
          BY <1>1, <3>1 DEF PutStamps, StampOrNone
        <4>2. ~ Leq(p, put)
          BY <2>2, <4>1, NoStampLeast
        <4>3. QED
          BY <1>2, <1>4, <3>1, <4>2
      <3>2. QED
        BY <1>8, <2>2, <3>1 DEF Winner
    <2>3. QED
      BY <2>1, <2>2
  <1>9. \/ x = NoStamp /\ \E d \in Deletes(S) : d.gid = g /\ Less(put, d.hlc)
        \/ x = put /\ \A d \in Deletes(S) : d.gid = g => Leq(d.hlc, put)
    BY DeletesEffect DEF put
  <1>10. QED
    BY <1>7, <1>8, <1>9

-----------------------------------------------------------------------------
\* What one node holds.

\* What a node holds is a tombstone or the put of one of its rows.
LEMMA HeldCases ==
  ASSUME NEW n \in Node
  PROVE  \A c : c \in Held(n) <=>
           \/ c \in tomb[n]
           \/ \E g \in Gid : /\ row[n][g] # NoStamp
                             /\ c = [op |-> "put", gid |-> g, hlc |-> row[n][g]]
  BY DEF Held, HeldRows

\* Held records are changes.
LEMMA HeldType ==
  ASSUME StoreTypeOK, NEW n \in Node
  PROVE  Held(n) \in SUBSET Change
  BY HeldCases DEF StoreTypeOK, Change, Op, StampOrNone
-----------------------------------------------------------------------------
\* The effect of the four actions on the databases, the part that the
\* invariants depend on.

\* Absorbing never sets a clock back, and puts it at or past what was received.
LEMMA AbsorbEffect ==
  ASSUME StoreTypeOK, NEW n \in Node, NEW changes \in SUBSET Change,
         AbsorbChanges(n, changes)
  PROVE  /\ clock' \in [Node -> ClockValue]
         /\ \A m \in Node \ {n} : clock'[m] = clock[m]
         /\ ClockLeq(clock[n], clock'[n])
         /\ \A c \in changes : ClockLeq(Time(c.hlc), clock'[n])
  <1>1. clock[n] \in ClockValue /\ clock \in [Node -> ClockValue]
    BY DEF StoreTypeOK
  <1>2. CASE changes = {} /\ UNCHANGED clock
    BY <1>2, <1>1 DEF ClockLeq, ClockValue
  <1>3. CASE \E c \in changes, now \in Wall[n] :
               /\ \A d \in changes : Leq(d.hlc, c.hlc)
               /\ clock' = [clock EXCEPT ![n] = Absorb(@, c.hlc, now)]
    <2>1. PICK c \in changes, now \in Wall[n] :
               /\ \A d \in changes : Leq(d.hlc, c.hlc)
               /\ clock' = [clock EXCEPT ![n] = Absorb(clock[n], c.hlc, now)]
      BY <1>3
    <2>2. now \in Nat
      BY StoreAssumption
    <2>3. /\ c.hlc \in StampOrNone
          /\ \A d \in changes : d.hlc \in StampOrNone
          /\ \A d \in changes : Time(d.hlc) \in ClockValue
      BY ChangeType
    <2>4. /\ clock'[n] = Absorb(clock[n], c.hlc, now)
          /\ \A m \in Node \ {n} : clock'[m] = clock[m]
      BY <2>1, <1>1
    <2>5. /\ clock'[n] \in ClockValue
          /\ ClockLeq(clock[n], clock'[n])
          /\ ClockLeq(Time(c.hlc), clock'[n])
      BY <2>2, <2>3, <2>4, <1>1, AbsorbAbove
    <2>6. \A d \in changes : ClockLeq(Time(d.hlc), clock'[n])
      <3> SUFFICES ASSUME NEW d \in changes PROVE ClockLeq(Time(d.hlc), clock'[n])
        OBVIOUS
      <3>1. ClockLeq(Time(d.hlc), Time(c.hlc))
        BY <2>1, <2>3, LeqTime
      <3>2. QED
        BY <3>1, <2>3, <2>5, ClockLeqTransitive
    <2>7. clock' \in [Node -> ClockValue]
      BY <2>1, <2>4, <2>5, <1>1
    <2>8. QED
      BY <2>4, <2>5, <2>6, <2>7
  <1>4. QED
    BY <1>2, <1>3 DEF AbsorbChanges

\* A merge touches the receiver only, and puts its clock at or past what it received.
LEMMA ApplyEffect ==
  ASSUME StoreTypeOK, NEW n \in Node, NEW changes \in SUBSET Change,
         ApplyChanges(n, changes)
  PROVE  /\ StoreTypeOK'
         /\ nid' = nid /\ written' = written
         /\ \A m \in Node \ {n} : /\ row'[m] = row[m] /\ tomb'[m] = tomb[m]
                                  /\ clock'[m] = clock[m]
         /\ \A g \in Gid : row'[n][g] = AfterDeletes(row[n], tomb[n], changes, g)
         /\ tomb'[n] = tomb[n] \cup Deletes(changes)
         /\ ClockLeq(clock[n], clock'[n])
         /\ \A c \in changes : ClockLeq(Time(c.hlc), clock'[n])
  <1>1. /\ row' = [row EXCEPT ![n] =
                      [g \in Gid |-> AfterDeletes(row[n], tomb[n], changes, g)]]
        /\ tomb' = [tomb EXCEPT ![n] = @ \cup Deletes(changes)]
        /\ AbsorbChanges(n, changes)
        /\ nid' = nid /\ written' = written
    BY DEF ApplyChanges
  <1>2. /\ row[n] \in [Gid -> StampOrNone] /\ tomb[n] \in SUBSET Change
        /\ clock[n] \in ClockValue
        /\ row \in [Node -> [Gid -> StampOrNone]]
        /\ tomb \in [Node -> SUBSET Change]
        /\ clock \in [Node -> ClockValue]
    BY DEF StoreTypeOK
  <1>3. row' \in [Node -> [Gid -> StampOrNone]]
    BY <1>1, <1>2, AfterDeletesType
  <1>4. tomb' \in [Node -> SUBSET Change]
    BY <1>1, <1>2 DEF Deletes
  <1>5. /\ clock' \in [Node -> ClockValue]
        /\ \A m \in Node \ {n} : clock'[m] = clock[m]
        /\ ClockLeq(clock[n], clock'[n])
        /\ \A c \in changes : ClockLeq(Time(c.hlc), clock'[n])
    BY <1>1, AbsorbEffect
  <1>6. StoreTypeOK'
    BY <1>1, <1>3, <1>4, <1>5 DEF StoreTypeOK
  <1>7. QED
    BY <1>1, <1>2, <1>5, <1>6

\* The step is a local write w of n: its stamp is the advanced clock.
Issues(n, w) ==
  /\ Origin(w.hlc) = n /\ Time(w.hlc) = clock'[n]
  /\ ClockLess(clock[n], clock'[n])
  /\ clock' \in [Node -> ClockValue]
  /\ \A m \in Node \ {n} : clock'[m] = clock[m]
  /\ nid[n] = n /\ nid' = nid
  /\ written' = written \cup {w}

\* A local put adds one write, which its node has just issued.
LEMMA PutEffect ==
  ASSUME HistoryInv, NEW n \in Node, NEW g \in Gid, LocalPut(n, g)
  PROVE  \E w \in Change :
           /\ w.op = "put" /\ w.gid = g /\ Issues(n, w)
           /\ row' = [row EXCEPT ![n][g] = w.hlc]
           /\ tomb' = tomb
  <1>1. nid[n] = n /\ nid' = nid /\ tomb' = tomb
    BY DEF LocalPut, HistoryInv, OwnIdentity
  <1>2. PICK now \in Wall[n] :
          /\ clock' = [clock EXCEPT ![n] = Send(clock[n], now)]
          /\ row' = [row EXCEPT ![n][g] = LocalStamp(n, now)]
          /\ written' = written \cup
               {[op |-> "put", gid |-> g, hlc |-> LocalStamp(n, now)]}
    BY DEF LocalPut
  <1>3. now \in Nat
    BY StoreAssumption
  <1>4. clock \in [Node -> ClockValue]
    BY DEF HistoryInv, StoreTypeOK
  <1>5. /\ clock'[n] = Send(clock[n], now)
        /\ clock' \in [Node -> ClockValue]
        /\ \A m \in Node \ {n} : clock'[m] = clock[m]
        /\ ClockLess(clock[n], clock'[n])
    BY <1>2, <1>3, <1>4, SendAdvances
  <1>6. /\ LocalStamp(n, now) \in Stamp
        /\ Time(LocalStamp(n, now)) = clock'[n]
        /\ Origin(LocalStamp(n, now)) = n
    <2>1. clock'[n] = <<clock'[n][1], clock'[n][2]>>
      BY <1>5 DEF ClockValue
    <2>2. LocalStamp(n, now) = <<clock'[n][1], clock'[n][2], n>>
      BY <1>1, <1>5 DEF LocalStamp
    <2>3. QED
      BY <2>1, <2>2, <1>5 DEF Time, Origin, Stamp, ClockValue
  <1> DEFINE w == [op |-> "put", gid |-> g, hlc |-> LocalStamp(n, now)]
  <1>7. w \in Change /\ w.op = "put" /\ w.gid = g /\ w.hlc = LocalStamp(n, now)
    BY <1>6 DEF Change, Op
  <1>8. QED
    BY <1>1, <1>2, <1>5, <1>6, <1>7 DEF Issues

\* A local delete adds one write, the tombstone, and drops the row.
LEMMA DeleteEffect ==
  ASSUME HistoryInv, NEW n \in Node, NEW g \in Gid, LocalDelete(n, g)
  PROVE  \E w \in Change :
           /\ w.op = "del" /\ w.gid = g /\ Issues(n, w)
           /\ row' = [row EXCEPT ![n][g] = NoStamp]
           /\ tomb' = [tomb EXCEPT ![n] = @ \cup {w}]
  <1>1. nid[n] = n /\ nid' = nid
    BY DEF LocalDelete, HistoryInv, OwnIdentity
  <1>2. PICK now \in Wall[n] :
          LET d == [op |-> "del", gid |-> g, hlc |-> LocalStamp(n, now)]
          IN  /\ clock' = [clock EXCEPT ![n] = Send(clock[n], now)]
              /\ row' = [row EXCEPT ![n][g] = NoStamp]
              /\ tomb' = [tomb EXCEPT ![n] = @ \cup {d}]
              /\ written' = written \cup {d}
    BY DEF LocalDelete
  <1>3. now \in Nat
    BY StoreAssumption
  <1>4. clock \in [Node -> ClockValue]
    BY DEF HistoryInv, StoreTypeOK
  <1>5. /\ clock'[n] = Send(clock[n], now)
        /\ clock' \in [Node -> ClockValue]
        /\ \A m \in Node \ {n} : clock'[m] = clock[m]
        /\ ClockLess(clock[n], clock'[n])
    BY <1>2, <1>3, <1>4, SendAdvances
  <1>6. /\ LocalStamp(n, now) \in Stamp
        /\ Time(LocalStamp(n, now)) = clock'[n]
        /\ Origin(LocalStamp(n, now)) = n
    <2>1. clock'[n] = <<clock'[n][1], clock'[n][2]>>
      BY <1>5 DEF ClockValue
    <2>2. LocalStamp(n, now) = <<clock'[n][1], clock'[n][2], n>>
      BY <1>1, <1>5 DEF LocalStamp
    <2>3. QED
      BY <2>1, <2>2, <1>5 DEF Time, Origin, Stamp, ClockValue
  <1> DEFINE w == [op |-> "del", gid |-> g, hlc |-> LocalStamp(n, now)]
  <1>7. w \in Change /\ w.op = "del" /\ w.gid = g /\ w.hlc = LocalStamp(n, now)
    BY <1>6 DEF Change, Op
  <1>8. QED
    BY <1>1, <1>2, <1>5, <1>6, <1>7 DEF Issues

\* A cloned node holds what its original holds, under its own identity and with a clock
\* past all of it.
LEMMA ResetEffect ==
  ASSUME StoreInv, NEW src \in Node, NEW dst \in Node, ResetNode(src, dst)
  PROVE  /\ src # dst /\ nid[src] = src /\ nid[dst] = 0
         /\ nid' = [nid EXCEPT ![dst] = dst]
         /\ row' = [row EXCEPT ![dst] = row[src]]
         /\ tomb' = [tomb EXCEPT ![dst] = tomb[src]]
         /\ clock' \in [Node -> ClockValue]
         /\ \A m \in Node \ {dst} : clock'[m] = clock[m]
         /\ ClockLeq(clock[src], clock'[dst])
         /\ UNCHANGED <<written, sessionVars>>
  <1>1. nid[src] = src /\ nid[dst] = 0 /\ src # dst
    BY NodeAssumption DEF ResetNode, StoreInv, HistoryInv, OwnIdentity
  <1>2. PICK hw \in HighWater(src), now \in Wall[dst] :
          clock' = [clock EXCEPT ![dst] = Absorb(clock[src], hw, now)]
    BY DEF ResetNode
  <1>3. now \in Nat
    BY StoreAssumption
  <1>4. clock \in [Node -> ClockValue]
    BY DEF StoreInv, HistoryInv, StoreTypeOK
  <1>5. hw \in StampOrNone
    <2>1. \A c \in Held(src) : c.hlc \in StampOrNone
      BY HeldType, ChangeType DEF StoreInv, HistoryInv
    <2>2. <<clock[src][1], clock[src][2], nid[src]>> \in Stamp
      BY <1>1, <1>4 DEF ClockValue, Stamp
    <2>3. QED
      BY <2>1, <2>2 DEF HighWater, StampOrNone
  <1>6. /\ clock' \in [Node -> ClockValue]
        /\ \A m \in Node \ {dst} : clock'[m] = clock[m]
        /\ ClockLeq(clock[src], clock'[dst])
    BY <1>2, <1>3, <1>4, <1>5, AbsorbAbove
  <1>7. QED
    BY <1>1, <1>6 DEF ResetNode
-----------------------------------------------------------------------------
\* A write is new and outranks everything its author holds.
LEMMA Outranked ==
  ASSUME HistoryInv, NEW n \in Node, NEW w \in Change, Issues(n, w)
  PROVE  /\ \A c \in Change : ClockLeq(Time(c.hlc), clock[n]) => Less(c.hlc, w.hlc)
         /\ \A c \in Held(n) : Less(c.hlc, w.hlc)
         /\ \A v \in written : Origin(v.hlc) = n => Less(v.hlc, w.hlc)
         /\ \A v \in written : v.hlc # w.hlc
  <1>1. clock[n] \in ClockValue /\ clock'[n] \in ClockValue
    BY DEF HistoryInv, StoreTypeOK, Issues
  <1>2. w.hlc = <<clock'[n][1], clock'[n][2], n>>
    <2>1. w.hlc \in StampOrNone
      BY ChangeType
    <2>2. QED
      BY <2>1, StampParts DEF Issues, Time, Origin
  <1>3. \A c \in Change : ClockLeq(Time(c.hlc), clock[n]) => Less(c.hlc, w.hlc)
    BY <1>1, <1>2, ChangeType, ClockLessStamp DEF Issues
  <1>4. \A c \in Held(n) : Less(c.hlc, w.hlc)
    BY <1>3, HeldType DEF HistoryInv, ClockDominates
  <1>5. \A v \in written : Origin(v.hlc) = n => Less(v.hlc, w.hlc)
    BY <1>3 DEF HistoryInv, StoreTypeOK, OwnClock
  <1>6. \A v \in written : v.hlc # w.hlc
    BY <1>5, ChangeType, LessIrreflexive DEF Issues
  <1>7. QED
    BY <1>3, <1>4, <1>5, <1>6

\* The invariants that hold of every local write, put or delete.
LEMMA WriteKeeps ==
  ASSUME HistoryInv, NEW n \in Node, NEW w \in Change, Issues(n, w),
         \A m \in Node \ {n} : Held(m)' = Held(m),
         Held(n)' \subseteq Held(n) \cup {w}
  PROVE  HeldWritten' /\ OwnClock' /\ ClockDominates' /\ StampsUnique'
  <1>1. /\ clock \in [Node -> ClockValue] /\ clock' \in [Node -> ClockValue]
        /\ \A m \in Node : ClockLeq(clock[m], clock'[m])
    <2>1. clock \in [Node -> ClockValue] /\ clock' \in [Node -> ClockValue]
      BY DEF HistoryInv, StoreTypeOK, Issues
    <2>2. ClockLeq(clock[n], clock'[n])
      BY <2>1 DEF Issues, ClockLess, ClockLeq, ClockValue
    <2>3. \A m \in Node \ {n} : ClockLeq(clock[m], clock'[m])
      BY <2>1 DEF Issues, ClockLeq, ClockValue
    <2>4. QED
      BY <2>1, <2>2, <2>3
  <1>2. HeldWritten'
    BY DEF HeldWritten, HistoryInv, Issues
  <1>3. ClockLeq(Time(w.hlc), clock'[n])
    BY <1>1 DEF Issues, ClockLeq, ClockValue
  <1>4. OwnClock'
    <2> SUFFICES ASSUME NEW v \in written'
                 PROVE  /\ nid[Origin(v.hlc)] # 0
                        /\ ClockLeq(Time(v.hlc), clock'[Origin(v.hlc)])
      BY DEF OwnClock, Issues
    <2>1. CASE v = w
      BY <2>1, <1>3, NodeAssumption DEF Issues
    <2>2. CASE v \in written
      <3>1. v \in Change
        BY <2>2 DEF HistoryInv, StoreTypeOK
      <3>2. /\ nid[Origin(v.hlc)] # 0
            /\ ClockLeq(Time(v.hlc), clock[Origin(v.hlc)])
        BY <2>2 DEF HistoryInv, OwnClock
      <3>3. Origin(v.hlc) \in Node /\ Time(v.hlc) \in ClockValue
        BY <3>1, ChangeType
      <3>4. QED
        BY <1>1, <3>2, <3>3, ClockLeqTransitive
    <2>3. QED
      BY <2>1, <2>2 DEF Issues
  <1>5. ClockDominates'
    <2> SUFFICES ASSUME NEW m \in Node, NEW c \in Held(m)'
                 PROVE  ClockLeq(Time(c.hlc), clock'[m])
      BY DEF ClockDominates
    <2>1. CASE c \in Held(m)
      <3>1. Time(c.hlc) \in ClockValue
        BY <2>1, HeldType, ChangeType DEF HistoryInv
      <3>2. ClockLeq(Time(c.hlc), clock[m])
        BY <2>1 DEF HistoryInv, ClockDominates
      <3>3. QED
        BY <1>1, <3>1, <3>2, ClockLeqTransitive
    <2>2. CASE m = n /\ c = w
      BY <2>2, <1>3
    <2>3. QED
      BY <2>1, <2>2
  <1>6. StampsUnique'
    BY Outranked DEF StampsUnique, HistoryInv, Issues
  <1>7. QED
    BY <1>2, <1>4, <1>5, <1>6

\* A local put keeps the invariant.
LEMMA PutKeepsInvariants ==
  ASSUME HistoryInv, NEW n \in Node, NEW g \in Gid, LocalPut(n, g)
  PROVE  HistoryInv' /\ (NoResurrection => NoResurrection')
  <1>1. PICK w \in Change : /\ w.op = "put" /\ w.gid = g /\ Issues(n, w)
                            /\ row' = [row EXCEPT ![n][g] = w.hlc]
                            /\ tomb' = tomb
    BY PutEffect
  <1>2. /\ row \in [Node -> [Gid -> StampOrNone]] /\ tomb \in [Node -> SUBSET Change]
        /\ nid \in [Node -> Node \cup {0}] /\ written \in SUBSET Change
    BY DEF HistoryInv, StoreTypeOK
  <1>3. w.hlc \in Stamp /\ w.hlc # NoStamp /\ w.hlc \in StampOrNone
    BY ChangeType, NoStampLeast
  <1>4. /\ row' \in [Node -> [Gid -> StampOrNone]]
        /\ row'[n][g] = w.hlc
        /\ \A m \in Node, h \in Gid : m # n \/ h # g => row'[m][h] = row[m][h]
    BY <1>1, <1>2, <1>3
  <1>5. StoreTypeOK'
    BY <1>1, <1>2, <1>4 DEF StoreTypeOK, Issues
  <1>6. OwnIdentity'
    BY <1>1, <1>4, NodeAssumption DEF HistoryInv, OwnIdentity, Issues
  <1>7. w = [op |-> "put", gid |-> g, hlc |-> w.hlc]
    BY <1>1 DEF Change
  <1>8. \A m \in Node \ {n} : Held(m)' = Held(m)
    BY <1>1, <1>4 DEF Held, HeldRows
  <1>9. Held(n)' \subseteq Held(n) \cup {w}
    BY <1>1, <1>4, <1>7 DEF Held, HeldRows
  <1>10. HeldWritten' /\ OwnClock' /\ ClockDominates' /\ StampsUnique'
    BY <1>1, <1>8, <1>9, WriteKeeps
  <1>11. ASSUME NoResurrection
         PROVE  NoResurrection'
    <2> SUFFICES ASSUME NEW m \in Node, NEW t \in tomb[m], row'[m][t.gid] # NoStamp
                 PROVE  Less(t.hlc, row'[m][t.gid])
      BY <1>1 DEF NoResurrection
    <2>1. t.gid \in Gid /\ t \in Held(m)
      BY <1>2, ChangeType DEF Held
    <2>2. CASE m = n /\ t.gid = g
      BY <2>1, <2>2, <1>1, <1>4, Outranked
    <2>3. CASE m # n \/ t.gid # g
      BY <1>11, <2>1, <2>3, <1>4 DEF NoResurrection
    <2>4. QED
      BY <2>2, <2>3
  <1>12. QED
    BY <1>5, <1>6, <1>10, <1>11 DEF HistoryInv

\* A local delete keeps the invariant.
LEMMA DeleteKeepsInvariants ==
  ASSUME HistoryInv, NEW n \in Node, NEW g \in Gid, LocalDelete(n, g)
  PROVE  HistoryInv' /\ (NoResurrection => NoResurrection')
  <1>1. PICK w \in Change : /\ w.op = "del" /\ w.gid = g /\ Issues(n, w)
                            /\ row' = [row EXCEPT ![n][g] = NoStamp]
                            /\ tomb' = [tomb EXCEPT ![n] = @ \cup {w}]
    BY DeleteEffect
  <1>2. /\ row \in [Node -> [Gid -> StampOrNone]] /\ tomb \in [Node -> SUBSET Change]
        /\ nid \in [Node -> Node \cup {0}] /\ written \in SUBSET Change
    BY DEF HistoryInv, StoreTypeOK
  <1>3. NoStamp \in StampOrNone
    BY DEF StampOrNone
  <1>4. /\ row' \in [Node -> [Gid -> StampOrNone]]
        /\ row'[n][g] = NoStamp
        /\ \A m \in Node, h \in Gid : m # n \/ h # g => row'[m][h] = row[m][h]
        /\ tomb' \in [Node -> SUBSET Change]
        /\ tomb'[n] = tomb[n] \cup {w}
        /\ \A m \in Node \ {n} : tomb'[m] = tomb[m]
    BY <1>1, <1>2, <1>3
  <1>5. StoreTypeOK'
    BY <1>1, <1>2, <1>4 DEF StoreTypeOK, Issues
  <1>6. OwnIdentity'
    BY <1>1, <1>4, NodeAssumption DEF HistoryInv, OwnIdentity, Issues
  <1>8. \A m \in Node \ {n} : Held(m)' = Held(m)
    BY <1>4 DEF Held, HeldRows
  <1>9. Held(n)' \subseteq Held(n) \cup {w}
    BY <1>4 DEF Held, HeldRows
  <1>10. HeldWritten' /\ OwnClock' /\ ClockDominates' /\ StampsUnique'
    BY <1>1, <1>8, <1>9, WriteKeeps
  <1>11. ASSUME NoResurrection
         PROVE  NoResurrection'
    <2> SUFFICES ASSUME NEW m \in Node, NEW t \in tomb'[m], row'[m][t.gid] # NoStamp
                 PROVE  Less(t.hlc, row'[m][t.gid])
      BY DEF NoResurrection
    <2>1. t.gid \in Gid
      BY <1>4, ChangeType
    <2>2. t.gid # g \/ m # n
      BY <1>4
    <2>3. t \in tomb[m] /\ row'[m][t.gid] = row[m][t.gid]
      BY <2>1, <2>2, <1>1, <1>4
    <2>4. QED
      BY <1>11, <2>3 DEF NoResurrection
  <1>12. QED
    BY <1>5, <1>6, <1>10, <1>11 DEF HistoryInv
-----------------------------------------------------------------------------
\* What a node holds after a merge, it held before or has received.
LEMMA MergedHeld ==
  ASSUME StoreTypeOK, NEW n \in Node, NEW changes \in SUBSET Change,
         ApplyChanges(n, changes)
  PROVE  Held(n)' \subseteq Held(n) \cup changes
  <1>1. /\ \A g \in Gid : row'[n][g] = AfterDeletes(row[n], tomb[n], changes, g)
        /\ tomb'[n] = tomb[n] \cup Deletes(changes)
    BY ApplyEffect
  <1>2. row[n] \in [Gid -> StampOrNone] /\ tomb[n] \in SUBSET Change
    BY DEF StoreTypeOK
  <1> SUFFICES ASSUME NEW c \in Held(n)' PROVE c \in Held(n) \cup changes
    OBVIOUS
  <1>3. CASE c \in tomb'[n]
    BY <1>1, <1>3 DEF Held, Deletes
  <1>4. CASE c \notin tomb'[n]
    <2>1. PICK g \in Gid : /\ row'[n][g] # NoStamp
                           /\ c = [op |-> "put", gid |-> g, hlc |-> row'[n][g]]
      BY <1>4 DEF Held, HeldRows
    <2>2. CASE row'[n][g] = row[n][g]
      BY <2>1, <2>2 DEF Held, HeldRows
    <2>3. CASE row'[n][g] # row[n][g]
      BY <2>1, <2>3, <1>1, <1>2, MergedRow
    <2>4. QED
      BY <2>2, <2>3
  <1>5. QED
    BY <1>3, <1>4

\* Receiving writes, whichever of them are kept, changes nothing of where
\* versions come from.
LEMMA ReceiveKeepsHistory ==
  ASSUME HistoryInv, NEW n \in Node, nid[n] # 0, NEW changes \in SUBSET written,
         StoreTypeOK', nid' = nid, written' = written,
         \A m \in Node \ {n} : /\ row'[m] = row[m] /\ tomb'[m] = tomb[m]
                               /\ clock'[m] = clock[m],
         ClockLeq(clock[n], clock'[n]),
         \A c \in changes : ClockLeq(Time(c.hlc), clock'[n]),
         Held(n)' \subseteq Held(n) \cup changes
  PROVE  HistoryInv'
  <1>1. changes \in SUBSET Change /\ written \in SUBSET Change
    BY DEF HistoryInv, StoreTypeOK
  <1>2. clock \in [Node -> ClockValue] /\ clock' \in [Node -> ClockValue]
    BY DEF HistoryInv, StoreTypeOK
  <1>3. \A m \in Node : ClockLeq(clock[m], clock'[m])
    BY <1>2 DEF ClockLeq, ClockValue
  <1>4. \A m \in Node \ {n} : Held(m)' = Held(m)
    BY DEF Held, HeldRows
  <1>5. OwnIdentity'
    BY DEF HistoryInv, OwnIdentity
  <1>6. HeldWritten'
    BY <1>4 DEF HistoryInv, HeldWritten
  <1>7. OwnClock'
    <2> SUFFICES ASSUME NEW v \in written
                 PROVE  /\ nid[Origin(v.hlc)] # 0
                        /\ ClockLeq(Time(v.hlc), clock'[Origin(v.hlc)])
      BY DEF OwnClock
    <2>1. Origin(v.hlc) \in Node /\ Time(v.hlc) \in ClockValue
      BY <1>1, ChangeType
    <2>2. QED
      BY <2>1, <1>2, <1>3, ClockLeqTransitive DEF HistoryInv, OwnClock
  <1>8. ClockDominates'
    <2> SUFFICES ASSUME NEW m \in Node, NEW c \in Held(m)'
                 PROVE  ClockLeq(Time(c.hlc), clock'[m])
      BY DEF ClockDominates
    <2>1. CASE c \in Held(m)
      <3>1. Time(c.hlc) \in ClockValue
        BY <2>1, HeldType, ChangeType DEF HistoryInv
      <3>2. QED
        BY <2>1, <3>1, <1>2, <1>3, ClockLeqTransitive DEF HistoryInv, ClockDominates
    <2>2. CASE m = n /\ c \in changes
      BY <2>2
    <2>3. QED
      BY <2>1, <2>2, <1>4
  <1>9. StampsUnique'
    BY DEF HistoryInv, StampsUnique
  <1>10. QED
    BY <1>5, <1>6, <1>7, <1>8, <1>9 DEF HistoryInv

\* So does a merge.
LEMMA ApplyKeepsHistory ==
  ASSUME HistoryInv, NEW n \in Node, nid[n] # 0,
         NEW changes \in SUBSET written, ApplyChanges(n, changes)
  PROVE  HistoryInv'
  <1>1. changes \in SUBSET Change /\ StoreTypeOK
    BY DEF HistoryInv, StoreTypeOK
  <1>2. Held(n)' \subseteq Held(n) \cup changes
    BY <1>1, MergedHeld
  <1>3. QED
    BY <1>1, <1>2, ApplyEffect, ReceiveKeepsHistory

\* A merge brings no deleted row back.
LEMMA ApplyKeepsStoreInv ==
  ASSUME StoreInv, NEW n \in Node, nid[n] # 0,
         NEW changes \in SUBSET written, ApplyChanges(n, changes)
  PROVE  StoreInv'
  <1>1. changes \in SUBSET Change /\ written \in SUBSET Change
    BY DEF StoreInv, HistoryInv, StoreTypeOK
  <1>2. /\ StoreTypeOK'
        /\ \A m \in Node \ {n} : row'[m] = row[m] /\ tomb'[m] = tomb[m]
        /\ \A g \in Gid : row'[n][g] = AfterDeletes(row[n], tomb[n], changes, g)
        /\ tomb'[n] = tomb[n] \cup Deletes(changes)
    BY <1>1, ApplyEffect DEF StoreInv, HistoryInv
  <1>3. row[n] \in [Gid -> StampOrNone] /\ tomb[n] \in SUBSET Change
    BY DEF StoreInv, HistoryInv, StoreTypeOK
  <1>4. HistoryInv'
    BY ApplyKeepsHistory DEF StoreInv
  <1>5. NoResurrection'
    <2> SUFFICES ASSUME NEW m \in Node, NEW t \in tomb'[m], row'[m][t.gid] # NoStamp
                 PROVE  Less(t.hlc, row'[m][t.gid])
      BY DEF NoResurrection
    <2>1. CASE m # n
      BY <2>1, <1>2 DEF StoreInv, HistoryInv, NoResurrection
    <2>2. CASE m = n
      <3> DEFINE g == t.gid
                 put == AfterPuts(row[n], tomb[n], changes, g)
      <3>1. t \in Change /\ g \in Gid /\ t.hlc \in StampOrNone
        BY <2>2, <1>1, <1>2, <1>3, ChangeType DEF Deletes
      <3>2. /\ row'[n][g] = put /\ put \in StampOrNone
            /\ \A d \in Deletes(changes) : d.gid = g => Leq(d.hlc, put)
        BY <2>2, <3>1, <1>1, <1>2, <1>3, DeletesEffect, PutsRaise
      <3>3. CASE put = row[n][g]
        <4>1. CASE t \in tomb[n]
          BY <2>2, <3>2, <3>3, <4>1 DEF StoreInv, HistoryInv, NoResurrection
        <4>2. CASE t \in Deletes(changes)
          <5>1. [op |-> "put", gid |-> g, hlc |-> row[n][g]] \in written
            BY <2>2, <3>1, <3>2, <3>3 DEF StoreInv, HistoryInv, HeldWritten, Held, HeldRows
          <5>2. t.hlc # row[n][g]
            BY <5>1, <4>2 DEF StoreInv, HistoryInv, StampsUnique, Deletes
          <5>3. QED
            BY <2>2, <3>2, <3>3, <4>2, <5>2 DEF Leq
        <4>3. QED
          BY <2>2, <4>1, <4>2, <1>2
      <3>4. CASE put # row[n][g]
        <4>1. PICK c \in changes : c.gid = g /\ Accepts(row[n], tomb[n], c) /\ put = c.hlc
          BY <3>4, AcceptedPut
        <4>2. CASE t \in tomb[n]
          <5>1. ~ Leq(c.hlc, t.hlc)
            BY <4>1, <4>2 DEF Accepts
          <5>2. Less(t.hlc, c.hlc)
            BY <5>1, <3>1, <3>2, <4>1, NotLeq
          <5>3. QED
            BY <2>2, <3>2, <4>1, <5>2
        <4>3. CASE t \in Deletes(changes)
          <5>1. t.hlc # c.hlc
            BY <4>1, <4>3 DEF StoreInv, HistoryInv, StampsUnique, Deletes, Accepts
          <5>2. QED
            BY <2>2, <3>2, <4>1, <4>3, <5>1 DEF Leq
        <4>4. QED
          BY <2>2, <4>2, <4>3, <1>2
      <3>5. QED
        BY <3>3, <3>4
    <2>3. QED
      BY <2>1, <2>2
  <1>6. QED
    BY <1>4, <1>5 DEF StoreInv

\* A cloned database under a fresh identity keeps the invariants.
LEMMA ResetKeepsStoreInv ==
  ASSUME StoreInv, NEW src \in Node, NEW dst \in Node, ResetNode(src, dst)
  PROVE  StoreInv'
  <1>1. /\ src # dst /\ nid[src] = src /\ nid[dst] = 0
        /\ nid' = [nid EXCEPT ![dst] = dst]
        /\ row' = [row EXCEPT ![dst] = row[src]]
        /\ tomb' = [tomb EXCEPT ![dst] = tomb[src]]
        /\ clock' \in [Node -> ClockValue]
        /\ \A m \in Node \ {dst} : clock'[m] = clock[m]
        /\ ClockLeq(clock[src], clock'[dst])
        /\ written' = written
    BY ResetEffect
  <1>2. StoreTypeOK
    BY DEF StoreInv, HistoryInv
  <1>3. /\ row'[dst] = row[src] /\ tomb'[dst] = tomb[src]
        /\ \A m \in Node \ {dst} : row'[m] = row[m] /\ tomb'[m] = tomb[m]
    BY <1>1, <1>2 DEF StoreTypeOK
  <1>4. /\ Held(dst)' = Held(src)
        /\ \A m \in Node \ {dst} : Held(m)' = Held(m)
    BY <1>3 DEF Held, HeldRows
  <1>5. StoreTypeOK'
    BY <1>1, <1>2 DEF StoreTypeOK
  <1>6. OwnIdentity'
    BY <1>1, <1>2, <1>3, NodeAssumption DEF StoreInv, HistoryInv, OwnIdentity, StoreTypeOK
  <1>7. HeldWritten'
    BY <1>1, <1>4 DEF StoreInv, HistoryInv, HeldWritten
  <1>8. OwnClock'
    <2> SUFFICES ASSUME NEW v \in written
                 PROVE  /\ nid'[Origin(v.hlc)] # 0
                        /\ ClockLeq(Time(v.hlc), clock'[Origin(v.hlc)])
      BY <1>1 DEF OwnClock
    <2>1. Origin(v.hlc) \in Node
      BY <1>2, ChangeType DEF StoreTypeOK
    <2>2. Origin(v.hlc) # dst
      BY <1>1 DEF StoreInv, HistoryInv, OwnClock
    <2>3. QED
      BY <1>1, <1>2, <2>1, <2>2 DEF StoreInv, HistoryInv, OwnClock, StoreTypeOK
  <1>9. ClockDominates'
    <2> SUFFICES ASSUME NEW m \in Node, NEW c \in Held(m)'
                 PROVE  ClockLeq(Time(c.hlc), clock'[m])
      BY DEF ClockDominates
    <2>1. CASE m = dst
      <3>1. c \in Held(src) /\ Time(c.hlc) \in ClockValue
        BY <2>1, <1>2, <1>4, HeldType, ChangeType
      <3>2. ClockLeq(Time(c.hlc), clock[src])
        BY <3>1 DEF StoreInv, HistoryInv, ClockDominates
      <3>3. clock[src] \in ClockValue /\ clock'[dst] \in ClockValue
        BY <1>1, <1>2 DEF StoreTypeOK
      <3>4. QED
        BY <2>1, <3>1, <3>2, <3>3, <1>1, ClockLeqTransitive
    <2>2. CASE m # dst
      BY <2>2, <1>1, <1>4 DEF StoreInv, HistoryInv, ClockDominates
    <2>3. QED
      BY <2>1, <2>2
  <1>10. StampsUnique'
    BY <1>1 DEF StoreInv, HistoryInv, StampsUnique
  <1>11. NoResurrection'
    BY <1>3 DEF StoreInv, HistoryInv, NoResurrection
  <1>12. QED
    BY <1>5, <1>6, <1>7, <1>8, <1>9, <1>10, <1>11 DEF StoreInv, HistoryInv
=============================================================================
