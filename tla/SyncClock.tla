------------------------------ MODULE SyncClock ------------------------------
(***************************************************************************)
(* The hybrid logical clock of threadkeeper/sync/identity.py and of the    *)
(* capture triggers of threadkeeper/sync/capture.py.                       *)
(*                                                                         *)
(* A stamp is the triple that the code formats as                          *)
(* "<phys_ms:015d>:<counter:06d>:<node_id>".  The zero padding makes the   *)
(* order of the strings the lexicographic order of the triples as long as  *)
(* the counter has at most six digits, which is the range modelled here.   *)
(* Node identities are random strings in the code; all that is used of     *)
(* them is that they are distinct and totally ordered, so they are natural *)
(* numbers here.                                                           *)
(***************************************************************************)
EXTENDS Integers

CONSTANT Node    \* node identities (sync_state.node_id)

\* 0 is kept for "no node": parse_hlc sorts a missing stamp as (0, 0, '').
ASSUME NodeAssumption == Node \subseteq Nat \ {0}

ClockValue == Nat \X Nat            \* (hlc_phys_ms, hlc_counter) of sync_state
Stamp      == Nat \X Nat \X Node
NoStamp    == <<0, 0, 0>>           \* '' / NULL: no row, or an unknown origin
StampOrNone == Stamp \cup {NoStamp}

Origin(s) == s[3]
Time(s)   == <<s[1], s[2]>>

\* The order of the clock values alone, without the node tie-break.
ClockLess(a, b) == a[1] < b[1] \/ (a[1] = b[1] /\ a[2] < b[2])
ClockLeq(a, b)  == a[1] < b[1] \/ (a[1] = b[1] /\ a[2] <= b[2])

\* The string order of two stamps.
Less(a, b) ==
  \/ a[1] < b[1]
  \/ a[1] = b[1] /\ a[2] < b[2]
  \/ a[1] = b[1] /\ a[2] = b[2] /\ a[3] < b[3]

Leq(a, b) == a = b \/ Less(a, b)

-----------------------------------------------------------------------------
\* Mutation of Send: the counter is not advanced when the wall clock stalls.
SendWithoutCounter(c, now) == IF now > c[1] THEN <<now, 0>> ELSE c

\* The send rule: a local write, or hlc_now.  now is the wall clock, which
\* may stand still or step back between two calls.
Send(c, now) ==
  IF now > c[1] THEN <<now, 0>> ELSE <<c[1], c[2] + 1>>

\* The receive rule: hlc_absorb of the stamp r into the clock c.
Max3(a, b, c) == IF a >= b THEN (IF a >= c THEN a ELSE c)
                           ELSE (IF b >= c THEN b ELSE c)

Absorb(c, r, now) ==
  LET phys == Max3(c[1], r[1], now)
      ctr  == IF phys = c[1] /\ phys = r[1]
                THEN (IF c[2] >= r[2] THEN c[2] ELSE r[2]) + 1
              ELSE IF phys = c[1] THEN c[2] + 1
              ELSE IF phys = r[1] THEN r[2] + 1
              ELSE 0
  IN  <<phys, ctr>>
=============================================================================
