---------------------------- MODULE SpawnProofs ----------------------------
(***************************************************************************)
(* Proofs that the task table of SpawnWatchdog keeps the safety properties *)
(* of SpawnProperties, for any number of tasks, of sweeping processes, of  *)
(* failures, and any budget and retry limit.                               *)
(***************************************************************************)
EXTENDS SpawnProperties, FiniteSetTheorems, TLAPS

\* Where the spawn call of a task is tells what its row and its child are.
CallInv ==
  \A t \in Task :
    /\ call[t] = "none" => row[t] = "absent"
    /\ call[t] \in {"none", "reserved", "releasing"} => proc[t] = "none"
    /\ call[t] \in {"reserved", "releasing"} => row[t] = "open"
    /\ pid[t] \/ old[t] => call[t] = "over"

\* What a sweep read of a row still holds when it comes to the row: a pid
\* stays, and so does its absence once the row is old.
SnapshotInv ==
  /\ \A h \in Host : \A r \in todo[h] :
       /\ r.pid => pid[r.id]
       /\ r.old => call[r.id] = "over" /\ pid[r.id] = r.pid
  /\ \A h \in Host : spc[h] \in {"kill", "close"} => pid[target[h]]
  /\ \A h \in Host : spc[h] = "close" => proc[target[h]] = "dead"

\* Rows are closed, or about to be, only for children that are gone or were
\* never tracked by pid; a child that timed out is dead for good.
EndedInv ==
  /\ \A e \in pending :
       /\ row[e[1]] = "open"
       /\ call[e[1]] = "over"
       /\ pid[e[1]] => ~Alive(e[1])
       /\ e[2] = "timeout" => proc[e[1]] = "dead"
  /\ \A t \in Task : code[t] = "timeout" => row[t] = "closed" /\ proc[t] = "dead"
  /\ \A t \in Charged : row[t] = "open"

\* A timed-out task belongs to one daemon until it is restarted or given up,
\* and then to its one continuation.
ClaimInv ==
  /\ \A h \in Host : \A t \in timedOut[h] :
       /\ proc[t] = "dead"
       /\ \/ row[t] = "closed"
          \/ <<t, "timeout">> \in pending /\ writer = h /\ spc[h] \in {"scan", "kill", "close"}
       /\ \A k \in Host : t \in timedOut[k] => k = h
  /\ \A n \in Task : retryOf[n] # Nobody =>
       /\ call[n] # "none"
       /\ proc[retryOf[n]] = "dead"
       /\ row[retryOf[n]] = "closed"
       /\ \A h \in Host : retryOf[n] \notin timedOut[h]
  /\ OneContinuation

RoomInv == Cardinality(Open) <= Slots

Inv == TypeOK /\ CallInv /\ SnapshotInv /\ EndedInv /\ ClaimInv /\ RoomInv

\* A step opens no row, or one, having found room for it.
OpensOne ==
  \/ Open' \subseteq Open
  \/ \E t \in Task : Open' = Open \cup {t} /\ Cardinality(Open) + 1 <= Slots

-----------------------------------------------------------------------------
\* Types are kept.
LEMMA TypeStep ==
  ASSUME Inv, [Next]_vars
  PROVE  TypeOK'
  <1> USE SpawnAssumption
  <1>1. ASSUME NEW t \in Task, SpawnCall(t)
       PROVE  TypeOK'
    BY <1>1 DEF Inv, TypeOK, SpawnCall, Reserve, sweepVars
  <1>2. ASSUME NEW t \in Task, Launch(t)
       PROVE  TypeOK'
    BY <1>2 DEF Inv, TypeOK, Launch, tableVars, sweepVars
  <1>3. ASSUME NEW t \in Task, LaunchFails(t)
       PROVE  TypeOK'
    BY <1>3 DEF Inv, TypeOK, LaunchFails, Fault, tableVars, sweepVars
  <1>4. ASSUME NEW t \in Task, Release(t)
       PROVE  TypeOK'
    BY <1>4 DEF Inv, TypeOK, Release, sweepVars
  <1>5. ASSUME NEW t \in Task, RecordLaunch(t)
       PROVE  TypeOK'
    BY <1>5 DEF Inv, TypeOK, RecordLaunch, sweepVars
  <1>6. ASSUME NEW t \in Task, CallFails(t)
       PROVE  TypeOK'
    BY <1>6 DEF Inv, TypeOK, CallFails, Fault, tableVars, sweepVars
  <1>7. ASSUME NEW t \in Task, ChildExit(t)
       PROVE  TypeOK'
    BY <1>7 DEF Inv, TypeOK, ChildExit, tableVars, sweepVars
  <1>8. ASSUME NEW t \in Task, WrapRecord(t)
       PROVE  TypeOK'
    BY <1>8 DEF Inv, TypeOK, WrapRecord, sweepVars
  <1>9. ASSUME NEW t \in Task, WrapFails(t)
       PROVE  TypeOK'
    BY <1>9 DEF Inv, TypeOK, WrapFails, Fault, tableVars, sweepVars
  <1>10. ASSUME NEW t \in Task, Expire(t)
       PROVE  TypeOK'
    BY <1>10 DEF Inv, TypeOK, Expire, tableVars, sweepVars
  <1>11. ASSUME NEW t \in Task, ReapFinished(t)
       PROVE  TypeOK'
    BY <1>11 DEF Inv, TypeOK, ReapFinished, sweepVars
  <1>12. ASSUME NEW t \in Task, CloseIdle(t)
       PROVE  TypeOK'
    BY <1>12 DEF Inv, TypeOK, CloseIdle, sweepVars
  <1>13. ASSUME NEW t \in Task, ForceKill(t)
       PROVE  TypeOK'
    BY <1>13 DEF Inv, TypeOK, ForceKill, sweepVars
  <1>14. ASSUME NEW h \in Host, SweepStart(h)
       PROVE  TypeOK'
    BY <1>14 DEF Inv, TypeOK, SweepStart, Open, tableVars
  <1>15. ASSUME NEW h \in Host, Visit(h)
       PROVE  TypeOK'
    <2> USE <1>15 DEF Inv, TypeOK
    <2>1. PICK r \in todo[h] :
            /\ todo' = [todo EXCEPT ![h] = @ \ {r}]
            /\ IF r.pid THEN VisitHeadless(h, r.id, r.old) ELSE VisitVisible(h, r.id, r.old)
      BY DEF Visit
    <2>2. r \in [id : Task, pid : BOOLEAN, old : BOOLEAN]
      OBVIOUS
    <2>3. pending' \in SUBSET (Task \X {"null", "exit", "timeout"})
      <3>1. code[r.id] \in {"null", "exit", "timeout"}
        BY <2>2
      <3>2. EndRow(h, r.id, code[r.id]) => pending' \in SUBSET (Task \X {"null", "exit", "timeout"})
        BY <2>2, <3>1 DEF EndRow
      <3>3. QED
        BY <2>1, <3>2 DEF VisitHeadless, VisitVisible, Measure
    <2>4. writer' \in Host \cup {Nobody} /\ (writer' = Nobody => pending' = {})
      BY <2>1 DEF VisitHeadless, VisitVisible, Measure, EndRow, TakeLock
    <2>5. /\ spc' \in [Host -> {"idle", "scan", "kill", "close", "retry", "spawn"}]
          /\ target' \in [Host -> Task \cup {Nobody}]
          /\ \A k \in Host : target'[k] = Nobody <=> spc'[k] \notin {"kill", "close", "spawn"}
          /\ \A k \in Host : spc'[k] = "spawn" <=> spc[k] = "spawn"
      <3>1. \/ UNCHANGED <<spc, target>>
            \/ /\ spc' = [spc EXCEPT ![h] = "kill"]
               /\ target' = [target EXCEPT ![h] = r.id]
        BY <2>1 DEF VisitHeadless, VisitVisible, Measure
      <3>2. spc[h] = "scan" /\ r.id \in Task /\ r.id # Nobody
        BY <2>2, SpawnAssumption DEF Visit
      <3>3. QED
        BY <3>1, <3>2
    <2>6. todo' \in [Host -> SUBSET [id : Task, pid : BOOLEAN, old : BOOLEAN]]
      BY <2>1
    <2>7. QED
      BY <2>3, <2>4, <2>5, <2>6 DEF Visit, tableVars
  <1>16. ASSUME NEW h \in Host, Terminate(h)
       PROVE  TypeOK'
    BY <1>16 DEF Inv, TypeOK, Terminate, tableVars
  <1>17. ASSUME NEW h \in Host, CloseTimedOut(h)
       PROVE  TypeOK'
    BY <1>17 DEF Inv, TypeOK, CloseTimedOut, EndRow, TakeLock, CanWrite, tableVars
  <1>18. ASSUME NEW h \in Host, Commit(h)
       PROVE  TypeOK'
    <2> USE <1>18 DEF Inv, TypeOK
    <2>1. row' \in [Task -> {"absent", "open", "closed"}]
      <3>1. CASE writer = h
        <4>1. row' = [t \in Task |->
                       IF \E e \in pending : e[1] = t THEN "closed" ELSE row[t]]
          BY <3>1 DEF Commit
        <4>2. \A t \in Task : row'[t] \in {"absent", "open", "closed"}
          BY <4>1
        <4>3. QED
          BY <4>1, <4>2
      <3>2. CASE writer # h
        BY <3>2 DEF Commit
      <3>3. QED
        BY <3>1, <3>2
    <2>2. code' \in [Task -> {"null", "exit", "timeout"}]
      <3>1. CASE writer = h
        <4>1. code' = [t \in Task |->
                        IF <<t, "timeout">> \in pending THEN "timeout" ELSE code[t]]
          BY <3>1 DEF Commit
        <4>2. \A t \in Task : code'[t] \in {"null", "exit", "timeout"}
          BY <4>1
        <4>3. QED
          BY <4>1, <4>2
      <3>2. CASE writer # h
        BY <3>2 DEF Commit
      <3>3. QED
        BY <3>1, <3>2
    <2>3. QED
      BY <2>1, <2>2 DEF Commit
  <1>19. ASSUME NEW h \in Host, RetrySkip(h)
       PROVE  TypeOK'
    BY <1>19 DEF Inv, TypeOK, RetrySkip, tableVars
  <1>20. ASSUME NEW h \in Host, RetryDone(h)
       PROVE  TypeOK'
    BY <1>20 DEF Inv, TypeOK, RetryDone, Fault
  <1>21. ASSUME NEW h \in Host, SweepEnd(h)
       PROVE  TypeOK'
    BY <1>21 DEF Inv, TypeOK, SweepEnd, tableVars
  <1>22. ASSUME NEW h \in Host, SweepFails(h)
       PROVE  TypeOK'
    BY <1>22 DEF Inv, TypeOK, SweepFails, Fault, tableVars
  <1>23. ASSUME NEW h \in Host, NEW t \in Task, NEW n \in Task, RetryReserve(h, t, n)
       PROVE  TypeOK'
    BY <1>23 DEF Inv, TypeOK, RetryReserve, Reserve
  <1>24. CASE UNCHANGED vars
    BY <1>24 DEF Inv, TypeOK, vars, tableVars, sweepVars
  <1>25. QED
    BY <1>1, <1>2, <1>3, <1>4, <1>5, <1>6, <1>7, <1>8, <1>9, <1>10, <1>11, <1>12,
       <1>13, <1>14, <1>15, <1>16, <1>17, <1>18, <1>19, <1>20, <1>21, <1>22, <1>23, <1>24
       DEF Next, Sweep

\* Calls only end, and only a call makes a row or a child.
LEMMA CallStep ==
  ASSUME Inv, [Next]_vars
  PROVE  CallInv'
  <1> USE SpawnAssumption
  <1>1. ASSUME NEW t \in Task, SpawnCall(t)
       PROVE  CallInv'
    BY <1>1 DEF Inv, TypeOK, CallInv, SpawnCall, Reserve
  <1>2. ASSUME NEW t \in Task, Launch(t)
       PROVE  CallInv'
    BY <1>2 DEF Inv, TypeOK, CallInv, Launch, tableVars
  <1>3. ASSUME NEW t \in Task, LaunchFails(t)
       PROVE  CallInv'
    BY <1>3 DEF Inv, CallInv, LaunchFails, tableVars
  <1>4. ASSUME NEW t \in Task, Release(t)
       PROVE  CallInv'
    BY <1>4 DEF Inv, TypeOK, CallInv, Release
  <1>5. ASSUME NEW t \in Task, RecordLaunch(t)
       PROVE  CallInv'
    BY <1>5 DEF Inv, TypeOK, CallInv, RecordLaunch
  <1>6. ASSUME NEW t \in Task, CallFails(t)
       PROVE  CallInv'
    BY <1>6 DEF Inv, CallInv, CallFails, tableVars
  <1>7. ASSUME NEW t \in Task, ChildExit(t)
       PROVE  CallInv'
    BY <1>7 DEF Inv, CallInv, ChildExit, tableVars
  <1>8. ASSUME NEW t \in Task, WrapRecord(t)
       PROVE  CallInv'
    BY <1>8 DEF Inv, CallInv, WrapRecord
  <1>9. ASSUME NEW t \in Task, WrapFails(t)
       PROVE  CallInv'
    BY <1>9 DEF Inv, CallInv, Alive, WrapFails, tableVars
  <1>10. ASSUME NEW t \in Task, Expire(t)
       PROVE  CallInv'
    BY <1>10 DEF Inv, CallInv, Expire, tableVars
  <1>11. ASSUME NEW t \in Task, ReapFinished(t)
       PROVE  CallInv'
    BY <1>11 DEF Inv, CallInv, ReapFinished
  <1>12. ASSUME NEW t \in Task, CloseIdle(t)
       PROVE  CallInv'
    BY <1>12 DEF Inv, CallInv, CloseIdle
  <1>13. ASSUME NEW t \in Task, ForceKill(t)
       PROVE  CallInv'
    BY <1>13 DEF Inv, TypeOK, CallInv, ForceKill
  <1>14. ASSUME NEW h \in Host, SweepStart(h)
       PROVE  CallInv'
    BY <1>14 DEF Inv, CallInv, SweepStart, tableVars
  <1>15. ASSUME NEW h \in Host, Visit(h)
       PROVE  CallInv'
    BY <1>15 DEF Inv, CallInv, Visit, VisitHeadless, VisitVisible, Measure, EndRow,
      TakeLock, CanWrite, tableVars
  <1>16. ASSUME NEW h \in Host, Terminate(h)
       PROVE  CallInv'
    BY <1>16 DEF Inv, CallInv, SnapshotInv, Terminate, tableVars
  <1>17. ASSUME NEW h \in Host, CloseTimedOut(h)
       PROVE  CallInv'
    BY <1>17 DEF Inv, CallInv, CloseTimedOut, EndRow, TakeLock, CanWrite, tableVars
  <1>18. ASSUME NEW h \in Host, Commit(h)
       PROVE  CallInv'
    BY <1>18 DEF Inv, CallInv, EndedInv, Commit
  <1>19. ASSUME NEW h \in Host, RetrySkip(h)
       PROVE  CallInv'
    BY <1>19 DEF Inv, CallInv, RetrySkip, tableVars
  <1>20. ASSUME NEW h \in Host, RetryDone(h)
       PROVE  CallInv'
    BY <1>20 DEF Inv, CallInv, RetryDone
  <1>21. ASSUME NEW h \in Host, SweepEnd(h)
       PROVE  CallInv'
    BY <1>21 DEF Inv, CallInv, SweepEnd, tableVars
  <1>22. ASSUME NEW h \in Host, SweepFails(h)
       PROVE  CallInv'
    BY <1>22 DEF Inv, CallInv, SweepFails, tableVars
  <1>23. ASSUME NEW h \in Host, NEW t \in Task, NEW n \in Task, RetryReserve(h, t, n)
       PROVE  CallInv'
    BY <1>23 DEF Inv, TypeOK, CallInv, RetryReserve, Reserve
  <1>24. CASE UNCHANGED vars
    BY <1>24 DEF Inv, CallInv, vars, tableVars
  <1>25. QED
    BY <1>1, <1>2, <1>3, <1>4, <1>5, <1>6, <1>7, <1>8, <1>9, <1>10, <1>11, <1>12,
       <1>13, <1>14, <1>15, <1>16, <1>17, <1>18, <1>19, <1>20, <1>21, <1>22, <1>23, <1>24
       DEF Next, Sweep

\* A snapshot ages, but stays right in what the sweep relies on.
LEMMA SnapshotStep ==
  ASSUME Inv, [Next]_vars
  PROVE  SnapshotInv'
  <1> USE SpawnAssumption
  <1>1. ASSUME NEW t \in Task, SpawnCall(t)
       PROVE  SnapshotInv'
    BY <1>1 DEF Inv, SnapshotInv, SpawnCall, Reserve, sweepVars
  <1>2. ASSUME NEW t \in Task, Launch(t)
       PROVE  SnapshotInv'
    BY <1>2 DEF Inv, CallInv, SnapshotInv, Launch, tableVars, sweepVars
  <1>3. ASSUME NEW t \in Task, LaunchFails(t)
       PROVE  SnapshotInv'
    BY <1>3 DEF Inv, SnapshotInv, LaunchFails, tableVars, sweepVars
  <1>4. ASSUME NEW t \in Task, Release(t)
       PROVE  SnapshotInv'
    BY <1>4 DEF Inv, SnapshotInv, Release, sweepVars
  <1>5. ASSUME NEW t \in Task, RecordLaunch(t)
       PROVE  SnapshotInv'
    BY <1>5 DEF Inv, CallInv, SnapshotInv, RecordLaunch, sweepVars
  <1>6. ASSUME NEW t \in Task, CallFails(t)
       PROVE  SnapshotInv'
    BY <1>6 DEF Inv, SnapshotInv, CallFails, tableVars, sweepVars
  <1>7. ASSUME NEW t \in Task, ChildExit(t)
       PROVE  SnapshotInv'
    BY <1>7 DEF Inv, SnapshotInv, ChildExit, tableVars, sweepVars
  <1>8. ASSUME NEW t \in Task, WrapRecord(t)
       PROVE  SnapshotInv'
    BY <1>8 DEF Inv, SnapshotInv, WrapRecord, sweepVars
  <1>9. ASSUME NEW t \in Task, WrapFails(t)
       PROVE  SnapshotInv'
    BY <1>9 DEF Inv, SnapshotInv, WrapFails, tableVars, sweepVars
  <1>10. ASSUME NEW t \in Task, Expire(t)
       PROVE  SnapshotInv'
    BY <1>10 DEF Inv, SnapshotInv, Expire, tableVars, sweepVars
  <1>11. ASSUME NEW t \in Task, ReapFinished(t)
       PROVE  SnapshotInv'
    BY <1>11 DEF Inv, SnapshotInv, ReapFinished, sweepVars
  <1>12. ASSUME NEW t \in Task, CloseIdle(t)
       PROVE  SnapshotInv'
    BY <1>12 DEF Inv, SnapshotInv, CloseIdle, sweepVars
  <1>13. ASSUME NEW t \in Task, ForceKill(t)
       PROVE  SnapshotInv'
    BY <1>13 DEF Inv, TypeOK, SnapshotInv, ForceKill, sweepVars
  <1>14. ASSUME NEW h \in Host, SweepStart(h)
       PROVE  SnapshotInv'
    BY <1>14 DEF Inv, CallInv, SnapshotInv, SweepStart, Open, tableVars
  <1>15. ASSUME NEW h \in Host, Visit(h)
       PROVE  SnapshotInv'
    BY <1>15 DEF Inv, TypeOK, SnapshotInv, Visit, VisitHeadless, VisitVisible, Measure,
      EndRow, TakeLock, CanWrite, tableVars
  <1>16. ASSUME NEW h \in Host, Terminate(h)
       PROVE  SnapshotInv'
    BY <1>16 DEF Inv, TypeOK, SnapshotInv, Terminate, tableVars
  <1>17. ASSUME NEW h \in Host, CloseTimedOut(h)
       PROVE  SnapshotInv'
    BY <1>17 DEF Inv, TypeOK, SnapshotInv, CloseTimedOut, EndRow, TakeLock, CanWrite,
      tableVars
  <1>18. ASSUME NEW h \in Host, Commit(h)
       PROVE  SnapshotInv'
    BY <1>18 DEF Inv, SnapshotInv, Commit
  <1>19. ASSUME NEW h \in Host, RetrySkip(h)
       PROVE  SnapshotInv'
    BY <1>19 DEF Inv, SnapshotInv, RetrySkip, tableVars
  <1>20. ASSUME NEW h \in Host, RetryDone(h)
       PROVE  SnapshotInv'
    BY <1>20 DEF Inv, SnapshotInv, RetryDone
  <1>21. ASSUME NEW h \in Host, SweepEnd(h)
       PROVE  SnapshotInv'
    BY <1>21 DEF Inv, SnapshotInv, SweepEnd, tableVars
  <1>22. ASSUME NEW h \in Host, SweepFails(h)
       PROVE  SnapshotInv'
    BY <1>22 DEF Inv, TypeOK, SnapshotInv, SweepFails, tableVars
  <1>23. ASSUME NEW h \in Host, NEW t \in Task, NEW n \in Task, RetryReserve(h, t, n)
       PROVE  SnapshotInv'
    BY <1>23 DEF Inv, SnapshotInv, RetryReserve, Reserve
  <1>24. CASE UNCHANGED vars
    BY <1>24 DEF Inv, SnapshotInv, vars, tableVars, sweepVars
  <1>25. QED
    BY <1>1, <1>2, <1>3, <1>4, <1>5, <1>6, <1>7, <1>8, <1>9, <1>10, <1>11, <1>12,
       <1>13, <1>14, <1>15, <1>16, <1>17, <1>18, <1>19, <1>20, <1>21, <1>22, <1>23, <1>24
       DEF Next, Sweep

\* No step closes the row of a live child with a pid, or revives a child.
LEMMA EndedStep ==
  ASSUME Inv, [Next]_vars
  PROVE  EndedInv'
  <1> USE SpawnAssumption
  <1>1. ASSUME NEW t \in Task, SpawnCall(t)
       PROVE  EndedInv'
    BY <1>1 DEF Inv, CallInv, EndedInv, Charged, Alive, SpawnCall, Reserve, sweepVars
  <1>2. ASSUME NEW t \in Task, Launch(t)
       PROVE  EndedInv'
    BY <1>2 DEF Inv, CallInv, EndedInv, Charged, Alive, Launch, tableVars, sweepVars
  <1>3. ASSUME NEW t \in Task, LaunchFails(t)
       PROVE  EndedInv'
    BY <1>3 DEF Inv, EndedInv, Charged, Alive, LaunchFails, tableVars, sweepVars
  <1>4. ASSUME NEW t \in Task, Release(t)
       PROVE  EndedInv'
    BY <1>4 DEF Inv, CallInv, EndedInv, Charged, Alive, Release, sweepVars
  <1>5. ASSUME NEW t \in Task, RecordLaunch(t)
       PROVE  EndedInv'
    BY <1>5 DEF Inv, EndedInv, Charged, Alive, RecordLaunch, sweepVars
  <1>6. ASSUME NEW t \in Task, CallFails(t)
       PROVE  EndedInv'
    BY <1>6 DEF Inv, EndedInv, Charged, Alive, CallFails, tableVars, sweepVars
  <1>7. ASSUME NEW t \in Task, ChildExit(t)
       PROVE  EndedInv'
    BY <1>7 DEF Inv, EndedInv, Charged, Alive, ChildExit, tableVars, sweepVars
  <1>8. ASSUME NEW t \in Task, WrapRecord(t)
       PROVE  EndedInv'
    BY <1>8 DEF Inv, TypeOK, EndedInv, Charged, WrapRecord, Unlocked, sweepVars
  <1>9. ASSUME NEW t \in Task, WrapFails(t)
       PROVE  EndedInv'
    BY <1>9 DEF Inv, EndedInv, Charged, Alive, WrapFails, tableVars, sweepVars
  <1>10. ASSUME NEW t \in Task, Expire(t)
       PROVE  EndedInv'
    BY <1>10 DEF Inv, EndedInv, Charged, Alive, Expire, tableVars, sweepVars
  <1>11. ASSUME NEW t \in Task, ReapFinished(t)
       PROVE  EndedInv'
    BY <1>11 DEF Inv, TypeOK, EndedInv, Charged, Alive, ReapFinished, Unlocked, sweepVars
  <1>12. ASSUME NEW t \in Task, CloseIdle(t)
       PROVE  EndedInv'
    BY <1>12 DEF Inv, TypeOK, EndedInv, Charged, CloseIdle, Unlocked, sweepVars
  <1>13. ASSUME NEW t \in Task, ForceKill(t)
       PROVE  EndedInv'
    BY <1>13 DEF Inv, TypeOK, EndedInv, Charged, Alive, ForceKill, Unlocked, sweepVars
  <1>14. ASSUME NEW h \in Host, SweepStart(h)
       PROVE  EndedInv'
    BY <1>14 DEF Inv, EndedInv, Charged, Alive, SweepStart, tableVars
  <1>15. ASSUME NEW h \in Host, Visit(h)
       PROVE  EndedInv'
    BY <1>15 DEF Inv, TypeOK, CallInv, SnapshotInv, EndedInv, Charged, Alive, Visit,
      VisitHeadless, VisitVisible, Measure, EndRow, TakeLock, CanWrite, tableVars
  <1>16. ASSUME NEW h \in Host, Terminate(h)
       PROVE  EndedInv'
    BY <1>16 DEF Inv, EndedInv, Charged, Alive, Terminate, tableVars
  <1>17. ASSUME NEW h \in Host, CloseTimedOut(h)
       PROVE  EndedInv'
    BY <1>17 DEF Inv, TypeOK, CallInv, SnapshotInv, EndedInv, Charged, Alive,
      CloseTimedOut, EndRow, TakeLock, CanWrite, tableVars
  <1>18. ASSUME NEW h \in Host, Commit(h)
       PROVE  EndedInv'
    <2> USE <1>18 DEF Inv, TypeOK, EndedInv
    <2>1. CASE writer # h
      BY <2>1 DEF Commit, Charged, Alive
    <2>2. CASE writer = h
      <3>1. /\ row' = [t \in Task |->
                        IF \E e \in pending : e[1] = t THEN "closed" ELSE row[t]]
            /\ code' = [t \in Task |->
                         IF <<t, "timeout">> \in pending THEN "timeout" ELSE code[t]]
            /\ pending' = {}
            /\ UNCHANGED <<pid, call, proc>>
        BY <2>2 DEF Commit
      <3>2. \A t \in Task : code'[t] = "timeout" => row'[t] = "closed" /\ proc'[t] = "dead"
        <4> SUFFICES ASSUME NEW t \in Task, code'[t] = "timeout"
                     PROVE  row'[t] = "closed" /\ proc'[t] = "dead"
          OBVIOUS
        <4>1. CASE <<t, "timeout">> \in pending
          <5> DEFINE e == <<t, "timeout">>
          <5>1. e[1] = t /\ e[2] = "timeout" /\ e \in pending
            BY <4>1
          <5>2. proc[t] = "dead"
            BY <5>1
          <5>3. QED
            BY <5>1, <5>2, <3>1
        <4>2. CASE <<t, "timeout">> \notin pending
          BY <4>2, <3>1
        <4>3. QED
          BY <4>1, <4>2
      <3>3. \A t \in Charged' : row'[t] = "open"
        <4> SUFFICES ASSUME NEW t \in Charged'
                     PROVE  row'[t] = "open"
          OBVIOUS
        <4>1. t \in Charged /\ t \in Task
          BY <3>1 DEF Charged
        <4>2. \A e \in pending : e[1] # t
          BY <4>1 DEF Charged, Alive, CallInv
        <4>3. QED
          BY <4>1, <4>2, <3>1
      <3>4. QED
        BY <3>1, <3>2, <3>3
    <2>3. QED
      BY <2>1, <2>2
  <1>19. ASSUME NEW h \in Host, RetrySkip(h)
       PROVE  EndedInv'
    BY <1>19 DEF Inv, EndedInv, Charged, Alive, RetrySkip, tableVars
  <1>20. ASSUME NEW h \in Host, RetryDone(h)
       PROVE  EndedInv'
    BY <1>20 DEF Inv, EndedInv, Charged, Alive, RetryDone
  <1>21. ASSUME NEW h \in Host, SweepEnd(h)
       PROVE  EndedInv'
    BY <1>21 DEF Inv, EndedInv, Charged, Alive, SweepEnd, tableVars
  <1>22. ASSUME NEW h \in Host, SweepFails(h)
       PROVE  EndedInv'
    BY <1>22 DEF Inv, EndedInv, Charged, Alive, SweepFails, tableVars
  <1>23. ASSUME NEW h \in Host, NEW t \in Task, NEW n \in Task, RetryReserve(h, t, n)
       PROVE  EndedInv'
    BY <1>23 DEF Inv, CallInv, EndedInv, Charged, Alive, RetryReserve, Reserve
  <1>24. CASE UNCHANGED vars
    BY <1>24 DEF Inv, EndedInv, Charged, Alive, vars, tableVars, sweepVars
  <1>25. QED
    BY <1>1, <1>2, <1>3, <1>4, <1>5, <1>6, <1>7, <1>8, <1>9, <1>10, <1>11, <1>12,
       <1>13, <1>14, <1>15, <1>16, <1>17, <1>18, <1>19, <1>20, <1>21, <1>22, <1>23, <1>24
       DEF Next, Sweep

\* The guard of the closing UPDATE gives a timed-out task to one daemon.
LEMMA ClaimStep ==
  ASSUME Inv, [Next]_vars
  PROVE  ClaimInv'
  <1> USE SpawnAssumption
  <1>1. ASSUME NEW t \in Task, SpawnCall(t)
       PROVE  ClaimInv'
    BY <1>1 DEF Inv, CallInv, ClaimInv, OneContinuation, SpawnCall, Reserve, sweepVars
  <1>2. ASSUME NEW t \in Task, Launch(t)
       PROVE  ClaimInv'
    BY <1>2 DEF Inv, CallInv, ClaimInv, OneContinuation, Launch, tableVars, sweepVars
  <1>3. ASSUME NEW t \in Task, LaunchFails(t)
       PROVE  ClaimInv'
    BY <1>3 DEF Inv, ClaimInv, OneContinuation, LaunchFails, tableVars, sweepVars
  <1>4. ASSUME NEW t \in Task, Release(t)
       PROVE  ClaimInv'
    BY <1>4 DEF Inv, CallInv, ClaimInv, OneContinuation, Release, sweepVars
  <1>5. ASSUME NEW t \in Task, RecordLaunch(t)
       PROVE  ClaimInv'
    BY <1>5 DEF Inv, ClaimInv, OneContinuation, RecordLaunch, sweepVars
  <1>6. ASSUME NEW t \in Task, CallFails(t)
       PROVE  ClaimInv'
    BY <1>6 DEF Inv, ClaimInv, OneContinuation, CallFails, tableVars, sweepVars
  <1>7. ASSUME NEW t \in Task, ChildExit(t)
       PROVE  ClaimInv'
    BY <1>7 DEF Inv, ClaimInv, OneContinuation, ChildExit, tableVars, sweepVars
  <1>8. ASSUME NEW t \in Task, WrapRecord(t)
       PROVE  ClaimInv'
    BY <1>8 DEF Inv, ClaimInv, OneContinuation, WrapRecord, sweepVars
  <1>9. ASSUME NEW t \in Task, WrapFails(t)
       PROVE  ClaimInv'
    BY <1>9 DEF Inv, ClaimInv, OneContinuation, WrapFails, tableVars, sweepVars
  <1>10. ASSUME NEW t \in Task, Expire(t)
       PROVE  ClaimInv'
    BY <1>10 DEF Inv, ClaimInv, OneContinuation, Expire, tableVars, sweepVars
  <1>11. ASSUME NEW t \in Task, ReapFinished(t)
       PROVE  ClaimInv'
    BY <1>11 DEF Inv, ClaimInv, OneContinuation, ReapFinished, sweepVars
  <1>12. ASSUME NEW t \in Task, CloseIdle(t)
       PROVE  ClaimInv'
    BY <1>12 DEF Inv, ClaimInv, OneContinuation, CloseIdle, sweepVars
  <1>13. ASSUME NEW t \in Task, ForceKill(t)
       PROVE  ClaimInv'
    BY <1>13 DEF Inv, TypeOK, ClaimInv, OneContinuation, ForceKill, sweepVars
  <1>14. ASSUME NEW h \in Host, SweepStart(h)
       PROVE  ClaimInv'
    BY <1>14 DEF Inv, ClaimInv, OneContinuation, SweepStart, tableVars
  <1>15. ASSUME NEW h \in Host, Visit(h)
       PROVE  ClaimInv'
    BY <1>15 DEF Inv, TypeOK, ClaimInv, OneContinuation, Visit, VisitHeadless,
      VisitVisible, Measure, EndRow, TakeLock, CanWrite, tableVars
  <1>16. ASSUME NEW h \in Host, Terminate(h)
       PROVE  ClaimInv'
    BY <1>16 DEF Inv, ClaimInv, OneContinuation, Terminate, tableVars
  <1>17. ASSUME NEW h \in Host, CloseTimedOut(h)
       PROVE  ClaimInv'
    BY <1>17 DEF Inv, SnapshotInv, ClaimInv, OneContinuation, CloseTimedOut, EndRow,
      TakeLock, CanWrite, tableVars
  <1>18. ASSUME NEW h \in Host, Commit(h)
       PROVE  ClaimInv'
    BY <1>18 DEF Inv, TypeOK, ClaimInv, OneContinuation, Commit
  <1>19. ASSUME NEW h \in Host, RetrySkip(h)
       PROVE  ClaimInv'
    BY <1>19 DEF Inv, ClaimInv, OneContinuation, RetrySkip, tableVars
  <1>20. ASSUME NEW h \in Host, RetryDone(h)
       PROVE  ClaimInv'
    BY <1>20 DEF Inv, ClaimInv, OneContinuation, RetryDone
  <1>21. ASSUME NEW h \in Host, SweepEnd(h)
       PROVE  ClaimInv'
    BY <1>21 DEF Inv, ClaimInv, OneContinuation, SweepEnd, tableVars
  <1>22. ASSUME NEW h \in Host, SweepFails(h)
       PROVE  ClaimInv'
    BY <1>22 DEF Inv, TypeOK, ClaimInv, OneContinuation, SweepFails, tableVars
  <1>23. ASSUME NEW h \in Host, NEW t \in Task, NEW n \in Task, RetryReserve(h, t, n)
       PROVE  ClaimInv'
    <2> USE <1>23 DEF Inv, TypeOK, ClaimInv
    <2>1. /\ t \in timedOut[h]
          /\ timedOut' = [timedOut EXCEPT ![h] = timedOut[h] \ {t}]
          /\ call[n] = "none" /\ call' = [call EXCEPT ![n] = "reserved"]
          /\ retryOf' = [retryOf EXCEPT ![n] = t]
          /\ row' = [row EXCEPT ![n] = "open"]
          /\ writer = Nobody /\ UNCHANGED <<proc, pending, writer>>
          /\ spc[h] = "retry" /\ spc' = [spc EXCEPT ![h] = "spawn"]
      BY DEF RetryReserve, Reserve, Unlocked
    <2>2. \A k \in Host : \A u \in timedOut[k] :
             /\ proc[u] = "dead" /\ row[u] = "closed"
             /\ \A j \in Host : u \in timedOut[j] => j = k
      <3>1. \A k \in Host : writer # k
        BY <2>1, SpawnAssumption
      <3>2. QED
        BY <3>1
    <2>3. row[t] = "closed" /\ proc[t] = "dead" /\ t # Nobody
      BY <2>1, <2>2, SpawnAssumption
    <2>4. row[n] = "absent" /\ n # t
      BY <2>1, <2>3 DEF CallInv
    <2>5. \A k \in Host : t \notin timedOut'[k]
      BY <2>1
    <2>6. \A m \in Task : retryOf[m] # Nobody => retryOf[m] # t
      BY <2>1
    <2>7. OneContinuation'
      <3>1. \A m \in Task : attempt'[m] <= Limit
        BY <2>3 DEF RetryReserve, Reserve, OneContinuation
      <3>2. \A l, m \in Task : retryOf'[l] = retryOf'[m] /\ retryOf'[l] # Nobody => l = m
        BY <2>1, <2>6 DEF OneContinuation
      <3>3. QED
        BY <3>1, <3>2 DEF OneContinuation
    <2>8. \A m \in Task : retryOf'[m] # Nobody =>
             /\ call'[m] # "none"
             /\ proc'[retryOf'[m]] = "dead"
             /\ row'[retryOf'[m]] = "closed"
             /\ \A k \in Host : retryOf'[m] \notin timedOut'[k]
      <3> SUFFICES ASSUME NEW m \in Task, retryOf'[m] # Nobody
                   PROVE  /\ call'[m] # "none"
                          /\ proc'[retryOf'[m]] = "dead"
                          /\ row'[retryOf'[m]] = "closed"
                          /\ \A k \in Host : retryOf'[m] \notin timedOut'[k]
        OBVIOUS
      <3>1. CASE m = n
        BY <3>1, <2>1, <2>3, <2>4, <2>5
      <3>2. CASE m # n
        BY <3>2, <2>1, <2>4
      <3>3. QED
        BY <3>1, <3>2
    <2>9. \A k \in Host : \A u \in timedOut'[k] :
             /\ proc'[u] = "dead"
             /\ \/ row'[u] = "closed"
                \/ /\ <<u, "timeout">> \in pending' /\ writer' = k
                   /\ spc'[k] \in {"scan", "kill", "close"}
             /\ \A j \in Host : u \in timedOut'[j] => j = k
      <3>1. \A k \in Host : timedOut'[k] \subseteq timedOut[k]
        BY <2>1
      <3>2. \A u \in Task : row[u] = "closed" => row'[u] = "closed"
        BY <2>1, <2>4
      <3>3. \A k \in Host : timedOut[k] \subseteq Task
        OBVIOUS
      <3>4. \A k \in Host : \A u \in timedOut'[k] : u \in timedOut[k] /\ u \in Task
        BY <3>1, <3>3
      <3>5. \A k \in Host : \A u \in timedOut'[k] : row'[u] = "closed" /\ proc'[u] = "dead"
        BY <3>2, <3>4, <2>2, <2>1
      <3>6. QED
        BY <3>4, <3>5, <2>2
    <2>10. QED
      BY <2>7, <2>8, <2>9
  <1>24. CASE UNCHANGED vars
    BY <1>24 DEF Inv, ClaimInv, OneContinuation, vars, tableVars, sweepVars
  <1>25. QED
    BY <1>1, <1>2, <1>3, <1>4, <1>5, <1>6, <1>7, <1>8, <1>9, <1>10, <1>11, <1>12,
       <1>13, <1>14, <1>15, <1>16, <1>17, <1>18, <1>19, <1>20, <1>21, <1>22, <1>23, <1>24
       DEF Next, Sweep

\* Rows open one at a time, and only where there is room for one more.
LEMMA OpenStep ==
  ASSUME Inv, [Next]_vars
  PROVE  OpensOne
  <1> USE SpawnAssumption
  <1>1. ASSUME NEW t \in Task, SpawnCall(t)
       PROVE  OpensOne
    <2>1. Open' = Open \cup {t} /\ Cardinality(Open) + 1 <= Slots
      BY <1>1 DEF Inv, TypeOK, SpawnCall, Reserve, Open
    <2>2. QED
      BY <2>1 DEF OpensOne
  <1>2. ASSUME NEW t \in Task, Launch(t)
       PROVE  OpensOne
    BY <1>2 DEF Inv, OpensOne, Open, Launch, tableVars
  <1>3. ASSUME NEW t \in Task, LaunchFails(t)
       PROVE  OpensOne
    BY <1>3 DEF Inv, OpensOne, Open, LaunchFails, tableVars
  <1>4. ASSUME NEW t \in Task, Release(t)
       PROVE  OpensOne
    BY <1>4 DEF Inv, OpensOne, Open, Release
  <1>5. ASSUME NEW t \in Task, RecordLaunch(t)
       PROVE  OpensOne
    BY <1>5 DEF Inv, OpensOne, Open, RecordLaunch
  <1>6. ASSUME NEW t \in Task, CallFails(t)
       PROVE  OpensOne
    BY <1>6 DEF Inv, OpensOne, Open, CallFails, tableVars
  <1>7. ASSUME NEW t \in Task, ChildExit(t)
       PROVE  OpensOne
    BY <1>7 DEF Inv, OpensOne, Open, ChildExit, tableVars
  <1>8. ASSUME NEW t \in Task, WrapRecord(t)
       PROVE  OpensOne
    BY <1>8 DEF Inv, OpensOne, Open, WrapRecord
  <1>9. ASSUME NEW t \in Task, WrapFails(t)
       PROVE  OpensOne
    BY <1>9 DEF Inv, OpensOne, Open, WrapFails, tableVars
  <1>10. ASSUME NEW t \in Task, Expire(t)
       PROVE  OpensOne
    BY <1>10 DEF Inv, OpensOne, Open, Expire, tableVars
  <1>11. ASSUME NEW t \in Task, ReapFinished(t)
       PROVE  OpensOne
    BY <1>11 DEF Inv, OpensOne, Open, ReapFinished
  <1>12. ASSUME NEW t \in Task, CloseIdle(t)
       PROVE  OpensOne
    BY <1>12 DEF Inv, OpensOne, Open, CloseIdle
  <1>13. ASSUME NEW t \in Task, ForceKill(t)
       PROVE  OpensOne
    BY <1>13 DEF Inv, TypeOK, OpensOne, Open, ForceKill
  <1>14. ASSUME NEW h \in Host, SweepStart(h)
       PROVE  OpensOne
    BY <1>14 DEF Inv, OpensOne, Open, SweepStart, tableVars
  <1>15. ASSUME NEW h \in Host, Visit(h)
       PROVE  OpensOne
    BY <1>15 DEF Inv, OpensOne, Open, Visit, VisitHeadless, VisitVisible, Measure, EndRow,
      TakeLock, CanWrite, tableVars
  <1>16. ASSUME NEW h \in Host, Terminate(h)
       PROVE  OpensOne
    BY <1>16 DEF Inv, OpensOne, Open, Terminate, tableVars
  <1>17. ASSUME NEW h \in Host, CloseTimedOut(h)
       PROVE  OpensOne
    BY <1>17 DEF Inv, OpensOne, Open, CloseTimedOut, EndRow, TakeLock, CanWrite, tableVars
  <1>18. ASSUME NEW h \in Host, Commit(h)
       PROVE  OpensOne
    BY <1>18 DEF Inv, OpensOne, Open, Commit
  <1>19. ASSUME NEW h \in Host, RetrySkip(h)
       PROVE  OpensOne
    BY <1>19 DEF Inv, OpensOne, Open, RetrySkip, tableVars
  <1>20. ASSUME NEW h \in Host, RetryDone(h)
       PROVE  OpensOne
    BY <1>20 DEF Inv, OpensOne, Open, RetryDone
  <1>21. ASSUME NEW h \in Host, SweepEnd(h)
       PROVE  OpensOne
    BY <1>21 DEF Inv, OpensOne, Open, SweepEnd, tableVars
  <1>22. ASSUME NEW h \in Host, SweepFails(h)
       PROVE  OpensOne
    BY <1>22 DEF Inv, OpensOne, Open, SweepFails, tableVars
  <1>23. ASSUME NEW h \in Host, NEW t \in Task, NEW n \in Task, RetryReserve(h, t, n)
       PROVE  OpensOne
    <2>1. Open' = Open \cup {n} /\ Cardinality(Open) + 1 <= Slots
      BY <1>23 DEF Inv, TypeOK, RetryReserve, Reserve, Open
    <2>2. QED
      BY <2>1 DEF OpensOne
  <1>24. CASE UNCHANGED vars
    BY <1>24 DEF Inv, OpensOne, Open, vars, tableVars
  <1>25. QED
    BY <1>1, <1>2, <1>3, <1>4, <1>5, <1>6, <1>7, <1>8, <1>9, <1>10, <1>11, <1>12,
       <1>13, <1>14, <1>15, <1>16, <1>17, <1>18, <1>19, <1>20, <1>21, <1>22, <1>23, <1>24
       DEF Next, Sweep

\* A closed row stays closed, a verdict stands.
LEMMA VerdictStep ==
  ASSUME Inv, [Next]_vars
  PROVE  \A u \in Task : Stands(u)
  <1> USE SpawnAssumption
  <1>1. ASSUME NEW t \in Task, SpawnCall(t)
       PROVE  \A u \in Task : Stands(u)
    BY <1>1 DEF Inv, CallInv, Stands, SpawnCall, Reserve
  <1>2. ASSUME NEW t \in Task, Launch(t)
       PROVE  \A u \in Task : Stands(u)
    BY <1>2 DEF Inv, Stands, Launch, tableVars
  <1>3. ASSUME NEW t \in Task, LaunchFails(t)
       PROVE  \A u \in Task : Stands(u)
    BY <1>3 DEF Inv, Stands, LaunchFails, tableVars
  <1>4. ASSUME NEW t \in Task, Release(t)
       PROVE  \A u \in Task : Stands(u)
    BY <1>4 DEF Inv, CallInv, Stands, Release
  <1>5. ASSUME NEW t \in Task, RecordLaunch(t)
       PROVE  \A u \in Task : Stands(u)
    BY <1>5 DEF Inv, Stands, RecordLaunch
  <1>6. ASSUME NEW t \in Task, CallFails(t)
       PROVE  \A u \in Task : Stands(u)
    BY <1>6 DEF Inv, Stands, CallFails, tableVars
  <1>7. ASSUME NEW t \in Task, ChildExit(t)
       PROVE  \A u \in Task : Stands(u)
    BY <1>7 DEF Inv, Stands, ChildExit, tableVars
  <1>8. ASSUME NEW t \in Task, WrapRecord(t)
       PROVE  \A u \in Task : Stands(u)
    BY <1>8 DEF Inv, EndedInv, Stands, WrapRecord
  <1>9. ASSUME NEW t \in Task, WrapFails(t)
       PROVE  \A u \in Task : Stands(u)
    BY <1>9 DEF Inv, Stands, WrapFails, tableVars
  <1>10. ASSUME NEW t \in Task, Expire(t)
       PROVE  \A u \in Task : Stands(u)
    BY <1>10 DEF Inv, Stands, Expire, tableVars
  <1>11. ASSUME NEW t \in Task, ReapFinished(t)
       PROVE  \A u \in Task : Stands(u)
    BY <1>11 DEF Inv, Stands, ReapFinished
  <1>12. ASSUME NEW t \in Task, CloseIdle(t)
       PROVE  \A u \in Task : Stands(u)
    BY <1>12 DEF Inv, Stands, CloseIdle
  <1>13. ASSUME NEW t \in Task, ForceKill(t)
       PROVE  \A u \in Task : Stands(u)
    BY <1>13 DEF Inv, TypeOK, Stands, ForceKill
  <1>14. ASSUME NEW h \in Host, SweepStart(h)
       PROVE  \A u \in Task : Stands(u)
    BY <1>14 DEF Inv, Stands, SweepStart, tableVars
  <1>15. ASSUME NEW h \in Host, Visit(h)
       PROVE  \A u \in Task : Stands(u)
    BY <1>15 DEF Inv, Stands, Visit, VisitHeadless, VisitVisible, Measure, EndRow,
      TakeLock, CanWrite, tableVars
  <1>16. ASSUME NEW h \in Host, Terminate(h)
       PROVE  \A u \in Task : Stands(u)
    BY <1>16 DEF Inv, Stands, Terminate, tableVars
  <1>17. ASSUME NEW h \in Host, CloseTimedOut(h)
       PROVE  \A u \in Task : Stands(u)
    BY <1>17 DEF Inv, Stands, CloseTimedOut, EndRow, TakeLock, CanWrite, tableVars
  <1>18. ASSUME NEW h \in Host, Commit(h)
       PROVE  \A u \in Task : Stands(u)
    <2> SUFFICES ASSUME NEW u \in Task, row[u] = "closed"
                 PROVE  row'[u] = "closed" /\ (code[u] = "timeout" => code'[u] = "timeout")
      BY DEF Stands
    <2>1. CASE writer # h
      BY <1>18, <2>1 DEF Commit
    <2>2. CASE writer = h
      <3>1. /\ row' = [t \in Task |->
                        IF \E e \in pending : e[1] = t THEN "closed" ELSE row[t]]
            /\ code' = [t \in Task |->
                         IF <<t, "timeout">> \in pending THEN "timeout" ELSE code[t]]
        BY <1>18, <2>2 DEF Commit
      <3>2. row'[u] = "closed"
        BY <3>1
      <3>3. code[u] = "timeout" => code'[u] = "timeout"
        BY <3>1
      <3>4. QED
        BY <3>2, <3>3
    <2>3. QED
      BY <2>1, <2>2
  <1>19. ASSUME NEW h \in Host, RetrySkip(h)
       PROVE  \A u \in Task : Stands(u)
    BY <1>19 DEF Inv, Stands, RetrySkip, tableVars
  <1>20. ASSUME NEW h \in Host, RetryDone(h)
       PROVE  \A u \in Task : Stands(u)
    BY <1>20 DEF Inv, Stands, RetryDone
  <1>21. ASSUME NEW h \in Host, SweepEnd(h)
       PROVE  \A u \in Task : Stands(u)
    BY <1>21 DEF Inv, Stands, SweepEnd, tableVars
  <1>22. ASSUME NEW h \in Host, SweepFails(h)
       PROVE  \A u \in Task : Stands(u)
    BY <1>22 DEF Inv, Stands, SweepFails, tableVars
  <1>23. ASSUME NEW h \in Host, NEW t \in Task, NEW n \in Task, RetryReserve(h, t, n)
       PROVE  \A u \in Task : Stands(u)
    BY <1>23 DEF Inv, CallInv, Stands, RetryReserve, Reserve
  <1>24. CASE UNCHANGED vars
    BY <1>24 DEF Inv, Stands, vars, tableVars
  <1>25. QED
    BY <1>1, <1>2, <1>3, <1>4, <1>5, <1>6, <1>7, <1>8, <1>9, <1>10, <1>11, <1>12,
       <1>13, <1>14, <1>15, <1>16, <1>17, <1>18, <1>19, <1>20, <1>21, <1>22, <1>23, <1>24
       DEF Next, Sweep

-----------------------------------------------------------------------------
\* The rows never ask for more than the budget: they open one at a time, each
\* after the room for it was found.
LEMMA RoomStep ==
  ASSUME Inv, [Next]_vars
  PROVE  RoomInv'
  <1>1. OpensOne
    BY OpenStep
  <1>2. Open \subseteq Task /\ Open' \subseteq Task
    BY DEF Open
  <1>3. IsFiniteSet(Open) /\ IsFiniteSet(Open')
    BY <1>2, SpawnAssumption, FS_Subset
  <1>4. Cardinality(Open) \in Nat /\ Cardinality(Open') \in Nat
    BY <1>3, FS_CardinalityType
  <1>5. Cardinality(Open) <= Slots /\ Slots \in Nat
    BY SpawnAssumption DEF Inv, RoomInv
  <1>6. CASE Open' \subseteq Open
    <2>1. Cardinality(Open') <= Cardinality(Open)
      BY <1>3, <1>6, FS_Subset
    <2>2. QED
      BY <2>1, <1>4, <1>5 DEF RoomInv
  <1>7. ASSUME NEW t \in Task, Open' = Open \cup {t}, Cardinality(Open) + 1 <= Slots
        PROVE  RoomInv'
    <2>1. Cardinality(Open') <= Cardinality(Open) + 1
      BY <1>3, <1>4, <1>7, FS_AddElement
    <2>2. QED
      BY <2>1, <1>4, <1>5, <1>7 DEF RoomInv
  <1>8. QED
    BY <1>1, <1>6, <1>7 DEF OpensOne

\* The table starts empty.
LEMMA InvInit ==
  ASSUME Init
  PROVE  Inv
  <1> USE SpawnAssumption
  <1>1. TypeOK
    BY DEF Init, TypeOK
  <1>2. CallInv
    BY DEF Init, CallInv
  <1>3. SnapshotInv
    BY DEF Init, SnapshotInv
  <1>4. EndedInv
    BY DEF Init, EndedInv, Charged
  <1>5. ClaimInv
    BY DEF Init, ClaimInv, OneContinuation
  <1>6. RoomInv
    <2>1. Open = {}
      BY DEF Init, Open
    <2>2. QED
      BY <2>1, FS_EmptySet DEF RoomInv
  <1>7. QED
    BY <1>1, <1>2, <1>3, <1>4, <1>5, <1>6 DEF Inv

\* The inductive invariant holds in every reachable state.
THEOREM SpawnInvariance == Spec => []Inv
  <1>1. Init => Inv
    BY InvInit
  <1>2. Inv /\ [Next]_vars => Inv'
    <2> SUFFICES ASSUME Inv, [Next]_vars
                 PROVE  Inv'
      OBVIOUS
    <2>1. TypeOK' /\ CallInv' /\ SnapshotInv'
      BY TypeStep, CallStep, SnapshotStep
    <2>2. EndedInv' /\ ClaimInv' /\ RoomInv'
      BY EndedStep, ClaimStep, RoomStep
    <2>3. QED
      BY <2>1, <2>2 DEF Inv
  <1>3. QED
    BY <1>1, <1>2, PTL DEF Spec

-----------------------------------------------------------------------------
\* Every variable keeps its type, a daemon knows its target exactly where it
\* needs one, and only the holder of the write lock has uncommitted writes.
THEOREM SpawnTypeCorrect == Spec => []TypeOK
  <1>1. Inv => TypeOK
    BY DEF Inv
  <1>2. QED
    BY <1>1, SpawnInvariance, PTL

\* Concurrent spawns, restarts and lost races of closers never put more
\* children into the machine than the budget has room for: a child it answers
\* for has an open row, and rows open one at a time where there is room.
THEOREM BudgetKept == Spec => []WithinBudget
  <1>1. ASSUME Inv
        PROVE  WithinBudget
    <2>1. Charged \subseteq Open
      BY <1>1 DEF Inv, EndedInv, Charged, Open
    <2>2. IsFiniteSet(Open)
      BY SpawnAssumption, FS_Subset DEF Open
    <2>3. Cardinality(Charged) <= Cardinality(Open) /\ IsFiniteSet(Charged)
      BY <2>1, <2>2, FS_Subset
    <2>4. Cardinality(Open) \in Nat /\ Cardinality(Charged) \in Nat
      BY <2>2, <2>3, FS_CardinalityType
    <2>5. QED
      BY <1>1, <2>3, <2>4, SpawnAssumption DEF Inv, RoomInv, WithinBudget
  <1>2. QED
    BY <1>1, SpawnInvariance, PTL

\* The continuation of a timed-out task never runs beside the child it
\* continues: the daemon restarts only what it has killed.
THEOREM NeverOverlaps == Spec => []NoOverlap
  <1>1. Inv => NoOverlap
    BY DEF Inv, ClaimInv, NoOverlap, Alive
  <1>2. QED
    BY <1>1, SpawnInvariance, PTL

\* A timed-out task is continued once at most, whoever sweeps, and a chain of
\* restarts is no longer than its limit.
THEOREM ContinuedOnce == Spec => []OneContinuation
  <1>1. Inv => OneContinuation
    BY DEF Inv, ClaimInv
  <1>2. QED
    BY <1>1, SpawnInvariance, PTL

\* No step reopens a closed row or replaces the verdict that a child timed
\* out, although the wrapper and the readers write to rows the daemon closed.
THEOREM VerdictsStand == Spec => VerdictStands
  <1>1. Inv /\ [Next]_vars => [\A t \in Task : Stands(t)]_vars
    BY VerdictStep
  <1>2. QED
    BY <1>1, SpawnInvariance, PTL DEF Spec, VerdictStands, Stands

-----------------------------------------------------------------------------
(* The table implements TaskLife. *)

\* A task that a daemon is to restart has its verdict, or will have it with
\* the commit of that daemon.
Judged(h, t) ==
  \/ code[t] = "timeout"
  \/ /\ <<t, "timeout">> \in pending /\ writer = h
     /\ spc[h] \in {"scan", "kill", "close"}

Owed == \A h \in Host : \A t \in timedOut[h] : Judged(h, t)

\* A verdict stays.
LEMMA VerdictStays ==
  ASSUME Inv, [Next]_vars, NEW t \in Task, code[t] = "timeout"
  PROVE  code'[t] = "timeout"
  <1>1. Stands(t)
    BY VerdictStep
  <1>2. row[t] = "closed"
    BY DEF Inv, EndedInv
  <1>3. QED
    BY <1>1, <1>2 DEF Stands

\* So does one that is on its way, while its sweep has not committed.
LEMMA JudgedStays ==
  ASSUME Inv, [Next]_vars, NEW h \in Host, NEW t \in Task, Judged(h, t),
         pending \subseteq pending', writer = h => writer' = h,
         spc'[h] # spc[h] => spc'[h] \in {"scan", "kill", "close"}
  PROVE  Judged(h, t)'
  BY VerdictStays DEF Judged

\* A daemon owes no task a verdict that it has not given.
LEMMA OwedStep ==
  ASSUME Inv, Owed, [Next]_vars
  PROVE  Owed'
  <1> USE DEF Owed
  <1>0. /\ timedOut \in [Host -> SUBSET Task]
        /\ spc \in [Host -> {"idle", "scan", "kill", "close", "retry", "spawn"}]
        /\ Nobody \notin Host
    BY SpawnAssumption DEF Inv, TypeOK
  <1>1. ASSUME timedOut' = timedOut, pending' = pending, writer' = writer, spc' = spc
        PROVE  Owed'
    BY <1>0, <1>1, JudgedStays
  <1>2. ASSUME NEW h \in Host, SweepStart(h) \/ RetrySkip(h) \/ SweepEnd(h) \/ RetryDone(h)
        PROVE  Owed'
    <2>1. /\ spc[h] \in {"idle", "retry", "spawn"} /\ \A k \in Host \ {h} : spc'[k] = spc[k]
          /\ \A k \in Host : timedOut'[k] \subseteq timedOut[k]
          /\ UNCHANGED <<code, pending, writer>>
      BY <1>0, <1>2 DEF SweepStart, RetrySkip, SweepEnd, RetryDone, tableVars
    <2>2. ASSUME NEW k \in Host, NEW t \in timedOut'[k]
          PROVE  Judged(k, t)'
      <3>1. Judged(k, t)
        BY <2>1, <2>2
      <3>2. QED
        BY <2>1, <3>1 DEF Judged
    <2>3. QED
      BY <2>2
  <1>3. ASSUME NEW h \in Host, Visit(h) \/ Terminate(h)
        PROVE  Owed'
    <2>1. /\ pending \subseteq pending' /\ timedOut' = timedOut
          /\ \A k \in Host : writer = k => writer' = k
          /\ \A k \in Host : spc'[k] # spc[k] => spc'[k] \in {"scan", "kill", "close"}
      <3>1. CASE Terminate(h)
        BY <1>0, <3>1 DEF Terminate
      <3>2. CASE Visit(h)
        <4>1. PICK r \in todo[h] :
                IF r.pid THEN VisitHeadless(h, r.id, r.old) ELSE VisitVisible(h, r.id, r.old)
          BY <3>2 DEF Visit
        <4>2. /\ pending \subseteq pending'
              /\ writer' = writer \/ (writer \in {Nobody, h} /\ writer' = h)
              /\ spc' = spc \/ spc' = [spc EXCEPT ![h] = "kill"]
          BY <4>1 DEF VisitHeadless, VisitVisible, Measure, EndRow, TakeLock, CanWrite
        <4>3. QED
          BY <1>0, <3>2, <4>2 DEF Visit
      <3>3. QED
        BY <1>3, <3>1, <3>2
    <2>2. QED
      BY <1>0, <2>1, JudgedStays
  <1>4. ASSUME NEW h \in Host, CloseTimedOut(h)
        PROVE  Owed'
    <2>1. /\ writer \in {Nobody, h} /\ writer' = h
          /\ spc' = [spc EXCEPT ![h] = "scan"]
          /\ \/ pending' = pending /\ timedOut' = timedOut
             \/ /\ pending' = pending \cup {<<target[h], "timeout">>}
                /\ timedOut' = [timedOut EXCEPT ![h] = timedOut[h] \cup {target[h]}]
      BY <1>0, <1>4 DEF CloseTimedOut, EndRow, TakeLock, CanWrite
    <2>2. ASSUME NEW k \in Host, NEW t \in timedOut[k]
          PROVE  Judged(k, t)'
      BY <1>0, <2>1, <2>2, JudgedStays
    <2>3. CASE timedOut' = timedOut
      BY <2>2, <2>3
    <2>4. CASE /\ pending' = pending \cup {<<target[h], "timeout">>}
               /\ timedOut' = [timedOut EXCEPT ![h] = timedOut[h] \cup {target[h]}]
      <3>1. ASSUME NEW k \in Host, NEW t \in timedOut'[k], t \notin timedOut[k]
            PROVE  Judged(k, t)'
        <4>1. k = h /\ t = target[h]
          BY <1>0, <2>4, <3>1
        <4>2. <<t, "timeout">> \in pending' /\ writer' = k /\ spc'[k] = "scan"
          BY <1>0, <2>1, <2>4, <4>1
        <4>3. QED
          BY <4>2 DEF Judged
      <3>2. QED
        BY <2>2, <3>1
    <2>5. QED
      BY <2>1, <2>3, <2>4
  <1>5. ASSUME NEW h \in Host, Commit(h)
        PROVE  Owed'
    <2>1. timedOut' = timedOut /\ spc' = [spc EXCEPT ![h] = "retry"]
      BY <1>5 DEF Commit
    <2>2. CASE writer = h
      <3>1. code' = [t \in Task |-> IF <<t, "timeout">> \in pending THEN "timeout" ELSE code[t]]
        BY <1>5, <2>2 DEF Commit
      <3>2. ASSUME NEW k \in Host, NEW t \in timedOut[k]
            PROVE  code'[t] = "timeout"
        <4>1. t \in Task /\ (code[t] = "timeout" \/ <<t, "timeout">> \in pending)
          BY <1>0, <3>2 DEF Judged
        <4>2. QED
          BY <3>1, <4>1
      <3>3. QED
        BY <2>1, <3>2 DEF Judged
    <2>3. CASE writer # h
      <3>1. UNCHANGED <<code, writer, pending>>
        BY <1>5, <2>3 DEF Commit
      <3>2. ASSUME NEW k \in Host, NEW t \in timedOut[k]
            PROVE  Judged(k, t)'
        <4>1. Judged(k, t)
          BY <3>2
        <4>2. k # h => spc'[k] = spc[k]
          BY <1>0, <2>1
        <4>3. QED
          BY <2>3, <3>1, <4>1, <4>2 DEF Judged
      <3>3. QED
        BY <2>1, <3>2
    <2>4. QED
      BY <2>2, <2>3
  <1>6. ASSUME NEW h \in Host, NEW t \in Task, NEW n \in Task, RetryReserve(h, t, n)
        PROVE  Owed'
    <2>1. /\ spc[h] = "retry" /\ \A k \in Host \ {h} : spc'[k] = spc[k]
          /\ \A k \in Host : timedOut'[k] \subseteq timedOut[k]
          /\ UNCHANGED <<code, pending, writer>>
      BY <1>0, <1>6 DEF RetryReserve, Reserve
    <2>2. ASSUME NEW k \in Host, NEW u \in timedOut'[k]
          PROVE  Judged(k, u)'
      <3>1. Judged(k, u)
        BY <2>1, <2>2
      <3>2. QED
        BY <2>1, <3>1 DEF Judged
    <2>3. QED
      BY <2>2
  <1>7. ASSUME NEW h \in Host, SweepFails(h)
        PROVE  Owed'
    <2>1. /\ timedOut' = [timedOut EXCEPT ![h] = {}] /\ spc' = [spc EXCEPT ![h] = "idle"]
          /\ writer # h => UNCHANGED <<pending, writer>>
          /\ code' = code
      BY <1>7 DEF SweepFails, tableVars
    <2>2. ASSUME NEW k \in Host, NEW t \in timedOut'[k]
          PROVE  Judged(k, t)'
      <3>1. k # h /\ t \in timedOut[k] /\ spc'[k] = spc[k]
        BY <1>0, <2>1, <2>2
      <3>2. Judged(k, t)
        BY <3>1
      <3>3. QED
        BY <2>1, <3>1, <3>2 DEF Judged
    <2>3. QED
      BY <2>2
  <1>8. ASSUME NEW t \in Task,
               \/ SpawnCall(t) \/ Launch(t) \/ LaunchFails(t) \/ Release(t)
               \/ RecordLaunch(t) \/ CallFails(t) \/ ChildExit(t) \/ WrapRecord(t)
               \/ WrapFails(t) \/ Expire(t) \/ ReapFinished(t) \/ CloseIdle(t) \/ ForceKill(t)
        PROVE  Owed'
    <2>1. UNCHANGED sweepVars
      BY <1>8 DEF SpawnCall, Launch, LaunchFails, Release, RecordLaunch, CallFails, ChildExit,
                  WrapRecord, WrapFails, Expire, ReapFinished, CloseIdle, ForceKill
    <2>2. QED
      BY <1>1, <2>1 DEF sweepVars
  <1>9. CASE UNCHANGED vars
    BY <1>1, <1>9 DEF vars, sweepVars
  <1>10. QED
    BY <1>2, <1>3, <1>4, <1>5, <1>6, <1>7, <1>8, <1>9 DEF Next, Sweep

\* What a row is to its readers when a step closes it, or touches neither its
\* state nor a verdict.
LEMMA RowEnds ==
  ASSUME Inv, NEW t \in Task,
         row'[t] # row[t] => row[t] = "open" /\ row'[t] = "closed",
         row[t] = "closed" => (code'[t] = "timeout" <=> code[t] = "timeout"),
         call'[t] = "none" <=> call[t] = "none"
  PROVE  \/ LifeOf(t)' = LifeOf(t)
         \/ LifeOf(t) = "working" /\ LifeOf(t)' \in {"finished", "timedOut"}
  BY DEF Inv, TypeOK, LifeOf

\* A step that ends any number of tasks, or none, is one of TaskLife.
LEMMA EndMaps ==
  ASSUME UNCHANGED <<retryOf, attempt>>,
         \A t \in Task : \/ LifeOf(t)' = LifeOf(t)
                         \/ LifeOf(t) = "working" /\ LifeOf(t)' \in {"finished", "timedOut"}
  PROVE  Table!Next
  <1> DEFINE done == {t \in Task : LifeOf(t) = "working" /\ LifeOf(t)' = "finished"}
             late == {t \in Task : LifeOf(t) = "working" /\ LifeOf(t)' = "timedOut"}
  <1>1. done \cup late \subseteq Table!Working /\ done \cap late = {}
    BY DEF Table!Working
  <1>2. \A t \in Task : LifeOf(t)' = IF t \in done THEN "finished"
                                     ELSE IF t \in late THEN "timedOut" ELSE LifeOf(t)
    OBVIOUS
  <1>3. Table!End(done, late)
    BY <1>1, <1>2 DEF Table!End
  <1>4. done \in SUBSET Task /\ late \in SUBSET Task
    OBVIOUS
  <1>5. QED
    BY <1>3, <1>4 DEF Table!Next

\* The rows that are open are the tasks at work.
LEMMA OpenWorks ==
  ASSUME Inv
  PROVE  Table!Working = Open /\ (Cardinality(Open) + 1 <= Slots => Cardinality(Open) < Slots)
  <1>1. Cardinality(Open) \in Nat
    BY SpawnAssumption, FS_Subset, FS_CardinalityType DEF Open
  <1>2. Table!Working = Open
    BY DEF Table!Working, Open, LifeOf
  <1>3. QED
    BY <1>1, <1>2, SpawnAssumption

\* A reservation enters one task.
LEMMA ReserveEnters ==
  ASSUME Inv, NEW t \in Task, NEW p \in Task \cup {Nobody}, Reserve(t, p)
  PROVE  Table!Enter(t)
  <1>1. /\ call[t] = "none" /\ row[t] = "absent" /\ Cardinality(Open) + 1 <= Slots
        /\ row' = [row EXCEPT ![t] = "open"] /\ call' = [call EXCEPT ![t] = "reserved"]
        /\ code' = code
    BY DEF Reserve, Inv, CallInv
  <1>2. LifeOf(t) = "unborn" /\ LifeOf(t)' = "working"
    BY <1>1 DEF LifeOf, Inv, TypeOK
  <1>3. \A u \in Task \ {t} : LifeOf(u)' = LifeOf(u)
    BY <1>1 DEF LifeOf, Inv, TypeOK
  <1>4. Table!Cardinality(Table!Working) < Slots
    <2>1. Table!Cardinality(Table!Working) = Cardinality(Table!Working)
      BY DEF Table!Cardinality, Cardinality
    <2>2. QED
      BY <1>1, <2>1, OpenWorks
  <1>5. QED
    <2>1. \A u \in Task : LifeOf(u)' = IF u = t THEN "working" ELSE LifeOf(u)
      BY <1>2, <1>3
    <2>2. QED
      BY <1>2, <1>4, <2>1 DEF Table!Enter

\* A task that was never spawned continues nothing, and no daemon waits for it.
Unused ==
  /\ \A t \in Task : call[t] = "none" => attempt[t] = 0
  /\ \A h \in Host : heir[h] # Nobody => call[heir[h]] # "none"

\* A call that was made is never forgotten.
LEMMA CallMade ==
  ASSUME Inv, [Next]_vars, NEW t \in Task, call[t] # "none"
  PROVE  call'[t] # "none"
  <1>1. ASSUME NEW u \in Task,
               \/ SpawnCall(u) \/ Launch(u) \/ LaunchFails(u) \/ Release(u) \/ RecordLaunch(u)
               \/ CallFails(u) \/ ChildExit(u) \/ WrapRecord(u) \/ WrapFails(u) \/ Expire(u)
               \/ ReapFinished(u) \/ CloseIdle(u) \/ ForceKill(u)
        PROVE  call'[t] # "none"
    BY <1>1 DEF Inv, TypeOK, SpawnCall, Reserve, Launch, LaunchFails, Release, RecordLaunch,
                CallFails, ChildExit, WrapRecord, WrapFails, Expire, ReapFinished, CloseIdle,
                ForceKill
  <1>2. ASSUME NEW h \in Host, Sweep(h) \/ SweepFails(h)
        PROVE  call'[t] # "none"
    BY <1>2 DEF Inv, TypeOK, Sweep, SweepStart, Visit, Terminate, CloseTimedOut, Commit,
                RetrySkip, RetryReserve, Reserve, RetryDone, SweepEnd, SweepFails
  <1>3. CASE UNCHANGED vars
    BY <1>3 DEF vars
  <1>4. QED
    BY <1>1, <1>2, <1>3 DEF Next

LEMMA UnusedStep ==
  ASSUME Inv, Unused, [Next]_vars
  PROVE  Unused'
  <1> USE DEF Unused
  <1>0. heir \in [Host -> Task \cup {Nobody}] /\ Nobody \notin Task
    BY SpawnAssumption DEF Inv, TypeOK
  <1>1. ASSUME attempt' = attempt, \A h \in Host : heir'[h] \in {heir[h], Nobody}
        PROVE  Unused'
    BY <1>0, <1>1, CallMade
  <1>2. ASSUME NEW t \in Task, NEW p \in Task \cup {Nobody}, Reserve(t, p),
               \A h \in Host : heir'[h] \in {heir[h], t}
        PROVE  Unused'
    <2>1. /\ attempt \in [Task -> Nat] /\ call \in [Task ->
               {"none", "reserved", "launched", "releasing", "over"}]
          /\ call' = [call EXCEPT ![t] = "reserved"]
          /\ \A u \in Task \ {t} : attempt'[u] = attempt[u]
      BY <1>2 DEF Inv, TypeOK, Reserve
    <2>2. \A u \in Task : call'[u] = "none" => attempt'[u] = 0
      BY <2>1
    <2>3. \A h \in Host : heir'[h] # Nobody => call'[heir'[h]] # "none"
      BY <1>0, <1>2, <2>1
    <2>4. QED
      BY <2>2, <2>3
  <1>3. ASSUME NEW t \in Task, SpawnCall(t)
        PROVE  Unused'
    BY <1>2, <1>3 DEF SpawnCall, sweepVars
  <1>4. ASSUME NEW h \in Host, NEW t \in Task, NEW n \in Task, RetryReserve(h, t, n)
        PROVE  Unused'
    <2>1. Reserve(n, t) /\ heir' = [heir EXCEPT ![h] = n]
      BY <1>4 DEF RetryReserve
    <2>2. QED
      BY <1>0, <1>2, <2>1
  <1>5. ASSUME NEW h \in Host,
               \/ SweepStart(h) \/ Visit(h) \/ Terminate(h) \/ CloseTimedOut(h) \/ Commit(h)
               \/ RetrySkip(h) \/ RetryDone(h) \/ SweepEnd(h) \/ SweepFails(h)
        PROVE  Unused'
    <2>1. attempt' = attempt /\ (heir' = heir \/ heir' = [heir EXCEPT ![h] = Nobody])
      BY <1>5 DEF SweepStart, Visit, Terminate, CloseTimedOut, Commit, RetrySkip, RetryDone,
                  SweepEnd, SweepFails, tableVars
    <2>2. QED
      BY <1>0, <1>1, <2>1
  <1>6. ASSUME NEW t \in Task,
               \/ Launch(t) \/ LaunchFails(t) \/ Release(t) \/ RecordLaunch(t) \/ CallFails(t)
               \/ ChildExit(t) \/ WrapRecord(t) \/ WrapFails(t) \/ Expire(t)
               \/ ReapFinished(t) \/ CloseIdle(t) \/ ForceKill(t)
        PROVE  Unused'
    <2>1. attempt' = attempt /\ heir' = heir
      BY <1>6 DEF Launch, LaunchFails, Release, RecordLaunch, CallFails, ChildExit, WrapRecord,
                  WrapFails, Expire, ReapFinished, CloseIdle, ForceKill, tableVars, sweepVars
    <2>2. QED
      BY <1>1, <2>1
  <1>7. CASE UNCHANGED vars
    BY <1>1, <1>7 DEF vars, tableVars, sweepVars
  <1>8. QED
    BY <1>3, <1>4, <1>5, <1>6, <1>7 DEF Next, Sweep

\* A step that touches neither the state of a row, nor a verdict, nor opens a
\* call ends nothing.
LEMMA ClosersMap ==
  ASSUME Inv, UNCHANGED <<retryOf, attempt>>,
         \A t \in Task :
           /\ row'[t] # row[t] => row[t] = "open" /\ row'[t] = "closed"
           /\ row[t] = "closed" => (code'[t] = "timeout" <=> code[t] = "timeout")
           /\ call'[t] = "none" <=> call[t] = "none"
  PROVE  Table!Next
  BY RowEnds, EndMaps

\* Steps of spawn calls, children and status readers.
LEMMA TaskStep ==
  ASSUME Inv, NEW t \in Task,
         \/ Launch(t) \/ LaunchFails(t) \/ RecordLaunch(t) \/ CallFails(t)
         \/ ChildExit(t) \/ WrapRecord(t) \/ WrapFails(t) \/ Expire(t)
         \/ ReapFinished(t) \/ CloseIdle(t) \/ ForceKill(t)
  PROVE  Table!Next
  <1>1. UNCHANGED <<retryOf, attempt>>
    BY DEF Launch, LaunchFails, RecordLaunch, CallFails, ChildExit, WrapRecord, WrapFails,
           Expire, ReapFinished, CloseIdle, ForceKill, tableVars
  <1>2. \A u \in Task : call'[u] = "none" <=> call[u] = "none"
    BY DEF Inv, TypeOK, Launch, LaunchFails, RecordLaunch, CallFails, ChildExit, WrapRecord,
           WrapFails, Expire, ReapFinished, CloseIdle, ForceKill
  <1>3. \A u \in Task : row'[u] # row[u] => row[u] = "open" /\ row'[u] = "closed"
    BY DEF Inv, TypeOK, Launch, LaunchFails, RecordLaunch, CallFails, ChildExit, WrapRecord,
           WrapFails, Expire, ReapFinished, CloseIdle, ForceKill, tableVars
  <1>4. \A u \in Task : row[u] = "closed" => (code'[u] = "timeout" <=> code[u] = "timeout")
    BY DEF Inv, TypeOK, EndedInv, Launch, LaunchFails, RecordLaunch, CallFails, ChildExit,
           WrapRecord, WrapFails, Expire, ReapFinished, CloseIdle, ForceKill, tableVars
  <1>5. QED
    BY <1>1, <1>2, <1>3, <1>4, ClosersMap

\* Steps of a sweep that start no child.
LEMMA SweepStep ==
  ASSUME Inv, Unused, NEW h \in Host,
         \/ SweepStart(h) \/ Visit(h) \/ Terminate(h) \/ CloseTimedOut(h) \/ Commit(h)
         \/ RetrySkip(h) \/ RetryDone(h) \/ SweepEnd(h) \/ SweepFails(h)
  PROVE  Table!Next
  <1>1. UNCHANGED <<retryOf, attempt>>
    BY DEF SweepStart, Visit, Terminate, CloseTimedOut, Commit, RetrySkip, RetryDone,
           SweepEnd, SweepFails, tableVars
  <1>2. \A u \in Task : call'[u] = "none" <=> call[u] = "none"
    <2>1. CASE SweepFails(h)
      BY <2>1 DEF Inv, TypeOK, SweepFails, Unused
    <2>2. CASE call' = call
      BY <2>2
    <2>3. QED
      BY <2>1, <2>2 DEF SweepStart, Visit, Terminate, CloseTimedOut, Commit, RetrySkip,
                        RetryDone, SweepEnd
  <1>3. CASE Commit(h) /\ writer = h
    <2>1. /\ row' = [t \in Task |-> IF \E e \in pending : e[1] = t THEN "closed" ELSE row[t]]
          /\ code' = [t \in Task |->
                       IF <<t, "timeout">> \in pending THEN "timeout" ELSE code[t]]
      BY <1>3 DEF Commit
    <2>2. \A e \in pending : row[e[1]] = "open"
      BY DEF Inv, EndedInv
    <2>3. \A u \in Task : <<u, "timeout">> \in pending => row[u] = "open"
      BY <2>2
    <2>4. \A u \in Task : /\ row'[u] # row[u] => row[u] = "open" /\ row'[u] = "closed"
                          /\ row[u] = "closed" => code'[u] = code[u]
      BY <2>1, <2>2, <2>3
    <2>5. QED
      BY <1>1, <1>2, <2>4, ClosersMap
  <1>4. CASE UNCHANGED <<row, code>>
    BY <1>1, <1>2, <1>4, ClosersMap
  <1>5. QED
    BY <1>3, <1>4 DEF SweepStart, Visit, Terminate, CloseTimedOut, Commit, RetrySkip,
                      RetryDone, SweepEnd, SweepFails, tableVars

\* Every step of the processes is a step of TaskLife or changes nothing there.
LEMMA LifeStep ==
  ASSUME Inv, Owed, Unused, [Next]_vars
  PROVE  Table!Next \/ UNCHANGED <<[t \in Task |-> LifeOf(t)], retryOf, attempt>>
  <1>1. ASSUME NEW t \in Task, SpawnCall(t)
        PROVE  Table!Next
    <2>1. Table!Enter(t)
      BY <1>1, ReserveEnters DEF SpawnCall
    <2>2. retryOf[t] = Nobody /\ attempt[t] = 0
      BY <1>1 DEF SpawnCall, Reserve, Inv, ClaimInv, Unused
    <2>3. retryOf' = retryOf /\ attempt' = attempt
      BY <1>1, <2>2 DEF SpawnCall, Reserve, Inv, TypeOK
    <2>4. QED
      BY <2>1, <2>3 DEF Table!Admit, Table!Next
  <1>2. ASSUME NEW h \in Host, NEW t \in Task, NEW n \in Task, RetryReserve(h, t, n)
        PROVE  Table!Next
    <2>1. /\ spc[h] = "retry" /\ t \in timedOut[h] /\ attempt[t] + 1 <= Limit /\ Reserve(n, t)
      BY <1>2 DEF RetryReserve
    <2>2. Table!Enter(n)
      BY <2>1, ReserveEnters
    <2>3. code[t] = "timeout" /\ row[t] = "closed"
      BY <2>1 DEF Owed, Judged, Inv, TypeOK, EndedInv
    <2>4. LifeOf(t) = "timedOut"
      BY <2>3 DEF LifeOf
    <2>5. \A m \in Task : retryOf[m] # t
      BY <2>1, SpawnAssumption DEF Inv, ClaimInv
    <2>6. attempt[t] < Limit
      BY <2>1, SpawnAssumption DEF Inv, TypeOK
    <2>7. /\ retryOf' = [retryOf EXCEPT ![n] = t]
          /\ attempt' = [attempt EXCEPT ![n] = attempt[t] + 1]
      BY <2>1, SpawnAssumption DEF Reserve
    <2>8. Table!Continue(t, n)
      BY <2>2, <2>4, <2>5, <2>6, <2>7 DEF Table!Continue
    <2>9. QED
      BY <2>8 DEF Table!Next
  <1>3. ASSUME NEW t \in Task, Release(t)
        PROVE  Table!Next
    <2>1. /\ row[t] = "open" /\ row' = [row EXCEPT ![t] = "absent"]
          /\ call[t] # "none" /\ call' = [call EXCEPT ![t] = "over"]
          /\ UNCHANGED <<code, retryOf, attempt>>
      BY <1>3 DEF Release, Inv, CallInv
    <2>2. LifeOf(t) = "working" /\ LifeOf(t)' = "discarded"
      BY <2>1 DEF LifeOf, Inv, TypeOK
    <2>3. \A u \in Task \ {t} : LifeOf(u)' = LifeOf(u)
      BY <2>1 DEF LifeOf, Inv, TypeOK
    <2>4. Table!Discard(t)
      BY <2>1, <2>2, <2>3 DEF Table!Discard
    <2>5. QED
      BY <2>4 DEF Table!Next
  <1>4. CASE UNCHANGED vars
    BY <1>4 DEF vars, tableVars, LifeOf
  <1>5. QED
    BY <1>1, <1>2, <1>3, <1>4, TaskStep, SweepStep DEF Next, Sweep

\* To the readers of the tasks table, the spawn calls, the wrappers, the
\* sweeps and all other closers of rows are the life cycle of TaskLife: no
\* task is admitted over the budget, ended twice, or continued unless it
\* timed out and nothing continues it yet.
THEOREM SpawnImplementsLife == Spec => ImplementsLife
  <1>1. Init => Table!Init /\ Owed /\ Unused
    BY DEF Init, Table!Init, LifeOf, Owed, Unused
  <1>2. Inv /\ Owed /\ Unused /\ [Next]_vars => Owed' /\ Unused'
    BY OwedStep, UnusedStep
  <1>3. Inv /\ Owed /\ Unused /\ [Next]_vars
          => [Table!Next]_<<[t \in Task |-> LifeOf(t)], retryOf, attempt>>
    BY LifeStep
  <1>4. QED
    BY <1>1, <1>2, <1>3, SpawnInvariance, PTL DEF Spec, ImplementsLife, Table!Spec
=============================================================================
