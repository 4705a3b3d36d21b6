---------------------------- MODULE MachineProofs ----------------------------
(***************************************************************************)
(* Proofs about the four components of one machine, each on its own and as *)
(* MCMachine runs them, for any paths, keys, observations, children,       *)
(* processes, servers and numbers of faults.                               *)
(***************************************************************************)
EXTENDS MCMachine, FiniteSetTheorems, TLAPS

(* Keys. *)

\* What the running command relies on.  Nobody else touches its database.
KeyPhase ==
  /\ cmd.at # "idle" => cmd.db \in Path /\ cmd.key # NoKey
  /\ cmd.at \in {"create", "discard"} => file[cmd.db] = NoKey
  /\ cmd.at = "create" => primary[cmd.db] = cmd.key
  /\ cmd.at \in {"reencrypt", "install"} => pending[cmd.db] = cmd.key
  /\ cmd.at = "install" => file[cmd.db] = cmd.key
  /\ cmd.at = "forget" => primary[cmd.db] = cmd.key /\ file[cmd.db] = cmd.key

KeyInv == KeyTypeOK /\ KeyPhase /\ KeyOpens

\* Every command keeps the types: a generated key is a new number.
LEMMA KeyTypeStep ==
  ASSUME KeyInv, [KeyNext]_keyVars
  PROVE  KeyTypeOK'
  <1> USE KeyAssumption DEF NoKey, Idle
  <1>0. /\ file \in [Path -> 0..made] /\ primary \in [Path -> 0..made] /\ pending \in [Path -> 0..made]
        /\ made \in Nat /\ cmd.key \in 0..made
        /\ cmd \in [at : {"idle", "create", "discard", "reencrypt", "install", "forget"},
                    db : Path \cup {NoKey}, key : 0..made]
    BY DEF KeyInv, KeyTypeOK
  <1>1. ASSUME NEW where \in {"idle", "create", "discard", "reencrypt", "install", "forget"},
               GoTo(where), UNCHANGED made
        PROVE  cmd' \in [at : {"idle", "create", "discard", "reencrypt", "install", "forget"},
                         db : Path \cup {NoKey}, key : 0..made']
    BY <1>0, <1>1 DEF GoTo
  <1>2. ASSUME NEW d \in Path, InitKey(d) \/ Announce(d) PROVE KeyTypeOK'
    <2>1. made' = made + 1 /\ 0..made \subseteq 0..made' /\ made' \in 0..made' /\ made' \in Nat
      BY <1>0, <1>2 DEF InitKey, Announce, Generate
    <2>2. /\ file' \in [Path -> 0..made'] /\ primary' \in [Path -> 0..made']
          /\ pending' \in [Path -> 0..made']
      BY <1>0, <1>2, <2>1 DEF InitKey, Announce
    <2>3. cmd' \in [at : {"idle", "create", "discard", "reencrypt", "install", "forget"},
                    db : Path \cup {NoKey}, key : 0..made']
      BY <1>2, <2>1 DEF InitKey, Announce, Begin
    <2>4. QED
      BY <2>1, <2>2, <2>3 DEF KeyTypeOK
  <1>3. ASSUME NEW d \in Path,
               \/ Create(d) \/ CreateFails(d) \/ Discard(d) \/ Reencrypt(d) \/ Install(d) \/ Forget(d)
        PROVE  KeyTypeOK'
    <2>1. UNCHANGED made /\ \E where \in {"idle", "discard", "install", "forget"} : GoTo(where)
      BY <1>3 DEF Create, CreateFails, Discard, Reencrypt, Install, Forget
    <2>2. /\ file' \in [Path -> 0..made] /\ primary' \in [Path -> 0..made]
          /\ pending' \in [Path -> 0..made]
      BY <1>0, <1>3 DEF Create, CreateFails, Discard, Reencrypt, Install, Forget
    <2>3. QED
      BY <1>0, <1>1, <2>1, <2>2 DEF KeyTypeOK
  <1>4. ASSUME NEW d \in Path, Recover(d) PROVE KeyTypeOK'
    <2>1. PICK k \in Candidates(d) : /\ primary' = [primary EXCEPT ![d] = k]
                                     /\ Begin("forget", d, k)
      BY <1>4 DEF Recover
    <2>2. k \in 0..made /\ UNCHANGED <<file, pending, made>>
      BY <1>0, <1>4, <2>1 DEF Candidates, Recover
    <2>3. QED
      BY <1>0, <2>1, <2>2 DEF KeyTypeOK, Begin
  <1>5. ASSUME NEW d \in Path, Remove(d) PROVE KeyTypeOK'
    BY <1>0, <1>5 DEF Remove, KeyTypeOK
  <1>6. ASSUME NEW s \in Path, NEW d \in Path, Replace(s, d) PROVE KeyTypeOK'
    BY <1>0, <1>6 DEF Replace, KeyTypeOK
  <1>7. CASE Break
    BY <1>0, <1>1, <1>7 DEF Break, KeyTypeOK
  <1>8. CASE UNCHANGED keyVars
    BY <1>8 DEF keyVars, KeyInv, KeyTypeOK
  <1>9. QED
    BY <1>2, <1>3, <1>4, <1>5, <1>6, <1>7, <1>8 DEF KeyNext

\* No call, in any order and whatever fails, loses the key of a file.
LEMMA KeyStep ==
  ASSUME KeyInv, [KeyNext]_keyVars
  PROVE  KeyPhase' /\ KeyOpens'
  <1>0. /\ file \in [Path -> 0..made] /\ primary \in [Path -> 0..made] /\ pending \in [Path -> 0..made]
        /\ made \in Nat /\ KeyPhase /\ KeyOpens
        /\ cmd \in [at : {"idle", "create", "discard", "reencrypt", "install", "forget"},
                    db : Path \cup {NoKey}, key : 0..made]
    BY DEF KeyInv, KeyTypeOK
  <1> USE DEF NoKey, Idle
  <1>1. ASSUME NEW d \in Path, InitKey(d) PROVE KeyPhase' /\ KeyOpens'
    BY <1>0, <1>1 DEF InitKey, Generate, Begin, KeyPhase, KeyOpens
  <1>2. ASSUME NEW d \in Path, Create(d) PROVE KeyPhase' /\ KeyOpens'
    BY <1>0, <1>2 DEF Create, At, GoTo, KeyPhase, KeyOpens
  <1>3. ASSUME NEW d \in Path, CreateFails(d) PROVE KeyPhase' /\ KeyOpens'
    BY <1>0, <1>3 DEF CreateFails, At, GoTo, KeyPhase, KeyOpens
  <1>4. ASSUME NEW d \in Path, Discard(d) PROVE KeyPhase' /\ KeyOpens'
    BY <1>0, <1>4 DEF Discard, At, GoTo, KeyPhase, KeyOpens
  <1>5. ASSUME NEW d \in Path, Announce(d) PROVE KeyPhase' /\ KeyOpens'
    BY <1>0, <1>5 DEF Announce, Generate, Begin, KeyPhase, KeyOpens
  <1>6. ASSUME NEW d \in Path, Reencrypt(d) PROVE KeyPhase' /\ KeyOpens'
    BY <1>0, <1>6 DEF Reencrypt, At, GoTo, KeyPhase, KeyOpens
  <1>7. ASSUME NEW d \in Path, Install(d) PROVE KeyPhase' /\ KeyOpens'
    BY <1>0, <1>7 DEF Install, At, GoTo, KeyPhase, KeyOpens
  <1>8. ASSUME NEW d \in Path, Forget(d) PROVE KeyPhase' /\ KeyOpens'
    BY <1>0, <1>8 DEF Forget, At, GoTo, KeyPhase, KeyOpens
  <1>9. ASSUME NEW d \in Path, Recover(d) PROVE KeyPhase' /\ KeyOpens'
    BY <1>0, <1>9 DEF Recover, Candidates, Begin, KeyPhase, KeyOpens
  <1>10. ASSUME NEW d \in Path, Remove(d) PROVE KeyPhase' /\ KeyOpens'
    BY <1>0, <1>10 DEF Remove, KeyPhase, KeyOpens
  <1>11. ASSUME NEW s \in Path, NEW d \in Path, Replace(s, d) PROVE KeyPhase' /\ KeyOpens'
    BY <1>0, <1>11 DEF Replace, KeyPhase, KeyOpens
  <1>12. CASE Break
    BY <1>0, <1>12 DEF Break, GoTo, KeyPhase, KeyOpens
  <1>13. CASE UNCHANGED keyVars
    BY <1>0, <1>13 DEF keyVars, KeyPhase, KeyOpens
  <1>14. QED
    BY <1>1, <1>2, <1>3, <1>4, <1>5, <1>6, <1>7, <1>8, <1>9, <1>10, <1>11, <1>12, <1>13 DEF KeyNext

LEMMA KeyStart == KeyInit => KeyInv
  BY KeyAssumption DEF KeyInit, KeyInv, KeyTypeOK, KeyPhase, KeyOpens, Idle, NoKey

\* After any commands, failures and deaths a stored key opens every file, and
\* without a pending key it is the one that a starting program tries.
THEOREM KeysOpenFiles == KeySpec => []KeyOpens
  <1>1. KeyInit => KeyInv
    BY KeyStart
  <1>2. KeyInv /\ [KeyNext]_keyVars => KeyInv'
    BY KeyTypeStep, KeyStep DEF KeyInv
  <1>3. KeyInv => KeyOpens
    BY DEF KeyInv
  <1>4. QED
    BY <1>1, <1>2, <1>3, PTL DEF KeySpec

-----------------------------------------------------------------------------
(* The election. *)

\* Types are kept and there is one host: whoever holds the lock keeps it until
\* its process ends.
LEMMA HostStepKeeps ==
  ASSUME HostTypeOK, [HostNext]_hostVars
  PROVE  HostTypeOK'
  <1> USE HostAssumption DEF HostTypeOK, Holds
  <1>g. ASSUME NEW h, NEW orderly \in BOOLEAN, Gone(h, orderly)
        PROVE  /\ stage' \in [HostProc -> {"gone", "boot", "won", "run"}]
               /\ stuck' \subseteq HostProc /\ starved' \subseteq HostProc /\ aged' \subseteq HostProc
               /\ pidfile' \in HostProc \cup {Nobody}
               /\ \A f \in HostProc : Holds(f)' => Holds(f)
    BY <1>g DEF Gone
  <1>1. ASSUME NEW h \in HostProc, Elect(h) PROVE HostTypeOK'
    BY <1>1 DEF Elect, Elected
  <1>2. ASSUME NEW h \in HostProc, Register(h) PROVE HostTypeOK'
    BY <1>2 DEF Register, HostFault
  <1>3. ASSUME NEW h \in HostProc, HostBeat(h) PROVE HostTypeOK'
    BY <1>3 DEF HostBeat
  <1>4. ASSUME NEW h \in HostProc, GiveUpHost(h) PROVE HostTypeOK'
    BY <1>4, <1>g DEF GiveUpHost
  <1>5. ASSUME NEW h \in HostProc, Fail(h) PROVE HostTypeOK'
    <2>1. hostFaults' \in Nat /\ UNCHANGED <<beat, doing, saw>>
      BY <1>5 DEF Fail, HostFault
    <2>2. CASE Gone(h, FALSE)
      BY <1>g, <2>1, <2>2
    <2>3. CASE UNCHANGED <<stage, pidfile, aged>> /\ stuck' \subseteq HostProc /\ starved' \subseteq HostProc
      BY <2>1, <2>3
    <2>4. QED
      BY <1>5, <2>2, <2>3 DEF Fail
  <1>6. ASSUME NEW h \in HostProc, Mature(h) PROVE HostTypeOK'
    BY <1>6 DEF Mature
  <1>7. ASSUME NEW s \in Server, Ask(s) \/ Look(s) \/ Compare(s) \/ Clear(s) \/ Leave(s)
        PROVE  HostTypeOK'
    <2>1. \E where \in {"idle", "look", "term", "kill", "compare", "clear", "spawn"} : Turn(s, where)
      BY <1>7 DEF Ask, Look, Compare, Clear, Leave
    <2>2. UNCHANGED <<stage, stuck, starved, aged, beat>> /\ hostFaults' \in Nat
      BY <1>7 DEF Ask, Look, Compare, Clear, Leave, HostFault
    <2>3. pidfile' \in HostProc \cup {Nobody} /\ saw' \in [Server -> HostProc \cup {Nobody}]
      BY <1>7 DEF Ask, Look, Compare, Clear, Leave
    <2>4. doing' \in [Server -> {"idle", "look", "term", "kill", "compare", "clear", "spawn"}]
      BY <2>1 DEF Turn
    <2>5. QED
      BY <2>2, <2>3, <2>4
  <1>8. ASSUME NEW s \in Server, SpawnHost(s) PROVE HostTypeOK'
    BY <1>8 DEF SpawnHost, Turn, Alive
  <1>9. CASE Silence
    BY <1>9 DEF Silence
  <1>10. CASE UNCHANGED hostVars
    BY <1>10 DEF hostVars
  <1>11. ASSUME NEW s \in Server, Terminate(s) PROVE HostTypeOK'
    <2>1. UNCHANGED <<beat, saw, hostFaults>>
          /\ \E where \in {"spawn", "compare", "kill"} : Turn(s, where)
      BY <1>11 DEF Terminate
    <2>2. UNCHANGED <<stage, stuck, starved, pidfile, aged>> \/ Gone(saw[s], saw[s] \notin stuck)
      BY <1>11 DEF Terminate
    <2>3. doing' \in [Server -> {"idle", "look", "term", "kill", "compare", "clear", "spawn"}]
      BY <2>1 DEF Turn
    <2>4. CASE UNCHANGED <<stage, stuck, starved, pidfile, aged>>
      BY <2>1, <2>3, <2>4
    <2>5. CASE Gone(saw[s], saw[s] \notin stuck)
      BY <1>g, <2>1, <2>3, <2>5
    <2>6. QED
      BY <2>2, <2>4, <2>5
  <1>12. ASSUME NEW s \in Server, Kill(s) PROVE HostTypeOK'
    <2>1. UNCHANGED <<beat, saw, hostFaults>>
          /\ \E where \in {"idle", "compare"} : Turn(s, where)
      BY <1>12 DEF Kill
    <2>2. UNCHANGED <<stage, stuck, starved, pidfile, aged>> \/ Gone(saw[s], FALSE)
      BY <1>12 DEF Kill, Killed
    <2>3. doing' \in [Server -> {"idle", "look", "term", "kill", "compare", "clear", "spawn"}]
      BY <2>1 DEF Turn
    <2>4. CASE UNCHANGED <<stage, stuck, starved, pidfile, aged>>
      BY <2>1, <2>3, <2>4
    <2>5. CASE Gone(saw[s], FALSE)
      BY <1>g, <2>1, <2>3, <2>5
    <2>6. QED
      BY <2>2, <2>4, <2>5
  <1>13. QED
    BY <1>1, <1>2, <1>3, <1>4, <1>5, <1>6, <1>7, <1>8, <1>9, <1>10, <1>11, <1>12
       DEF HostNext, HostStep, Ensure

LEMMA HostStart == HostInit => HostTypeOK
  BY HostAssumption DEF HostInit, HostTypeOK, Holds

\* However many servers spawn hosts, whichever die or hang: one host at most
\* holds the lock and runs the loops.
THEOREM OneHost == HostSpec => []HostTypeOK
  <1>1. HostInit => HostTypeOK
    BY HostStart
  <1>2. HostTypeOK /\ [HostNext]_hostVars => HostTypeOK'
    BY HostStepKeeps
  <1>3. QED
    BY <1>1, <1>2, PTL DEF HostSpec

-----------------------------------------------------------------------------
(* Leases. *)

Inside == {"stale", "poison", "collect", "claim", "spawn"}

\* The lock admits one pass, and while it is in there no child of a pass runs.
Exclusive ==
  /\ \A p, q \in Passer : at[p] \in Inside /\ at[q] \in Inside => p = q
  /\ \A p \in Passer : at[p] \in Inside => Running = {}
  /\ \A s, t \in Running : s = t

\* A claim is made for a child that has not been started.
Fresh ==
  /\ \A p \in Passer : at[p] = "spawn" => naming[p] \in Validator /\ task[naming[p]] = "none"
  /\ \A t \in Validator : task[t] = "none" => prompt[t] = {} /\ attempt[t] = 0

\* The children that passes gave o.
Readers(o) == {t \in Own : o \in prompt[t]}

\* While o is to do, all but the last of them were paid for with a requeue, and
\* the last one too once its claim is gone.
Paid ==
  \A o \in Obs :
    /\ IsFiniteSet(Readers(o))
    /\ o \notin resolved =>
         Cardinality(Readers(o)) <= requeues[o] + IF claimant[o] = Unclaimed THEN 0 ELSE 1
    /\ \A p \in Passer : o \notin resolved /\ at[p] = "spawn" /\ o \in picked[p] =>
         Cardinality(Readers(o)) + (IF claimant[o] = naming[p] THEN 0 ELSE 1) <= requeues[o]

\* A batch has been read below the limit, which only a start can change.
Below ==
  \A o \in Obs :
    /\ Cardinality(Readers(o)) <= MaxRequeues + slipped[o]
    /\ \A p \in Passer : at[p] \in {"claim", "spawn"} /\ o \in picked[p] =>
         Cardinality(Readers(o)) < MaxRequeues + slipped[o]

LeaseInv == LeaseTypeOK /\ Exclusive /\ Fresh /\ Paid /\ Below

LEMMA RequeueType ==
  ASSUME LeaseTypeOK, NEW ids, Requeue(ids)
  PROVE  /\ claimant' \in [Obs -> Validator \cup {Unclaimed}] /\ late' \subseteq Obs
         /\ requeues' \in [Obs -> Nat]
         /\ \A o \in Obs :
              IF o \in ids THEN claimant'[o] = Unclaimed /\ requeues'[o] = requeues[o] + 1
                           ELSE claimant'[o] = claimant[o] /\ requeues'[o] = requeues[o]
  BY DEF LeaseTypeOK, Requeue

LEMMA MoveType ==
  ASSUME LeaseTypeOK, NEW p \in Passer, NEW ids \in SUBSET Obs,
         NEW where \in {"idle", "release", "try"} \cup Inside, Move(p, where, ids)
  PROVE  /\ at' \in [Passer -> {"idle", "release", "try", "stale", "poison", "collect", "claim", "spawn"}]
         /\ picked' \in [Passer -> SUBSET Obs]
         /\ at'[p] = where /\ picked'[p] = ids
         /\ \A q \in Passer \ {p} : at'[q] = at[q] /\ picked'[q] = picked[q]
  BY DEF LeaseTypeOK, Move, Inside

LEMMA LeaseTypeStep ==
  ASSUME LeaseTypeOK, Fresh, [LeaseNext]_leaseVars
  PROVE  LeaseTypeOK'
  <1> USE LeaseAssumption DEF LeaseTypeOK
  <1>f. LeaseFault => leaseFaults' \in Nat
    BY DEF LeaseFault
  <1>1. ASSUME NEW p \in Passer, ReadFinished(p) PROVE LeaseTypeOK'
    <2>1. UNCHANGED <<rows, children, slipped, naming, leaseFaults>>
          /\ \E ids \in SUBSET Obs : Move(p, "release", ids)
      BY <1>1 DEF ReadFinished
    <2>2. QED
      BY <2>1, MoveType DEF rows, children
  <1>2. ASSUME NEW p \in Passer, ReleaseFinished(p) PROVE LeaseTypeOK'
    <2>1. leaseFaults' \in Nat
      BY <1>2, <1>f DEF ReleaseFinished
    <2>2. QED
      BY <1>2, <2>1, MoveType, RequeueType DEF ReleaseFinished, children
  <1>3. ASSUME NEW p \in Passer, TryLock(p) PROVE LeaseTypeOK'
    <2>1. UNCHANGED <<rows, prompt, attempt, slipped, naming, leaseFaults>>
          /\ \E ids \in SUBSET Obs, where \in {"idle"} \cup Inside : Move(p, where, ids)
      BY <1>3 DEF TryLock, Overdue, Inside
    <2>2. task' \in [Validator -> {"none", "open", "gone", "due", "ended"}]
      BY <1>3 DEF TryLock
    <2>3. QED
      BY <2>1, <2>2, MoveType DEF rows
  <1>4. ASSUME NEW p \in Passer, ReleaseStale(p) PROVE LeaseTypeOK'
    BY <1>4, MoveType, RequeueType DEF ReleaseStale, Inside, children
  <1>5. ASSUME NEW p \in Passer, SkipPoison(p) PROVE LeaseTypeOK'
    <2>1. UNCHANGED <<claimant, late, requeues, children, slipped, naming, leaseFaults>>
          /\ Move(p, "collect", {})
      BY <1>5 DEF SkipPoison
    <2>2. resolved' \subseteq Obs
      BY <1>5 DEF SkipPoison, Pending
    <2>3. QED
      BY <2>1, <2>2, MoveType DEF Inside, children
  <1>6. ASSUME NEW p \in Passer, Collect(p) PROVE LeaseTypeOK'
    <2>1. UNCHANGED <<rows, children, naming, leaseFaults>>
          /\ \E ids \in SUBSET Obs, where \in {"idle"} \cup Inside : Move(p, where, ids)
      BY <1>6 DEF Collect, Pending, Inside
    <2>2. slipped' \in [Obs -> Nat]
      BY <1>6 DEF Collect
    <2>3. QED
      BY <2>1, <2>2, MoveType DEF rows, children
  <1>7. ASSUME NEW p \in Passer, Claim(p) PROVE LeaseTypeOK'
    <2>1. UNCHANGED <<resolved, late, requeues, children, slipped, leaseFaults>>
          /\ \E ids \in SUBSET Obs, where \in {"idle"} \cup Inside : Move(p, where, ids)
      BY <1>7 DEF Claim, Inside, Pending
    <2>2. Unused # {} => (CHOOSE t \in Unused : TRUE) \in Validator
      BY DEF Unused
    <2>3. claimant' \in [Obs -> Validator \cup {Unclaimed}] /\ naming' \in [Passer -> Validator \cup {Unclaimed}]
      BY <1>7, <2>2 DEF Claim
    <2>4. QED
      BY <2>1, <2>3, MoveType DEF children
  <1>8. ASSUME NEW p \in Passer, SpawnValidator(p) PROVE LeaseTypeOK'
    <2>1. UNCHANGED <<resolved, requeues, attempt, slipped>> /\ Move(p, "idle", {})
      BY <1>8 DEF SpawnValidator
    <2>2. /\ task' \in [Validator -> {"none", "open", "gone", "due", "ended"}]
          /\ prompt' \in [Validator -> SUBSET Obs] /\ late' \subseteq Obs
          /\ leaseFaults' \in Nat
      BY <1>8, <1>f DEF SpawnValidator
    <2>3. claimant' \in [Obs -> Validator \cup {Unclaimed}] /\ naming' \in [Passer -> Validator \cup {Unclaimed}]
      BY <1>8 DEF SpawnValidator
    <2>4. QED
      BY <2>1, <2>2, <2>3, MoveType
  <1>9. ASSUME NEW p \in Passer, PasserDies(p) PROVE LeaseTypeOK'
    <2>1. naming' \in [Passer -> Validator \cup {Unclaimed}]
      BY <1>9 DEF PasserDies
    <2>2. QED
      BY <1>9, <1>f, <2>1, MoveType DEF PasserDies, rows, children
  <1>10. ASSUME NEW o \in Obs, Resolve(o) PROVE LeaseTypeOK'
    <2>1. leaseFaults' \in Nat /\ UNCHANGED <<requeues, children, slipped, at, picked, naming>>
      BY <1>10, <1>f DEF Resolve
    <2>2. resolved' \subseteq Obs /\ late' \subseteq Obs
          /\ claimant' \in [Obs -> Validator \cup {Unclaimed}]
      BY <1>10 DEF Resolve
    <2>3. QED
      BY <2>1, <2>2 DEF children
  <1>11. ASSUME NEW t \in Validator, EndValidator(t) PROVE LeaseTypeOK'
    BY <1>11 DEF EndValidator, rows
  <1>12. ASSUME NEW t \in Validator, TimeOutValidator(t) PROVE LeaseTypeOK'
    <2>1. leaseFaults' \in Nat /\ UNCHANGED <<rows, prompt, attempt, slipped, at, picked, naming>>
      BY <1>12, <1>f DEF TimeOutValidator
    <2>2. task' \in [Validator -> {"none", "open", "gone", "due", "ended"}]
      BY <1>12 DEF TimeOutValidator
    <2>3. QED
      BY <2>1, <2>2 DEF rows
  <1>13. ASSUME NEW t \in Validator, Restart(t) PROVE LeaseTypeOK'
    <2> DEFINE u == CHOOSE u \in Unused : TRUE
    <2>1. u \in Validator
      BY <1>13 DEF Restart, Unused
    <2>2. /\ task' = [task EXCEPT ![t] = "ended", ![u] = "open"]
          /\ prompt' = [prompt EXCEPT ![u] = prompt[t]]
          /\ attempt' = [attempt EXCEPT ![u] = attempt[t] + 1]
          /\ UNCHANGED <<rows, slipped, at, picked, naming, leaseFaults>>
      BY <1>13 DEF Restart
    <2> HIDE DEF u
    <2>3. QED
      BY <2>1, <2>2 DEF rows
  <1>14. ASSUME NEW o \in Obs, Lapse(o) PROVE LeaseTypeOK'
    BY <1>14 DEF Lapse, children
  <1>15. CASE UNCHANGED leaseVars
    BY <1>15 DEF leaseVars, rows, children
  <1>16. QED
    BY <1>1, <1>2, <1>3, <1>4, <1>5, <1>6, <1>7, <1>8, <1>9, <1>10, <1>11, <1>12, <1>13, <1>14, <1>15
       DEF LeaseNext, PassStep

\* A restart gives the assignment to a continuation, under an unused id.
LEMMA RestartStep ==
  ASSUME LeaseTypeOK, NEW t \in Validator, Restart(t)
  PROVE  /\ UNCHANGED <<rows, slipped, at, picked, naming>>
         /\ \E u \in Validator :
              /\ task[u] = "none" /\ \A p \in Passer : naming[p] # u
              /\ task'[u] = "open" /\ attempt'[u] # 0
              /\ \A s \in Validator \ {u} :
                   /\ prompt'[s] = prompt[s] /\ attempt'[s] = attempt[s]
                   /\ task'[s] = task[s] \/ (task[s] = "due" /\ task'[s] = "ended")
  <1> DEFINE u == CHOOSE u \in Unused : TRUE
  <1>1. u \in Unused
    BY DEF Restart
  <1>2. /\ task[t] = "due" /\ task' = [task EXCEPT ![t] = "ended", ![u] = "open"]
        /\ prompt' = [prompt EXCEPT ![u] = prompt[t]]
        /\ attempt' = [attempt EXCEPT ![u] = attempt[t] + 1]
        /\ UNCHANGED <<rows, slipped, at, picked, naming, leaseFaults>>
    BY DEF Restart
  <1> HIDE DEF u
  <1>3. u \in Validator /\ task[u] = "none" /\ \A p \in Passer : naming[p] # u
    BY <1>1 DEF Unused
  <1>4. task'[u] = "open" /\ attempt'[u] # 0
    BY <1>2, <1>3 DEF LeaseTypeOK
  <1>5. \A s \in Validator \ {u} :
          /\ prompt'[s] = prompt[s] /\ attempt'[s] = attempt[s]
          /\ task'[s] = task[s] \/ (task[s] = "due" /\ task'[s] = "ended")
    BY <1>2, <1>3 DEF LeaseTypeOK
  <1>6. QED
    BY <1>2, <1>3, <1>4, <1>5

\* A pass takes the lock when nobody has it and no child runs; a child starts
\* when no other does, at the end of a pass.
LEMMA ExclusiveStep ==
  ASSUME LeaseTypeOK, Exclusive, Fresh, [LeaseNext]_leaseVars
  PROVE  Exclusive' /\ Fresh'
  <1> USE DEF LeaseTypeOK
  <1>a. ASSUME \A p \in Passer : at'[p] \in Inside => at[p] \in Inside, Running' \subseteq Running
        PROVE  Exclusive'
    BY <1>a DEF Exclusive
  <1>b. ASSUME \A p \in Passer : at'[p] = "spawn" => at[p] = "spawn" /\ naming'[p] = naming[p],
               \A t \in Validator : task'[t] = "none" <=> task[t] = "none",
               UNCHANGED <<prompt, attempt>>
        PROVE  Fresh'
    BY <1>b DEF Fresh
  <1>1. ASSUME NEW p \in Passer, ReadFinished(p) \/ ReleaseFinished(p) PROVE Exclusive' /\ Fresh'
    <2>1. UNCHANGED <<children, naming>> /\ at' = [at EXCEPT ![p] = at'[p]] /\ at'[p] \in {"release", "try"}
      BY <1>1 DEF ReadFinished, ReleaseFinished, Move
    <2>2. QED
      BY <1>a, <1>b, <2>1 DEF Inside, Running, Own, children
  <1>2. ASSUME NEW p \in Passer, TryLock(p) PROVE Exclusive' /\ Fresh'
    <2>1. UNCHANGED <<prompt, attempt, naming>> /\ \A q \in Passer \ {p} : at'[q] = at[q]
      BY <1>2 DEF TryLock, Move
    <2>2. \A t \in Validator : (task'[t] = "open" <=> task[t] = "open") /\ (task'[t] = "none" <=> task[t] = "none")
      BY <1>2 DEF TryLock
    <2>3. at'[p] \in {"idle", "stale"}
          /\ (at'[p] = "stale" => Running = {} /\ \A q \in Passer : at[q] \notin Inside)
      BY <1>2 DEF TryLock, Move, PassLocked, Inside
    <2>4. Fresh'
      BY <1>b, <2>1, <2>2, <2>3
    <2>5. Running' = Running
      BY <2>1, <2>2 DEF Running, Own
    <2>6. Exclusive'
      BY <2>1, <2>3, <2>5 DEF Exclusive, Inside
    <2>7. QED
      BY <2>4, <2>6
  <1>3. ASSUME NEW p \in Passer, ReleaseStale(p) \/ SkipPoison(p) \/ Collect(p) \/ PasserDies(p)
        PROVE  Exclusive' /\ Fresh'
    <2>1. UNCHANGED children /\ \A q \in Passer \ {p} : at'[q] = at[q] /\ naming'[q] = naming[q]
      BY <1>3 DEF ReleaseStale, SkipPoison, Collect, PasserDies, Move
    <2>2. at'[p] \in {"idle", "poison", "collect", "claim"} /\ (at'[p] # "idle" => at[p] \in Inside)
      BY <1>3 DEF ReleaseStale, SkipPoison, Collect, PasserDies, Move, Inside
    <2>3. QED
      BY <1>a, <1>b, <2>1, <2>2 DEF Inside, Running, Own, children
  <1>4. ASSUME NEW p \in Passer, Claim(p) PROVE Exclusive' /\ Fresh'
    <2>1. UNCHANGED children /\ \A q \in Passer \ {p} : at'[q] = at[q] /\ naming'[q] = naming[q]
      BY <1>4 DEF Claim, Move
    <2>2. at[p] = "claim" /\ at'[p] \in {"idle", "spawn"}
      BY <1>4 DEF Claim, Move
    <2>3. at'[p] = "spawn" => naming'[p] \in Unused
      BY <1>4 DEF Claim, Move
    <2>4. Exclusive'
      BY <1>a, <2>1, <2>2 DEF Inside, Running, Own, children
    <2>5. Fresh'
      BY <2>1, <2>3 DEF Fresh, Unused, children
    <2>6. QED
      BY <2>4, <2>5
  <1>5. ASSUME NEW p \in Passer, SpawnValidator(p) PROVE Exclusive' /\ Fresh'
    <2>1. /\ at[p] = "spawn" /\ at'[p] = "idle" /\ UNCHANGED attempt
          /\ \A q \in Passer \ {p} : at'[q] = at[q] /\ naming'[q] = naming[q]
      BY <1>5 DEF SpawnValidator, Move
    <2>2. naming[p] \in Validator /\ Running = {} /\ \A q \in Passer \ {p} : at[q] \notin Inside
      BY <2>1 DEF Exclusive, Fresh, Inside
    <2>3. \A t \in Validator : t # naming[p] => task'[t] = task[t] /\ prompt'[t] = prompt[t]
      BY <1>5, <2>2 DEF SpawnValidator
    <2>4. Running' \subseteq {naming[p]}
      BY <2>1, <2>2, <2>3 DEF Running, Own
    <2>5. Exclusive'
      BY <2>1, <2>2, <2>4 DEF Exclusive, Inside
    <2>6. task'[naming[p]] = "open" \/ UNCHANGED <<task, prompt>>
      BY <1>5, <2>2 DEF SpawnValidator
    <2>7. Fresh'
      BY <2>1, <2>2, <2>3, <2>6 DEF Fresh, Inside
    <2>8. QED
      BY <2>5, <2>7
  <1>6. ASSUME NEW t \in Validator, EndValidator(t) \/ TimeOutValidator(t) PROVE Exclusive' /\ Fresh'
    <2>1. UNCHANGED <<at, naming, prompt, attempt>>
      BY <1>6 DEF EndValidator, TimeOutValidator
    <2>2. \A s \in Validator : (task'[s] = "open" => task[s] = "open") /\ (task'[s] = "none" <=> task[s] = "none")
      BY <1>6 DEF EndValidator, TimeOutValidator
    <2>3. QED
      BY <1>a, <1>b, <2>1, <2>2 DEF Running, Own
  <1>7. ASSUME NEW t \in Validator, Restart(t) PROVE Exclusive' /\ Fresh'
    <2>1. UNCHANGED <<at, naming>>
      BY <1>7, RestartStep
    <2>2. PICK u \in Validator :
            /\ task[u] = "none" /\ \A p \in Passer : naming[p] # u
            /\ task'[u] = "open" /\ attempt'[u] # 0
            /\ \A s \in Validator \ {u} :
                 /\ prompt'[s] = prompt[s] /\ attempt'[s] = attempt[s]
                 /\ task'[s] = task[s] \/ (task[s] = "due" /\ task'[s] = "ended")
      BY <1>7, RestartStep
    <2>3. Running' \subseteq Running
      BY <2>2 DEF Running, Own
    <2>4. Exclusive'
      BY <1>a, <2>1, <2>3
    <2>5. Fresh'
      BY <2>1, <2>2 DEF Fresh
    <2>6. QED
      BY <2>4, <2>5
  <1>8. CASE (\E o \in Obs : Resolve(o) \/ Lapse(o)) \/ UNCHANGED leaseVars
    <2>1. UNCHANGED <<children, at, naming>>
      BY <1>8 DEF Resolve, Lapse, leaseVars
    <2>2. QED
      BY <1>a, <1>b, <2>1 DEF Running, Own, children
  <1>9. QED
    BY <1>1, <1>2, <1>3, <1>4, <1>5, <1>6, <1>7, <1>8 DEF LeaseNext, PassStep

\* No pass starts a child, and every claim that goes is paid for.
LEMMA PaidKept ==
  ASSUME LeaseInv, UNCHANGED <<prompt, attempt>>, resolved \subseteq resolved', requeues' \in [Obs -> Nat],
         \A o \in Obs : requeues'[o] >= requeues[o],
         \A o \in Obs : claimant'[o] # claimant[o] => requeues'[o] > requeues[o] \/ o \in resolved',
         \A p \in Passer : at'[p] = "spawn" =>
           at[p] = "spawn" /\ naming'[p] = naming[p] /\ picked'[p] = picked[p]
  PROVE  Paid'
  <1>1. \A o \in Obs : Readers(o)' = Readers(o)
    BY DEF Readers, Own
  <1>2. \A o \in Obs : IsFiniteSet(Readers(o)) /\ Cardinality(Readers(o)) \in Nat
    BY FS_CardinalityType DEF LeaseInv, Paid
  <1>3. ASSUME NEW o \in Obs, o \notin resolved'
        PROVE  Cardinality(Readers(o)') <= requeues'[o] + IF claimant'[o] = Unclaimed THEN 0 ELSE 1
    BY <1>1, <1>2, <1>3 DEF LeaseInv, LeaseTypeOK, Paid
  <1>4. ASSUME NEW o \in Obs, NEW p \in Passer, o \notin resolved', at'[p] = "spawn", o \in picked'[p]
        PROVE  Cardinality(Readers(o)') + (IF claimant'[o] = naming'[p] THEN 0 ELSE 1) <= requeues'[o]
    BY <1>1, <1>2, <1>4 DEF LeaseInv, LeaseTypeOK, Paid
  <1>5. QED
    BY <1>1, <1>2, <1>3, <1>4 DEF Paid

LEMMA BelowKept ==
  ASSUME LeaseInv, \A o \in Obs : Readers(o)' = Readers(o), UNCHANGED slipped,
         \A p \in Passer : at'[p] \in {"claim", "spawn"} =>
           at[p] \in {"claim", "spawn"} /\ picked'[p] \subseteq picked[p]
  PROVE  Below'
  BY DEF LeaseInv, Below

LEMMA PaidStep ==
  ASSUME LeaseInv, [LeaseNext]_leaseVars
  PROVE  Paid' /\ Below'
  <1> USE DEF LeaseTypeOK
  <1>0. LeaseTypeOK /\ Exclusive /\ Fresh /\ Paid /\ Below
    BY DEF LeaseInv
  <1>c. \A o \in Obs : IsFiniteSet(Readers(o)) /\ Cardinality(Readers(o)) \in Nat
    BY <1>0, FS_CardinalityType DEF Paid
  <1>a. ASSUME UNCHANGED <<resolved, claimant, requeues, prompt, attempt, slipped>>,
               \A p \in Passer : at'[p] \in {"claim", "spawn"} =>
                 at'[p] = at[p] /\ naming'[p] = naming[p] /\ picked'[p] = picked[p]
        PROVE  Paid' /\ Below'
    <2>1. requeues' \in [Obs -> Nat] /\ \A o \in Obs : requeues'[o] >= requeues[o]
      BY <1>0, <1>a
    <2>2. \A p \in Passer : at'[p] = "spawn" =>
            at[p] = "spawn" /\ naming'[p] = naming[p] /\ picked'[p] = picked[p]
      BY <1>a
    <2>3. \A p \in Passer : at'[p] \in {"claim", "spawn"} =>
            at[p] \in {"claim", "spawn"} /\ picked'[p] \subseteq picked[p]
      BY <1>a
    <2>4. Paid'
      BY <1>a, <2>1, <2>2, PaidKept
    <2>5. \A o \in Obs : Readers(o)' = Readers(o)
      BY <1>a DEF Readers, Own
    <2>6. Below'
      BY <1>a, <2>3, <2>5, BelowKept
    <2>7. QED
      BY <2>4, <2>6
  <1>1. ASSUME NEW p \in Passer, ReadFinished(p) \/ TryLock(p) \/ PasserDies(p) PROVE Paid' /\ Below'
    <2>1. /\ UNCHANGED <<resolved, claimant, requeues, prompt, attempt, slipped>>
          /\ \A q \in Passer \ {p} : at'[q] = at[q] /\ naming'[q] = naming[q] /\ picked'[q] = picked[q]
          /\ at'[p] \in {"release", "stale", "idle"}
      BY <1>0, <1>1 DEF ReadFinished, TryLock, PasserDies, Move, rows, children
    <2>2. QED
      BY <1>a, <2>1
  <1>2. ASSUME NEW p \in Passer, ReleaseFinished(p) \/ ReleaseStale(p) PROVE Paid' /\ Below'
    <2>1. /\ UNCHANGED <<resolved, prompt, attempt, slipped, naming>> /\ Requeue(picked[p])
          /\ \A q \in Passer \ {p} : at'[q] = at[q] /\ picked'[q] = picked[q]
          /\ at'[p] \in {"try", "poison"}
      BY <1>0, <1>2 DEF ReleaseFinished, ReleaseStale, Move, children
    <2>2. requeues' \in [Obs -> Nat]
          /\ \A o \in Obs : /\ requeues'[o] >= requeues[o]
                            /\ claimant'[o] # claimant[o] => requeues'[o] > requeues[o]
      BY <1>0, <2>1, RequeueType
    <2>3. \A q \in Passer : at'[q] \in {"claim", "spawn"} =>
            at[q] = at'[q] /\ naming'[q] = naming[q] /\ picked'[q] = picked[q]
      BY <2>1
    <2>4. Paid'
      BY <2>1, <2>2, <2>3, PaidKept
    <2>5. \A o \in Obs : Readers(o)' = Readers(o)
      BY <2>1 DEF Readers, Own
    <2>6. Below'
      BY <2>1, <2>3, <2>5, BelowKept
    <2>7. QED
      BY <2>4, <2>6
  <1>s. ASSUME NEW p \in Passer, SkipPoison(p) PROVE Paid' /\ Below'
    <2>1. /\ UNCHANGED <<claimant, requeues, prompt, attempt, slipped, naming>> /\ resolved \subseteq resolved'
          /\ \A q \in Passer \ {p} : at'[q] = at[q] /\ picked'[q] = picked[q]
          /\ at'[p] = "collect"
      BY <1>0, <1>s DEF SkipPoison, Move, children
    <2>2. Paid'
      BY <1>0, <2>1, PaidKept
    <2>3. \A o \in Obs : Readers(o)' = Readers(o)
      BY <2>1 DEF Readers, Own
    <2>4. Below'
      BY <1>0, <2>1, <2>3, BelowKept
    <2>5. QED
      BY <2>2, <2>4
  <1>3. ASSUME NEW p \in Passer, Collect(p) PROVE Paid' /\ Below'
    <2>1. /\ UNCHANGED <<rows, children, naming>>
          /\ \A q \in Passer \ {p} : at'[q] = at[q] /\ picked'[q] = picked[q]
          /\ at'[p] \in {"idle", "claim"}
      BY <1>0, <1>3 DEF Collect, Move
    <2>2. at'[p] = "claim" =>
            /\ picked'[p] \subseteq Pending
            /\ slipped' = [o \in Obs |-> IF o \in picked'[p] /\ requeues[o] >= MaxRequeues
                                         THEN slipped[o] + 1 ELSE slipped[o]]
      BY <1>0, <1>3 DEF Collect, Move
    <2>3. UNCHANGED <<resolved, claimant, requeues, prompt, attempt>>
      BY <2>1 DEF rows, children
    <2>4. Paid'
      BY <1>0, <2>1, <2>3, PaidKept
    <2>5. \A o \in Obs : Readers(o)' = Readers(o)
      BY <2>3 DEF Readers, Own
    <2>6. at'[p] = "idle" => UNCHANGED slipped
      BY <1>0, <1>3 DEF Collect, Move
    <2>7. CASE at'[p] = "idle"
      BY <1>0, <2>1, <2>5, <2>6, <2>7, <2>4, BelowKept
    <2>8. CASE at'[p] = "claim"
      <3>1. ASSUME NEW o \in Obs
            PROVE  /\ Cardinality(Readers(o)) <= MaxRequeues + slipped'[o]
                   /\ o \in picked'[p] => Cardinality(Readers(o)) < MaxRequeues + slipped'[o]
                   /\ slipped'[o] >= slipped[o]
        <4>1. /\ Cardinality(Readers(o)) <= MaxRequeues + slipped[o]
              /\ slipped[o] \in Nat /\ requeues[o] \in Nat /\ MaxRequeues \in Nat
              /\ slipped'[o] = IF o \in picked'[p] /\ requeues[o] >= MaxRequeues
                               THEN slipped[o] + 1 ELSE slipped[o]
          BY <1>0, <2>2, <2>8, LeaseAssumption DEF Below
        <4>2. o \in picked'[p] => Cardinality(Readers(o)) <= requeues[o]
          BY <1>0, <1>c, <2>2, <2>8 DEF Pending, Paid
        <4>3. QED
          BY <1>c, <4>1, <4>2
      <3>2. \A q \in Passer \ {p} : at'[q] \in {"claim", "spawn"} => at[q] \in {"claim", "spawn"} /\ picked'[q] = picked[q]
        BY <2>1
      <3>3. ASSUME NEW o \in Obs, NEW q \in Passer, at'[q] \in {"claim", "spawn"}, o \in picked'[q]
            PROVE  Cardinality(Readers(o)) < MaxRequeues + slipped'[o]
        <4>1. CASE q = p
          BY <3>1, <3>3, <4>1
        <4>2. CASE q # p
          <5>1. Cardinality(Readers(o)) < MaxRequeues + slipped[o] /\ slipped[o] \in Nat /\ MaxRequeues \in Nat
            BY <1>0, <3>2, <3>3, <4>2, LeaseAssumption DEF Below
          <5>2. slipped'[o] \in Nat
            BY <1>0, <2>2, <2>8
          <5>3. QED
            BY <1>c, <3>1, <5>1, <5>2
        <4>3. QED
          BY <4>1, <4>2
      <3>4. Below'
        BY <2>5, <3>1, <3>3 DEF Below
      <3>5. QED
        BY <2>4, <3>4
    <2>9. QED
      BY <2>1, <2>7, <2>8
  <1>4. ASSUME NEW p \in Passer, Claim(p) PROVE Paid' /\ Below'
    <2> DEFINE mine == picked[p] \cap Pending
    <2>0. /\ UNCHANGED <<resolved, requeues, prompt, attempt, slipped>> /\ at[p] = "claim"
          /\ \A q \in Passer \ {p} : at'[q] = at[q] /\ picked'[q] = picked[q] /\ naming'[q] = naming[q]
      BY <1>0, <1>4 DEF Claim, Move, children
    <2>1. CASE mine = {}
      <3>1. UNCHANGED claimant /\ at'[p] = "idle"
        BY <1>0, <1>4, <2>1 DEF Claim, Move
      <3>2. QED
        BY <1>a, <2>0, <3>1
    <2>2. CASE mine # {}
      <3>1. /\ at'[p] = "spawn" /\ picked'[p] = mine /\ naming'[p] \in Validator
            /\ claimant' = [o \in Obs |-> IF o \in mine THEN naming'[p] ELSE claimant[o]]
        BY <1>0, <1>4, <2>2 DEF Claim, Move, Unused
      <3>2. \A q \in Passer \ {p} : at[q] # "spawn"
        BY <1>0, <2>0 DEF Exclusive, Inside
      <3>3. \A o \in Obs : Readers(o)' = Readers(o)
        BY <2>0 DEF Readers, Own
      <3>4. \A o \in mine : /\ o \in Obs /\ o \notin resolved /\ claimant[o] = Unclaimed
                           /\ Cardinality(Readers(o)) <= requeues[o]
        BY <1>0, <1>c DEF Pending, Paid
      <3>5. ASSUME NEW o \in Obs, o \notin resolved'
            PROVE  Cardinality(Readers(o)') <= requeues'[o] + IF claimant'[o] = Unclaimed THEN 0 ELSE 1
        <4>1. CASE o \in mine
          BY <1>0, <1>c, <2>0, <3>1, <3>3, <3>4, <4>1
        <4>2. CASE o \notin mine
          <5>1. claimant'[o] = claimant[o] /\ requeues'[o] = requeues[o] /\ o \notin resolved
            BY <2>0, <3>1, <3>5, <4>2
          <5>2. QED
            BY <1>0, <3>3, <5>1 DEF Paid
        <4>3. QED
          BY <4>1, <4>2
      <3>6. ASSUME NEW o \in Obs, NEW q \in Passer, o \notin resolved', at'[q] = "spawn", o \in picked'[q]
            PROVE  Cardinality(Readers(o)') + (IF claimant'[o] = naming'[q] THEN 0 ELSE 1) <= requeues'[o]
        <4>1. q = p /\ o \in mine
          BY <2>0, <3>1, <3>2, <3>6
        <4>2. claimant'[o] = naming'[q] /\ requeues'[o] = requeues[o]
          BY <2>0, <3>1, <4>1
        <4>3. QED
          BY <1>0, <1>c, <3>3, <3>4, <4>1, <4>2
      <3>7. Paid'
        BY <1>c, <3>3, <3>5, <3>6 DEF Paid
      <3>8. Below'
        <4>1. \A q \in Passer : at'[q] \in {"claim", "spawn"} =>
                at[q] \in {"claim", "spawn"} /\ picked'[q] \subseteq picked[q]
          BY <2>0, <3>1
        <4>2. QED
          BY <2>0, <3>3, <4>1, BelowKept
      <3>9. QED
        BY <3>7, <3>8
    <2>3. QED
      BY <2>1, <2>2
  <1>5. ASSUME NEW p \in Passer, SpawnValidator(p) PROVE Paid' /\ Below'
    <2> DEFINE t == naming[p]
    <2>0. /\ UNCHANGED <<resolved, requeues, attempt, slipped>> /\ at[p] = "spawn" /\ at'[p] = "idle"
          /\ \A q \in Passer \ {p} : at'[q] = at[q] /\ picked'[q] = picked[q] /\ naming'[q] = naming[q]
      BY <1>0, <1>5 DEF SpawnValidator, Move
    <2>1. t \in Own /\ prompt[t] = {} /\ t # Unclaimed
          /\ \A q \in Passer \ {p} : at[q] \notin Inside
      BY <1>0, <2>0, LeaseAssumption DEF Exclusive, Fresh, Inside, Own
    <2>2. \A q \in Passer : at'[q] \notin Inside
      BY <2>0, <2>1 DEF Inside
    <2>3. \A o \in Obs : requeues[o] \in Nat /\ t \notin Readers(o)
      BY <1>0, <2>1 DEF Readers
    <2>4. CASE prompt' = [prompt EXCEPT ![t] = picked[p]] /\ UNCHANGED claimant
      <3>1. ASSUME NEW o \in Obs
            PROVE  /\ IsFiniteSet(Readers(o)')
                   /\ Cardinality(Readers(o)') = Cardinality(Readers(o)) + IF o \in picked[p] THEN 1 ELSE 0
        <4>1. CASE o \in picked[p]
          <5>1. Readers(o)' = Readers(o) \cup {t}
            BY <1>0, <2>0, <2>1, <2>4, <4>1 DEF Readers, Own
          <5>2. /\ IsFiniteSet(Readers(o) \cup {t})
                /\ Cardinality(Readers(o) \cup {t}) = Cardinality(Readers(o)) + 1
            <6> HIDE DEF t
            <6>1. IsFiniteSet(Readers(o)) /\ t \notin Readers(o)
              BY <1>c, <2>3
            <6>2. QED
              BY <6>1, FS_AddElement
          <5>3. QED
            BY <4>1, <5>1, <5>2
        <4>2. CASE o \notin picked[p]
          <5>1. Readers(o)' = Readers(o)
            BY <1>0, <2>0, <2>1, <2>4, <4>2 DEF Readers, Own
          <5>2. QED
            BY <1>c, <4>2, <5>1
        <4>3. QED
          BY <4>1, <4>2
      <3>2. ASSUME NEW o \in Obs, o \notin resolved'
            PROVE  Cardinality(Readers(o)') <= requeues'[o] + IF claimant'[o] = Unclaimed THEN 0 ELSE 1
        <4>1. CASE o \in picked[p]
          <5>1. Cardinality(Readers(o)) + (IF claimant[o] = t THEN 0 ELSE 1) <= requeues[o]
            BY <1>0, <2>0, <3>2, <4>1 DEF Paid
          <5>2. QED
            BY <1>c, <2>0, <2>1, <2>3, <2>4, <3>1, <4>1, <5>1
        <4>2. CASE o \notin picked[p]
          <5>1. Cardinality(Readers(o)) <= requeues[o] + IF claimant[o] = Unclaimed THEN 0 ELSE 1
            BY <1>0, <2>0, <3>2 DEF Paid
          <5>2. QED
            BY <1>c, <2>0, <2>4, <3>1, <4>2, <5>1
        <4>3. QED
          BY <4>1, <4>2
      <3>3. \A o \in Obs : Cardinality(Readers(o)') <= MaxRequeues + slipped'[o]
        <4> TAKE o \in Obs
        <4>0. MaxRequeues \in Nat /\ slipped[o] \in Nat /\ slipped'[o] = slipped[o]
          BY <1>0, <2>0, LeaseAssumption
        <4>1. CASE o \in picked[p]
          <5>1. Cardinality(Readers(o)) < MaxRequeues + slipped[o]
            BY <1>0, <2>0, <4>1 DEF Below
          <5>2. QED
            BY <1>c, <3>1, <4>0, <4>1, <5>1
        <4>2. CASE o \notin picked[p]
          <5>1. Cardinality(Readers(o)) <= MaxRequeues + slipped[o]
            BY <1>0 DEF Below
          <5>2. QED
            BY <1>c, <3>1, <4>0, <4>2, <5>1
        <4>3. QED
          BY <4>1, <4>2
      <3>4. QED
        BY <2>2, <3>1, <3>2, <3>3 DEF Paid, Below, Inside
    <2>5. CASE /\ UNCHANGED prompt
               /\ claimant' = [o \in Obs |-> IF o \in picked[p] /\ claimant[o] = t THEN Unclaimed
                                             ELSE claimant[o]]
      <3>1. \A o \in Obs : Readers(o)' = Readers(o)
        BY <2>0, <2>5 DEF Readers, Own
      <3>2. ASSUME NEW o \in Obs, o \notin resolved'
            PROVE  Cardinality(Readers(o)') <= requeues'[o] + IF claimant'[o] = Unclaimed THEN 0 ELSE 1
        <4>1. CASE o \in picked[p] /\ claimant[o] = t
          <5>1. Cardinality(Readers(o)) + (IF claimant[o] = t THEN 0 ELSE 1) <= requeues[o]
            BY <1>0, <2>0, <3>2, <4>1 DEF Paid
          <5>2. QED
            BY <1>c, <2>0, <2>3, <2>5, <3>1, <4>1, <5>1
        <4>2. CASE ~ (o \in picked[p] /\ claimant[o] = t)
          <5>1. claimant'[o] = claimant[o] /\ requeues'[o] = requeues[o] /\ o \notin resolved
            BY <2>0, <2>5, <3>2, <4>2
          <5>2. QED
            BY <1>0, <3>1, <5>1 DEF Paid
        <4>3. QED
          BY <4>1, <4>2
      <3>3. QED
        BY <1>0, <1>c, <2>0, <2>2, <3>1, <3>2 DEF Paid, Below, Inside
    <2>6. QED
      BY <1>0, <1>5, <2>4, <2>5 DEF SpawnValidator
  <1>6. ASSUME NEW o \in Obs, Resolve(o) PROVE Paid' /\ Below'
    <2>1. /\ resolved' = resolved \cup {o} /\ claimant' = [claimant EXCEPT ![o] = Unclaimed]
          /\ UNCHANGED <<requeues, prompt, attempt, slipped, at, picked, naming>>
      BY <1>6 DEF Resolve, children
    <2>2. \A i \in Obs : claimant'[i] # claimant[i] => i \in resolved'
      BY <1>0, <2>1
    <2>3. requeues' \in [Obs -> Nat] /\ \A i \in Obs : requeues'[i] >= requeues[i]
      BY <1>0, <2>1
    <2>4. Paid'
      BY <2>1, <2>2, <2>3, PaidKept
    <2>5. \A i \in Obs : Readers(i)' = Readers(i)
      BY <2>1 DEF Readers, Own
    <2>6. Below'
      BY <2>1, <2>5, BelowKept
    <2>7. QED
      BY <2>4, <2>6
  <1>7. ASSUME NEW t \in Validator, Restart(t) PROVE Paid' /\ Below'
    <2>1. UNCHANGED <<rows, slipped, at, picked, naming>>
      BY <1>0, <1>7, RestartStep
    <2>2. PICK u \in Validator :
            /\ task[u] = "none" /\ \A p \in Passer : naming[p] # u
            /\ task'[u] = "open" /\ attempt'[u] # 0
            /\ \A s \in Validator \ {u} :
                 /\ prompt'[s] = prompt[s] /\ attempt'[s] = attempt[s]
                 /\ task'[s] = task[s] \/ (task[s] = "due" /\ task'[s] = "ended")
      BY <1>0, <1>7, RestartStep
    <2>3. prompt[u] = {}
      BY <1>0, <2>2 DEF Fresh
    <2>4. \A o \in Obs : Readers(o)' = Readers(o)
      BY <2>2, <2>3 DEF Readers, Own
    <2>5. Paid' /\ Below'
      BY <1>0, <2>1, <2>4 DEF Paid, Below, rows
    <2>6. QED
      BY <2>5
  <1>8. CASE \/ \E t \in Validator : EndValidator(t) \/ TimeOutValidator(t)
             \/ \E o \in Obs : Lapse(o)
             \/ UNCHANGED leaseVars
    <2>1. UNCHANGED <<resolved, claimant, requeues, prompt, attempt, slipped, at, picked, naming>>
      BY <1>8 DEF EndValidator, TimeOutValidator, Lapse, leaseVars, rows, children
    <2>2. QED
      BY <1>a, <2>1
  <1>9. QED
    BY <1>1, <1>2, <1>s, <1>3, <1>4, <1>5, <1>6, <1>7, <1>8 DEF LeaseNext, PassStep

LEMMA LeaseStart == LeaseInit => LeaseInv
  <1> SUFFICES ASSUME LeaseInit PROVE LeaseInv
    OBVIOUS
  <1>t. LeaseTypeOK
    BY DEF LeaseInit, LeaseTypeOK
  <1>r. Running = {}
    BY DEF LeaseInit, Running, Own
  <1>1. Exclusive /\ Fresh
    BY <1>r DEF LeaseInit, Exclusive, Fresh, Inside
  <1>2. \A o \in Obs : Readers(o) = {}
    BY DEF LeaseInit, Readers, Own
  <1>3. \A o \in Obs : IsFiniteSet(Readers(o)) /\ Cardinality(Readers(o)) = 0
    BY <1>2, FS_EmptySet
  <1>4. \A o \in Obs : requeues[o] = 0 /\ slipped[o] = 0 /\ claimant[o] = Unclaimed
    BY DEF LeaseInit
  <1>5. \A p \in Passer : at[p] = "idle"
    BY DEF LeaseInit
  <1>6. Paid /\ Below
    BY <1>3, <1>4, <1>5, LeaseAssumption DEF Paid, Below
  <1>7. QED
    BY <1>t, <1>1, <1>6 DEF LeaseInv

LEMMA LeaseStep == LeaseInv /\ [LeaseNext]_leaseVars => LeaseInv'
  <1> SUFFICES ASSUME LeaseInv, [LeaseNext]_leaseVars PROVE LeaseInv'
    OBVIOUS
  <1>1. LeaseTypeOK /\ Exclusive /\ Fresh
    BY DEF LeaseInv
  <1>2. LeaseTypeOK' /\ Exclusive' /\ Fresh'
    BY <1>1, LeaseTypeStep, ExclusiveStep
  <1>3. Paid' /\ Below'
    BY PaidStep
  <1>4. QED
    BY <1>2, <1>3 DEF LeaseInv

LEMMA LeaseInvariant == LeaseSpec => []LeaseInv
  BY LeaseStart, LeaseStep, PTL DEF LeaseSpec

\* No two children that passes started work on one observation, whatever
\* releases its claim: of two that do, one is a continuation of the watchdog.
THEOREM OneOwner == LeaseSpec => []OneReader
  <1>1. LeaseInv => OneReader
    BY DEF LeaseInv, Exclusive, OneReader, Running
  <1>2. QED
    BY <1>1, LeaseInvariant, PTL

\* However its claims are released, passes start MaxRequeues children at most for
\* an observation, and one for each release that slipped in between the look for
\* observations at the limit and the reading of a batch.
THEOREM BoundedChildren == LeaseSpec => []ChildrenBounded
  <1>1. LeaseInv => ChildrenBounded
    BY DEF LeaseInv, Below, Readers, ChildrenBounded
  <1>2. QED
    BY <1>1, LeaseInvariant, PTL

-----------------------------------------------------------------------------
(* Handles. *)

\* A row is closed when the child is over, and stays closed; a status on its way
\* was decided after that.
Over ==
  /\ record # "open" => work = "over"
  /\ handle.status \in Final => record # "open"
  /\ \A c \in Client : request[c] = "write" => record # "open" /\ outcome[c] \in Final

HandleInv == HandleTypeOK /\ Over

LEMMA GoType ==
  ASSUME HandleTypeOK, NEW c \in Client, NEW where, NEW what, Go(c, where, what),
         where \in {"idle", "read", "judge", "write", "kill", "note"},
         what \in {"none", "killed"} \cup Final
  PROVE  /\ request' \in [Client -> {"idle", "read", "judge", "write", "kill", "note"}]
         /\ outcome' \in [Client -> {"none", "killed"} \cup Final]
         /\ request'[c] = where /\ outcome'[c] = what
         /\ \A d \in Client \ {c} : request'[d] = request[d] /\ outcome'[d] = outcome[d]
  BY DEF HandleTypeOK, Go

LEMMA HandleStep ==
  ASSUME HandleInv, [HandleNext]_handleVars
  PROVE  HandleInv'
  <1> USE DEF HandleInv
  <1>r. Reaped \in {"open", "ended", "gone"} /\ (Reaped # "open" => work = "over")
        /\ (record # "open" => Reaped # "open")
    BY DEF Reaped, Over, HandleTypeOK
  \* Steps of requests that write no status.
  <1>q. ASSUME NEW c \in Client, NEW where, NEW what, Go(c, where, what),
               where \in {"idle", "read", "judge", "kill", "note"}, what \in {"none", "killed"},
               UNCHANGED work, record' \in {record, Reaped}, handle'.status = handle.status,
               handle' \in [status : {"none", "working"} \cup Final,
                            requested : BOOLEAN, accepted : BOOLEAN],
               view' \in [Client -> [status : {"none", "working"} \cup Final,
                                     requested : BOOLEAN, accepted : BOOLEAN]],
               handleFaults' \in Nat
        PROVE  HandleInv'
    <2>1. HandleTypeOK'
      BY <1>q, <1>r, GoType DEF HandleTypeOK
    <2>2. \A d \in Client : request'[d] = "write" => request[d] = "write" /\ outcome'[d] = outcome[d]
      BY <1>q, GoType
    <2>3. Over'
      BY <1>q, <1>r, <2>2 DEF Over
    <2>4. QED
      BY <2>1, <2>3
  <1>1. CASE CreateTask
    BY <1>1 DEF CreateTask, HandleTypeOK, Over, Final
  <1>2. CASE WorkEnds \/ RecordExit \/ Retire
    BY <1>2 DEF WorkEnds, RecordExit, Retire, HandleTypeOK, Over
  <1>3. ASSUME NEW c \in Client, Poll(c) PROVE HandleInv'
    BY <1>3, <1>q DEF Poll, HandleTypeOK
  <1>4. ASSUME NEW c \in Client, ReadHandle(c) PROVE HandleInv'
    BY <1>4, <1>q DEF ReadHandle, HandleTypeOK
  <1>5. ASSUME NEW c \in Client, Judge(c) PROVE HandleInv'
    <2>0. UNCHANGED <<work, record, handle, view, handleFaults>>
      BY <1>5 DEF Judge
    <2>1. CASE Go(c, "idle", "none")
      BY <1>q, <2>0, <2>1 DEF HandleTypeOK
    <2>2. CASE Verdict(view[c]) \in Final \ {view[c].status} /\ Go(c, "write", Verdict(view[c]))
      <3>1. record # "open"
        BY <2>2 DEF Verdict, Final
      <3>2. HandleTypeOK'
        BY <2>0, <2>2, GoType DEF HandleTypeOK
      <3>3. /\ request'[c] = "write" /\ outcome'[c] \in Final
            /\ \A d \in Client \ {c} : request'[d] = request[d] /\ outcome'[d] = outcome[d]
        BY <2>2, GoType
      <3>4. Over'
        BY <2>0, <3>1, <3>3 DEF Over
      <3>5. QED
        BY <3>2, <3>4
    <2>3. QED
      BY <1>5, <2>1, <2>2 DEF Judge
  <1>6. ASSUME NEW c \in Client, UpdateTerminal(c) PROVE HandleInv'
    <2>1. /\ UNCHANGED <<work, record, view, handleFaults>> /\ Go(c, "idle", "none")
          /\ record # "open" /\ outcome[c] \in Final
          /\ handle' = [handle EXCEPT !.status = outcome[c]]
      BY <1>6 DEF UpdateTerminal, Over
    <2>2. HandleTypeOK'
      BY <2>1, GoType DEF HandleTypeOK
    <2>3. \A d \in Client : request'[d] = "write" => request[d] = "write" /\ outcome'[d] = outcome[d]
      BY <2>1, GoType
    <2>4. Over'
      BY <2>1, <2>3 DEF Over
    <2>5. QED
      BY <2>2, <2>4
  <1>7. ASSUME NEW c \in Client, Cancel(c) PROVE HandleInv'
    BY <1>7, <1>q DEF Cancel, HandleTypeOK
  <1>8. ASSUME NEW c \in Client, TaskKill(c) PROVE HandleInv'
    BY <1>8, <1>q DEF TaskKill, HandleTypeOK
  <1>9. ASSUME NEW c \in Client, NoteCancel(c) PROVE HandleInv'
    <2>1. /\ UNCHANGED <<work, record, view, handleFaults>> /\ Go(c, "idle", "none")
          /\ handle' = [handle EXCEPT !.requested = TRUE, !.accepted = (outcome[c] = "killed")]
      BY <1>9 DEF NoteCancel
    <2>2. handle'.status = handle.status
          /\ handle' \in [status : {"none", "working"} \cup Final, requested : BOOLEAN, accepted : BOOLEAN]
      BY <2>1 DEF HandleTypeOK
    <2>3. QED
      BY <1>q, <2>1, <2>2 DEF HandleTypeOK
  <1>10. ASSUME NEW c \in Client, Drop(c) PROVE HandleInv'
    BY <1>10, <1>q, HandleAssumption DEF Drop, HandleTypeOK
  <1>11. CASE UNCHANGED handleVars
    BY <1>11 DEF handleVars, HandleTypeOK, Over
  <1>12. QED
    BY <1>1, <1>2, <1>3, <1>4, <1>5, <1>6, <1>7, <1>8, <1>9, <1>10, <1>11 DEF HandleNext, Serve

LEMMA HandleStart == HandleInit => HandleInv
  BY DEF HandleInit, HandleInv, HandleTypeOK, Over, NoHandle, Final

\* Whoever writes the status of a handle, and however late: when it is final the
\* child is over.
THEOREM HandleTruthful == HandleSpec => []FinalIsOver
  <1>1. HandleInit => HandleInv
    BY HandleStart
  <1>2. HandleInv /\ [HandleNext]_handleVars => HandleInv'
    BY HandleStep
  <1>3. HandleInv => FinalIsOver
    BY DEF HandleInv, Over, FinalIsOver
  <1>4. QED
    BY <1>1, <1>2, <1>3, PTL DEF HandleSpec

-----------------------------------------------------------------------------
(* The four as MCMachine runs them: one takes steps, the others rest. *)

MachineInv == KeyInv /\ LeaseInv /\ HostTypeOK /\ HandleInv

\* A step of the machine is a step of one component.
LEMMA MachineInvariant == Spec => []MachineInv
  <1>1. Init => MachineInv
    BY KeyStart, LeaseStart, HostStart, HandleStart DEF Init, MachineInv
  <1>2. MachineInv /\ [Next]_machineVars => MachineInv'
    <2> SUFFICES ASSUME MachineInv, [Next]_machineVars PROVE MachineInv'
      OBVIOUS
    <2>1. KeyInv /\ LeaseInv /\ HostTypeOK /\ HandleInv
      BY DEF MachineInv
    <2>2. /\ [KeyNext]_keyVars /\ [LeaseNext]_leaseVars
          /\ [HostNext]_hostVars /\ [HandleNext]_handleVars
      BY DEF Next, machineVars
    <2>3. KeyInv'
      BY <2>1, <2>2, KeyTypeStep, KeyStep DEF KeyInv
    <2>4. LeaseInv' /\ HostTypeOK' /\ HandleInv'
      BY <2>1, <2>2, LeaseStep, HostStepKeeps, HandleStep
    <2>5. QED
      BY <2>3, <2>4 DEF MachineInv
  <1>3. QED
    BY <1>1, <1>2, PTL DEF Spec

\* The variables of the four components keep their types, and one host holds
\* the lock, in the specification that the run machine checks.
THEOREM MachineTypes == Spec => []TypeOK
  <1>1. MachineInv => TypeOK
    BY DEF MachineInv, KeyInv, LeaseInv, HandleInv, TypeOK
  <1>2. QED
    BY <1>1, MachineInvariant, PTL

\* So do the other invariants of that run, for the four components together: the
\* keys open the database, no two children of passes share an observation, their
\* number is bounded, and a final status is true.
THEOREM MachineSafety == Spec => [](KeyOpens /\ OneReader /\ ChildrenBounded /\ FinalIsOver)
  <1>1. MachineInv => KeyOpens /\ OneReader /\ ChildrenBounded /\ FinalIsOver
    BY DEF MachineInv, KeyInv, LeaseInv, HandleInv, Exclusive, Running, OneReader, Below, Readers,
           ChildrenBounded, Over, FinalIsOver
  <1>2. QED
    BY <1>1, MachineInvariant, PTL
=============================================================================
