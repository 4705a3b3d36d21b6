--------------------------- MODULE ObservationLease ---------------------------
(***************************************************************************)
(* dialectic_validator.py: passes of several processes lease pending       *)
(* observations to validator children.  A session that may write resolves  *)
(* them; the others are returned when their child is over, up to a limit.  *)
(*                                                                         *)
(* A release first reads the rows it is about, and then writes them by id, *)
(* whatever happened to them in between.  Thresholds, which only delay a   *)
(* pass, and the skips for noise, duplicates and age are left out.         *)
(***************************************************************************)
EXTENDS Naturals, FiniteSets

CONSTANTS Passer,          \* processes that run passes
          Obs,             \* observations
          Validator,       \* children, named by their task ids
          Unclaimed,       \* claimed_by_task IS NULL
          BatchSize,       \* DIALECTIC_VALIDATE_BATCH_SIZE
          MaxRequeues,     \* DIALECTIC_OBS_MAX_REQUEUES
          TimeoutRetries,  \* SPAWN_TIMEOUT_RETRY_LIMIT
          MaxLeaseFaults   \* bound of refused spawns, deaths, timeouts, late releases
                           \* and resolutions by hand

ASSUME LeaseAssumption ==
  /\ Unclaimed \notin Validator
  /\ BatchSize \in Nat \ {0}
  /\ MaxRequeues \in Nat \ {0}
  /\ TimeoutRetries \in Nat
  /\ MaxLeaseFaults \in Nat

VARIABLES
  resolved,    \* status = 'processed'
  claimant,    \* claimant[o]: claimed_by_task
  late,        \* claims older than _CLAIM_TTL_S
  requeues,    \* requeues[o]: requeue_count
  task,        \* task[t]: none, open; gone, if only the process ended; ended;
               \* due, if the watchdog closed the row and has yet to restart t
  prompt,      \* prompt[t]: the observations that t was given
  attempt,     \* attempt[t]: retry_attempt, 0 for a child of a pass
  slipped,     \* slipped[o]: how often a batch took o beyond the limit (history)
  at,          \* at[p]: where a pass is
  picked,      \* picked[p]: the ids that it has read
  naming,      \* naming[p]: the task id that it claims for
  leaseFaults

rows      == <<resolved, claimant, late, requeues>>
children  == <<task, prompt, attempt>>
leaseVars == <<rows, children, slipped, at, picked, naming, leaseFaults>>

LeaseInit ==
  /\ resolved = {}
  /\ claimant = [o \in Obs |-> Unclaimed]
  /\ late = {}
  /\ requeues = [o \in Obs |-> 0]
  /\ task = [t \in Validator |-> "none"]
  /\ prompt = [t \in Validator |-> {}]
  /\ attempt = [t \in Validator |-> 0]
  /\ slipped = [o \in Obs |-> 0]
  /\ at = [p \in Passer |-> "idle"]
  /\ picked = [p \in Passer |-> {}]
  /\ naming = [p \in Passer |-> Unclaimed]
  /\ leaseFaults = 0

LeaseFault ==
  /\ leaseFaults < MaxLeaseFaults
  /\ leaseFaults' = leaseFaults + 1

Move(p, where, ids) ==
  /\ at' = [at EXCEPT ![p] = where]
  /\ picked' = [picked EXCEPT ![p] = ids]

Pending == {o \in Obs \ resolved : claimant[o] = Unclaimed}

-----------------------------------------------------------------------------
(* run_validate_pass. *)

\* _release_finished_claims: the claims of tasks that ended ...
ReadFinished(p) ==
  /\ at[p] = "idle"
  /\ Move(p, "release", {o \in Obs \ resolved : \E t \in Validator :
                           claimant[o] = t /\ task[t] \in {"ended", "due"}})
  /\ UNCHANGED <<rows, children, slipped, naming, leaseFaults>>

\* Mutation of Requeue: the release is not counted.
RequeueUncounted(ids) ==
  /\ claimant' = [o \in Obs |-> IF o \in ids THEN Unclaimed ELSE claimant[o]]
  /\ late' = late \ ids
  /\ requeues' = requeues

\* By id alone.
Requeue(ids) ==
  /\ claimant' = [o \in Obs |-> IF o \in ids THEN Unclaimed ELSE claimant[o]]
  /\ late' = late \ ids
  /\ requeues' = [o \in Obs |-> IF o \in ids THEN requeues[o] + 1 ELSE requeues[o]]

\* The release brings an observation to the limit when a pass has looked for
\* those already.
TooLate(p) ==
  /\ \E q \in Passer : at[q] = "collect"
  /\ \E o \in picked[p] \ resolved : requeues[o] + 1 >= MaxRequeues

\* ... are released, outside the lock.
ReleaseFinished(p) ==
  /\ at[p] = "release"
  /\ Requeue(picked[p])
  /\ IF TooLate(p) THEN LeaseFault ELSE UNCHANGED leaseFaults
  /\ Move(p, "try", {})
  /\ UNCHANGED <<resolved, children, slipped, naming>>

\* single_flight_lock.
PassLocked == \E q \in Passer : at[q] \in {"stale", "poison", "collect", "claim", "spawn"}

\* Mutation of Running: only the lock counts.
RunningIgnored == {}

\* Mutation of Overdue: only finished tasks are looked for.
OverdueNever == {}

\* Claims that are too old.
Overdue == late \ resolved

\* Children by the prompt that the pass gives them: a continuation has another.
Own == {t \in Validator : attempt[t] = 0}

\* _running_validator_children ...
Running == {t \in Own : task[t] = "open"}

\* ... also closes the rows of processes that are gone.  Overdue claims are
\* read under the lock ...
TryLock(p) ==
  /\ at[p] = "try"
  /\ IF PassLocked
       THEN Move(p, "idle", {}) /\ UNCHANGED task
       ELSE /\ task' = [t \in Validator |-> IF t \in Own /\ task[t] = "gone" THEN "ended" ELSE task[t]]
            /\ IF Running # {} THEN Move(p, "idle", {}) ELSE Move(p, "stale", Overdue)
  /\ UNCHANGED <<rows, prompt, attempt, slipped, naming, leaseFaults>>

\* ... and released: _release_stale_claims.
ReleaseStale(p) ==
  /\ at[p] = "stale"
  /\ Requeue(picked[p])
  /\ Move(p, "poison", {})
  /\ UNCHANGED <<resolved, children, slipped, naming, leaseFaults>>

\* _resolve_poison_pending: what was returned too often is given up ...
SkipPoison(p) ==
  /\ at[p] = "poison"
  /\ resolved' = resolved \cup {o \in Pending : requeues[o] >= MaxRequeues}
  /\ Move(p, "collect", {})
  /\ UNCHANGED <<claimant, late, requeues, children, slipped, naming, leaseFaults>>

\* ... _collect_pending: and a batch of what is pending now, the best first.
Collect(p) ==
  /\ at[p] = "collect"
  /\ IF Pending = {} THEN Move(p, "idle", {}) /\ UNCHANGED slipped
     ELSE \E batch \in SUBSET Pending :
            /\ Cardinality(batch) <= BatchSize
            /\ batch = Pending \/ Cardinality(batch) = BatchSize
            /\ Move(p, "claim", batch)
            /\ slipped' = [o \in Obs |->
                 IF o \in batch /\ requeues[o] >= MaxRequeues THEN slipped[o] + 1 ELSE slipped[o]]
  /\ UNCHANGED <<rows, children, naming, leaseFaults>>

\* _new_validator_task_id, and the id of a continuation.
Unused ==
  {t \in Validator : /\ task[t] = "none"
                     /\ \A o \in Obs : claimant[o] # t
                     /\ \A p \in Passer : naming[p] # t}

\* _claim_batch and _claimed_inventory under a new task id: rows that are still
\* pending.
Claim(p) ==
  LET mine == picked[p] \cap Pending
  IN  /\ at[p] = "claim"
      /\ IF mine = {} THEN Move(p, "idle", {}) /\ UNCHANGED <<claimant, naming>>
         ELSE /\ Unused # {}
              /\ LET t == CHOOSE t \in Unused : TRUE
                 IN  /\ claimant' = [o \in Obs |-> IF o \in mine THEN t ELSE claimant[o]]
                     /\ naming' = [naming EXCEPT ![p] = t]
              /\ Move(p, "spawn", mine)
      /\ UNCHANGED <<resolved, late, requeues, children, slipped, leaseFaults>>

\* The child starts with the observations of the claim, or the spawn is refused
\* and what is still claimed for it is given back: _release_batch_claims.
SpawnValidator(p) ==
  LET t    == naming[p]
      mine == {o \in picked[p] : claimant[o] = t}
  IN  /\ at[p] = "spawn"
      /\ \/ /\ task' = [task EXCEPT ![t] = "open"]
            /\ prompt' = [prompt EXCEPT ![t] = picked[p]]
            /\ UNCHANGED <<claimant, late, leaseFaults>>
         \/ /\ LeaseFault
            /\ claimant' = [o \in Obs |-> IF o \in mine THEN Unclaimed ELSE claimant[o]]
            /\ late' = late \ mine
            /\ UNCHANGED <<task, prompt>>
      /\ Move(p, "idle", {})
      /\ naming' = [naming EXCEPT ![p] = Unclaimed]
      /\ UNCHANGED <<resolved, requeues, attempt, slipped>>

\* The process ends: what it claimed is nobody's.
PasserDies(p) ==
  /\ at[p] # "idle"
  /\ LeaseFault
  /\ Move(p, "idle", {})
  /\ naming' = [naming EXCEPT ![p] = Unclaimed]
  /\ UNCHANGED <<rows, children, slipped>>

-----------------------------------------------------------------------------
\* dialectic_observation_resolve, by a session that may write, whoever holds the
\* claim by now.
Resolve(o) ==
  /\ o \notin resolved
  /\ LeaseFault
  /\ resolved' = resolved \cup {o}
  /\ claimant' = [claimant EXCEPT ![o] = Unclaimed]
  /\ late' = late \ {o}
  /\ UNCHANGED <<requeues, children, slipped, at, picked, naming>>

\* A child ends; its row is closed by the exit recorder or left to a reader.
EndValidator(t) ==
  /\ task[t] = "open"
  /\ task' \in {[task EXCEPT ![t] = "ended"], [task EXCEPT ![t] = "gone"]}
  /\ UNCHANGED <<rows, prompt, attempt, slipped, at, picked, naming, leaseFaults>>

\* The watchdog stops a child and closes its row, as it may be restarted ...
TimeOutValidator(t) ==
  /\ task[t] = "open" /\ attempt[t] < TimeoutRetries
  /\ LeaseFault
  /\ task' = [task EXCEPT ![t] = "due"]
  /\ UNCHANGED <<rows, prompt, attempt, slipped, at, picked, naming>>

\* ... _respawn_timed_out: and a continuation has the same assignment.
Restart(t) ==
  /\ task[t] = "due" /\ Unused # {}
  /\ LET u == CHOOSE u \in Unused : TRUE
     IN  /\ task' = [task EXCEPT ![t] = "ended", ![u] = "open"]
         /\ prompt' = [prompt EXCEPT ![u] = prompt[t]]
         /\ attempt' = [attempt EXCEPT ![u] = attempt[t] + 1]
  /\ UNCHANGED <<rows, slipped, at, picked, naming, leaseFaults>>

\* Six hours pass, which no pass takes between a claim and a spawn.
Lapse(o) ==
  /\ o \notin late \cup resolved /\ claimant[o] # Unclaimed
  /\ \A p \in Passer : at[p] = "spawn" => o \notin picked[p]
  /\ late' = late \cup {o}
  /\ UNCHANGED <<resolved, claimant, requeues, children, slipped, at, picked, naming, leaseFaults>>

PassStep(p) ==
  \/ ReadFinished(p) \/ ReleaseFinished(p) \/ TryLock(p) \/ ReleaseStale(p)
  \/ SkipPoison(p) \/ Collect(p) \/ Claim(p) \/ SpawnValidator(p)

LeaseNext ==
  \/ \E p \in Passer : PassStep(p) \/ PasserDies(p)
  \/ \E t \in Validator : EndValidator(t) \/ TimeOutValidator(t) \/ Restart(t)
  \/ \E o \in Obs : Resolve(o) \/ Lapse(o)

\* _serve_loop runs passes for ever, a child ends by itself or by the watchdog,
\* and time passes.
LeaseFairness ==
  /\ \A p \in Passer : WF_leaseVars(PassStep(p))
  /\ \A t \in Validator : WF_leaseVars(EndValidator(t))
  /\ \A o \in Obs : WF_leaseVars(Lapse(o))

LeaseSpec == LeaseInit /\ [][LeaseNext]_leaseVars /\ LeaseFairness

-----------------------------------------------------------------------------
LeaseTypeOK ==
  /\ resolved \subseteq Obs
  /\ claimant \in [Obs -> Validator \cup {Unclaimed}]
  /\ late \subseteq Obs
  /\ requeues \in [Obs -> Nat]
  /\ task \in [Validator -> {"none", "open", "gone", "due", "ended"}]
  /\ prompt \in [Validator -> SUBSET Obs]
  /\ attempt \in [Validator -> Nat]
  /\ slipped \in [Obs -> Nat]
  /\ at \in [Passer -> {"idle", "release", "try", "stale", "poison", "collect", "claim", "spawn"}]
  /\ picked \in [Passer -> SUBSET Obs]
  /\ naming \in [Passer -> Validator \cup {Unclaimed}]
  /\ leaseFaults \in Nat

\* docs/ARCHITECTURE.md, "a validator child owns the batch": no two children
\* that passes started work on one observation, although a claim may be released
\* under its owner.  Where two do, one is a continuation of the watchdog, which
\* no pass sees.
OneReader ==
  \A s, t \in Validator :
    s # t /\ task[s] = "open" /\ task[t] = "open" /\ prompt[s] \cap prompt[t] # {} =>
      s \notin Own \/ t \notin Own

\* The docstring of _resolve_poison_pending: however its claims are released,
\* passes start no more than MaxRequeues children for an observation, and one
\* more each time that a release came between the look for those at the limit
\* and the reading of the batch.
ChildrenBounded ==
  \A o \in Obs : Cardinality({t \in Own : o \in prompt[t]}) <= MaxRequeues + slipped[o]

\* Nothing is lost: every observation is resolved in the end, also when a pass
\* dies between the claim and the spawn.
AllResolved == \A o \in Obs : <>(o \in resolved)
=============================================================================
