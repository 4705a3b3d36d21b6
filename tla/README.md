# thread-keeper in TLA+

thread-keeper is a memory server for coding agents: one SQLite database per machine, written by
many short-lived MCP server processes, by one long-lived daemon host, by the exit recorders of
spawned child agents, and, if configured, by a sync daemon that exchanges rows with other machines.
There is no coordinator. Processes meet in tables, in file locks and in signals; machines meet in
HTTP requests. This directory holds TLA+ modules of the parts where that meeting is hard, the TLC
instances that check them, and TLAPS proofs of what they promise.

Modelled so far: the replication mesh (`sync/`); the life of a spawned child with its budget and
watchdog (`tools/spawn.py`, `_spawn_wrap.py`, `spawn_budget.py`); the durable pass of the curator
(`curator.py`); the evolve applier on several machines that share nothing but GitHub
(`evolve_applier.py`); and four components of one machine: keys of encrypted databases
(`storage.py`), leases of the dialectic validator (`dialectic_validator.py`), the election of the
daemon host (`host.py`) and the handles of tasks (`mcp_tasks.py`). The rest is inventoried and planned below. Paths are relative to `src/threadkeeper/` unless they start with `docs/`.

## Inventory

| Component | State it keeps | Operations | What is hard | What makes it correct |
|---|---|---|---|---|
| Sync: clock and capture (`sync/identity.py`, `capture.py`) | `sync_state` (node id, HLC), `hlc`/`origin_node` of every row, `sync_oplog` | triggers on INSERT, UPDATE, DELETE; send and receive rule | wall clocks stall, step back, differ | stamps are unique and outrank what their author has seen |
| Sync: protocol (`sync/protocol.py`) | rows and tombstones | `version_vector`, `collect_changes`, `apply_changes`, `rebuild_derived` | other connections commit in between; late, repeated, relayed changesets | no resurrection, no gaps, last writer wins |
| Sync: mesh (`sync/daemon.py`, `server.py`) | the session with a peer | pull, apply, push per peer and tick | lost answers, timeouts, a push handled after its client gave up | every write arrives; databases become equal |
| Sync: clones (`sync/reset_node.py`), backups (`backup.py`) | a copied database | reset of the identity; restore | two writers with one identity; a clock set back | the copy's writes are not taken for known ones |
| Sync: migration (`sync/migrate.py`) | schema gate, remapped ids | one offline rebuild | crash between gate and triggers | every row is stamped or the gate is closed |
| Spawn (`tools/spawn.py`, `_spawn_wrap.py`) | `tasks` rows, child processes | reserve, launch, release, record, exit recording, reaping, kill | several closers of one row; failed writes; crashes | the budget holds, no row is pinned |
| Budget daemon (`spawn_budget.py`) | a snapshot of open rows, one uncommitted transaction | measure, time out, terminate, continue | kill grace inside a transaction; two sweepers | one continuation, never beside its predecessor; verdict stands |
| Write funnel (`db.py`) | SQLite's single write lock | `run_write`, legacy connections | a lock held over slow work | short transactions, nothing lost on failure |
| Daemon host (`host.py`, `helpers.py`) | flock, pidfile, heartbeat row | election, heartbeat, self-termination, recovery kill | stale reads before a kill; pidfile races; hang with the lock held | one host, and a dead or silent one is replaced |
| Cadence, supervision (`daemon_state.py`, `daemon_supervisor.py`) | last run per loop, thread liveness | `claim_pass`, restart of dead threads | simultaneous wake-ups, fail-open | one pass per interval |
| Dialectic validator (`dialectic_validator.py`, `dialectic_miner.py`) | leases on observations | claim a batch, spawn, release, requeue, resolve | release by id after a read; crash between claim and spawn | a lease has one owner, no observation is lost |
| Pickup (`tools/pickup.py`) | `claimed_by_cid` of a thread | claim, release, reap | check, then unguarded write | one owner per thread |
| GitHub budget (`github_budget.py`) | shared cooldown, attempts | preflight, record | late success after a refusal | a cooldown is respected by all |
| Task handles (`mcp_tasks.py`) | client-visible handle of a task | create, read, cancel | stale handle rows, cancel racing the exit | a final status means the child is over; an accepted cancellation prevails |
| Storage (`storage.py`) | keyring entries, the database key | rekey, recover, copy, migrate | crash between key and database | some stored key always opens the database |
| Search proxy, peers (`search_proxy.py`, `tools/peers.py`) | rows of `signals` | request, answer | several servers answer one broadcast | at most one answer, none lost |
| Memory guard (`memory_guard.py`) | measured RSS, control requests | reclaim, retire, supervise the host | acts on stale measurements | only idle servers retire |
| Curator (`curator.py`) | the pass, its batches with three phases and their attempts, report files | reconcile, launch, endorse, abandon; children write reports | reports that change after they were read; a tick that dies between spawn and record; continuations | an endorsement rests on final reports; one worker per batch; every pass ends |
| Evolve applier (`evolve_applier.py`) | claim comments, labels, pull requests; a ledger per machine | landing sweep, repair, claim, implement, hand off, back off | lost answers, races of machines, outdated reads, children that die half-way | one implementer and one pull request per issue; only green heads are merged; the queue drains |
| Evolve reviewer, other reviewers, probes | proposals, leases | a pass around a spawned child | as cadence and spawn | one pass at a time |
| Skills, lessons, trash | file trees and their mirrors in tables | create, archive, restore, update | two stores, crash in between | mirror and tree agree |
| Grants, proposals, authority (`memory_access.py`, ...) | capability rows | check, propose, accept | revocation while in use | no write beyond the grant |
| Ingest, embeddings, retrieval, forgetting, retention | rows and derived indexes | sequential | size | (data, not control) |
| Adapters, setup, configuration, rendering, macOS app | files, screens | I/O | - | (not modelled) |

How they interact: a *server* process per agent session calls `ensure_host_running`, writes through
`run_write`, spawns children and reads task status. The *host* runs the daemons; with
`DAEMON_HOST_ENABLED` off every server runs them, so each daemon must tolerate copies of itself.
A *child* runs under `_spawn_wrap.py`, a process of its own that writes the exit code. The *sync
daemon* and the *sync server* run inside the same process population and write the same database as
everybody else.

## Modules

Sync:

| Module | What it is |
|---|---|
| `SyncClock` | Stamps, their order, the send and the receive rule. A stamp is the triple behind `phys:counter:node`; zero padding makes string order triple order up to 999999 writes in one clock reading. |
| `SyncStore` | One database per node: `nid`, `clock`, `row`, `tomb`, and the history variable `written`. The triggers (`LocalPut`, `LocalDelete`) and the protocol's primitives (`VersionVectors`, `CollectChanges`, `ApplyChanges`). |
| `SyncMesh` | The sessions: `SendPull`, `ServePull`, `ApplyPull`, `SendPush`, `ServePush`, `FailSession`, `LosePush`, and `ResetNode` for a cloned machine. |
| `SyncProperties` | What the mesh promises. |
| `ReplicatedMap`, `SyncRefinement` | The abstract specification (every node writes on its own, knowledge only grows, higher rank wins) and the mapping `seen` that shows the mesh implements it. |
| `SyncTornCollect` | `SyncMesh` with `collect_changes` split into its SELECTs. |
| `SyncStaleApply` | `SyncMesh` with `apply_changes` split into the decision on its first change, read before the write lock is held, and its execution. |
| `SyncRestore` | `SyncMesh` with a backup that replaces the database of its own node. |
| `MCSyncMesh`, `MCSyncPair`, `MCSyncStale`, `MCSyncRestore` | TLC instances. |
| `SyncStoreProofs`, `SyncProofs`, `SyncGapProofs`, `SyncSplitProofs` | Proofs: about stamps and one merge; about the mesh and its refinement; about version vectors and what merges deliver; about the two modules with a split call. |

A row's content is abstracted to its stamp: two rows with one stamp were written by one statement.
`Held(n)` is what `version_vector` and `collect_changes` range over; the put records of
`sync_oplog` are never read by the protocol and are left out. `ApplyChanges` is one action with
everything the code does: puts, deletes, tombstones, and the receive rule in the same transaction.
Tombstones are a set where the code appends: a repeated delete adds a row that nothing can tell
from the first.

Spawn:

| Module | What it is |
|---|---|
| `SpawnTasks` | The `tasks` table (`row`, `pid`, `code`, `attempt`, `retryOf`, `respawnedAs`), the spawn call (`Reserve`, `Launch`, `LaunchFails`, `Release`, `RecordLaunch`, `CallFails`), the child and its wrapper (`ChildExit`, `WrapRecord`, `WrapFails`), the status readers and `task_kill` (`ReapFinished`, `CloseIdle`, `ForceKill`). |
| `SpawnWatchdog` | A sweep of `_refresh_all_running` on each `Host`: snapshot, visit row by row, kill, close, one commit, continuations. |
| `TaskLife` | The abstract specification: what a reader of the table may rely on of a task, without processes, sweeps and locks. |
| `SpawnProperties`, `MCSpawn`, `SpawnProofs` | Properties and the mapping `LifeOf` of a row to its life, TLC instance, proofs. |

`run_write` is one step that needs the write lock free. A sweep runs on a legacy connection: its
first UPDATE takes the lock (`writer`), what it wrote is `pending` until `Commit`, and the kill grace
passes in between. A write to a row that another connection cannot see yet therefore blocks rather
than races, and the model shows exactly that. Abstractions: every child has the same size, so the
budget counts children (`Slots`); `old` stands for the age limits of a headless and of a Terminal
child, both an hour and both far longer than a spawn call; `SIGTERM` is the child's own exit, since
a child may also ignore it; a continuation may be refused for many reasons and all of them are
`RetrySkip`; the session of the daemon exists before the first timeout, so `_ensure_session` does
not commit inside a sweep. Pids are not reused. Daily token and cost caps are not modelled.

Curator:

| Module | What it is |
|---|---|
| `CuratorPass` | A tick (`Create` or `Advance`, then `Check` and `Endorse` or `Plan`, and per launch `Refused`, `Spawned`, `Mark`, the unprepared variants, or `Die`), the daemon's first `Look` outside the lock, the child that writes and overwrites its report (`Write`, `End`), and the watchdog (`TimeOut`, `Restart`, `RecordRestart`). |
| `CuratorProperties`, `MCCurator`, `CuratorProofs` | Properties, TLC instance, proofs. |

A tick reconciles everything that ended before it plans. `Advance` is one pass over the rows
(`Reconcile`: each phase follows its child); only when all batches are reviewed a last look at the
reports follows (`Check`, `_invalidate_unbound_batch_reports`) and then the endorsement (`Endorse`).
The three are steps of their own, because a child writes files, not rows, and no transaction keeps it
from overwriting a report after the look. Each launch is a step too, since the process may die before
or after it; `started` and `lost` remember what no table does, the children that were started and
those whose tick died before it recorded them. A tick keeps the launches it has
planned as a set (`plan`) and takes them in the order of the batches (`Job`). The content of a report is
abstracted to what the code asks of it: a draft, final, or final with proposals to verify. A closed
row that nothing refers to any more is forgotten, so that two task numbers serve for many children.

Evolve:

| Module | What it is |
|---|---|
| `EvolveApplier` | A pass of a daemon: `Sweep`, `Merge`, `Ready`, `Update`, then `UpdateRed`, or a repair by `Choose` (entry and ledger are read), `Repair` (lock, look for children, start) and `Record` (the attempt, when the lock is free again), or issues by `Peek`, `Enter`, `Check`, `Post`, `Race`, `Spawn`. Calls by hand: `Manual`, in queue mode (`Select`) or for a named issue (`SelectNamed`), enters at `Check`; `RepairByHand`. Children (`OpenPull`, `MarkApplied`, `Push`, `End`) and the watchdog that restarts them (`TimeOut`), GitHub (`Checked`), the passing of time (`Expire`, `Cooled`), people (`Intervene`) and failures (`Unreachable`, `Abandon`, `Die`). |
| `EvolveProperties`, `MCEvolve` | Properties, six small deployments for TLC. |
| `IssueDesk` | The abstract specification: each issue is open, started, under review or merged. |
| `EvolveProofs` | Proofs. |

`github` is what the machines share, `ledger` what each knows by itself. A pass reads the queue of
pull requests once and then acts on entries that may be outdated (`queue`). What is abstracted: every
pass is a full one with the landing sweep first, which contains the landing-only pass (`Rest` ends it
early); intervals and classes of outcomes only decide how soon the next pass comes, and are
fairness; the reads of claims and of open pull requests in `Check` are one step. Drafts, deaths,
lost calls and acts of people are bounded by `site.faults`. Assumed of GitHub, which is external:
comments are read in the order in which they were posted, the search for pull requests is up to date,
branch protection is strict about an outdated base, and a head without any check is mergeable only
where none is required (`site.required`), which is when `_pr_checks_state` takes it for a passing one.
A claim, which lives for a day, outlives the pass, the child of an hour and its continuations on the
machine that posted it (`Expire`). A process has at most one child and one continuation at a time: a
later one takes the place of the one before. One daemon per machine runs passes (`Daemon`); that is
what `DAEMON_HOST_ENABLED` gives. A named issue is exempt from cap and backoff, as it is in the code,
and so is a repair by hand; both are starts that no bound counts. Work items from curator reports and
suggestions and the managed checkout are not modelled.

One machine:

| Module | What it is |
|---|---|
| `StorageKeys` | `tk-storage`: init, copy, restore, rekey, recover, and removal of a file, split into the calls of secret store and file system; `Break` may end any of them. |
| `ObservationLease` | A validator pass (`ReadFinished`, `ReleaseFinished`, `TryLock`, `ReleaseStale`, `SkipPoison`, `Collect`, `Claim`, `SpawnValidator`), its death, the end of a child, its timeout and continuation (`TimeOutValidator`, `Restart`), the session that resolves an observation, and the six hours after which a claim is overdue. |
| `HostElection` | A host (`Elect`, `Register`, `HostBeat`, `GiveUpHost`, `Fail`) and `ensure_host_running` in every server (`Ask`, `Look`, `Terminate`, `Kill`, `Compare`, `Clear`, `SpawnHost`, `Leave`). |
| `TaskHandles` | The handle of one headless child: `CreateTask`; `tasks/get` as `Poll`, `ReadHandle`, `Judge`, `UpdateTerminal`; `tasks/cancel` as `Cancel`, `TaskKill`, `NoteCancel`; the child, its exit recorder and the retention of rows. |
| `MCMachine`, `MachineProofs` | TLC instance and proofs of the four. |

The four share no state in these models (`TaskHandles` has a row of `SpawnTasks` to itself), so `MCMachine` explores one at a time (`subject`). Abstractions: one
`tk-storage` command at a time, and `PRAGMA rekey` is transactional; thresholds of the validator,
which only delay a pass, and its skips for noise, duplicates and age are left out; a pid is not reused
while somebody remembers it, and a healthy host beats in time; the child behind a handle has a
recorded pid.

`Resolve` is an act of a session that may write, and may never happen. The docstring of
`dialectic_observation_resolve` says that the validator child calls it; but that child has
`memory_access="propose"` (`dialectic_validator.py:579`), the tool is not one that may be proposed, and
`guard_tool` (`memory_access.py:198`) therefore denies the call to it and to its continuations. What a
child leaves behind is returned again and again, until `_resolve_poison_pending` gives it up: that,
and not the child, is why `ObservationsResolved` holds.

## Checks

| Run | Instance | What it asks |
|---|---|---|
| `sync_mesh` | 3 nodes in a line, 3 cloned from 1 or 2, 2 rows, 3 writes, node 1's clock ahead | `TypeOK`, `ClockDominates`, `StampsUnique`, `NoResurrection`, `NoGap`, `NeverBack` |
| `sync_deliver` | the same line, 1 row, 2 writes, a session of node 1 may fail, fairness | `DifferenceShows`, `MergesCommute`, `ImplementsMap`, `EveryWriteArrives`, `Converges` |
| `sync_torn` | 2 nodes, 2 rows in different tables, 2 writes | `NoGap` is violated |
| `sync_stale` | 2 nodes, 2 rows, 2 writes | `StaleNeverBack` is violated |
| `sync_restore` | 2 nodes, one backup and one restore, fairness | `Converges` is violated |
| `spawn_lifecycle` | 3 headless tasks, room for 2, 1 retry, 2 sweeping processes | `TypeOK`, `WithinBudget`, `NoOverlap`, `OneContinuation`, `VerdictStands` |
| `spawn_settles` | 2 headless tasks, 1 in a Terminal window, 1 sweeping process, 1 fault, fairness | `Settles` |
| `spawn_timeout` | 1 task and its possible continuation, 1 sweeping process, no fault | `TimedOutIsMarked` is violated |
| `curator` | 1 batch of skills, a daemon and a manual tick, 2 children, 2 attempts, no continuation and 2 passes or 1 of each, 1 fault, fairness | `TypeOK`, `SoleWorker`, `PassesApart`, `EndorsedIsReviewed`, `SpendBounded`, `PassEnds` |
| `curator_continuation` | the same batch, one ticker, 1 pass, 1 continuation, no fault | `NoDuplicate` is violated |
| `evolve` | two machines on one issue; a daemon and calls by hand on two machines, and on one with two faults; one machine with two issues; one with two attempts; one with continuations and without required checks; 2 pull requests, 1 repair each, fairness | `TypeOK`, `MergedGreen`, `OneImplementer`, `OnePull`, `SingleFlight`, `SpendBounded`, `Drains`, `ImplementsDesk` |
| `machine` | 2 databases and 4 keys; 2 observations, 2 passes, 5 validators, 1 continuation, 1 fault; 3 host processes, 2 servers, 2 faults; 1 handle, 2 requests, 1 fault; fairness | `TypeOK`, `KeyOpens`, `OneReader`, `ChildrenBounded`, `ObservationsResolved`, `HostServes`, `FinalIsOver`, `HandleSettles`, `CancelPrevails` |

Bounds and why they suffice. *Writes and rows*: a resurrection needs a put, a delete and a late put;
a gap needs two writes of one origin; a conflict needs two nodes to write one row: three writes of
two rows contain all of them. *Nodes in a line*: relay needs a middle node, and cloning a spare one.
*Wall clocks*: a constant reading is the worst case, because every stamp then depends on the
counter and on absorption, and node 1's clock ahead of the others makes clocks jump on receipt.
*Failures*: one failed session suffices to leave a push behind that is handled after the next one.
*Tasks*: two continuations of one task need three tasks; room for two makes the third reservation
wait. *Hosts*: two sweepers show every race of two closers. *Faults*: one is enough for each kind of
row that nobody answers for. *Curator*: batches meet only in the lock, the width and the completion
of the pass, and one batch with two children already has duplicates, overwritten reports and
continuations; a second pass is needed for a child that outlives the first, and a continuation that does
is neither seen by the next pass nor able to write into it. *Evolve*: every race is
one of two passes, and the first deployments are the ways in which two can meet; two pull requests
let one put the other behind; the last has what the others lack, a worker that nobody sees and a head
without checks. *Keys*: a copy from one path to another needs two. *Leases*: the second
observation makes a batch that is only partly lost; two requeues of two observations need at most
four children, and a continuation is the fifth; one fault is a late release, a timeout, a refusal, a
death or a resolution. *Hosts*: two servers race over one pidfile while a third process is the replacement.
*Handles*: a reader and a cancellation, or two cancellations, are two requests.
All bounds are `CONSTANT`s named in the modules (`MaxWrites`,
`MaxFails`, `MaxFaults`, `MaxPasses`, `MaxPulls`, `MaxKeys`, `MaxLeaseFaults`, `MaxHostFaults`,
`MaxHandleFaults`, and `faults` of a deployment); the proofs hold for every value.

Deadlock is not checked outside sync: in the other systems all work may be over. Symmetry is used only in
`spawn_lifecycle`, whose properties are all safety.

Fairness. `SyncMesh!Fairness` is weak fairness of each node's session steps: `_serve_loop` of the
daemon never ends while its process lives, the server has a thread per request, and a request that
was sent is answered or fails. Failures are bounded by `MaxFails`, so it says that failures stop at
some time, not that they do not happen. Writing, cloning and failing need not happen.
`SpawnWatchdog!Fairness` is weak fairness of the steps of a spawn call, of the passing of time and
of each daemon's sweep (`_daemon_loop` never ends). A child is never assumed to exit, and nobody is
assumed to ask for a status.
`CuratorPass!Fairness`: the daemon ticks for ever, a tick takes a finite time, the watchdog acts, and
a spawn that is refused by the budget again and again succeeds at some time, since the budget is
freed (`Settles`). The manual tick and the end of a child by itself are not assumed.
`EvolveApplier!Fairness`: the daemon of each machine wakes for ever, and because
`_apply_pass_needed_now` asks for a full pass again and again, it is not always the landing pass that
does (strong fairness of the step into the rest of a pass); a step of a pass, a child and a check end;
claims and backoffs run out. `LeaseFairness`: passes, ends of children, time. `HostFairness`:
processes run, time passes, and sessions keep starting, each with a call of `ensure_host_running`:
without them nobody replaces a host, and the code promises nothing either. `HandleFairness`: the
client polls, a request ends, and so does the child, in the last resort by the watchdog; the exit
recorder may fail.

`claim_pass` of `daemon_state.py` grants one pass per interval, and every pass on any storage error.
The models let every process tick at any moment, so nothing they show rests on it.

## What the runs found

Five runs end in a violation, each of something the repository states; `PROJECT.json` quotes the
lines.

1. `sync_torn`: `collect_changes` reads its tables one SELECT after the other without a
   transaction. A write to a table already read, followed by a write to a table still to be read,
   sends the second without the first; the peer's version vector covers both from then on.
2. `sync_stale`: `apply_changes` reads the local version of a row before its first INSERT opens the
   transaction. A newer local write that commits in between is overwritten by an older one.
3. `sync_restore`: a backup restored under the same identity, which `docs/sync.md` allows, issues
   stamps below those its peers already have, and never gets back what it wrote after the backup.
4. `spawn_timeout`: after the `SIGTERM` of the watchdog the exit recorder, or a status reader,
   usually closes the row first. Then there is no return code 124, no event and no continuation.
5. `curator_continuation`: the watchdog closes a row, starts the continuation and records it as three
   commits. A tick in between sees an ended child without a successor, fails the batch and launches
   its own retry; `docs/ARCHITECTURE.md` says that the batch follows the continuation instead.
   `_running_curator_children` cannot help: the continuation's prompt begins differently.
   `SoleWorker` and `PassesApart` are therefore stated for machines without continuations, and so is
   the part of `EndorsedIsReviewed` that speaks of reports which stay final.

The applier and the validator look for running children in the same way, by a prefix that
`_continuation_prompt` does not have, and their roles are restarted. Their models have the
continuations, and the properties say how far they hold with them: `SingleFlight` and `OneReader` allow a
second worker where one of the two is a continuation, and `ChildrenBounded` counts the children that
passes start; a continuation is the watchdog's, and `SPAWN_TIMEOUT_RETRY_LIMIT` is its bound. So on a
machine that restarts, a pass can start a child in a checkout where a continuation still works, and a
claim of a timed-out validator is released while its continuation reads the same observations.
`OneImplementer` and `OnePull` hold with continuations too: a claim lives for a day, and nobody starts
on an issue that is claimed.

The three bounds on spending bound the children that ticks and passes start, not what tables count;
what the watchdog restarts comes on top. Each has an excess of its own, which the model follows in a
variable. `CuratorPass`: a tick that dies between a
spawn and its record costs one more (`lost`). `EvolveApplier`: the same (`lost`); what a person asks for
by number is not bounded. `ObservationLease`: a release outside the lock, between the look for
observations at the limit and the reading of the batch, costs one more (`slipped`).

`SyncMesh` itself takes one call of the protocol as one step; its proofs therefore say what holds
once 1 and 2 are repaired by a transaction around the call. What breaks without is delimited by
proof. Of 1: nothing but the honesty of version vectors. `TornSpec` still implements the replicated
map, keeps all invariants of the stores, and no node goes back (`TornImplementsMap`,
`TornKeepsStores`, `TornNeverGoesBack`); writes are lost to a peer, never confused. Of 2: one row at a
time. Clocks and stamps are not affected (`StaleKeepsClocks`), and of all the rows of a changeset a
node can go back only in the first one that is merged (`StaleLosesOneRow`). Deleted rows can come
back that way, so `NoResurrection` is not claimed there.

## Proofs

Everything below is proved for any finite or infinite number of nodes and rows, any peer lists and
wall clocks, and any number of tasks (finite), hosts and faults; for the curator for any batches,
tickers, children, attempts, capacity and passes. The assumptions are those of the
modules: node ids are positive numbers (the code's ids are distinct strings; only their order is
used), a node is not its own peer, tasks are finitely many (a budget is a cardinality). The evolve
theorems hold for any processes, machines, issues, deployments and bounds, the others for any paths,
keys, observations, validators, servers and host processes. What GitHub and the secret store are
assumed to do is part of the actions and listed with the modules above.

| Theorem | Module | Argument |
|---|---|---|
| `TypeCorrect`, `ClockDominance`, `UniqueStamps`, `NoneResurrected` | `SyncProofs` | `Inv == StoreInv /\ SessionInv` is inductive |
| `NeverGoesBack` | `SyncProofs` | `Inv`, and every step keeps `Covers` |
| `MeshImplementsMap` | `SyncProofs` | initial states and steps map to those of `ReplicatedMap` |
| `VersionVectorsHonest` | `SyncGapProofs` | `GapInv` is inductive relative to `Inv` |
| `DifferencesShow` | `SyncGapProofs` | from `Inv` and `GapInv`: who is sent nothing holds the newest version of every row (`EmptyIsNewest`) |
| `MergeOrderFree` | `SyncGapProofs` | after any merges the newest of all that arrived wins (`BothWin`), by `OneWinner` |
| `TornKeepsStores`, `TornNeverGoesBack`, `TornImplementsMap` | `SyncSplitProofs` | `TornInv == StoreInv /\ Sessions` is inductive |
| `StaleKeepsClocks`, `StaleLosesOneRow` | `SyncSplitProofs` | `StaleInv` is inductive: `HistoryInv`, which is `StoreInv` without `NoResurrection`, `Sessions`, and a decision is about one change |
| `SpawnTypeCorrect`, `BudgetKept`, `NeverOverlaps`, `ContinuedOnce`, `VerdictsStand` | `SpawnProofs` | `Inv == TypeOK /\ CallInv /\ SnapshotInv /\ EndedInv /\ ClaimInv /\ RoomInv` is inductive |
| `SpawnImplementsLife` | `SpawnProofs` | with `Owed` and `Unused`, every step maps to a step of `TaskLife` |
| `CuratorTypes`, `SpendIsBounded` | `CuratorProofs` | `BatchInv == TypeOK /\ OnePhase /\ SpendInv /\ PlanDue /\ Unendorsed` bounds the attempts, `Counted` the starts by them; both are part of the inductive `CuratorInv` |
| `PassesStayApart`, `OneChildPerBatch` | `CuratorProofs` | `CuratorInv == BatchInv /\ Counted /\ Finished /\ (limit = 0 => Placed /\ FilesKept)` |
| `EndorsementsAreReviewed` | `CuratorProofs` | `Finished` and `FilesKept` of `CuratorInv`: when all batches are reviewed, no open child is left to write |
| `TypeCorrect`, `OneChildPerMachine`, `IssueImplementedOnce`, `IssueReviewedOnce` | `EvolveProofs` | `Inv == TypeOK /\ Chosen /\ Locked /\ Orderly` is inductive |
| `ApplierImplementsDesk` | `EvolveProofs` | every step moves at most one issue, by a move of `IssueDesk` |
| `GreenWhenMerged` | `EvolveProofs` | `Green`, relative to `Inv` |
| `SpendNeverExceeded` | `EvolveProofs` | `Affordable /\ Budgeted` for issues, `Hopeful /\ Mended` for pull requests, relative to `Inv` |
| `KeysOpenFiles` | `MachineProofs` | `KeyInv == KeyTypeOK /\ KeyPhase /\ KeyOpens` is inductive |
| `OneHost` | `MachineProofs` | `HostTypeOK`, which includes the exclusion of hosts, is inductive |
| `OneOwner`, `BoundedChildren` | `MachineProofs` | `LeaseInv == LeaseTypeOK /\ Exclusive /\ Fresh /\ Paid /\ Below` is inductive |
| `HandleTruthful` | `MachineProofs` | `HandleInv == HandleTypeOK /\ Over` is inductive |
| `MachineTypes`, `MachineSafety` | `MachineProofs` | the four inductive invariants, carried over to the composition `MCMachine` |

`SpawnImplementsLife` and the theorems of `SyncSplitProofs` have no run of their own: the properties
they state are proved, and TLC explores their specifications in the runs of spawn and of findings 1
and 2 for other properties.

Why the strengthenings are needed. *Sync*: `StampsUnique` is not inductive alone; a new stamp is
fresh because no write is ahead of the clock of its author (`OwnClock`) and because an identity is
used by one node (`OwnIdentity`). A clone starts with a clock past everything it copied, so
`ClockDominates` survives it. `NoGap` must also hold for what is on its way: `SessionGap` says that
a version vector in a session stays honest while writes go on (new writes lie above it), and that a
changeset closes whatever gaps its receiver has up to its own highest stamps (`Delivers`), whether
it arrives next, late, after other changesets, or not at all. That is the reason `collect_changes`
may skip what a version vector covers. `DifferencesShow` and `MergeOrderFree` draw the conclusion:
rows compare as the newest of all that was written and arrived, so neither the order of late
changesets nor their repetition matters (`OneWinner`, `BothWin`), and a session that finds nothing to
send has nothing to send. The modules with a split call have no version vectors to trust, which is
why `SyncStoreProofs` proves what a merge does to a database (`AbsorbEffect`, `MergeCovers`,
`ReceiveKeepsHistory`, `ApplyKeepsHistory`) for any set of written changes, whoever collected it.
*Refinement*: a merge maps to a learning step because
`Covers` is monotone; a local write maps to `Write` because `ClockDominates` makes its stamp
outrank all its author has seen. *Spawn*: a sweep acts on a snapshot, so `SnapshotInv` says what of
it cannot have changed (a recorded pid stays; an old row without a pid gets none); `EndedInv` says
rows close only for children that are gone or were never tracked by pid, which gives the budget its
link from running children to open rows; `ClaimInv` gives a timed-out task to exactly one daemon,
then to exactly one continuation, and so makes the guard `ended_at IS NULL` the only arbiter.
`VerdictsStand` needs that a child timed out is dead with its wrapper: the wrapper writes
`return_code` unconditionally, and only the kill of the whole process group keeps it from doing so
after the row was closed. `SpawnImplementsLife` puts these together: to a reader of the table all
closers and sweeps are one life cycle. It needs that a daemon restarts only what has its verdict
(`Owed`: committed, or in the transaction of that daemon), and that a task which was never spawned
continues nothing (`Unused`).

*Curator*: `SpendBounded` is not inductive, because a report that changes reopens an evaluation and
with it a verification; `SpendInv` says how many attempts each state of a phase has used, and `PlanDue`
that a launch planned at the start of a tick is still due at its turn. `Counted` ties what was started
to what was counted: the difference is the child that a tick is about to record, or those that were
lost with one. That one child works on a batch
needs to know where every open child is (`OpenPlaced`): recorded with its batch, about to be recorded
by the tick that spawned it, or lost with that tick; then nothing is launched until it ends, because
ticks recognize its prompt. The same answers the question whether a report can become a draft again
between the last look at it and the endorsement (`FilesKept`): a child writes only while its row is
open, and then it is recorded with a running phase, or recognized as nobody's, so that not all batches
are reviewed. Neither holds with continuations, which is finding 5.

*Evolve*: nothing but the order of comments decides a race of machines, so `Claimed` says that
whoever starts or runs an implementer has the oldest claim on its issue, and `Posted` that whoever
races has one; continuations inherit both, since `Expire` waits for them. `OnePull` needs a bridge
between claims and pull requests, because a claim goes before its pull request does: `Late` says that
while a pull request is open, whoever still wants the issue is behind an older claim, or has yet to
look. `Locked` gives the lock of a machine to the process that checks and starts, and one child to all
the passes and calls of a machine, which is what `SingleFlight` rests on. `Chosen` says that a pass on its way
to a repair has one entry in its hands. Most steps change none of this (`Quiet`).
The refinement maps an issue to merged, under review, started or open by what GitHub and the workers
say (`Progress`); `OneMove`, `PullMove`, `ChildMove` and `HandMove` show that a step about one issue
never disturbs another. `MergedGreen` follows since an entry read earlier is usable only for the head
it was read at (`Current`). `SpendBounded` is about starts, and attempts are read before the lock and
recorded after it. For issues, a process about to start has an attempt left (`Affordable`), although its
candidates are older than its lock: if another process of its machine used the last one meanwhile, the
claim of that process is still there and keeps it from starting; `Budgeted` counts starts by records and
losses. For pull requests nothing but the order of one daemon's steps helps: it is the only process of
its machine that repairs in a pass (`LoneRepair`), so the attempt that it read before the lock is still
there when it starts (`Hopeful`), and what it has started is recorded, about to be, or lost with it
(`Mended`). *Keys*: `KeyPhase` says for each stage of a command which slot holds which
key; the middle of a rotation is the only time at which the file may open with either. *Leases*:
`Paid` counts: every child that a pass gave an observation, but the one that owns it now, was paid for
by a requeue, whichever release made it and however often it was counted; `Below` carries the limit,
with what `slipped` past it, from the batch that was read to the start. `Exclusive` needs both the lock
and the look at running children under it; it is about children of passes, which are all that the look
sees. *Handles*: a status on its way was decided when the row was closed, and rows do
not open again (`Over`).

Only model-checked: `EveryWriteArrives`, `Converges`, `Settles`,
`PassEnds`, `Drains`, `ObservationsResolved`, `HostServes`, `HandleSettles` and `CancelPrevails`, which
are liveness under fairness and out of the prover's reach; and the five violations.

## Not modelled, and why

The table of components in `PROJECT.json` gives the reason for each. In short: `rebuild_derived`
and the vector indexes are derived data that never travel; schema creation, authorization and
framing are I/O; the contents of prompts, scores, rendering, adapters and configuration are data.
The bulk of the source is of that kind, which is why the modules cover a small share of its lines
although they cover most of what runs concurrently.

`HostServes` has one exception, `Lost`: a host that hangs and whose pidfile was never written, or was
removed by a server that meant another one's, holds the lock and cannot be found. No property forbids
the kill of a host that recovers between the look at its heartbeat and the signal (`Look`,
`Terminate`). `StorageKeys` has no two commands at once, and no sidecar files. A handle that says
`completed` may still become `cancelled`, or `failed` once retention has deleted the row of its task:
a final status of `TaskHandles` is not final in that sense, and only `CancelPrevails` is promised.

What still has control worth modelling is planned:

1. *Next.* `GithubBudget`: a cooldown with calls in flight, composed with the calls of `EvolveApplier`.
   `TaskHandles` over `SpawnTasks`. The sweep of `SpawnWatchdog` in place of the watchdog of
   `CuratorPass`.
2. *After that.* Second unique keys and version skew in `SyncStore`; the migration; skill life cycles
   and their mirror; two `tk-storage` commands at once.
3. *Proofs*: what remains of `SoleWorker` on machines with continuations; an abstract lease that
   `ObservationLease` implements; `KeyOpens` for two commands at once, once they are modelled.
