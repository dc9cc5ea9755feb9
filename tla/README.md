# Cache Cleaner: specification and proofs

TLA+ models of the cache cleaner daemon (`src/`), the TLC runs that check them on
small instances, and TLAPS proofs of the properties that matter most. Every
definition that stands for code is tied to its lines in `PROJECT.json` ("map").
Paths below are relative to `src/src/`.

## 1. The system

The program deletes cache entries of Android apps. A process, either the daemon
or a one-shot `cleaner clean`, runs one pipeline:

    catalog -> scanner -> safety gate, policy -> planner -> authorization
            -> executor -> store
    recovery: at every start, over what the last process left in the store

What makes it hard is that deletion is irreversible, that the process may be
killed at any moment, that apps write to the tree while it is cleaned, that every
SQLite statement can fail, that several processes may be started on the same
store, and that inside the daemon an event loop, IPC workers and cleaning workers
share a few flags.

| Part | State | Operations | What is hard |
|---|---|---|---|
| Store (`store/`) | jobs, attempts, operation_intents, operations | upserts and updates, queries of unfinished work | every statement may fail; keys are reused; results are keyed by job, not by attempt |
| Executor (`executor/`, `fs/`) | plan, index, successful ops, cached directory handle | intent, MUTATING, stat, unlinkat, verify, result | crash or error between any two; the entry changes between two system calls; a stale handle |
| Verifier (`verifier/`) | none | lookup after the mutation | what it sees is already past |
| Recovery (`recovery/`) | attempts and intents still to look at | verify, settle intent, book result, close attempt, close job | runs beside a live process; crashes itself |
| Scheduler, worker pool (`scheduler/`, `worker/`) | one slot, id counters seeded from the store | admit, coalesce, claim | a slot that is never emptied; counters seeded from a failing query |
| Pipeline (`pipeline/`, `engine/`) | configuration generation | execute(), update_config | early returns leave rows open |
| Process life (`system/watcher.rs`, `system/pidfile.rs`, `cli/`) | lock file, PID file, sockets | start, lock, exit, stop, restart | the daemon reconciles before it locks; files are removed by path while others have them open; PIDs are reused |
| Daemon control (`system/daemon_state.rs`) | is_cleaning, shutdown_requested, state, cancellation token, job records | IPC commands, maintenance, shutdown | check and use in different critical sections; one token for all cleans |
| Event loop (`system/event_loop.rs`, `system/signals.rs`, `system/psi.rs`) | timer, deadlines, backoff, screen state | one batch of events after the other | blocked in `epoll_wait` or on the engine mutex when a flag is set; lost uevents; level-triggered descriptors |
| IPC server (`ipc/`) | worker count | accept, run a command | four workers at most, counted without a lock |
| Scanner, safety, policy, planner, auth | candidates, plan, grant | walk, filter, order, authorize | the tree changes during the walk; order and dependencies of operations |
| Resource manager (`resource/`, `util/rate_limiter.rs`) | permits, target locks, tokens | acquire with timeout, release, reserve, pace | lost wake-ups, threads that hold permits and wait for more, bursts |
| Catalog (`catalog/`, `platform/`) | snapshot, generation | discover, publish | users unlock and leave during discovery; ids collide |
| Configuration (`config.rs`, `config_pipeline/`) | layered files, two copies in memory | load, save, reload | torn files; two copies under two locks; two validations |
| Idle policy (`system/idle/`, `hardware/thermal.rs`) | hysteresis state | assess | state read and written under different locks; missing sensors |

The full list of components, with what is left out of each, and the hazards,
each at the line where it bites, are in `PROJECT.json`.

## 2. Modules

| Module | Models |
|---|---|
| `Domain` | constants, intents, planned operations, statuses, outcomes |
| `Store` | the four tables and each statement on them; `StoreFails` makes one fail |
| `Disk` | the directory tree as path -> identity, handles, lookups, apps that write and remove |
| `Engine` | the local state and control point of a process |
| `Executor` | `CleanupExecutor::execute_plan` |
| `Recovery` | `RecoveryEngine::reconcile_startup_crashes` |
| `Scheduler` | `SchedulerService`, `WorkerPool`, the configuration generation |
| `CleanPipeline` | composes all of the above with the life of any number of processes; the properties |
| `DeletionLedger` | the abstract specification: what durable deletion promises |
| `LockOwner` | the abstract specification: what the PID lock promises |
| `DaemonControl` | the threads of one daemon: loop, IPC workers, cleaning workers |
| `EventLoop` | `LoopState` and its driver in seconds: deadlines, backoff, screen, uevents, PSI |
| `PidLock` | any number of processes over lock file, PID file and sockets, one system call per step |
| `Resources` | `ResourceManager` and its users: permits, condition variable, target locks |
| `RateLimiter` | `TokenBucketRateLimiter` |
| `IpcAdmission` | `IpcServer::accept_and_handle` and its count of workers |
| `Planning` | scan, safety gate, policy, planner and authorization of one job |
| `Catalog` | `TargetCatalog::discover_all_targets` |
| `IdlePolicy` | thermal hysteresis and `IdlePolicy::evaluate` |
| `ConfigLayers` | configuration files, validation, save and reload |
| `MCCleanPipeline`, `MCDaemonControl`, `MCEventLoop`, `MCPidLock`, `MCParts` | constants for TLC |
| `PipelineInvariant` | the inductive invariants of CleanPipeline |
| `ActionProofs` | one lemma per action of CleanPipeline: what its step guarantees |
| `CleanPipelineProofs` | the theorems about CleanPipeline |
| `DaemonControlProofs`, `EventLoopProofs`, `PidLockProofs` | the proofs about the module they name |
| `ComponentProofs` | the proofs about Resources, RateLimiter, IpcAdmission, IdlePolicy and ConfigLayers |
| `PlanningProofs` | the proofs about Catalog and Planning |
| `PartsProofs` | `MCParts` implements each of its parts |

**CleanPipeline.** A step is one system call or one SQL statement, since a crash,
an app or another process can come between any two. `pc[p]` is the place in
`execute_plan`, `reconcile_startup_crashes` or `execute()`; `job`, `attempt`, `at`,
`outcome`, `plan`, `done`, `todo`, `listed` are the locals of those functions.
The store survives a crash, the locals do not. An identity stands for what
`stat` tells apart (device, inode, times, size); `unlinkat` goes by name, so it
removes whatever the name is bound to. `removed` and `observed` are history
variables: what was really unlinked and which operation some verifier saw gone.
No action reads them.

The main abstractions:

- the scan is one atomic read of the tree in `PlanJob`, and any subset of what
  exists may pass safety gate and policy; the interleavings that matter come after
  it, where the plan may be out of date;
- gates that refuse an operation before its intent leave no trace (`RejectOp`);
- the lease a claim takes is always granted: every process is `WorkerId(1)`;
- the PID lock is one atomic owner; `PidLock` has the files and says when that is so;
- a cancellation is modelled while a plan is executed; an earlier one makes the
  first poll true, which is the same behaviour;
- a claim is one step: `acquire_lease` and `create_attempt` are two statements, but
  the lease excludes nobody and nothing reads it;
- `Stop` is a shutdown that gives up waiting for its worker: the PID lock is dropped
  and the process is `gone`, but its clean goes on until the process ends, at rest
  (`Exit`) or in the middle of an operation (`Crash`). A panic is `Crash` too: the
  release profile aborts.

**DaemonControl.** A step is one critical section of the `runtime` lock or one
access to the token. A clean is claimed (flag set under the lock), its token
reset, its job entered (IPC only), its worker spawned; the worker locks the engine,
executes, clears the flag, records the job. What a clean does is CleanPipeline's
business. The loop handles its batch in the order of the code; when it exits, all
threads are gone. Deadlines are abstracted to "an armed timer may expire, and
maintenance may then be due"; `EventLoop` has them. One `ipc` event is one
connection. The fallback loop for kernels without epoll is not modelled.

**EventLoop.** `st` is `LoopState`, with instants as values of a clock in seconds.
`Wake` reads one batch (timer, SIGHUP, strongest PSI trigger, uevents, in the order
in which the driver queues them) and the loop handles it event by event; then it
arms the timer for `earliest_deadline` and waits. Meanwhile the screen changes,
with a uevent or an overflow of the socket, sensors allow maintenance or not,
IPC workers start cleans and reload the interval, and cleans end. A clean is claimed
(`is_cleaning`), then resets the token; reading sysfs, reducing the result and
cancelling the token are three steps of the loop, so a clean may be claimed or
end between them. `overtaken` marks a clean whose reset came after that cancel.
`blind` records what the code cannot see: no source of the screen state answered, an
overflow was reported in the middle of a read, where `read_events` drops it, or
the uevent socket could not be opened (`socket`).

**PidLock.** A lock path names an inode, and an advisory lock belongs to the inode.
`orphaned` and `misled` record that a file was removed under a process that
had it open or held the lock, which the code does not detect; the properties say
that nothing else goes wrong. A PID given to an unrelated process is `reused`.

**MCParts.** `Resources`, `RateLimiter`, `IpcAdmission`, `Planning`, `Catalog`,
`IdlePolicy` and `ConfigLayers` share no state, so one run checks all seven: each
behaviour follows one of them and the others stay at rest.

- `Resources`: a wait is split into the check of the predicate, sleep, wake-up by
  notification or timeout, and the second look; handles may also be opened
  without a permit, as the code does when it has none.
- `RateLimiter`: whole tokens and ticks in place of fractions of seconds.
- `Planning`: `now` is read once; the tree changes between any two steps of the
  walk. A listing may leave out entries without an error, as `read_entries_fd` does
  with special files, names that are not UTF-8 and what it cannot stat. `kept`
  records what no app touched, `missed` the targets that were not read in full.
- `Catalog`: one cache directory per package and area; the probe of a user's
  storage looks at a bounded number of entries. `/data` exists: without it every
  user is Unencrypted, and none of the directories can be opened.
- `IdlePolicy`: temperatures are thousandths of a degree, so that tenths survive
  `normalize_temp`. The verdict is a pure function, so its invariant ranges over all
  readings in every reachable hysteresis state.
- `ConfigLayers`: a configuration is its interval and its temperature limit, the
  fields whose limits differ between `validate` and `from_raw`.

## 3. Runs

| Run | Instance | States | Shows |
|---|---|---|---|
| `durable` | 1 process, a directory with a file, 3 identities, 1 store error, 1 app move, 1 crash, 1 reload | 495,558 | intent before mutation, success only when observed, removals accounted for after recovery, directories after their contents |
| `attempts` | 1 process, 2 jobs, 2 attempts, 1 store error, 1 crash, fairness | 541,183 | closed attempts stay closed, RECOVERED is backed, recovery and execute() end, refinement |
| `concurrent` | 2 processes, 1 file, 2 identities, 2 crashes | 776,011 | the protocol when a second process reconciles a live attempt; who executes holds the lock or was stopped |
| `daemon` | loop, 2 IPC workers, 2 cleans, batches of 2 events, 1 spawn failure | 1,182,055 | one clean at a time and an exact flag, no clean or reclaim shown that nobody is at, a cancellation stands once the worker exists |
| `daemon_live` | loop, 1 IPC worker, 2 cleans, 1 spawn failure, fairness | 63,060 | RUNNING jobs end, a requested shutdown ends the daemon |
| `loop` | intervals of 1 and 2 s, grace 1 s, backoff 1 to 2 s, clock to 4 s, 2 outside causes, fairness | 720,704 | the next attempt stays in sight, no spinning, the screen is known, screen-on preempts |
| `pidlock` | 3 processes, any of 6 programs each, 1 crash, 1 reused PID | 904,631 | one holder, files that name it, stop signals holders and leaves none |
| `parts` | see below, fairness of waiting threads | 365,056 | the properties of the seven parts |
| `dry_run`, `reload`, `lost_cancel`, `locked_storage` | | | the code disagrees with its documentation, section 7 |

Bounds and why they suffice. A directory with one file is the smallest tree with
a dependency. One crash reaches every control point, and the restart reconciles
what it left; two crashes in `concurrent` let recovery itself crash. One store
error reaches every error path; behaviours with two errors are left to the
theorems, which hold for any number. Two jobs and two
attempts are needed for ids to collide and for a coalesced job to run twice. Two
processes suffice for one to reconcile the other's attempt, as the lock keeps a
third from executing. In `daemon` two IPC workers race with each other and the
loop, and the second clean is the first that a stale token or flag can disturb.
In `loop` two causes are a change of the screen with a second one, an
overflow, a SIGHUP or a pressure event on top, and four seconds let
a retry, its doubled backoff and a renewed deadline meet. In `pidlock` the third
process is the one that sweeps files or stops while two compete. In `parts`: two
permits for three threads that hold up to two each, so that everybody can hold
and wait; three connections for two workers; trees of depth three with
young, foreign, linked and compiled entries and a code cache, the same paths in a
second target for some of them, a whitelisted package, a protected root and a
disabled category, with one change by an app, and more candidates than the plan
may hold; two users with CE and DE twins, one move, and a discovery after the
first; readings on both sides of the thresholds the hysteresis and the verdict turn
on, half degrees among them; two reloads that may overlap, with one edit.
Identities are interchangeable and so are IPC workers and processes, so `durable`,
`concurrent`, `daemon`, `lost_cancel` and `pidlock` use symmetry; the runs with
liveness do not. Deadlock is checked except in `pidlock` and `parts`,
where processes end and clocks, generations and budgets run out.

For every property of a passing run `PROJECT.json` names a mutation of the code
(operators commented "Mutation" next to the original) under which TLC finds
that property violated.

## 4. Fairness

`CleanPipeline!FairSpec`: weak fairness of each process's own work. A thread that
can run does run; system calls and statements return. Nothing is assumed of
requests, cancellations, apps or crashes, nor that a process comes back: the init
service is `oneshot` (`dist/module/cleaner_daemon.rc`). So `ReconciliationEnds`
and `ExecutionEnds` speak of a process that is not killed.

`DaemonControl!FairSpec`: weak fairness of the loop, of each IPC worker and of each
cleaning worker, and of the expiry of an armed timer. The arrival of other events
is not fair: a shutdown must not depend on one. A clean ends because
`execute()` does (`ExecutionEnds`).

`EventLoop!FairSpec`: weak fairness of the loop's own steps and of the end of a
clean, since the loop waits for the engine mutex when it reloads. The clock, the
screen and the sensors need not move.

`MCParts!Spec`: weak fairness of the timeout of a wait in `Resources` and of the
second look that follows it; nobody need release a permit, and nothing is assumed
of the other parts, which have no liveness property.

## 5. Properties

- `IntentBeforeMutation`: every removed entry is named by an intent in the store
  that is past COMMITTED.
- `SuccessIsObserved`: a result SUCCESS rests on a verifier that saw the deletion.
- `RemovalAccounted`, `ReconciledMeansDeleted`: with one process, a removal is
  settled or still listed for recovery as long as no statement has failed (after a
  failed one the code closes the attempt and forgets the intent), and RECONCILED
  attempts have only intents that were seen deleted.
- `DirAfterContents`: the intent for a directory is committed only after everything
  planned below it was seen deleted. It is said of the plans that are executed, and
  of the rows in the store as long as no statement has failed: after an error of
  `get_max_attempt_id` an id is used again, and the rows of two plans mix.
- `RecoveredIsBacked`, `AttemptsStayClosed`: what recovery writes about jobs and
  attempts.
- `ExecutesUnderLock`: who executes holds the PID lock, or is a daemon that was stopped
  and dropped the lock under its worker.
- `ImplementsLedger`: CleanPipeline implements `DeletionLedger`, with intents,
  removals and observations as the ledger.
- `CleaningHasOneOwner`, `CancelStands`, `JobEnds`, `ShutdownEnds`: section 2,
  DaemonControl.
- `StatusBacked`: a clean or a reclaim that GetStatus shows is in progress, or is a
  clean that could not be spawned. (Idle and Preempted may hide a clean that runs.)
- `AttemptInSight`, `NoSpinning`: the timer is armed for the next maintenance
  attempt or earlier, that attempt is at most two intervals (after a postponement,
  the longest backoff) away, and the loop wakes at most three times without a
  cause.
- `ScreenInSync`, `ScreenOnPreempts`, `ScreenOnNoticed`: a loop at rest knows the
  screen; no clean that was claimed before the screen was known to be on outlives
  the batch that says so, unless it was `overtaken`; a screen that stays on is
  noticed.
- `OneHolder`, `FilesNameHolder`, `StopHitsHolders`, `StopLeavesNone`: mutual
  exclusion by lock file, and a stop that hits the right process.
- `PermitsExact`, `NoLostWakeup`, `WaitEnds`: permits and locks are counted exactly,
  a released permit is never left while somebody sleeps, every wait returns.
- `BurstBounded`, `WorkersExact`: what a limiter lets pass in any stretch of time;
  the count of IPC workers.
- `PlanExecutable`, `PlanKeepsRules`: a plan can be carried out in its order, is
  complete below each directory it removes of a target that was read in full, and
  holds nothing that the gate or the policy keeps: protected roots, other devices,
  whitelisted packages, disabled categories among the four the policy tests, compiled
  code, anything below a code cache, young files.
- `SnapshotSound`: a published snapshot has one descriptor per id, external storage
  only of users judged unlocked, CE storage too if anybody was recognised, and
  leaves out no cache of a recognised user that stayed open.
- `VerdictSafe`: what an idle verdict allows, and the hysteresis exactly: Hot is kept
  down to 40 degrees, but a device that was at 50 or more is Warm as soon as it is
  below 45.
- `ConfigSound`: what a configuration in use guarantees.

## 6. Proofs

Each invariant below is inductive relative to the assumptions named next to it, and
was checked with TLC on small instances before it was proved.

**The pipeline.** `CleanPipelineProofs`, for any number of processes, entries, jobs,
attempts, operations, errors and crashes:

| Theorem | States |
|---|---|
| `TypeCorrect` | `Spec => []TypeOK` |
| `IntentPrecedesMutation` | `Spec => []IntentBeforeMutation` |
| `SuccessRestsOnObservation` | `Spec => []SuccessIsObserved` |
| `LedgerRefinement` | `Spec => ImplementsLedger` |
| `ExecutionUnderLock` | `Spec => []ExecutesUnderLock` |
| `Invariance` | `Spec => []IInv` |
| `PipelineUsesLock` | `Spec => Lock!LockSpec` |
| `DependenciesFirst` | `Spec => [](\A p \in Procs : DependenciesSeen(p))` |
| `SeqInvariance` | `Spec /\ []OneAtATime => [](DoneAll /\ SeqInv)` |
| `ReconciledRestsOnObservation` | `Spec /\ []OneAtATime => []ReconciledMeansDeleted` |
| `RemovalsAccounted` | `Spec /\ []OneAtATime => []RemovalAccounted` |
| `RecoveredJobsBacked` | `Spec /\ []OneAtATime => []RecoveredIsBacked` |
| `DirectoriesLast` | `Spec /\ []OneAtATime => []DirAfterContents` |
| `ClosedAttemptsStay` | `Spec /\ []OneAtATime => AttemptsStayClosed` |

Assumptions: those on constants named in `Domain`, `Store`, `Disk`, `Scheduler` and
`CleanPipeline`; TLC evaluates them in every run.

*Any number of processes at a time.* `IntentBeforeMutation` is not inductive: that an
executor at the unlink has an intent past COMMITTED is a fact about a row that other
processes may write, because a second daemon reconciles before it finds the lock
taken. `IInv` therefore says for every control point what the row says now, and is
kept by other processes because no statement replaces a row or returns it to
COMMITTED. That is what a step of `DeletionLedger` promises, so the refinement and
the invariant are proved together: each action satisfies `StepOK` (it is a ledger
step or a stutter, keeps attempts and results, leaves the other processes' locals
alone, and re-establishes the invariant of its own process), and `StepInductive`
gives `IInv'`. `ExecutionUnderLock` has an invariant of its own: a process past the
lock holds it or is `gone`. So has `DependenciesFirst`: `DoneInv` says that `successful_op_ids`
are operations seen deleted, and that they cover the dependencies of an operation
from its commit on.

*One process at a time.* What the store says of attempts and jobs is not kept when a
second daemon reconciles the attempt that the first is executing (section 7): it
closes the attempt, and the first goes on removing under it. `OneAtATime` excludes
that and nothing else: processes may crash anywhere, be started again, as daemons or
standalone, and any number of statements may fail. It holds of every behaviour with
one process, which is what the runs `durable` and `attempts` explore. `SeqInv` then says
that the process that is up agrees with the store: its attempt is RUNNING, and so are
those recovery has still to visit; what it removed is settled, or it is the
operation at hand, not verified yet; what recovery is through with is settled, and
seen deleted as long as all_succeeded is true; ids that are used up lie below the
counter. The crash keeps it because it says nothing of a process that is down and
leaves the attempt RUNNING; the start re-establishes it because recovery lists all
that is RUNNING and every row of it. Conjuncts that a failing statement breaks are
stated for `storeErrs = 0`. Most steps are `QuietMove`s, which touch nothing that
`SeqInv` is about; each of the others has its lemma.

**The daemon.** `DaemonControlProofs` proves, for any number of IPC workers, cleans, events per
batch and spawn failures:

| Theorem | States |
|---|---|
| `OneOwner` | `Spec => []CleaningHasOneOwner` |
| `StatusAlwaysBacked` | `Spec => []StatusBacked` |
| `CancellationStands` | `Spec => CancelStands` |
| `ControlTypes` | `Spec => []TypeOK` |

from `ControlAssumption`. `CleaningHasOneOwner` alone is not inductive: whether a
thread that finds the flag clear may claim depends on nobody else being between
claim and spawn, and on fresh run numbers having no worker. `OwnerInv` names the
owner: a thread that is starting a clean, or the worker it handed the clean to, at
most one in all. `StatusInv` puts `StatusBacked` in terms of the flag, which
`CleaningHasOneOwner` ties to the owner: whoever claims a clean after a reclaim was
shown answers for the state, and so the second look may leave it alone. The
cancellation stands because the only step that takes it back belongs to a thread
that is starting a clean, and while a worker runs there is none. (Before the worker exists it does not stand: `lost_cancel`, section 7.)

**The event loop.** `EventLoopProofs` proves, for all intervals, grace periods,
backoffs, clocks and numbers of causes, from `LoopAssumption`:

| Theorem | States |
|---|---|
| `Invariant` | `Spec => []LInv` |
| `LoopTypes` | `Spec => []TypeOK` |
| `AttemptAlwaysInSight` | `Spec => []AttemptInSight` |
| `ScreenKnown` | `Spec => []ScreenInSync` |
| `ScreenOnAlwaysPreempts` | `Spec => []ScreenOnPreempts` |
| `NeverSpins` | `Spec => []NoSpinning` |

`AttemptInSight` speaks of a loop that waits; `LInv` bounds every deadline at every
step, and more tightly (one interval) while a retry is pending, because a retry
that succeeds adds an interval to a deadline that may just have been renewed. For
the screen it accounts for what the loop has not been told: a difference is queued,
about to be reported as an overflow, or in the batch at hand, where what was read from
sysfs and not reduced yet counts as told (`Believed`). For `NoSpinning` it says what is
left to wake the loop after each wake-up without a new cause (`Spins`):
after one, no overflow and no SIGHUP, and maintenance and retry are due only if the
batch at hand has the timer; after two, nothing but what that batch handles; after
three, the batch is at most the timer and every deadline it leaves is later than now,
so there is no fourth.

**The PID lock.** `PidLockProofs` proves, for any number of processes, crashes and reused PIDs, from
`PidAssumption`:

| Theorem | States |
|---|---|
| `Invariant` | `Spec => []PInv` |
| `OneHolderAtATime` | `Spec => []OneHolder` |
| `FilesAlwaysNameHolder` | `Spec => []FilesNameHolder` |
| `StopAlwaysHitsHolders` | `Spec => []StopHitsHolders` |
| `StopAlwaysLeavesNone` | `Spec => []StopLeavesNone` |
| `FilesImplementLock` | `Spec /\ []~orphaned => Lock!LockSpec` |

`PInv` follows the inode: a lock is on the inode its owner has open; as long as no
path was removed under a claimant all claimants have the same one open; so there is
one holder, only it writes the PID file, PIDs found there are those of holders, and
stop finds nobody else.

`LockOwner` has one variable, the owner, which passes from nobody to a process and back
to nobody. `FilesImplementLock` maps it to the process that is between its flock and
its release: a step moves at most one process into or out of that stretch, and with
one holder before and after it is a step of the owner or a stutter. It holds of
behaviours in which LOCK_PATH is not removed under a claimant; with such a removal
there may be two holders (section 7). `PipelineUsesLock` maps it to CleanPipeline's
`lock`, so that the one variable there stands for what the files do here.

**The other parts.** `ComponentProofs` and `PlanningProofs` prove for each part of
`MCParts`, on its own specification and from its own assumption on constants:

| Theorem | States | Inductive invariant |
|---|---|---|
| `ResourcesExact` | `ResSpec => [](ResTypeOK /\ PermitsExact /\ NoLostWakeup)` | `ResInv` |
| `BurstAlwaysBounded` | `LimSpec => [](LimTypeOK /\ BurstBounded)` | `LimInv` |
| `AdmissionExact` | `AdmSpec => [](AdmTypeOK /\ WorkersExact)` | `AdmInv` |
| `VerdictAlwaysSafe` | `IdleSpec => [](IdleTypeOK /\ VerdictSafe)` | `IdleInv` |
| `ConfigAlwaysSound` | `ConfSpec => [](ConfTypeOK /\ ConfigSound)` | `ConfInv` |
| `SnapshotAlwaysSound` | `CatSpec => [](CatTypeOK /\ SnapshotSound)` | `CatInv` |
| `PlanAlwaysSound` | `PlanSpec => [](PlanTypeOK /\ PlanExecutable /\ PlanKeepsRules)` | `PlanInv` |

`WakeupsNeverLost` repeats a conjunct. `PartsProofs` shows that
the specification of the run implements all seven (`EveryPartImplemented`), so that
the theorems hold of it too (`PartsTyped`, `PartsSafe`).

- `ResInv` counts the permits as the handles, of all threads, that hold one, has the
  lock table mirror the permits alive, and weighs woken threads against free permits.
- `LimInv` bounds what was taken together with the tokens left by a burst and what
  accrued up to the last refill.
- `IdleInv` and `ConfInv` say what a worker or a reloader between its two locked
  sections has read, and that the shared value is that one unless another overlapped.
- `CatInv` follows the discovery: what is staged was judged, and every cache of a
  recognised user that stayed open is staged or still to be read.
- `PlanInv` follows a job from its scan to its plan: the open directories are nested
  and hold what has not been found yet, nothing is passed over unnoticed, and the plan
  is the one the permits give. That a complete scan found every untouched entry
  is shown for the shallowest one it did not find.

Arguments by induction are put as least counterexamples: a lemma says that a set of
numbers with a member has a least one (`WFMin` over `<` on the naturals), and the
proofs apply it to a concrete set. `Planning` has its own operators on paths
(`Parent`, `NameOf`, `StartsWith`, `IsBelow`), and the proofs their own small lemmas on
sequences, since the provers know sequences only by length and index.

**Only model-checked.** Liveness: `ReconciliationEnds`, `ExecutionEnds`, `JobEnds`,
`ShutdownEnds`, `ScreenOnNoticed` and `WaitEnds` need fairness, which is beyond the
prover. Every other property of a passing run is a theorem.

## 7. Where code and documentation disagree

- `dry_run`: the slot is never emptied, and coalescing keeps a request real once it
  was; a dry run after a real clean deletes (`scheduler/mod.rs:70`).
- `reload`: the coalesced request keeps its old generation, so every clean after a
  reload is refused (`executor/mod.rs:56`).
- `lost_cancel`: the token is reset after the clean was claimed, so a cancel in
  between is lost (`system/daemon_state.rs:501`).
- `locked_storage`: when no user could be judged, `/data/user/0` and `/data/data` are
  collected without looking at the judgement (`catalog/mod.rs:314`), where
  `platform/encryption.rs:8` says of Unknown "fail-closed (NEVER clean)".

Also seen while modelling, not kept as runs:

- a second daemon closes the attempt of the running one before it finds the lock
  taken; a later removal followed by a crash is never reconciled
  (`system/watcher.rs:23`);
- a failing `SELECT MAX(attempt_id)` counts as an empty table, ids are used again and
  results go to the wrong job (`worker/mod.rs:21`);
- TriggerClean tests the shutdown flag outside the lock and can start a clean after
  it was set (`system/daemon_state.rs:489`);
- `acquire` does not look again whether the file it locked is still the one the path
  names, so two processes can hold the lock after a removal (`system/pidfile.rs:169`);
- a shutdown drops the PID lock while its worker may still remove entries; another
  process can then execute beside it (`system/daemon_state.rs:198`);
- a clean that is claimed but has not reset its token escapes the preemption by a
  screen that comes on (`system/daemon_state.rs:303`), the window of `lost_cancel`;
- the status can say Idle or Preempted while a clean runs
  (`system/event_loop.rs:637`);
- `protected_directory_names` reach `protected_paths` and no further, since nothing
  calls `is_path_protected`; `config/cleaner.toml:108` says such names "must NEVER be
  deleted";
- `clean_app_cache`, `clean_webview_cache`, `clean_image_caches` and
  `clean_thumbnails` (`config/cleaner.toml:31`) are never tested by the policy (`policy/mod.rs:40`), nor
  is the priority of frozen apps read (`policy/mod.rs:114`);
- a directory with entries that a listing leaves out is planned as if it were
  complete, and its removal fails (`fs/mod.rs:264`);
- leaving Critical there is no hysteresis: 52 degrees and then 44 is Warm
  (`system/idle/state.rs:48`);
- the age of an entry is decided at the scan; the executor compares identities only;
- a temperature limit of NaN passes `validate`, and every job then refuses it in
  `from_raw`; other ranges of `DaemonConfig` are wider than those of
  `ValidatedConfig` too, so a configuration accepted at reload can stop all jobs.

## 8. What is not modelled

- Contention for descriptor permits does not arise in today's pipeline, which runs
  under one engine mutex, and nothing calls `set_throttle_mode`: `Resources` and
  `RateLimiter` check the classes for whoever uses them.
- Leases (they never exclude anybody, every process is `WorkerId(1)`), idempotency
  keys, the outbox, the typed `JobState` machine and `IdleManager`: the daemon's
  own paths do not call them, or not to any effect.
- `run_fallback_loop`, for kernels without epoll.
- Framing of IPC messages; byte counts and their checked arithmetic; totals and
  the history of jobs.
- Hardware and platform probes beyond what they may report; argument parsing,
  formatting, logging, the audit log's file I/O, cgroups, priorities, TRIM ioctls and
  memory reclaim: pure input or output.
