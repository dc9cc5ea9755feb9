--------------------------- MODULE DaemonControl ---------------------------
(***************************************************************************)
(* DaemonContext (src/system/daemon_state.rs) as its threads share it: the *)
(* epoll loop, the IPC workers that run handle_command, and the cleaning   *)
(* workers both of them spawn.  A step is one critical section of the      *)
(* runtime lock or one access to the cancellation token, so everything     *)
(* that can happen between two of them does.                               *)
(*                                                                         *)
(* Left out: what a clean does (CleanPipeline), the deadlines of the loop  *)
(* (a timer that is armed may expire, and maintenance may then be due),    *)
(* byte counts, and the commands that only read.                           *)
(***************************************************************************)
EXTENDS Naturals, FiniteSets

CONSTANTS
  Main,            \* the thread of the event loop
  Handlers,        \* IPC workers: at most MAX_CONCURRENT_IPC_WORKERS of them
  MaxRuns,         \* bound on cleans that are started
  MaxBatch,        \* bound on events that one epoll_wait returns
  MaxSpawnErrors   \* bound on threads that cannot be spawned

ASSUME ControlAssumption ==
  /\ Main \notin Handlers
  /\ MaxRuns \in Nat
  /\ MaxBatch \in Nat
  /\ MaxSpawnErrors \in Nat

VARIABLES
  cleaning,    \* runtime.is_cleaning
  shutdown,    \* runtime.shutdown_requested
  dstate,      \* runtime.state
  token,       \* cancel_token
  engine,      \* who holds the clean_engine mutex, 0 for nobody
  jobs,        \* recent_jobs: COMPLETED and FAILED are both ENDED
  pc,          \* control point of the loop and of each IPC worker
  run,         \* the clean a thread is starting, 0 for none
  worker,      \* per clean, where its worker thread is
  runs,        \* how many cleans have been started
  pending,     \* events of the current epoll batch still to be handled
  timer,       \* the timerfd is armed
  screenOn,    \* LoopState.screen_state = On
  spawnErrs,   \* how many threads could not be spawned
  asked        \* history: the clean in progress was told to stop

runtimeVars == <<cleaning, shutdown, dstate>>
loopVars == <<pending, timer, screenOn>>
cleanVars == <<engine, jobs, run, worker, runs, spawnErrs>>
vars == <<runtimeVars, token, asked, cleanVars, loopVars, pc>>

Threads == Handlers \cup {Main}
Runs == 1 .. MaxRuns

\* In the order the loop handles them; signalfd yields SIGHUP before SIGTERM.
Events == {"timer", "sighup", "sigterm", "ipc", "psi", "uevent"}
Before(e) ==
  CASE e = "timer" -> {}
    [] e = "sighup" -> {"timer"}
    [] e = "sigterm" -> {"timer", "sighup"}
    [] e = "ipc" -> {"timer", "sighup", "sigterm"}
    [] e = "psi" -> {"timer", "sighup", "sigterm", "ipc"}
    [] e = "uevent" -> {"timer", "sighup", "sigterm", "ipc", "psi"}

Cleaning == {"CleaningScheduled", "CleaningManual"}
DaemonStates == Cleaning \cup {"Idle", "PressureReclaiming", "Preempted", "ShuttingDown"}

StartLabels == {"reset", "job", "spawn"}
LoopLabels ==
  {"top", "wait", "batch", "psi_set", "psi_end", "psi_idle", "cancel",
   "preempted", "reload", "rearm", "stop", "drain", "exited"}
HandlerLabels == {"idle", "check", "claim", "cancel", "preempted", "reload", "stop"}

\* Where a worker is while its clean is in progress.
Active == {"spawned", "executing", "finish"}

TypeOK ==
  /\ cleaning \in BOOLEAN
  /\ shutdown \in BOOLEAN
  /\ dstate \in DaemonStates
  /\ token \in BOOLEAN
  /\ engine \in 0 .. MaxRuns
  /\ jobs \in [Runs -> {"NONE", "RUNNING", "ENDED"}]
  /\ pc \in [Threads -> StartLabels \cup LoopLabels \cup HandlerLabels]
  /\ pc[Main] \in LoopLabels \cup (StartLabels \ {"job"})
  /\ \A h \in Handlers : pc[h] \in HandlerLabels \cup StartLabels
  /\ run \in [Threads -> 0 .. MaxRuns]
  /\ worker \in [Runs -> Active \cup {"none", "unspawned", "record", "done"}]
  /\ runs \in 0 .. MaxRuns
  /\ pending \subseteq Events
  /\ timer \in BOOLEAN
  /\ screenOn \in BOOLEAN
  /\ spawnErrs \in 0 .. MaxSpawnErrors
  /\ asked \in BOOLEAN

\* run_epoll_loop has read the screen and armed the timer.
Init ==
  /\ cleaning = FALSE
  /\ shutdown = FALSE
  /\ dstate = "Idle"
  /\ token = FALSE
  /\ engine = 0
  /\ jobs = [w \in Runs |-> "NONE"]
  /\ pc = [t \in Threads |-> IF t = Main THEN "top" ELSE "idle"]
  /\ run = [t \in Threads |-> 0]
  /\ worker = [w \in Runs |-> "none"]
  /\ runs = 0
  /\ pending = {}
  /\ timer = TRUE
  /\ screenOn \in BOOLEAN
  /\ spawnErrs = 0
  /\ asked = FALSE

\* When the loop has exited the process is gone, and every thread of it.
At(t, label) == pc[t] = label /\ pc[Main] # "exited"
WorkerAt(w, label) == worker[w] = label /\ pc[Main] # "exited"

Goto(t, label) == pc' = [pc EXCEPT ![t] = label]

\* Where a thread goes on after its command, or after the loop's action.
Back(t) == Goto(t, IF t = Main THEN "batch" ELSE "idle")

\* The clean in progress: claimed by a thread, or in the hands of its worker.
InProgress ==
  {w \in Runs : \/ worker[w] \in Active
                \/ \E t \in Threads : run[t] = w /\ pc[t] \in StartLabels}

CancelToken ==
  /\ token' = TRUE
  /\ asked' = (InProgress # {})

trigger_shutdown ==
  /\ shutdown' = TRUE
  /\ dstate' = "ShuttingDown"
  /\ CancelToken
  /\ UNCHANGED cleaning

-----------------------------------------------------------------------------
(***************************************************************************)
(* Starting a clean: claim it under the runtime lock, reset the token,     *)
(* enter the job (IPC only), spawn the worker.                             *)
(***************************************************************************)

Claim(t, s) ==
  /\ runs < MaxRuns
  /\ cleaning' = TRUE
  /\ dstate' = s
  /\ runs' = runs + 1
  /\ run' = [run EXCEPT ![t] = runs + 1]
  /\ Goto(t, "reset")
  /\ asked' = FALSE
  /\ UNCHANGED <<shutdown, token, engine, jobs, worker, spawnErrs>>

\* Mutation: a scheduled clean is entered as a job as well.
ResetTokenThenJob(t) ==
  /\ At(t, "reset")
  /\ token' = FALSE
  /\ Goto(t, "job")
  /\ UNCHANGED <<runtimeVars, asked, cleanVars, loopVars>>

ResetToken(t) ==
  /\ At(t, "reset")
  /\ token' = FALSE
  /\ Goto(t, IF t = Main THEN "spawn" ELSE "job")
  /\ UNCHANGED <<runtimeVars, asked, cleanVars, loopVars>>

EnterJob(t) ==
  /\ At(t, "job")
  /\ jobs' = [jobs EXCEPT ![run[t]] = "RUNNING"]
  /\ Goto(t, "spawn")
  /\ UNCHANGED <<runtimeVars, token, asked, loopVars>>
  /\ UNCHANGED <<engine, run, worker, runs, spawnErrs>>

\* The result of Builder::spawn is ignored.
SpawnWorker(t) ==
  /\ At(t, "spawn")
  /\ \/ /\ worker' = [worker EXCEPT ![run[t]] = "spawned"]
        /\ UNCHANGED spawnErrs
     \/ /\ spawnErrs < MaxSpawnErrors
        /\ spawnErrs' = spawnErrs + 1
        /\ worker' = [worker EXCEPT ![run[t]] = "unspawned"]
  /\ run' = [run EXCEPT ![t] = 0]
  /\ Back(t)
  /\ UNCHANGED <<runtimeVars, token, asked, loopVars, engine, jobs, runs>>

-----------------------------------------------------------------------------
(***************************************************************************)
(* The cleaning worker.                                                    *)
(***************************************************************************)

LockEngine(w) ==
  /\ WorkerAt(w, "spawned")
  /\ engine = 0
  /\ engine' = w
  /\ worker' = [worker EXCEPT ![w] = "executing"]
  /\ UNCHANGED <<runtimeVars, token, asked, loopVars, pc, jobs, run, runs, spawnErrs>>

ExecuteEnds(w) ==
  /\ WorkerAt(w, "executing")
  /\ engine' = 0
  /\ worker' = [worker EXCEPT ![w] = "finish"]
  /\ UNCHANGED <<runtimeVars, token, asked, loopVars, pc, jobs, run, runs, spawnErrs>>

\* Whether execute() returned a report or an error.
FinishRun(w) ==
  /\ WorkerAt(w, "finish")
  /\ cleaning' = FALSE
  /\ dstate' = "Idle"
  /\ asked' = FALSE
  /\ worker' = [worker EXCEPT ![w] = "record"]
  /\ UNCHANGED <<shutdown, token, loopVars, pc, engine, jobs, run, runs, spawnErrs>>

\* Mutation: a clean that failed leaves its job RUNNING.
RecordJobOnSuccess(w) ==
  /\ WorkerAt(w, "record")
  /\ jobs' \in {jobs, [jobs EXCEPT ![w] = IF @ = "RUNNING" THEN "ENDED" ELSE @]}
  /\ worker' = [worker EXCEPT ![w] = "done"]
  /\ UNCHANGED <<runtimeVars, token, asked, loopVars, pc, engine, run, runs, spawnErrs>>

RecordJob(w) ==
  /\ WorkerAt(w, "record")
  /\ jobs' = [jobs EXCEPT ![w] = IF @ = "RUNNING" THEN "ENDED" ELSE @]
  /\ worker' = [worker EXCEPT ![w] = "done"]
  /\ UNCHANGED <<runtimeVars, token, asked, loopVars, pc, engine, run, runs, spawnErrs>>

WorkerStep(w) == LockEngine(w) \/ ExecuteEnds(w) \/ FinishRun(w) \/ RecordJob(w)

-----------------------------------------------------------------------------
(***************************************************************************)
(* IPC workers: handle_command.                                            *)
(***************************************************************************)

\* is_shutdown_requested, then the match on the command.  A command that only
\* reads, one the caller may not give, and a reload whose file does not parse
\* end here.
CheckCommand(h) ==
  /\ At(h, "check")
  /\ \/ Goto(h, "idle")
     \/ /\ ~shutdown
        /\ \E label \in {"claim", "cancel", "reload", "stop"} : Goto(h, label)
  /\ UNCHANGED <<runtimeVars, token, asked, cleanVars, loopVars>>

\* Mutation: the token is reset before the flag is tested.
TriggerCleanResetsFirst(h) ==
  /\ At(h, "claim")
  /\ \/ /\ cleaning \/ runs = MaxRuns
        /\ token' = FALSE
        /\ Goto(h, "idle")
        /\ UNCHANGED <<runtimeVars, asked, cleanVars>>
     \/ /\ ~cleaning
        /\ Claim(h, "CleaningManual")
  /\ UNCHANGED loopVars

TriggerClean(h) ==
  /\ At(h, "claim")
  /\ \/ /\ cleaning \/ runs = MaxRuns
        /\ Goto(h, "idle")
        /\ UNCHANGED <<runtimeVars, token, asked, cleanVars>>
     \/ /\ ~cleaning
        /\ Claim(h, "CleaningManual")
  /\ UNCHANGED loopVars

\* Command::Cancel, and the loop preempting a clean when the screen turns on.
CancelClean(t) ==
  /\ At(t, "cancel")
  /\ CancelToken
  /\ Goto(t, "preempted")
  /\ UNCHANGED <<runtimeVars, cleanVars, loopVars>>

SetPreempted(t) ==
  /\ At(t, "preempted")
  /\ dstate' = "Preempted"
  /\ Back(t)
  /\ UNCHANGED <<cleaning, shutdown, token, asked, cleanVars, loopVars>>

\* reload_config waits for the engine mutex, in an IPC worker and in the loop.
ReloadConfig(t) ==
  /\ At(t, "reload")
  /\ engine = 0
  /\ Back(t)
  /\ UNCHANGED <<runtimeVars, token, asked, cleanVars, loopVars>>

StopDaemon(h) ==
  /\ At(h, "stop")
  /\ trigger_shutdown
  /\ Goto(h, "idle")
  /\ UNCHANGED <<cleanVars, loopVars>>

HandlerStep(h) ==
  \/ CheckCommand(h)
  \/ TriggerClean(h)
  \/ CancelClean(h)
  \/ SetPreempted(h)
  \/ ReloadConfig(h)
  \/ StopDaemon(h)
  \/ ResetToken(h)
  \/ EnterJob(h)
  \/ SpawnWorker(h)

-----------------------------------------------------------------------------
(***************************************************************************)
(* The event loop: run_epoll_loop.                                         *)
(***************************************************************************)

CheckShutdown ==
  /\ At(Main, "top")
  /\ Goto(Main, IF shutdown THEN "stop" ELSE "wait")
  /\ UNCHANGED <<runtimeVars, token, asked, cleanVars, loopVars>>

\* epoll_wait returns a batch; a timer that fired is drained.
Wake(batch) ==
  /\ At(Main, "wait")
  /\ "timer" \in batch => timer
  /\ pending' = batch
  /\ timer' = (timer /\ "timer" \notin batch)
  /\ Goto(Main, "batch")
  /\ UNCHANGED <<runtimeVars, token, asked, cleanVars, screenOn>>

EpollFails ==
  /\ At(Main, "wait")
  /\ Goto(Main, "stop")
  /\ UNCHANGED <<runtimeVars, token, asked, cleanVars, loopVars>>

\* The loop takes up event e of its batch.
Handle(e) ==
  /\ At(Main, "batch")
  /\ e \in pending
  /\ Before(e) \cap pending = {}
  /\ pending' = pending \ {e}
  /\ UNCHANGED timer

\* Mutation: only the test of is_cleaning before the lock is taken.
RunMaintenanceUnlocked ==
  /\ Handle("timer")
  /\ \/ UNCHANGED <<runtimeVars, token, asked, cleanVars, pc>>
     \/ ~shutdown /\ Claim(Main, "CleaningScheduled")
  /\ UNCHANGED screenOn

\* TimerExpired: maintenance may be due and its triggers satisfied;
\* spawn_maintenance_worker decides under the lock.
RunMaintenance ==
  /\ Handle("timer")
  /\ \/ UNCHANGED <<runtimeVars, token, asked, cleanVars, pc>>
     \/ ~shutdown /\ ~cleaning /\ Claim(Main, "CleaningScheduled")
  /\ UNCHANGED screenOn

\* SIGHUP: the loop's own thread reloads, unless the file does not parse.
HandleReload ==
  /\ Handle("sighup")
  /\ Goto(Main, "reload") \/ UNCHANGED pc
  /\ UNCHANGED <<runtimeVars, token, asked, cleanVars, screenOn>>

\* SIGTERM, SIGINT or SIGQUIT: the rest of the batch is dropped.
HandleShutdown ==
  /\ Handle("sigterm")
  /\ trigger_shutdown
  /\ Goto(Main, "stop")
  /\ UNCHANGED <<cleanVars, screenOn>>

\* accept_and_handle: a free worker slot takes the connection, or it is refused
\* (all slots taken, caller not allowed, no thread).
AcceptIpc ==
  /\ Handle("ipc")
  /\ \/ \E h \in Handlers : pc[h] = "idle" /\ Goto(h, "check")
     \/ UNCHANGED pc
  /\ UNCHANGED <<runtimeVars, token, asked, cleanVars, screenOn>>

\* ReclaimMemory: is_cleaning and each set_state take the lock by themselves.
HandlePsi ==
  /\ Handle("psi")
  /\ UNCHANGED pc \/ (~cleaning /\ Goto(Main, "psi_set"))
  /\ UNCHANGED <<runtimeVars, token, asked, cleanVars, screenOn>>

ShowReclaiming ==
  /\ At(Main, "psi_set")
  /\ dstate' = "PressureReclaiming"
  /\ Goto(Main, "psi_end")
  /\ UNCHANGED <<cleaning, shutdown, token, asked, cleanVars, loopVars>>

\* Mutation: the state is not set back when the reclaim is over.
ReclaimEndsSilently ==
  /\ At(Main, "psi_end")
  /\ Goto(Main, "batch")
  /\ UNCHANGED <<runtimeVars, token, asked, cleanVars, loopVars>>

ReclaimEnds ==
  /\ At(Main, "psi_end")
  /\ Goto(Main, IF cleaning THEN "batch" ELSE "psi_idle")
  /\ UNCHANGED <<runtimeVars, token, asked, cleanVars, loopVars>>

ShowIdle ==
  /\ At(Main, "psi_idle")
  /\ dstate' = "Idle"
  /\ Goto(Main, "batch")
  /\ UNCHANGED <<cleaning, shutdown, token, asked, cleanVars, loopVars>>

\* ReconcileSysfs: a screen that turns on preempts the clean in progress.
ReconcileScreen ==
  /\ Handle("uevent")
  /\ screenOn' \in BOOLEAN
  /\ IF screenOn' /\ ~screenOn /\ cleaning THEN Goto(Main, "cancel") ELSE UNCHANGED pc
  /\ UNCHANGED <<runtimeVars, token, asked, cleanVars>>

\* Mutation: the timer is armed once, before the loop.
BatchDoneNoRearm ==
  /\ At(Main, "batch")
  /\ pending = {}
  /\ Goto(Main, "top")
  /\ UNCHANGED <<runtimeVars, token, asked, cleanVars, loopVars>>

BatchDone ==
  /\ At(Main, "batch")
  /\ pending = {}
  /\ timer' = (timer \/ ~shutdown)
  /\ Goto(Main, "top")
  /\ UNCHANGED <<runtimeVars, token, asked, cleanVars, pending, screenOn>>

\* perform_shutdown_cleanup
BeginCleanup ==
  /\ At(Main, "stop")
  /\ trigger_shutdown
  /\ Goto(Main, "drain")
  /\ UNCHANGED <<cleanVars, loopVars>>

\* No clean in progress any more, or the two seconds are over.
Exit ==
  /\ At(Main, "drain")
  /\ Goto(Main, "exited")
  /\ UNCHANGED <<runtimeVars, token, asked, cleanVars, loopVars>>

\* What the loop does of its own accord, without an event arriving.
LoopStep ==
  \/ CheckShutdown
  \/ RunMaintenance \/ HandleReload \/ HandleShutdown \/ AcceptIpc \/ ReconcileScreen
  \/ HandlePsi \/ ShowReclaiming \/ ReclaimEnds \/ ShowIdle
  \/ CancelClean(Main) \/ SetPreempted(Main) \/ ReloadConfig(Main)
  \/ ResetToken(Main) \/ SpawnWorker(Main)
  \/ BatchDone \/ BeginCleanup \/ Exit

Batches == {batch \in SUBSET Events : Cardinality(batch) \in 1 .. MaxBatch}

Exited == pc[Main] = "exited" /\ UNCHANGED vars

Next ==
  \/ LoopStep
  \/ \E batch \in Batches : Wake(batch)
  \/ EpollFails
  \/ \E h \in Handlers : HandlerStep(h)
  \/ \E w \in Runs : WorkerStep(w)
  \/ Exited

Spec == Init /\ [][Next]_vars

TimerExpires == \E batch \in Batches : "timer" \in batch /\ Wake(batch)

\* Threads are scheduled, an armed timer expires, a clean ends.
Fairness ==
  /\ WF_vars(LoopStep)
  /\ WF_vars(TimerExpires)
  /\ \A h \in Handlers : WF_vars(HandlerStep(h))
  /\ \A w \in Runs : WF_vars(WorkerStep(w))

FairSpec == Spec /\ Fairness

-----------------------------------------------------------------------------
(***************************************************************************)
(* Properties.                                                             *)
(***************************************************************************)

(***************************************************************************)
(* The event loop and the IPC workers all start cleans, and between the    *)
(* claim and the worker's last write the flag changes hands twice.  Yet at *)
(* most one clean is in progress, and is_cleaning says exactly whether one *)
(* is, but for a worker thread that could not be spawned: its flag is      *)
(* never cleared.                                                          *)
(***************************************************************************)
CleaningHasOneOwner ==
  /\ Cardinality(InProgress) <= 1
  /\ cleaning <=> \/ InProgress # {}
                  \/ \E w \in Runs : worker[w] = "unspawned"

(***************************************************************************)
(* What GetStatus shows as going on has somebody behind it: the reclaim    *)
(* that is running, the clean in progress, or for ever the clean whose     *)
(* thread could not be spawned.  The loop, the IPC workers and a worker    *)
(* that finishes set the state without looking at each other.  (The        *)
(* converse is not promised: Idle and Preempted may hide a clean that      *)
(* runs.)                                                                  *)
(***************************************************************************)
StatusBacked ==
  LET Owned == InProgress # {} \/ \E w \in Runs : worker[w] = "unspawned"
  IN  /\ dstate \in Cleaning => Owned
      /\ dstate = "PressureReclaiming" => pc[Main] \in {"psi_end", "psi_idle"} \/ Owned

(***************************************************************************)
(* Once a clean has its worker thread, a cancellation stands until the     *)
(* worker is done with the engine: no other thread resets the one token    *)
(* they all share.                                                         *)
(***************************************************************************)
CancelStands ==
  [][\A w \in Runs :
       /\ {worker[w], worker'[w]} \subseteq {"spawned", "executing"}
       /\ token
       => token']_vars

(***************************************************************************)
(* A job GetJobStatus reports as RUNNING is completed or failed later,     *)
(* unless its thread was never spawned or the daemon exits first.          *)
(***************************************************************************)
JobEnds ==
  \A w \in Runs :
    jobs[w] = "RUNNING" ~>
      jobs[w] # "RUNNING" \/ worker[w] = "unspawned" \/ pc[Main] = "exited"

(***************************************************************************)
(* A requested shutdown ends the daemon.  StopDaemon only sets a flag in   *)
(* an IPC worker: the loop, which may be blocked in epoll_wait or on the   *)
(* engine mutex, has to come round to it.                                  *)
(***************************************************************************)
ShutdownEnds == shutdown ~> pc[Main] = "exited"

(***************************************************************************)
(* analisa/rewrite/35.md: a cancellation is not lost because of another    *)
(* event.  The token is reset after the clean has been claimed, outside    *)
(* the lock.                                                               *)
(***************************************************************************)
CancelNotLost == asked => token
=============================================================================
