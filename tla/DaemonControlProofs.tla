------------------------ MODULE DaemonControlProofs -------------------------
(***************************************************************************)
(* One clean at a time, for any number of IPC workers and cleans.          *)
(*                                                                         *)
(* The argument.  is_cleaning is set by one thread and cleared by another, *)
(* so who owns the flag is spread over pc, run and worker: a thread that   *)
(* is starting a clean, then the worker of that clean, and for ever a      *)
(* worker that could not be spawned.  OwnerInv says that there is at most  *)
(* one such owner and that the flag is set exactly while there is one.     *)
(* Most steps neither take nor give up ownership (Quiet); a claim finds    *)
(* the flag clear, hence no owner; SpawnWorker hands over from the thread  *)
(* to the worker; FinishRun gives up.                                      *)
(***************************************************************************)
EXTENDS DaemonControl, FiniteSetTheorems, TLAPS

Starting(t) == pc[t] \in StartLabels
Held(w) == worker[w] \in Active \cup {"unspawned"}

OwnerInv ==
  /\ \A t \in Threads : Starting(t) =>
       run[t] \in Runs /\ run[t] <= runs /\ worker[run[t]] = "none"
  /\ \A t, u \in Threads : Starting(t) /\ Starting(u) => t = u
  /\ \A w \in Runs : w > runs => worker[w] = "none"
  /\ \A v, w \in Runs : Held(v) /\ Held(w) => v = w
  /\ \A t \in Threads, w \in Runs : Starting(t) => ~Held(w)
  /\ cleaning <=> \/ \E w \in Runs : Held(w)
                  \/ \E t \in Threads : Starting(t)

DInv == TypeOK /\ OwnerInv

USE DEF runtimeVars, loopVars, cleanVars

-----------------------------------------------------------------------------
(***************************************************************************)
(* Types.                                                                  *)
(***************************************************************************)

\* A step that moves thread t to a label of its kind keeps pc well typed.
LEMMA GotoType ==
  ASSUME TypeOK, NEW t \in Threads, NEW label, Goto(t, label),
         label \in IF t = Main THEN LoopLabels \cup (StartLabels \ {"job"})
                   ELSE HandlerLabels \cup StartLabels
  PROVE  /\ pc' \in [Threads -> StartLabels \cup LoopLabels \cup HandlerLabels]
         /\ pc'[Main] \in LoopLabels \cup (StartLabels \ {"job"})
         /\ \A h \in Handlers : pc'[h] \in HandlerLabels \cup StartLabels
  BY ControlAssumption, Zenon DEF TypeOK, Goto, Threads

\* The cleaning workers keep the types.
LEMMA WorkerType ==
  ASSUME TypeOK, NEW w \in Runs, WorkerStep(w)
  PROVE  TypeOK'
  <1>1. CASE LockEngine(w)
    BY <1>1 DEF TypeOK, LockEngine, Active, Runs
  <1>2. CASE ExecuteEnds(w)
    BY <1>2, ControlAssumption DEF TypeOK, ExecuteEnds, Active, Runs
  <1>3. CASE FinishRun(w)
    BY <1>3, Zenon DEF TypeOK, FinishRun, Active, DaemonStates
  <1>4. CASE RecordJob(w)
    BY <1>4, Zenon DEF TypeOK, RecordJob, Active
  <1> QED
    BY <1>1, <1>2, <1>3, <1>4, Zenon DEF WorkerStep

\* A claim keeps the types.
LEMMA ClaimType ==
  ASSUME TypeOK, NEW t \in Threads, NEW s \in Cleaning, Claim(t, s),
         pending' \subseteq Events, UNCHANGED <<timer, screenOn>>
  PROVE  TypeOK'
  <1>1. /\ pc' \in [Threads -> StartLabels \cup LoopLabels \cup HandlerLabels]
        /\ pc'[Main] \in LoopLabels \cup (StartLabels \ {"job"})
        /\ \A h \in Handlers : pc'[h] \in HandlerLabels \cup StartLabels
    BY GotoType, Zenon DEF Claim, StartLabels
  <1>2. runs + 1 \in 0 .. MaxRuns /\ runs' = runs + 1
    BY ControlAssumption DEF Claim, TypeOK
  <1> QED
    BY <1>1, <1>2, Zenon DEF TypeOK, Claim, DaemonStates

\* Starting a clean keeps the types, in the loop and in an IPC worker.
LEMMA StartType ==
  ASSUME TypeOK, NEW t \in Threads,
         ResetToken(t) \/ (t # Main /\ EnterJob(t)) \/ SpawnWorker(t)
  PROVE  TypeOK'
  <1> DEFINE PcOK ==
        /\ pc' \in [Threads -> StartLabels \cup LoopLabels \cup HandlerLabels]
        /\ pc'[Main] \in LoopLabels \cup (StartLabels \ {"job"})
        /\ \A h \in Handlers : pc'[h] \in HandlerLabels \cup StartLabels
  <1>1. CASE ResetToken(t)
    <2>1. PcOK
      BY <1>1, GotoType, Zenon DEF ResetToken, StartLabels
    <2> QED
      BY <1>1, <2>1, Zenon DEF TypeOK, ResetToken
  <1>2. CASE t # Main /\ EnterJob(t)
    <2>1. PcOK
      BY <1>2, GotoType, Zenon DEF EnterJob, StartLabels
    <2> QED
      BY <1>2, <2>1, Zenon DEF TypeOK, EnterJob
  <1>3. CASE SpawnWorker(t)
    <2>1. PcOK
      BY <1>3, GotoType, Zenon DEF SpawnWorker, Back, LoopLabels, HandlerLabels
    <2>2. /\ worker' \in [Runs -> Active \cup {"none", "unspawned", "record", "done"}]
          /\ spawnErrs' \in 0 .. MaxSpawnErrors
      BY <1>3, ControlAssumption DEF TypeOK, SpawnWorker, Active
    <2>3. run' \in [Threads -> 0 .. MaxRuns]
      BY <1>3, ControlAssumption DEF TypeOK, SpawnWorker
    <2> QED
      BY <1>3, <2>1, <2>2, <2>3, Zenon DEF TypeOK, SpawnWorker
  <1> QED
    BY <1>1, <1>2, <1>3, Zenon

\* What a step that only moves its thread has to keep.
PcTyped ==
  /\ pc \in [Threads -> StartLabels \cup LoopLabels \cup HandlerLabels]
  /\ pc[Main] \in LoopLabels \cup (StartLabels \ {"job"})
  /\ \A h \in Handlers : pc[h] \in HandlerLabels \cup StartLabels

\* Cancelling, showing it, and reloading keep the types in every thread.
LEMMA CancelType ==
  ASSUME TypeOK, NEW t \in Threads,
         CancelClean(t) \/ SetPreempted(t) \/ ReloadConfig(t)
  PROVE  TypeOK'
  <1>1. PcTyped'
    BY GotoType, Zenon
    DEF CancelClean, SetPreempted, ReloadConfig, Back, PcTyped, LoopLabels, HandlerLabels
  <1>2. CASE CancelClean(t)
    BY <1>1, <1>2, Zenon DEF TypeOK, PcTyped, CancelClean, CancelToken
  <1>3. CASE SetPreempted(t)
    BY <1>1, <1>3, Zenon DEF TypeOK, PcTyped, SetPreempted, DaemonStates
  <1>4. CASE ReloadConfig(t)
    BY <1>1, <1>4, Zenon DEF TypeOK, PcTyped, ReloadConfig
  <1> QED
    BY <1>2, <1>3, <1>4, Zenon

\* The IPC workers keep the types.
LEMMA HandlerType ==
  ASSUME TypeOK, NEW h \in Handlers, HandlerStep(h)
  PROVE  TypeOK'
  <1>0. h \in Threads /\ h # Main
    BY ControlAssumption, Zenon DEF Threads
  <1>1. CASE CheckCommand(h)
    <2>1. PICK label \in {"idle", "claim", "cancel", "reload", "stop"} : Goto(h, label)
      BY <1>1, Zenon DEF CheckCommand
    <2>2. PcTyped'
      BY <1>0, <2>1, GotoType, Zenon DEF PcTyped, HandlerLabels
    <2> QED
      BY <1>1, <2>2, Zenon DEF TypeOK, PcTyped, CheckCommand
  <1>2. CASE TriggerClean(h)
    <2>1. CASE Goto(h, "idle") /\ UNCHANGED <<runtimeVars, token, asked, cleanVars>>
      <3>1. PcTyped'
        BY <1>0, <2>1, GotoType, Zenon DEF PcTyped, HandlerLabels
      <3> QED
        BY <1>2, <2>1, <3>1, Zenon DEF TypeOK, PcTyped, TriggerClean
    <2>2. CASE Claim(h, "CleaningManual")
      BY <1>0, <1>2, <2>2, ClaimType, Zenon DEF TriggerClean, TypeOK, Cleaning
    <2> QED
      BY <1>2, <2>1, <2>2, Zenon DEF TriggerClean
  <1>3. CASE StopDaemon(h)
    <2>1. PcTyped'
      BY <1>0, <1>3, GotoType, Zenon DEF StopDaemon, PcTyped, HandlerLabels
    <2> QED
      BY <1>3, <2>1, Zenon
      DEF TypeOK, PcTyped, StopDaemon, trigger_shutdown, CancelToken, DaemonStates
  <1> QED
    BY <1>0, <1>1, <1>2, <1>3, CancelType, StartType, Zenon DEF HandlerStep

\* The event loop keeps the types.
LEMMA LoopType ==
  ASSUME TypeOK, LoopStep \/ EpollFails \/ \E batch \in Batches : Wake(batch)
  PROVE  TypeOK'
  <1>0. Main \in Threads
    BY Zenon DEF Threads
  <1> DEFINE Moves == \E label \in LoopLabels : Goto(Main, label)
  <1>a. ASSUME Moves \/ UNCHANGED pc PROVE PcTyped'
    BY <1>0, <1>a, GotoType, Zenon DEF PcTyped, TypeOK
  <1>b. CheckShutdown \/ EpollFails \/ ReclaimEnds \/ Exit => TypeOK'
    <2> SUFFICES ASSUME CheckShutdown \/ EpollFails \/ ReclaimEnds \/ Exit PROVE TypeOK'
      BY Zenon
    <2>1. Moves
      BY Zenon DEF CheckShutdown, EpollFails, ReclaimEnds, Exit, LoopLabels
    <2> QED
      BY <1>a, <2>1 DEF TypeOK, PcTyped, CheckShutdown, EpollFails, ReclaimEnds, Exit
  <1>c. ASSUME NEW batch \in Batches, Wake(batch) PROVE TypeOK'
    <2>1. Moves
      BY <1>c, Zenon DEF Wake, LoopLabels
    <2> QED
      BY <1>a, <1>c, <2>1, Zenon DEF TypeOK, PcTyped, Wake, Batches
  <1>d. HandleReload \/ HandlePsi => TypeOK'
    <2> SUFFICES ASSUME HandleReload \/ HandlePsi PROVE TypeOK'
      BY Zenon
    <2>1. Moves \/ UNCHANGED pc
      BY Zenon DEF HandleReload, HandlePsi, LoopLabels
    <2> QED
      BY <1>a, <2>1 DEF TypeOK, PcTyped, HandleReload, HandlePsi, Handle
  <1>e. HandleShutdown \/ BeginCleanup => TypeOK'
    <2> SUFFICES ASSUME HandleShutdown \/ BeginCleanup PROVE TypeOK'
      BY Zenon
    <2>1. Moves
      BY Zenon DEF HandleShutdown, BeginCleanup, LoopLabels
    <2> QED
      BY <1>a, <2>1, Zenon DEF TypeOK, PcTyped, HandleShutdown, BeginCleanup, Handle,
           trigger_shutdown, CancelToken, DaemonStates
  <1>f. ShowReclaiming \/ ShowIdle => TypeOK'
    <2> SUFFICES ASSUME ShowReclaiming \/ ShowIdle PROVE TypeOK'
      BY Zenon
    <2>1. Moves
      BY Zenon DEF ShowReclaiming, ShowIdle, LoopLabels
    <2> QED
      BY <1>a, <2>1, Zenon DEF TypeOK, PcTyped, ShowReclaiming, ShowIdle, DaemonStates
  <1>g. ReconcileScreen \/ BatchDone => TypeOK'
    <2> SUFFICES ASSUME ReconcileScreen \/ BatchDone PROVE TypeOK'
      BY Zenon
    <2>1. Moves \/ UNCHANGED pc
      BY Zenon DEF ReconcileScreen, BatchDone, LoopLabels
    <2> QED
      BY <1>a, <2>1, Zenon DEF TypeOK, PcTyped, ReconcileScreen, BatchDone, Handle
  <1>h. AcceptIpc => TypeOK'
    <2> SUFFICES ASSUME AcceptIpc PROVE TypeOK'
      BY Zenon
    <2>1. CASE UNCHANGED pc
      BY <2>1, Zenon DEF TypeOK, AcceptIpc, Handle
    <2>2. CASE \E h \in Handlers : Goto(h, "check")
      <3>1. PICK h \in Handlers : Goto(h, "check")
        BY <2>2, Zenon
      <3>2. PcTyped'
        BY <3>1, ControlAssumption, GotoType, Zenon DEF PcTyped, HandlerLabels, Threads
      <3> QED
        BY <3>2, Zenon DEF TypeOK, PcTyped, AcceptIpc, Handle
    <2> QED
      BY <2>1, <2>2, Zenon DEF AcceptIpc
  <1>i. RunMaintenance => TypeOK'
    <2> SUFFICES ASSUME RunMaintenance PROVE TypeOK'
      BY Zenon
    <2>1. CASE UNCHANGED <<runtimeVars, token, asked, cleanVars, pc>>
      BY <2>1, Zenon DEF TypeOK, RunMaintenance, Handle
    <2>2. CASE Claim(Main, "CleaningScheduled")
      BY <1>0, <2>2, ClaimType, Zenon DEF RunMaintenance, Handle, TypeOK, Cleaning
    <2> QED
      BY <2>1, <2>2, Zenon DEF RunMaintenance
  <1>j. CancelClean(Main) \/ SetPreempted(Main) \/ ReloadConfig(Main) => TypeOK'
    BY <1>0, CancelType, Zenon
  <1>k. ResetToken(Main) \/ SpawnWorker(Main) => TypeOK'
    BY <1>0, StartType, Zenon
  <1> QED
    BY <1>b, <1>c, <1>d, <1>e, <1>f, <1>g, <1>h, <1>i, <1>j, <1>k, Zenon DEF LoopStep

-----------------------------------------------------------------------------
(***************************************************************************)
(* Ownership.                                                              *)
(***************************************************************************)

\* A step after which the same threads are starting a clean, the same workers
\* hold one, keeps OwnerInv.
LEMMA Quiet ==
  ASSUME DInv,
         UNCHANGED <<cleaning, run, runs>>,
         \A t \in Threads : Starting(t)' <=> Starting(t),
         \A w \in Runs : Held(w)' <=> Held(w),
         \A w \in Runs : worker[w] = "none" <=> worker'[w] = "none"
  PROVE  OwnerInv'
  <1>1. (\A t \in Threads : Starting(t) =>
          run[t] \in Runs /\ run[t] <= runs /\ worker[run[t]] = "none")'
    BY Zenon DEF DInv, OwnerInv
  <1>2. (\A t, u \in Threads : Starting(t) /\ Starting(u) => t = u)'
    BY Zenon DEF DInv, OwnerInv
  <1>3. (\A w \in Runs : w > runs => worker[w] = "none")'
    BY Zenon DEF DInv, OwnerInv
  <1>4. (\A v, w \in Runs : Held(v) /\ Held(w) => v = w)'
    BY Zenon DEF DInv, OwnerInv
  <1>5. (\A t \in Threads, w \in Runs : Starting(t) => ~Held(w))'
    BY Zenon DEF DInv, OwnerInv
  <1>6. (cleaning <=> \/ \E w \in Runs : Held(w)
                      \/ \E t \in Threads : Starting(t))'
    BY Zenon DEF DInv, OwnerInv
  <1> QED
    BY <1>1, <1>2, <1>3, <1>4, <1>5, <1>6, Zenon DEF OwnerInv

\* Moving one thread between two labels that are both, or both not, of a thread
\* that is starting a clean.
LEMMA QuietMove ==
  ASSUME DInv, NEW t \in Threads, NEW label, Goto(t, label),
         Starting(t) <=> label \in StartLabels,
         UNCHANGED <<cleaning, run, runs, worker>>
  PROVE  OwnerInv'
  <1>1. \A u \in Threads : Starting(u)' <=> Starting(u)
    BY Zenon DEF DInv, TypeOK, Goto, Starting
  <1>2. \A w \in Runs : Held(w)' <=> Held(w)
    BY Zenon DEF Held
  <1> QED
    BY <1>1, <1>2, Quiet, Zenon

\* Nobody moves.
LEMMA QuietStay ==
  ASSUME DInv, UNCHANGED <<cleaning, run, runs, worker, pc>>
  PROVE  OwnerInv'
  BY Quiet, Zenon DEF Starting, Held

\* A claim finds the flag clear, so there is no owner; its thread becomes one.
LEMMA ClaimOwner ==
  ASSUME DInv, NEW t \in Threads, NEW s, Claim(t, s), ~cleaning
  PROVE  OwnerInv'
  <1>1. /\ \A w \in Runs : ~Held(w)
        /\ \A u \in Threads : ~Starting(u)
    BY Zenon DEF DInv, OwnerInv
  <1>2. \A u \in Threads : Starting(u)' <=> u = t
    BY <1>1, Zenon DEF DInv, TypeOK, Claim, Goto, Starting, StartLabels
  <1>3. \A w \in Runs : ~Held(w)'
    BY <1>1, Zenon DEF Claim, Held
  <1>4. /\ run'[t] = runs + 1
        /\ runs' = runs + 1
        /\ runs + 1 \in Runs
        /\ worker' = worker
        /\ cleaning'
    BY ControlAssumption DEF DInv, TypeOK, Claim, Runs
  <1>5. \A w \in Runs : w > runs => worker[w] = "none"
    BY Zenon DEF DInv, OwnerInv
  <1>6. runs \in Nat /\ Runs \subseteq Nat
    BY ControlAssumption DEF DInv, TypeOK, Runs
  <1>7. (\A u \in Threads : Starting(u) =>
          run[u] \in Runs /\ run[u] <= runs /\ worker[run[u]] = "none")'
    BY <1>2, <1>4, <1>5, <1>6
  <1>8. (\A w \in Runs : w > runs => worker[w] = "none")'
    BY <1>4, <1>5, <1>6
  <1> QED
    BY <1>2, <1>3, <1>4, <1>7, <1>8, Zenon DEF OwnerInv

\* SpawnWorker: the thread hands its clean over to the worker, spawned or not.
LEMMA SpawnOwner ==
  ASSUME DInv, NEW t \in Threads, SpawnWorker(t)
  PROVE  OwnerInv'
  <1>1. /\ Starting(t)
        /\ run[t] \in Runs /\ run[t] <= runs
        /\ cleaning /\ cleaning' /\ runs' = runs
    BY Zenon DEF DInv, OwnerInv, SpawnWorker, At, Starting, StartLabels
  <1>2. \A u \in Threads : ~Starting(u)'
    BY <1>1 DEF DInv, TypeOK, OwnerInv, SpawnWorker, Back, Goto, Starting, StartLabels
  <1>3. \A w \in Runs : ~Held(w)
    BY <1>1, Zenon DEF DInv, OwnerInv
  <1>4. \A w \in Runs : w # run[t] => worker'[w] = worker[w]
    BY <1>1, Zenon DEF DInv, TypeOK, SpawnWorker
  <1>5. worker'[run[t]] \in {"spawned", "unspawned"}
    BY <1>1, Zenon DEF DInv, TypeOK, SpawnWorker
  <1>6. \A w \in Runs : Held(w)' <=> w = run[t]
    BY <1>1, <1>3, <1>4, <1>5, Zenon DEF Held, Active
  <1>7. (\A w \in Runs : w > runs => worker[w] = "none")'
    <2> SUFFICES ASSUME NEW w \in Runs, w > runs PROVE worker'[w] = "none"
      BY <1>1, Zenon
    <2>1. w # run[t]
      BY <1>1, ControlAssumption DEF DInv, TypeOK, Runs
    <2> QED
      BY <1>4, <2>1, Zenon DEF DInv, OwnerInv
  <1> QED
    BY <1>1, <1>2, <1>6, <1>7, Zenon DEF OwnerInv

\* FinishRun: the one owner lets go.
LEMMA FinishOwner ==
  ASSUME DInv, NEW w \in Runs, FinishRun(w)
  PROVE  OwnerInv'
  <1>1. Held(w)
    BY Zenon DEF FinishRun, WorkerAt, Held, Active
  <1>2. /\ \A t \in Threads : ~Starting(t)
        /\ \A v \in Runs : Held(v) => v = w
    BY <1>1, Zenon DEF DInv, OwnerInv
  <1>3. \A t \in Threads : ~Starting(t)'
    BY <1>2, Zenon DEF FinishRun, Starting
  <1>4. \A v \in Runs : worker'[v] = IF v = w THEN "record" ELSE worker[v]
    BY Zenon DEF DInv, TypeOK, FinishRun
  <1>5. \A v \in Runs : ~Held(v)'
    BY <1>2, <1>4, Zenon DEF Held, Active
  <1>6. (\A v \in Runs : v > runs => worker[v] = "none")'
    BY <1>4, Zenon DEF DInv, OwnerInv, FinishRun, WorkerAt
  <1>7. ~cleaning'
    BY Zenon DEF FinishRun
  <1> QED
    BY <1>3, <1>5, <1>6, <1>7, Zenon DEF OwnerInv

\* The cleaning workers keep OwnerInv.
LEMMA WorkerOwner ==
  ASSUME DInv, NEW w \in Runs, WorkerStep(w)
  PROVE  OwnerInv'
  <1>1. CASE LockEngine(w) \/ ExecuteEnds(w) \/ RecordJob(w)
    <2>1. UNCHANGED <<cleaning, run, runs, pc>>
      BY <1>1, Zenon DEF LockEngine, ExecuteEnds, RecordJob
    <2>2. \A v \in Runs : Held(v)' <=> Held(v)
      BY <1>1 DEF DInv, TypeOK, LockEngine, ExecuteEnds, RecordJob, WorkerAt, Held, Active
    <2>3. \A v \in Runs : worker[v] = "none" <=> worker'[v] = "none"
      BY <1>1, Zenon DEF DInv, TypeOK, LockEngine, ExecuteEnds, RecordJob, WorkerAt
    <2> QED
      BY <2>1, <2>2, <2>3, Quiet, Zenon DEF Starting
  <1> QED
    BY <1>1, FinishOwner, Zenon DEF WorkerStep

\* What the loop and the IPC workers share keeps OwnerInv.
LEMMA SharedOwner ==
  ASSUME DInv, NEW t \in Threads,
         \/ CancelClean(t) \/ SetPreempted(t) \/ ReloadConfig(t)
         \/ ResetToken(t) \/ EnterJob(t) \/ SpawnWorker(t)
  PROVE  OwnerInv'
  <1>1. CASE CancelClean(t)
    BY <1>1, QuietMove, Zenon DEF CancelClean, At, Starting, StartLabels
  <1>2. CASE SetPreempted(t)
    BY <1>2, QuietMove, Zenon DEF SetPreempted, Back, At, Starting, StartLabels, Cleaning
  <1>3. CASE ReloadConfig(t)
    BY <1>3, QuietMove, Zenon DEF ReloadConfig, Back, At, Starting, StartLabels
  <1>4. CASE ResetToken(t)
    BY <1>4, QuietMove, Zenon DEF ResetToken, At, Starting, StartLabels
  <1>5. CASE EnterJob(t)
    BY <1>5, QuietMove, Zenon DEF EnterJob, At, Starting, StartLabels
  <1> QED
    BY <1>1, <1>2, <1>3, <1>4, <1>5, SpawnOwner, Zenon

\* The IPC workers keep OwnerInv.
LEMMA HandlerOwner ==
  ASSUME DInv, NEW h \in Handlers, HandlerStep(h)
  PROVE  OwnerInv'
  <1>0. h \in Threads
    BY Zenon DEF Threads
  <1>1. CASE CheckCommand(h)
    <2>1. PICK label \in {"idle", "claim", "cancel", "reload", "stop"} : Goto(h, label)
      BY <1>1, Zenon DEF CheckCommand
    <2> QED
      BY <1>0, <1>1, <2>1, QuietMove, Zenon DEF CheckCommand, At, Starting, StartLabels
  <1>2. CASE TriggerClean(h)
    <2>1. CASE Goto(h, "idle") /\ UNCHANGED <<runtimeVars, token, asked, cleanVars>>
      BY <1>0, <1>2, <2>1, QuietMove, Zenon DEF TriggerClean, At, Starting, StartLabels
    <2>2. CASE ~cleaning /\ Claim(h, "CleaningManual")
      BY <1>0, <2>2, ClaimOwner, Zenon
    <2> QED
      BY <1>2, <2>1, <2>2, Zenon DEF TriggerClean
  <1>3. CASE StopDaemon(h)
    BY <1>0, <1>3, QuietMove, Zenon
    DEF StopDaemon, trigger_shutdown, At, Starting, StartLabels, Cleaning
  <1> QED
    BY <1>0, <1>1, <1>2, <1>3, SharedOwner, Zenon DEF HandlerStep

\* The event loop keeps OwnerInv.
LEMMA LoopOwner ==
  ASSUME DInv, LoopStep \/ EpollFails \/ \E batch \in Batches : Wake(batch)
  PROVE  OwnerInv'
  <1>0. Main \in Threads
    BY Zenon DEF Threads
  <1> DEFINE Same == UNCHANGED <<cleaning, run, runs, worker>>
  <1> DEFINE Moves == \E label \in LoopLabels : Goto(Main, label)
  <1>a. ASSUME ~Starting(Main), Same, Moves PROVE OwnerInv'
    BY <1>0, <1>a, QuietMove, Zenon DEF LoopLabels, StartLabels
  <1>b. CASE CheckShutdown \/ EpollFails \/ ReclaimEnds \/ Exit \/ BatchDone
    <2>1. ~Starting(Main) /\ Moves
      BY <1>b, Zenon DEF CheckShutdown, EpollFails, ReclaimEnds, Exit, BatchDone, At,
                  Starting, StartLabels, LoopLabels
    <2>2. Same
      BY <1>b, Zenon DEF CheckShutdown, EpollFails, ReclaimEnds, Exit, BatchDone
    <2> QED
      BY <1>a, <2>1, <2>2, Zenon
  <1>c. CASE \E batch \in Batches : Wake(batch)
    <2>1. ~Starting(Main) /\ Moves /\ Same
      BY <1>c, Zenon DEF Wake, At, Starting, StartLabels, LoopLabels
    <2> QED
      BY <1>a, <2>1, Zenon
  <1>d. CASE HandleReload \/ HandlePsi \/ ReconcileScreen
    <2>1. ~Starting(Main) /\ Same
      BY <1>d, Zenon DEF HandleReload, HandlePsi, ReconcileScreen, Handle, At, Starting, StartLabels
    <2>2. Moves \/ UNCHANGED pc
      BY <1>d, Zenon DEF HandleReload, HandlePsi, ReconcileScreen, LoopLabels
    <2> QED
      BY <1>a, <2>1, <2>2, QuietStay, Zenon
  <1>e. CASE HandleShutdown \/ BeginCleanup \/ ShowReclaiming \/ ShowIdle
    <2>1. ~Starting(Main) /\ Moves
      BY <1>e, Zenon DEF HandleShutdown, BeginCleanup, ShowReclaiming, ShowIdle, Handle, At,
                  Starting, StartLabels, LoopLabels
    <2>2. Same
      BY <1>e, Zenon DEF HandleShutdown, BeginCleanup, ShowReclaiming, ShowIdle,
                  trigger_shutdown, Cleaning
    <2> QED
      BY <1>a, <2>1, <2>2, Zenon
  <1>f. CASE AcceptIpc
    <2>1. Same
      BY <1>f, Zenon DEF AcceptIpc
    <2>2. CASE UNCHANGED pc
      BY <2>1, <2>2, QuietStay, Zenon
    <2>3. CASE \E h \in Handlers : pc[h] = "idle" /\ Goto(h, "check")
      <3>1. PICK h \in Handlers : pc[h] = "idle" /\ Goto(h, "check")
        BY <2>3, Zenon
      <3> QED
        BY <2>1, <3>1, QuietMove, Zenon DEF Threads, Starting, StartLabels
    <2> QED
      BY <1>f, <2>2, <2>3, Zenon DEF AcceptIpc
  <1>g. CASE RunMaintenance
    <2>1. CASE UNCHANGED <<runtimeVars, token, asked, cleanVars, pc>>
      BY <2>1, QuietStay, Zenon
    <2>2. CASE ~cleaning /\ Claim(Main, "CleaningScheduled")
      BY <1>0, <2>2, ClaimOwner, Zenon
    <2> QED
      BY <1>g, <2>1, <2>2, Zenon DEF RunMaintenance
  <1>h. CASE \/ CancelClean(Main) \/ SetPreempted(Main) \/ ReloadConfig(Main)
             \/ ResetToken(Main) \/ SpawnWorker(Main)
    BY <1>0, <1>h, SharedOwner, Zenon
  <1> QED
    BY <1>b, <1>c, <1>d, <1>e, <1>f, <1>g, <1>h, Zenon DEF LoopStep

-----------------------------------------------------------------------------
(***************************************************************************)
(* The theorems.                                                           *)
(***************************************************************************)

\* A daemon that starts has no owner and no flag.
LEMMA InitDInv == Init => DInv
  <1> SUFFICES ASSUME Init PROVE DInv
    BY Zenon
  <1>a. 0 \in 0 .. MaxRuns /\ 0 \in 0 .. MaxSpawnErrors
    BY ControlAssumption
  <1>b. PcTyped
    BY ControlAssumption, Zenon DEF Init, PcTyped, Threads, LoopLabels, HandlerLabels
  <1>1. TypeOK
    BY <1>a, <1>b, Zenon DEF Init, TypeOK, PcTyped, DaemonStates
  <1>2. /\ \A t \in Threads : ~Starting(t)
        /\ \A w \in Runs : ~Held(w)
    BY Zenon DEF Init, Starting, Held, StartLabels, Active
  <1> QED
    BY <1>1, <1>2, Zenon DEF Init, DInv, OwnerInv

\* Every step, of any thread, keeps the invariant.
LEMMA NextDInv == DInv /\ [Next]_vars => DInv'
  <1> SUFFICES ASSUME DInv, [Next]_vars PROVE DInv'
    BY Zenon
  <1>0. TypeOK
    BY Zenon DEF DInv
  <1>1. CASE LoopStep \/ EpollFails \/ \E batch \in Batches : Wake(batch)
    BY <1>0, <1>1, LoopType, LoopOwner, Zenon DEF DInv
  <1>2. CASE \E h \in Handlers : HandlerStep(h)
    BY <1>0, <1>2, HandlerType, HandlerOwner, Zenon DEF DInv
  <1>3. CASE \E w \in Runs : WorkerStep(w)
    BY <1>0, <1>3, WorkerType, WorkerOwner, Zenon DEF DInv
  <1>4. CASE UNCHANGED vars
    <2>1. TypeOK'
      BY <1>0, <1>4, Zenon DEF TypeOK, vars
    <2> QED
      BY <1>4, <2>1, QuietStay, Zenon DEF DInv, vars
  <1> QED
    BY <1>1, <1>2, <1>3, <1>4, Zenon DEF Next, Exited

\* DInv holds in every state of every behaviour.
THEOREM ControlInvariance == Spec => []DInv
  BY InitDInv, NextDInv, PTL DEF Spec

\* A set whose elements are all equal has at most one of them.
LEMMA AtMostOne ==
  ASSUME NEW S, \A x, y \in S : x = y
  PROVE  Cardinality(S) <= 1
  <1>1. CASE S = {}
    BY <1>1, FS_EmptySet
  <1>2. CASE S # {}
    <2>1. PICK x : x \in S
      BY <1>2, Zenon
    <2>2. S = {x}
      BY <2>1, Zenon
    <2> QED
      BY <2>2, FS_Singleton
  <1> QED
    BY <1>1, <1>2, Zenon

\* daemon_state: at most one clean is in progress, and is_cleaning says exactly
\* whether one is (or could not be spawned), for any number of IPC workers.
THEOREM OneOwner == Spec => []CleaningHasOneOwner
  <1>1. DInv => CleaningHasOneOwner
    <2> SUFFICES ASSUME DInv PROVE CleaningHasOneOwner
      BY Zenon
    <2>1. \A w \in InProgress :
            Held(w) \/ \E t \in Threads : Starting(t) /\ run[t] = w
      BY Zenon DEF InProgress, Held, Starting
    <2>2. \A v, w \in InProgress : v = w
      BY <2>1, Zenon DEF DInv, OwnerInv, InProgress
    <2>3. Cardinality(InProgress) <= 1
      BY <2>2, AtMostOne, Zenon
    <2>4. (\E w \in Runs : Held(w)) \/ (\E t \in Threads : Starting(t))
            <=> InProgress # {} \/ \E w \in Runs : worker[w] = "unspawned"
      BY Zenon DEF DInv, OwnerInv, InProgress, Held, Starting
    <2> QED
      BY <2>3, <2>4, Zenon DEF DInv, OwnerInv, CleaningHasOneOwner
  <1> QED
    BY <1>1, ControlInvariance, PTL

\* What the state shown rests on, in terms of is_cleaning.
StatusInv ==
  /\ dstate \in Cleaning => cleaning
  /\ dstate = "PressureReclaiming" => pc[Main] \in {"psi_end", "psi_idle"} \/ cleaning

\* A step that leaves state and flag alone, and the loop unless it is not
\* reclaiming, keeps StatusInv.
LEMMA StatusStays ==
  ASSUME StatusInv, UNCHANGED <<dstate, cleaning>>,
         pc'[Main] = pc[Main] \/ pc[Main] \notin {"psi_end", "psi_idle"}
  PROVE  StatusInv'
  BY Zenon DEF StatusInv

\* So does one that shows nothing as going on.
LEMMA StatusCleared ==
  ASSUME dstate' \in {"Idle", "Preempted", "ShuttingDown"}
  PROVE  StatusInv'
  BY Zenon DEF StatusInv, Cleaning

\* A claim sets the flag together with the state.
LEMMA StatusClaimed ==
  ASSUME NEW t, NEW s, Claim(t, s)
  PROVE  StatusInv'
  BY Zenon DEF StatusInv, Claim

\* Every step keeps StatusInv.
LEMMA NextStatus == TypeOK /\ StatusInv /\ [Next]_vars => StatusInv'
  <1> SUFFICES ASSUME TypeOK, StatusInv, [Next]_vars PROVE StatusInv'
    BY Zenon
  <1>0. /\ pc \in [Threads -> StartLabels \cup LoopLabels \cup HandlerLabels]
        /\ Main \in Threads
        /\ \A h \in Handlers : h \in Threads /\ h # Main
    BY ControlAssumption, Zenon DEF TypeOK, Threads
  <1>a. ASSUME NEW h \in Handlers, NEW label, Goto(h, label) PROVE pc'[Main] = pc[Main]
    BY <1>0, <1>a, Zenon DEF Goto
  <1>1. CASE \E w \in Runs : WorkerStep(w)
    <2>1. PICK w \in Runs : WorkerStep(w)
      BY <1>1, Zenon
    <2>2. CASE FinishRun(w)
      BY <2>2, StatusCleared, Zenon DEF FinishRun
    <2>3. CASE LockEngine(w) \/ ExecuteEnds(w) \/ RecordJob(w)
      BY <2>3, StatusStays, Zenon DEF LockEngine, ExecuteEnds, RecordJob
    <2> QED
      BY <2>1, <2>2, <2>3, Zenon DEF WorkerStep
  <1>2. ASSUME NEW t \in Threads, CancelClean(t) \/ ReloadConfig(t) \/ ResetToken(t)
                                 \/ EnterJob(t) \/ SpawnWorker(t)
        PROVE  StatusInv'
    <2>1. UNCHANGED <<dstate, cleaning>> /\ \E label : Goto(t, label)
      BY <1>2, Zenon DEF CancelClean, ReloadConfig, ResetToken, EnterJob, SpawnWorker, Back
    <2>2. pc[t] \notin {"psi_end", "psi_idle"}
      BY <1>2, Zenon DEF CancelClean, ReloadConfig, ResetToken, EnterJob, SpawnWorker, At
    <2>3. pc'[Main] = pc[Main] \/ pc[Main] \notin {"psi_end", "psi_idle"}
      BY <1>0, <2>1, <2>2, Zenon DEF Goto
    <2> QED
      BY <2>1, <2>3, StatusStays, Zenon
  <1>3. ASSUME NEW t \in Threads, SetPreempted(t) PROVE StatusInv'
    BY <1>3, StatusCleared, Zenon DEF SetPreempted
  <1>4. CASE \E h \in Handlers : HandlerStep(h)
    <2>1. PICK h \in Handlers : HandlerStep(h)
      BY <1>4, Zenon
    <2>2. CASE CheckCommand(h)
      BY <1>a, <2>2, StatusStays, Zenon DEF CheckCommand
    <2>3. CASE TriggerClean(h)
      <3>1. CASE Goto(h, "idle") /\ UNCHANGED <<runtimeVars, token, asked, cleanVars>>
        BY <1>a, <3>1, StatusStays, Zenon
      <3> QED
        BY <2>3, <3>1, StatusClaimed, Zenon DEF TriggerClean
    <2>4. CASE StopDaemon(h)
      BY <2>4, StatusCleared, Zenon DEF StopDaemon, trigger_shutdown
    <2> QED
      BY <1>0, <1>2, <1>3, <2>1, <2>2, <2>3, <2>4, Zenon DEF HandlerStep
  <1>5. CASE \/ CheckShutdown \/ EpollFails \/ Exit \/ BatchDone
             \/ (\E batch \in Batches : Wake(batch))
             \/ HandleReload \/ HandlePsi \/ ReconcileScreen \/ AcceptIpc
    <2>1. UNCHANGED <<dstate, cleaning>>
      BY <1>5, Zenon DEF CheckShutdown, EpollFails, Exit, BatchDone, Wake, HandleReload,
                  HandlePsi, ReconcileScreen, AcceptIpc
    <2>2. pc[Main] \notin {"psi_end", "psi_idle"}
      BY <1>5, Zenon DEF CheckShutdown, EpollFails, Exit, BatchDone, Wake, HandleReload,
                  HandlePsi, ReconcileScreen, AcceptIpc, Handle, At
    <2> QED
      BY <2>1, <2>2, StatusStays, Zenon
  <1>6. CASE HandleShutdown \/ BeginCleanup \/ ShowIdle
    BY <1>6, StatusCleared, Zenon DEF HandleShutdown, BeginCleanup, ShowIdle, trigger_shutdown
  <1>7. CASE ShowReclaiming
    BY <1>0, <1>7, Zenon DEF ShowReclaiming, Goto, StatusInv, Cleaning
  <1>8. CASE ReclaimEnds
    BY <1>0, <1>8, Zenon DEF ReclaimEnds, Goto, StatusInv
  <1>9. CASE RunMaintenance
    <2>1. CASE UNCHANGED <<runtimeVars, token, asked, cleanVars, pc>>
      BY <2>1, StatusStays, Zenon
    <2> QED
      BY <1>9, <2>1, StatusClaimed, Zenon DEF RunMaintenance
  <1>10. CASE UNCHANGED vars
    BY <1>10, StatusStays, Zenon DEF vars
  <1> QED
    BY <1>0, <1>1, <1>2, <1>3, <1>4, <1>5, <1>6, <1>7, <1>8, <1>9, <1>10, Zenon
    DEF Next, LoopStep, Exited

\* daemon_state GetStatus: a clean or a reclaim that is shown is in progress, or
\* is a clean whose thread could not be spawned, for any number of IPC workers.
THEOREM StatusAlwaysBacked == Spec => []StatusBacked
  <1>1. Init => StatusInv
    BY Zenon DEF Init, StatusInv, Cleaning
  <1>2. StatusInv /\ CleaningHasOneOwner => StatusBacked
    BY Zenon DEF StatusInv, CleaningHasOneOwner, StatusBacked
  <1>3. DInv => TypeOK
    BY Zenon DEF DInv
  <1> QED
    BY <1>1, <1>2, <1>3, NextStatus, OneOwner, ControlInvariance, PTL DEF Spec

\* Every variable of the daemon keeps its type.
THEOREM ControlTypes == Spec => []TypeOK
  <1>1. DInv => TypeOK
    BY Zenon DEF DInv
  <1> QED
    BY <1>1, ControlInvariance, PTL

\* Only ResetToken takes a cancellation back.
LEMMA TokenStep ==
  ASSUME [Next]_vars, token, ~token'
  PROVE  \E t \in Threads : ResetToken(t)
  <1>1. ASSUME NEW w \in Runs, WorkerStep(w) PROVE FALSE
    BY <1>1, Zenon DEF WorkerStep, LockEngine, ExecuteEnds, FinishRun, RecordJob
  <1>2. ASSUME NEW t \in Threads,
               CancelClean(t) \/ SetPreempted(t) \/ ReloadConfig(t) \/ EnterJob(t) \/ SpawnWorker(t)
        PROVE  FALSE
    BY <1>2, Zenon DEF CancelClean, CancelToken, SetPreempted, ReloadConfig, EnterJob, SpawnWorker
  <1>3. ASSUME NEW h \in Handlers, CheckCommand(h) \/ TriggerClean(h) \/ StopDaemon(h)
        PROVE  FALSE
    BY <1>3, Zenon DEF CheckCommand, TriggerClean, Claim, StopDaemon, trigger_shutdown, CancelToken
  <1>4. ASSUME \/ CheckShutdown \/ EpollFails \/ ReclaimEnds \/ Exit \/ BatchDone
               \/ HandleReload \/ HandlePsi \/ ReconcileScreen \/ AcceptIpc
               \/ ShowReclaiming \/ ShowIdle
        PROVE  FALSE
    BY <1>4, Zenon DEF CheckShutdown, EpollFails, ReclaimEnds, Exit, BatchDone, HandleReload,
                HandlePsi, ReconcileScreen, AcceptIpc, ShowReclaiming, ShowIdle
  <1>5. ASSUME HandleShutdown \/ BeginCleanup \/ RunMaintenance PROVE FALSE
    BY <1>5, Zenon DEF HandleShutdown, BeginCleanup, trigger_shutdown, CancelToken,
                RunMaintenance, Claim
  <1>6. ASSUME NEW batch \in Batches, Wake(batch) PROVE FALSE
    BY <1>6, Zenon DEF Wake
  <1>7. ASSUME UNCHANGED vars PROVE FALSE
    BY <1>7, Zenon DEF vars
  <1>8. Main \in Threads /\ Handlers \subseteq Threads
    BY Zenon DEF Threads
  <1> QED
    BY <1>1, <1>2, <1>3, <1>4, <1>5, <1>6, <1>7, <1>8, Zenon
    DEF Next, LoopStep, HandlerStep, Exited

\* cancel_token: once a clean has its worker, no step takes a cancellation back
\* before the worker is done with the engine.  The one that could, the reset,
\* belongs to a thread that is starting a clean, and there is none.
THEOREM CancellationStands == Spec => CancelStands
  <1> DEFINE Stands ==
        \A w \in Runs :
          /\ {worker[w], worker'[w]} \subseteq {"spawned", "executing"}
          /\ token
          => token'
  <1>1. DInv /\ [Next]_vars => [Stands]_vars
    <2> SUFFICES ASSUME DInv, [Next]_vars, NEW w \in Runs,
                        worker[w] \in {"spawned", "executing"}, token, ~token'
                 PROVE  FALSE
      BY Zenon
    <2>1. PICK t \in Threads : ResetToken(t)
      BY TokenStep, Zenon
    <2>2. Starting(t) /\ Held(w)
      BY <2>1, Zenon DEF ResetToken, At, Starting, StartLabels, Held, Active
    <2> QED
      BY <2>2, Zenon DEF DInv, OwnerInv
  <1> QED
    BY <1>1, ControlInvariance, PTL DEF Spec, CancelStands
=============================================================================
