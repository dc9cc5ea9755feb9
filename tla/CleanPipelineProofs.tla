------------------------ MODULE CleanPipelineProofs -------------------------
(***************************************************************************)
(* The theorems about CleanPipeline, for every value of its constants.     *)
(***************************************************************************)
EXTENDS ActionProofs

USE DEF storeVars, diskVars, engineVars, execVars, recoveryVars, schedVars,
        procVars, execIdle

\* Whatever a process does of its own accord satisfies StepOK.
LEMMA WorkStep ==
  ASSUME IInv, NEW p \in Procs, Work(p)
  PROVE  StepOK(p)
<1>1. CASE TakeLock(p) /\ UNCHANGED <<storeVars, execIdle, recoveryVars, schedVars>>
  BY <1>1, TakeLockStep, Zenon
<1>2. CASE /\ Seed(p) \/ Coalesce(p) \/ AdmitNew(p) \/ ClaimAttempt(p)
           /\ UNCHANGED <<execIdle, recoveryVars, procVars>>
  BY <1>2, SeedStep, CoalesceStep, AdmitNewStep, ClaimAttemptStep, Zenon
<1>3. CASE /\ PlanJob(p) \/ PlanFails(p)
           /\ UNCHANGED <<storeVars, recoveryVars, schedVars, procVars>>
  BY <1>3, PlanJobStep, PlanFailsStep, Zenon
<1>4. CASE ExecStep(p) /\ UNCHANGED <<recoveryVars, schedVars, procVars>>
  BY <1>4, PassOver, CommitIntentStep, MarkMutatingStep, StatChildStep,
     UnlinkatStep, VerifyOpStep, ResolveIntentStep, RecordResultStep, Zenon
  DEF ExecStep
<1>5. CASE RecoveryStep(p) /\ UNCHANGED <<execVars, schedVars, procVars>>
  BY <1>5, ReadUncompletedStep, BeginAttemptStep, RecoveryDoneStep,
     TargetMissingStep, VerifyIntentStep, ResolveRecoveredStep,
     RecordRecoveredStep, CloseAttemptStep, CloseJobStep, Zenon
  DEF RecoveryStep
<1>6. CASE /\ FinishJob(p) \/ FinishAttempt(p)
           /\ UNCHANGED <<execIdle, recoveryVars, schedVars, procVars>>
  BY <1>6, FinishStep, Zenon
<1>7. CASE Return(p) \/ Exit(p)
  BY <1>7, LeaveStep, Zenon
<1> QED
  BY <1>1, <1>2, <1>3, <1>4, <1>5, <1>6, <1>7, Zenon DEF Work

\* IInv is inductive, and every step is one of DeletionLedger.
LEMMA NextKeepsIInv ==
  ASSUME IInv, [Next]_vars
  PROVE  IInv' /\ LedgerStep
<1>1. ASSUME NEW p \in Procs, Start(p) \/ Work(p) \/ Crash(p)
      PROVE  IInv' /\ LedgerStep
  <2>1. StepOK(p)
    BY <1>1, StartStep, WorkStep, LeaveStep, Zenon
  <2> QED
    BY <2>1, StepInductive, Zenon DEF StepOK
<1>2. ASSUME NEW p \in Procs, Ask(p)
      PROVE  IInv' /\ LedgerStep
  <2>1. CASE /\ Submit(p)
             /\ UNCHANGED <<storeVars, diskVars, recoveryVars, schedVars, procVars>>
    BY <2>1, SubmitStep, StepInductive, Zenon DEF StepOK
  <2>2. CASE Cancel(p) /\ UNCHANGED <<recoveryVars, schedVars, procVars>>
    BY <2>2, CancelStep, Zenon
  <2>3. CASE ReloadConfig(p) /\ UNCHANGED <<execIdle, recoveryVars, procVars>>
    BY <2>3, ReloadStep, Zenon
  <2>4. CASE Stop(p)
    BY <2>4, StopStep, Zenon
  <2> QED
    BY <1>2, <2>1, <2>2, <2>3, <2>4, Zenon DEF Ask
<1>3. CASE Apps
  BY <1>3, AppsStep, Zenon
<1>4. CASE UNCHANGED vars
  <2>1. TypeOK'
    BY <1>4, Zenon DEF vars, IInv, TypeOK, StoreTypeOK, DiskTypeOK, EngineTypeOK,
                ExecTypeOK, RecoveryTypeOK, SchedTypeOK
  <2> QED
    BY <1>4, <2>1, NobodyMoves, Zenon DEF vars
<1> QED
  BY <1>1, <1>2, <1>3, <1>4, Zenon DEF Next

\* The initial states satisfy IInv.
LEMMA InitIInv ==
  ASSUME Init
  PROVE  IInv
<1>1. /\ \A k \in Attempts \X Ops : intents[k] = NoRow
      /\ NoRow.state = "NONE"
      /\ removed = {} /\ observed = {}
  BY Zenon DEF Init, StoreInit, EngineInit, ExecInit, NoRow
<1>2. TypeOK
  <2>1. StoreTypeOK
    BY BoundAssumption DEF Init, StoreInit, StoreTypeOK, JobStates, AttemptStates
  <2>2. DiskTypeOK
    BY Zenon DEF Init, DiskInit, DiskTypeOK, NoHandle, Handles
  <2>3. EngineTypeOK
    BY BoundAssumption DEF Init, EngineInit, EngineTypeOK, PipelineLabels, Outcomes
  <2>4. ExecTypeOK
    BY DEF Init, ExecInit, ExecTypeOK
  <2>5. RecoveryTypeOK
    BY Zenon DEF Init, RecoveryInit, RecoveryTypeOK
  <2>6. SchedTypeOK
    BY ConfigGenAssumption DEF Init, SchedInit, SchedTypeOK
  <2> QED
    BY <2>1, <2>2, <2>3, <2>4, <2>5, <2>6, Zenon DEF Init, TypeOK
<1>3. LedgerInv
  BY <1>1, <1>2, Zenon DEF LedgerInv, TypeOK, StoreTypeOK, IntentBeforeMutation
<1>4. ResultsInv
  BY Zenon DEF Init, StoreInit, ResultsInv
<1>5. \A p \in Procs : ProcInv(p)
  <2> SUFFICES ASSUME NEW p \in Procs PROVE ProcInv(p)
    BY Zenon
  <2>1. pc[p] = "down" /\ plan[p] = << >> /\ todo[p] = {}
    BY Zenon DEF Init, EngineInit, ExecInit, RecoveryInit
  <2>2. Len(<< >>) <= MaxOp
    BY BoundAssumption
  <2> QED
    BY <2>1, <2>2, Zenon DEF ProcInv, ExecLabels, Reconciling
<1> QED
  BY <1>2, <1>3, <1>4, <1>5, Zenon DEF IInv

\* For any number of processes, paths, jobs, attempts and operations, and any
\* bounds on errors, crashes and reloads, IInv holds in every reachable state.
THEOREM Invariance == Spec => []IInv
<1>1. Init => IInv
  BY InitIInv, Zenon
<1>2. IInv /\ [Next]_vars => IInv'
  BY NextKeepsIInv, Zenon
<1> QED
  BY <1>1, <1>2, PTL DEF Spec

\* Every variable of the pipeline keeps its type.
THEOREM TypeCorrect == Spec => []TypeOK
<1>1. IInv => TypeOK
  BY Zenon DEF IInv
<1> QED
  BY <1>1, Invariance, PTL

\* store commit_operation_intent, "HARD INVARIANT": whatever crashes, fails or
\* runs concurrently, an executor has only removed entries named by an intent
\* that is in the store and past COMMITTED.
THEOREM IntentPrecedesMutation == Spec => []IntentBeforeMutation
<1>1. IInv => IntentBeforeMutation
  BY Zenon DEF IInv, LedgerInv
<1> QED
  BY <1>1, Invariance, PTL

\* executor execute_plan and recovery: every success on record rests on a
\* verifier that saw the deletion.
THEOREM SuccessRestsOnObservation == Spec => []SuccessIsObserved
<1>1. IInv => SuccessIsObserved
  BY Zenon DEF IInv, LedgerInv, ResultsInv, Backed, SuccessIsObserved
<1> QED
  BY <1>1, Invariance, PTL

\* The processes together implement DeletionLedger.
THEOREM LedgerRefinement == Spec => ImplementsLedger
<1>1. Init => Ledger!LedgerInit
  BY LedgerNames DEF Init, StoreInit, EngineInit, ExecInit, Ledger!LedgerInit
<1>2. IInv /\ [Next]_vars => [Ledger!LedgerNext]_(Ledger!ledgerVars)
  BY NextKeepsIInv, Zenon DEF LedgerStep, Ledger!ledgerVars
<1> QED
  BY <1>1, <1>2, Invariance, PTL DEF Spec, ImplementsLedger, Ledger!LedgerSpec

-----------------------------------------------------------------------------
(***************************************************************************)
(* The PID lock.                                                           *)
(***************************************************************************)

\* The part of a process's life in which it holds the PID lock, or has given it
\* up because its run() has returned.
Locked ==
  ExecLabels \cup {"idle", "admit", "claim", "plan", "completed", "errored",
                   "finish_ok", "finish_err", "returned"}

LockInv == \A p \in Procs : pc[p] \in Locked => lock = p \/ p \in gone

\* What a step of p does to its label and to the lock.
LockStep(p) ==
  /\ \A q \in Procs : q # p => pc'[q] = pc[q] /\ (q \in gone => q \in gone')
  /\ \/ /\ lock' = lock
        /\ pc'[p] \in Locked => pc[p] \in Locked /\ (p \in gone => p \in gone')
     \/ lock \in {NoProc, p} /\ lock' = p
     \/ lock = p /\ lock' = NoProc /\ (pc'[p] \notin Locked \/ p \in gone')

\* LockStep keeps the lock with the process that is in Locked and not stopped.
LEMMA LockStepKeeps ==
  ASSUME LockInv, NEW p \in Procs, LockStep(p)
  PROVE  LockInv'
BY TreeAssumption, Zenon DEF LockInv, LockStep

\* Every step of a process is a LockStep.
LEMMA WorkLocks ==
  ASSUME TypeOK, NEW p \in Procs, Start(p) \/ Work(p) \/ Ask(p) \/ Crash(p)
  PROVE  LockStep(p)
<1>1. pc \in [Procs -> ExecLabels \cup RecoveryLabels \cup PipelineLabels]
  BY Zenon DEF TypeOK, EngineTypeOK
<1>2. CASE Start(p)
  BY <1>1, <1>2, Zenon DEF Start, StartDaemon, StartStandalone, Goto, LockStep, Locked,
                    ExecLabels
<1>3. CASE Exit(p) \/ Crash(p)
  BY <1>1, <1>3 DEF Exit, Crash, Forget, Goto, LockStep, Locked, ExecLabels
<1>9. CASE Stop(p)
  BY <1>9, Zenon DEF Stop, LockStep
<1>4. CASE TakeLock(p)
  BY <1>1, <1>4, Zenon DEF TakeLock, Goto, LockStep, Locked
<1>5. CASE ExecStep(p) /\ UNCHANGED procVars
  <2>1. pc[p] \in Locked /\ lock' = lock /\ gone' = gone
    BY <1>5, Zenon DEF ExecStep, SkipOp, RejectOp, CommitIntent, MarkMutating,
                OpenParentFails, StatChild, Unlinkat, VerifyOp, ResolveIntent,
                RecordResult, Locked, ExecLabels
  <2>2. \E l : pc' = [pc EXCEPT ![p] = l]
    BY <1>5, Zenon DEF ExecStep, SkipOp, RejectOp, CommitIntent, MarkMutating,
                OpenParentFails, StatChild, Unlinkat, VerifyOp, ResolveIntent,
                RecordResult, NextOp, Goto
  <2> QED
    BY <1>1, <2>1, <2>2, Zenon DEF LockStep
<1>6. CASE RecoveryStep(p) /\ UNCHANGED procVars
  <2>1. \/ pc' = pc
        \/ \E l \in RecoveryLabels \cup {"seed"} : pc' = [pc EXCEPT ![p] = l]
    BY <1>6, Zenon DEF RecoveryStep, ReadUncompleted, BeginAttempt, RecoveryDone,
                TargetMissing, VerifyIntent, ResolveRecovered,
                RecordRecovered, CloseAttempt, CloseJob, RecoveryLabels, Goto
  <2> QED
    BY <1>1, <1>6, <2>1, Zenon DEF LockStep, Locked, ExecLabels, RecoveryLabels
<1>7. CASE /\ Seed(p) \/ Coalesce(p) \/ AdmitNew(p) \/ ClaimAttempt(p)
              \/ PlanJob(p) \/ PlanFails(p) \/ FinishJob(p) \/ FinishAttempt(p)
           /\ UNCHANGED procVars
  <2>1. \/ pc[p] \in Locked
        \/ pc' = [pc EXCEPT ![p] = "lock"]
    BY <1>7, Zenon DEF Seed, Coalesce, AdmitNew, ClaimAttempt, PlanJob, PlanFails,
                FinishJob, FinishAttempt, Goto, Locked
  <2>2. \E l : pc' = [pc EXCEPT ![p] = l]
    BY <1>7, Zenon DEF Seed, Coalesce, AdmitNew, ClaimAttempt, PlanJob, PlanFails,
                FinishJob, FinishAttempt, Goto
  <2> QED
    BY <1>1, <1>7, <2>1, <2>2, Zenon DEF LockStep, Locked, ExecLabels
<1>8. CASE Return(p) \/ (Ask(p) /\ ~Stop(p))
  <2>1. pc[p] \in Locked /\ lock' = lock /\ gone' = gone
    BY <1>8, Zenon DEF Return, Ask, Submit, Cancel, ReloadConfig, UpdateConfig, Locked
  <2>2. pc' = pc \/ \E l : pc' = [pc EXCEPT ![p] = l]
    BY <1>8, Zenon DEF Return, Ask, Submit, Cancel, ReloadConfig, UpdateConfig, Goto
  <2> QED
    BY <1>1, <2>1, <2>2, Zenon DEF LockStep
<1> QED
  BY <1>2, <1>3, <1>4, <1>5, <1>6, <1>7, <1>8, <1>9, Zenon DEF Work, Ask

\* system/pidfile PidLock, perform_shutdown_cleanup: a plan is only executed by
\* the process that holds the PID lock, or by the worker a daemon left behind when
\* its run() gave the lock up: two plans are executed at once only if one is such.
THEOREM ExecutionUnderLock == Spec => []ExecutesUnderLock
<1>1. Init => LockInv
  BY DEF Init, EngineInit, LockInv, Locked, ExecLabels
<1>2. TypeOK /\ LockInv /\ [Next]_vars => LockInv'
  <2> SUFFICES ASSUME TypeOK, LockInv, [Next]_vars
               PROVE  LockInv'
    BY Zenon
  <2>1. ASSUME NEW p \in Procs, Start(p) \/ Work(p) \/ Ask(p) \/ Crash(p)
        PROVE  LockInv'
    BY <2>1, WorkLocks, LockStepKeeps, Zenon
  <2>2. CASE Apps \/ UNCHANGED vars
    BY <2>2, Zenon DEF Apps, vars, LockInv
  <2> QED
    BY <2>1, <2>2, Zenon DEF Next
<1>3. LockInv => ExecutesUnderLock
  BY Zenon DEF LockInv, ExecutesUnderLock, Locked
<1> QED
  BY <1>1, <1>2, <1>3, TypeCorrect, PTL DEF Spec

Lock == INSTANCE LockOwner WITH Users <- Procs, Nobody <- NoProc, owner <- lock

\* system/pidfile PidLock: the lock the pipeline works under is the one LockOwner
\* specifies, which PidLock's files and advisory locks implement.
THEOREM PipelineUsesLock == Spec => Lock!LockSpec
<1>1. Init => Lock!LockInit
  BY Zenon DEF Init, Lock!LockInit
<1>2. TypeOK /\ [Next]_vars => [Lock!LockNext]_lock
  <2> SUFFICES ASSUME TypeOK, [Next]_vars
               PROVE  [Lock!LockNext]_lock
    BY Zenon
  <2>1. ASSUME NEW p \in Procs, Start(p) \/ Work(p) \/ Ask(p) \/ Crash(p)
        PROVE  [Lock!LockNext]_lock
    BY <2>1, WorkLocks, Zenon DEF LockStep, Lock!LockNext, Lock!Take, Lock!Give
  <2>2. CASE Apps \/ UNCHANGED vars
    BY <2>2, Zenon DEF Apps, vars
  <2> QED
    BY <2>1, <2>2, Zenon DEF Next
<1> QED
  BY <1>1, <1>2, TypeCorrect, PTL DEF Spec, Lock!LockSpec

-----------------------------------------------------------------------------
(***************************************************************************)
(* A directory is removed after its contents: DoneInv, for any number of   *)
(* processes.                                                              *)
(***************************************************************************)

\* A step that takes p out of execute_plan, or leaves it out.
LEMMA OutsideDone ==
  ASSUME NEW p \in Procs, pc'[p] \notin ExecLabels
  PROVE  DoneInv(p)'
BY Zenon DEF DoneInv

\* A step of execute_plan keeps what successful_op_ids stands for.
LEMMA ExecDone ==
  ASSUME IInv, NEW p \in Procs, DoneInv(p), ExecStep(p), observed \subseteq observed'
  PROVE  DoneInv(p)' /\ \A q \in Procs : q # p => done'[q] = done[q]
<1>1. /\ pc \in [Procs -> ExecLabels \cup RecoveryLabels \cup PipelineLabels]
      /\ at \in [Procs -> 0 .. MaxOp]
      /\ done \in [Procs -> SUBSET Ops]
  BY Zenon DEF IInv, TypeOK, EngineTypeOK, ExecTypeOK
<1>2. "completed" \notin ExecLabels /\ "errored" \notin ExecLabels
  BY Zenon DEF ExecLabels
<1>3. CASE SkipOp(p) \/ RejectOp(p) \/ OpenParentFails(p) \/ RecordResult(p)
  <2>1. /\ UNCHANGED <<done, attempt, observed, plan>>
        /\ NextOp(p)
        /\ pc[p] \in ExecLabels
    BY <1>3, Zenon DEF SkipOp, RejectOp, OpenParentFails, RecordResult, ExecLabels
  <2>2. pc'[p] = "op" \/ pc'[p] = "completed"
    BY <1>1, <2>1, Zenon DEF NextOp, Goto
  <2> QED
    BY <1>2, <2>1, <2>2, Zenon DEF DoneInv
<1>4. CASE CommitIntent(p)
  <2>1. /\ UNCHANGED <<done, attempt, at, observed, plan>>
        /\ pc[p] \in ExecLabels
        /\ Dependencies(p, at[p]) \subseteq done[p]
    BY <1>4, Zenon DEF CommitIntent, ExecLabels
  <2>2. (Dependencies(p, at[p]) \subseteq done[p])'
    BY <2>1, Zenon DEF Dependencies
  <2> QED
    BY <2>1, <2>2, Zenon DEF DoneInv
<1>5. CASE MarkMutating(p) \/ StatChild(p) \/ Unlinkat(p) \/ VerifyOp(p)
  <2>1. /\ UNCHANGED <<done, attempt, at, plan>>
        /\ pc[p] \in ExecLabels /\ pc[p] # "op"
    BY <1>5, Zenon DEF MarkMutating, StatChild, Unlinkat, VerifyOp, ExecLabels
  <2>2. (Dependencies(p, at[p]) \subseteq done[p])'
    BY <2>1, Zenon DEF Dependencies, DoneInv
  <2> QED
    BY <2>1, <2>2, Zenon DEF DoneInv
<1>6. CASE ResolveIntent(p)
  <2>1. /\ UNCHANGED <<attempt, at, plan, observed>>
        /\ pc[p] = "resolve" /\ pc[p] \in ExecLabels
        /\ \/ UNCHANGED done
           \/ done' = [done EXCEPT ![p] = IF outcome[p] = "GONE" THEN @ \cup {at[p]} ELSE @]
    BY <1>6, Zenon DEF ResolveIntent, ExecLabels
  <2>2. outcome[p] = "GONE" => <<attempt[p], at[p]>> \in observed
    BY <2>1, Zenon DEF IInv, ProcInv
  <2>3. /\ \A k \in done'[p] : k \in done[p] \/ (k = at[p] /\ outcome[p] = "GONE")
        /\ done[p] \subseteq done'[p]
        /\ \A q \in Procs : q # p => done'[q] = done[q]
    BY <1>1, <2>1, Zenon
  <2>4. (Dependencies(p, at[p]) \subseteq done[p])'
    BY <2>1, <2>3, Zenon DEF Dependencies, DoneInv
  <2>5. \A k \in done'[p] : <<attempt'[p], k>> \in observed'
    BY <2>1, <2>2, <2>3, Zenon DEF DoneInv
  <2> QED
    BY <2>3, <2>4, <2>5, Zenon DEF DoneInv
<1> QED
  BY <1>3, <1>4, <1>5, <1>6, Zenon DEF ExecStep

\* So does every step of a process; a new plan starts with none.
LEMMA DoneStep ==
  ASSUME IInv, NEW p \in Procs, DoneInv(p), observed \subseteq observed',
         Start(p) \/ Work(p) \/ Ask(p) \/ Crash(p)
  PROVE  DoneInv(p)' /\ \A q \in Procs : q # p => done'[q] = done[q]
<1>1. /\ pc \in [Procs -> ExecLabels \cup RecoveryLabels \cup PipelineLabels]
      /\ done \in [Procs -> SUBSET Ops]
  BY Zenon DEF IInv, TypeOK, EngineTypeOK, ExecTypeOK
<1>2. CASE /\ Start(p) \/ TakeLock(p) \/ Seed(p) \/ Coalesce(p) \/ AdmitNew(p) \/ ClaimAttempt(p)
              \/ PlanFails(p) \/ FinishJob(p) \/ FinishAttempt(p) \/ Submit(p)
           /\ UNCHANGED done
  <2>1. \E l \in {"reconcile", "idle", "lock", "claim", "plan", "errored", "finish_ok",
                  "finish_err", "returned", "admit"} : pc' = [pc EXCEPT ![p] = l]
    BY <1>2, Zenon DEF Start, StartDaemon, StartStandalone, TakeLock, Seed, Coalesce, AdmitNew,
           ClaimAttempt, PlanFails, FinishJob, FinishAttempt, Submit, Goto
  <2>2. pc'[p] \notin ExecLabels
    BY <1>1, <2>1, Zenon DEF ExecLabels
  <2> QED
    BY <1>2, <2>2, OutsideDone, Zenon
<1>3. CASE RecoveryStep(p) /\ UNCHANGED execVars
  <2>1. \/ pc' = pc /\ pc[p] = "r_intent"
        \/ \E l \in RecoveryLabels \cup {"seed"} : pc' = [pc EXCEPT ![p] = l]
    BY <1>3, Zenon DEF RecoveryStep, ReadUncompleted, BeginAttempt, RecoveryDone, TargetMissing,
           VerifyIntent, ResolveRecovered, RecordRecovered, CloseAttempt, CloseJob,
           RecoveryLabels, Goto
  <2>2. pc'[p] \notin ExecLabels
    BY <1>1, <2>1, Zenon DEF ExecLabels, RecoveryLabels
  <2> QED
    BY <1>3, <2>2, OutsideDone, Zenon
<1>4. CASE PlanJob(p)
  <2>1. /\ done'[p] = {} /\ \A q \in Procs : q # p => done'[q] = done[q]
        /\ \E l \in {"completed", "errored", "op"} : pc' = [pc EXCEPT ![p] = l]
    BY <1>1, <1>4, Zenon DEF PlanJob, Goto
  <2>2. pc'[p] \in ExecLabels => pc'[p] = "op"
    BY <1>1, <2>1, Zenon DEF ExecLabels
  <2> QED
    BY <2>1, <2>2, Zenon DEF DoneInv
<1>5. CASE ExecStep(p)
  BY <1>5, ExecDone, Zenon
<1>6. CASE Return(p) \/ Exit(p) \/ Crash(p)
  <2>1. /\ \A q \in Procs : q # p => done'[q] = done[q]
        /\ \E l \in {"idle", "down"} : pc' = [pc EXCEPT ![p] = l]
    BY <1>1, <1>6, Zenon DEF Return, Exit, Crash, Forget, DropLocals, Goto
  <2>2. pc'[p] \notin ExecLabels
    BY <1>1, <2>1, Zenon DEF ExecLabels
  <2> QED
    BY <2>1, <2>2, OutsideDone, Zenon
<1>7. CASE Cancel(p) \/ Stop(p) \/ (ReloadConfig(p) /\ UNCHANGED execIdle)
  <2>1. UNCHANGED <<pc, attempt, at, plan, done>>
    BY <1>7, Zenon DEF Cancel, Stop, ReloadConfig, UpdateConfig
  <2> QED
    BY <2>1, Zenon DEF DoneInv, Dependencies
<1> QED
  BY <1>2, <1>3, <1>4, <1>5, <1>6, <1>7, Zenon DEF Work, Ask, Start, Submit, PlanFails

\* DoneInv says what DirAfterContents says of the processes.
LEMMA DoneSeen ==
  ASSUME NEW p \in Procs, DoneInv(p)
  PROVE  DependenciesSeen(p)
BY Zenon DEF DoneInv, DependenciesSeen, Dependencies, Op

\* What the other processes know is not touched by a step of p.
LEMMA OthersStay ==
  ASSUME IInv, NEW p \in Procs, Start(p) \/ Work(p) \/ Ask(p) \/ Crash(p)
  PROVE  Others(p)
<1>1. CASE Start(p) \/ Work(p) \/ Crash(p)
  BY <1>1, StartStep, WorkStep, LeaveStep, Zenon DEF StepOK
<1>2. CASE Submit(p) /\ UNCHANGED <<storeVars, diskVars, recoveryVars, schedVars, procVars>>
  BY <1>2, SubmitStep, Zenon DEF StepOK
<1>3. CASE \/ Cancel(p) /\ UNCHANGED <<recoveryVars, schedVars, procVars>>
           \/ ReloadConfig(p) /\ UNCHANGED <<execIdle, recoveryVars, procVars>>
           \/ Stop(p)
  BY <1>3, Zenon DEF Cancel, ReloadConfig, UpdateConfig, Stop, Others
<1> QED
  BY <1>1, <1>2, <1>3, Zenon DEF Ask

\* DoneInv is inductive relative to IInv.
LEMMA DoneNext ==
  ASSUME IInv, DoneAll, [Next]_vars
  PROVE  DoneAll'
<1>1. observed \subseteq observed'
  BY NextKeepsIInv, LedgerInductive, Zenon DEF IInv, LedgerGrows
<1>2. ASSUME NEW p \in Procs, Start(p) \/ Work(p) \/ Ask(p) \/ Crash(p)
      PROVE  DoneAll'
  <2>1. DoneInv(p)' /\ \A q \in Procs : q # p => done'[q] = done[q]
    BY <1>1, <1>2, DoneStep, Zenon DEF DoneAll
  <2>2. Others(p)
    BY <1>2, OthersStay, Zenon
  <2>3. ASSUME NEW q \in Procs, q # p
        PROVE  DoneInv(q)'
    <3>1. /\ pc'[q] = pc[q] /\ attempt'[q] = attempt[q] /\ at'[q] = at[q]
          /\ plan'[q] = plan[q] /\ done'[q] = done[q]
      BY <2>1, <2>2, <2>3, Zenon DEF Others
    <3> QED
      BY <1>1, <3>1, Zenon DEF DoneAll, DoneInv, Dependencies
  <2> QED
    BY <2>1, <2>3, Zenon DEF DoneAll
<1>3. CASE Apps \/ UNCHANGED vars
  <2>1. UNCHANGED <<pc, attempt, at, plan, done>>
    BY <1>3, Zenon DEF Apps, vars
  <2> QED
    BY <1>1, <2>1, Zenon DEF DoneAll, DoneInv, Dependencies
<1> QED
  BY <1>2, <1>3, Zenon DEF Next

\* executor step 2, for any number of processes, crashes and errors: whoever has
\* committed an intent for a directory works on a plan whose earlier operations
\* below that directory have all been seen deleted.
THEOREM DependenciesFirst == Spec => [](\A p \in Procs : DependenciesSeen(p))
<1>1. Init => DoneAll
  BY Zenon DEF Init, EngineInit, DoneAll, DoneInv, ExecLabels
<1>2. IInv /\ DoneAll /\ [Next]_vars => DoneAll'
  BY DoneNext, Zenon
<1>3. DoneAll => \A p \in Procs : DependenciesSeen(p)
  BY DoneSeen, Zenon DEF DoneAll
<1> QED
  BY <1>1, <1>2, <1>3, Invariance, PTL DEF Spec

-----------------------------------------------------------------------------
(***************************************************************************)
(* One process at a time: what each step does to SeqInv.                   *)
(***************************************************************************)

\* A statement that fails changes no table and leaves its trace.
LEMMA FailsOnce ==
  ASSUME TypeOK, StoreFails
  PROVE  storeErrs' # 0 /\ UNCHANGED <<jobs, attempts, intents, operations>>
BY DEF TypeOK, StoreTypeOK, StoreFails

\* While p is up, the others are down.
LEMMA Alone ==
  ASSUME OneAtATime, OneAtATime', NEW p \in Procs, pc[p] # "down" \/ pc'[p] # "down",
         \A q \in Procs : q # p => pc'[q] = pc[q]
  PROVE  \A q \in Procs : q # p => pc'[q] = "down"
BY Zenon DEF OneAtATime

\* Nothing is said of a process that is down.
LEMMA DownSeq ==
  ASSUME NEW q \in Procs, pc'[q] = "down"
  PROVE  SeqProcInv(q)'
BY Zenon DEF SeqProcInv, AttemptInv, SucceededInv, SettledInv, PlanInv, Working, Reverifying,
       Reconciling, Seeded, ExecLabels

\* What a step of p has to show.
LEMMA SeqStep ==
  ASSUME OneAtATime, OneAtATime', NEW p \in Procs, pc[p] # "down" \/ pc'[p] # "down",
         \A q \in Procs : q # p => pc'[q] = pc[q],
         SeqStoreInv', SeqProcInv(p)'
  PROVE  SeqInv'
BY Alone, DownSeq, Zenon DEF SeqInv

\* A step that leaves attempts, intents, removals and observations alone and
\* recovers no job.
LEMMA QuietSeqStore ==
  ASSUME SeqStoreInv, UNCHANGED <<attempts, intents, removed, observed>>,
         storeErrs' = 0 => storeErrs = 0,
         \A j \in Jobs : jobs'[j] = "RECOVERED" => jobs[j] = "RECOVERED"
  PROVE  SeqStoreInv'
<1>1. ReconciledMeansDeleted' /\ RemovalAccounted'
  BY Zenon DEF SeqStoreInv, ReconciledMeansDeleted, RemovalAccounted
<1>2. RecoveredIsBacked'
  BY Zenon DEF SeqStoreInv, RecoveredIsBacked
<1>3. (storeErrs = 0 => DirRowsLast)'
  BY Zenon DEF SeqStoreInv, DirRowsLast
<1> QED
  BY <1>1, <1>2, <1>3, Zenon DEF SeqStoreInv

\* A step that moves p on without touching what SeqStoreInv is about.
QuietMove(p) ==
  /\ UNCHANGED <<attempts, intents, removed, observed>>
  /\ storeErrs' = 0 => storeErrs = 0
  /\ \A j \in Jobs : jobs'[j] = "RECOVERED" => jobs[j] = "RECOVERED"
  /\ pc'[p] \in Seeded => pc[p] \in Seeded /\ attemptCounter'[p] = attemptCounter[p]
  /\ pc'[p] \in Working =>
       /\ pc[p] \in Working /\ attempt'[p] = attempt[p]
       /\ storeErrs' = 0 /\ pc[p] \in {"verify", "resolve"} =>
            pc'[p] = pc[p] /\ at'[p] = at[p]
  /\ pc'[p] \in ExecLabels =>
       /\ pc[p] \in ExecLabels /\ plan'[p] = plan[p]
       /\ \/ at'[p] = at[p] /\ (pc'[p] = "op" => pc[p] = "op")
          \/ at'[p] = at[p] + 1
  /\ pc'[p] \in {"plan", "committed", "r_attempt"} \cup Reconciling =>
       /\ pc'[p] = pc[p] /\ at'[p] = at[p] /\ attempt'[p] = attempt[p]
       /\ outcome'[p] = outcome[p]
       /\ todo'[p] = todo[p] /\ listed'[p] = listed[p]
       /\ allSucceeded'[p] = allSucceeded[p] /\ hasUnknown'[p] = hasUnknown[p]

LEMMA QuietSeq ==
  ASSUME IInv, SeqInv, NEW p \in Procs, QuietMove(p)
  PROVE  SeqStoreInv' /\ SeqProcInv(p)'
<1>0. SeqStoreInv /\ SeqProcInv(p)
  BY Zenon DEF SeqInv
<1>1. SeqStoreInv'
  BY <1>0, QuietSeqStore, Zenon DEF QuietMove
<1>2. UNCHANGED <<attempts, intents, removed, observed>> /\ (storeErrs' = 0 => storeErrs = 0)
  BY Zenon DEF QuietMove
<1>3. AttemptInv(p)'
  <2>1. AttemptInv(p)
    BY <1>0, Zenon DEF SeqProcInv
  <2>2. pc'[p] \in Reverifying \cup {"r_job"} => pc'[p] \in Reconciling
    BY Zenon DEF Reverifying, Reconciling
  <2>3. pc'[p] \in Working => attempt'[p] \in Attempts /\ attempts'[attempt'[p]].state = "RUNNING"
    BY <1>2, <2>1, Zenon DEF QuietMove, AttemptInv
  <2>4. pc'[p] \in Reverifying => attempt'[p] \in Attempts /\ attempts'[attempt'[p]].state = "RUNNING"
    BY <1>2, <2>1, <2>2, Zenon DEF QuietMove, AttemptInv
  <2>5. pc'[p] \in {"r_attempt"} \cup Reconciling => \A a \in todo'[p] : attempts'[a].state = "RUNNING"
    BY <1>2, <2>1, Zenon DEF QuietMove, AttemptInv
  <2>6. pc'[p] \in Reconciling => attempt'[p] \notin todo'[p]
    BY <1>2, <2>1, Zenon DEF QuietMove, AttemptInv
  <2>7. pc'[p] = "r_job" =>
          attempts'[attempt'[p]].state = AttemptVerdict(allSucceeded'[p], hasUnknown'[p])
    BY <1>2, <2>1, <2>2, Zenon DEF QuietMove, AttemptInv
  <2>8. pc'[p] \in Seeded /\ storeErrs' = 0 =>
          \A a \in Attempts : attempts'[a].state # "NONE" => a < attemptCounter'[p]
    BY <1>2, <2>1, Zenon DEF QuietMove, AttemptInv
  <2> QED
    BY <2>3, <2>4, <2>5, <2>6, <2>7, <2>8, Zenon DEF AttemptInv, AttemptVerdict
<1>4. SucceededInv(p)'
  <2>1. pc'[p] \in Reverifying \cup {"r_resolve", "r_record"} => pc'[p] \in Reconciling
    BY Zenon DEF Reverifying, Reconciling
  <2> QED
    BY <1>0, <1>2, <2>1, Zenon DEF SeqProcInv, SucceededInv, QuietMove
<1>5. storeErrs' = 0 => SettledInv(p)'
  <2> SUFFICES ASSUME storeErrs' = 0 PROVE SettledInv(p)'
    BY Zenon
  <2>1. SettledInv(p)
    BY <1>0, <1>2, Zenon DEF SeqProcInv
  <2>2. pc'[p] \in Reverifying \cup {"r_record"} => pc'[p] \in Reconciling
    BY Zenon DEF Reverifying, Reconciling
  <2>3. pc'[p] = "committed" => intents'[<<attempt'[p], at'[p]>>].state = "COMMITTED"
    BY <1>2, <2>1, Zenon DEF SettledInv, QuietMove
  <2>4. pc'[p] \in Working =>
          \A r \in removed' : r.attempt = attempt'[p] =>
            \/ intents'[<<r.attempt, r.op>>].state \in Settled
            \/ r.op = at'[p] /\ pc'[p] \in {"verify", "resolve"}
    BY <1>2, <2>1, Zenon DEF SettledInv, QuietMove
  <2>5. pc'[p] \in Reverifying =>
          \A o \in Ops : intents'[<<attempt'[p], o>>] # NoRow =>
            o \in listed'[p] \/ intents'[<<attempt'[p], o>>].state \in Settled
    BY <1>2, <2>1, <2>2, Zenon DEF SettledInv, QuietMove
  <2>6. pc'[p] = "r_record" => intents'[<<attempt'[p], at'[p]>>].state \in Settled
    BY <1>2, <2>1, <2>2, Zenon DEF SettledInv, QuietMove
  <2> QED
    BY <2>3, <2>4, <2>5, <2>6, Zenon DEF SettledInv
<1>6. storeErrs' = 0 => PlanInv(p)'
  <2> SUFFICES ASSUME storeErrs' = 0 PROVE PlanInv(p)'
    BY Zenon
  <2>1. PlanInv(p)
    BY <1>0, <1>2, Zenon DEF SeqProcInv
  <2>2. pc'[p] = "plan" => \A k \in Ops : intents'[<<attempt'[p], k>>] = NoRow
    BY <1>2, <2>1, Zenon DEF PlanInv, QuietMove
  <2>3. ASSUME pc'[p] \in ExecLabels, NEW k \in Ops, intents'[<<attempt'[p], k>>] # NoRow
        PROVE  /\ k <= at'[p]
               /\ pc'[p] = "op" => k < at'[p]
               /\ intents'[<<attempt'[p], k>>].path = plan'[p][k].path
    <3>1. pc[p] \in ExecLabels /\ plan'[p] = plan[p] /\ attempt'[p] = attempt[p]
      BY <2>3, Zenon DEF QuietMove, Working
    <3>2. /\ k <= at[p] /\ (pc[p] = "op" => k < at[p])
          /\ intents[<<attempt[p], k>>].path = plan[p][k].path
      BY <1>2, <2>1, <2>3, <3>1, Zenon DEF PlanInv
    <3>3. \/ at'[p] = at[p] /\ (pc'[p] = "op" => pc[p] = "op")
          \/ at'[p] = at[p] + 1
      BY <2>3, Zenon DEF QuietMove
    <3>4. k \in Nat /\ at[p] \in Nat
      BY BoundAssumption DEF Ops, IInv, TypeOK, EngineTypeOK
    <3>5. k <= at'[p] /\ (pc'[p] = "op" => k < at'[p])
      BY <3>2, <3>3, <3>4
    <3> QED
      BY <1>2, <3>1, <3>2, <3>5, Zenon
  <2> QED
    BY <2>2, <2>3, Zenon DEF PlanInv
<1> QED
  BY <1>1, <1>3, <1>4, <1>5, <1>6, Zenon DEF SeqProcInv

-----------------------------------------------------------------------------
\* Steps that only move p on: before an attempt is claimed, at its end, and what
\* others ask for.
LEMMA LifeQuiet ==
  ASSUME IInv, NEW p \in Procs,
         \/ Start(p)
         \/ TakeLock(p) /\ UNCHANGED <<storeVars, execIdle, recoveryVars, schedVars>>
         \/ Submit(p) /\ UNCHANGED <<storeVars, diskVars, recoveryVars, schedVars, procVars>>
         \/ PlanFails(p) /\ UNCHANGED <<storeVars, recoveryVars, schedVars, procVars>>
  PROVE  QuietMove(p)
<1>1. /\ pc \in [Procs -> ExecLabels \cup RecoveryLabels \cup PipelineLabels]
      /\ UNCHANGED <<jobs, attempts, intents, removed, observed, storeErrs, attemptCounter,
                     attempt, at, outcome, plan>>
  BY Zenon DEF IInv, TypeOK, EngineTypeOK, Start, StartDaemon, StartStandalone, TakeLock, Submit,
           PlanFails
<1>2. \/ pc'[p] = "reconcile"
      \/ pc'[p] \in {"idle", "admit"} /\ pc[p] \in {"lock", "idle"}
      \/ pc'[p] = "errored" /\ pc[p] = "plan"
  BY <1>1, Zenon DEF Start, StartDaemon, StartStandalone, TakeLock, Submit, PlanFails, Goto
<1> QED
  BY <1>1, <1>2, Zenon DEF QuietMove, Seeded, Working, Reconciling, ExecLabels

\* Admission: no job it registers is RECOVERED.
LEMMA AdmitQuiet ==
  ASSUME IInv, NEW p \in Procs, Coalesce(p) \/ AdmitNew(p),
         UNCHANGED <<execIdle, recoveryVars, procVars>>
  PROVE  QuietMove(p)
<1>1. /\ pc \in [Procs -> ExecLabels \cup RecoveryLabels \cup PipelineLabels]
      /\ jobs \in [Jobs -> JobStates]
      /\ UNCHANGED <<removed, observed, attemptCounter>>
  BY Zenon DEF IInv, TypeOK, EngineTypeOK, StoreTypeOK, Coalesce, AdmitNew
<1>2. /\ UNCHANGED <<attempts, intents>>
      /\ storeErrs' = 0 => storeErrs = 0
  <2>1. CASE StoreFails
    BY <2>1, FailsOnce, Zenon DEF IInv
  <2> QED
    BY <2>1, Zenon DEF Coalesce, AdmitNew, register_job
<1>3. \A j \in Jobs : jobs'[j] = "RECOVERED" => jobs[j] = "RECOVERED"
  BY <1>1, Zenon DEF Coalesce, AdmitNew, register_job, StoreFails
<1>4. pc'[p] \in {"claim", "returned"} /\ pc[p] = "admit"
  BY <1>1, Zenon DEF Coalesce, AdmitNew, Goto
<1> QED
  BY <1>1, <1>2, <1>3, <1>4, Zenon DEF QuietMove, Seeded, Working, Reconciling, ExecLabels

\* The job is closed, COMPLETED or FAILED.
LEMMA FinishJobQuiet ==
  ASSUME IInv, NEW p \in Procs, FinishJob(p),
         UNCHANGED <<execIdle, recoveryVars, schedVars, procVars>>
  PROVE  QuietMove(p)
<1>1. /\ pc \in [Procs -> ExecLabels \cup RecoveryLabels \cup PipelineLabels]
      /\ jobs \in [Jobs -> JobStates]
      /\ UNCHANGED <<removed, observed, attemptCounter, attempt>>
  BY Zenon DEF IInv, TypeOK, EngineTypeOK, StoreTypeOK, FinishJob
<1>2. /\ UNCHANGED <<attempts, intents>>
      /\ storeErrs' = 0 => storeErrs = 0
  <2>1. CASE StoreFails
    BY <2>1, FailsOnce, Zenon DEF IInv
  <2> QED
    BY <2>1, Zenon DEF FinishJob, update_job_state
<1>3. \A j \in Jobs : jobs'[j] = "RECOVERED" => jobs[j] = "RECOVERED"
  BY <1>1, Zenon DEF FinishJob, update_job_state, StoreFails
<1>4. pc'[p] \in {"finish_ok", "finish_err", "returned"} /\ pc[p] \in {"completed", "errored"}
  BY <1>1, Zenon DEF FinishJob, Goto
<1> QED
  BY <1>1, <1>2, <1>3, <1>4, Zenon DEF QuietMove, Seeded, Working, Reconciling, ExecLabels

\* The process is gone, or back at the daemon's worker.
LEMMA LeaveQuiet ==
  ASSUME IInv, NEW p \in Procs, Return(p) \/ Exit(p) \/ Crash(p)
  PROVE  QuietMove(p)
<1>1. /\ pc \in [Procs -> ExecLabels \cup RecoveryLabels \cup PipelineLabels]
      /\ UNCHANGED <<jobs, attempts, intents, storeErrs, removed, observed>>
  BY Zenon DEF IInv, TypeOK, EngineTypeOK, Return, Exit, Crash, Forget, DropLocals
<1>2. \/ pc'[p] = "down"
      \/ pc'[p] = "idle" /\ pc[p] = "returned" /\ UNCHANGED attemptCounter
  BY <1>1, Zenon DEF Return, Exit, Crash, Forget, Goto
<1> QED
  BY <1>1, <1>2, Zenon DEF QuietMove, Seeded, Working, Reconciling, ExecLabels

\* A cancellation, a reload, an app: p is where it was.
LEMMA StandQuiet ==
  ASSUME NEW p \in Procs,
         UNCHANGED <<storeVars, engineVars, plan, removed, recoveryVars, attemptCounter>>
  PROVE  QuietMove(p)
BY Zenon DEF QuietMove, Working, Seeded

\* An iteration of execute_plan ends without a trace, or with a result on record.
LEMMA NextOpQuiet ==
  ASSUME IInv, NEW p \in Procs,
         SkipOp(p) \/ RejectOp(p) \/ OpenParentFails(p) \/ RecordResult(p),
         UNCHANGED <<recoveryVars, schedVars, procVars>>
  PROVE  QuietMove(p)
<1>1. /\ pc \in [Procs -> ExecLabels \cup RecoveryLabels \cup PipelineLabels]
      /\ at \in [Procs -> 0 .. MaxOp]
      /\ UNCHANGED <<removed, observed, attemptCounter, attempt, plan>>
      /\ NextOp(p)
      /\ pc[p] \in {"op", "mutating", "record"}
  BY Zenon DEF IInv, TypeOK, EngineTypeOK, SkipOp, RejectOp, OpenParentFails, RecordResult
<1>2. /\ UNCHANGED <<jobs, attempts, intents>>
      /\ storeErrs' = 0 => storeErrs = 0
  <2>1. CASE StoreFails
    BY <2>1, FailsOnce, Zenon DEF IInv
  <2> QED
    BY <2>1, Zenon DEF SkipOp, RejectOp, OpenParentFails, RecordResult, record_operation_result
<1>3. \/ pc'[p] = "op" /\ at'[p] = at[p] + 1
      \/ pc'[p] = "completed"
  BY <1>1, Zenon DEF NextOp, Goto
<1> QED
  BY <1>1, <1>2, <1>3, Zenon DEF QuietMove, Seeded, Working, Reconciling, ExecLabels

\* The stat of the entry.
LEMMA StatQuiet ==
  ASSUME IInv, NEW p \in Procs, StatChild(p), UNCHANGED <<recoveryVars, schedVars, procVars>>
  PROVE  QuietMove(p)
<1>1. /\ pc \in [Procs -> ExecLabels \cup RecoveryLabels \cup PipelineLabels]
      /\ UNCHANGED <<jobs, attempts, intents, storeErrs, removed, observed, attemptCounter,
                     attempt, at, plan>>
  BY Zenon DEF IInv, TypeOK, EngineTypeOK, StatChild
<1>2. pc'[p] \in {"unlink", "verify"} /\ pc[p] = "mutating"
  BY <1>1, Zenon DEF StatChild, Goto
<1> QED
  BY <1>1, <1>2, Zenon DEF QuietMove, Seeded, Working, Reconciling, ExecLabels

\* Recovery ends, or a statement of its own fails.
LEMMA RecoveryEndsQuiet ==
  ASSUME IInv, NEW p \in Procs, UNCHANGED <<execVars, schedVars, procVars>>, UNCHANGED observed,
         pc' = [pc EXCEPT ![p] = "seed"], UNCHANGED storeVars \/ StoreFails
  PROVE  QuietMove(p)
<1>1. /\ pc \in [Procs -> ExecLabels \cup RecoveryLabels \cup PipelineLabels]
      /\ pc'[p] = "seed"
  BY Zenon DEF IInv, TypeOK, EngineTypeOK
<1>2. /\ UNCHANGED <<jobs, attempts, intents>>
      /\ storeErrs' = 0 => storeErrs = 0
  BY FailsOnce, Zenon DEF IInv
<1> QED
  BY <1>1, <1>2, Zenon DEF QuietMove, Seeded, Working, Reconciling, ExecLabels

\* A statement of the executor or of claim_attempt fails.
LEMMA FailureQuiet ==
  ASSUME IInv, NEW p \in Procs, StoreFails, UNCHANGED <<removed, observed, attempt>>,
         \/ pc[p] = "claim" /\ pc' = [pc EXCEPT ![p] = "returned"]
         \/ pc[p] \in {"committed", "resolve"} /\ pc' = [pc EXCEPT ![p] = "errored"]
         \/ pc[p] \in {"finish_ok", "finish_err"} /\ pc' = [pc EXCEPT ![p] = "returned"],
         pc[p] # "claim" => UNCHANGED attemptCounter
  PROVE  SeqInv => SeqStoreInv' /\ SeqProcInv(p)'
<1>1. storeErrs' # 0 /\ UNCHANGED <<jobs, attempts, intents>>
  BY FailsOnce, Zenon DEF IInv
<1>2. pc \in [Procs -> ExecLabels \cup RecoveryLabels \cup PipelineLabels]
  BY Zenon DEF IInv, TypeOK, EngineTypeOK
<1>3. SeqInv => SeqStoreInv'
  BY <1>1, QuietSeqStore, Zenon DEF SeqInv
<1>4. SeqInv => SeqProcInv(p)'
  <2>1. pc'[p] \in {"returned", "errored"} /\ (pc'[p] = "errored" => pc[p] \in Working)
    BY <1>2, Zenon DEF Working, ExecLabels
  <2>2. pc'[p] = "errored" \/ pc'[p] \notin Working \cup Reverifying \cup Reconciling \cup {"r_attempt"}
    BY <2>1, Zenon DEF Working, ExecLabels, Reverifying, Reconciling
  <2>3. "errored" \notin Reverifying \cup Reconciling \cup {"r_attempt"}
    BY Zenon DEF Reverifying, Reconciling
  <2>4. pc'[p] \notin {"r_job", "r_resolve", "r_record"}
    BY <2>1, Zenon
  <2>5. SeqInv => AttemptInv(p)
    BY Zenon DEF SeqInv, SeqProcInv
  <2> QED
    BY <1>1, <2>1, <2>2, <2>3, <2>4, <2>5, Zenon DEF SeqProcInv, AttemptInv, SucceededInv
<1> QED
  BY <1>3, <1>4, Zenon

-----------------------------------------------------------------------------
\* An UPDATE of an intent's state: every other row is what it was.
LEMMA UpdateRow ==
  ASSUME IInv, NEW a \in Attempts, NEW o \in Ops, NEW s \in IntentStates,
         intents[<<a, o>>] # NoRow, update_intent_state(a, o, s)
  PROVE  /\ \A k \in Attempts \X Ops : intents'[k] # NoRow <=> intents[k] # NoRow
         /\ \A k \in Attempts \X Ops : intents[k] # NoRow => intents'[k].path = intents[k].path
         /\ \A k \in Attempts \X Ops : k # <<a, o>> => intents'[k] = intents[k]
         /\ intents'[<<a, o>>].state = s
         /\ UNCHANGED <<jobs, attempts, operations, storeErrs>>
<1>1. /\ intents \in [Attempts \X Ops -> Intent \cup {NoRow}]
      /\ <<a, o>> \in Attempts \X Ops
  BY Zenon DEF IInv, LedgerInv
<1>2. intents[<<a, o>>] \in Intent
  BY <1>1, Zenon
<1>3. /\ intents' = [intents EXCEPT ![<<a, o>>] = [intents[<<a, o>>] EXCEPT !.state = s]]
      /\ UNCHANGED <<jobs, attempts, operations, storeErrs>>
  BY Zenon DEF update_intent_state
<1> DEFINE u == [intents[<<a, o>>] EXCEPT !.state = s]
<1>4. u # NoRow /\ u.state = s /\ u.path = intents[<<a, o>>].path
  BY <1>2, IntentUpdate, Zenon
<1>5. intents'[<<a, o>>] = u /\ \A k \in Attempts \X Ops : k # <<a, o>> => intents'[k] = intents[k]
  BY <1>1, <1>3, Zenon
<1> HIDE DEF u
<1> QED
  BY <1>3, <1>4, <1>5, Zenon

\* It keeps the promises of the store when the new state is settled or the
\* attempt is still RUNNING.
LEMMA UpdateSeqStore ==
  ASSUME IInv, SeqStoreInv, NEW a \in Attempts, NEW o \in Ops, NEW s \in IntentStates,
         intents[<<a, o>>] # NoRow, update_intent_state(a, o, s),
         UNCHANGED <<removed, observed>>,
         s \in Settled \/ attempts[a].state = "RUNNING"
  PROVE  SeqStoreInv'
<1>0. /\ \A k \in Attempts \X Ops : intents'[k] # NoRow <=> intents[k] # NoRow
      /\ \A k \in Attempts \X Ops : intents[k] # NoRow => intents'[k].path = intents[k].path
      /\ \A k \in Attempts \X Ops : k # <<a, o>> => intents'[k] = intents[k]
      /\ intents'[<<a, o>>].state = s
      /\ UNCHANGED <<jobs, attempts, operations, storeErrs>>
  BY UpdateRow, Zenon
<1>1. \A b \in Attempts, k \in Ops : intents'[<<b, k>>] # NoRow => attempts'[b].state # "NONE"
  BY <1>0, Zenon DEF SeqStoreInv
<1>2. ReconciledMeansDeleted'
  BY <1>0, Zenon DEF SeqStoreInv, ReconciledMeansDeleted
<1>3. RemovalAccounted'
  <2> SUFFICES ASSUME storeErrs' = 0, NEW r \in removed'
               PROVE  \/ attempts'[r.attempt].state = "RUNNING"
                      \/ intents'[<<r.attempt, r.op>>].state \in Settled
    BY Zenon DEF RemovalAccounted
  <2>1. r \in removed /\ <<r.attempt, r.op>> \in Attempts \X Ops
    BY Zenon DEF IInv, LedgerInv, Removal
  <2>2. CASE <<r.attempt, r.op>> = <<a, o>>
    <3>1. r.attempt = a
      BY <2>2, Zenon
    <3> QED
      BY <1>0, <2>2, <3>1, Zenon
  <2>3. CASE <<r.attempt, r.op>> # <<a, o>>
    BY <1>0, <2>1, <2>3, Zenon DEF SeqStoreInv, RemovalAccounted
  <2> QED
    BY <2>2, <2>3, Zenon
<1>4. RecoveredIsBacked'
  BY <1>0, Zenon DEF SeqStoreInv, RecoveredIsBacked
<1>5. (storeErrs = 0 => DirRowsLast)'
  <2>1. \A b \in Attempts, k \in Ops : <<b, k>> \in Attempts \X Ops
    BY Zenon
  <2> QED
    BY <1>0, <2>1, Zenon DEF SeqStoreInv, DirRowsLast
<1> QED
  BY <1>1, <1>2, <1>3, <1>4, <1>5, Zenon DEF SeqStoreInv

-----------------------------------------------------------------------------
\* The counters are seeded: MAX(attempt_id) is used up, and so is all below it.
LEMMA SeedSeq ==
  ASSUME IInv, SeqInv, NEW p \in Procs, Seed(p), UNCHANGED <<execIdle, recoveryVars, procVars>>
  PROVE  SeqStoreInv' /\ SeqProcInv(p)'
<1>1. /\ pc \in [Procs -> ExecLabels \cup RecoveryLabels \cup PipelineLabels]
      /\ attemptCounter \in [Procs -> Nat]
      /\ UNCHANGED <<removed, observed>>
  BY Zenon DEF IInv, TypeOK, EngineTypeOK, SchedTypeOK, Seed
<1>2. pc'[p] = "lock"
  BY <1>1, Zenon DEF Seed, Goto
<1>3. UNCHANGED <<jobs, attempts, intents>> /\ (storeErrs' = 0 => storeErrs = 0)
  BY FailsOnce, Zenon DEF Seed, IInv
<1>4. SeqStoreInv'
  BY <1>1, <1>3, QuietSeqStore, Zenon DEF SeqInv
<1>5. ASSUME storeErrs' = 0, NEW a \in Attempts, attempts'[a].state # "NONE"
      PROVE  a < attemptCounter'[p]
  <2>1. ~StoreFails
    BY <1>5, FailsOnce, Zenon DEF IInv
  <2>2. PICK n \in 0 .. MaxAttempt :
          get_max_attempt_id(n) /\ attemptCounter' = [attemptCounter EXCEPT ![p] = n + 1]
    BY <2>1, Zenon DEF Seed
  <2>3. attemptCounter'[p] = n + 1
    BY <1>1, <2>2, Zenon
  <2>4. a <= n
    BY <1>3, <1>5, <2>2, Zenon DEF get_max_attempt_id
  <2> QED
    BY <2>3, <2>4, BoundAssumption DEF Attempts
<1>6. SeqProcInv(p)'
  BY <1>2, <1>5, Zenon DEF SeqProcInv, AttemptInv, SucceededInv, SettledInv, PlanInv, Working,
         Reverifying, Reconciling, ExecLabels
<1> QED
  BY <1>4, <1>6, Zenon

\* claim_attempt: the id is new unless a statement has failed.
LEMMA ClaimSeq ==
  ASSUME IInv, SeqInv, NEW p \in Procs, ClaimAttempt(p),
         UNCHANGED <<execIdle, recoveryVars, procVars>>
  PROVE  /\ SeqStoreInv' /\ SeqProcInv(p)'
         /\ storeErrs' = 0 =>
              \A a \in Attempts : attempts[a].state \notin {"NONE", "RUNNING"}
                                    => attempts'[a].state # "RUNNING"
<1> DEFINE c == attemptCounter[p]
<1>1. /\ pc \in [Procs -> ExecLabels \cup RecoveryLabels \cup PipelineLabels]
      /\ attemptCounter \in [Procs -> Nat]
      /\ attempt \in [Procs -> 0 .. MaxAttempt]
      /\ attempts \in [Attempts -> [state : AttemptStates, job : 0 .. MaxJob]]
      /\ UNCHANGED <<removed, observed>>
      /\ pc[p] = "claim" /\ c \in Attempts
      /\ SeqStoreInv /\ SeqProcInv(p)
  BY Zenon DEF IInv, TypeOK, EngineTypeOK, SchedTypeOK, StoreTypeOK, ClaimAttempt, SeqInv
<1>2. CASE StoreFails /\ Goto(p, "returned") /\ UNCHANGED attempt
  <2>1. SeqStoreInv' /\ SeqProcInv(p)'
    BY <1>1, <1>2, FailureQuiet, Zenon DEF Goto
  <2> QED
    BY <1>2, <2>1, FailsOnce, Zenon DEF IInv
<1>3. CASE /\ create_attempt(c, job[p]) /\ Goto(p, "plan")
           /\ attempt' = [attempt EXCEPT ![p] = c]
  <2>1. /\ pc'[p] = "plan" /\ attempt'[p] = c
        /\ UNCHANGED <<jobs, intents, storeErrs>>
        /\ attempts'[c].state = "RUNNING"
        /\ \A a \in Attempts : a # c => attempts'[a] = attempts[a]
    BY <1>1, <1>3, Zenon DEF Goto, create_attempt
  <2>2. attemptCounter'[p] = c + 1
    BY <1>1, Zenon DEF ClaimAttempt
  <2>3. storeErrs = 0 => \A a \in Attempts : attempts[a].state # "NONE" => a < c
    BY <1>1, Zenon DEF SeqProcInv, AttemptInv, Seeded
  <2>4. c \in Nat /\ \A a \in Attempts : a \in Nat
    BY <1>1, BoundAssumption DEF Attempts
  <2>5. storeErrs = 0 => attempts[c].state = "NONE"
    BY <1>1, <2>3, <2>4
  <2>6. storeErrs = 0 => \A k \in Ops : intents[<<c, k>>] = NoRow
    BY <1>1, <2>5, Zenon DEF SeqStoreInv
  <2>7. storeErrs = 0 => \A r \in removed : r.attempt # c
    <3> SUFFICES ASSUME storeErrs = 0, NEW r \in removed, r.attempt = c PROVE FALSE
      BY Zenon
    <3>1. r.op \in Ops /\ intents[<<r.attempt, r.op>>].state # "NONE"
      BY Zenon DEF IInv, LedgerInv, IntentBeforeMutation, Removal
    <3>2. NoRow.state = "NONE"
      BY DEF NoRow
    <3> QED
      BY <2>6, <3>1, <3>2, Zenon
  <2>8. storeErrs = 0 => \A a \in Attempts : attempts'[a].state # "NONE" => a < c + 1
    <3> SUFFICES ASSUME storeErrs = 0, NEW a \in Attempts, attempts'[a].state # "NONE"
                 PROVE  a < c + 1
      BY Zenon
    <3>1. a = c \/ a < c
      BY <2>1, <2>3, Zenon
    <3> QED
      BY <2>4, <3>1
  <2>9. SeqProcInv(p)'
    <3>1. AttemptInv(p)'
      BY <1>1, <2>1, <2>2, <2>8, Zenon DEF AttemptInv, Working, Reverifying, Reconciling, ExecLabels
    <3>2. SucceededInv(p)'
      BY <2>1, Zenon DEF SucceededInv, Reverifying
    <3>3. storeErrs' = 0 => SettledInv(p)' /\ PlanInv(p)'
      BY <1>1, <2>1, <2>6, <2>7, Zenon DEF SettledInv, PlanInv, Reverifying, ExecLabels
    <3> QED
      BY <3>1, <3>2, <3>3, Zenon DEF SeqProcInv
  <2>10. SeqStoreInv'
    <3>1. ReconciledMeansDeleted'
      BY <1>1, <2>1, Zenon DEF SeqStoreInv, ReconciledMeansDeleted
    <3>2. RemovalAccounted'
      <4>1. \A r \in removed : r.attempt \in Attempts
        BY Zenon DEF IInv, LedgerInv, Removal
      <4> QED
        BY <1>1, <2>1, <4>1, Zenon DEF SeqStoreInv, RemovalAccounted
    <3>3. RecoveredIsBacked'
      <4> SUFFICES ASSUME storeErrs' = 0, NEW j \in Jobs, jobs'[j] = "RECOVERED"
                   PROVE  \E a \in Attempts :
                            attempts'[a].job = j /\ attempts'[a].state = "RECONCILED"
        BY Zenon DEF RecoveredIsBacked
      <4>1. PICK a \in Attempts : attempts[a].job = j /\ attempts[a].state = "RECONCILED"
        BY <1>1, <2>1, Zenon DEF SeqStoreInv, RecoveredIsBacked
      <4>2. a # c
        BY <2>1, <2>5, <4>1, Zenon
      <4> QED
        BY <2>1, <4>1, <4>2, Zenon
    <3>4. (storeErrs = 0 => DirRowsLast)'
      BY <1>1, <2>1, Zenon DEF SeqStoreInv, DirRowsLast
    <3>5. \A a \in Attempts, o \in Ops : intents'[<<a, o>>] # NoRow => attempts'[a].state # "NONE"
      BY <1>1, <2>1, Zenon DEF SeqStoreInv
    <3> QED
      BY <3>1, <3>2, <3>3, <3>4, <3>5, Zenon DEF SeqStoreInv
  <2>11. storeErrs' = 0 =>
           \A a \in Attempts : attempts[a].state \notin {"NONE", "RUNNING"}
                                 => attempts'[a].state # "RUNNING"
    BY <2>1, <2>5, Zenon
  <2> QED
    BY <2>9, <2>10, <2>11, Zenon
<1> QED
  BY <1>2, <1>3, Zenon DEF ClaimAttempt

\* A plan for an attempt without rows.
LEMMA PlanSeq ==
  ASSUME IInv, SeqInv, NEW p \in Procs, PlanJob(p),
         UNCHANGED <<storeVars, recoveryVars, schedVars, procVars>>
  PROVE  SeqStoreInv' /\ SeqProcInv(p)'
<1>1. /\ pc \in [Procs -> ExecLabels \cup RecoveryLabels \cup PipelineLabels]
      /\ UNCHANGED <<removed, observed, attempt>>
      /\ pc[p] = "plan" /\ SeqStoreInv /\ SeqProcInv(p)
  BY Zenon DEF IInv, TypeOK, EngineTypeOK, PlanJob, SeqInv
<1>2. pc'[p] \in {"completed", "errored", "op"}
  BY <1>1, Zenon DEF PlanJob, Goto
<1>3. SeqStoreInv'
  BY <1>1, QuietSeqStore, Zenon
<1>4. AttemptInv(p)'
  BY <1>1, <1>2, Zenon DEF SeqProcInv, AttemptInv, Working, Seeded, Reverifying, Reconciling,
         ExecLabels
<1>5. SucceededInv(p)'
  BY <1>2, Zenon DEF SucceededInv, Reverifying
<1>6. storeErrs' = 0 => SettledInv(p)' /\ PlanInv(p)'
  BY <1>1, <1>2, Zenon DEF SeqProcInv, SettledInv, PlanInv, Working, Reverifying
<1> QED
  BY <1>3, <1>4, <1>5, <1>6, Zenon DEF SeqProcInv

-----------------------------------------------------------------------------
\* Where an executor works, its rows are keys of the table.
LEMMA ExecKeys ==
  ASSUME IInv, SeqInv, NEW p \in Procs, pc[p] \in ExecLabels
  PROVE  /\ attempt[p] \in Attempts /\ at[p] \in Ops
         /\ attempts[attempt[p]].state = "RUNNING"
         /\ pc[p] # "op" => intents[<<attempt[p], at[p]>>] # NoRow
         /\ \A k \in Ops : <<attempt[p], k>> \in Attempts \X Ops
         /\ SeqStoreInv /\ SeqProcInv(p)
<1>1. ExecInv(p) /\ Len(plan[p]) <= MaxOp /\ SeqStoreInv /\ SeqProcInv(p)
  BY Zenon DEF IInv, ProcInv, SeqInv
<1>2. at[p] \in Ops
  <2>1. Len(plan[p]) \in Nat
    BY DEF IInv, TypeOK, ExecTypeOK
  <2> QED
    BY <1>1, <2>1, BoundAssumption DEF ExecInv, Ops
<1>3. attempts[attempt[p]].state = "RUNNING"
  BY <1>1, Zenon DEF SeqProcInv, AttemptInv, Working
<1> QED
  BY <1>1, <1>2, <1>3, Zenon DEF ExecInv

\* A step within ExecLabels that leaves the attempts alone keeps AttemptInv and
\* says nothing of recovery.
LEMMA ExecAttempt ==
  ASSUME SeqInv, NEW p \in Procs, pc[p] \in ExecLabels, pc'[p] \in ExecLabels,
         UNCHANGED <<attempts, attempt, attemptCounter>>, storeErrs' = 0 => storeErrs = 0
  PROVE  AttemptInv(p)' /\ SucceededInv(p)'
<1>1. AttemptInv(p)
  BY Zenon DEF SeqInv, SeqProcInv
<1>2. /\ pc'[p] \notin Reverifying \cup Reconciling \cup {"r_attempt", "r_job", "r_resolve", "r_record"}
      /\ pc[p] \in Working /\ pc[p] \in Seeded
  BY Zenon DEF ExecLabels, Reverifying, Reconciling, Working, Seeded
<1> QED
  BY <1>1, <1>2, Zenon DEF AttemptInv, SucceededInv

\* The intent of a directory is committed after what is below it.
LEMMA CommitSeq ==
  ASSUME IInv, SeqInv, NEW p \in Procs, DoneInv(p), CommitIntent(p),
         UNCHANGED <<recoveryVars, schedVars, procVars>>
  PROVE  SeqStoreInv' /\ SeqProcInv(p)'
<1> DEFINE a == attempt[p]
           i == at[p]
           row == [state |-> "COMMITTED", job |-> job[p], path |-> Op(p).path, ident |-> Op(p).ident]
<1>1. /\ pc \in [Procs -> ExecLabels \cup RecoveryLabels \cup PipelineLabels]
      /\ intents \in [Attempts \X Ops -> Intent \cup {NoRow}]
      /\ UNCHANGED <<removed, observed, attempt, at, plan, attempts, jobs, storeErrs, attemptCounter>>
      /\ pc[p] = "op" /\ pc[p] \in ExecLabels
      /\ intents[<<a, i>>] = NoRow /\ intents' = [intents EXCEPT ![<<a, i>>] = row]
      /\ Dependencies(p, i) \subseteq done[p]
  BY Zenon DEF IInv, TypeOK, EngineTypeOK, StoreTypeOK, CommitIntent, commit_operation_intent, ExecLabels
<1>2. /\ a \in Attempts /\ i \in Ops /\ attempts[a].state = "RUNNING"
      /\ \A k \in Ops : <<a, k>> \in Attempts \X Ops
      /\ SeqStoreInv /\ SeqProcInv(p)
  BY <1>1, ExecKeys, Zenon
<1>3. pc'[p] = "committed" /\ pc'[p] \in ExecLabels
  BY <1>1, Zenon DEF CommitIntent, Goto, ExecLabels
<1>4. row.state = "COMMITTED" /\ row.path = Op(p).path /\ row # NoRow
  BY DEF NoRow
<1>5. /\ intents'[<<a, i>>] = row
      /\ \A k \in Attempts \X Ops : k # <<a, i>> => intents'[k] = intents[k]
  BY <1>1, <1>2, Zenon
<1> HIDE DEF row
<1>6. AttemptInv(p)' /\ SucceededInv(p)'
  BY <1>1, <1>3, ExecAttempt, Zenon
<1>7. \A r \in removed : /\ <<r.attempt, r.op>> \in Attempts \X Ops
                         /\ intents'[<<r.attempt, r.op>>] = intents[<<r.attempt, r.op>>]
  <2> SUFFICES ASSUME NEW r \in removed
               PROVE  /\ <<r.attempt, r.op>> \in Attempts \X Ops
                      /\ intents'[<<r.attempt, r.op>>] = intents[<<r.attempt, r.op>>]
    BY Zenon
  <2>1. <<r.attempt, r.op>> \in Attempts \X Ops /\ intents[<<r.attempt, r.op>>].state # "NONE"
    BY Zenon DEF IInv, LedgerInv, IntentBeforeMutation, Removal
  <2>2. NoRow.state = "NONE"
    BY DEF NoRow
  <2>3. <<r.attempt, r.op>> # <<a, i>>
    BY <1>1, <2>1, <2>2, Zenon
  <2> QED
    BY <1>5, <2>1, <2>3, Zenon
<1>8. storeErrs' = 0 => SettledInv(p)'
  <2> SUFFICES ASSUME storeErrs' = 0 PROVE SettledInv(p)'
    BY Zenon
  <2>1. SettledInv(p)
    BY <1>1, <1>2, Zenon DEF SeqProcInv
  <2>2. pc[p] \in Working /\ pc[p] \notin {"verify", "resolve"} /\ pc'[p] \notin Reverifying
        /\ pc'[p] # "r_record"
    BY <1>1, <1>3, Zenon DEF Working, Reverifying
  <2>3. intents'[<<attempt'[p], at'[p]>>].state = "COMMITTED"
    BY <1>1, <1>4, <1>5, Zenon
  <2>4. \A r \in removed' : r.attempt = attempt'[p] => intents'[<<r.attempt, r.op>>].state \in Settled
    BY <1>1, <1>7, <2>1, <2>2, Zenon DEF SettledInv
  <2> QED
    BY <2>2, <2>3, <2>4, Zenon DEF SettledInv
<1>9. storeErrs' = 0 => PlanInv(p)'
  <2> SUFFICES ASSUME storeErrs' = 0, NEW k \in Ops, intents'[<<a, k>>] # NoRow
               PROVE  k <= i /\ intents'[<<a, k>>].path = plan[p][k].path
    BY <1>1, <1>3, Zenon DEF PlanInv
  <2>1. CASE k = i
    BY <1>2, <1>4, <1>5, <2>1, BoundAssumption DEF Op, Ops
  <2>2. CASE k # i
    <3>1. intents'[<<a, k>>] = intents[<<a, k>>]
      BY <1>2, <1>5, <2>2, Zenon
    <3> QED
      BY <1>1, <1>2, <3>1, Zenon DEF SeqProcInv, PlanInv
  <2> QED
    BY <2>1, <2>2, Zenon
<1>10. SeqStoreInv'
  <2>1. \A b \in Attempts, o \in Ops : intents'[<<b, o>>] # NoRow => attempts'[b].state # "NONE"
    <3> SUFFICES ASSUME NEW b \in Attempts, NEW o \in Ops, intents'[<<b, o>>] # NoRow
                 PROVE  attempts[b].state # "NONE"
      BY <1>1, Zenon
    <3>1. CASE b = a
      BY <1>2, <3>1, Zenon
    <3>2. CASE b # a
      BY <1>2, <1>5, <3>2, Zenon DEF SeqStoreInv
    <3> QED
      BY <3>1, <3>2, Zenon
  <2>2. ReconciledMeansDeleted'
    <3> SUFFICES ASSUME NEW b \in Attempts, attempts[b].state = "RECONCILED", NEW o \in Ops,
                        intents'[<<b, o>>] # NoRow
                 PROVE  <<b, o>> \in observed
      BY <1>1, Zenon DEF ReconciledMeansDeleted
    <3>1. b # a
      BY <1>2, Zenon
    <3> QED
      BY <1>2, <1>5, <3>1, Zenon DEF SeqStoreInv, ReconciledMeansDeleted
  <2>3. RemovalAccounted'
    BY <1>1, <1>2, <1>7, Zenon DEF SeqStoreInv, RemovalAccounted
  <2>4. RecoveredIsBacked'
    BY <1>1, <1>2, Zenon DEF SeqStoreInv, RecoveredIsBacked
  <2>5. ASSUME storeErrs' = 0, NEW b \in Attempts, NEW o \in Ops, intents'[<<b, o>>] # NoRow,
               intents'[<<b, o>>].path \in Dirs, NEW k \in Ops, k < o, intents'[<<b, k>>] # NoRow,
               intents'[<<b, k>>].path \in Below[intents'[<<b, o>>].path]
        PROVE  <<b, k>> \in observed
    <3>1. CASE b # a
      BY <1>1, <1>2, <1>5, <2>5, <3>1, Zenon DEF SeqStoreInv, DirRowsLast
    <3>2. CASE b = a /\ o # i
      <4>1. intents'[<<a, o>>] = intents[<<a, o>>]
        BY <1>2, <1>5, <3>2, Zenon
      <4>2. o < i
        BY <1>1, <1>2, <2>5, <3>2, <4>1, Zenon DEF SeqProcInv, PlanInv
      <4>3. k # i
        BY <1>2, <2>5, <4>2, BoundAssumption DEF Ops
      <4>4. intents'[<<a, k>>] = intents[<<a, k>>]
        BY <1>2, <1>5, <4>3, Zenon
      <4> QED
        BY <1>1, <1>2, <2>5, <3>2, <4>1, <4>4, Zenon DEF SeqStoreInv, DirRowsLast
    <3>3. CASE b = a /\ o = i
      <4>1. k # i /\ k \in 1 .. (i - 1)
        BY <1>2, <2>5, <3>3, BoundAssumption DEF Ops
      <4>2. intents'[<<a, k>>] = intents[<<a, k>>]
        BY <1>2, <1>5, <4>1, Zenon
      <4>3. intents[<<a, k>>].path = plan[p][k].path
        BY <1>1, <1>2, <2>5, <3>3, <4>2, Zenon DEF SeqProcInv, PlanInv
      <4>4. intents'[<<b, o>>].path = plan[p][i].path
        BY <1>4, <1>5, <3>3, Zenon DEF Op
      <4>5. k \in Dependencies(p, i)
        BY <2>5, <3>3, <4>1, <4>2, <4>3, <4>4, Zenon DEF Dependencies
      <4> QED
        BY <1>1, <3>3, <4>5, Zenon DEF DoneInv
    <3> QED
      BY <3>1, <3>2, <3>3, Zenon
  <2> QED
    BY <1>1, <2>1, <2>2, <2>3, <2>4, <2>5, Zenon DEF SeqStoreInv, DirRowsLast
<1> QED
  BY <1>6, <1>8, <1>9, <1>10, Zenon DEF SeqProcInv

\* The row of p's operation is updated: the rows of the plan stay what they are.
LEMMA UpdatePlan ==
  ASSUME IInv, SeqInv, NEW p \in Procs, pc[p] \in ExecLabels, pc[p] # "op",
         pc'[p] \in ExecLabels, pc'[p] # "op", NEW s \in IntentStates,
         update_intent_state(attempt[p], at[p], s), UNCHANGED <<attempt, at, plan>>
  PROVE  storeErrs' = 0 => PlanInv(p)'
<1> SUFFICES ASSUME storeErrs' = 0 PROVE PlanInv(p)'
  BY Zenon
<1>1. /\ attempt[p] \in Attempts /\ at[p] \in Ops
      /\ intents[<<attempt[p], at[p]>>] # NoRow
      /\ \A k \in Ops : <<attempt[p], k>> \in Attempts \X Ops
      /\ SeqProcInv(p)
  BY ExecKeys, Zenon
<1>2. /\ \A k \in Attempts \X Ops : intents'[k] # NoRow <=> intents[k] # NoRow
      /\ \A k \in Attempts \X Ops : intents[k] # NoRow => intents'[k].path = intents[k].path
      /\ UNCHANGED storeErrs
  BY <1>1, UpdateRow, Zenon
<1>3. PlanInv(p)
  BY <1>1, <1>2, Zenon DEF SeqProcInv
<1>4. pc'[p] # "plan"
  BY Zenon DEF ExecLabels
<1> QED
  BY <1>1, <1>2, <1>3, <1>4, Zenon DEF PlanInv

\* The intent is MUTATING while its attempt is RUNNING.
LEMMA MarkSeq ==
  ASSUME IInv, SeqInv, NEW p \in Procs, MarkMutating(p),
         UNCHANGED <<recoveryVars, schedVars, procVars>>
  PROVE  SeqStoreInv' /\ SeqProcInv(p)'
<1>1. /\ pc \in [Procs -> ExecLabels \cup RecoveryLabels \cup PipelineLabels]
      /\ UNCHANGED <<removed, observed, attempt, at, plan, attemptCounter>>
      /\ pc[p] = "committed" /\ pc[p] \in ExecLabels
  BY Zenon DEF IInv, TypeOK, EngineTypeOK, MarkMutating, ExecLabels
<1>2. CASE StoreFails /\ Goto(p, "errored")
  BY <1>1, <1>2, FailureQuiet, Zenon DEF Goto
<1>3. CASE update_intent_state(attempt[p], at[p], "MUTATING") /\ Goto(p, "mutating")
  <2>1. /\ attempt[p] \in Attempts /\ at[p] \in Ops
        /\ attempts[attempt[p]].state = "RUNNING"
        /\ intents[<<attempt[p], at[p]>>] # NoRow
        /\ SeqStoreInv /\ SeqProcInv(p)
    BY <1>1, ExecKeys, Zenon
  <2>2. pc'[p] = "mutating" /\ pc'[p] \in ExecLabels /\ "MUTATING" \in IntentStates
    BY <1>1, <1>3, Zenon DEF Goto, ExecLabels, IntentStates
  <2>3. /\ \A k \in Attempts \X Ops : k # <<attempt[p], at[p]>> => intents'[k] = intents[k]
        /\ UNCHANGED <<attempts, storeErrs>>
    BY <1>3, <2>1, <2>2, UpdateRow, Zenon
  <2>4. SeqStoreInv'
    BY <1>1, <1>3, <2>1, <2>2, UpdateSeqStore, Zenon
  <2>5. AttemptInv(p)' /\ SucceededInv(p)'
    BY <1>1, <2>2, <2>3, ExecAttempt, Zenon
  <2>6. storeErrs' = 0 => PlanInv(p)'
    BY <1>1, <1>3, <2>2, UpdatePlan, Zenon
  <2>7. storeErrs' = 0 => SettledInv(p)'
    <3> SUFFICES ASSUME storeErrs' = 0 PROVE SettledInv(p)'
      BY Zenon
    <3>1. SettledInv(p)
      BY <2>1, <2>3, Zenon DEF SeqProcInv
    <3>2. pc[p] \in Working /\ pc'[p] \notin Reverifying \cup {"committed", "r_record"}
      BY <1>1, <2>2, Zenon DEF Working, Reverifying
    <3>3. ASSUME NEW r \in removed, r.attempt = attempt[p]
          PROVE  intents'[<<r.attempt, r.op>>].state \in Settled
      <4>1. <<r.attempt, r.op>> \in Attempts \X Ops
            /\ intents[<<r.attempt, r.op>>].state # "COMMITTED"
        BY Zenon DEF IInv, LedgerInv, IntentBeforeMutation, Removal
      <4>2. <<r.attempt, r.op>> # <<attempt[p], at[p]>>
        BY <1>1, <3>1, <4>1, Zenon DEF SettledInv
      <4> QED
        BY <1>1, <2>3, <3>1, <3>2, <3>3, <4>1, <4>2, Zenon DEF SettledInv
    <3> QED
      BY <1>1, <3>2, <3>3, Zenon DEF SettledInv
  <2> QED
    BY <2>4, <2>5, <2>6, <2>7, Zenon DEF SeqProcInv
<1> QED
  BY <1>2, <1>3, Zenon DEF MarkMutating

\* A removal is accounted for by its attempt, which is RUNNING.
LEMMA UnlinkSeq ==
  ASSUME IInv, SeqInv, NEW p \in Procs, Unlinkat(p), UNCHANGED <<recoveryVars, schedVars, procVars>>
  PROVE  SeqStoreInv' /\ SeqProcInv(p)'
<1>1. /\ pc \in [Procs -> ExecLabels \cup RecoveryLabels \cup PipelineLabels]
      /\ UNCHANGED <<jobs, attempts, intents, storeErrs, observed, attempt, at, plan, attemptCounter>>
      /\ pc[p] = "unlink" /\ pc[p] \in ExecLabels
  BY Zenon DEF IInv, TypeOK, EngineTypeOK, Unlinkat, ExecLabels
<1>2. /\ attempts[attempt[p]].state = "RUNNING" /\ SeqStoreInv /\ SeqProcInv(p)
  BY <1>1, ExecKeys, Zenon
<1>3. pc'[p] = "verify" /\ pc'[p] \in ExecLabels
  BY <1>1, Zenon DEF Unlinkat, Goto, ExecLabels
<1>4. \A r \in removed' : r \in removed \/ (r.attempt = attempt[p] /\ r.op = at[p])
  <2>1. CASE UNCHANGED removed
    BY <2>1, Zenon
  <2>2. CASE removed' = removed \cup
               {[attempt |-> attempt[p], op |-> at[p], path |-> Op(p).path,
                 ident |-> disk[Op(p).path], dry |-> dryRun[p]]}
    BY <2>2
  <2> QED
    BY <2>1, <2>2, Zenon DEF Unlinkat
<1>5. AttemptInv(p)' /\ SucceededInv(p)'
  BY <1>1, <1>3, ExecAttempt, Zenon
<1>6. storeErrs' = 0 => SettledInv(p)'
  <2>1. pc[p] \in Working /\ pc[p] \notin {"verify", "resolve"}
        /\ pc'[p] \notin Reverifying \cup {"committed", "r_record"}
    BY <1>1, <1>3, Zenon DEF Working, Reverifying
  <2> QED
    BY <1>1, <1>2, <1>3, <1>4, <2>1, Zenon DEF SeqProcInv, SettledInv
<1>7. storeErrs' = 0 => PlanInv(p)'
  BY <1>1, <1>2, <1>3, Zenon DEF SeqProcInv, PlanInv
<1>8. SeqStoreInv'
  <2>1. RemovalAccounted'
    BY <1>1, <1>2, <1>4, Zenon DEF SeqStoreInv, RemovalAccounted
  <2> QED
    BY <1>1, <1>2, <2>1, Zenon DEF SeqStoreInv, ReconciledMeansDeleted, RecoveredIsBacked, DirRowsLast
<1> QED
  BY <1>5, <1>6, <1>7, <1>8, Zenon DEF SeqProcInv

\* An observation more keeps every promise of the store.
LEMMA SeenSeqStore ==
  ASSUME SeqStoreInv, UNCHANGED <<jobs, attempts, intents, storeErrs, removed>>,
         observed \subseteq observed'
  PROVE  SeqStoreInv'
<1>1. ReconciledMeansDeleted'
  BY Zenon DEF SeqStoreInv, ReconciledMeansDeleted
<1>2. (storeErrs = 0 => DirRowsLast)'
  BY Zenon DEF SeqStoreInv, DirRowsLast
<1> QED
  BY <1>1, <1>2, Zenon DEF SeqStoreInv, RemovalAccounted, RecoveredIsBacked

\* The executor's verifier looks.
LEMMA VerifySeq ==
  ASSUME IInv, SeqInv, NEW p \in Procs, VerifyOp(p), UNCHANGED <<recoveryVars, schedVars, procVars>>
  PROVE  SeqStoreInv' /\ SeqProcInv(p)'
<1>1. /\ pc \in [Procs -> ExecLabels \cup RecoveryLabels \cup PipelineLabels]
      /\ UNCHANGED <<jobs, attempts, intents, storeErrs, removed, attempt, at, plan, attemptCounter>>
      /\ pc[p] = "verify" /\ pc[p] \in ExecLabels
  BY Zenon DEF IInv, TypeOK, EngineTypeOK, VerifyOp, ExecLabels
<1>2. SeqStoreInv /\ SeqProcInv(p)
  BY Zenon DEF SeqInv
<1>3. pc'[p] = "resolve" /\ pc'[p] \in ExecLabels
  BY <1>1, Zenon DEF VerifyOp, Goto, ExecLabels
<1>4. observed \subseteq observed'
  BY Zenon DEF VerifyOp, Report
<1>5. AttemptInv(p)' /\ SucceededInv(p)'
  BY <1>1, <1>3, ExecAttempt, Zenon
<1>6. storeErrs' = 0 => SettledInv(p)' /\ PlanInv(p)'
  <2>1. pc[p] \in Working /\ pc'[p] \notin Reverifying \cup {"committed", "r_record"}
    BY <1>1, <1>3, Zenon DEF Working, Reverifying
  <2> QED
    BY <1>1, <1>2, <1>3, <2>1, Zenon DEF SeqProcInv, SettledInv, PlanInv
<1>7. SeqStoreInv'
  BY <1>1, <1>2, <1>4, SeenSeqStore, Zenon
<1> QED
  BY <1>5, <1>6, <1>7, Zenon DEF SeqProcInv

\* The intent is settled; a removal of this operation is settled with it.
LEMMA ResolveSeq ==
  ASSUME IInv, SeqInv, NEW p \in Procs, ResolveIntent(p),
         UNCHANGED <<recoveryVars, schedVars, procVars>>
  PROVE  SeqStoreInv' /\ SeqProcInv(p)'
<1>1. /\ pc \in [Procs -> ExecLabels \cup RecoveryLabels \cup PipelineLabels]
      /\ UNCHANGED <<removed, observed, attempt, at, plan, attemptCounter>>
      /\ pc[p] = "resolve" /\ pc[p] \in ExecLabels
  BY Zenon DEF IInv, TypeOK, EngineTypeOK, ResolveIntent, ExecLabels
<1>2. CASE StoreFails /\ Goto(p, "errored")
  BY <1>1, <1>2, FailureQuiet, Zenon DEF Goto
<1>3. CASE update_intent_state(attempt[p], at[p], IntentVerdict(outcome[p])) /\ Goto(p, "record")
  <2> DEFINE s == IntentVerdict(outcome[p])
  <2>1. /\ attempt[p] \in Attempts /\ at[p] \in Ops
        /\ intents[<<attempt[p], at[p]>>] # NoRow
        /\ SeqStoreInv /\ SeqProcInv(p)
    BY <1>1, ExecKeys, Zenon
  <2>2. pc'[p] = "record" /\ pc'[p] \in ExecLabels
    BY <1>1, <1>3, Zenon DEF Goto, ExecLabels
  <2>3. s \in Settled /\ s \in IntentStates
    BY DEF IntentVerdict, Settled, IntentStates
  <2> HIDE DEF s
  <2>4. /\ \A k \in Attempts \X Ops : k # <<attempt[p], at[p]>> => intents'[k] = intents[k]
        /\ intents'[<<attempt[p], at[p]>>].state = s
        /\ UNCHANGED <<attempts, storeErrs>>
    BY <1>3, <2>1, <2>2, <2>3, UpdateRow, Zenon DEF s
  <2>5. SeqStoreInv'
    BY <1>1, <1>3, <2>1, <2>3, UpdateSeqStore, Zenon DEF s
  <2>6. AttemptInv(p)' /\ SucceededInv(p)'
    BY <1>1, <2>2, <2>4, ExecAttempt, Zenon
  <2>7. storeErrs' = 0 => PlanInv(p)'
    BY <1>1, <1>3, <2>2, <2>3, UpdatePlan, Zenon DEF s
  <2>8. storeErrs' = 0 => SettledInv(p)'
    <3> SUFFICES ASSUME storeErrs' = 0 PROVE SettledInv(p)'
      BY Zenon
    <3>1. SettledInv(p)
      BY <2>1, <2>4, Zenon DEF SeqProcInv
    <3>2. pc[p] \in Working /\ pc'[p] \notin Reverifying \cup {"committed", "r_record"}
      BY <1>1, <2>2, Zenon DEF Working, Reverifying
    <3>3. ASSUME NEW r \in removed, r.attempt = attempt[p]
          PROVE  intents'[<<r.attempt, r.op>>].state \in Settled
      <4>1. <<r.attempt, r.op>> \in Attempts \X Ops
        BY Zenon DEF IInv, LedgerInv, Removal
      <4>2. CASE r.op = at[p]
        BY <2>3, <2>4, <3>3, <4>2, Zenon
      <4>3. CASE r.op # at[p]
        <5>1. <<r.attempt, r.op>> # <<attempt[p], at[p]>>
          BY <4>3, Zenon
        <5> QED
          BY <2>4, <3>1, <3>2, <3>3, <4>1, <4>3, <5>1, Zenon DEF SettledInv
      <4> QED
        BY <4>2, <4>3, Zenon
    <3> QED
      BY <1>1, <3>2, <3>3, Zenon DEF SettledInv
  <2> QED
    BY <2>5, <2>6, <2>7, <2>8, Zenon DEF SeqProcInv
<1> QED
  BY <1>2, <1>3, Zenon DEF ResolveIntent

-----------------------------------------------------------------------------
\* The attempts to reconcile are the RUNNING ones.
LEMMA ReadSeq ==
  ASSUME IInv, SeqInv, NEW p \in Procs, ReadUncompleted(p), UNCHANGED <<execVars, schedVars, procVars>>
  PROVE  SeqStoreInv' /\ SeqProcInv(p)'
<1>1. CASE StoreFails /\ Goto(p, "seed")
  <2>1. UNCHANGED observed
    BY Zenon DEF ReadUncompleted
  <2> QED
    BY <1>1, <2>1, RecoveryEndsQuiet, QuietSeq, Zenon DEF Goto
<1>2. CASE /\ todo' = [todo EXCEPT ![p] = get_uncompleted_attempts]
           /\ Goto(p, "r_attempt") /\ UNCHANGED storeVars
  <2>1. /\ pc'[p] = "r_attempt" /\ todo'[p] = get_uncompleted_attempts
        /\ UNCHANGED <<removed, observed>>
    BY <1>2, Zenon DEF Goto, IInv, TypeOK, EngineTypeOK, RecoveryTypeOK, ReadUncompleted
  <2>2. SeqStoreInv'
    BY <1>2, <2>1, QuietSeqStore, Zenon DEF SeqInv
  <2>3. \A a \in todo'[p] : attempts'[a].state = "RUNNING"
    BY <1>2, <2>1, Zenon DEF get_uncompleted_attempts
  <2>4. SeqProcInv(p)'
    BY <2>1, <2>3, Zenon DEF SeqProcInv, AttemptInv, SucceededInv, SettledInv, PlanInv, Working,
           Reverifying, Reconciling, Seeded, ExecLabels
  <2> QED
    BY <2>2, <2>4, Zenon
<1> QED
  BY <1>1, <1>2, Zenon DEF ReadUncompleted

\* Every row of the attempt is listed.
LEMMA BeginSeq ==
  ASSUME IInv, SeqInv, NEW p \in Procs, BeginAttempt(p), UNCHANGED <<execVars, schedVars, procVars>>
  PROVE  SeqStoreInv' /\ SeqProcInv(p)'
<1>1. CASE StoreFails /\ Goto(p, "seed")
  <2>1. UNCHANGED observed
    BY Zenon DEF BeginAttempt
  <2> QED
    BY <1>1, <2>1, RecoveryEndsQuiet, QuietSeq, Zenon DEF Goto
<1>2. ASSUME NEW a \in todo[p],
             todo' = [todo EXCEPT ![p] = @ \ {a}],
             attempt' = [attempt EXCEPT ![p] = a],
             listed' = [listed EXCEPT ![p] = get_operation_intents_for_attempt(a)],
             Goto(p, "r_intent"), UNCHANGED storeVars
      PROVE  SeqStoreInv' /\ SeqProcInv(p)'
  <2>1. /\ pc'[p] = "r_intent" /\ todo'[p] = todo[p] \ {a} /\ attempt'[p] = a
        /\ listed'[p] = get_operation_intents_for_attempt(a)
        /\ a \in Attempts /\ pc[p] = "r_attempt" /\ UNCHANGED <<removed, observed>>
    BY <1>2, Zenon DEF Goto, IInv, TypeOK, EngineTypeOK, RecoveryTypeOK, BeginAttempt
  <2>2. SeqStoreInv'
    BY <1>2, <2>1, QuietSeqStore, Zenon DEF SeqInv
  <2>3. \A b \in todo[p] : attempts[b].state = "RUNNING"
    BY <2>1, Zenon DEF SeqInv, SeqProcInv, AttemptInv
  <2>4. AttemptInv(p)'
    BY <1>2, <2>1, <2>3, Zenon DEF AttemptInv, Working, Reverifying, Reconciling, Seeded, ExecLabels
  <2>5. \A o \in Ops : intents'[<<attempt'[p], o>>] # NoRow => o \in listed'[p]
    BY <1>2, <2>1, Zenon DEF get_operation_intents_for_attempt
  <2>6. SucceededInv(p)' /\ SettledInv(p)' /\ PlanInv(p)'
    BY <2>1, <2>5, Zenon DEF SucceededInv, SettledInv, PlanInv, Working, ExecLabels
  <2> QED
    BY <2>2, <2>4, <2>6, Zenon DEF SeqProcInv
<1> QED
  BY <1>1, <1>2, Zenon DEF BeginAttempt

\* Where recovery re-verifies, its rows are keys of the table.
LEMMA ReverifyKeys ==
  ASSUME IInv, SeqInv, NEW p \in Procs, pc[p] \in Reverifying
  PROVE  /\ attempt[p] \in Attempts
         /\ attempts[attempt[p]].state = "RUNNING"
         /\ \A o \in listed[p] : o \in Ops /\ intents[<<attempt[p], o>>] # NoRow
         /\ pc[p] \in {"r_resolve", "r_record"} =>
              at[p] \in Ops /\ intents[<<attempt[p], at[p]>>] # NoRow
         /\ \A o \in Ops : <<attempt[p], o>> \in Attempts \X Ops
         /\ SeqStoreInv /\ SeqProcInv(p)
         /\ pc[p] \in Reconciling /\ ReconcileInv(p)
<1>1. pc[p] \in Reconciling
  BY Zenon DEF Reverifying, Reconciling
<1>2. ReconcileInv(p) /\ SeqStoreInv /\ SeqProcInv(p)
  BY <1>1, Zenon DEF IInv, ProcInv, SeqInv
<1>3. listed[p] \subseteq Ops
  BY Zenon DEF IInv, TypeOK, RecoveryTypeOK
<1>4. attempt[p] \in Attempts /\ attempts[attempt[p]].state = "RUNNING"
  BY <1>2, Zenon DEF SeqProcInv, AttemptInv
<1> QED
  BY <1>1, <1>2, <1>3, <1>4, Zenon DEF ReconcileInv

\* A step within Reverifying that leaves the attempts alone.
LEMMA ReverifyAttempt ==
  ASSUME SeqInv, NEW p \in Procs, pc[p] \in Reverifying, pc'[p] \in Reverifying,
         UNCHANGED <<attempts, attempt, todo>>
  PROVE  AttemptInv(p)' /\ PlanInv(p)'
<1>1. AttemptInv(p)
  BY Zenon DEF SeqInv, SeqProcInv
<1>2. /\ pc[p] \in Reconciling /\ pc'[p] \in Reconciling
      /\ pc'[p] \notin Seeded \cup Working \cup ExecLabels \cup {"r_job", "plan"}
  BY Zenon DEF Reverifying, Reconciling, Seeded, Working, ExecLabels
<1> QED
  BY <1>1, <1>2, Zenon DEF AttemptInv, PlanInv

\* The target is not in the catalog: the intent is settled as unknown.
LEMMA MissingSeq ==
  ASSUME IInv, SeqInv, NEW p \in Procs, TargetMissing(p), UNCHANGED <<execVars, schedVars, procVars>>
  PROVE  SeqStoreInv' /\ SeqProcInv(p)'
<1>1. /\ UNCHANGED <<pc, removed, observed, attempt, todo>>
      /\ pc[p] = "r_intent" /\ pc[p] \in Reverifying
      /\ ~allSucceeded'[p]
  BY Zenon DEF TargetMissing, Reverifying, IInv, TypeOK, RecoveryTypeOK
<1>2. PICK o \in listed[p] :
        /\ update_intent_state(attempt[p], o, "RESOLVED_UNKNOWN") \/ StoreFails
        /\ listed' = [listed EXCEPT ![p] = @ \ {o}]
  BY Zenon DEF TargetMissing
<1>3. /\ attempt[p] \in Attempts /\ o \in Ops /\ intents[<<attempt[p], o>>] # NoRow
      /\ \A k \in Ops : <<attempt[p], k>> \in Attempts \X Ops
      /\ SeqStoreInv /\ SeqProcInv(p)
  BY <1>1, ReverifyKeys, Zenon
<1>4. listed'[p] = listed[p] \ {o}
  BY <1>2, Zenon DEF IInv, TypeOK, RecoveryTypeOK
<1>5. "RESOLVED_UNKNOWN" \in IntentStates /\ "RESOLVED_UNKNOWN" \in Settled
  BY Zenon DEF IntentStates, Settled
<1>6. SucceededInv(p)'
  BY <1>1, Zenon DEF SucceededInv
<1>7. UNCHANGED attempts
  BY <1>2, Zenon DEF update_intent_state, StoreFails
<1>8. AttemptInv(p)' /\ PlanInv(p)'
  BY <1>1, <1>7, ReverifyAttempt, Zenon
<1>9. CASE StoreFails
  <2>1. storeErrs' # 0 /\ UNCHANGED <<jobs, attempts, intents>>
    BY <1>9, FailsOnce, Zenon DEF IInv
  <2>2. SeqStoreInv'
    BY <1>1, <1>3, <2>1, QuietSeqStore, Zenon
  <2> QED
    BY <1>6, <1>8, <2>1, <2>2, Zenon DEF SeqProcInv
<1>10. CASE update_intent_state(attempt[p], o, "RESOLVED_UNKNOWN")
  <2>1. SeqStoreInv'
    BY <1>1, <1>3, <1>5, <1>10, UpdateSeqStore, Zenon
  <2>2. /\ \A k \in Attempts \X Ops : intents'[k] # NoRow <=> intents[k] # NoRow
        /\ \A k \in Attempts \X Ops : k # <<attempt[p], o>> => intents'[k] = intents[k]
        /\ intents'[<<attempt[p], o>>].state = "RESOLVED_UNKNOWN"
        /\ UNCHANGED storeErrs
    BY <1>3, <1>5, <1>10, UpdateRow, Zenon
  <2>3. storeErrs' = 0 => SettledInv(p)'
    <3> SUFFICES ASSUME storeErrs' = 0, NEW k \in Ops, intents'[<<attempt[p], k>>] # NoRow
                 PROVE  k \in listed'[p] \/ intents'[<<attempt[p], k>>].state \in Settled
      BY <1>1, Zenon DEF SettledInv, Working, ExecLabels
    <3>1. CASE k = o
      BY <1>5, <2>2, <3>1, Zenon
    <3>2. CASE k # o
      <4>1. <<attempt[p], k>> # <<attempt[p], o>>
        BY <3>2, Zenon
      <4>2. intents'[<<attempt[p], k>>] = intents[<<attempt[p], k>>]
        BY <1>3, <2>2, <4>1, Zenon
      <4>3. k \in listed[p] \/ intents[<<attempt[p], k>>].state \in Settled
        BY <1>1, <1>3, <2>2, <4>2, Zenon DEF SeqProcInv, SettledInv
      <4> QED
        BY <1>4, <3>2, <4>2, <4>3, Zenon
    <3> QED
      BY <3>1, <3>2, Zenon
  <2> QED
    BY <1>6, <1>8, <2>1, <2>3, Zenon DEF SeqProcInv
<1> QED
  BY <1>2, <1>9, <1>10, Zenon

\* Recovery's verifier looks; all_succeeded survives only a deletion seen.
LEMMA VerifyIntentSeq ==
  ASSUME IInv, SeqInv, NEW p \in Procs, VerifyIntent(p), UNCHANGED <<execVars, schedVars, procVars>>
  PROVE  SeqStoreInv' /\ SeqProcInv(p)'
<1>1. /\ UNCHANGED <<jobs, attempts, intents, storeErrs, removed, attempt, todo, listed>>
      /\ pc[p] = "r_intent" /\ pc[p] \in Reverifying
      /\ pc'[p] = "r_resolve" /\ pc'[p] \in Reverifying
  BY Zenon DEF VerifyIntent, Reverifying, IInv, TypeOK, EngineTypeOK, Goto
<1>2. PICK o, v :
        /\ Report(p, attempt[p], o, v)
        /\ allSucceeded' = [allSucceeded EXCEPT ![p] = @ /\ v = "GONE"]
  BY Zenon DEF VerifyIntent
<1>3. observed \subseteq observed' /\ outcome'[p] = v
  BY <1>2, Zenon DEF Report, IInv, TypeOK, EngineTypeOK
<1>4. allSucceeded'[p] => allSucceeded[p] /\ v = "GONE"
  BY <1>2, Zenon DEF IInv, TypeOK, RecoveryTypeOK
<1>5. SeqStoreInv /\ SeqProcInv(p)
  BY Zenon DEF SeqInv
<1>6. SeqStoreInv'
  BY <1>1, <1>3, <1>5, SeenSeqStore, Zenon
<1>7. AttemptInv(p)' /\ PlanInv(p)'
  BY <1>1, ReverifyAttempt, Zenon
<1>8. SucceededInv(p)'
  BY <1>1, <1>3, <1>4, <1>5, Zenon DEF SeqProcInv, SucceededInv
<1>9. storeErrs' = 0 => SettledInv(p)'
  BY <1>1, <1>5, Zenon DEF SeqProcInv, SettledInv, Working, ExecLabels
<1> QED
  BY <1>6, <1>7, <1>8, <1>9, Zenon DEF SeqProcInv

\* Recovery settles the intent.
LEMMA ResolveRecoveredSeq ==
  ASSUME IInv, SeqInv, NEW p \in Procs, ResolveRecovered(p),
         UNCHANGED <<execVars, schedVars, procVars>>
  PROVE  SeqStoreInv' /\ SeqProcInv(p)'
<1> DEFINE s == RecoveredState(outcome[p])
<1>1. /\ UNCHANGED <<removed, observed, attempt, at, outcome, todo, listed, allSucceeded>>
      /\ pc[p] = "r_resolve" /\ pc[p] \in Reverifying
      /\ pc'[p] = "r_record" /\ pc'[p] \in Reverifying
  BY Zenon DEF ResolveRecovered, Reverifying, IInv, TypeOK, EngineTypeOK, Goto
<1>2. /\ attempt[p] \in Attempts /\ at[p] \in Ops /\ intents[<<attempt[p], at[p]>>] # NoRow
      /\ \A k \in Ops : <<attempt[p], k>> \in Attempts \X Ops
      /\ SeqStoreInv /\ SeqProcInv(p)
  BY <1>1, ReverifyKeys, Zenon
<1>3. s \in Settled /\ s \in IntentStates
  BY DEF RecoveredState, Settled, IntentStates
<1>4. UNCHANGED attempts
  BY Zenon DEF ResolveRecovered, update_intent_state, StoreFails
<1>5. AttemptInv(p)' /\ PlanInv(p)'
  BY <1>1, <1>4, ReverifyAttempt, Zenon
<1> HIDE DEF s
<1>6. CASE StoreFails
  <2>1. storeErrs' # 0 /\ UNCHANGED <<jobs, attempts, intents>>
    BY <1>6, FailsOnce, Zenon DEF IInv
  <2>2. SeqStoreInv'
    BY <1>1, <1>2, <2>1, QuietSeqStore, Zenon
  <2>3. SucceededInv(p)'
    BY <1>1, <1>2, <2>1, Zenon DEF SeqProcInv, SucceededInv
  <2> QED
    BY <1>5, <2>1, <2>2, <2>3, Zenon DEF SeqProcInv
<1>7. CASE update_intent_state(attempt[p], at[p], s)
  <2>1. SeqStoreInv'
    BY <1>1, <1>2, <1>3, <1>7, UpdateSeqStore, Zenon
  <2>2. /\ \A k \in Attempts \X Ops : intents'[k] # NoRow <=> intents[k] # NoRow
        /\ \A k \in Attempts \X Ops : k # <<attempt[p], at[p]>> => intents'[k] = intents[k]
        /\ intents'[<<attempt[p], at[p]>>].state = s
        /\ UNCHANGED storeErrs
    BY <1>2, <1>3, <1>7, UpdateRow, Zenon
  <2>3. SucceededInv(p)'
    BY <1>1, <1>2, <2>2, Zenon DEF SeqProcInv, SucceededInv
  <2>4. storeErrs' = 0 => SettledInv(p)'
    <3> SUFFICES ASSUME storeErrs' = 0, NEW k \in Ops, intents'[<<attempt[p], k>>] # NoRow
                 PROVE  k \in listed[p] \/ intents'[<<attempt[p], k>>].state \in Settled
      BY <1>1, <1>3, <2>2, Zenon DEF SettledInv, Working, ExecLabels
    <3>1. CASE k = at[p]
      BY <1>3, <2>2, <3>1, Zenon
    <3>2. CASE k # at[p]
      <4>1. <<attempt[p], k>> # <<attempt[p], at[p]>>
        BY <3>2, Zenon
      <4>2. intents'[<<attempt[p], k>>] = intents[<<attempt[p], k>>]
        BY <1>2, <2>2, <4>1, Zenon
      <4> QED
        BY <1>1, <1>2, <2>2, <4>2, Zenon DEF SeqProcInv, SettledInv
    <3> QED
      BY <3>1, <3>2, Zenon
  <2> QED
    BY <1>5, <2>1, <2>3, <2>4, Zenon DEF SeqProcInv
<1> QED
  BY <1>6, <1>7, Zenon DEF ResolveRecovered, s

\* Recovery is through with an intent: it is settled, and seen deleted if every
\* one so far was.
LEMMA RecordRecoveredSeq ==
  ASSUME IInv, SeqInv, NEW p \in Procs, RecordRecovered(p),
         UNCHANGED <<execVars, schedVars, procVars>>
  PROVE  SeqStoreInv' /\ SeqProcInv(p)'
<1>1. /\ UNCHANGED <<jobs, attempts, intents, removed, observed, attempt, at, outcome, todo,
                     allSucceeded>>
      /\ pc[p] = "r_record" /\ pc[p] \in Reverifying
      /\ pc'[p] = "r_intent" /\ pc'[p] \in Reverifying
      /\ listed'[p] = listed[p] \ {at[p]}
  BY Zenon DEF RecordRecovered, record_operation_result, StoreFails, Reverifying, IInv, TypeOK,
         EngineTypeOK, RecoveryTypeOK, Goto
<1>2. storeErrs' = 0 => storeErrs = 0
  BY FailsOnce, Zenon DEF RecordRecovered, record_operation_result, IInv
<1>3. SeqStoreInv /\ SeqProcInv(p) /\ ProcInv(p)
  BY Zenon DEF SeqInv, IInv
<1>4. SeqStoreInv'
  BY <1>1, <1>2, <1>3, QuietSeqStore, Zenon
<1>5. AttemptInv(p)' /\ PlanInv(p)'
  BY <1>1, ReverifyAttempt, Zenon
<1>6. SucceededInv(p)'
  <2>1. allSucceeded[p] => <<attempt[p], at[p]>> \in observed
    BY <1>1, <1>3, Zenon DEF SeqProcInv, SucceededInv, ProcInv
  <2> QED
    BY <1>1, <1>3, <2>1, Zenon DEF SeqProcInv, SucceededInv
<1>7. storeErrs' = 0 => SettledInv(p)'
  <2>1. storeErrs = 0 => intents[<<attempt[p], at[p]>>].state \in Settled
    BY <1>1, <1>3, Zenon DEF SeqProcInv, SettledInv
  <2> QED
    BY <1>1, <1>2, <1>3, <2>1, Zenon DEF SeqProcInv, SettledInv, Working, ExecLabels
<1> QED
  BY <1>4, <1>5, <1>6, <1>7, Zenon DEF SeqProcInv

\* A RUNNING attempt gets a final state.
LEMMA EndedAttempt ==
  ASSUME IInv, NEW a \in Attempts, NEW s, update_attempt_state(a, s),
         attempts[a].state = "RUNNING"
  PROVE  /\ attempts'[a].state = s
         /\ \A b \in Attempts : attempts'[b].job = attempts[b].job
         /\ \A b \in Attempts : b # a => attempts'[b] = attempts[b]
         /\ UNCHANGED <<jobs, intents, operations, storeErrs>>
<1>1. attempts \in [Attempts -> [state : AttemptStates, job : 0 .. MaxJob]]
  BY Zenon DEF IInv, TypeOK, StoreTypeOK
<1>2. attempts' = [attempts EXCEPT ![a].state = IF @ = "NONE" THEN @ ELSE s]
  BY Zenon DEF update_attempt_state
<1> QED
  BY <1>1, <1>2 DEF update_attempt_state

\* It ends with its removals settled, and RECONCILED only if all was seen
\* deleted.
LEMMA EndedSeqStore ==
  ASSUME IInv, SeqStoreInv, NEW a \in Attempts, NEW s, update_attempt_state(a, s),
         attempts[a].state = "RUNNING", UNCHANGED <<removed, observed>>, s # "NONE",
         s = "RECONCILED" =>
           \A o \in Ops : intents[<<a, o>>] # NoRow => <<a, o>> \in observed,
         storeErrs = 0 => \A r \in removed : r.attempt = a =>
                            intents[<<r.attempt, r.op>>].state \in Settled
  PROVE  SeqStoreInv'
<1>1. /\ attempts'[a].state = s
      /\ \A b \in Attempts : attempts'[b].job = attempts[b].job
      /\ \A b \in Attempts : b # a => attempts'[b] = attempts[b]
      /\ UNCHANGED <<jobs, intents, operations, storeErrs>>
  BY EndedAttempt, Zenon
<1>2. \A b \in Attempts, o \in Ops : intents'[<<b, o>>] # NoRow => attempts'[b].state # "NONE"
  BY <1>1, Zenon DEF SeqStoreInv
<1>3. ReconciledMeansDeleted'
  BY <1>1, Zenon DEF SeqStoreInv, ReconciledMeansDeleted
<1>4. RemovalAccounted'
  <2>1. \A r \in removed : r.attempt \in Attempts
    BY DEF IInv, TypeOK, ExecTypeOK, Removal
  <2> QED
    BY <1>1, <2>1, Zenon DEF SeqStoreInv, RemovalAccounted
<1>5. RecoveredIsBacked'
  <2> SUFFICES ASSUME storeErrs' = 0, NEW j \in Jobs, jobs'[j] = "RECOVERED"
               PROVE  \E b \in Attempts : attempts'[b].job = j /\ attempts'[b].state = "RECONCILED"
    BY Zenon DEF RecoveredIsBacked
  <2>1. PICK b \in Attempts : attempts[b].job = j /\ attempts[b].state = "RECONCILED"
    BY <1>1, Zenon DEF SeqStoreInv, RecoveredIsBacked
  <2>2. b # a
    BY <2>1, Zenon
  <2> QED
    BY <1>1, <2>1, <2>2, Zenon
<1>6. storeErrs' = 0 => DirRowsLast'
  BY <1>1, Zenon DEF SeqStoreInv, DirRowsLast
<1> QED
  BY <1>2, <1>3, <1>4, <1>5, <1>6, Zenon DEF SeqStoreInv

\* Recovery closes the attempt when none of its intents is left.
LEMMA CloseAttemptSeq ==
  ASSUME IInv, SeqInv, NEW p \in Procs, CloseAttempt(p), UNCHANGED <<execVars, schedVars, procVars>>
  PROVE  SeqStoreInv' /\ SeqProcInv(p)'
<1> DEFINE s == AttemptVerdict(allSucceeded[p], hasUnknown[p])
<1>1. /\ UNCHANGED <<removed, observed, attempt, todo, listed, allSucceeded, hasUnknown>>
      /\ pc[p] = "r_intent" /\ pc[p] \in Reverifying
      /\ listed[p] = {}
  BY Zenon DEF CloseAttempt, Reverifying
<1>2. CASE StoreFails /\ Goto(p, "seed")
  BY <1>1, <1>2, RecoveryEndsQuiet, QuietSeq, Zenon DEF Goto
<1>3. CASE update_attempt_state(attempt[p], s) /\ Goto(p, "r_job")
  <2>1. /\ attempt[p] \in Attempts /\ attempts[attempt[p]].state = "RUNNING"
        /\ \A o \in Ops : <<attempt[p], o>> \in Attempts \X Ops
        /\ SeqStoreInv /\ SeqProcInv(p)
    BY <1>1, ReverifyKeys, Zenon
  <2>2. pc'[p] = "r_job"
    BY <1>3, Zenon DEF Goto, IInv, TypeOK, EngineTypeOK
  <2>3. s # "NONE" /\ (s = "RECONCILED" => allSucceeded[p])
    <3>1. allSucceeded[p] \in BOOLEAN /\ hasUnknown[p] \in BOOLEAN
      BY Zenon DEF IInv, TypeOK, RecoveryTypeOK
    <3> QED
      BY <3>1 DEF AttemptVerdict
  <2>4. allSucceeded[p] => \A o \in Ops : intents[<<attempt[p], o>>] # NoRow =>
                             <<attempt[p], o>> \in observed
    BY <1>1, <2>1, Zenon DEF SeqProcInv, SucceededInv
  <2>5. storeErrs = 0 => \A r \in removed : r.attempt = attempt[p] =>
                           intents[<<r.attempt, r.op>>].state \in Settled
    <3> SUFFICES ASSUME storeErrs = 0, NEW r \in removed, r.attempt = attempt[p]
                 PROVE  intents[<<r.attempt, r.op>>].state \in Settled
      BY Zenon
    <3>1. r.op \in Ops
      BY DEF IInv, TypeOK, ExecTypeOK, Removal
    <3>2. intents[<<attempt[p], r.op>>] # NoRow
      <4>1. intents[<<r.attempt, r.op>>].state # "NONE"
        BY Zenon DEF IInv, LedgerInv, IntentBeforeMutation
      <4>2. NoRow.state = "NONE"
        BY DEF NoRow
      <4> QED
        BY <4>1, <4>2, Zenon
    <3> QED
      BY <1>1, <2>1, <3>1, <3>2, Zenon DEF SeqProcInv, SettledInv
  <2> HIDE DEF s
  <2>6. SeqStoreInv'
    BY <1>1, <1>3, <2>1, <2>3, <2>4, <2>5, EndedSeqStore, Zenon
  <2>7. /\ attempts'[attempt[p]].state = s
        /\ \A b \in Attempts : attempts'[b].job = attempts[b].job
        /\ \A b \in Attempts : b # attempt[p] => attempts'[b] = attempts[b]
        /\ UNCHANGED <<jobs, intents, operations, storeErrs>>
    BY <1>3, <2>1, EndedAttempt, Zenon
  <2>8. AttemptInv(p)'
    <3>1. /\ \A a \in todo[p] : a \in Attempts /\ attempts[a].state = "RUNNING"
          /\ attempt[p] \notin todo[p]
      BY <1>1, <2>1, Zenon DEF SeqProcInv, AttemptInv, Reconciling, IInv, TypeOK, RecoveryTypeOK
    <3>2. \A a \in todo'[p] : attempts'[a].state = "RUNNING"
      BY <1>1, <2>7, <3>1, Zenon
    <3>3. attempts'[attempt'[p]].state = AttemptVerdict(allSucceeded'[p], hasUnknown'[p])
      BY <1>1, <2>7, Zenon DEF s
    <3> QED
      BY <1>1, <2>2, <3>1, <3>2, <3>3, Zenon DEF AttemptInv, Working, Reverifying, Reconciling,
             Seeded, ExecLabels
  <2>9. SucceededInv(p)' /\ SettledInv(p)' /\ PlanInv(p)'
    BY <2>2, Zenon DEF SucceededInv, SettledInv, PlanInv, Working, Reverifying, ExecLabels
  <2> QED
    BY <2>6, <2>8, <2>9, Zenon DEF SeqProcInv
<1> QED
  BY <1>2, <1>3, Zenon DEF CloseAttempt, s

\* The job gets the verdict of the attempt that was just closed.
LEMMA CloseJobSeq ==
  ASSUME IInv, SeqInv, NEW p \in Procs, CloseJob(p), UNCHANGED <<execVars, schedVars, procVars>>
  PROVE  SeqStoreInv' /\ SeqProcInv(p)'
<1>1. /\ UNCHANGED <<removed, observed, attempt, todo, job, allSucceeded, hasUnknown>>
      /\ pc[p] = "r_job" /\ pc[p] \in Reconciling
  BY Zenon DEF CloseJob, Reconciling
<1>2. CASE StoreFails /\ Goto(p, "seed")
  BY <1>1, <1>2, RecoveryEndsQuiet, QuietSeq, Zenon DEF Goto
<1>3. CASE /\ update_job_state(job[p], JobVerdict(allSucceeded[p], hasUnknown[p]))
           /\ Goto(p, "r_attempt")
  <2>1. ReconcileInv(p) /\ SeqStoreInv /\ SeqProcInv(p)
    BY <1>1, Zenon DEF IInv, ProcInv, SeqInv
  <2>2. pc'[p] = "r_attempt" /\ UNCHANGED <<attempts, intents, storeErrs>>
    BY <1>3, Zenon DEF Goto, update_job_state, IInv, TypeOK, EngineTypeOK
  <2>3. AttemptInv(p)'
    BY <1>1, <2>1, <2>2, Zenon DEF SeqProcInv, AttemptInv, Working, Reverifying, Reconciling,
           Seeded, ExecLabels
  <2>4. SucceededInv(p)' /\ SettledInv(p)' /\ PlanInv(p)'
    BY <2>2, Zenon DEF SucceededInv, SettledInv, PlanInv, Working, Reverifying, ExecLabels
  <2>5. JobVerdict(allSucceeded[p], hasUnknown[p]) = "RECOVERED" =>
          AttemptVerdict(allSucceeded[p], hasUnknown[p]) = "RECONCILED"
    <3>1. allSucceeded[p] \in BOOLEAN /\ hasUnknown[p] \in BOOLEAN
      BY Zenon DEF IInv, TypeOK, RecoveryTypeOK
    <3> QED
      BY <3>1 DEF JobVerdict, AttemptVerdict
  <2>6. RecoveredIsBacked'
    <3> SUFFICES ASSUME storeErrs' = 0, NEW j \in Jobs, jobs'[j] = "RECOVERED"
                 PROVE  \E a \in Attempts : attempts'[a].job = j /\ attempts'[a].state = "RECONCILED"
      BY Zenon DEF RecoveredIsBacked
    <3>1. jobs' = [jobs EXCEPT ![job[p]] =
                     IF @ = "NONE" THEN @ ELSE JobVerdict(allSucceeded[p], hasUnknown[p])]
      BY <1>3, Zenon DEF update_job_state
    <3>2. jobs \in [Jobs -> JobStates]
      BY Zenon DEF IInv, TypeOK, StoreTypeOK
    <3>3. CASE jobs[j] = "RECOVERED"
      BY <2>1, <2>2, <3>3, Zenon DEF SeqStoreInv, RecoveredIsBacked
    <3>4. CASE jobs[j] # "RECOVERED"
      <4>1. j = job[p] /\ JobVerdict(allSucceeded[p], hasUnknown[p]) = "RECOVERED"
        BY <3>1, <3>2, <3>4, Zenon
      <4> QED
        BY <1>1, <2>1, <2>2, <2>5, <4>1, Zenon DEF SeqProcInv, AttemptInv, ReconcileInv
    <3> QED
      BY <3>3, <3>4, Zenon
  <2>7. SeqStoreInv'
    BY <1>1, <2>1, <2>2, <2>6, Zenon DEF SeqStoreInv, ReconciledMeansDeleted, RemovalAccounted,
           DirRowsLast
  <2> QED
    BY <2>3, <2>4, <2>7, Zenon DEF SeqProcInv
<1> QED
  BY <1>2, <1>3, Zenon DEF CloseJob

\* The engine closes the attempt: every removal under it is settled.
LEMMA FinishSeq ==
  ASSUME IInv, SeqInv, NEW p \in Procs, FinishAttempt(p),
         UNCHANGED <<execIdle, recoveryVars, schedVars, procVars>>
  PROVE  SeqStoreInv' /\ SeqProcInv(p)'
<1>1. /\ UNCHANGED <<removed, observed, attempt, attemptCounter>>
      /\ pc[p] \in {"finish_ok", "finish_err"}
      /\ pc' = [pc EXCEPT ![p] = "returned"]
  BY Zenon DEF FinishAttempt, Goto
<1>2. CASE StoreFails
  BY <1>1, <1>2, FailureQuiet, Zenon
<1>3. ASSUME NEW s \in {"SUCCESS", "FAILED"}, update_attempt_state(attempt[p], s)
      PROVE  SeqStoreInv' /\ SeqProcInv(p)'
  <2>1. /\ pc'[p] = "returned" /\ SeqStoreInv /\ SeqProcInv(p)
        /\ pc[p] \in Working /\ pc[p] \in Seeded
    BY <1>1, Zenon DEF IInv, TypeOK, EngineTypeOK, SeqInv, Working, Seeded
  <2>2. attempt[p] \in Attempts /\ attempts[attempt[p]].state = "RUNNING"
    BY <2>1, Zenon DEF SeqProcInv, AttemptInv
  <2>3. storeErrs = 0 => \A r \in removed : r.attempt = attempt[p] =>
                           intents[<<r.attempt, r.op>>].state \in Settled
    BY <1>1, <2>1, Zenon DEF SeqProcInv, SettledInv
  <2>4. s # "NONE" /\ s # "RECONCILED"
    BY <1>3, Zenon
  <2>5. SeqStoreInv'
    BY <1>1, <1>3, <2>1, <2>2, <2>3, <2>4, EndedSeqStore, Zenon
  <2>6. /\ attempts'[attempt[p]].state = s
        /\ \A b \in Attempts : attempts'[b].job = attempts[b].job
        /\ \A b \in Attempts : b # attempt[p] => attempts'[b] = attempts[b]
        /\ UNCHANGED <<jobs, intents, operations, storeErrs>>
    BY <1>3, <2>2, EndedAttempt, Zenon
  <2>7. AttemptInv(p)'
    <3>1. \A a \in Attempts : attempts'[a].state # "NONE" => attempts[a].state # "NONE"
      BY <2>2, <2>6, Zenon
    <3> QED
      BY <1>1, <2>1, <2>6, <3>1, Zenon DEF SeqProcInv, AttemptInv, Working, Reverifying,
             Reconciling, ExecLabels
  <2>8. SucceededInv(p)' /\ SettledInv(p)' /\ PlanInv(p)'
    BY <2>1, Zenon DEF SucceededInv, SettledInv, PlanInv, Working, Reverifying, ExecLabels
  <2> QED
    BY <2>5, <2>7, <2>8, Zenon DEF SeqProcInv
<1> QED
  BY <1>2, <1>3, Zenon DEF FinishAttempt

-----------------------------------------------------------------------------
(***************************************************************************)
(* One process at a time: SeqInv is inductive.                             *)
(***************************************************************************)

\* Every step of a process re-establishes SeqInv for it and for the store.
LEMMA WorkSeq ==
  ASSUME IInv, SeqInv, NEW p \in Procs, DoneInv(p), Start(p) \/ Work(p) \/ Ask(p) \/ Crash(p)
  PROVE  SeqStoreInv' /\ SeqProcInv(p)'
<1>1. CASE \/ Start(p)
           \/ TakeLock(p) /\ UNCHANGED <<storeVars, execIdle, recoveryVars, schedVars>>
           \/ Submit(p) /\ UNCHANGED <<storeVars, diskVars, recoveryVars, schedVars, procVars>>
           \/ PlanFails(p) /\ UNCHANGED <<storeVars, recoveryVars, schedVars, procVars>>
  BY <1>1, LifeQuiet, QuietSeq, Zenon
<1>2. CASE /\ Seed(p) \/ Coalesce(p) \/ AdmitNew(p) \/ ClaimAttempt(p)
           /\ UNCHANGED <<execIdle, recoveryVars, procVars>>
  <2>1. CASE Coalesce(p) \/ AdmitNew(p)
    BY <1>2, <2>1, AdmitQuiet, QuietSeq, Zenon
  <2> QED
    BY <1>2, <2>1, SeedSeq, ClaimSeq, Zenon
<1>3. CASE PlanJob(p) /\ UNCHANGED <<storeVars, recoveryVars, schedVars, procVars>>
  BY <1>3, PlanSeq, Zenon
<1>4. CASE ExecStep(p) /\ UNCHANGED <<recoveryVars, schedVars, procVars>>
  <2>1. CASE SkipOp(p) \/ RejectOp(p) \/ OpenParentFails(p) \/ RecordResult(p)
    BY <1>4, <2>1, NextOpQuiet, QuietSeq, Zenon
  <2>2. CASE StatChild(p)
    BY <1>4, <2>2, StatQuiet, QuietSeq, Zenon
  <2> QED
    BY <1>4, <2>1, <2>2, CommitSeq, MarkSeq, UnlinkSeq, VerifySeq, ResolveSeq, Zenon DEF ExecStep
<1>5. CASE RecoveryStep(p) /\ UNCHANGED <<execVars, schedVars, procVars>>
  <2>1. CASE RecoveryDone(p)
    <3>1. /\ pc' = [pc EXCEPT ![p] = "seed"] /\ UNCHANGED storeVars
          /\ UNCHANGED observed
      BY <2>1, Zenon DEF RecoveryDone, Goto
    <3> QED
      BY <1>5, <3>1, RecoveryEndsQuiet, QuietSeq, Zenon
  <2> QED
    BY <1>5, <2>1, ReadSeq, BeginSeq, MissingSeq, VerifyIntentSeq, ResolveRecoveredSeq,
       RecordRecoveredSeq, CloseAttemptSeq, CloseJobSeq, Zenon DEF RecoveryStep
<1>6. CASE /\ FinishJob(p) \/ FinishAttempt(p)
           /\ UNCHANGED <<execIdle, recoveryVars, schedVars, procVars>>
  <2>1. CASE FinishJob(p)
    BY <1>6, <2>1, FinishJobQuiet, QuietSeq, Zenon
  <2> QED
    BY <1>6, <2>1, FinishSeq, Zenon
<1>7. CASE Return(p) \/ Exit(p) \/ Crash(p)
  BY <1>7, LeaveQuiet, QuietSeq, Zenon
<1>8. CASE \/ Cancel(p) /\ UNCHANGED <<recoveryVars, schedVars, procVars>>
           \/ ReloadConfig(p) /\ UNCHANGED <<execIdle, recoveryVars, procVars>>
           \/ Stop(p)
  <2>1. UNCHANGED <<storeVars, engineVars, plan, removed, recoveryVars, attemptCounter>>
    BY <1>8, Zenon DEF Cancel, Stop, ReloadConfig, UpdateConfig
  <2> QED
    BY <2>1, StandQuiet, QuietSeq, Zenon
<1> QED
  BY <1>1, <1>2, <1>3, <1>4, <1>5, <1>6, <1>7, <1>8, Zenon DEF Work, Ask

\* Whoever takes a step, other than Stop, is up before it or after it.
LEMMA UpSteps ==
  ASSUME TypeOK, NEW p \in Procs, Start(p) \/ Work(p) \/ Ask(p) \/ Crash(p), ~Stop(p)
  PROVE  pc[p] # "down" \/ pc'[p] # "down"
<1>1. CASE Start(p)
  BY <1>1, Zenon DEF Start, StartDaemon, StartStandalone, Goto, TypeOK, EngineTypeOK
<1>2. CASE ExecStep(p)
  BY <1>2, Zenon DEF ExecStep, SkipOp, RejectOp, CommitIntent, MarkMutating, OpenParentFails,
         StatChild, Unlinkat, VerifyOp, ResolveIntent, RecordResult
<1>3. CASE RecoveryStep(p)
  BY <1>3, Zenon DEF RecoveryStep, ReadUncompleted, BeginAttempt, RecoveryDone, TargetMissing,
         VerifyIntent, ResolveRecovered, RecordRecovered, CloseAttempt, CloseJob
<1>4. CASE \/ TakeLock(p) \/ Seed(p) \/ Coalesce(p) \/ AdmitNew(p) \/ ClaimAttempt(p)
           \/ PlanJob(p) \/ PlanFails(p) \/ FinishJob(p) \/ FinishAttempt(p)
  BY <1>4, Zenon DEF TakeLock, Seed, Coalesce, AdmitNew, ClaimAttempt, PlanJob, PlanFails,
         FinishJob, FinishAttempt
<1>5. CASE Return(p) \/ Exit(p) \/ Crash(p) \/ Submit(p) \/ Cancel(p) \/ ReloadConfig(p)
  BY <1>5, Zenon DEF Return, Exit, Crash, Submit, Cancel, ReloadConfig, UpdateConfig,
         ExecLabels
<1> QED
  BY <1>1, <1>2, <1>3, <1>4, <1>5, Zenon DEF Work, Ask

\* As long as no statement has failed, a step that ends with one process up sets
\* no closed attempt RUNNING.
StaysClosed ==
  storeErrs' = 0 =>
    \A a \in Attempts : attempts[a].state \notin {"NONE", "RUNNING"}
                          => attempts'[a].state # "RUNNING"

\* Only ClaimAttempt sets an attempt RUNNING, and it takes a fresh id.
LEMMA ClosedStep ==
  ASSUME IInv, SeqInv, NEW p \in Procs, Start(p) \/ Work(p) \/ Ask(p) \/ Crash(p)
  PROVE  StaysClosed
<1>1. CASE UNCHANGED attempts
  BY <1>1, Zenon DEF StaysClosed
<1>2. ASSUME NEW a, NEW s, update_attempt_state(a, s), s # "RUNNING"
      PROVE  StaysClosed
  <2>1. attempts \in [Attempts -> [state : AttemptStates, job : 0 .. MaxJob]]
    BY Zenon DEF IInv, TypeOK, StoreTypeOK
  <2>2. attempts' = [attempts EXCEPT ![a].state = IF @ = "NONE" THEN @ ELSE s]
    BY <1>2, Zenon DEF update_attempt_state
  <2> QED
    BY <1>2, <2>1, <2>2 DEF StaysClosed
<1>3. CASE ExecStep(p)
  BY <1>1, <1>3, Zenon DEF ExecStep, SkipOp, RejectOp, CommitIntent, MarkMutating,
         OpenParentFails, StatChild, Unlinkat, VerifyOp, ResolveIntent, RecordResult,
         update_intent_state, commit_operation_intent, record_operation_result, StoreFails
<1>4. CASE CloseAttempt(p)
  <2>1. allSucceeded[p] \in BOOLEAN /\ hasUnknown[p] \in BOOLEAN
    BY Zenon DEF IInv, TypeOK, RecoveryTypeOK
  <2>2. AttemptVerdict(allSucceeded[p], hasUnknown[p]) # "RUNNING"
    BY <2>1 DEF AttemptVerdict
  <2> QED
    BY <1>1, <1>2, <1>4, <2>2, Zenon DEF CloseAttempt, StoreFails
<1>5. CASE RecoveryStep(p) /\ ~CloseAttempt(p)
  BY <1>1, <1>5, Zenon DEF RecoveryStep, ReadUncompleted, BeginAttempt, RecoveryDone,
         TargetMissing, VerifyIntent, ResolveRecovered, RecordRecovered, CloseJob,
         update_intent_state, update_job_state, record_operation_result, StoreFails
<1>6. CASE FinishAttempt(p)
  BY <1>1, <1>2, <1>6, Zenon DEF FinishAttempt, StoreFails
<1>7. CASE Seed(p) \/ Coalesce(p) \/ AdmitNew(p) \/ FinishJob(p)
  BY <1>1, <1>7, Zenon DEF Seed, Coalesce, AdmitNew, FinishJob, register_job, update_job_state,
         StoreFails
<1>8. CASE Return(p) \/ Exit(p) \/ Stop(p) \/ Crash(p) \/ Cancel(p) \/ ReloadConfig(p)
  BY <1>1, <1>8, Zenon DEF Return, Exit, Stop, Crash, Forget, Cancel, ReloadConfig, UpdateConfig
<1>9. CASE ClaimAttempt(p) /\ UNCHANGED <<execIdle, recoveryVars, procVars>>
  BY <1>9, ClaimSeq, Zenon DEF StaysClosed
<1> QED
  BY <1>1, <1>3, <1>4, <1>5, <1>6, <1>7, <1>8, <1>9, Zenon DEF Work, Ask, Start

\* SeqInv is inductive relative to IInv and DoneAll, while one process is up.
LEMMA SeqNext ==
  ASSUME IInv, DoneAll, SeqInv, OneAtATime, OneAtATime', [Next]_vars
  PROVE  SeqInv' /\ StaysClosed
<1>1. ASSUME NEW p \in Procs, Start(p) \/ Work(p) \/ Ask(p) \/ Crash(p), ~Stop(p)
      PROVE  SeqInv' /\ StaysClosed
  <2>1. SeqStoreInv' /\ SeqProcInv(p)'
    BY <1>1, WorkSeq, Zenon DEF DoneAll
  <2>2. \A q \in Procs : q # p => pc'[q] = pc[q]
    BY <1>1, OthersStay, Zenon DEF Others
  <2>3. pc[p] # "down" \/ pc'[p] # "down"
    BY <1>1, UpSteps, Zenon DEF IInv
  <2>4. SeqInv'
    BY <2>1, <2>2, <2>3, SeqStep, Zenon
  <2> QED
    BY <1>1, <2>4, ClosedStep, Zenon
<1>2. CASE Apps \/ (\E p \in Procs : Stop(p)) \/ UNCHANGED vars
  <2>1. UNCHANGED <<storeVars, engineVars, plan, removed, recoveryVars, attemptCounter>>
    BY <1>2, Zenon DEF Apps, Stop, vars
  <2>2. SeqStoreInv'
    BY <2>1, QuietSeqStore, Zenon DEF SeqInv
  <2>3. \A p \in Procs : SeqProcInv(p)'
    BY <2>1, StandQuiet, QuietSeq, Zenon
  <2>4. StaysClosed
    BY <2>1, Zenon DEF StaysClosed
  <2> QED
    BY <2>2, <2>3, <2>4, Zenon DEF SeqInv
<1> QED
  BY <1>1, <1>2, Zenon DEF Next

\* The initial states satisfy SeqInv.
LEMMA InitSeq ==
  ASSUME Init
  PROVE  SeqInv
<1>1. /\ \A k \in Attempts \X Ops : intents[k] = NoRow
      /\ \A a \in Attempts, o \in Ops : <<a, o>> \in Attempts \X Ops
      /\ removed = {}
      /\ \A p \in Procs : pc[p] = "down"
  BY Zenon DEF Init, StoreInit, EngineInit, ExecInit
<1>2. /\ \A a \in Attempts : attempts[a].state # "RECONCILED"
      /\ \A j \in Jobs : jobs[j] # "RECOVERED"
  BY DEF Init, StoreInit
<1>3. SeqStoreInv
  BY <1>1, <1>2, Zenon DEF SeqStoreInv, ReconciledMeansDeleted, RemovalAccounted,
         RecoveredIsBacked, DirRowsLast
<1>4. \A p \in Procs : SeqProcInv(p)
  BY <1>1, Zenon DEF SeqProcInv, AttemptInv, SucceededInv, SettledInv, PlanInv, Working,
         Reverifying, Reconciling, Seeded, ExecLabels
<1> QED
  BY <1>3, <1>4, Zenon DEF SeqInv

\* Whatever crashes, fails or is started again, SeqInv holds while processes
\* follow one another.
THEOREM SeqInvariance == Spec /\ []OneAtATime => [](DoneAll /\ SeqInv)
<1>1. Init => DoneAll
  BY Zenon DEF Init, EngineInit, DoneAll, DoneInv, ExecLabels
<1>2. Init => SeqInv
  BY InitSeq, Zenon
<1>3. IInv /\ DoneAll /\ [Next]_vars => DoneAll'
  BY DoneNext, Zenon
<1>4. IInv /\ DoneAll /\ SeqInv /\ OneAtATime /\ OneAtATime' /\ [Next]_vars => SeqInv'
  BY SeqNext, Zenon
<1> QED
  BY <1>1, <1>2, <1>3, <1>4, Invariance, PTL DEF Spec

\* recovery: an attempt is RECONCILED only if every one of its intents has been
\* seen deleted, even if statements fail; as long as processes follow one
\* another.
THEOREM ReconciledRestsOnObservation == Spec /\ []OneAtATime => []ReconciledMeansDeleted
<1>1. SeqInv => ReconciledMeansDeleted
  BY Zenon DEF SeqInv, SeqStoreInv
<1> QED
  BY <1>1, SeqInvariance, PTL

\* domain OperationIntent: over any number of crashes and restarts, a removal is
\* settled or its attempt is still RUNNING, for the next start to re-verify; as
\* long as processes follow one another and no statement has failed.
THEOREM RemovalsAccounted == Spec /\ []OneAtATime => []RemovalAccounted
<1>1. SeqInv => RemovalAccounted
  BY Zenon DEF SeqInv, SeqStoreInv
<1> QED
  BY <1>1, SeqInvariance, PTL

\* recovery: a RECOVERED job has a RECONCILED attempt, no crash between the two
\* updates can leave it without; as long as processes follow one another and no
\* statement has failed.
THEOREM RecoveredJobsBacked == Spec /\ []OneAtATime => []RecoveredIsBacked
<1>1. SeqInv => RecoveredIsBacked
  BY Zenon DEF SeqInv, SeqStoreInv
<1> QED
  BY <1>1, SeqInvariance, PTL

\* planner build_plan and executor step 2: no directory before its contents, in
\* the plan that is being executed and in the rows of every attempt; as long as
\* processes follow one another.
THEOREM DirectoriesLast == Spec /\ []OneAtATime => []DirAfterContents
<1>1. DoneAll /\ SeqInv => DirAfterContents
  BY DoneSeen, Zenon DEF DoneAll, SeqInv, SeqStoreInv, DirAfterContents
<1> QED
  BY <1>1, SeqInvariance, PTL

\* worker claim_attempt: the counter seeded from MAX(attempt_id) never hands out
\* the id of a closed attempt; as long as processes follow one another and no
\* statement has failed.
THEOREM ClosedAttemptsStay == Spec /\ []OneAtATime => AttemptsStayClosed
<1>1. IInv /\ DoneAll /\ SeqInv /\ OneAtATime /\ OneAtATime' /\ [Next]_vars => [StaysClosed]_vars
  BY SeqNext, Zenon
<1>2. Spec /\ []OneAtATime => [][StaysClosed]_vars
  BY <1>1, Invariance, SeqInvariance, PTL DEF Spec
<1> QED
  BY <1>2, Zenon DEF AttemptsStayClosed, StaysClosed

=============================================================================
