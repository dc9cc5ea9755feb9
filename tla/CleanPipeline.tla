---------------------------- MODULE CleanPipeline ----------------------------
(***************************************************************************)
(* AuthoritativeCleanPipeline (src/pipeline) in the life of a process: the *)
(* daemon builds its engine first and takes the PID lock afterwards, the   *)
(* standalone `cleaner clean` the other way round; both then run           *)
(* execute(): admit, claim, plan, authorize, execute, close the job and    *)
(* the attempt.  This module composes the scheduler, the executor and the  *)
(* recovery engine over one store and one tree, with any number of         *)
(* processes that can crash between any two steps.                         *)
(***************************************************************************)
EXTENDS Executor, Recovery, Scheduler

CONSTANT MaxCrashes    \* bound on crashes in a behaviour

ASSUME CrashAssumption == MaxCrashes \in Nat

VARIABLES
  mode,     \* "daemon" or "standalone"
  lock,     \* the process that holds the PID lock
  gone,     \* daemons whose run() has returned and whose threads still run
  crashes   \* how many processes have crashed

procVars == <<mode, lock, gone, crashes>>

vars == <<storeVars, diskVars, engineVars, execVars, recoveryVars, schedVars,
          procVars>>

\* The local state each kind of step leaves alone.
execIdle == <<diskVars, execVars>>

TypeOK ==
  /\ StoreTypeOK
  /\ DiskTypeOK
  /\ EngineTypeOK
  /\ ExecTypeOK
  /\ RecoveryTypeOK
  /\ SchedTypeOK
  /\ mode \in [Procs -> {"daemon", "standalone"}]
  /\ lock \in Procs \cup {NoProc}
  /\ gone \subseteq Procs
  /\ crashes \in Nat

Init ==
  /\ StoreInit
  /\ DiskInit
  /\ EngineInit
  /\ ExecInit
  /\ RecoveryInit
  /\ SchedInit
  /\ mode = [p \in Procs |-> "daemon"]
  /\ lock = NoProc
  /\ gone = {}
  /\ crashes = 0

-----------------------------------------------------------------------------

\* DaemonRunner::new: the engine, and with it recovery, before the PID lock.
StartDaemon(p) ==
  /\ pc[p] = "down"
  /\ Goto(p, "reconcile")
  /\ mode' = [mode EXCEPT ![p] = "daemon"]
  /\ UNCHANGED <<job, attempt, at, outcome, dryRun, observed, lock, gone, crashes>>

\* cli execute_clean without a daemon: the PID lock before the engine.
StartStandalone(p) ==
  /\ pc[p] = "down"
  /\ lock = NoProc
  /\ lock' = p
  /\ Goto(p, "reconcile")
  /\ mode' = [mode EXCEPT ![p] = "standalone"]
  /\ UNCHANGED <<job, attempt, at, outcome, dryRun, observed, gone, crashes>>

\* Mutation: the lock is taken without asking whether somebody holds it.
TakeLockUnchecked(p) ==
  /\ pc[p] = "lock"
  /\ lock' = p
  /\ Goto(p, "idle")
  /\ UNCHANGED <<job, attempt, at, outcome, dryRun, observed, mode, gone, crashes>>

\* DaemonRunner::run takes the PID lock; a standalone process has it already.
TakeLock(p) ==
  /\ pc[p] = "lock"
  /\ lock \in {NoProc, p}
  /\ lock' = p
  /\ Goto(p, "idle")
  /\ UNCHANGED <<job, attempt, at, outcome, dryRun, observed, mode, gone, crashes>>

\* The bounds leave room for another call of execute().
CanSubmit(p) ==
  /\ attemptCounter[p] \in Attempts
  /\ queue[p] # NoRequest \/ jobCounter[p] \in Jobs

\* execute() is called: the daemon's worker resets the token and calls it.
Submit(p) ==
  /\ pc[p] = "idle"
  /\ CanSubmit(p)
  /\ \E dry \in BOOLEAN : dryRun' = [dryRun EXCEPT ![p] = dry]
  /\ cancelled' = [cancelled EXCEPT ![p] = FALSE]
  /\ Goto(p, "admit")
  /\ UNCHANGED <<plan, done, mutation, removed>>
  /\ UNCHANGED <<job, attempt, at, outcome, observed>>

\* The scanner lists what is there, with the identity it has.
Candidate(op) == Present(op.path) /\ op.ident = disk[op.path]

\* Any of the candidates may pass the safety gate and the policy; build_plan
\* sorts those that do and numbers them in that order.
IsPlan(pl) ==
  /\ \A i \in DOMAIN pl : Candidate(pl[i])
  /\ \A i, k \in DOMAIN pl : i < k => Order[pl[i].path] < Order[pl[k].path]

\* The plan and its grant carry the generation the job was admitted with.
is_authorized_for_execution(p) == queue[p].cfg = configGen[p]

\* run_pipeline_job up to the first operation: scan, gate, plan and authorize,
\* under the generation the job was admitted with.  A dry run ends here, and
\* execute_plan refuses a plan of another generation than the current one.
PlanJob(p) ==
  /\ pc[p] = "plan"
  /\ \/ /\ queue[p].dry
        /\ Goto(p, "completed")
        /\ UNCHANGED <<plan, at>>
     \/ /\ ~queue[p].dry
        /\ ~is_authorized_for_execution(p)
        /\ Goto(p, "errored")
        /\ UNCHANGED <<plan, at>>
     \/ /\ ~queue[p].dry
        /\ is_authorized_for_execution(p)
        /\ \E n \in 0 .. MaxOp : \E pl \in [1 .. n -> PlannedOp] :
             /\ IsPlan(pl)
             /\ plan' = [plan EXCEPT ![p] = pl]
             /\ at' = [at EXCEPT ![p] = IF n = 0 THEN 0 ELSE 1]
             /\ Goto(p, IF n = 0 THEN "completed" ELSE "op")
  /\ done' = [done EXCEPT ![p] = {}]
  /\ handle' = [handle EXCEPT ![p] = NoHandle]
  /\ UNCHANGED <<disk, appMoves, mutation, cancelled, removed>>
  /\ UNCHANGED <<job, attempt, outcome, dryRun, observed>>

\* run_pipeline_job returns early: configuration invalid, plan over budget.
PlanFails(p) ==
  /\ pc[p] = "plan"
  /\ Goto(p, "errored")
  /\ UNCHANGED <<execIdle, job, attempt, at, outcome, dryRun, observed>>

\* The end of execute(): the job row first.  On success an error is returned
\* at once and the attempt stays RUNNING; on failure it is ignored.
FinishJob(p) ==
  /\ \/ /\ pc[p] = "completed"
        /\ \/ update_job_state(job[p], "COMPLETED") /\ Goto(p, "finish_ok")
           \/ StoreFails /\ Goto(p, "returned")
     \/ /\ pc[p] = "errored"
        /\ update_job_state(job[p], "FAILED") \/ StoreFails
        /\ Goto(p, "finish_err")
  /\ UNCHANGED <<job, attempt, at, outcome, dryRun, observed>>

\* finish_attempt, then execute() returns.
FinishAttempt(p) ==
  /\ \/ /\ pc[p] = "finish_ok"
        /\ update_attempt_state(attempt[p], "SUCCESS") \/ StoreFails
     \/ /\ pc[p] = "finish_err"
        /\ update_attempt_state(attempt[p], "FAILED") \/ StoreFails
  /\ Goto(p, "returned")
  /\ UNCHANGED <<job, attempt, at, outcome, dryRun, observed>>

\* The locals of execute() and of recovery go out of scope.
DropLocals(p) ==
  /\ job' = [job EXCEPT ![p] = 0]
  /\ attempt' = [attempt EXCEPT ![p] = 0]
  /\ at' = [at EXCEPT ![p] = 0]
  /\ outcome' = [outcome EXCEPT ![p] = "UNAVAILABLE"]
  /\ dryRun' = [dryRun EXCEPT ![p] = FALSE]
  /\ handle' = [handle EXCEPT ![p] = NoHandle]
  /\ plan' = [plan EXCEPT ![p] = << >>]
  /\ done' = [done EXCEPT ![p] = {}]
  /\ mutation' = [mutation EXCEPT ![p] = "err"]
  /\ cancelled' = [cancelled EXCEPT ![p] = FALSE]
  /\ todo' = [todo EXCEPT ![p] = {}]
  /\ listed' = [listed EXCEPT ![p] = {}]
  /\ allSucceeded' = [allSucceeded EXCEPT ![p] = TRUE]
  /\ hasUnknown' = [hasUnknown EXCEPT ![p] = FALSE]
  /\ UNCHANGED <<disk, appMoves, observed, removed>>

\* A process ends: its memory goes, and the PID lock if it was its own.
Forget(p) ==
  /\ DropLocals(p)
  /\ Goto(p, "down")
  /\ lock' = IF lock = p THEN NoProc ELSE lock
  /\ gone' = gone \ {p}
  /\ queue' = [queue EXCEPT ![p] = NoRequest]
  /\ jobCounter' = [jobCounter EXCEPT ![p] = 1]
  /\ attemptCounter' = [attemptCounter EXCEPT ![p] = 1]
  /\ configGen' = [configGen EXCEPT ![p] = 1]
  /\ UNCHANGED <<storeVars, mode>>

\* execute() has returned to the daemon's worker.
Return(p) ==
  /\ pc[p] = "returned"
  /\ mode[p] = "daemon"
  /\ Goto(p, "idle")
  /\ DropLocals(p)
  /\ UNCHANGED <<storeVars, schedVars, procVars>>

\* `cleaner stop` or a signal ends the loop: run() waits two seconds for a clean
\* in progress, gives up and drops the PID lock.  The clean goes on, cancelled
\* (Cancel) unless its Submit reset the token after that, until main() returns
\* (Exit, or Crash when that is in the middle of it).
Stop(p) ==
  /\ mode[p] = "daemon"
  /\ lock = p
  /\ lock' = NoProc
  /\ gone' = gone \cup {p}
  /\ UNCHANGED <<storeVars, execIdle, engineVars, recoveryVars, schedVars, mode, crashes>>

\* A daemon that does not get the PID lock (it is taken, or its file cannot be
\* opened) leaves; so does a standalone process after its only job, and a daemon
\* whose run() has returned.
Exit(p) ==
  /\ \/ pc[p] = "lock" /\ lock # p
     \/ pc[p] = "idle" /\ mode[p] = "standalone" /\ ~CanSubmit(p)
     \/ pc[p] = "returned" /\ mode[p] = "standalone"
     \/ pc[p] = "idle" /\ p \in gone
  /\ Forget(p)
  /\ UNCHANGED crashes

\* SIGKILL, a panic, a power cut, or main() returning while the worker of a
\* stopped daemon is still at it: at any point.
Crash(p) ==
  /\ pc[p] # "down"
  /\ crashes < MaxCrashes
  /\ crashes' = crashes + 1
  /\ Forget(p)

-----------------------------------------------------------------------------

\* SIGHUP or IPC reload: only a daemon has one.
ReloadConfig(p) ==
  /\ mode[p] = "daemon"
  /\ UpdateConfig(p)

\* A process is started.
Start(p) ==
  /\ StartDaemon(p) \/ StartStandalone(p)
  /\ UNCHANGED <<storeVars, execIdle, recoveryVars, schedVars>>

\* What a process does of its own accord.
Work(p) ==
  \/ /\ TakeLock(p)
     /\ UNCHANGED <<storeVars, execIdle, recoveryVars, schedVars>>
  \/ /\ Seed(p) \/ Coalesce(p) \/ AdmitNew(p) \/ ClaimAttempt(p)
     /\ UNCHANGED <<execIdle, recoveryVars, procVars>>
  \/ /\ PlanJob(p) \/ PlanFails(p)
     /\ UNCHANGED <<storeVars, recoveryVars, schedVars, procVars>>
  \/ /\ ExecStep(p)
     /\ UNCHANGED <<recoveryVars, schedVars, procVars>>
  \/ /\ RecoveryStep(p)
     /\ UNCHANGED <<execVars, schedVars, procVars>>
  \/ /\ FinishJob(p) \/ FinishAttempt(p)
     /\ UNCHANGED <<execIdle, recoveryVars, schedVars, procVars>>
  \/ Return(p)
  \/ Exit(p)

\* What others make it do.
Ask(p) ==
  \/ /\ Submit(p)
     /\ UNCHANGED <<storeVars, diskVars, recoveryVars, schedVars, procVars>>
  \/ /\ Cancel(p)
     /\ UNCHANGED <<recoveryVars, schedVars, procVars>>
  \/ /\ ReloadConfig(p)
     /\ UNCHANGED <<execIdle, recoveryVars, procVars>>
  \/ Stop(p)

Apps ==
  /\ AppStep
  /\ UNCHANGED <<storeVars, engineVars, execVars, recoveryVars, schedVars,
                 procVars>>

Next ==
  \/ \E p \in Procs : Start(p) \/ Work(p) \/ Ask(p) \/ Crash(p)
  \/ Apps

Spec == Init /\ [][Next]_vars

(***************************************************************************)
(* Fairness.  A thread that can run does run.  Nothing is assumed of       *)
(* requests, cancellations, apps, crashes or restarts: the init service is *)
(* oneshot, so the daemon need not come back.                              *)
(***************************************************************************)
FairSpec == Spec /\ \A p \in Procs : WF_vars(Work(p))

-----------------------------------------------------------------------------
(***************************************************************************)
(* Properties.                                                             *)
(***************************************************************************)

\* store commit_operation_intent, "HARD INVARIANT": every entry an executor
\* has removed is named by an intent that is in the store and went past
\* COMMITTED, whatever crashed, failed or ran concurrently.
IntentBeforeMutation ==
  \A r \in removed :
    /\ intents[r.attempt, r.op].state \notin {"NONE", "COMMITTED"}
    /\ intents[r.attempt, r.op].path = r.path

\* executor execute_plan and recovery: a success on record, in an intent or in
\* an operation's row, rests on a verifier that saw the entry deleted under an
\* intent or an attempt of that job; an unlink that returned Ok is not enough.
SuccessIsObserved ==
  /\ \A k \in Attempts \X Ops :
       intents[k].state = "VERIFIED_SUCCESS" => k \in observed
  /\ \A j \in Jobs, o \in Ops :
       operations[j, o] = "SUCCESS" =>
         \E a \in Attempts : /\ <<a, o>> \in observed
                             /\ \/ intents[a, o].job = j
                                \/ attempts[a].job = j

\* recovery reconcile_startup_crashes: "Only marks attempt as RECONCILED if
\* 100% of intents are verified deleted on storage."
ReconciledMeansDeleted ==
  \A a \in Attempts : attempts[a].state = "RECONCILED" =>
    \A o \in Ops : intents[a, o] # NoRow => <<a, o>> \in observed

\* domain OperationIntent, "post-crash reconciliation": as long as no statement
\* has failed, a removal is never forgotten.  Either its attempt is still
\* RUNNING, so that the next start re-verifies it, or its intent is settled.
RemovalAccounted ==
  storeErrs = 0 =>
    \A r \in removed :
      \/ attempts[r.attempt].state = "RUNNING"
      \/ intents[r.attempt, r.op].state \in Settled

\* Every earlier operation of the plan below the directory that p has committed
\* an intent for has been seen deleted.
DependenciesSeen(p) ==
  pc[p] \in ExecLabels \ {"op"} /\ Op(p).path \in Dirs =>
    \A k \in 1 .. (at[p] - 1) :
      plan[p][k].path \in Below[Op(p).path] => <<attempt[p], k>> \in observed

\* The rows say the same of every attempt: what an earlier row names below a
\* directory that has a row has been seen deleted.
DirRowsLast ==
  \A a \in Attempts, o \in Ops :
    intents[a, o] # NoRow /\ intents[a, o].path \in Dirs =>
      \A k \in Ops :
        (k < o /\ intents[a, k] # NoRow
           /\ intents[a, k].path \in Below[intents[a, o].path])
        => <<a, k>> \in observed

\* planner build_plan and executor step 2: a directory's intent is committed only
\* after the operations below it have been seen deleted.  The store says so as
\* long as no statement has failed: after an error of get_max_attempt_id an
\* attempt id is used again, and the rows of two plans mix.
DirAfterContents ==
  /\ \A p \in Procs : DependenciesSeen(p)
  /\ storeErrs = 0 => DirRowsLast

\* recovery closes the attempt before the job: a job is RECOVERED only if one of
\* its attempts is RECONCILED, as long as no statement has failed.
RecoveredIsBacked ==
  storeErrs = 0 =>
    \A j \in Jobs : jobs[j] = "RECOVERED" =>
      \E a \in Attempts : attempts[a].job = j /\ attempts[a].state = "RECONCILED"

\* worker claim_attempt, seeded from MAX(attempt_id): as long as no statement
\* has failed, an attempt that was closed is never set RUNNING again.
AttemptsStayClosed ==
  [][storeErrs' = 0 =>
       \A a \in Attempts :
         attempts[a].state \notin {"NONE", "RUNNING"}
           => attempts'[a].state # "RUNNING"]_vars

\* PID lock: who executes a plan holds it, or is a daemon on its way out: one
\* that gave up waiting for its clean and dropped the lock before its threads
\* ended.  Nothing else lets two processes execute side by side.
ExecutesUnderLock ==
  \A p \in Procs : pc[p] \in ExecLabels => lock = p \/ p \in gone

\* recovery: an attempt that is RUNNING when a process starts to reconcile is
\* closed, whatever failed before, unless a statement fails now or that process
\* dies.
ReconciliationEnds ==
  \A p \in Procs, a \in Attempts, n \in 0 .. MaxStoreErrors :
    (pc[p] = "reconcile" /\ attempts[a].state = "RUNNING" /\ storeErrs = n)
      ~> (attempts[a].state # "RUNNING" \/ storeErrs > n \/ pc[p] = "down")

\* pipeline execute: every call returns, unless the process dies.
ExecutionEnds ==
  \A p \in Procs : pc[p] = "admit" ~> pc[p] \in {"returned", "down"}

\* README, "Dry run (scan junk space and report breakdown without deleting)":
\* nothing is removed while a request with dry_run is served.
DryRunDeletesNothing == \A r \in removed : ~r.dry

\* README, "Reload configuration without restarting": a clean that is not a
\* dry run is never turned away because of the configuration it was planned
\* under, since no reload can happen between its planning and its execution.
ReloadKeepsCleaning ==
  \A p \in Procs :
    pc[p] = "plan" /\ ~queue[p].dry => is_authorized_for_execution(p)

\* The promise of durable deletion: intents, removals and observations behave
\* as DeletionLedger says, for any number of processes.
Ledger == INSTANCE DeletionLedger
            WITH ledger <- intents, removals <- removed, seen <- observed

ImplementsLedger == Ledger!LedgerSpec

=============================================================================
