----------------------------- MODULE Scheduler -----------------------------
(***************************************************************************)
(* SchedulerService and WorkerPool (src/scheduler, src/worker): admission  *)
(* into the single-slot queue, and the attempts claimed for admitted jobs. *)
(* Both live in the memory of a process and are seeded from the store.     *)
(*                                                                         *)
(* The slot is never emptied: pop_next_job has no caller in the engine.    *)
(* The lease claim_attempt takes is held by WorkerId(1), the only worker   *)
(* id there is, so it is always granted; only its failure is visible here. *)
(***************************************************************************)
EXTENDS Store, Engine

CONSTANT MaxConfigGen    \* bound on configuration reloads

ASSUME ConfigGenAssumption == MaxConfigGen \in Nat \ {0}

VARIABLES
  queue,           \* the front of the queue, NoRequest when it is empty
  jobCounter,      \* job_counter
  attemptCounter,  \* attempt_counter
  configGen        \* config_generation of the pipeline

schedVars == <<queue, jobCounter, attemptCounter, configGen>>

\* JobAdmissionRequest: what the run of the job depends on.
Request == [job : Jobs, dry : BOOLEAN, cfg : 1 .. MaxConfigGen]
NoRequest == [job |-> 0]

SchedTypeOK ==
  /\ queue \in [Procs -> Request \cup {NoRequest}]
  /\ jobCounter \in [Procs -> Nat]
  /\ attemptCounter \in [Procs -> Nat]
  /\ configGen \in [Procs -> 1 .. MaxConfigGen]

SchedInit ==
  /\ queue = [p \in Procs |-> NoRequest]
  /\ jobCounter = [p \in Procs |-> 1]
  /\ attemptCounter = [p \in Procs |-> 1]
  /\ configGen = [p \in Procs |-> 1]

-----------------------------------------------------------------------------

\* SchedulerService::new and WorkerPool::new.  Either SELECT MAX(..),
\* or both in one spell of failure, may fail: the error is swallowed and the
\* table counts as empty.
Seed(p) ==
  /\ pc[p] = "seed"
  /\ \E j \in 0 .. MaxJob, a \in 0 .. MaxAttempt :
       /\ jobCounter' = [jobCounter EXCEPT ![p] = j + 1]
       /\ attemptCounter' = [attemptCounter EXCEPT ![p] = a + 1]
       /\ \/ get_max_job_id(j) /\ get_max_attempt_id(a) /\ UNCHANGED storeVars
          \/ /\ j = 0 \/ get_max_job_id(j)
             /\ a = 0 \/ get_max_attempt_id(a)
             /\ StoreFails
  /\ Goto(p, "lock")
  /\ UNCHANGED <<queue, configGen>>
  /\ UNCHANGED <<job, attempt, at, outcome, dryRun, observed>>

\* admit_job, queue occupied: the request is merged into the one in the slot,
\* which keeps its job id and its generations.
Coalesce(p) ==
  /\ pc[p] = "admit"
  /\ queue[p] # NoRequest
  /\ queue' = [queue EXCEPT ![p].dry = @ /\ dryRun[p]]
  /\ job' = [job EXCEPT ![p] = queue[p].job]
  /\ Goto(p, "claim")
  /\ UNCHANGED <<storeVars, jobCounter, attemptCounter, configGen>>
  /\ UNCHANGED <<attempt, at, outcome, dryRun, observed>>

\* admit_job, queue empty: a new job is registered and put in the slot.
AdmitNew(p) ==
  /\ pc[p] = "admit"
  /\ queue[p] = NoRequest
  /\ jobCounter[p] \in Jobs
  /\ jobCounter' = [jobCounter EXCEPT ![p] = @ + 1]
  /\ \/ /\ register_job(jobCounter[p])
        /\ queue' = [queue EXCEPT ![p] = [job |-> jobCounter[p],
                                          dry |-> dryRun[p],
                                          cfg |-> configGen[p]]]
        /\ job' = [job EXCEPT ![p] = jobCounter[p]]
        /\ Goto(p, "claim")
     \/ /\ StoreFails
        /\ Goto(p, "returned")
        /\ UNCHANGED <<queue, job>>
  /\ UNCHANGED <<attemptCounter, configGen>>
  /\ UNCHANGED <<attempt, at, outcome, dryRun, observed>>

\* claim_attempt: the id is used up whether or not the claim succeeds.
ClaimAttempt(p) ==
  /\ pc[p] = "claim"
  /\ attemptCounter[p] \in Attempts
  /\ attemptCounter' = [attemptCounter EXCEPT ![p] = @ + 1]
  /\ \/ /\ create_attempt(attemptCounter[p], job[p])
        /\ attempt' = [attempt EXCEPT ![p] = attemptCounter[p]]
        /\ Goto(p, "plan")
     \/ /\ StoreFails
        /\ Goto(p, "returned")
        /\ UNCHANGED attempt
  /\ UNCHANGED <<queue, jobCounter, configGen>>
  /\ UNCHANGED <<job, at, outcome, dryRun, observed>>

\* update_config: the generation saturates.
UpdateConfig(p) ==
  /\ pc[p] = "idle"
  /\ configGen[p] < MaxConfigGen
  /\ configGen' = [configGen EXCEPT ![p] = @ + 1]
  /\ UNCHANGED <<storeVars, engineVars, queue, jobCounter, attemptCounter>>

=============================================================================
