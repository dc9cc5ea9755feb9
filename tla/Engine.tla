------------------------------- MODULE Engine -------------------------------
(***************************************************************************)
(* The in-memory state of a cleaner process that the executor, the         *)
(* recovery engine and the pipeline share: where its thread of control is, *)
(* and the job, attempt and operation it works on.  A crash loses all of   *)
(* it.  One process runs one of these at a time: the daemon's              *)
(* Mutex<CleanEngine> serialises its cleaning workers.                     *)
(***************************************************************************)
EXTENDS Domain

VARIABLES
  pc,        \* control point of the process
  job,       \* job_id it works on, 0 for none
  attempt,   \* attempt_id it works on, 0 for none
  at,        \* op_id it works on, 0 for none
  outcome,   \* VerificationOutcome of that operation
  dryRun,    \* the dry_run flag of the request it is serving
  observed   \* history: the (attempt, op) keys a verifier has seen deleted

engineVars == <<pc, job, attempt, at, outcome, dryRun, observed>>

ExecLabels ==
  {"op", "committed", "mutating", "unlink", "verify", "resolve", "record"}

RecoveryLabels ==
  {"reconcile", "r_attempt", "r_intent", "r_resolve", "r_record", "r_job"}

PipelineLabels ==
  {"down", "seed", "lock", "idle", "admit", "claim", "plan", "completed",
   "errored", "finish_ok", "finish_err", "returned"}

EngineTypeOK ==
  /\ pc \in [Procs -> ExecLabels \cup RecoveryLabels \cup PipelineLabels]
  /\ job \in [Procs -> 0 .. MaxJob]
  /\ attempt \in [Procs -> 0 .. MaxAttempt]
  /\ at \in [Procs -> 0 .. MaxOp]
  /\ outcome \in [Procs -> Outcomes]
  /\ dryRun \in [Procs -> BOOLEAN]
  /\ observed \subseteq Attempts \X Ops

EngineInit ==
  /\ pc = [p \in Procs |-> "down"]
  /\ job = [p \in Procs |-> 0]
  /\ attempt = [p \in Procs |-> 0]
  /\ at = [p \in Procs |-> 0]
  /\ outcome = [p \in Procs |-> "UNAVAILABLE"]
  /\ dryRun = [p \in Procs |-> FALSE]
  /\ observed = {}

Goto(p, label) == pc' = [pc EXCEPT ![p] = label]

\* A verifier of process p reports v for operation o of attempt a.
Report(p, a, o, v) ==
  /\ outcome' = [outcome EXCEPT ![p] = v]
  /\ observed' = IF v = "GONE" THEN observed \cup {<<a, o>>} ELSE observed

=============================================================================
