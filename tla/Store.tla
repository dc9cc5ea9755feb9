------------------------------- MODULE Store -------------------------------
(***************************************************************************)
(* The SQLite store (src/store): the tables that survive a crash, and one  *)
(* operator per statement the engine issues.  Each statement commits on    *)
(* its own (autocommit, synchronous = FULL), so each is one atomic step,   *)
(* and each can fail (busy timeout, full disk, I/O error), which StoreFails *)
(* models: the tables keep their value and the caller sees an Err.         *)
(***************************************************************************)
EXTENDS Domain

CONSTANT MaxStoreErrors    \* bound on failing statements in a behaviour

ASSUME StoreErrorAssumption == MaxStoreErrors \in Nat

VARIABLES
  jobs,        \* jobs table: the state column, "NONE" when there is no row
  attempts,    \* attempts table: state and job_id
  intents,     \* operation_intents table, UNIQUE(attempt_id, op_id)
  operations,  \* operations table, PRIMARY KEY(job_id, op_id): status
  storeErrs    \* how many statements have failed so far

storeVars == <<jobs, attempts, intents, operations, storeErrs>>

JobStates ==
  {"NONE", "ADMITTED", "COMPLETED", "FAILED", "RECOVERED",
   "PARTIALLY_RECONCILED"}

\* "FAILED" stands for "FAILED" and for the pipeline's "FAILED: <error>".
AttemptStates ==
  {"NONE", "RUNNING", "SUCCESS", "FAILED", "RECONCILED", "UNRESOLVED"}

StoreTypeOK ==
  /\ jobs \in [Jobs -> JobStates]
  /\ attempts \in [Attempts -> [state : AttemptStates, job : 0 .. MaxJob]]
  /\ intents \in [Attempts \X Ops -> Intent \cup {NoRow}]
  /\ operations \in [Jobs \X Ops -> OpStatus \cup {"NONE"}]
  /\ storeErrs \in Nat

StoreInit ==
  /\ jobs = [j \in Jobs |-> "NONE"]
  /\ attempts = [a \in Attempts |-> [state |-> "NONE", job |-> 0]]
  /\ intents = [k \in Attempts \X Ops |-> NoRow]
  /\ operations = [k \in Jobs \X Ops |-> "NONE"]
  /\ storeErrs = 0

-----------------------------------------------------------------------------

StoreFails ==
  /\ storeErrs < MaxStoreErrors
  /\ storeErrs' = storeErrs + 1
  /\ UNCHANGED <<jobs, attempts, intents, operations>>

\* INSERT ... ON CONFLICT(job_id) DO UPDATE SET updated_at: a row that exists
\* keeps its state.
register_job(j) ==
  /\ jobs' = [jobs EXCEPT ![j] = IF @ = "NONE" THEN "ADMITTED" ELSE @]
  /\ UNCHANGED <<attempts, intents, operations, storeErrs>>

update_job_state(j, s) ==
  /\ jobs' = [jobs EXCEPT ![j] = IF @ = "NONE" THEN @ ELSE s]
  /\ UNCHANGED <<attempts, intents, operations, storeErrs>>

\* ON CONFLICT(attempt_id) DO UPDATE SET state = 'RUNNING': a row that exists
\* keeps its job_id.
create_attempt(a, j) ==
  /\ attempts' = [attempts EXCEPT
                    ![a] = [state |-> "RUNNING",
                            job |-> IF @.state = "NONE" THEN j ELSE @.job]]
  /\ UNCHANGED <<jobs, intents, operations, storeErrs>>

update_attempt_state(a, s) ==
  /\ attempts' = [attempts EXCEPT ![a].state = IF @ = "NONE" THEN @ ELSE s]
  /\ UNCHANGED <<jobs, intents, operations, storeErrs>>

\* Mutation: INSERT OR REPLACE.
commit_operation_intent_replacing(a, o, row) ==
  /\ intents' = [intents EXCEPT ![<<a, o>>] = row]
  /\ UNCHANGED <<jobs, attempts, operations, storeErrs>>

\* A plain INSERT: a second row for (attempt_id, op_id) is refused.
commit_operation_intent(a, o, row) ==
  /\ intents[a, o] = NoRow
  /\ intents' = [intents EXCEPT ![<<a, o>>] = row]
  /\ UNCHANGED <<jobs, attempts, operations, storeErrs>>

\* An unconditional UPDATE: whatever the state was, it becomes s.
update_intent_state(a, o, s) ==
  /\ intents' = [intents EXCEPT
                   ![<<a, o>>] = IF @ = NoRow THEN @ ELSE [@ EXCEPT !.state = s]]
  /\ UNCHANGED <<jobs, attempts, operations, storeErrs>>

\* INSERT OR REPLACE keyed by job and operation, not by attempt.
record_operation_result(j, o, status) ==
  /\ operations' = [operations EXCEPT ![<<j, o>>] = status]
  /\ UNCHANGED <<jobs, attempts, intents, storeErrs>>

get_uncompleted_attempts == {a \in Attempts : attempts[a].state = "RUNNING"}

\* Mutation: only the intents that have not reached MUTATING are listed.
get_committed_intents(a) ==
  {o \in Ops : intents[a, o] # NoRow /\ intents[a, o].state = "COMMITTED"}

get_operation_intents_for_attempt(a) ==
  {o \in Ops : intents[a, o] # NoRow}

\* SELECT MAX(id): the largest id with a row, 0 for an empty table.
get_max_job_id(n) ==
  /\ n = 0 \/ (n \in Jobs /\ jobs[n] # "NONE")
  /\ \A j \in Jobs : jobs[j] # "NONE" => j <= n

\* Mutation: the closed attempts are left out.
get_max_running_attempt_id(n) ==
  /\ n = 0 \/ (n \in Attempts /\ attempts[n].state = "RUNNING")
  /\ \A a \in Attempts : attempts[a].state = "RUNNING" => a <= n

get_max_attempt_id(n) ==
  /\ n = 0 \/ (n \in Attempts /\ attempts[n].state # "NONE")
  /\ \A a \in Attempts : attempts[a].state # "NONE" => a <= n

=============================================================================
