------------------------------ MODULE Recovery ------------------------------
(***************************************************************************)
(* RecoveryEngine::reconcile_startup_crashes (src/recovery): run by every  *)
(* process that builds a CleanEngine, before it does anything else.  It    *)
(* re-verifies every intent of every attempt that is still RUNNING and     *)
(* closes the attempt and its job.  The result is ignored by the caller,   *)
(* so each `?` that fails simply ends the reconciliation.                  *)
(***************************************************************************)
EXTENDS Store, Disk, Engine

VARIABLES
  todo,          \* uncompleted attempts still to reconcile, as first read
  listed,        \* intents of the current attempt still to verify, as read
  allSucceeded,  \* all_succeeded
  hasUnknown     \* has_unknown

recoveryVars == <<todo, listed, allSucceeded, hasUnknown>>

RecoveryTypeOK ==
  /\ todo \in [Procs -> SUBSET Attempts]
  /\ listed \in [Procs -> SUBSET Ops]
  /\ allSucceeded \in [Procs -> BOOLEAN]
  /\ hasUnknown \in [Procs -> BOOLEAN]

RecoveryInit ==
  /\ todo = [p \in Procs |-> {}]
  /\ listed = [p \in Procs |-> {}]
  /\ allSucceeded = [p \in Procs |-> TRUE]
  /\ hasUnknown = [p \in Procs |-> FALSE]

\* The three ways an attempt is closed, with the state its job gets.
AttemptVerdict(all, unknown) ==
  CASE all -> "RECONCILED"
    [] ~all /\ unknown -> "UNRESOLVED"
    [] OTHER -> "FAILED"

\* Mutation: an unknown outcome does not stand in the way.
JobVerdictLax(all, unknown) == IF all \/ unknown THEN "RECOVERED" ELSE "FAILED"

JobVerdict(all, unknown) ==
  CASE all -> "RECOVERED"
    [] ~all /\ unknown -> "PARTIALLY_RECONCILED"
    [] OTHER -> "FAILED"

\* Mutation: what could not be looked at counts as deleted.
RecoveredStateLax(v) ==
  IF v \in {"GONE", "UNAVAILABLE"} THEN "VERIFIED_SUCCESS" ELSE "VERIFIED_FAILED"

RecoveredState(v) ==
  CASE v = "GONE" -> "VERIFIED_SUCCESS"
    [] v = "UNAVAILABLE" -> "RESOLVED_UNKNOWN"
    [] OTHER -> "VERIFIED_FAILED"

RecoveredStatus(v) ==
  CASE v = "GONE" -> "SUCCESS"
    [] v = "UNAVAILABLE" -> "SKIPPED"
    [] OTHER -> "FAILED"

-----------------------------------------------------------------------------

ReadUncompleted(p) ==
  /\ pc[p] = "reconcile"
  /\ \/ /\ todo' = [todo EXCEPT ![p] = get_uncompleted_attempts]
        /\ Goto(p, "r_attempt")
        /\ UNCHANGED storeVars
     \/ /\ StoreFails
        /\ Goto(p, "seed")
        /\ UNCHANGED todo
  /\ UNCHANGED <<diskVars, listed, allSucceeded, hasUnknown>>
  /\ UNCHANGED <<job, attempt, at, outcome, dryRun, observed>>

\* The body of the loop over attempts, up to its list of intents.
BeginAttempt(p) ==
  /\ pc[p] = "r_attempt"
  /\ \E a \in todo[p] :
       \/ /\ todo' = [todo EXCEPT ![p] = @ \ {a}]
          /\ attempt' = [attempt EXCEPT ![p] = a]
          /\ job' = [job EXCEPT ![p] = attempts[a].job]
          /\ listed' = [listed EXCEPT ![p] = get_operation_intents_for_attempt(a)]
          /\ allSucceeded' = [allSucceeded EXCEPT ![p] = TRUE]
          /\ hasUnknown' = [hasUnknown EXCEPT ![p] = FALSE]
          /\ Goto(p, "r_intent")
          /\ UNCHANGED storeVars
       \/ /\ StoreFails
          /\ Goto(p, "seed")
          /\ UNCHANGED <<recoveryVars, attempt, job>>
  /\ UNCHANGED <<diskVars, at, outcome, dryRun, observed>>

RecoveryDone(p) ==
  /\ pc[p] = "r_attempt"
  /\ todo[p] = {}
  /\ Goto(p, "seed")
  /\ UNCHANGED <<storeVars, diskVars, recoveryVars>>
  /\ UNCHANGED <<job, attempt, at, outcome, dryRun, observed>>

\* The intent's target is not in the catalog snapshot: no operation row.
TargetMissing(p) ==
  /\ pc[p] = "r_intent"
  /\ \E o \in listed[p] :
       /\ update_intent_state(attempt[p], o, "RESOLVED_UNKNOWN") \/ StoreFails
       /\ listed' = [listed EXCEPT ![p] = @ \ {o}]
  /\ allSucceeded' = [allSucceeded EXCEPT ![p] = FALSE]
  /\ hasUnknown' = [hasUnknown EXCEPT ![p] = TRUE]
  /\ UNCHANGED <<diskVars, engineVars, todo>>

\* Mutation: all_succeeded is assigned, not accumulated.
VerifyIntentLast(p) ==
  /\ pc[p] = "r_intent"
  /\ \E o \in listed[p] :
       LET row == intents[attempt[p], o]
       IN  \E v \in Observations(disk[row.path], row.ident) :
             /\ Report(p, attempt[p], o, v)
             /\ at' = [at EXCEPT ![p] = o]
             /\ allSucceeded' = [allSucceeded EXCEPT ![p] = v = "GONE"]
             /\ hasUnknown' = [hasUnknown EXCEPT ![p] = @ \/ v = "UNAVAILABLE"]
  /\ Goto(p, "r_resolve")
  /\ UNCHANGED <<storeVars, diskVars, todo, listed>>
  /\ UNCHANGED <<job, attempt, dryRun>>

\* verify_operation_postcondition; a missing parent directory means gone.
VerifyIntent(p) ==
  /\ pc[p] = "r_intent"
  /\ \E o \in listed[p] :
       LET row == intents[attempt[p], o]
       IN  \E v \in Observations(disk[row.path], row.ident) :
             /\ Report(p, attempt[p], o, v)
             /\ at' = [at EXCEPT ![p] = o]
             /\ allSucceeded' = [allSucceeded EXCEPT ![p] = @ /\ v = "GONE"]
             /\ hasUnknown' = [hasUnknown EXCEPT ![p] = @ \/ v = "UNAVAILABLE"]
  /\ Goto(p, "r_resolve")
  /\ UNCHANGED <<storeVars, diskVars, todo, listed>>
  /\ UNCHANGED <<job, attempt, dryRun>>

\* let _ = update_intent_state(..): an error is ignored.
ResolveRecovered(p) ==
  /\ pc[p] = "r_resolve"
  /\ \/ update_intent_state(attempt[p], at[p], RecoveredState(outcome[p]))
     \/ StoreFails
  /\ Goto(p, "r_record")
  /\ UNCHANGED <<diskVars, recoveryVars>>
  /\ UNCHANGED <<job, attempt, at, outcome, dryRun, observed>>

\* Mutation: the verified intent stays on the list.
RecordRecoveredAgain(p) ==
  /\ pc[p] = "r_record"
  /\ \/ record_operation_result(job[p], at[p], RecoveredStatus(outcome[p]))
     \/ StoreFails
  /\ Goto(p, "r_intent")
  /\ UNCHANGED <<diskVars, recoveryVars>>
  /\ UNCHANGED <<job, attempt, at, outcome, dryRun, observed>>

\* let _ = record_operation_result(..): an error is ignored.
RecordRecovered(p) ==
  /\ pc[p] = "r_record"
  /\ \/ record_operation_result(job[p], at[p], RecoveredStatus(outcome[p]))
     \/ StoreFails
  /\ listed' = [listed EXCEPT ![p] = @ \ {at[p]}]
  /\ Goto(p, "r_intent")
  /\ UNCHANGED <<diskVars, todo, allSucceeded, hasUnknown>>
  /\ UNCHANGED <<job, attempt, at, outcome, dryRun, observed>>

CloseAttempt(p) ==
  /\ pc[p] = "r_intent"
  /\ listed[p] = {}
  /\ \/ /\ update_attempt_state(attempt[p],
             AttemptVerdict(allSucceeded[p], hasUnknown[p]))
        /\ Goto(p, "r_job")
     \/ /\ StoreFails
        /\ Goto(p, "seed")
  /\ UNCHANGED <<diskVars, recoveryVars>>
  /\ UNCHANGED <<job, attempt, at, outcome, dryRun, observed>>

CloseJob(p) ==
  /\ pc[p] = "r_job"
  /\ \/ /\ update_job_state(job[p], JobVerdict(allSucceeded[p], hasUnknown[p]))
        /\ Goto(p, "r_attempt")
     \/ /\ StoreFails
        /\ Goto(p, "seed")
  /\ UNCHANGED <<diskVars, recoveryVars>>
  /\ UNCHANGED <<job, attempt, at, outcome, dryRun, observed>>

RecoveryStep(p) ==
  \/ ReadUncompleted(p)
  \/ BeginAttempt(p)
  \/ RecoveryDone(p)
  \/ TargetMissing(p)
  \/ VerifyIntent(p)
  \/ ResolveRecovered(p)
  \/ RecordRecovered(p)
  \/ CloseAttempt(p)
  \/ CloseJob(p)

=============================================================================
