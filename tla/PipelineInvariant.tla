------------------------- MODULE PipelineInvariant --------------------------
(***************************************************************************)
(* The inductive invariant of CleanPipeline, and what a step must guarantee *)
(* to keep it.                                                             *)
(*                                                                         *)
(* The argument.  A process works on a row of operation_intents that       *)
(* others may update too (a second daemon reconciles before it finds the   *)
(* PID lock taken), so nothing can be concluded from what the process did  *)
(* before: the invariant IInv records, per label, what the row says now.   *)
(* It is stable because no statement replaces a row or sets it back to     *)
(* COMMITTED, which is what a step of DeletionLedger guarantees.  Each     *)
(* action is shown to satisfy StepOK: it is a step (or a stutter) of the   *)
(* ledger, keeps the attempts and results, leaves the other processes'     *)
(* locals alone, and re-establishes the invariant of its own process.      *)
(* StepInductive then gives IInv', and the refinement comes along.         *)
(***************************************************************************)
EXTENDS CleanPipeline, TLAPS

-----------------------------------------------------------------------------
(***************************************************************************)
(* The inductive invariant.                                                *)
(***************************************************************************)

\* What the ledger (intents, removals, observations) promises at any moment.
LedgerInv ==
  /\ intents \in [Attempts \X Ops -> Intent \cup {NoRow}]
  /\ removed \subseteq Removal
  /\ observed \subseteq Attempts \X Ops
  /\ IntentBeforeMutation
  /\ \A k \in Attempts \X Ops :
       intents[k].state = "VERIFIED_SUCCESS" => k \in observed
  /\ \A k \in observed : intents[k] # NoRow

\* From MarkMutating on, the intent of the operation has left COMMITTED.
Mutated == {"mutating", "unlink", "verify", "resolve", "record"}

Reconciling == {"r_intent", "r_resolve", "r_record", "r_job"}

\* An executor works on an operation of its plan and, once it has committed an
\* intent for it, that row is its own: nobody replaces a row.
ExecInv(p) ==
  /\ attempt[p] \in Attempts
  /\ job[p] \in Jobs
  /\ at[p] \in 1 .. Len(plan[p])
  /\ pc[p] # "op" =>
       /\ intents[<<attempt[p], at[p]>>] # NoRow
       /\ intents[<<attempt[p], at[p]>>].path = Op(p).path
       /\ intents[<<attempt[p], at[p]>>].job = job[p]
  /\ pc[p] \in Mutated => intents[<<attempt[p], at[p]>>].state # "COMMITTED"

\* Recovery works on an attempt that has a row, for the job of that row, and on
\* intents that are in the store.
ReconcileInv(p) ==
  /\ attempt[p] \in Attempts
  /\ attempts[attempt[p]].state # "NONE"
  /\ job[p] = attempts[attempt[p]].job
  /\ \A o \in listed[p] : intents[<<attempt[p], o>>] # NoRow
  /\ pc[p] \in {"r_resolve", "r_record"} =>
       at[p] \in Ops /\ intents[<<attempt[p], at[p]>>] # NoRow

ProcInv(p) ==
  /\ Len(plan[p]) <= MaxOp
  /\ pc[p] \in {"claim", "plan"} => job[p] \in Jobs
  /\ pc[p] = "plan" => attempt[p] \in Attempts
  /\ pc[p] \in ExecLabels => ExecInv(p)
  /\ \A a \in todo[p] : attempts[a].state # "NONE"
  /\ pc[p] \in Reconciling => ReconcileInv(p)
  /\ (pc[p] \in {"resolve", "record", "r_resolve", "r_record"}
        /\ outcome[p] = "GONE") => <<attempt[p], at[p]>> \in observed

\* Some verifier saw operation o deleted for job j.
Backed(j, o) ==
  \E a \in Attempts : /\ <<a, o>> \in observed
                      /\ \/ intents[<<a, o>>].job = j
                         \/ attempts[a].job = j

ResultsInv ==
  /\ \A a \in Attempts : attempts[a].state = "NONE" => attempts[a].job = 0
  /\ \A j \in Jobs, o \in Ops : operations[<<j, o>>] = "SUCCESS" => Backed(j, o)

IInv ==
  /\ TypeOK
  /\ LedgerInv
  /\ \A p \in Procs : ProcInv(p)
  /\ ResultsInv

-----------------------------------------------------------------------------
(***************************************************************************)
(* What one step of process p guarantees; IInv follows from it.            *)
(***************************************************************************)

LedgerStep == Ledger!LedgerNext \/ UNCHANGED <<intents, removed, observed>>

\* Rows and observations are never lost, and a row keeps what it names.
LedgerGrows ==
  /\ observed \subseteq observed'
  /\ \A k \in Attempts \X Ops : intents[k] # NoRow =>
       /\ intents'[k] # NoRow
       /\ intents'[k].path = intents[k].path
       /\ intents'[k].job = intents[k].job
       /\ intents[k].state # "COMMITTED" => intents'[k].state # "COMMITTED"

\* An attempt keeps its row, and the row its job.
AttemptsGrow ==
  \A a \in Attempts :
    /\ attempts[a].state # "NONE" =>
         attempts'[a].state # "NONE" /\ attempts'[a].job = attempts[a].job
    /\ attempts'[a].state = "NONE" => attempts'[a].job = 0

ResultsGrow ==
  \A j \in Jobs, o \in Ops :
    operations'[<<j, o>>] = "SUCCESS" =>
      operations[<<j, o>>] = "SUCCESS" \/ Backed(j, o)'

\* The other processes are where they were.
Others(p) ==
  \A q \in Procs : q # p =>
    /\ pc'[q] = pc[q]
    /\ job'[q] = job[q]
    /\ attempt'[q] = attempt[q]
    /\ at'[q] = at[q]
    /\ outcome'[q] = outcome[q]
    /\ plan'[q] = plan[q]
    /\ listed'[q] = listed[q]
    /\ todo'[q] = todo[q]

StepOK(p) ==
  /\ TypeOK'
  /\ LedgerStep
  /\ AttemptsGrow
  /\ ResultsGrow
  /\ Others(p)
  /\ ProcInv(p)'

-----------------------------------------------------------------------------
(***************************************************************************)
(* One process at a time.                                                  *)
(*                                                                         *)
(* A daemon reconciles before it asks for the PID lock, so a second one    *)
(* can close the attempt that the first is executing, and several promises *)
(* of the store are then off.  They hold whenever processes follow one     *)
(* another, crashed or not, which is what OneAtATime says.  SeqInv is the  *)
(* invariant that shows it: the process that is up agrees with the store   *)
(* about the attempt it works on.                                          *)
(***************************************************************************)

OneAtATime ==
  \A p, q \in Procs : pc[p] # "down" /\ pc[q] # "down" => p = q

\* From the claim of an attempt to its end.
Working ==
  ExecLabels \cup {"plan", "completed", "errored", "finish_ok", "finish_err"}

\* While recovery goes through the intents of an attempt.
Reverifying == {"r_intent", "r_resolve", "r_record"}

\* Once the counters are seeded.
Seeded == Working \cup {"lock", "idle", "admit", "claim", "returned"}

\* The attempt a process works on is RUNNING, and so are those recovery has still
\* to go through; every attempt with a row has an id that is used up.
AttemptInv(p) ==
  /\ pc[p] \in Working \cup Reverifying =>
       attempt[p] \in Attempts /\ attempts[attempt[p]].state = "RUNNING"
  /\ pc[p] \in {"r_attempt"} \cup Reconciling =>
       \A a \in todo[p] : attempts[a].state = "RUNNING"
  /\ pc[p] \in Reconciling => attempt[p] \notin todo[p]
  /\ pc[p] = "r_job" =>
       attempts[attempt[p]].state = AttemptVerdict(allSucceeded[p], hasUnknown[p])
  /\ pc[p] \in Seeded /\ storeErrs = 0 =>
       \A a \in Attempts : attempts[a].state # "NONE" => a < attemptCounter[p]

\* all_succeeded is true only while every intent that recovery is through with
\* has been seen deleted.
SucceededInv(p) ==
  /\ pc[p] \in Reverifying /\ allSucceeded[p] =>
       \A o \in Ops : intents[<<attempt[p], o>>] # NoRow =>
         o \in listed[p] \/ <<attempt[p], o>> \in observed
  /\ pc[p] \in {"r_resolve", "r_record"} /\ allSucceeded[p] => outcome[p] = "GONE"

\* What a process that works on an attempt has not settled yet.
SettledInv(p) ==
  /\ pc[p] = "committed" => intents[<<attempt[p], at[p]>>].state = "COMMITTED"
  /\ pc[p] \in Working =>
       \A r \in removed : r.attempt = attempt[p] =>
         \/ intents[<<r.attempt, r.op>>].state \in Settled
         \/ r.op = at[p] /\ pc[p] \in {"verify", "resolve"}
  /\ pc[p] \in Reverifying =>
       \A o \in Ops : intents[<<attempt[p], o>>] # NoRow =>
         o \in listed[p] \/ intents[<<attempt[p], o>>].state \in Settled
  /\ pc[p] = "r_record" => intents[<<attempt[p], at[p]>>].state \in Settled

\* The rows of the attempt are those of the operations it is through with.
PlanInv(p) ==
  /\ pc[p] = "plan" => \A k \in Ops : intents[<<attempt[p], k>>] = NoRow
  /\ pc[p] \in ExecLabels =>
       \A k \in Ops : intents[<<attempt[p], k>>] # NoRow =>
         /\ k <= at[p]
         /\ pc[p] = "op" => k < at[p]
         /\ intents[<<attempt[p], k>>].path = plan[p][k].path

\* successful_op_ids are operations seen deleted, and a directory's intent is
\* committed only with its dependencies among them; for any number of processes.
DoneInv(p) ==
  pc[p] \in ExecLabels =>
    /\ \A k \in done[p] : <<attempt[p], k>> \in observed
    /\ pc[p] # "op" => Dependencies(p, at[p]) \subseteq done[p]

DoneAll == \A p \in Procs : DoneInv(p)

SeqProcInv(p) ==
  /\ AttemptInv(p)
  /\ SucceededInv(p)
  /\ storeErrs = 0 => SettledInv(p) /\ PlanInv(p)

SeqStoreInv ==
  /\ \A a \in Attempts, o \in Ops :
       intents[<<a, o>>] # NoRow => attempts[a].state # "NONE"
  /\ ReconciledMeansDeleted
  /\ RemovalAccounted
  /\ RecoveredIsBacked
  /\ storeErrs = 0 => DirRowsLast

SeqInv == SeqStoreInv /\ \A p \in Procs : SeqProcInv(p)

=============================================================================
