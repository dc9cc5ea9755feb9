---------------------------- MODULE ActionProofs ----------------------------
(***************************************************************************)
(* Every action of CleanPipeline satisfies StepOK: the facts about the     *)
(* store that the steps share, then the actions of the executor, of the    *)
(* recovery engine, and of the scheduler and the life of a process.        *)
(***************************************************************************)
EXTENDS PipelineInvariant

-----------------------------------------------------------------------------
(***************************************************************************)
(* The ledger.                                                             *)
(***************************************************************************)
\* An intent whose state is set keeps its type and everything else.
LEMMA IntentUpdate ==
  ASSUME NEW r \in Intent, NEW s \in IntentStates
  PROVE  LET u == [r EXCEPT !.state = s]
         IN  /\ u \in Intent
             /\ u # NoRow
             /\ u.state = s
             /\ u.path = r.path
             /\ u.job = r.job
BY Zenon DEF Intent, NoRow, IntentStates

\* A row is an intent exactly when its state is not "NONE".
LEMMA RowIsIntent ==
  ASSUME NEW r \in Intent \cup {NoRow}
  PROVE  /\ r # NoRow <=> r \in Intent
         /\ r # NoRow <=> r.state # "NONE"
         /\ r = NoRow => r.state = "NONE"
BY DEF Intent, NoRow, IntentStates

\* The names of DeletionLedger's vocabulary mean what they mean here.
LEMMA LedgerNames ==
  /\ Ledger!Attempts = Attempts
  /\ Ledger!Ops = Ops
  /\ Ledger!Intent = Intent
  /\ Ledger!NoRow = NoRow
  /\ Ledger!IntentStates = IntentStates
BY Zenon DEF Ledger!Attempts, Attempts, Ledger!Ops, Ops, Ledger!Intent, Intent,
       Ledger!NoRow, NoRow, Ledger!IntentStates, IntentStates, Ledger!Jobs, Jobs

\* Committing an intent keeps the promises of the ledger.
LEMMA CommitKeeps ==
  ASSUME LedgerInv, NEW k \in Attempts \X Ops, NEW row \in Intent,
         Ledger!Commit(k, row)
  PROVE  LedgerInv' /\ LedgerGrows
<1>1. /\ intents[k] = NoRow
      /\ intents' = [intents EXCEPT ![k] = row]
      /\ row.state = "COMMITTED"
      /\ removed' = removed
      /\ observed' = observed
  BY LedgerNames, Zenon DEF Ledger!Commit
<1>2. \A i \in Attempts \X Ops : intents'[i] = IF i = k THEN row ELSE intents[i]
  BY <1>1, Zenon DEF LedgerInv
<1>3. row # NoRow /\ NoRow.state = "NONE"
  BY RowIsIntent, Zenon
<1>4. LedgerGrows
  BY <1>1, <1>2, <1>3, Zenon DEF LedgerGrows
<1>5. intents' \in [Attempts \X Ops -> Intent \cup {NoRow}]
  BY <1>1, Zenon DEF LedgerInv
<1>6. IntentBeforeMutation'
  <2> SUFFICES ASSUME NEW r \in removed
               PROVE  /\ intents'[<<r.attempt, r.op>>].state \notin {"NONE", "COMMITTED"}
                      /\ intents'[<<r.attempt, r.op>>].path = r.path
    BY <1>1, Zenon DEF IntentBeforeMutation
  <2>1. <<r.attempt, r.op>> \in Attempts \X Ops
    BY Zenon DEF LedgerInv, Removal
  <2>2. /\ intents[<<r.attempt, r.op>>].state \notin {"NONE", "COMMITTED"}
        /\ intents[<<r.attempt, r.op>>].path = r.path
    BY Zenon DEF LedgerInv, IntentBeforeMutation
  <2> QED
    BY <1>1, <1>2, <1>3, <2>1, <2>2, Zenon
<1> QED
  BY <1>1, <1>2, <1>3, <1>4, <1>5, <1>6, Zenon DEF LedgerInv

\* So does setting the state of a row that exists ...
LEMMA AdvanceKeeps ==
  ASSUME LedgerInv, NEW k \in Attempts \X Ops, NEW s \in IntentStates,
         Ledger!Advance(k, s)
  PROVE  LedgerInv' /\ LedgerGrows
<1> DEFINE u == [intents[k] EXCEPT !.state = s]
<1>1. /\ intents[k] # NoRow
      /\ intents' = [intents EXCEPT ![k] = u]
      /\ s # "COMMITTED"
      /\ s = "VERIFIED_SUCCESS" => k \in observed
      /\ removed' = removed
      /\ observed' = observed
  BY LedgerNames, Zenon DEF Ledger!Advance
<1>2. intents[k] \in Intent
  BY <1>1, Zenon DEF LedgerInv
<1>3. u \in Intent /\ u # NoRow /\ u.state = s
      /\ u.path = intents[k].path /\ u.job = intents[k].job
  BY <1>2, IntentUpdate, Zenon
<1> HIDE DEF u
<1>4. \A i \in Attempts \X Ops : intents'[i] = IF i = k THEN u ELSE intents[i]
  BY <1>1, Zenon DEF LedgerInv
<1>5. LedgerGrows
  BY <1>1, <1>3, <1>4, Zenon DEF LedgerGrows
<1>6. intents' \in [Attempts \X Ops -> Intent \cup {NoRow}]
  BY <1>1, <1>3, Zenon DEF LedgerInv
<1>7. IntentBeforeMutation'
  <2> SUFFICES ASSUME NEW r \in removed
               PROVE  /\ intents'[<<r.attempt, r.op>>].state \notin {"NONE", "COMMITTED"}
                      /\ intents'[<<r.attempt, r.op>>].path = r.path
    BY <1>1, Zenon DEF IntentBeforeMutation
  <2>1. <<r.attempt, r.op>> \in Attempts \X Ops
    BY Zenon DEF LedgerInv, Removal
  <2>2. /\ intents[<<r.attempt, r.op>>].state \notin {"NONE", "COMMITTED"}
        /\ intents[<<r.attempt, r.op>>].path = r.path
    BY Zenon DEF LedgerInv, IntentBeforeMutation
  <2> QED
    BY <1>1, <1>3, <1>4, <2>1, <2>2, Zenon DEF IntentStates
<1> QED
  BY <1>1, <1>3, <1>4, <1>5, <1>6, <1>7, Zenon DEF LedgerInv

\* ... removing an entry under such a row ...
LEMMA RemoveKeeps ==
  ASSUME LedgerInv, NEW r \in Removal, Ledger!Remove(r)
  PROVE  LedgerInv' /\ LedgerGrows
<1>1. /\ intents[<<r.attempt, r.op>>] # NoRow
      /\ intents[<<r.attempt, r.op>>].state # "COMMITTED"
      /\ intents[<<r.attempt, r.op>>].path = r.path
      /\ removed' = removed \cup {r}
      /\ intents' = intents
      /\ observed' = observed
  BY LedgerNames, Zenon DEF Ledger!Remove
<1>2. intents[<<r.attempt, r.op>>].state # "NONE"
  <2>1. <<r.attempt, r.op>> \in Attempts \X Ops
    BY Zenon DEF Removal
  <2>2. intents[<<r.attempt, r.op>>] \in Intent \cup {NoRow}
    BY <2>1, Zenon DEF LedgerInv
  <2> QED
    BY <1>1, <2>2, RowIsIntent, Zenon
<1> QED
  BY <1>1, <1>2, Zenon DEF LedgerInv, LedgerGrows, IntentBeforeMutation

\* ... and observing a deletion.
LEMMA SeeKeeps ==
  ASSUME LedgerInv, NEW k \in Attempts \X Ops, Ledger!See(k)
  PROVE  LedgerInv' /\ LedgerGrows
<1>1. /\ intents[k] # NoRow
      /\ observed' = observed \cup {k}
      /\ intents' = intents
      /\ removed' = removed
  BY LedgerNames, Zenon DEF Ledger!See
<1> QED
  BY <1>1, Zenon DEF LedgerInv, LedgerGrows, IntentBeforeMutation

\* DeletionLedger keeps LedgerInv.
LEMMA LedgerInductive ==
  ASSUME LedgerInv, LedgerStep
  PROVE  LedgerInv' /\ LedgerGrows
<1>1. CASE UNCHANGED <<intents, removed, observed>>
  BY <1>1, Zenon DEF LedgerInv, LedgerGrows, IntentBeforeMutation
<1>2. ASSUME NEW k \in Attempts \X Ops, NEW row \in Intent, Ledger!Commit(k, row)
      PROVE  LedgerInv' /\ LedgerGrows
  BY <1>2, CommitKeeps, Zenon
<1>3. ASSUME NEW k \in Attempts \X Ops, NEW s \in IntentStates, Ledger!Advance(k, s)
      PROVE  LedgerInv' /\ LedgerGrows
  BY <1>3, AdvanceKeeps, Zenon
<1>4. ASSUME NEW r \in Removal, Ledger!Remove(r)
      PROVE  LedgerInv' /\ LedgerGrows
  BY <1>4, RemoveKeeps, Zenon
<1>5. ASSUME NEW k \in Attempts \X Ops, Ledger!See(k)
      PROVE  LedgerInv' /\ LedgerGrows
  BY <1>5, SeeKeeps, Zenon
<1>6. \A a \in Attempts, o \in Ops, q \in Paths, i \in Idents, d \in BOOLEAN :
        [attempt |-> a, op |-> o, path |-> q, ident |-> i, dry |-> d] \in Removal
  BY Zenon DEF Removal
<1> QED
  BY <1>1, <1>2, <1>3, <1>4, <1>5, <1>6, LedgerNames, Zenon DEF LedgerStep, Ledger!LedgerNext

-----------------------------------------------------------------------------
(***************************************************************************)
(* A step of p keeps what holds of the other processes and of the results. *)
(***************************************************************************)

\* The invariant of a process survives the steps of the others.
LEMMA OthersKept ==
  ASSUME IInv, LedgerGrows, AttemptsGrow, NEW p \in Procs, Others(p),
         NEW q \in Procs, q # p
  PROVE  ProcInv(q)'
<1>1. /\ pc'[q] = pc[q] /\ job'[q] = job[q] /\ attempt'[q] = attempt[q]
      /\ at'[q] = at[q] /\ outcome'[q] = outcome[q] /\ plan'[q] = plan[q]
      /\ listed'[q] = listed[q] /\ todo'[q] = todo[q]
  BY Zenon DEF Others
<1>2. ProcInv(q)
  BY Zenon DEF IInv
<1>3. /\ todo[q] \subseteq Attempts
      /\ listed[q] \subseteq Ops
      /\ Len(plan[q]) \in Nat
  BY DEF IInv, TypeOK, RecoveryTypeOK, ExecTypeOK
<1>4. ASSUME pc[q] \in ExecLabels
      PROVE  ExecInv(q)'
  <2>1. ExecInv(q)
    BY <1>2, <1>4, Zenon DEF ProcInv
  <2>2. <<attempt[q], at[q]>> \in Attempts \X Ops
    BY <1>2, <1>3, <2>1, BoundAssumption DEF ProcInv, ExecInv, Ops
  <2>3. Op(q)' = Op(q)
    BY <1>1, Zenon DEF Op
  <2>4. pc[q] \in Mutated => pc[q] # "op"
    BY Zenon DEF Mutated
  <2> QED
    BY <1>1, <2>1, <2>2, <2>3, <2>4, Zenon DEF ExecInv, LedgerGrows
<1>5. ASSUME pc[q] \in Reconciling
      PROVE  ReconcileInv(q)'
  <2>1. ReconcileInv(q)
    BY <1>2, <1>5, Zenon DEF ProcInv
  <2>2. \A o \in Ops : <<attempt[q], o>> \in Attempts \X Ops
    BY <2>1, Zenon DEF ReconcileInv
  <2> QED
    BY <1>1, <1>3, <2>1, <2>2, Zenon DEF ReconcileInv, LedgerGrows, AttemptsGrow
<1>6. \A a \in todo'[q] : attempts'[a].state # "NONE"
  BY <1>1, <1>2, <1>3, Zenon DEF ProcInv, AttemptsGrow
<1> QED
  BY <1>1, <1>2, <1>4, <1>5, <1>6, Zenon DEF ProcInv, LedgerGrows

\* A recorded success stays backed.
LEMMA ResultsKept ==
  ASSUME IInv, LedgerGrows, AttemptsGrow, ResultsGrow
  PROVE  ResultsInv'
<1>1. ASSUME NEW j \in Jobs, NEW o \in Ops, Backed(j, o)
      PROVE  Backed(j, o)'
  <2>1. PICK a \in Attempts : /\ <<a, o>> \in observed
                              /\ \/ intents[<<a, o>>].job = j
                                 \/ attempts[a].job = j
    BY <1>1, Zenon DEF Backed
  <2>2. <<a, o>> \in observed' /\ intents[<<a, o>>] # NoRow
    BY <2>1, Zenon DEF LedgerGrows, IInv, LedgerInv
  <2>3. j # 0
    BY DEF Jobs
  <2>4. attempts[a].job = j => attempts'[a].job = j
    BY <2>3, Zenon DEF AttemptsGrow, IInv, ResultsInv
  <2>5. intents[<<a, o>>].job = j => intents'[<<a, o>>].job = j
    BY <2>2, Zenon DEF LedgerGrows
  <2> QED
    BY <2>1, <2>2, <2>4, <2>5, Zenon DEF Backed
<1>2. \A j \in Jobs, o \in Ops : operations'[<<j, o>>] = "SUCCESS" => Backed(j, o)'
  BY <1>1, Zenon DEF ResultsGrow, IInv, ResultsInv
<1> QED
  BY <1>2, Zenon DEF ResultsInv, AttemptsGrow

\* StepOK re-establishes the whole invariant.
LEMMA StepInductive ==
  ASSUME IInv, NEW p \in Procs, StepOK(p)
  PROVE  IInv'
<1>1. LedgerInv' /\ LedgerGrows
  BY LedgerInductive, Zenon DEF IInv, StepOK
<1>2. ResultsInv'
  BY <1>1, ResultsKept, Zenon DEF StepOK
<1>3. \A q \in Procs : ProcInv(q)'
  BY <1>1, OthersKept, Zenon DEF StepOK
<1> QED
  BY <1>1, <1>2, <1>3, Zenon DEF IInv, StepOK

-----------------------------------------------------------------------------
(***************************************************************************)
(* What the statements on the store and a verification do, whoever runs them. *)
(***************************************************************************)

USE DEF storeVars, diskVars, engineVars, execVars, recoveryVars, schedVars,
        procVars, execIdle

\* A step that leaves the ledger, the attempts and the results alone.
LEMMA QuietStore ==
  ASSUME IInv, UNCHANGED <<intents, removed, observed, attempts, operations>>
  PROVE  LedgerStep /\ AttemptsGrow /\ ResultsGrow
BY Zenon DEF LedgerStep, AttemptsGrow, ResultsGrow, IInv, ResultsInv

\* A statement that fails changes no table.
LEMMA StoreFailsKeeps ==
  ASSUME StoreTypeOK, UNCHANGED storeVars \/ StoreFails
  PROVE  /\ StoreTypeOK'
         /\ UNCHANGED <<jobs, attempts, intents, operations>>
BY DEF StoreTypeOK, StoreFails

\* An UPDATE of an intent's state is Advance.
LEMMA UpdateAdvances ==
  ASSUME IInv, NEW a \in Attempts, NEW o \in Ops, NEW s \in IntentStates,
         intents[<<a, o>>] # NoRow,
         s # "COMMITTED",
         s = "VERIFIED_SUCCESS" => <<a, o>> \in observed,
         update_intent_state(a, o, s),
         UNCHANGED <<removed, observed>>
  PROVE  /\ LedgerStep
         /\ StoreTypeOK'
         /\ AttemptsGrow
         /\ ResultsGrow
         /\ LedgerGrows
         /\ intents'[<<a, o>>].state = s
<1> DEFINE k == <<a, o>>
<1>1. k \in Attempts \X Ops /\ intents[k] \in Intent
  BY RowIsIntent, Zenon DEF IInv, LedgerInv
<1>2. /\ intents' = [intents EXCEPT ![k] = [intents[k] EXCEPT !.state = s]]
      /\ UNCHANGED <<jobs, attempts, operations, storeErrs>>
  BY Zenon DEF update_intent_state
<1>3. Ledger!Advance(k, s)
  BY <1>2, LedgerNames, Zenon DEF Ledger!Advance
<1>4. LedgerStep
  BY <1>1, <1>3, LedgerNames, Zenon DEF LedgerStep, Ledger!LedgerNext
<1>5. LedgerInv' /\ LedgerGrows
  BY <1>4, LedgerInductive, Zenon DEF IInv
<1>6. StoreTypeOK'
  BY <1>2, <1>5, Zenon DEF IInv, TypeOK, StoreTypeOK, LedgerInv
<1>7. intents'[k].state = s
  BY <1>1, <1>2, IntentUpdate, Zenon DEF IInv, LedgerInv
<1>8. AttemptsGrow /\ ResultsGrow
  BY <1>2, Zenon DEF AttemptsGrow, ResultsGrow, IInv, ResultsInv
<1> QED
  BY <1>4, <1>5, <1>6, <1>7, <1>8, Zenon

\* A verifier's report is See, or changes nothing in the ledger.
LEMMA ReportSees ==
  ASSUME IInv, NEW p \in Procs, NEW a \in Attempts, NEW o \in Ops,
         NEW v \in Outcomes, intents[<<a, o>>] # NoRow,
         Report(p, a, o, v), UNCHANGED <<intents, removed>>
  PROVE  /\ LedgerStep
         /\ outcome' \in [Procs -> Outcomes]
         /\ outcome'[p] = v
         /\ \A q \in Procs : q # p => outcome'[q] = outcome[q]
         /\ v = "GONE" => <<a, o>> \in observed'
<1>1. outcome' = [outcome EXCEPT ![p] = v] /\ outcome \in [Procs -> Outcomes]
  BY Zenon DEF Report, IInv, TypeOK, EngineTypeOK
<1>2. CASE v = "GONE"
  <2>1. Ledger!See(<<a, o>>)
    BY <1>2, LedgerNames, Zenon DEF Report, Ledger!See
  <2>2. LedgerStep
    BY <2>1, LedgerNames, Zenon DEF LedgerStep, Ledger!LedgerNext
  <2> QED
    BY <1>1, <1>2, <2>2, Zenon DEF Report
<1>3. CASE v # "GONE"
  BY <1>1, <1>3, Zenon DEF Report, LedgerStep
<1> QED
  BY <1>2, <1>3, Zenon

\* A result is recorded for operation o of job j; a SUCCESS must be backed.
LEMMA RecordKeeps ==
  ASSUME IInv, NEW j \in 0 .. MaxJob, NEW o \in Ops, NEW status \in OpStatus,
         \/ record_operation_result(j, o, status)
         \/ StoreFails,
         UNCHANGED <<removed, observed>>,
         status = "SUCCESS" => Backed(j, o)
  PROVE  /\ StoreTypeOK'
         /\ UNCHANGED <<jobs, attempts, intents>>
         /\ LedgerStep /\ AttemptsGrow /\ ResultsGrow
<1>1. CASE StoreFails
  <2>1. StoreTypeOK' /\ UNCHANGED <<jobs, attempts, intents, operations>>
    BY <1>1, StoreFailsKeeps, Zenon DEF IInv, TypeOK
  <2> QED
    BY <2>1, QuietStore, Zenon
<1>2. CASE record_operation_result(j, o, status)
  <2>1. /\ operations' = [operations EXCEPT ![<<j, o>>] = status]
        /\ UNCHANGED <<jobs, attempts, intents, storeErrs>>
        /\ operations \in [Jobs \X Ops -> OpStatus \cup {"NONE"}]
    BY <1>2, Zenon DEF record_operation_result, IInv, TypeOK, StoreTypeOK
  <2>2. StoreTypeOK'
    BY <2>1, Zenon DEF IInv, TypeOK, StoreTypeOK
  <2>3. ResultsGrow
    <3> SUFFICES ASSUME NEW i \in Jobs, NEW n \in Ops,
                        operations'[<<i, n>>] = "SUCCESS",
                        operations[<<i, n>>] # "SUCCESS"
                 PROVE  Backed(i, n)'
      BY Zenon DEF ResultsGrow
    <3>1. i = j /\ n = o /\ status = "SUCCESS"
      BY <2>1, Zenon
    <3> QED
      BY <2>1, <3>1, Zenon DEF Backed
  <2> QED
    BY <2>1, <2>2, <2>3, Zenon DEF LedgerStep, AttemptsGrow, IInv, ResultsInv
<1> QED
  BY <1>1, <1>2, Zenon

\* A statement on the jobs table touches nothing else.
LEMMA JobStatement ==
  ASSUME IInv, NEW j, NEW s \in JobStates,
         update_job_state(j, s) \/ register_job(j) \/ StoreFails,
         UNCHANGED <<removed, observed>>
  PROVE  /\ StoreTypeOK'
         /\ UNCHANGED <<attempts, intents, operations>>
         /\ LedgerStep /\ AttemptsGrow /\ ResultsGrow
<1>1. /\ UNCHANGED <<attempts, intents, operations>>
      /\ storeErrs' \in Nat
  BY DEF update_job_state, register_job, StoreFails, IInv, TypeOK, StoreTypeOK
<1>2. jobs' \in [Jobs -> JobStates]
  BY Zenon DEF update_job_state, register_job, StoreFails, IInv, TypeOK, StoreTypeOK,
         JobStates
<1>3. StoreTypeOK'
  BY <1>1, <1>2, Zenon DEF IInv, TypeOK, StoreTypeOK
<1> QED
  BY <1>1, <1>3, QuietStore, Zenon

\* The state of an attempt's row is set; the row keeps its job.
LEMMA AttemptStatement ==
  ASSUME IInv, NEW a, NEW s \in AttemptStates, s # "NONE",
         update_attempt_state(a, s) \/ StoreFails,
         UNCHANGED <<removed, observed>>
  PROVE  /\ StoreTypeOK'
         /\ UNCHANGED <<jobs, intents, operations>>
         /\ LedgerStep /\ AttemptsGrow /\ ResultsGrow
<1> DEFINE u == [attempts[a] EXCEPT
                   !.state = IF attempts[a].state = "NONE" THEN "NONE" ELSE s]
<1>1. attempts \in [Attempts -> [state : AttemptStates, job : 0 .. MaxJob]]
  BY Zenon DEF IInv, TypeOK, StoreTypeOK
<1>2. a \in Attempts =>
        /\ u \in [state : AttemptStates, job : 0 .. MaxJob]
        /\ u.job = attempts[a].job
        /\ u.state = "NONE" <=> attempts[a].state = "NONE"
  BY <1>1, Zenon DEF AttemptStates
<1>3. \/ attempts' = attempts
      \/ a \in Attempts /\ attempts' = [attempts EXCEPT ![a] = u]
  BY <1>1 DEF update_attempt_state, StoreFails
<1> HIDE DEF u
<1>4. /\ UNCHANGED <<jobs, intents, operations>>
      /\ storeErrs' \in Nat
  BY DEF update_attempt_state, StoreFails, IInv, TypeOK, StoreTypeOK
<1>5. StoreTypeOK'
  BY <1>1, <1>2, <1>3, <1>4 DEF IInv, TypeOK, StoreTypeOK
<1>6. AttemptsGrow
  BY <1>1, <1>2, <1>3, Zenon DEF AttemptsGrow, IInv, ResultsInv
<1>7. LedgerStep /\ ResultsGrow
  BY <1>4, Zenon DEF LedgerStep, ResultsGrow
<1> QED
  BY <1>4, <1>5, <1>6, <1>7, Zenon

\* create_attempt on a row that exists keeps the job of the row.
LEMMA CreateAttempt ==
  ASSUME IInv, NEW a \in Attempts, NEW j \in Jobs, create_attempt(a, j),
         UNCHANGED <<removed, observed>>
  PROVE  /\ StoreTypeOK'
         /\ UNCHANGED <<jobs, intents, operations>>
         /\ LedgerStep /\ AttemptsGrow /\ ResultsGrow
<1> DEFINE u == [state |-> "RUNNING",
                 job |-> IF attempts[a].state = "NONE" THEN j ELSE attempts[a].job]
<1>1. attempts \in [Attempts -> [state : AttemptStates, job : 0 .. MaxJob]]
  BY Zenon DEF IInv, TypeOK, StoreTypeOK
<1>2. /\ u \in [state : AttemptStates, job : 0 .. MaxJob]
      /\ attempts[a].state # "NONE" => u.job = attempts[a].job
      /\ u.state # "NONE"
  BY <1>1, BoundAssumption DEF AttemptStates, Jobs
<1>3. attempts' = [attempts EXCEPT ![a] = u]
  BY <1>1, Zenon DEF create_attempt
<1> HIDE DEF u
<1>4. UNCHANGED <<jobs, intents, operations, storeErrs>>
  BY Zenon DEF create_attempt
<1>5. StoreTypeOK'
  BY <1>1, <1>2, <1>3, <1>4, Zenon DEF IInv, TypeOK, StoreTypeOK
<1>6. AttemptsGrow
  BY <1>1, <1>2, <1>3, Zenon DEF AttemptsGrow, IInv, ResultsInv
<1>7. LedgerStep /\ ResultsGrow
  BY <1>4, Zenon DEF LedgerStep, ResultsGrow
<1> QED
  BY <1>4, <1>5, <1>6, <1>7, Zenon

\* A move to a label at which nothing is claimed of p's operation.
LEMMA Elsewhere ==
  ASSUME IInv, NEW p \in Procs, TypeOK', LedgerStep, AttemptsGrow, ResultsGrow,
         Others(p),
         pc'[p] \in {"down", "reconcile", "r_attempt", "seed", "lock", "idle",
                     "admit", "completed", "errored", "finish_ok",
                     "finish_err", "returned"},
         Len(plan'[p]) <= MaxOp, todo'[p] \subseteq todo[p]
  PROVE  StepOK(p)
<1>1. ProcInv(p) /\ todo[p] \subseteq Attempts
  BY Zenon DEF IInv, TypeOK, RecoveryTypeOK
<1>2. \A a \in todo'[p] : attempts'[a].state # "NONE"
  BY <1>1, Zenon DEF ProcInv, AttemptsGrow
<1>3. ProcInv(p)'
  BY <1>2, Zenon DEF ProcInv, ExecLabels, Reconciling
<1> QED
  BY <1>3, Zenon DEF StepOK


-----------------------------------------------------------------------------
(***************************************************************************)
(* The executor.                                                           *)
(***************************************************************************)
\* What an executor knows of the operation it works on.
LEMMA AtOp ==
  ASSUME IInv, NEW p \in Procs, pc[p] \in ExecLabels
  PROVE  /\ ExecInv(p)
         /\ <<attempt[p], at[p]>> \in Attempts \X Ops
         /\ at[p] \in 1 .. Len(plan[p])
         /\ Len(plan[p]) \in Nat
         /\ Len(plan[p]) <= MaxOp
         /\ Op(p) \in PlannedOp
         /\ Op(p).path \in Paths
         /\ Op(p).ident \in Idents
<1>1. ProcInv(p) /\ plan[p] \in Seq(PlannedOp) /\ Len(plan[p]) \in Nat
  BY DEF IInv, TypeOK, ExecTypeOK
<1>2. ExecInv(p) /\ at[p] \in 1 .. Len(plan[p]) /\ Len(plan[p]) <= MaxOp
  BY <1>1, Zenon DEF ProcInv, ExecInv
<1>3. <<attempt[p], at[p]>> \in Attempts \X Ops
  BY <1>1, <1>2, BoundAssumption DEF ExecInv, Ops
<1>4. Op(p) \in PlannedOp
  BY <1>1, <1>2 DEF Op
<1> QED
  BY <1>1, <1>2, <1>3, <1>4, Zenon DEF PlannedOp

\* NextOp stays within the plan, or ends it.
LEMMA NextOpKeeps ==
  ASSUME IInv, NEW p \in Procs, pc[p] \in ExecLabels, NextOp(p),
         UNCHANGED <<job, attempt, outcome, dryRun, observed>>,
         UNCHANGED <<plan, todo, listed>>
  PROVE  /\ EngineTypeOK'
         /\ pc'[p] \in {"op", "completed"}
         /\ pc'[p] = "op" => at'[p] \in 1 .. Len(plan[p])
         /\ Others(p)
<1>1. /\ at[p] \in 1 .. Len(plan[p])
      /\ Len(plan[p]) \in Nat
      /\ Len(plan[p]) <= MaxOp
  BY AtOp, Zenon
<1>2. CASE at[p] < Len(plan[p])
  <2>1. /\ at' = [at EXCEPT ![p] = at[p] + 1]
        /\ pc' = [pc EXCEPT ![p] = "op"]
    BY <1>2, Zenon DEF NextOp, Goto
  <2>2. at[p] + 1 \in 1 .. Len(plan[p]) /\ at[p] + 1 \in 0 .. MaxOp
    BY <1>1, <1>2, BoundAssumption
  <2>3. EngineTypeOK'
    BY <2>1, <2>2, Zenon DEF IInv, TypeOK, EngineTypeOK, ExecLabels
  <2> QED
    BY <2>1, <2>2, <2>3, Zenon DEF IInv, TypeOK, EngineTypeOK, Others
<1>3. CASE ~(at[p] < Len(plan[p]))
  <2>1. at' = at /\ pc' = [pc EXCEPT ![p] = "completed"]
    BY <1>3, Zenon DEF NextOp, Goto
  <2>2. EngineTypeOK'
    BY <2>1, Zenon DEF IInv, TypeOK, EngineTypeOK, PipelineLabels
  <2> QED
    BY <2>1, <2>2, Zenon DEF IInv, TypeOK, EngineTypeOK, Others
<1> QED
  BY <1>2, <1>3, Zenon

\* SkipOp, RejectOp and OpenParentFails: on to the next operation, nothing
\* recorded.
LEMMA PassOver ==
  ASSUME IInv, NEW p \in Procs, SkipOp(p) \/ RejectOp(p) \/ OpenParentFails(p),
         UNCHANGED <<recoveryVars, schedVars, procVars>>
  PROVE  StepOK(p)
<1>1. /\ pc[p] \in ExecLabels
      /\ NextOp(p)
      /\ UNCHANGED storeVars \/ StoreFails
      /\ UNCHANGED <<diskVars, execVars, recoveryVars, schedVars, procVars>>
      /\ UNCHANGED <<job, attempt, outcome, dryRun, observed>>
  BY Zenon DEF SkipOp, RejectOp, OpenParentFails, ExecLabels
<1>2. /\ EngineTypeOK' /\ Others(p)
      /\ pc'[p] \in {"op", "completed"}
      /\ pc'[p] = "op" => at'[p] \in 1 .. Len(plan[p])
  BY <1>1, NextOpKeeps, Zenon
<1>3. StoreTypeOK' /\ UNCHANGED <<jobs, attempts, intents, operations>>
  BY <1>1, StoreFailsKeeps, Zenon DEF IInv, TypeOK
<1>4. TypeOK'
  BY <1>1, <1>2, <1>3, Zenon DEF IInv, TypeOK, DiskTypeOK, ExecTypeOK, RecoveryTypeOK,
                          SchedTypeOK
<1>5. LedgerStep /\ AttemptsGrow /\ ResultsGrow
  BY <1>1, <1>3, QuietStore, Zenon
<1>6. ProcInv(p)'
  <2>1. ExecInv(p) /\ ProcInv(p)
    BY <1>1, AtOp, Zenon DEF IInv
  <2> QED
    BY <1>1, <1>2, <1>3, <2>1, Zenon
    DEF ProcInv, ExecInv, ExecLabels, Mutated, Reconciling
<1> QED
  BY <1>2, <1>4, <1>5, <1>6, Zenon DEF StepOK

\* The executor's own row after a step that kept p's operation.
LEMMA OwnRowKept ==
  ASSUME IInv, NEW p \in Procs, pc[p] \in ExecLabels, pc[p] # "op", LedgerGrows,
         UNCHANGED <<job, attempt, at, plan>>
  PROVE  /\ intents'[<<attempt[p], at[p]>>] # NoRow
         /\ intents'[<<attempt[p], at[p]>>].path = Op(p)'.path
         /\ intents'[<<attempt[p], at[p]>>].job = job'[p]
         /\ pc[p] \in Mutated =>
              intents'[<<attempt[p], at[p]>>].state # "COMMITTED"
<1>1. ExecInv(p) /\ <<attempt[p], at[p]>> \in Attempts \X Ops
  BY AtOp, Zenon
<1>2. Op(p)' = Op(p)
  BY Zenon DEF Op
<1> QED
  BY <1>1, <1>2, Zenon DEF ExecInv, LedgerGrows

\* CommitIntent: the row is new, and it is the one p will work on.
LEMMA CommitIntentStep ==
  ASSUME IInv, NEW p \in Procs, CommitIntent(p),
         UNCHANGED <<recoveryVars, schedVars, procVars>>
  PROVE  StepOK(p)
<1> DEFINE k == <<attempt[p], at[p]>>
           row == [state |-> "COMMITTED", job |-> job[p],
                   path |-> Op(p).path, ident |-> Op(p).ident]
<1>1. pc[p] \in ExecLabels
  BY Zenon DEF CommitIntent, ExecLabels
<1>2. /\ ExecInv(p) /\ ProcInv(p) /\ k \in Attempts \X Ops
      /\ Op(p).path \in Paths /\ Op(p).ident \in Idents
  BY <1>1, AtOp, Zenon DEF IInv
<1>3. /\ intents[k] = NoRow
      /\ intents' = [intents EXCEPT ![k] = row]
      /\ UNCHANGED <<jobs, attempts, operations, storeErrs>>
      /\ pc' = [pc EXCEPT ![p] = "committed"]
      /\ UNCHANGED <<diskVars, execVars>>
      /\ UNCHANGED <<job, attempt, at, outcome, dryRun, observed>>
  BY Zenon DEF CommitIntent, commit_operation_intent, Goto
<1>4. row \in Intent /\ row.state = "COMMITTED"
  BY <1>2, Zenon DEF Intent, IntentStates, ExecInv
<1>5. LedgerStep
  <2>1. Ledger!Commit(k, row)
    BY <1>3, <1>4, LedgerNames, Zenon DEF Ledger!Commit
  <2> QED
    BY <1>2, <1>4, <2>1, LedgerNames, Zenon DEF LedgerStep, Ledger!LedgerNext
<1>6. LedgerInv'
  BY <1>5, LedgerInductive, Zenon DEF IInv
<1>7. TypeOK'
  <2>1. StoreTypeOK'
    BY <1>3, <1>6, Zenon DEF IInv, TypeOK, StoreTypeOK, LedgerInv
  <2>2. EngineTypeOK'
    BY <1>3, Zenon DEF IInv, TypeOK, EngineTypeOK, ExecLabels
  <2> QED
    BY <1>3, <2>1, <2>2, Zenon DEF IInv, TypeOK, DiskTypeOK, ExecTypeOK,
                            RecoveryTypeOK, SchedTypeOK
<1>8. AttemptsGrow /\ ResultsGrow
  BY <1>3, Zenon DEF AttemptsGrow, ResultsGrow, IInv, ResultsInv
<1>9. pc'[p] = "committed" /\ Others(p)
  BY <1>3, Zenon DEF Others, IInv, TypeOK, EngineTypeOK
<1>10. ProcInv(p)'
  <2>1. intents'[k] = row /\ row # NoRow
    BY <1>2, <1>3, <1>4, RowIsIntent, Zenon DEF IInv, LedgerInv
  <2>2. row.path = Op(p)'.path /\ row.job = job'[p]
    BY <1>3, Zenon DEF Op
  <2> HIDE DEF row
  <2> QED
    BY <1>2, <1>3, <1>9, <2>1, <2>2, Zenon
    DEF ProcInv, ExecInv, ExecLabels, Mutated, Reconciling
<1> QED
  BY <1>5, <1>7, <1>8, <1>9, <1>10, Zenon DEF StepOK

\* MarkMutating: the row leaves COMMITTED, or the plan ends.
LEMMA MarkMutatingStep ==
  ASSUME IInv, NEW p \in Procs, MarkMutating(p),
         UNCHANGED <<recoveryVars, schedVars, procVars>>
  PROVE  StepOK(p)
<1> DEFINE k == <<attempt[p], at[p]>>
<1>1. pc[p] \in ExecLabels /\ pc[p] = "committed" /\ pc[p] # "op"
  BY Zenon DEF MarkMutating, ExecLabels
<1>2. ExecInv(p) /\ ProcInv(p) /\ k \in Attempts \X Ops /\ intents[k] # NoRow
  BY <1>1, AtOp, Zenon DEF IInv, ExecInv
<1>3. /\ UNCHANGED <<diskVars, execVars>>
      /\ UNCHANGED <<job, attempt, at, outcome, dryRun, observed>>
  BY Zenon DEF MarkMutating
<1>4. ASSUME NEW l \in {"mutating", "errored"}, Goto(p, l), StoreTypeOK'
      PROVE  TypeOK' /\ pc'[p] = l /\ Others(p)
  <2>1. EngineTypeOK'
    BY <1>3, <1>4, Zenon DEF IInv, TypeOK, EngineTypeOK, ExecLabels, PipelineLabels, Goto
  <2> QED
    BY <1>3, <1>4, <2>1, Zenon DEF IInv, TypeOK, EngineTypeOK, DiskTypeOK, ExecTypeOK,
                            RecoveryTypeOK, SchedTypeOK, Goto, Others
<1>5. CASE update_intent_state(attempt[p], at[p], "MUTATING") /\ Goto(p, "mutating")
  <2>1. /\ LedgerStep /\ StoreTypeOK' /\ AttemptsGrow /\ ResultsGrow /\ LedgerGrows
        /\ intents'[k].state = "MUTATING"
    <3>1. "MUTATING" \in IntentStates /\ attempt[p] \in Attempts /\ at[p] \in Ops
      BY <1>2, Zenon DEF IntentStates
    <3> QED
      BY <1>2, <1>3, <1>5, <3>1, UpdateAdvances, Zenon
  <2>2. TypeOK' /\ pc'[p] = "mutating" /\ Others(p)
    BY <1>4, <1>5, <2>1, Zenon
  <2>3. /\ intents'[k] # NoRow
        /\ intents'[k].path = Op(p)'.path
        /\ intents'[k].job = job'[p]
    BY <1>1, <1>3, <2>1, OwnRowKept, Zenon
  <2>4. ProcInv(p)'
    BY <1>2, <1>3, <1>5, <2>1, <2>2, <2>3, Zenon
    DEF ProcInv, ExecInv, ExecLabels, Mutated, Reconciling, update_intent_state
  <2> QED
    BY <2>1, <2>2, <2>4, Zenon DEF StepOK
<1>6. CASE StoreFails /\ Goto(p, "errored")
  <2>1. StoreTypeOK' /\ UNCHANGED <<jobs, attempts, intents, operations>>
    BY <1>6, StoreFailsKeeps, Zenon DEF IInv, TypeOK
  <2>2. TypeOK' /\ pc'[p] = "errored" /\ Others(p)
    BY <1>4, <1>6, <2>1, Zenon
  <2>3. LedgerStep /\ AttemptsGrow /\ ResultsGrow
    BY <1>3, <2>1, QuietStore, Zenon
  <2>4. ProcInv(p)'
    BY <1>2, <1>3, <2>1, <2>2, Zenon DEF ProcInv, ExecLabels, Reconciling
  <2> QED
    BY <2>2, <2>3, <2>4, Zenon DEF StepOK
<1> QED
  BY <1>5, <1>6, Zenon DEF MarkMutating

\* The steps around the unlink leave the store alone.
LEMMA MoveAlong ==
  ASSUME IInv, NEW p \in Procs, pc[p] \in Mutated,
         NEW l \in {"unlink", "verify"}, Goto(p, l),
         UNCHANGED <<storeVars, plan, job, attempt, at, dryRun, recoveryVars>>,
         UNCHANGED <<outcome, observed>>
  PROVE  /\ EngineTypeOK' /\ StoreTypeOK'
         /\ AttemptsGrow /\ ResultsGrow /\ Others(p)
         /\ ProcInv(p)'
<1>1. pc[p] \in ExecLabels /\ pc[p] # "op"
  BY Zenon DEF Mutated, ExecLabels
<1>2. ExecInv(p) /\ ProcInv(p)
  BY <1>1, AtOp, Zenon DEF IInv
<1>3. EngineTypeOK' /\ StoreTypeOK' /\ pc'[p] = l /\ Others(p)
  BY Zenon DEF IInv, TypeOK, EngineTypeOK, StoreTypeOK, ExecLabels, Goto, Others
<1>4. AttemptsGrow /\ ResultsGrow
  BY Zenon DEF AttemptsGrow, ResultsGrow, IInv, ResultsInv
<1>5. ProcInv(p)'
  BY <1>1, <1>2, <1>3, Zenon DEF ProcInv, ExecInv, Op, ExecLabels, Mutated, Reconciling
<1> QED
  BY <1>3, <1>4, <1>5, Zenon

\* StatChild: the handle is one the cache may hold.
LEMMA StatChildStep ==
  ASSUME IInv, NEW p \in Procs, StatChild(p),
         UNCHANGED <<recoveryVars, schedVars, procVars>>
  PROVE  StepOK(p)
<1> DEFINE h == IF CacheHit(p) THEN handle[p] ELSE OpenParent(Op(p).path)
<1>1. /\ pc[p] \in Mutated /\ pc[p] \in ExecLabels
      /\ handle' = [handle EXCEPT ![p] = h]
      /\ mutation' = mutation \/ mutation' = [mutation EXCEPT ![p] = "err"]
      /\ UNCHANGED <<storeVars, disk, appMoves>>
      /\ UNCHANGED <<plan, done, cancelled, removed>>
      /\ UNCHANGED <<job, attempt, at, outcome, dryRun, observed>>
  BY Zenon DEF StatChild, Mutated, ExecLabels
<1>2. PICK l \in {"unlink", "verify"} : Goto(p, l)
  BY Zenon DEF StatChild
<1>3. Op(p).path \in Paths
  BY <1>1, AtOp, Zenon
<1>4. h \in Handles
  <2>1. handle[p] \in Handles
    BY Zenon DEF IInv, TypeOK, DiskTypeOK
  <2>2. OpenParent(Op(p).path) \in Handles
    <3>1. Parent[Op(p).path] \in Dirs \cup {Root}
      BY <1>3, TreeAssumption, Zenon
    <3>2. Parent[Op(p).path] # Root => disk[Parent[Op(p).path]] \in Idents \cup {Absent}
      BY <3>1, TreeAssumption, Zenon DEF IInv, TypeOK, DiskTypeOK
    <3> QED
      BY <3>1, <3>2, Zenon DEF OpenParent, Handles
  <2> QED
    BY <2>1, <2>2, Zenon
<1> HIDE DEF h
<1>5. LedgerStep /\ LedgerGrows
  BY <1>1, LedgerInductive, Zenon DEF LedgerStep, IInv
<1>6. /\ EngineTypeOK' /\ StoreTypeOK' /\ AttemptsGrow /\ ResultsGrow
      /\ Others(p) /\ ProcInv(p)'
  BY <1>1, <1>2, MoveAlong, Zenon
<1>7. DiskTypeOK' /\ ExecTypeOK'
  BY <1>1, <1>4, Zenon DEF IInv, TypeOK, DiskTypeOK, ExecTypeOK
<1>8. TypeOK'
  BY <1>1, <1>6, <1>7, Zenon DEF IInv, TypeOK, RecoveryTypeOK, SchedTypeOK
<1> QED
  BY <1>5, <1>6, <1>8, Zenon DEF StepOK

\* Unlinkat: a removal, under the row p committed and marked.
LEMMA UnlinkatStep ==
  ASSUME IInv, NEW p \in Procs, Unlinkat(p),
         UNCHANGED <<recoveryVars, schedVars, procVars>>
  PROVE  StepOK(p)
<1> DEFINE r == [attempt |-> attempt[p], op |-> at[p], path |-> Op(p).path,
                 ident |-> disk[Op(p).path], dry |-> dryRun[p]]
<1>1. /\ pc[p] \in Mutated /\ pc[p] \in ExecLabels /\ pc[p] # "op"
      /\ Goto(p, "verify")
      /\ UNCHANGED <<storeVars, handle, appMoves, plan, done, cancelled>>
      /\ UNCHANGED <<job, attempt, at, outcome, dryRun, observed>>
  BY Zenon DEF Unlinkat, Mutated, ExecLabels
<1>2. /\ ExecInv(p) /\ <<attempt[p], at[p]>> \in Attempts \X Ops
      /\ Op(p).path \in Paths
  BY <1>1, AtOp, Zenon
<1>3. /\ mutation' \in [Procs -> {"ok", "err"}]
      /\ disk' \in [Paths -> Idents \cup {Absent}]
  BY Zenon DEF Unlinkat, IInv, TypeOK, ExecTypeOK, DiskTypeOK
<1>4. LedgerStep
  <2>1. CASE UNCHANGED <<disk, removed>>
    BY <1>1, <2>1, Zenon DEF LedgerStep
  <2>2. CASE Removable(handle[p], Op(p).path) /\ removed' = removed \cup {r}
    <3>1. disk[Op(p).path] \in Idents
      BY <1>2, <2>2, Zenon DEF Removable, Lookup, IInv, TypeOK, DiskTypeOK
    <3>2. dryRun[p] \in BOOLEAN
      BY Zenon DEF IInv, TypeOK, EngineTypeOK
    <3>3. /\ intents[<<attempt[p], at[p]>>] # NoRow
          /\ intents[<<attempt[p], at[p]>>].path = Op(p).path
          /\ intents[<<attempt[p], at[p]>>].state # "COMMITTED"
      BY <1>1, <1>2, Zenon DEF ExecInv
    <3>4. Ledger!Remove(r)
      BY <1>1, <2>2, <3>3, LedgerNames, Zenon DEF Ledger!Remove
    <3>5. \E a \in Attempts, o \in Ops, q \in Paths, i \in Idents, d \in BOOLEAN :
            Ledger!Remove([attempt |-> a, op |-> o, path |-> q, ident |-> i,
                           dry |-> d])
      BY <1>2, <3>1, <3>2, <3>4, Zenon
    <3> QED
      BY <3>5, LedgerNames, Zenon DEF LedgerStep, Ledger!LedgerNext
  <2> QED
    BY <2>1, <2>2, Zenon DEF Unlinkat
<1>5. LedgerInv' /\ LedgerGrows
  BY <1>4, LedgerInductive, Zenon DEF IInv
<1>6. /\ EngineTypeOK' /\ StoreTypeOK' /\ AttemptsGrow /\ ResultsGrow
      /\ Others(p) /\ ProcInv(p)'
  BY <1>1, MoveAlong, Zenon
<1>7. DiskTypeOK' /\ ExecTypeOK'
  BY <1>1, <1>3, <1>5, Zenon DEF IInv, TypeOK, DiskTypeOK, ExecTypeOK, LedgerInv
<1>8. TypeOK'
  BY <1>1, <1>6, <1>7, Zenon DEF IInv, TypeOK, RecoveryTypeOK, SchedTypeOK
<1> QED
  BY <1>4, <1>6, <1>8, Zenon DEF StepOK

\* VerifyOp: what p will resolve to is what was observed.
LEMMA VerifyOpStep ==
  ASSUME IInv, NEW p \in Procs, VerifyOp(p),
         UNCHANGED <<recoveryVars, schedVars, procVars>>
  PROVE  StepOK(p)
<1> DEFINE k == <<attempt[p], at[p]>>
<1>1. /\ pc[p] \in Mutated /\ pc[p] \in ExecLabels /\ pc[p] # "op"
      /\ pc' = [pc EXCEPT ![p] = "resolve"]
      /\ UNCHANGED <<storeVars, execVars, disk, appMoves>>
      /\ UNCHANGED <<job, attempt, at, dryRun>>
  BY Zenon DEF VerifyOp, Mutated, ExecLabels, Goto
<1>2. /\ ExecInv(p) /\ ProcInv(p) /\ attempt[p] \in Attempts /\ at[p] \in Ops
      /\ intents[k] # NoRow
  BY <1>1, AtOp, Zenon DEF IInv, ExecInv
<1>3. PICK v \in Outcomes : Report(p, attempt[p], at[p], v)
  BY Zenon DEF VerifyOp, Observations, Outcomes
<1>4. /\ LedgerStep
      /\ outcome' \in [Procs -> Outcomes]
      /\ outcome'[p] = v
      /\ \A q \in Procs : q # p => outcome'[q] = outcome[q]
      /\ v = "GONE" => k \in observed'
  BY <1>1, <1>2, <1>3, ReportSees
<1>5. LedgerInv' /\ LedgerGrows
  BY <1>4, LedgerInductive, Zenon DEF IInv
<1>6. pc'[p] = "resolve" /\ Others(p)
  BY <1>1, <1>4, Zenon DEF Others, IInv, TypeOK, EngineTypeOK
<1>7. TypeOK'
  <2>1. EngineTypeOK'
    BY <1>1, <1>4, <1>5, Zenon DEF IInv, TypeOK, EngineTypeOK, LedgerInv, ExecLabels
  <2>2. DiskTypeOK'
    <3>1. NoHandle \in Handles
      BY Zenon DEF NoHandle, Handles
    <3> QED
      BY <1>1, <3>1, Zenon DEF VerifyOp, IInv, TypeOK, DiskTypeOK
  <2> QED
    BY <1>1, <2>1, <2>2, Zenon DEF IInv, TypeOK, StoreTypeOK, ExecTypeOK,
                            RecoveryTypeOK, SchedTypeOK
<1>8. AttemptsGrow /\ ResultsGrow
  BY <1>1, Zenon DEF AttemptsGrow, ResultsGrow, IInv, ResultsInv
<1>9. ProcInv(p)'
  BY <1>1, <1>2, <1>4, <1>6, Zenon
  DEF ProcInv, ExecInv, Op, ExecLabels, Mutated, Reconciling
<1> QED
  BY <1>4, <1>6, <1>7, <1>8, <1>9, Zenon DEF StepOK

\* ResolveIntent: success only after a GONE, which is an observation.
LEMMA ResolveIntentStep ==
  ASSUME IInv, NEW p \in Procs, ResolveIntent(p),
         UNCHANGED <<recoveryVars, schedVars, procVars>>
  PROVE  StepOK(p)
<1> DEFINE k == <<attempt[p], at[p]>>
           s == IntentVerdict(outcome[p])
<1>1. /\ pc[p] = "resolve" /\ pc[p] \in Mutated /\ pc[p] \in ExecLabels
      /\ pc[p] # "op"
      /\ UNCHANGED <<diskVars, plan, mutation, cancelled, removed>>
      /\ UNCHANGED <<job, attempt, at, outcome, dryRun, observed>>
  BY Zenon DEF ResolveIntent, Mutated, ExecLabels
<1>2. /\ ExecInv(p) /\ ProcInv(p) /\ attempt[p] \in Attempts /\ at[p] \in Ops
      /\ intents[k] # NoRow
  BY <1>1, AtOp, Zenon DEF IInv, ExecInv
<1>3. /\ s \in IntentStates /\ s # "COMMITTED"
      /\ s = "VERIFIED_SUCCESS" => k \in observed
  BY <1>1, <1>2, Zenon DEF IntentVerdict, IntentStates, ProcInv
<1> HIDE DEF s
<1>4. ASSUME NEW l \in {"record", "errored"}, Goto(p, l), StoreTypeOK',
             done' \in [Procs -> SUBSET Ops]
      PROVE  TypeOK' /\ pc'[p] = l /\ Others(p)
  <2>1. EngineTypeOK'
    BY <1>1, <1>4, Zenon DEF IInv, TypeOK, EngineTypeOK, ExecLabels, PipelineLabels, Goto
  <2>2. ExecTypeOK'
    BY <1>1, <1>4, Zenon DEF IInv, TypeOK, ExecTypeOK
  <2> QED
    BY <1>1, <1>4, <2>1, <2>2, Zenon DEF IInv, TypeOK, EngineTypeOK, DiskTypeOK,
                                  RecoveryTypeOK, SchedTypeOK, Goto, Others
<1>5. done' \in [Procs -> SUBSET Ops]
  <2>1. done \in [Procs -> SUBSET Ops]
    BY Zenon DEF IInv, TypeOK, ExecTypeOK
  <2>2. done[p] \in SUBSET Ops /\ done[p] \cup {at[p]} \in SUBSET Ops
    BY <1>2, <2>1, Zenon
  <2>3. \/ done' = done
        \/ done' = [done EXCEPT ![p] = done[p]]
        \/ done' = [done EXCEPT ![p] = done[p] \cup {at[p]}]
    BY Zenon DEF ResolveIntent
  <2> QED
    BY <2>1, <2>2, <2>3, Zenon
<1>6. CASE update_intent_state(attempt[p], at[p], s) /\ Goto(p, "record")
  <2>1. /\ LedgerStep /\ StoreTypeOK' /\ AttemptsGrow /\ ResultsGrow /\ LedgerGrows
        /\ intents'[k].state = s
    BY <1>1, <1>2, <1>3, <1>6, UpdateAdvances, Zenon
  <2>2. TypeOK' /\ pc'[p] = "record" /\ Others(p)
    BY <1>4, <1>5, <1>6, <2>1, Zenon
  <2>3. /\ intents'[k] # NoRow
        /\ intents'[k].path = Op(p)'.path
        /\ intents'[k].job = job'[p]
    BY <1>1, <2>1, OwnRowKept, Zenon
  <2>4. ProcInv(p)'
    BY <1>1, <1>2, <1>3, <1>6, <2>1, <2>2, <2>3
    DEF ProcInv, ExecInv, ExecLabels, Mutated, Reconciling, update_intent_state
  <2> QED
    BY <2>1, <2>2, <2>4, Zenon DEF StepOK
<1>7. CASE StoreFails /\ Goto(p, "errored")
  <2>1. StoreTypeOK' /\ UNCHANGED <<jobs, attempts, intents, operations>>
    BY <1>7, StoreFailsKeeps, Zenon DEF IInv, TypeOK
  <2>2. TypeOK' /\ pc'[p] = "errored" /\ Others(p)
    BY <1>4, <1>5, <1>7, <2>1, Zenon
  <2>3. LedgerStep /\ AttemptsGrow /\ ResultsGrow
    BY <1>1, <2>1, QuietStore, Zenon
  <2>4. ProcInv(p)'
    BY <1>1, <1>2, <2>1, <2>2, Zenon DEF ProcInv, ExecLabels, Reconciling
  <2> QED
    BY <2>2, <2>3, <2>4, Zenon DEF StepOK
<1> QED
  BY <1>6, <1>7, Zenon DEF ResolveIntent, s

\* RecordResult: a SUCCESS is backed by the intent of the job.
LEMMA RecordResultStep ==
  ASSUME IInv, NEW p \in Procs, RecordResult(p),
         UNCHANGED <<recoveryVars, schedVars, procVars>>
  PROVE  StepOK(p)
<1> DEFINE status == OpVerdict(mutation[p], outcome[p])
<1>1. /\ pc[p] = "record" /\ pc[p] \in ExecLabels /\ pc[p] # "op"
      /\ NextOp(p)
      /\ UNCHANGED <<diskVars, execVars, recoveryVars, schedVars, procVars>>
      /\ UNCHANGED <<job, attempt, outcome, dryRun, observed>>
  BY Zenon DEF RecordResult, ExecLabels
<1>2. /\ ExecInv(p) /\ ProcInv(p) /\ attempt[p] \in Attempts /\ at[p] \in Ops
      /\ job[p] \in 0 .. MaxJob
  BY <1>1, AtOp, Zenon DEF IInv, TypeOK, EngineTypeOK
<1>3. status \in OpStatus /\ (status = "SUCCESS" => Backed(job[p], at[p]))
  BY <1>1, <1>2, Zenon DEF OpVerdict, OpStatus, ProcInv, ExecInv, Backed
<1>4. \/ record_operation_result(job[p], at[p], status)
      \/ StoreFails
  BY Zenon DEF RecordResult
<1> HIDE DEF status
<1>5. /\ StoreTypeOK'
      /\ UNCHANGED <<jobs, attempts, intents>>
      /\ LedgerStep /\ AttemptsGrow /\ ResultsGrow
  BY <1>1, <1>2, <1>3, <1>4, RecordKeeps, Zenon
<1>6. /\ EngineTypeOK' /\ Others(p)
      /\ pc'[p] \in {"op", "completed"}
      /\ pc'[p] = "op" => at'[p] \in 1 .. Len(plan[p])
  BY <1>1, NextOpKeeps, Zenon
<1>7. TypeOK'
  BY <1>1, <1>5, <1>6, Zenon DEF IInv, TypeOK, DiskTypeOK, ExecTypeOK, RecoveryTypeOK,
                          SchedTypeOK
<1>8. ProcInv(p)'
  BY <1>1, <1>2, <1>5, <1>6, Zenon
  DEF ProcInv, ExecInv, ExecLabels, Mutated, Reconciling
<1> QED
  BY <1>5, <1>6, <1>7, <1>8, Zenon DEF StepOK

-----------------------------------------------------------------------------
(***************************************************************************)
(* The recovery engine.                                                    *)
(***************************************************************************)
\* What recovery knows of the attempt it works on.
LEMMA AtIntent ==
  ASSUME IInv, NEW p \in Procs, pc[p] \in Reconciling
  PROVE  /\ ProcInv(p) /\ ReconcileInv(p)
         /\ attempt[p] \in Attempts
         /\ job[p] \in 0 .. MaxJob
         /\ listed[p] \subseteq Ops
BY Zenon DEF IInv, ProcInv, ReconcileInv, TypeOK, RecoveryTypeOK, EngineTypeOK

\* ReadUncompleted: every attempt on the list has a row.
LEMMA ReadUncompletedStep ==
  ASSUME IInv, NEW p \in Procs, ReadUncompleted(p),
         UNCHANGED <<execVars, schedVars, procVars>>
  PROVE  StepOK(p)
<1>1. /\ UNCHANGED storeVars \/ StoreFails
      /\ UNCHANGED <<diskVars, listed, allSucceeded, hasUnknown>>
      /\ UNCHANGED <<job, attempt, at, outcome, dryRun, observed>>
      /\ todo' = todo \/ todo' = [todo EXCEPT ![p] = get_uncompleted_attempts]
  BY Zenon DEF ReadUncompleted
<1>2. PICK l \in {"r_attempt", "seed"} : pc' = [pc EXCEPT ![p] = l]
  BY Zenon DEF ReadUncompleted, Goto
<1>3. StoreTypeOK' /\ UNCHANGED <<jobs, attempts, intents, operations>>
  BY <1>1, StoreFailsKeeps, Zenon DEF IInv, TypeOK
<1>4. LedgerStep /\ AttemptsGrow /\ ResultsGrow
  BY <1>1, <1>3, QuietStore, Zenon
<1>5. get_uncompleted_attempts \in SUBSET Attempts
  BY Zenon DEF get_uncompleted_attempts
<1>6. TypeOK'
  <2>1. EngineTypeOK'
    BY <1>1, <1>2, Zenon DEF IInv, TypeOK, EngineTypeOK, RecoveryLabels, PipelineLabels
  <2>2. RecoveryTypeOK'
    BY <1>1, <1>5, Zenon DEF IInv, TypeOK, RecoveryTypeOK
  <2> QED
    BY <1>1, <1>3, <2>1, <2>2, Zenon DEF IInv, TypeOK, DiskTypeOK, ExecTypeOK,
                                  SchedTypeOK
<1>7. pc'[p] = l /\ Others(p)
  BY <1>1, <1>2, Zenon DEF Others, IInv, TypeOK, EngineTypeOK, RecoveryTypeOK
<1>8. \A a \in todo'[p] : attempts'[a].state # "NONE"
  BY <1>1, <1>3, Zenon
  DEF get_uncompleted_attempts, IInv, ProcInv, TypeOK, RecoveryTypeOK
<1>9. ProcInv(p)'
  BY <1>1, <1>7, <1>8, Zenon DEF IInv, ProcInv, ExecLabels, Reconciling
<1> QED
  BY <1>4, <1>6, <1>7, <1>9, Zenon DEF StepOK

\* BeginAttempt: the listed intents are in the store.
LEMMA BeginAttemptStep ==
  ASSUME IInv, NEW p \in Procs, BeginAttempt(p),
         UNCHANGED <<execVars, schedVars, procVars>>
  PROVE  StepOK(p)
<1>1. /\ UNCHANGED storeVars \/ StoreFails
      /\ UNCHANGED <<diskVars, at, outcome, dryRun, observed>>
      /\ ProcInv(p)
  BY Zenon DEF BeginAttempt, IInv
<1>2. StoreTypeOK' /\ UNCHANGED <<jobs, attempts, intents, operations>>
  BY <1>1, StoreFailsKeeps, Zenon DEF IInv, TypeOK
<1>3. LedgerStep /\ AttemptsGrow /\ ResultsGrow
  BY <1>1, <1>2, QuietStore, Zenon
<1>4. PICK a \in todo[p] :
        \/ /\ todo' = [todo EXCEPT ![p] = @ \ {a}]
           /\ attempt' = [attempt EXCEPT ![p] = a]
           /\ job' = [job EXCEPT ![p] = attempts[a].job]
           /\ listed' = [listed EXCEPT ![p] = get_operation_intents_for_attempt(a)]
           /\ allSucceeded' = [allSucceeded EXCEPT ![p] = TRUE]
           /\ hasUnknown' = [hasUnknown EXCEPT ![p] = FALSE]
           /\ pc' = [pc EXCEPT ![p] = "r_intent"]
        \/ /\ pc' = [pc EXCEPT ![p] = "seed"]
           /\ UNCHANGED <<recoveryVars, attempt, job>>
  BY Zenon DEF BeginAttempt, Goto
<1>5. /\ a \in Attempts /\ attempts[a].state # "NONE"
      /\ attempts[a].job \in 0 .. MaxJob
      /\ todo[p] \ {a} \in SUBSET Attempts
      /\ get_operation_intents_for_attempt(a) \in SUBSET Ops
      /\ \A o \in get_operation_intents_for_attempt(a) : intents[<<a, o>>] # NoRow
  BY <1>1, <1>4, Zenon DEF IInv, TypeOK, RecoveryTypeOK, StoreTypeOK, ProcInv,
                    get_operation_intents_for_attempt
<1>6. TypeOK'
  <2>1. EngineTypeOK'
    BY <1>1, <1>4, <1>5 DEF IInv, TypeOK, EngineTypeOK, RecoveryLabels,
                            PipelineLabels, Attempts
  <2>2. RecoveryTypeOK'
    <3>1. todo' \in [Procs -> SUBSET Attempts] /\ listed' \in [Procs -> SUBSET Ops]
      BY <1>4, <1>5 DEF IInv, TypeOK, RecoveryTypeOK
    <3>2. /\ allSucceeded' \in [Procs -> BOOLEAN]
          /\ hasUnknown' \in [Procs -> BOOLEAN]
      BY <1>4, Zenon DEF IInv, TypeOK, RecoveryTypeOK
    <3> QED
      BY <3>1, <3>2, Zenon DEF RecoveryTypeOK
  <2> QED
    BY <1>1, <1>2, <2>1, <2>2, Zenon DEF IInv, TypeOK, DiskTypeOK, ExecTypeOK,
                                  SchedTypeOK
<1>7. Others(p)
  BY <1>1, <1>4 DEF Others, IInv, TypeOK, EngineTypeOK, RecoveryTypeOK
<1>8. ProcInv(p)'
  <2>1. CASE pc' = [pc EXCEPT ![p] = "seed"] /\ UNCHANGED <<recoveryVars, attempt, job>>
    <3>1. pc'[p] = "seed"
      BY <2>1, Zenon DEF IInv, TypeOK, EngineTypeOK
    <3> QED
      BY <1>1, <1>2, <2>1, <3>1, Zenon DEF ProcInv, ExecLabels, Reconciling
  <2>2. CASE ~(pc' = [pc EXCEPT ![p] = "seed"] /\ UNCHANGED <<recoveryVars, attempt, job>>)
    <3>1. /\ pc'[p] = "r_intent" /\ attempt'[p] = a /\ job'[p] = attempts[a].job
          /\ listed'[p] = get_operation_intents_for_attempt(a)
          /\ todo'[p] = todo[p] \ {a}
      BY <1>4, <2>2 DEF IInv, TypeOK, EngineTypeOK, RecoveryTypeOK
    <3> QED
      BY <1>1, <1>2, <1>5, <3>1, Zenon DEF ProcInv, ReconcileInv, ExecLabels, Reconciling
  <2> QED
    BY <2>1, <2>2, Zenon
<1> QED
  BY <1>3, <1>6, <1>7, <1>8, Zenon DEF StepOK

\* RecoveryDone: nothing but the label changes.
LEMMA RecoveryDoneStep ==
  ASSUME IInv, NEW p \in Procs, RecoveryDone(p),
         UNCHANGED <<execVars, schedVars, procVars>>
  PROVE  StepOK(p)
<1>1. /\ pc' = [pc EXCEPT ![p] = "seed"]
      /\ UNCHANGED <<storeVars, diskVars, recoveryVars>>
      /\ UNCHANGED <<job, attempt, at, outcome, dryRun, observed>>
  BY Zenon DEF RecoveryDone, Goto
<1>2. EngineTypeOK' /\ pc'[p] = "seed" /\ Others(p)
  BY <1>1, Zenon DEF IInv, TypeOK, EngineTypeOK, PipelineLabels, Others
<1>3. TypeOK'
  BY <1>1, <1>2, Zenon DEF IInv, TypeOK, StoreTypeOK, DiskTypeOK, ExecTypeOK,
                    RecoveryTypeOK, SchedTypeOK
<1>4. LedgerStep /\ AttemptsGrow /\ ResultsGrow
  BY <1>1, QuietStore, Zenon
<1>5. Len(plan'[p]) <= MaxOp /\ todo'[p] \subseteq todo[p]
  BY <1>1, Zenon DEF IInv, ProcInv
<1> QED
  BY <1>2, <1>3, <1>4, <1>5, Elsewhere, Zenon

\* Recovery sets the state of an intent that is in the store, or fails to.
LEMMA RecoveryUpdate ==
  ASSUME IInv, NEW a \in Attempts, NEW o \in Ops, NEW s \in IntentStates,
         intents[<<a, o>>] # NoRow,
         s # "COMMITTED",
         s = "VERIFIED_SUCCESS" => <<a, o>> \in observed,
         update_intent_state(a, o, s) \/ StoreFails,
         UNCHANGED <<removed, observed>>
  PROVE  /\ LedgerStep /\ LedgerGrows
         /\ StoreTypeOK'
         /\ attempts' = attempts
         /\ AttemptsGrow /\ ResultsGrow
<1>1. CASE update_intent_state(a, o, s)
  BY <1>1, UpdateAdvances, Zenon DEF update_intent_state
<1>2. CASE StoreFails
  <2>1. StoreTypeOK' /\ UNCHANGED <<jobs, attempts, intents, operations>>
    BY <1>2, StoreFailsKeeps, Zenon DEF IInv, TypeOK
  <2>2. LedgerStep /\ AttemptsGrow /\ ResultsGrow
    BY <2>1, QuietStore, Zenon
  <2> QED
    BY <2>1, <2>2, LedgerInductive, Zenon DEF IInv
<1> QED
  BY <1>1, <1>2, Zenon

\* The list of intents, and the intent at hand, after a step of the ledger.
LEMMA ListKept ==
  ASSUME IInv, NEW p \in Procs, pc[p] \in Reconciling, LedgerGrows,
         NEW l \in SUBSET listed[p]
  PROVE  /\ \A o \in l : intents'[<<attempt[p], o>>] # NoRow
         /\ pc[p] \in {"r_resolve", "r_record"} =>
              intents'[<<attempt[p], at[p]>>] # NoRow
<1>1. ReconcileInv(p) /\ attempt[p] \in Attempts /\ listed[p] \subseteq Ops
  BY AtIntent, Zenon
<1> QED
  BY <1>1, Zenon DEF ReconcileInv, LedgerGrows

\* TargetMissing: the intent is settled without an observation.
LEMMA TargetMissingStep ==
  ASSUME IInv, NEW p \in Procs, TargetMissing(p),
         UNCHANGED <<execVars, schedVars, procVars>>
  PROVE  StepOK(p)
<1>1. /\ pc[p] = "r_intent" /\ pc[p] \in Reconciling
      /\ allSucceeded' = [allSucceeded EXCEPT ![p] = FALSE]
      /\ hasUnknown' = [hasUnknown EXCEPT ![p] = TRUE]
      /\ UNCHANGED <<diskVars, engineVars, todo>>
  BY Zenon DEF TargetMissing, Reconciling
<1>2. /\ ProcInv(p) /\ ReconcileInv(p) /\ attempt[p] \in Attempts
      /\ listed[p] \subseteq Ops
  BY <1>1, AtIntent, Zenon
<1>3. PICK o \in listed[p] :
        /\ update_intent_state(attempt[p], o, "RESOLVED_UNKNOWN") \/ StoreFails
        /\ listed' = [listed EXCEPT ![p] = @ \ {o}]
  BY Zenon DEF TargetMissing
<1>4. /\ LedgerStep /\ LedgerGrows /\ StoreTypeOK' /\ attempts' = attempts
      /\ AttemptsGrow /\ ResultsGrow
  <2>1. /\ "RESOLVED_UNKNOWN" \in IntentStates /\ o \in Ops
        /\ intents[<<attempt[p], o>>] # NoRow
    BY <1>2, <1>3, Zenon DEF IntentStates, ReconcileInv
  <2> QED
    BY <1>1, <1>2, <1>3, <2>1, RecoveryUpdate, Zenon
<1>5. listed'[p] \in SUBSET listed[p] /\ Others(p)
  BY <1>1, <1>3, Zenon DEF IInv, TypeOK, RecoveryTypeOK, Others
<1>6. TypeOK'
  <2>1. listed' \in [Procs -> SUBSET Ops] /\ todo' \in [Procs -> SUBSET Attempts]
    BY <1>1, <1>2, <1>3, Zenon DEF IInv, TypeOK, RecoveryTypeOK
  <2>2. allSucceeded' \in [Procs -> BOOLEAN] /\ hasUnknown' \in [Procs -> BOOLEAN]
    BY <1>1, Zenon DEF IInv, TypeOK, RecoveryTypeOK
  <2>3. EngineTypeOK'
    BY <1>1, Zenon DEF IInv, TypeOK, EngineTypeOK
  <2> QED
    BY <1>1, <1>4, <2>1, <2>2, <2>3, Zenon DEF IInv, TypeOK, DiskTypeOK, ExecTypeOK,
                                        RecoveryTypeOK, SchedTypeOK
<1>7. ProcInv(p)'
  <2>1. \A i \in listed'[p] : intents'[<<attempt[p], i>>] # NoRow
    BY <1>1, <1>4, <1>5, ListKept, Zenon
  <2> QED
    BY <1>1, <1>2, <1>4, <2>1, Zenon DEF ProcInv, ReconcileInv, ExecLabels, Reconciling
<1> QED
  BY <1>4, <1>5, <1>6, <1>7, Zenon DEF StepOK

\* VerifyIntent: the observation is of an intent in the store.
LEMMA VerifyIntentStep ==
  ASSUME IInv, NEW p \in Procs, VerifyIntent(p),
         UNCHANGED <<execVars, schedVars, procVars>>
  PROVE  StepOK(p)
<1>1. /\ pc[p] = "r_intent" /\ pc[p] \in Reconciling
      /\ pc' = [pc EXCEPT ![p] = "r_resolve"]
      /\ UNCHANGED <<storeVars, diskVars, todo, listed>>
      /\ UNCHANGED <<job, attempt, dryRun>>
  BY Zenon DEF VerifyIntent, Reconciling, Goto
<1>2. /\ ProcInv(p) /\ ReconcileInv(p) /\ attempt[p] \in Attempts
      /\ listed[p] \subseteq Ops
  BY <1>1, AtIntent, Zenon
<1>3. PICK o \in listed[p], v \in Outcomes :
        /\ Report(p, attempt[p], o, v)
        /\ at' = [at EXCEPT ![p] = o]
        /\ allSucceeded' = [allSucceeded EXCEPT ![p] = @ /\ v = "GONE"]
        /\ hasUnknown' = [hasUnknown EXCEPT ![p] = @ \/ v = "UNAVAILABLE"]
  BY Zenon DEF VerifyIntent, Observations, Outcomes
<1>4. o \in Ops /\ intents[<<attempt[p], o>>] # NoRow
  BY <1>2, <1>3, Zenon DEF ReconcileInv
<1>5. /\ LedgerStep
      /\ outcome' \in [Procs -> Outcomes]
      /\ outcome'[p] = v
      /\ \A q \in Procs : q # p => outcome'[q] = outcome[q]
      /\ v = "GONE" => <<attempt[p], o>> \in observed'
  BY <1>1, <1>2, <1>3, <1>4, ReportSees, Zenon
<1>6. LedgerInv'
  BY <1>5, LedgerInductive, Zenon DEF IInv
<1>7. pc'[p] = "r_resolve" /\ at'[p] = o /\ Others(p)
  BY <1>1, <1>3, <1>5, Zenon DEF Others, IInv, TypeOK, EngineTypeOK
<1>8. TypeOK'
  <2>1. EngineTypeOK'
    <3>0. o \in 0 .. MaxOp
      BY <1>4, BoundAssumption DEF Ops
    <3>1. at' \in [Procs -> 0 .. MaxOp]
      BY <1>3, <3>0, Zenon DEF IInv, TypeOK, EngineTypeOK
    <3>2. observed' \subseteq Attempts \X Ops
      BY <1>6, Zenon DEF LedgerInv
    <3> QED
      BY <1>1, <1>5, <3>1, <3>2, Zenon DEF IInv, TypeOK, EngineTypeOK, RecoveryLabels
  <2>2. allSucceeded' \in [Procs -> BOOLEAN] /\ hasUnknown' \in [Procs -> BOOLEAN]
    BY <1>3, Zenon DEF IInv, TypeOK, RecoveryTypeOK
  <2> QED
    BY <1>1, <2>1, <2>2, Zenon DEF IInv, TypeOK, StoreTypeOK, DiskTypeOK, ExecTypeOK,
                            RecoveryTypeOK, SchedTypeOK
<1>9. AttemptsGrow /\ ResultsGrow
  BY <1>1, Zenon DEF AttemptsGrow, ResultsGrow, IInv, ResultsInv
<1>10. ProcInv(p)'
  BY <1>1, <1>2, <1>4, <1>5, <1>7, Zenon
  DEF ProcInv, ReconcileInv, ExecLabels, Reconciling
<1> QED
  BY <1>5, <1>7, <1>8, <1>9, <1>10, Zenon DEF StepOK

\* ResolveRecovered: success only after a GONE.
LEMMA ResolveRecoveredStep ==
  ASSUME IInv, NEW p \in Procs, ResolveRecovered(p),
         UNCHANGED <<execVars, schedVars, procVars>>
  PROVE  StepOK(p)
<1> DEFINE s == RecoveredState(outcome[p])
<1>1. /\ pc[p] = "r_resolve" /\ pc[p] \in Reconciling
      /\ update_intent_state(attempt[p], at[p], s) \/ StoreFails
      /\ pc' = [pc EXCEPT ![p] = "r_record"]
      /\ UNCHANGED <<diskVars, recoveryVars>>
      /\ UNCHANGED <<job, attempt, at, outcome, dryRun, observed>>
  BY Zenon DEF ResolveRecovered, Reconciling, Goto
<1>2. /\ ProcInv(p) /\ ReconcileInv(p) /\ attempt[p] \in Attempts
      /\ at[p] \in Ops /\ intents[<<attempt[p], at[p]>>] # NoRow
  BY <1>1, AtIntent, Zenon DEF ReconcileInv
<1>3. /\ s \in IntentStates /\ s # "COMMITTED"
      /\ s = "VERIFIED_SUCCESS" => <<attempt[p], at[p]>> \in observed
  BY <1>1, <1>2, Zenon DEF RecoveredState, IntentStates, ProcInv
<1> HIDE DEF s
<1>4. /\ LedgerStep /\ LedgerGrows /\ StoreTypeOK' /\ attempts' = attempts
      /\ AttemptsGrow /\ ResultsGrow
  BY <1>1, <1>2, <1>3, RecoveryUpdate, Zenon
<1>5. EngineTypeOK' /\ pc'[p] = "r_record" /\ Others(p)
  BY <1>1, Zenon DEF IInv, TypeOK, EngineTypeOK, RecoveryLabels, Others
<1>6. TypeOK'
  BY <1>1, <1>4, <1>5, Zenon DEF IInv, TypeOK, DiskTypeOK, ExecTypeOK, RecoveryTypeOK,
                          SchedTypeOK
<1>7. ProcInv(p)'
  <2>1. /\ \A i \in listed[p] : intents'[<<attempt[p], i>>] # NoRow
        /\ intents'[<<attempt[p], at[p]>>] # NoRow
    BY <1>1, <1>4, ListKept, Zenon
  <2> QED
    BY <1>1, <1>2, <1>4, <1>5, <2>1, Zenon DEF ProcInv, ReconcileInv, ExecLabels,
                                        Reconciling
<1> QED
  BY <1>4, <1>5, <1>6, <1>7, Zenon DEF StepOK

\* RecordRecovered: a SUCCESS is backed by the attempt of the job.
LEMMA RecordRecoveredStep ==
  ASSUME IInv, NEW p \in Procs, RecordRecovered(p),
         UNCHANGED <<execVars, schedVars, procVars>>
  PROVE  StepOK(p)
<1> DEFINE status == RecoveredStatus(outcome[p])
<1>1. /\ pc[p] = "r_record" /\ pc[p] \in Reconciling
      /\ record_operation_result(job[p], at[p], status) \/ StoreFails
      /\ listed' = [listed EXCEPT ![p] = @ \ {at[p]}]
      /\ pc' = [pc EXCEPT ![p] = "r_intent"]
      /\ UNCHANGED <<diskVars, todo, allSucceeded, hasUnknown>>
      /\ UNCHANGED <<job, attempt, at, outcome, dryRun, observed>>
  BY Zenon DEF RecordRecovered, Reconciling, Goto
<1>2. /\ ProcInv(p) /\ ReconcileInv(p) /\ attempt[p] \in Attempts
      /\ at[p] \in Ops /\ job[p] \in 0 .. MaxJob
      /\ job[p] = attempts[attempt[p]].job
  BY <1>1, AtIntent, Zenon DEF ReconcileInv
<1>3. status \in OpStatus /\ (status = "SUCCESS" => Backed(job[p], at[p]))
  BY <1>1, <1>2, Zenon DEF RecoveredStatus, OpStatus, ProcInv, Backed
<1> HIDE DEF status
<1>4. /\ StoreTypeOK'
      /\ UNCHANGED <<jobs, attempts, intents>>
      /\ LedgerStep /\ AttemptsGrow /\ ResultsGrow
  BY <1>1, <1>2, <1>3, RecordKeeps, Zenon
<1>5. EngineTypeOK' /\ pc'[p] = "r_intent" /\ Others(p)
  BY <1>1, Zenon DEF IInv, TypeOK, EngineTypeOK, RecoveryTypeOK, RecoveryLabels, Others
<1>6. listed' \in [Procs -> SUBSET Ops] /\ listed'[p] \subseteq listed[p]
  BY <1>1, Zenon DEF IInv, TypeOK, RecoveryTypeOK
<1>7. TypeOK'
  BY <1>1, <1>4, <1>5, <1>6, Zenon DEF IInv, TypeOK, DiskTypeOK, ExecTypeOK,
                                RecoveryTypeOK, SchedTypeOK
<1>8. ProcInv(p)'
  BY <1>1, <1>2, <1>4, <1>5, <1>6, Zenon DEF ProcInv, ReconcileInv, ExecLabels,
                                      Reconciling
<1> QED
  BY <1>4, <1>5, <1>7, <1>8, Zenon DEF StepOK

\* CloseAttempt: the row keeps its job.
LEMMA CloseAttemptStep ==
  ASSUME IInv, NEW p \in Procs, CloseAttempt(p),
         UNCHANGED <<execVars, schedVars, procVars>>
  PROVE  StepOK(p)
<1> DEFINE s == AttemptVerdict(allSucceeded[p], hasUnknown[p])
<1>1. /\ pc[p] = "r_intent" /\ pc[p] \in Reconciling
      /\ update_attempt_state(attempt[p], s) \/ StoreFails
      /\ UNCHANGED <<diskVars, recoveryVars>>
      /\ UNCHANGED <<job, attempt, at, outcome, dryRun, observed>>
  BY Zenon DEF CloseAttempt, Reconciling
<1>2. PICK l \in {"r_job", "seed"} : pc' = [pc EXCEPT ![p] = l]
  BY Zenon DEF CloseAttempt, Goto
<1>3. ProcInv(p) /\ ReconcileInv(p) /\ attempt[p] \in Attempts
  BY <1>1, AtIntent, Zenon
<1>4. s \in AttemptStates /\ s # "NONE"
  BY Zenon DEF AttemptVerdict, AttemptStates
<1> HIDE DEF s
<1>5. /\ StoreTypeOK'
      /\ UNCHANGED <<jobs, intents, operations>>
      /\ LedgerStep /\ AttemptsGrow /\ ResultsGrow
  BY <1>1, <1>3, <1>4, AttemptStatement, Zenon
<1>6. EngineTypeOK' /\ pc'[p] = l /\ Others(p)
  BY <1>1, <1>2, Zenon DEF IInv, TypeOK, EngineTypeOK, RecoveryLabels, PipelineLabels,
                    Others
<1>7. TypeOK'
  BY <1>1, <1>5, <1>6, Zenon DEF IInv, TypeOK, DiskTypeOK, ExecTypeOK, RecoveryTypeOK,
                          SchedTypeOK
<1>8. ProcInv(p)'
  <2>1. \A a \in todo'[p] : attempts'[a].state # "NONE"
    BY <1>1, <1>3, <1>5, Zenon DEF ProcInv, AttemptsGrow, IInv, TypeOK, RecoveryTypeOK
  <2> QED
    BY <1>1, <1>3, <1>5, <1>6, <2>1, Zenon DEF ProcInv, ReconcileInv, AttemptsGrow,
                                        ExecLabels, Reconciling
<1> QED
  BY <1>5, <1>6, <1>7, <1>8, Zenon DEF StepOK

\* CloseJob: only the job changes.
LEMMA CloseJobStep ==
  ASSUME IInv, NEW p \in Procs, CloseJob(p),
         UNCHANGED <<execVars, schedVars, procVars>>
  PROVE  StepOK(p)
<1> DEFINE s == JobVerdict(allSucceeded[p], hasUnknown[p])
<1>1. /\ update_job_state(job[p], s) \/ StoreFails
      /\ UNCHANGED <<diskVars, recoveryVars>>
      /\ UNCHANGED <<job, attempt, at, outcome, dryRun, observed>>
  BY Zenon DEF CloseJob
<1>2. PICK l \in {"r_attempt", "seed"} : pc' = [pc EXCEPT ![p] = l]
  BY Zenon DEF CloseJob, Goto
<1>3. s \in JobStates
  BY Zenon DEF JobVerdict, JobStates
<1> HIDE DEF s
<1>4. /\ StoreTypeOK'
      /\ UNCHANGED <<attempts, intents, operations>>
      /\ LedgerStep /\ AttemptsGrow /\ ResultsGrow
  BY <1>1, <1>3, JobStatement, Zenon
<1>5. EngineTypeOK' /\ pc'[p] = l /\ Others(p)
  BY <1>1, <1>2, Zenon DEF IInv, TypeOK, EngineTypeOK, RecoveryLabels, PipelineLabels,
                    Others
<1>6. TypeOK'
  BY <1>1, <1>4, <1>5, Zenon DEF IInv, TypeOK, DiskTypeOK, ExecTypeOK, RecoveryTypeOK,
                          SchedTypeOK
<1>7. Len(plan'[p]) <= MaxOp /\ todo'[p] \subseteq todo[p]
  BY <1>1, Zenon DEF IInv, ProcInv
<1> QED
  BY <1>4, <1>5, <1>6, <1>7, Elsewhere, Zenon

-----------------------------------------------------------------------------
(***************************************************************************)
(* The scheduler and the worker pool.                                      *)
(***************************************************************************)

\* Seed: only the counters change.
LEMMA SeedStep ==
  ASSUME IInv, NEW p \in Procs, Seed(p),
         UNCHANGED <<execIdle, recoveryVars, procVars>>
  PROVE  StepOK(p)
<1>1. /\ pc' = [pc EXCEPT ![p] = "lock"]
      /\ UNCHANGED storeVars \/ StoreFails
      /\ UNCHANGED <<queue, configGen>>
      /\ UNCHANGED <<job, attempt, at, outcome, dryRun, observed>>
  BY Zenon DEF Seed, Goto
<1>2. /\ jobCounter' \in [Procs -> Nat]
      /\ attemptCounter' \in [Procs -> Nat]
  BY BoundAssumption DEF Seed, IInv, TypeOK, SchedTypeOK
<1>3. StoreTypeOK' /\ UNCHANGED <<jobs, attempts, intents, operations>>
  BY <1>1, StoreFailsKeeps, Zenon DEF IInv, TypeOK
<1>4. LedgerStep /\ AttemptsGrow /\ ResultsGrow
  BY <1>1, <1>3, QuietStore, Zenon
<1>5. EngineTypeOK' /\ pc'[p] = "lock" /\ Others(p)
  BY <1>1, Zenon DEF IInv, TypeOK, EngineTypeOK, PipelineLabels, Others
<1>6. TypeOK'
  BY <1>1, <1>2, <1>3, <1>5, Zenon DEF IInv, TypeOK, DiskTypeOK, ExecTypeOK,
                                RecoveryTypeOK, SchedTypeOK
<1>7. Len(plan'[p]) <= MaxOp /\ todo'[p] \subseteq todo[p]
  BY Zenon DEF IInv, ProcInv
<1> QED
  BY <1>4, <1>5, <1>6, <1>7, Elsewhere, Zenon

\* Coalesce: the job of the slot is a job.
LEMMA CoalesceStep ==
  ASSUME IInv, NEW p \in Procs, Coalesce(p),
         UNCHANGED <<execIdle, recoveryVars, procVars>>
  PROVE  StepOK(p)
<1> DEFINE r == [queue[p] EXCEPT !.dry = queue[p].dry /\ dryRun[p]]
<1>1. /\ queue[p] # NoRequest
      /\ job' = [job EXCEPT ![p] = queue[p].job]
      /\ pc' = [pc EXCEPT ![p] = "claim"]
      /\ UNCHANGED <<storeVars, jobCounter, attemptCounter, configGen>>
      /\ UNCHANGED <<attempt, at, outcome, dryRun, observed>>
  BY Zenon DEF Coalesce, Goto
<1>2. queue[p] \in Request
  BY <1>1, Zenon DEF IInv, TypeOK, SchedTypeOK
<1>3. queue[p].job \in Jobs /\ queue[p].job \in 0 .. MaxJob
  BY <1>2, BoundAssumption DEF Request, Jobs
<1>4. SchedTypeOK'
  <2>1. r \in Request
    BY <1>2, Zenon DEF Request
  <2>2. queue' = [queue EXCEPT ![p] = r]
    BY Zenon DEF Coalesce
  <2> HIDE DEF r
  <2> QED
    BY <1>1, <2>1, <2>2, Zenon DEF IInv, TypeOK, SchedTypeOK
<1>5. EngineTypeOK' /\ pc'[p] = "claim" /\ job'[p] = queue[p].job /\ Others(p)
  BY <1>1, <1>3, Zenon DEF IInv, TypeOK, EngineTypeOK, PipelineLabels, Others
<1>6. TypeOK'
  BY <1>1, <1>4, <1>5, Zenon DEF IInv, TypeOK, StoreTypeOK, DiskTypeOK, ExecTypeOK,
                          RecoveryTypeOK
<1>7. LedgerStep /\ AttemptsGrow /\ ResultsGrow
  BY <1>1, QuietStore, Zenon
<1>8. ProcInv(p)'
  BY <1>1, <1>3, <1>5, Zenon DEF IInv, ProcInv, ExecLabels, Reconciling
<1> QED
  BY <1>5, <1>6, <1>7, <1>8, Zenon DEF StepOK

\* AdmitNew: so is the new one.
LEMMA AdmitNewStep ==
  ASSUME IInv, NEW p \in Procs, AdmitNew(p),
         UNCHANGED <<execIdle, recoveryVars, procVars>>
  PROVE  StepOK(p)
<1> DEFINE r == [job |-> jobCounter[p], dry |-> dryRun[p], cfg |-> configGen[p]]
<1>1. /\ jobCounter[p] \in Jobs
      /\ jobCounter' = [jobCounter EXCEPT ![p] = @ + 1]
      /\ UNCHANGED <<attemptCounter, configGen>>
      /\ UNCHANGED <<attempt, at, outcome, dryRun, observed>>
      /\ register_job(jobCounter[p]) \/ StoreFails
  BY Zenon DEF AdmitNew
<1>2. \/ /\ queue' = [queue EXCEPT ![p] = r]
         /\ job' = [job EXCEPT ![p] = jobCounter[p]]
         /\ pc' = [pc EXCEPT ![p] = "claim"]
      \/ /\ pc' = [pc EXCEPT ![p] = "returned"]
         /\ UNCHANGED <<queue, job>>
  BY Zenon DEF AdmitNew, Goto
<1>3. /\ StoreTypeOK' /\ UNCHANGED <<attempts, intents, operations>>
      /\ LedgerStep /\ AttemptsGrow /\ ResultsGrow
  <2>1. "ADMITTED" \in JobStates
    BY Zenon DEF JobStates
  <2> QED
    BY <1>1, <2>1, JobStatement, Zenon
<1>4. SchedTypeOK'
  <2>1. r \in Request
    BY <1>1, Zenon DEF Request, IInv, TypeOK, EngineTypeOK, SchedTypeOK
  <2> HIDE DEF r
  <2>2. jobCounter' \in [Procs -> Nat]
    BY <1>1 DEF IInv, TypeOK, SchedTypeOK
  <2> QED
    BY <1>1, <1>2, <2>1, <2>2 DEF IInv, TypeOK, SchedTypeOK
<1>5. EngineTypeOK'
  <2>1. jobCounter[p] \in 0 .. MaxJob
    BY <1>1, BoundAssumption DEF Jobs
  <2> QED
    BY <1>1, <1>2, <2>1, Zenon DEF IInv, TypeOK, EngineTypeOK, PipelineLabels
<1>6. TypeOK'
  BY <1>3, <1>4, <1>5, Zenon DEF IInv, TypeOK, DiskTypeOK, ExecTypeOK, RecoveryTypeOK
<1>7. Others(p)
  BY <1>1, <1>2, Zenon DEF IInv, TypeOK, EngineTypeOK, Others
<1>8. /\ pc'[p] \in {"claim", "returned"}
      /\ pc'[p] = "claim" => job'[p] \in Jobs
  BY <1>1, <1>2, Zenon DEF IInv, TypeOK, EngineTypeOK
<1>9. ProcInv(p)'
  <2>1. ProcInv(p) /\ UNCHANGED <<attempts, plan, todo>>
    BY <1>3, Zenon DEF IInv
  <2>2. pc'[p] \notin ExecLabels \cup Reconciling /\ pc'[p] # "plan"
    BY <1>8, Zenon DEF ExecLabels, Reconciling
  <2> QED
    BY <1>8, <2>1, <2>2, Zenon DEF ProcInv, Reconciling
<1> QED
  BY <1>3, <1>6, <1>7, <1>9, Zenon DEF StepOK

\* ClaimAttempt: even a reused attempt id keeps its row.
LEMMA ClaimAttemptStep ==
  ASSUME IInv, NEW p \in Procs, ClaimAttempt(p),
         UNCHANGED <<execIdle, recoveryVars, procVars>>
  PROVE  StepOK(p)
<1> DEFINE a == attemptCounter[p]
<1>1. /\ pc[p] = "claim" /\ a \in Attempts /\ a \in 0 .. MaxAttempt
      /\ attemptCounter' = [attemptCounter EXCEPT ![p] = @ + 1]
      /\ UNCHANGED <<queue, jobCounter, configGen>>
      /\ UNCHANGED <<job, at, outcome, dryRun, observed>>
      /\ create_attempt(a, job[p]) \/ StoreFails
  <2>1. a \in Attempts
    BY Zenon DEF ClaimAttempt
  <2>2. a \in 0 .. MaxAttempt
    BY <2>1, BoundAssumption DEF Attempts
  <2> QED
    BY <2>1, <2>2, Zenon DEF ClaimAttempt
<1>2. \/ /\ attempt' = [attempt EXCEPT ![p] = a]
         /\ pc' = [pc EXCEPT ![p] = "plan"]
      \/ /\ pc' = [pc EXCEPT ![p] = "returned"]
         /\ UNCHANGED attempt
  BY Zenon DEF ClaimAttempt, Goto
<1>3. job[p] \in Jobs /\ ProcInv(p)
  BY <1>1, Zenon DEF IInv, ProcInv
<1>4. /\ StoreTypeOK' /\ UNCHANGED <<jobs, intents, operations>>
      /\ LedgerStep /\ AttemptsGrow /\ ResultsGrow
  <2>1. CASE create_attempt(a, job[p])
    BY <1>1, <1>3, <2>1, CreateAttempt, Zenon
  <2>2. CASE StoreFails
    BY <1>1, <2>2, StoreFailsKeeps, QuietStore, Zenon DEF IInv, TypeOK
  <2> QED
    BY <1>1, <2>1, <2>2, Zenon
<1>5. SchedTypeOK'
  <2>0. attemptCounter \in [Procs -> Nat]
    BY Zenon DEF IInv, TypeOK, SchedTypeOK
  <2>1. attemptCounter' \in [Procs -> Nat]
    <3>1. attemptCounter[p] \in Nat
      BY <2>0, Zenon
    <3>2. attemptCounter[p] + 1 \in Nat
      BY ONLY <3>1, SMTT(30)
    <3> QED
      BY <1>1, <2>0, <3>2, Zenon
  <2> QED
    BY <1>1, <2>1, Zenon DEF IInv, TypeOK, SchedTypeOK
<1>6. EngineTypeOK'
  BY <1>1, <1>2, Zenon DEF IInv, TypeOK, EngineTypeOK, PipelineLabels
<1>7. TypeOK'
  BY <1>4, <1>5, <1>6, Zenon DEF IInv, TypeOK, DiskTypeOK, ExecTypeOK, RecoveryTypeOK
<1>8. Others(p)
  BY <1>1, <1>2, Zenon DEF IInv, TypeOK, EngineTypeOK, Others
<1>9. /\ pc'[p] \in {"plan", "returned"}
      /\ pc'[p] = "plan" => attempt'[p] \in Attempts
  BY <1>1, <1>2, Zenon DEF IInv, TypeOK, EngineTypeOK
<1>10. \A i \in todo[p] : attempts'[i].state # "NONE"
  BY <1>3, <1>4, Zenon DEF ProcInv, AttemptsGrow, IInv, TypeOK, RecoveryTypeOK
<1>11. ProcInv(p)'
  BY <1>1, <1>3, <1>9, <1>10, Zenon DEF ProcInv, ExecLabels, Reconciling
<1> QED
  BY <1>4, <1>7, <1>8, <1>11, Zenon DEF StepOK

-----------------------------------------------------------------------------
(***************************************************************************)
(* The pipeline and the life of a process.                                 *)
(***************************************************************************)

\* PlanJob: the plan has at most MaxOp operations.
LEMMA PlanJobStep ==
  ASSUME IInv, NEW p \in Procs, PlanJob(p),
         UNCHANGED <<storeVars, recoveryVars, schedVars, procVars>>
  PROVE  StepOK(p)
<1>1. /\ pc[p] = "plan"
      /\ done' = [done EXCEPT ![p] = {}]
      /\ handle' = [handle EXCEPT ![p] = NoHandle]
      /\ UNCHANGED <<disk, appMoves, mutation, cancelled, removed>>
      /\ UNCHANGED <<job, attempt, outcome, dryRun, observed>>
  BY Zenon DEF PlanJob
<1>2. ProcInv(p) /\ job[p] \in Jobs /\ attempt[p] \in Attempts
  BY <1>1, Zenon DEF IInv, ProcInv
<1>3. LedgerStep /\ AttemptsGrow /\ ResultsGrow
  BY <1>1, QuietStore, Zenon
<1>4. PICK l \in {"completed", "errored", "op"},
           pl \in Seq(PlannedOp), i \in 0 .. MaxOp :
        /\ pc' = [pc EXCEPT ![p] = l]
        /\ plan' = [plan EXCEPT ![p] = pl]
        /\ at' = [at EXCEPT ![p] = i]
        /\ Len(pl) <= MaxOp
        /\ l = "op" => i \in 1 .. Len(pl)
  <2>1. /\ plan[p] \in Seq(PlannedOp) /\ Len(plan[p]) <= MaxOp
        /\ at[p] \in 0 .. MaxOp
        /\ plan = [plan EXCEPT ![p] = plan[p]]
        /\ at = [at EXCEPT ![p] = at[p]]
    BY <1>2, Zenon DEF IInv, TypeOK, ExecTypeOK, EngineTypeOK, ProcInv
  <2>2. CASE \E l \in {"completed", "errored"} : Goto(p, l) /\ UNCHANGED <<plan, at>>
    BY <2>1, <2>2, BoundAssumption, Zenon DEF Goto
  <2>3. CASE \E n \in 0 .. MaxOp : \E pl \in [1 .. n -> PlannedOp] :
               /\ plan' = [plan EXCEPT ![p] = pl]
               /\ at' = [at EXCEPT ![p] = IF n = 0 THEN 0 ELSE 1]
               /\ Goto(p, IF n = 0 THEN "completed" ELSE "op")
    <3>0. PICK n \in 0 .. MaxOp : \E pl \in [1 .. n -> PlannedOp] :
               /\ plan' = [plan EXCEPT ![p] = pl]
               /\ at' = [at EXCEPT ![p] = IF n = 0 THEN 0 ELSE 1]
               /\ pc' = [pc EXCEPT ![p] = IF n = 0 THEN "completed" ELSE "op"]
      BY <2>3, Zenon DEF Goto
    <3>1. PICK pl \in [1 .. n -> PlannedOp] :
               /\ plan' = [plan EXCEPT ![p] = pl]
               /\ at' = [at EXCEPT ![p] = IF n = 0 THEN 0 ELSE 1]
               /\ pc' = [pc EXCEPT ![p] = IF n = 0 THEN "completed" ELSE "op"]
      BY <3>0, Zenon
    <3>2. n \in Nat /\ n <= MaxOp
      BY BoundAssumption
    <3>3. pl \in Seq(PlannedOp) /\ Len(pl) = n
      BY <3>2
    <3>4. CASE n = 0
      BY <3>1, <3>2, <3>3, <3>4, BoundAssumption, Zenon
    <3>5. CASE n # 0
      <4>1. 1 \in 0 .. MaxOp /\ 1 \in 1 .. Len(pl)
        BY <3>2, <3>3, <3>5, BoundAssumption
      <4> QED
        BY <3>1, <3>2, <3>3, <3>5, <4>1, Zenon
    <3> QED
      BY <3>4, <3>5, Zenon
  <2> QED
    BY <2>2, <2>3, Zenon DEF PlanJob
<1>5. TypeOK'
  <2>1. EngineTypeOK'
    BY <1>1, <1>4, Zenon DEF IInv, TypeOK, EngineTypeOK, ExecLabels, PipelineLabels
  <2>2. ExecTypeOK'
    BY <1>1, <1>4, Zenon DEF IInv, TypeOK, ExecTypeOK
  <2>3. DiskTypeOK'
    BY <1>1, Zenon DEF IInv, TypeOK, DiskTypeOK, NoHandle, Handles
  <2> QED
    BY <2>1, <2>2, <2>3, Zenon DEF IInv, TypeOK, StoreTypeOK, RecoveryTypeOK, SchedTypeOK
<1>6. Others(p)
  BY <1>1, <1>4, Zenon DEF Others, IInv, TypeOK, EngineTypeOK, ExecTypeOK
<1>7. pc'[p] = l /\ plan'[p] = pl /\ at'[p] = i
  BY <1>4, Zenon DEF IInv, TypeOK, EngineTypeOK, ExecTypeOK
<1>8. ProcInv(p)'
  BY <1>1, <1>2, <1>4, <1>7, Zenon DEF ProcInv, ExecInv, ExecLabels, Mutated, Reconciling
<1> QED
  BY <1>3, <1>5, <1>6, <1>8, Zenon DEF StepOK

\* TakeLock, PlanFails and Start: only the label, the mode and the lock change.
LEMMA LabelStep ==
  ASSUME IInv, NEW p \in Procs,
         NEW l \in {"reconcile", "idle", "errored"},
         pc' = [pc EXCEPT ![p] = l],
         mode' \in [Procs -> {"daemon", "standalone"}],
         lock' \in Procs \cup {NoProc},
         UNCHANGED <<gone, crashes>>,
         UNCHANGED <<storeVars, execIdle, recoveryVars, schedVars>>,
         UNCHANGED <<job, attempt, at, outcome, dryRun, observed>>
  PROVE  StepOK(p)
<1>1. EngineTypeOK' /\ pc'[p] = l /\ Others(p)
  BY Zenon DEF IInv, TypeOK, EngineTypeOK, RecoveryLabels, PipelineLabels, Others
<1>2. TypeOK'
  BY <1>1, Zenon DEF IInv, TypeOK, StoreTypeOK, DiskTypeOK, ExecTypeOK, RecoveryTypeOK,
              SchedTypeOK
<1>3. LedgerStep /\ AttemptsGrow /\ ResultsGrow
  BY QuietStore, Zenon
<1>4. Len(plan'[p]) <= MaxOp /\ todo'[p] \subseteq todo[p]
  BY Zenon DEF IInv, ProcInv
<1> QED
  BY <1>1, <1>2, <1>3, <1>4, Elsewhere, Zenon

\* Start, as a daemon or standalone.
LEMMA StartStep ==
  ASSUME IInv, NEW p \in Procs, Start(p)
  PROVE  StepOK(p)
<1>1. /\ pc' = [pc EXCEPT ![p] = "reconcile"]
      /\ lock' = lock \/ lock' = p
      /\ \E m \in {"daemon", "standalone"} : mode' = [mode EXCEPT ![p] = m]
      /\ UNCHANGED <<gone, crashes>>
      /\ UNCHANGED <<storeVars, execIdle, recoveryVars, schedVars>>
      /\ UNCHANGED <<job, attempt, at, outcome, dryRun, observed>>
  BY Zenon DEF Start, StartDaemon, StartStandalone, Goto
<1>2. /\ mode' \in [Procs -> {"daemon", "standalone"}]
      /\ lock' \in Procs \cup {NoProc}
  BY <1>1, Zenon DEF IInv, TypeOK
<1> QED
  BY <1>1, <1>2, LabelStep, Zenon

\* TakeLock.
LEMMA TakeLockStep ==
  ASSUME IInv, NEW p \in Procs, TakeLock(p),
         UNCHANGED <<storeVars, execIdle, recoveryVars, schedVars>>
  PROVE  StepOK(p)
<1>1. /\ pc' = [pc EXCEPT ![p] = "idle"]
      /\ lock' \in Procs \cup {NoProc}
      /\ mode' \in [Procs -> {"daemon", "standalone"}]
      /\ UNCHANGED <<gone, crashes>>
      /\ UNCHANGED <<job, attempt, at, outcome, dryRun, observed>>
  BY Zenon DEF TakeLock, Goto, IInv, TypeOK
<1> QED
  BY <1>1, LabelStep, Zenon

\* PlanFails.
LEMMA PlanFailsStep ==
  ASSUME IInv, NEW p \in Procs, PlanFails(p),
         UNCHANGED <<storeVars, recoveryVars, schedVars, procVars>>
  PROVE  StepOK(p)
<1>1. /\ pc' = [pc EXCEPT ![p] = "errored"]
      /\ lock' \in Procs \cup {NoProc}
      /\ mode' \in [Procs -> {"daemon", "standalone"}]
      /\ UNCHANGED <<execIdle, job, attempt, at, outcome, dryRun, observed>>
  BY Zenon DEF PlanFails, Goto, IInv, TypeOK
<1> QED
  BY <1>1, LabelStep, Zenon

\* FinishJob and FinishAttempt.
LEMMA FinishStep ==
  ASSUME IInv, NEW p \in Procs, FinishJob(p) \/ FinishAttempt(p),
         UNCHANGED <<execIdle, recoveryVars, schedVars, procVars>>
  PROVE  StepOK(p)
<1>1. /\ UNCHANGED <<job, attempt, at, outcome, dryRun, observed>>
      /\ \E l \in {"finish_ok", "finish_err", "returned"} :
           pc' = [pc EXCEPT ![p] = l]
  BY Zenon DEF FinishJob, FinishAttempt, Goto
<1>2. \/ \E s \in JobStates : update_job_state(job[p], s) \/ StoreFails
      \/ \E s \in AttemptStates \ {"NONE"} :
           update_attempt_state(attempt[p], s) \/ StoreFails
  BY Zenon DEF FinishJob, FinishAttempt, JobStates, AttemptStates
<1>3. StoreTypeOK' /\ LedgerStep /\ AttemptsGrow /\ ResultsGrow
  BY <1>1, <1>2, JobStatement, AttemptStatement, Zenon
<1>4. /\ EngineTypeOK' /\ Others(p)
      /\ pc'[p] \in {"finish_ok", "finish_err", "returned"}
  BY <1>1 DEF IInv, TypeOK, EngineTypeOK, PipelineLabels, Others
<1>5. TypeOK'
  BY <1>3, <1>4, Zenon DEF IInv, TypeOK, DiskTypeOK, ExecTypeOK, RecoveryTypeOK,
                    SchedTypeOK
<1>6. Len(plan'[p]) <= MaxOp /\ todo'[p] \subseteq todo[p]
  BY Zenon DEF IInv, ProcInv
<1> QED
  BY <1>3, <1>4, <1>5, <1>6, Elsewhere, Zenon

\* The types and the other processes when p's locals go out of scope.
LEMMA DropLocalsKeeps ==
  ASSUME IInv, NEW p \in Procs, DropLocals(p), NEW l \in {"down", "idle"},
         Goto(p, l), UNCHANGED storeVars
  PROVE  /\ StoreTypeOK' /\ DiskTypeOK' /\ EngineTypeOK' /\ ExecTypeOK'
         /\ RecoveryTypeOK'
         /\ pc'[p] = l /\ Others(p)
         /\ Len(plan'[p]) <= MaxOp /\ todo'[p] = {}
         /\ LedgerStep /\ AttemptsGrow /\ ResultsGrow
<1>1. StoreTypeOK' /\ DiskTypeOK'
  BY Zenon DEF DropLocals, IInv, TypeOK, StoreTypeOK, DiskTypeOK, NoHandle, Handles
<1>2. EngineTypeOK'
  <2>1. 0 \in 0 .. MaxJob /\ 0 \in 0 .. MaxAttempt /\ 0 \in 0 .. MaxOp
        /\ "UNAVAILABLE" \in Outcomes
    BY BoundAssumption DEF Outcomes
  <2>2. dryRun' \in [Procs -> BOOLEAN]
    BY Zenon DEF DropLocals, IInv, TypeOK, EngineTypeOK
  <2> QED
    BY <2>1, <2>2, Zenon DEF DropLocals, Goto, IInv, TypeOK, EngineTypeOK, PipelineLabels
<1>3. ExecTypeOK'
  <2>1. cancelled' \in [Procs -> BOOLEAN]
    BY Zenon DEF DropLocals, IInv, TypeOK, ExecTypeOK
  <2>2. << >> \in Seq(PlannedOp) /\ {} \in SUBSET Ops
    OBVIOUS
  <2> QED
    BY <2>1, <2>2, Zenon DEF DropLocals, IInv, TypeOK, ExecTypeOK
<1>4. RecoveryTypeOK'
  <2>1. allSucceeded' \in [Procs -> BOOLEAN] /\ hasUnknown' \in [Procs -> BOOLEAN]
    BY Zenon DEF DropLocals, IInv, TypeOK, RecoveryTypeOK
  <2> QED
    BY <2>1, Zenon DEF DropLocals, IInv, TypeOK, RecoveryTypeOK
<1>5. pc'[p] = l /\ plan'[p] = << >> /\ todo'[p] = {} /\ Others(p)
  BY DEF DropLocals, Goto, IInv, TypeOK, EngineTypeOK, ExecTypeOK,
         RecoveryTypeOK, Others
<1>6. Len(<< >>) <= MaxOp
  BY BoundAssumption
<1>7. LedgerStep /\ AttemptsGrow /\ ResultsGrow
  BY QuietStore, Zenon DEF DropLocals
<1> QED
  BY <1>1, <1>2, <1>3, <1>4, <1>5, <1>6, <1>7

\* The end of a process.
LEMMA ForgetStep ==
  ASSUME IInv, NEW p \in Procs, Forget(p), crashes' \in Nat
  PROVE  StepOK(p)
<1>1. DropLocals(p) /\ Goto(p, "down") /\ UNCHANGED storeVars
  BY Zenon DEF Forget
<1>2. /\ StoreTypeOK' /\ DiskTypeOK' /\ EngineTypeOK' /\ ExecTypeOK'
      /\ RecoveryTypeOK'
      /\ pc'[p] = "down" /\ Others(p)
      /\ Len(plan'[p]) <= MaxOp /\ todo'[p] = {}
      /\ LedgerStep /\ AttemptsGrow /\ ResultsGrow
  BY <1>1, DropLocalsKeeps, Zenon
<1>3. SchedTypeOK'
  <2>1. 1 \in 1 .. MaxConfigGen
    BY ConfigGenAssumption
  <2> QED
    BY <2>1, Zenon DEF Forget, IInv, TypeOK, SchedTypeOK
<1>4. TypeOK'
  BY <1>2, <1>3, Zenon DEF Forget, IInv, TypeOK
<1> QED
  BY <1>2, <1>4, Elsewhere, Zenon

\* Return, Exit and Crash.
LEMMA LeaveStep ==
  ASSUME IInv, NEW p \in Procs, Return(p) \/ Exit(p) \/ Crash(p)
  PROVE  StepOK(p)
<1>1. CASE Return(p)
  <2>1. /\ DropLocals(p) /\ Goto(p, "idle")
        /\ UNCHANGED <<storeVars, schedVars, procVars>>
    BY <1>1, Zenon DEF Return
  <2>2. /\ StoreTypeOK' /\ DiskTypeOK' /\ EngineTypeOK' /\ ExecTypeOK'
        /\ RecoveryTypeOK'
        /\ pc'[p] = "idle" /\ Others(p)
        /\ Len(plan'[p]) <= MaxOp /\ todo'[p] = {}
        /\ LedgerStep /\ AttemptsGrow /\ ResultsGrow
    BY <2>1, DropLocalsKeeps, Zenon
  <2>3. TypeOK'
    BY <2>1, <2>2, Zenon DEF IInv, TypeOK, SchedTypeOK
  <2> QED
    BY <2>2, <2>3, Elsewhere, Zenon
<1>2. CASE Exit(p) \/ Crash(p)
  <2>1. Forget(p) /\ crashes' \in Nat
    BY <1>2 DEF Exit, Crash, IInv, TypeOK
  <2> QED
    BY <2>1, ForgetStep, Zenon
<1> QED
  BY <1>1, <1>2, Zenon

\* Submit.
LEMMA SubmitStep ==
  ASSUME IInv, NEW p \in Procs, Submit(p),
         UNCHANGED <<storeVars, diskVars, recoveryVars, schedVars, procVars>>
  PROVE  StepOK(p)
<1>1. /\ pc' = [pc EXCEPT ![p] = "admit"]
      /\ UNCHANGED <<plan, done, mutation, removed>>
      /\ UNCHANGED <<job, attempt, at, outcome, observed>>
  BY Zenon DEF Submit, Goto
<1>2. dryRun' \in [Procs -> BOOLEAN] /\ cancelled' \in [Procs -> BOOLEAN]
  BY Zenon DEF Submit, IInv, TypeOK, EngineTypeOK, ExecTypeOK
<1>3. EngineTypeOK' /\ pc'[p] = "admit" /\ Others(p)
  BY <1>1, <1>2, Zenon DEF IInv, TypeOK, EngineTypeOK, PipelineLabels, Others
<1>4. TypeOK'
  BY <1>1, <1>2, <1>3, Zenon DEF IInv, TypeOK, StoreTypeOK, DiskTypeOK, ExecTypeOK,
                          RecoveryTypeOK, SchedTypeOK
<1>5. LedgerStep /\ AttemptsGrow /\ ResultsGrow
  BY <1>1, QuietStore, Zenon
<1>6. Len(plan'[p]) <= MaxOp /\ todo'[p] \subseteq todo[p]
  BY <1>1, Zenon DEF IInv, ProcInv
<1> QED
  BY <1>3, <1>4, <1>5, <1>6, Elsewhere, Zenon

-----------------------------------------------------------------------------
(***************************************************************************)
(* Steps that leave every process where it is.                             *)
(***************************************************************************)

\* Nothing IInv speaks of changes, apart from types.
LEMMA NobodyMoves ==
  ASSUME IInv, TypeOK',
         UNCHANGED <<storeVars, plan, removed, pc, job, attempt, at, outcome,
                     observed, todo, listed>>
  PROVE  IInv' /\ LedgerStep
<1>1. LedgerStep /\ LedgerInv'
  BY LedgerInductive, Zenon DEF LedgerStep, IInv
<1>2. ResultsInv'
  BY Zenon DEF IInv, ResultsInv, Backed
<1>3. ASSUME NEW p \in Procs
      PROVE  ProcInv(p)'
  BY Zenon DEF IInv, ProcInv, ExecInv, ReconcileInv, Op
<1> QED
  BY <1>1, <1>2, <1>3, Zenon DEF IInv

\* Cancel.
LEMMA CancelStep ==
  ASSUME IInv, NEW p \in Procs, Cancel(p),
         UNCHANGED <<recoveryVars, schedVars, procVars>>
  PROVE  IInv' /\ LedgerStep
<1>1. cancelled' \in [Procs -> BOOLEAN]
  BY Zenon DEF Cancel, IInv, TypeOK, ExecTypeOK
<1>2. TypeOK'
  BY <1>1, Zenon DEF Cancel, IInv, TypeOK, StoreTypeOK, DiskTypeOK, EngineTypeOK,
              ExecTypeOK, RecoveryTypeOK, SchedTypeOK
<1> QED
  BY <1>2, NobodyMoves, Zenon DEF Cancel

\* Stop.
LEMMA StopStep ==
  ASSUME IInv, NEW p \in Procs, Stop(p)
  PROVE  IInv' /\ LedgerStep
<1>1. lock' \in Procs \cup {NoProc} /\ gone' \subseteq Procs
  BY Zenon DEF Stop, IInv, TypeOK
<1>2. TypeOK'
  BY <1>1, Zenon DEF Stop, IInv, TypeOK, StoreTypeOK, DiskTypeOK, EngineTypeOK,
              ExecTypeOK, RecoveryTypeOK, SchedTypeOK
<1> QED
  BY <1>2, NobodyMoves, Zenon DEF Stop

\* ReloadConfig.
LEMMA ReloadStep ==
  ASSUME IInv, NEW p \in Procs, ReloadConfig(p),
         UNCHANGED <<execIdle, recoveryVars, procVars>>
  PROVE  IInv' /\ LedgerStep
<1>1. configGen' \in [Procs -> 1 .. MaxConfigGen]
  BY ConfigGenAssumption DEF ReloadConfig, UpdateConfig, IInv, TypeOK, SchedTypeOK
<1>2. TypeOK'
  BY <1>1, Zenon DEF ReloadConfig, UpdateConfig, IInv, TypeOK, StoreTypeOK, DiskTypeOK,
              EngineTypeOK, ExecTypeOK, RecoveryTypeOK, SchedTypeOK
<1> QED
  BY <1>2, NobodyMoves, Zenon DEF ReloadConfig, UpdateConfig

\* The apps: the tree is not part of the ledger.
LEMMA AppsStep ==
  ASSUME IInv, Apps
  PROVE  IInv' /\ LedgerStep
<1>1. DiskTypeOK'
  BY DEF Apps, AppStep, AppWrite, AppRemove, IInv, TypeOK, DiskTypeOK
<1>2. TypeOK'
  BY <1>1, Zenon DEF Apps, IInv, TypeOK, StoreTypeOK, EngineTypeOK, ExecTypeOK,
              RecoveryTypeOK, SchedTypeOK
<1> QED
  BY <1>2, NobodyMoves, Zenon DEF Apps

=============================================================================
