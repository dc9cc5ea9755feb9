------------------------------ MODULE Executor ------------------------------
(***************************************************************************)
(* CleanupExecutor::execute_plan (src/executor): the loop over the         *)
(* operations of an authorized plan.  Between two of the steps below the   *)
(* process can crash, an app can touch the tree, and another process can   *)
(* write to the store, so each system call and each statement is a step.   *)
(*                                                                         *)
(* DeleteFile and DeleteDirEmpty run the same protocol and share the       *)
(* actions; they differ in what unlinkat demands and in rmdir dropping the *)
(* cached handle.  The gates that leave nothing behind when they refuse    *)
(* (target lock, mutation boundary, a failed intent commit) are RejectOp.  *)
(***************************************************************************)
EXTENDS Store, Disk, Engine

VARIABLES
  plan,       \* the operations of the authorized plan; op_id is the index
  done,       \* successful_op_ids
  mutation,   \* what unlink_child_file / rmdir_child_dir returned
  cancelled,  \* the cancellation token
  removed     \* history: the entries an executor removed

execVars == <<plan, done, mutation, cancelled, removed>>

Removal ==
  [attempt : Attempts, op : Ops, path : Paths, ident : Idents, dry : BOOLEAN]

ExecTypeOK ==
  /\ plan \in [Procs -> Seq(PlannedOp)]
  /\ done \in [Procs -> SUBSET Ops]
  /\ mutation \in [Procs -> {"ok", "err"}]
  /\ cancelled \in [Procs -> BOOLEAN]
  /\ removed \subseteq Removal

ExecInit ==
  /\ plan = [p \in Procs |-> << >>]
  /\ done = [p \in Procs |-> {}]
  /\ mutation = [p \in Procs |-> "err"]
  /\ cancelled = [p \in Procs |-> FALSE]
  /\ removed = {}

Op(p) == plan[p][at[p]]

\* Mutation: the last operation below a directory is not waited for.
DependenciesShort(p, i) ==
  {k \in 1 .. (i - 2) : /\ plan[p][i].path \in Dirs
                        /\ plan[p][k].path \in Below[plan[p][i].path]}

\* planner build_plan: a directory waits for every earlier operation below it.
Dependencies(p, i) ==
  {k \in 1 .. (i - 1) : /\ plan[p][i].path \in Dirs
                        /\ plan[p][k].path \in Below[plan[p][i].path]}

\* Mutations: the index runs past the plan; the last operation is tried for ever.
NextOpPastEnd(p) ==
  /\ at' = [at EXCEPT ![p] = @ + 1]
  /\ Goto(p, IF at[p] < Len(plan[p]) THEN "op" ELSE "completed")

NextOpRetries(p) ==
  /\ at' = [at EXCEPT ![p] = IF @ < Len(plan[p]) THEN @ + 1 ELSE @]
  /\ Goto(p, "op")

\* The end of one iteration of the loop, the end of execute_plan after the last.
NextOp(p) ==
  IF at[p] < Len(plan[p])
  THEN /\ at' = [at EXCEPT ![p] = @ + 1]
       /\ Goto(p, "op")
  ELSE /\ Goto(p, "completed")
       /\ UNCHANGED at

-----------------------------------------------------------------------------

\* Steps 1 and 2: preempted, or a dependency did not succeed.
SkipOp(p) ==
  /\ pc[p] = "op"
  /\ cancelled[p] \/ ~(Dependencies(p, at[p]) \subseteq done[p])
  /\ NextOp(p)
  /\ UNCHANGED <<storeVars, diskVars, execVars>>
  /\ UNCHANGED <<job, attempt, outcome, dryRun, observed>>

\* Steps 5 to 7 refuse: lock collision, boundary rejection, the intent's key is
\* taken, or the INSERT failed.  The operation is Failed and nothing is durable.
RejectOp(p) ==
  /\ pc[p] = "op"
  /\ ~cancelled[p]
  /\ Dependencies(p, at[p]) \subseteq done[p]
  /\ NextOp(p)
  /\ UNCHANGED storeVars \/ StoreFails
  /\ UNCHANGED <<diskVars, execVars>>
  /\ UNCHANGED <<job, attempt, outcome, dryRun, observed>>

\* Mutation: the intent is not marked MUTATING before the unlink.
CommitIntentOnly(p) ==
  /\ pc[p] = "op"
  /\ ~cancelled[p]
  /\ Dependencies(p, at[p]) \subseteq done[p]
  /\ commit_operation_intent(attempt[p], at[p],
       [state |-> "COMMITTED", job |-> job[p],
        path |-> Op(p).path, ident |-> Op(p).ident])
  /\ Goto(p, "mutating")
  /\ UNCHANGED <<diskVars, execVars>>
  /\ UNCHANGED <<job, attempt, at, outcome, dryRun, observed>>

\* Step 7: every gate has passed and the intent is durable.
CommitIntent(p) ==
  /\ pc[p] = "op"
  /\ ~cancelled[p]
  /\ Dependencies(p, at[p]) \subseteq done[p]
  /\ commit_operation_intent(attempt[p], at[p],
       [state |-> "COMMITTED", job |-> job[p],
        path |-> Op(p).path, ident |-> Op(p).ident])
  /\ Goto(p, "committed")
  /\ UNCHANGED <<diskVars, execVars>>
  /\ UNCHANGED <<job, attempt, at, outcome, dryRun, observed>>

\* Mutation: an error of the UPDATE is ignored.
MarkMutatingIgnored(p) ==
  /\ pc[p] = "committed"
  /\ update_intent_state(attempt[p], at[p], "MUTATING") \/ StoreFails
  /\ Goto(p, "mutating")
  /\ UNCHANGED <<diskVars, execVars>>
  /\ UNCHANGED <<job, attempt, at, outcome, dryRun, observed>>

\* update_intent_state(.., "MUTATING")?: an error ends the whole plan.
MarkMutating(p) ==
  /\ pc[p] = "committed"
  /\ \/ /\ update_intent_state(attempt[p], at[p], "MUTATING")
        /\ Goto(p, "mutating")
     \/ /\ StoreFails
        /\ Goto(p, "errored")
  /\ UNCHANGED <<diskVars, execVars>>
  /\ UNCHANGED <<job, attempt, at, outcome, dryRun, observed>>

\* get_or_open_parent_dir reuses the handle of the previous operation.
CacheHit(p) == handle[p].open /\ handle[p].dir = Parent[Op(p).path]

\* get_or_open_parent_dir fails: the operation is Failed, its intent stays
\* MUTATING, and the loop goes on.
OpenParentFails(p) ==
  /\ pc[p] = "mutating"
  /\ ~CacheHit(p)
  /\ NextOp(p)
  /\ UNCHANGED <<storeVars, diskVars, execVars>>
  /\ UNCHANGED <<job, attempt, outcome, dryRun, observed>>

\* The stat of unlink_child_file / rmdir_child_dir, through the (re)opened
\* handle: only the expected identity goes on to unlinkat.
StatChild(p) ==
  LET h == IF CacheHit(p) THEN handle[p] ELSE OpenParent(Op(p).path)
  IN  /\ pc[p] = "mutating"
      /\ CacheHit(p) \/ ParentPresent(Op(p).path)
      /\ handle' = [handle EXCEPT ![p] = h]
      /\ \/ /\ Lookup(h, Op(p).path) = Op(p).ident
            /\ Goto(p, "unlink")
            /\ UNCHANGED mutation
         \/ /\ mutation' = [mutation EXCEPT ![p] = "err"]
            /\ Goto(p, "verify")
      /\ UNCHANGED <<storeVars, disk, appMoves>>
      /\ UNCHANGED <<plan, done, cancelled, removed>>
      /\ UNCHANGED <<job, attempt, at, outcome, dryRun, observed>>

\* The unlinkat itself, a system call of its own: it removes whatever the
\* name is bound to by now.
Unlinkat(p) ==
  /\ pc[p] = "unlink"
  /\ \/ /\ Removable(handle[p], Op(p).path)
        /\ disk' = [disk EXCEPT ![Op(p).path] = Absent]
        /\ removed' = removed \cup
             {[attempt |-> attempt[p], op |-> at[p], path |-> Op(p).path,
               ident |-> disk[Op(p).path], dry |-> dryRun[p]]}
        /\ mutation' = [mutation EXCEPT ![p] = "ok"]
     \/ /\ mutation' = [mutation EXCEPT ![p] = "err"]
        /\ UNCHANGED <<disk, removed>>
  /\ Goto(p, "verify")
  /\ UNCHANGED <<storeVars, handle, appMoves, plan, done, cancelled>>
  /\ UNCHANGED <<job, attempt, at, outcome, dryRun, observed>>

\* verify_with_parent_handle; rmdir then drops the cached handle.
VerifyOp(p) ==
  /\ pc[p] = "verify"
  /\ \E v \in Observations(Lookup(handle[p], Op(p).path), Op(p).ident) :
       Report(p, attempt[p], at[p], v)
  /\ handle' = [handle EXCEPT ![p] = IF Op(p).path \in Dirs THEN NoHandle ELSE @]
  /\ Goto(p, "resolve")
  /\ UNCHANGED <<storeVars, execVars, disk, appMoves>>
  /\ UNCHANGED <<job, attempt, at, dryRun>>

\* The match on (mutation_res, outcome): the state the intent gets ...
IntentVerdict(v) ==
  CASE v = "GONE" -> "VERIFIED_SUCCESS"
    [] v = "UNAVAILABLE" -> "RESOLVED_UNKNOWN"
    [] OTHER -> "VERIFIED_FAILED"

\* Mutation: an unlink that returned Ok counts as a success.
OpVerdictTrusting(m, v) == IF m = "ok" \/ v = "GONE" THEN "SUCCESS" ELSE "FAILED"

\* ... and the status the operation gets.
OpVerdict(m, v) ==
  CASE v = "GONE" -> "SUCCESS"
    [] v # "GONE" /\ m = "ok" -> "VERIFICATION_FAILED"
    [] OTHER -> "FAILED"

\* update_intent_state(..)? after the mutation: an error ends the whole plan.
ResolveIntent(p) ==
  /\ pc[p] = "resolve"
  /\ \/ /\ update_intent_state(attempt[p], at[p], IntentVerdict(outcome[p]))
        /\ done' = [done EXCEPT
                      ![p] = IF outcome[p] = "GONE" THEN @ \cup {at[p]} ELSE @]
        /\ Goto(p, "record")
     \/ /\ StoreFails
        /\ Goto(p, "errored")
        /\ UNCHANGED done
  /\ UNCHANGED <<diskVars, plan, mutation, cancelled, removed>>
  /\ UNCHANGED <<job, attempt, at, outcome, dryRun, observed>>

\* Step 10: an error is only logged.
RecordResult(p) ==
  /\ pc[p] = "record"
  /\ \/ record_operation_result(job[p], at[p],
                                OpVerdict(mutation[p], outcome[p]))
     \/ StoreFails
  /\ NextOp(p)
  /\ UNCHANGED <<diskVars, execVars>>
  /\ UNCHANGED <<job, attempt, outcome, dryRun, observed>>

\* Another thread sets the cancellation token while the plan runs.
Cancel(p) ==
  /\ pc[p] \in ExecLabels
  /\ ~cancelled[p]
  /\ cancelled' = [cancelled EXCEPT ![p] = TRUE]
  /\ UNCHANGED <<storeVars, diskVars, engineVars>>
  /\ UNCHANGED <<plan, done, mutation, removed>>

ExecStep(p) ==
  \/ SkipOp(p)
  \/ RejectOp(p)
  \/ CommitIntent(p)
  \/ MarkMutating(p)
  \/ OpenParentFails(p)
  \/ StatChild(p)
  \/ Unlinkat(p)
  \/ VerifyOp(p)
  \/ ResolveIntent(p)
  \/ RecordResult(p)

=============================================================================
