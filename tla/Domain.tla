------------------------------- MODULE Domain -------------------------------
(***************************************************************************)
(* The vocabulary shared by every module: the cleaner processes, the tree  *)
(* of cache entries, the identifiers of jobs, attempts and operations, and *)
(* the row types of src/domain.  Names, sizes and timestamps are left out: *)
(* a path is an element of Paths and a (device, inode) pair an element of  *)
(* Idents.                                                                 *)
(***************************************************************************)
EXTENDS Naturals, Sequences

CONSTANTS
  Procs,          \* cleaner processes: daemons and standalone `cleaner clean`
  NoProc,         \* nobody holds the PID lock
  Paths,          \* the entries below the root of one target
  Dirs,           \* the entries that are directories
  Root,           \* the root of the target; it is never an entry
  Parent,         \* the directory each entry is in
  Below,          \* per directory, the entries whose path has prefix "dir/"
  Order,          \* the planner's canonical sort key of each entry
  Idents,         \* file identities: (device, inode) pairs
  Absent,         \* what a lookup of a missing entry yields
  MaxJob,         \* bound on job ids
  MaxAttempt,     \* bound on attempt ids
  MaxOp           \* bound on operations per plan

ASSUME TreeAssumption ==
  /\ NoProc \notin Procs
  /\ Dirs \subseteq Paths
  /\ Root \notin Paths
  /\ Absent \notin Idents
  /\ Parent \in [Paths -> Dirs \cup {Root}]
  /\ Below \in [Dirs -> SUBSET Paths]
  /\ Order \in [Paths -> Nat]

ASSUME BoundAssumption ==
  /\ MaxJob \in Nat
  /\ MaxAttempt \in Nat
  /\ MaxOp \in Nat

(***************************************************************************)
(* Below is the prefix relation that Parent generates, and the canonical   *)
(* order puts what is below a directory before the directory.              *)
(***************************************************************************)
ASSUME OrderAssumption ==
  /\ \A q \in Paths : Parent[q] # Root => q \in Below[Parent[q]]
  /\ \A d \in Dirs : \A q \in Below[d] : Order[q] < Order[d]

Jobs == 1 .. MaxJob
Attempts == 1 .. MaxAttempt
Ops == 1 .. MaxOp

\* domain/intent.rs IntentState, as the strings the store writes.
IntentStates ==
  {"COMMITTED", "MUTATING", "VERIFIED_SUCCESS", "VERIFIED_FAILED",
   "RESOLVED_UNKNOWN"}

Settled == {"VERIFIED_SUCCESS", "VERIFIED_FAILED", "RESOLVED_UNKNOWN"}

\* domain/intent.rs OperationIntent: what recovery needs to re-verify it.
Intent == [state : IntentStates, job : Jobs, path : Paths, ident : Idents]

\* A key the operation_intents table has no row for.
NoRow == [state |-> "NONE"]

\* domain/plan.rs PlannedOperation; its op_id is its position in the plan.
PlannedOp == [path : Paths, ident : Idents]

\* domain/result.rs OperationStatus, the ones that are recorded (a preempted or
\* gated operation leaves no row).
OpStatus == {"SUCCESS", "FAILED", "VERIFICATION_FAILED", "SKIPPED"}

\* verifier VerificationOutcome: ConfirmedDeleted and AlreadyGone are always
\* treated alike, and so are ParentUnavailable, TargetUnavailable and Unknown.
Outcomes == {"GONE", "PRESENT", "MISMATCH", "UNAVAILABLE"}

=============================================================================
