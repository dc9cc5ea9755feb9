------------------------------ MODULE Planning -------------------------------
(***************************************************************************)
(* How run_pipeline_job decides what to delete: the scanner walks every    *)
(* target of the catalog snapshot while apps go on changing the tree, the  *)
(* safety gate and the policy choose among the candidates, the planner     *)
(* orders them and the authorization grants one capability per operation.  *)
(*                                                                         *)
(* A path is the sequence of its names, so "starts with dir/" is strict    *)
(* prefix and the depth is the length.  Time is counted in units of the    *)
(* retention age; `now' is read once, before the first target.             *)
(***************************************************************************)
EXTENDS Naturals, Sequences, FiniteSets, Functions

CONSTANTS
  Snapshot,         \* the target descriptors there can be
  JobTargets,       \* the sets of their ids a catalog snapshot can hold
  Paths,            \* the relative paths an entry can have
  PathOrder,        \* their byte order
  Trees,            \* per target, the trees a job can start from
  Config,           \* the effective configuration
  ProtectedRoots,   \* PLATFORM_INVARIANT_PROTECTED_PATHS
  Bytecode,         \* names ending in .dex, .oat, .art or .vdex
  CodeCacheNames,   \* names containing "code_cache"
  ScanDepth,        \* depth at which the scanner turns back (16)
  MaxCandidates,    \* MAX_CANDIDATES_PER_TARGET (50,000)
  MaxOperations,    \* DEFAULT_MAX_OPERATIONS_PER_PLAN (10,000)
  Now,              \* when the job reads the clock
  MaxChanges        \* bound on what apps do during a job

\* The directory an entry is in, its name, and whether it is in or below another.
Parent(p) == SubSeq(p, 1, Len(p) - 1)
NameOf(p) == p[Len(p)]
StartsWith(p, base) == Len(base) <= Len(p) /\ SubSeq(p, 1, Len(base)) = base
IsBelow(p, dir) == StartsWith(p, dir) /\ p # dir

Absent == [kind |-> "none", mtime |-> 0, dev |-> 0]
TreeEntries == [kind : {"none", "file", "dir", "link"}, mtime : Nat, dev : Nat]

\* Below a directory only: no entry without the directory that holds it.
IsTree(f) == \A p \in Paths : Len(p) > 1 /\ f[p] # Absent => f[Parent(p)].kind = "dir"

\* Target ids are numbered from 1 in their byte order; paths are relative, no
\* two of them are equal bytes, and with a path come the directories it is in.
ASSUME PlanningAssumption ==
  /\ \A t \in Snapshot : t.id \in Nat \ {0}
  /\ \A J \in JobTargets : \A i \in J : \E t \in Snapshot : t.id = i
  /\ Paths \subseteq Seq(STRING) \ {<< >>}
  /\ \A p \in Paths : Len(p) > 1 => Parent(p) \in Paths
  /\ PathOrder \in [Paths -> Nat]
  /\ \A p, q \in Paths : PathOrder[p] = PathOrder[q] => p = q
  /\ \A t \in Snapshot : \A f \in Trees[t.id] : f \in [Paths -> TreeEntries] /\ IsTree(f)
  /\ Config.min_age \in Nat /\ Now \in Nat
  /\ ScanDepth \in Nat \ {0} /\ MaxCandidates \in Nat /\ MaxOperations \in Nat

VARIABLES
  tree,       \* per target, path -> entry
  changes,    \* what apps have done so far
  stage,      \* "scan", "planned", "failed"
  stopping,   \* the cancellation token
  todo,       \* targets not scanned yet, at first those of the catalog snapshot
  visiting,    \* the target being scanned
  stack,      \* the open directories, innermost last
  found,      \* candidates of the current target
  hitLimit, errors,   \* what keeps the scan of it from being complete
  statuses,   \* the ScanStatus of every scanned target
  permits,    \* candidates that passed gate and policy
  plan,       \* the operations, in order
  grant,      \* the capabilities
  kept,       \* history: per target, the paths no app has touched since its scan
  missed      \* history: targets with something the scan passed over silently

planVars == <<tree, changes, stage, stopping, todo, visiting, stack, found,
              hitLimit, errors, statuses, permits, plan, grant, kept, missed>>

Ids == {t.id : t \in Snapshot}
Target(id) == CHOOSE t \in Snapshot : t.id = id
NoScan == 0

\* The entries directly below a directory, with what a stat tells of them.
Children(id, dir) ==
  {[path |-> p, entry |-> tree[id][p]] :
     p \in {q \in Paths : Parent(q) = dir /\ tree[id][q] # Absent}}

PlanInit ==
  /\ tree \in {f \in [Ids -> UNION {Trees[i] : i \in Ids}] : \A i \in Ids : f[i] \in Trees[i]}
  /\ changes = 0
  /\ stage = "scan"
  /\ stopping = FALSE
  /\ todo \in JobTargets
  /\ visiting = NoScan
  /\ stack = << >>
  /\ found = {}
  /\ hitLimit = FALSE /\ errors = FALSE
  /\ statuses = [i \in Ids |-> "none"]
  /\ permits = {}
  /\ plan = << >>
  /\ grant = {}
  /\ kept = [i \in Ids |-> {}]
  /\ missed = {}

-----------------------------------------------------------------------------
\* Apps change the tree at any moment.

EntryChanges(id, p) == kept' = [kept EXCEPT ![id] = @ \ {p}]

AppWrites(id, p) ==
  /\ stage = "scan" /\ changes < MaxChanges
  /\ tree[id][p].kind \in {"none", "file"}
  /\ Len(p) > 1 => tree[id][Parent(p)].kind = "dir"
  /\ tree' = [tree EXCEPT ![id][p] = [kind |-> "file", mtime |-> Now + 1, dev |-> 1]]
  /\ changes' = changes + 1
  /\ EntryChanges(id, p)
  /\ UNCHANGED <<stage, stopping, todo, visiting, stack, found, hitLimit, errors,
                 missed, statuses, permits, plan, grant>>

AppRemoves(id, p) ==
  /\ stage = "scan" /\ changes < MaxChanges
  /\ tree[id][p] # Absent /\ Children(id, p) = {}
  /\ tree' = [tree EXCEPT ![id][p] = Absent]
  /\ changes' = changes + 1
  /\ EntryChanges(id, p)
  /\ UNCHANGED <<stage, stopping, todo, visiting, stack, found, hitLimit, errors,
                 missed, statuses, permits, plan, grant>>

\* Screen on, an IPC Cancel or a shutdown.
JobCancelled ==
  /\ stage = "scan" /\ ~stopping
  /\ stopping' = TRUE
  /\ UNCHANGED <<tree, changes, stage, todo, visiting, stack, found, hitLimit,
                 errors, missed, statuses, permits, plan, grant, kept>>

-----------------------------------------------------------------------------
\* scan_target_with_resource and scan_safe_recursive

\* read_entries_fd: names that are not UTF-8, special files and what cannot be
\* stat'ed are left out without an error.
Listings(id, dir) == SUBSET Children(id, dir)
Omits(id, dir, listing) == IF listing = Children(id, dir) THEN {} ELSE {id}

\* A directory is entered: beyond the depth nothing is read, at the limit
\* nothing more is collected, and it may not be readable.
Enter(dir, frames, cands) ==
  \/ /\ Len(dir) >= ScanDepth
     /\ stack' = frames
     /\ missed' = missed \cup {visiting}
     /\ UNCHANGED <<hitLimit, errors>>
  \/ /\ Len(dir) < ScanDepth /\ Cardinality(cands) >= MaxCandidates
     /\ stack' = frames
     /\ hitLimit' = TRUE
     /\ UNCHANGED <<errors, missed>>
  \/ /\ Len(dir) < ScanDepth /\ Cardinality(cands) < MaxCandidates
     /\ \/ /\ \E listing \in Listings(visiting, dir) :
                /\ stack' = Append(frames, [at |-> dir, left |-> listing])
                /\ missed' = missed \cup Omits(visiting, dir, listing)
           /\ UNCHANGED errors
        \/ /\ stack' = frames
           /\ errors' = TRUE
           /\ UNCHANGED missed
     /\ UNCHANGED hitLimit

\* The next target.  A root that cannot be opened is an error, one that is
\* gone is a complete scan of nothing; the missing permit of a root is ignored.
ScanTarget(id) ==
  /\ stage = "scan" /\ visiting = NoScan
  /\ ~stopping /\ id \in todo
  /\ todo' = todo \ {id}
  /\ visiting' = id
  /\ found' = {}
  /\ kept' = [kept EXCEPT ![id] = {p \in Paths : tree[id][p] # Absent}]
  /\ \/ /\ \E listing \in Listings(id, << >>) :
             /\ stack' = <<[at |-> << >>, left |-> listing]>>
             /\ missed' = missed \cup Omits(id, << >>, listing)
        /\ hitLimit' = FALSE /\ errors' = FALSE
     \/ /\ stack' = << >>
        /\ hitLimit' = FALSE /\ errors' = TRUE
        /\ UNCHANGED missed
  /\ UNCHANGED <<tree, changes, stage, stopping, statuses, permits, plan, grant>>

AsCandidate(e) ==
  [target |-> visiting, path |-> e.path, dir |-> e.entry.kind = "dir",
   mtime |-> e.entry.mtime, dev |-> e.entry.dev]

Top == stack[Len(stack)]
Scanning == stage = "scan" /\ visiting # NoScan /\ stack # << >>

\* One entry of the innermost directory.  A directory is a candidate before
\* its contents; without a permit, or when it cannot be opened, they are passed
\* over and no error is noted.
VisitEntry(e) ==
  /\ Scanning /\ e \in Top.left
  /\ Cardinality(found) < MaxCandidates
  /\ found' = found \cup {AsCandidate(e)}
  /\ LET rest == [stack EXCEPT ![Len(stack)].left = @ \ {e}]
     IN \/ /\ e.entry.kind = "dir" /\ tree[visiting][e.path].kind = "dir"
           /\ Enter(e.path, rest, found')
        \/ /\ e.entry.kind = "dir"
           /\ stack' = rest
           /\ missed' = missed \cup {visiting}
           /\ UNCHANGED <<hitLimit, errors>>
        \/ /\ e.entry.kind # "dir"
           /\ stack' = rest
           /\ UNCHANGED <<hitLimit, errors, missed>>
  /\ UNCHANGED <<tree, changes, stage, stopping, todo, visiting, statuses, permits,
                 plan, grant, kept>>

\* The loop over a directory ends, at its last entry or at the limit.
LeaveDirectory ==
  /\ Scanning
  /\ Top.left = {} \/ Cardinality(found) >= MaxCandidates
  /\ hitLimit' = (hitLimit \/ Top.left # {})
  /\ stack' = SubSeq(stack, 1, Len(stack) - 1)
  /\ UNCHANGED <<tree, changes, stage, stopping, todo, visiting, found, errors,
                 missed, statuses, permits, plan, grant, kept>>

Status ==
  IF hitLimit THEN "Partial"
  ELSE IF errors THEN IF found = {} THEN "Failed" ELSE "Partial"
  ELSE "Complete"

-----------------------------------------------------------------------------
\* SafetyGate::validate_candidate

verify_target_root_safety(base) ==
  /\ base # << >>
  /\ \A r \in ProtectedRoots : ~StartsWith(base, r)

is_mutation_allowed(t) == t.tier \in {"StandardCache", "RequiresColdApp"}

validate_candidate(c, t) ==
  /\ is_mutation_allowed(t)
  /\ c.target = t.id
  /\ c.dev = t.dev
  /\ c.path # << >>
  /\ verify_target_root_safety(t.base)

\* PolicyEngine::evaluate_candidate_with_freezer.  A frozen owner only raises
\* the priority of the permit, which nothing reads.
CategoryDisabled(t) ==
  \/ t.class = "Tombstones" /\ ~Config.clean_tombstones
  \/ t.class = "LogArchive" /\ ~Config.clean_oem_logs
  \/ t.class = "TempDir" /\ ~Config.clean_temp_apks
  \/ t.class = "CodeCache" /\ ~Config.clean_code_cache

ProtectedBytecode(p) ==
  NameOf(p) \in Bytecode \/ \E i \in DOMAIN p : p[i] \in CodeCacheNames

age_secs(mtime) == IF mtime > Now THEN 0 ELSE Now - mtime

\* Mutation: whatever has not been written since the clock was read is old.
EvaluateFresh(c, t) ==
  /\ ~CategoryDisabled(t)
  /\ t.package \notin Config.whitelist
  /\ ~ProtectedBytecode(c.path)
  /\ c.mtime <= Now

evaluate_candidate(c, t) ==
  /\ ~CategoryDisabled(t)
  /\ t.package \notin Config.whitelist
  /\ ~ProtectedBytecode(c.path)
  /\ c.dir \/ age_secs(c.mtime) >= Config.min_age

\* The scan of a target returns, and its candidates go through gate and policy.
\* The status of the scan is not looked at.
JudgeCandidates ==
  /\ stage = "scan" /\ visiting # NoScan /\ stack = << >>
  /\ statuses' = [statuses EXCEPT ![visiting] = Status]
  /\ permits' = permits \cup
       {c \in found : validate_candidate(c, Target(visiting)) /\ evaluate_candidate(c, Target(visiting))}
  /\ visiting' = NoScan
  /\ found' = {}
  /\ hitLimit' = FALSE /\ errors' = FALSE
  /\ UNCHANGED <<tree, changes, stage, stopping, todo, stack, plan, grant, kept,
                 missed>>

-----------------------------------------------------------------------------
\* CleanupPlanner::build_plan

\* Mutation: the shallowest directory first.
BeforeShallow(c, d) ==
  \/ ~c.dir /\ d.dir
  \/ /\ c.dir = d.dir
     /\ \/ c.target < d.target
        \/ c.target = d.target /\ Len(c.path) < Len(d.path)
        \/ c.target = d.target /\ Len(c.path) = Len(d.path) /\ PathOrder[c.path] < PathOrder[d.path]

\* Files before directories; each by target, deepest first, then path bytes.
Before(c, d) ==
  \/ ~c.dir /\ d.dir
  \/ /\ c.dir = d.dir
     /\ \/ c.target < d.target
        \/ c.target = d.target /\ Len(c.path) > Len(d.path)
        \/ c.target = d.target /\ Len(c.path) = Len(d.path) /\ PathOrder[c.path] < PathOrder[d.path]

op_id(c) == Cardinality({d \in permits : Before(d, c)}) + 1

\* What path_to_op_id holds below the directory when its turn comes.
DependenciesOf(c) ==
  IF ~c.dir THEN {}
  ELSE {op_id(d) : d \in {x \in permits :
          Before(x, c) /\ x.target = c.target /\ IsBelow(x.path, c.path)}}

Operations ==
  [i \in 1 .. Cardinality(permits) |->
     LET c == CHOOSE x \in permits : op_id(x) = i
     IN [target |-> c.target, path |-> c.path, dir |-> c.dir, deps |-> DependenciesOf(c)]]

validate_plan(ops) ==
  /\ Len(ops) <= MaxOperations
  /\ \A i \in DOMAIN ops : ops[i].deps \subseteq 1 .. i - 1

\* authorize_plan: one capability per operation.  Plan and grant carry the
\* generations of the admission, so it never refuses.
authorize_plan(ops) ==
  {[dir |-> o.dir, target |-> o.target, path |-> o.path] : o \in Range(ops)}

\* build_plan, then authorize_plan.
BuildPlan ==
  /\ stage = "scan" /\ visiting = NoScan
  /\ todo = {} \/ stopping
  /\ IF Cardinality(permits) <= MaxOperations /\ validate_plan(Operations)
     THEN /\ stage' = "planned"
          /\ plan' = Operations
          /\ grant' = authorize_plan(Operations)
     ELSE stage' = "failed" /\ UNCHANGED <<plan, grant>>
  /\ UNCHANGED <<tree, changes, stopping, todo, visiting, stack, found, hitLimit,
                 errors, missed, statuses, permits, kept>>

-----------------------------------------------------------------------------

PlanNext ==
  \/ \E i \in Ids, p \in Paths : AppWrites(i, p) \/ AppRemoves(i, p)
  \/ JobCancelled
  \/ \E i \in Ids : ScanTarget(i)
  \/ \E e \in IF stack = << >> THEN {} ELSE Top.left : VisitEntry(e)
  \/ LeaveDirectory
  \/ JudgeCandidates
  \/ BuildPlan

PlanSpec == PlanInit /\ [][PlanNext]_planVars

PlanTypeOK ==
  /\ stage \in {"scan", "planned", "failed"}
  /\ visiting \in Ids \cup {NoScan} /\ todo \subseteq Ids
  /\ \A c \in found \cup permits : c.target \in Ids /\ c.path \in Paths
  /\ Cardinality(found) <= MaxCandidates
  /\ Len(stack) <= ScanDepth
  /\ statuses \in [Ids -> {"none", "Complete", "Partial", "Failed"}]

Planned(id, p) == {i \in DOMAIN plan : plan[i].target = id /\ plan[i].path = p}

\* May the entry stay although the directory above it is planned?
Refused(id, p) ==
  LET t == Target(id)
      c == [target |-> id, path |-> p, dir |-> tree[id][p].kind = "dir",
            mtime |-> tree[id][p].mtime, dev |-> tree[id][p].dev]
  IN ~validate_candidate(c, t) \/ ~evaluate_candidate(c, t)

\* The plan can be carried out in its order: validate_plan refuses no plan
\* within the budget, an rmdir comes after and depends on every operation
\* below it in its own target and no other, and when the scan of a target was
\* complete and passed nothing over, whatever no app touched below a planned
\* directory is planned before it or was refused by the gate or the policy.
PlanExecutable ==
  /\ stage = "failed" => Cardinality(permits) > MaxOperations
  /\ \A i \in DOMAIN plan : plan[i].dir =>
       LET o == plan[i]
           below == {p \in Paths : IsBelow(p, o.path)}
       IN /\ o.deps = UNION {Planned(o.target, p) : p \in below}
          /\ \A d \in o.deps : d < i
          /\ statuses[o.target] = "Complete" /\ o.target \notin missed =>
               \A p \in below \cap kept[o.target] :
                 Planned(o.target, p) # {} \/ Refused(o.target, p)

\* The scan, its frames and the order of the plan carry every rule through to
\* the operations: none for a whitelisted package, for one of the four categories
\* the policy tests (tombstones, OEM logs, temporary APKs, code cache) when it is
\* disabled, for a target below a protected root or an entry on another device,
\* for compiled code or anything below a code cache, and none for a file that was
\* younger than the retention age when the job began.  Every operation has its
\* capability and nothing else has one.
PlanKeepsRules ==
  /\ \A i \in DOMAIN plan :
       LET o == plan[i]
           t == Target(o.target)
       IN /\ t.package \notin Config.whitelist
          /\ ~CategoryDisabled(t)
          /\ \A r \in ProtectedRoots : ~StartsWith(t.base, r)
          /\ ~ProtectedBytecode(o.path)
          /\ o.path \in kept[o.target] /\ ~o.dir =>
               Config.min_age = 0 \/ tree[o.target][o.path].mtime + Config.min_age <= Now
          /\ o.path \in kept[o.target] => tree[o.target][o.path].dev = t.dev
  /\ Cardinality(grant) = Len(plan)
=============================================================================
