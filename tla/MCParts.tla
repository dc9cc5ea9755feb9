------------------------------- MODULE MCParts -------------------------------
(***************************************************************************)
(* The parts of one daemon that share no state with each other: descriptor *)
(* permits and target locks, the rate limiter, the IPC workers, the        *)
(* catalog, the planning of a job, the idle assessment, the configuration. *)
(* Each behaviour follows one of them (focus), the others stay at rest.    *)
(***************************************************************************)
EXTENDS Resources, RateLimiter, IpcAdmission, Planning, Catalog, IdlePolicy, ConfigLayers

VARIABLE focus
vars == <<resVars, limVars, admVars, planVars, catVars, idleVars, confVars, focus>>

-----------------------------------------------------------------------------
\* Planning: an app cache with a two-level tree whose entries are old, young,
\* compiled code, links or on another device; the same paths in a second target; a
\* target below a protected root; one of a whitelisted package; one of a disabled
\* category.
MCPaths == {<<"d">>, <<"f">>, <<"d", "a">>, <<"d", "e">>, <<"d", "e", "x">>}
MCPathOrder ==
  [p \in MCPaths |-> CASE p = <<"d">> -> 1 [] p = <<"d", "a">> -> 2 [] p = <<"d", "e">> -> 3
                       [] p = <<"d", "e", "x">> -> 4 [] p = <<"f">> -> 5]
Old == [kind |-> "file", mtime |-> 0, dev |-> 1]
Young == [Old EXCEPT !.mtime = 2]
Foreign == [Old EXCEPT !.dev = 2]
Link == [Old EXCEPT !.kind = "link"]
Folder == [Old EXCEPT !.kind = "dir"]
AppTrees ==
  {f \in [MCPaths -> {Absent, Folder, Old, Young, Foreign, Link}] :
     /\ IsTree(f) /\ f[<<"d">>] = Folder
     /\ <<f[<<"f">>], f[<<"d", "a">>]>> \in {<<Foreign, Absent>>, <<Old, Absent>>, <<Absent, Old>>, <<Absent, Young>>}
     /\ f[<<"d", "e">>] \in {Folder, Link}
     /\ f[<<"d", "e", "x">>] \in {Absent, Folder, Old}}
Holding(S) == [p \in MCPaths |-> IF p \in S THEN IF p = <<"d">> THEN Folder ELSE Old ELSE Absent]
MCTrees == <<AppTrees, {Holding({<<"d">>, <<"d", "a">>})}>> \o [i \in 1 .. 3 |-> {Holding({<<"d">>})}]
Descriptor(id, class, base, package) ==
  [id |-> id, class |-> class, tier |-> "StandardCache", dev |-> 1, base |-> base, package |-> package]
MCSnapshot ==
  {Descriptor(1, "AppCache", <<"data", "data", "p">>, "p"),
   Descriptor(2, "Tombstones", <<"data", "tombstones">>, "none"),
   Descriptor(3, "LogArchive", <<"data", "system", "dropbox">>, "none"),
   Descriptor(4, "AppCache", <<"data", "data", "w">>, "w"),
   Descriptor(5, "TempDir", <<"data", "local", "tmp">>, "none")}
MCJobTargets == {{1}, {1, 2}, {3}, {4, 5}}
MCConfig ==
  [clean_tombstones |-> TRUE, clean_oem_logs |-> TRUE, clean_temp_apks |-> FALSE,
   clean_code_cache |-> FALSE, whitelist |-> {"w"}, min_age |-> 1]
MCRoots == {<<"data", "system">>}

\* Catalog: two users, CE and DE twins, an external cache.
Cache(u, p, a) == [user |-> u, pkg |-> p, area |-> a]
MCCaches ==
  {Cache(0, "p", "ce"), Cache(0, "q", "ce"), Cache(0, "p", "de"), Cache(0, "p", "ext"),
   Cache(10, "p", "ce"), Cache(10, "p", "de")}

\* Idle: no zone, half a degree, cool, exactly 40 besides a hot zone that is not
\* the SoC's, and 40.5, 44.9, 47 and 52 degrees in the three units.
Zone(soc, raw) == [soc |-> soc, raw |-> raw]
MCZones ==
  {{}, {Zone(TRUE, 500)}, {Zone(TRUE, Milli(37000))},
   {Zone(TRUE, Milli(40)), Zone(FALSE, Milli(520))}, {Zone(FALSE, Milli(405))},
   {Zone(TRUE, Milli(44900))}, {Zone(TRUE, Milli(47000)), Zone(TRUE, Milli(300))},
   {Zone(TRUE, Milli(52))}}

\* Configuration: accepted, accepted by the daemon only (twice), rejected.
Conf(interval, soc) == [interval |-> interval, soc |-> soc]
MCContents == {Conf(60, 45), Conf(59, 95), Conf(60, NaN), Conf(29, 45)}
MCDefault == Conf(3600, 45)

-----------------------------------------------------------------------------

\* A part that is not followed starts in one fixed state.
OnlyIf(part, initial) == focus = part \/ (focus # part /\ initial)

Init ==
  /\ focus \in {"permits", "limiter", "admission", "planning", "catalog", "idle", "config"}
  /\ ResInit /\ AdmInit /\ IdleInit
  /\ LimInit
  /\ OnlyIf("limiter", \A r \in Rates : r <= rate)
  /\ tree \in {[i \in Ids |-> IF i = 1 THEN f ELSE CHOOSE g \in MCTrees[i] : TRUE] : f \in AppTrees}
  /\ OnlyIf("planning", tree[1] = CHOOSE f \in AppTrees : TRUE)
  /\ todo \in MCJobTargets
  /\ OnlyIf("planning", todo = {1})
  /\ 1 \in todo \/ tree[1] = CHOOSE f \in AppTrees : TRUE
  /\ todo = {1, 2} => tree[1][<<"d", "a">>] = Old /\ tree[1][<<"d", "e">>] = Folder
  /\ PlanInit
  /\ OnlyIf("catalog", /\ ce = [u \in Users |-> "absent"] /\ de = [u \in Users |-> FALSE]
                       /\ junk = FALSE)
  /\ locked \in [Users -> {{}, {"p"}}] /\ locked[10] = {}
  /\ caches \in {MCCaches, {Cache(0, "p", "ce")}}
  /\ OnlyIf("catalog", caches = MCCaches /\ locked[0] = {})
  /\ CatInit
  /\ OnlyIf("config", files = [p \in Layers |-> Missing])
  /\ ConfInit
  /\ files["given"] \in {Missing, Conf(60, 45), Conf(29, 45)} /\ files["local"] = Missing

Permits == focus = "permits" /\ UNCHANGED <<limVars, admVars, planVars, catVars, idleVars, confVars, focus>>
Limiter == focus = "limiter" /\ UNCHANGED <<resVars, admVars, planVars, catVars, idleVars, confVars, focus>>
Admission == focus = "admission" /\ UNCHANGED <<resVars, limVars, planVars, catVars, idleVars, confVars, focus>>
Job == focus = "planning" /\ UNCHANGED <<resVars, limVars, admVars, catVars, idleVars, confVars, focus>>
Discovery == focus = "catalog" /\ UNCHANGED <<resVars, limVars, admVars, planVars, idleVars, confVars, focus>>
Idling == focus = "idle" /\ UNCHANGED <<resVars, limVars, admVars, planVars, catVars, confVars, focus>>
Configuring == focus = "config" /\ UNCHANGED <<resVars, limVars, admVars, planVars, catVars, idleVars, focus>>

Next ==
  \/ \E t \in Threads : Permits /\ AcquireFdPermit(t)
  \/ \E t \in Threads : Permits /\ Recheck(t)
  \/ \E t \in Threads : Permits /\ TimeoutPasses(t)
  \/ \E t \in Threads : Permits /\ CloseHandle(t)
  \/ \E t \in Executors, x \in Targets : Permits /\ AcquireTargetLock(t, x)
  \/ \E t \in Executors : Permits /\ DropTargetLock(t)
  \/ Limiter /\ ClockTicks
  \/ \E r \in Rates : Limiter /\ SetMode(r)
  \/ Limiter /\ Take
  \/ Limiter /\ WindowBegins
  \/ \E c \in Conns : Admission /\ Accept(c)
  \/ \E c \in Conns : Admission /\ CompareExchange(c)
  \/ \E c \in Conns : Admission /\ RejectBusy(c)
  \/ \E c \in Conns : Admission /\ SpawnIpcWorker(c)
  \/ \E c \in Conns : Admission /\ ReadCommand(c)
  \/ \E c \in Conns : Admission /\ WorkerEnds(c)
  \/ \E i \in Ids, p \in Paths : Job /\ AppWrites(i, p)
  \/ \E i \in Ids, p \in Paths : Job /\ AppRemoves(i, p)
  \/ Job /\ JobCancelled
  \/ \E i \in Ids : Job /\ ScanTarget(i)
  \/ \E e \in IF stack = << >> THEN {} ELSE Top.left : Job /\ VisitEntry(e)
  \/ Job /\ LeaveDirectory
  \/ Job /\ JudgeCandidates
  \/ Job /\ BuildPlan
  \/ \E u \in Users : Discovery /\ KeyChanges(u)
  \/ \E c \in Caches : Discovery /\ CacheChanges(c)
  \/ \E u \in Users : Discovery /\ UserRemoved(u)
  \/ Discovery /\ DiscoveryBegins
  \/ \E u \in Users : Discovery /\ JudgeUser(u)
  \/ Discovery /\ Collect
  \/ Discovery /\ FallBack
  \/ Discovery /\ Publish
  \/ \E w \in Workers : Idling /\ ReadThermal(w)
  \/ \E w \in Workers : Idling /\ StoreAndAnswer(w)
  \/ \E r \in Reloaders : Configuring /\ ReloadBegins(r)
  \/ \E r \in Reloaders : Configuring /\ ReloadFails(r)
  \/ \E r \in Reloaders : Configuring /\ ReloadEngine(r)
  \/ \E r \in Reloaders : Configuring /\ ReloadDaemon(r)
  \/ Configuring /\ JobRuns
  \/ Configuring /\ SaveCreates
  \/ Configuring /\ SaveWrites
  \/ Configuring /\ SaveRenames
  \/ Configuring /\ SaveDies
  \/ \E p \in Layers : Configuring /\ OwnerWrites(p)

\* wait_timeout returns when its time is over, and the mutex is never held for long.
Spec ==
  /\ Init /\ [][Next]_vars
  /\ \A t \in Threads :
       /\ WF_vars(Permits /\ TimeoutPasses(t))
       /\ WF_vars(Permits /\ Recheck(t))

\* Every part keeps its type: counters within their width and bounds, the
\* bucket of the limiter never above the capacity of the mode in effect.
TypeOK ==
  /\ ResTypeOK /\ LimTypeOK /\ AdmTypeOK
  /\ PlanTypeOK /\ CatTypeOK /\ IdleTypeOK /\ ConfTypeOK
=============================================================================
