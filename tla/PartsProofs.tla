----------------------------- MODULE PartsProofs -----------------------------
(***************************************************************************)
(* The specification of the run parts implements the specification of each *)
(* part, so that what ComponentProofs and PlanningProofs show of the parts *)
(* holds of it, for all constants and not only those of the run.           *)
(***************************************************************************)
EXTENDS MCParts, ComponentProofs, PlanningProofs

\* A step is one of the part that is followed and changes no other.
LEMMA StepOfOnePart ==
  ASSUME Next
  PROVE  \/ Permits /\ ResNext
         \/ Limiter /\ LimNext
         \/ Admission /\ AdmNext
         \/ Job /\ PlanNext
         \/ Discovery /\ CatNext
         \/ Idling /\ IdleNext
         \/ Configuring /\ ConfNext
BY Zenon DEF Next, ResNext, LimNext, AdmNext, PlanNext, CatNext, IdleNext, ConfNext

\* Whatever part is followed, every part takes a step of its own or none.
LEMMA StepOfEveryPart ==
  ASSUME [Next]_vars
  PROVE  /\ [ResNext]_resVars /\ [LimNext]_limVars /\ [AdmNext]_admVars /\ [PlanNext]_planVars
         /\ [CatNext]_catVars /\ [IdleNext]_idleVars /\ [ConfNext]_confVars
<1>1. CASE Next
  BY <1>1, StepOfOnePart, Zenon
     DEF Permits, Limiter, Admission, Job, Discovery, Idling, Configuring
<1>2. CASE UNCHANGED vars
  BY <1>2, Zenon DEF vars
<1> QED
  BY <1>1, <1>2, Zenon

\* The parts run side by side as each of them does alone: their specification
\* implements the one of every part, of ResourceManager, the rate limiter, the
\* IPC server, the planner, the catalog, the idle policy and the configuration.
THEOREM EveryPartImplemented ==
  Spec => ResSpec /\ LimSpec /\ AdmSpec /\ PlanSpec /\ CatSpec /\ IdleSpec /\ ConfSpec
<1>1. Init => ResInit /\ LimInit /\ AdmInit /\ PlanInit /\ CatInit /\ IdleInit /\ ConfInit
  BY Zenon DEF Init
<1>2. [Next]_vars =>
        /\ [ResNext]_resVars /\ [LimNext]_limVars /\ [AdmNext]_admVars /\ [PlanNext]_planVars
        /\ [CatNext]_catVars /\ [IdleNext]_idleVars /\ [ConfNext]_confVars
  BY StepOfEveryPart, Zenon
<1> QED
  BY <1>1, <1>2, PTL DEF Spec, ResSpec, LimSpec, AdmSpec, PlanSpec, CatSpec, IdleSpec, ConfSpec

\* Every part keeps its type, as long as the daemon runs: counters stay within
\* their width and bounds, the bucket of the limiter within the capacity of the mode.
THEOREM PartsTyped == Spec => []TypeOK
<1>1. ResTypeOK /\ LimTypeOK /\ AdmTypeOK /\ PlanTypeOK /\ CatTypeOK /\ IdleTypeOK /\ ConfTypeOK
        => TypeOK
  BY Zenon DEF TypeOK
<1> QED
  BY <1>1, EveryPartImplemented, ResourcesExact, BurstAlwaysBounded, AdmissionExact,
     PlanAlwaysSound, SnapshotAlwaysSound, VerdictAlwaysSafe, ConfigAlwaysSound, PTL

\* And every part keeps what it promises: permits and locks are exact and no
\* wake-up is lost, bursts are bounded, workers counted, plans executable and
\* within the rules, snapshots, verdicts and configurations sound.
THEOREM PartsSafe ==
  Spec => [](/\ PermitsExact /\ NoLostWakeup /\ BurstBounded /\ WorkersExact
             /\ PlanExecutable /\ PlanKeepsRules
             /\ SnapshotSound /\ VerdictSafe /\ ConfigSound)
BY EveryPartImplemented, ResourcesExact, BurstAlwaysBounded, AdmissionExact,
   PlanAlwaysSound, SnapshotAlwaysSound, VerdictAlwaysSafe, ConfigAlwaysSound, PTL
=============================================================================
