---------------------------- MODULE MCPidLock -------------------------------
(***************************************************************************)
(* Three processes: one that holds the lock and lets go of it, or is       *)
(* stopped, and two more that probe, sweep or take it meanwhile.  PIDs are *)
(* interchangeable and only safety is checked, so symmetry is sound.       *)
(***************************************************************************)
EXTENDS PidLock, TLC

PidSymmetry == Permutations(Procs)
=============================================================================
