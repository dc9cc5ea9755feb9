-------------------------- MODULE MCDaemonControl --------------------------
(***************************************************************************)
(* DaemonControl for TLC.  Two IPC workers are the fewest that can race    *)
(* with each other and with the loop; a second clean is the first that a   *)
(* stale token, flag or thread can disturb.                                *)
(***************************************************************************)
EXTENDS DaemonControl, TLC

\* The IPC workers are interchangeable: sound for the runs without liveness.
HandlerSymmetry == Permutations(Handlers)
=============================================================================
