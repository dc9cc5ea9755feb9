---------------------------- MODULE MCEventLoop ----------------------------
(***************************************************************************)
(* The event loop with two intervals, so that a reload changes it, a retry *)
(* backoff that doubles once before it meets its maximum, and a clock that *)
(* runs long enough for a postponed cycle, its retry and the next cycle.   *)
(***************************************************************************)
EXTENDS EventLoop
=============================================================================
