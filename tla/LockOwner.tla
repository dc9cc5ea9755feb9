----------------------------- MODULE LockOwner ------------------------------
(***************************************************************************)
(* What the PID lock promises: it has one owner or none, passes to a       *)
(* process only when nobody has it, and leaves its owner only by a step of *)
(* that owner.  CleanPipeline has it as one variable; PidLock builds it    *)
(* from files and advisory locks.                                          *)
(***************************************************************************)
CONSTANTS Users, Nobody

VARIABLE owner

LockInit == owner = Nobody

Take(p) == owner = Nobody /\ owner' = p

Give(p) == owner = p /\ owner' = Nobody

LockNext == \E p \in Users : Take(p) \/ Give(p)

LockSpec == LockInit /\ [][LockNext]_owner

=============================================================================
