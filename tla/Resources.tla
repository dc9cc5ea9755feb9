----------------------------- MODULE Resources ------------------------------
(***************************************************************************)
(* ResourceManager (src/resource/mod.rs): the pool of file descriptor      *)
(* permits, a mutex with a condition variable, and the table of target     *)
(* locks; with its users, scanners that descend a tree (src/scanner/mod.rs)*)
(* and executors that walk to a parent directory and keep its handle       *)
(* (src/executor/mod.rs).                                                  *)
(*                                                                         *)
(* Storage and mount locks are tables of the same kind that nothing uses.  *)
(***************************************************************************)
EXTENDS Integers, Sequences, FiniteSets

CONSTANTS
  Scanners, Executors,   \* threads
  Targets,
  NoTarget,
  MaxFds,                \* max_fds
  MaxDepth,              \* bound on handles a thread has open
  MaxReservations        \* bound on the reservations handed out

Threads == Scanners \cup Executors

ASSUME ResourceAssumption ==
  /\ IsFiniteSet(Threads)
  /\ Scanners \cap Executors = {}
  /\ NoTarget \notin Targets
  /\ MaxFds \in Nat \ {0} /\ MaxDepth \in Nat \ {0} /\ MaxReservations \in Nat

VARIABLES
  active,       \* active_fds
  handles,      \* a thread's open directories; TRUE for one with a permit
  waiting,      \* its place in acquire_fd_permit_timeout
  late,         \* its timeout has passed
  locks,        \* locked_targets: the reservation of a locked target, or 0
  permit,       \* a thread's TargetLockPermit: target and reservation
  reservations  \* reservation_counter

resVars == <<active, handles, waiting, late, locks, permit, reservations>>

NoPermit == [target |-> NoTarget, reservation |-> 0]

ResTypeOK ==
  /\ active \in 0 .. MaxFds
  /\ handles \in [Threads -> UNION {[1 .. n -> BOOLEAN] : n \in 0 .. MaxDepth}]
  /\ waiting \in [Threads -> {"no", "asleep", "woken"}]
  /\ late \in [Threads -> BOOLEAN]
  /\ locks \in [Targets -> 0 .. MaxReservations]
  /\ permit \in [Threads -> [target : Targets \cup {NoTarget}, reservation : 0 .. MaxReservations]]
  /\ reservations \in 0 .. MaxReservations

Asleep == {t \in Threads : waiting[t] = "asleep"}
Woken == {t \in Threads : waiting[t] = "woken"}

-----------------------------------------------------------------------------

\* What a thread does with the answer: everybody opens a root with or without a
\* permit, an executor also what is below it; a scanner skips what it has no
\* permit for.
Answered(t, ok) ==
  /\ handles' = [handles EXCEPT ![t] =
       IF ok \/ @ = <<>> \/ t \in Executors THEN Append(@, ok) ELSE @]
  /\ waiting' = [waiting EXCEPT ![t] = "no"]
  /\ late' = [late EXCEPT ![t] = FALSE]
  /\ active' = IF ok THEN active + 1 ELSE active

FallAsleep(t) == waiting' = [waiting EXCEPT ![t] = "asleep"] /\ UNCHANGED <<active, handles, late>>

\* acquire_fd_permit, called to open a directory: the loop's first round.
AcquireFdPermit(t) ==
  /\ waiting[t] = "no"
  /\ Len(handles[t]) < MaxDepth
  /\ t \in Executors => permit[t] # NoPermit
  /\ \/ active < MaxFds /\ Answered(t, TRUE)
     \/ active >= MaxFds /\ FallAsleep(t)
  /\ UNCHANGED <<locks, permit, reservations>>

\* Mutation: a waiter whose time is over waits for the next notification.
RecheckAnyway(t) ==
  /\ waiting[t] = "woken"
  /\ \/ active < MaxFds /\ Answered(t, TRUE)
     \/ active >= MaxFds /\ FallAsleep(t)
  /\ UNCHANGED <<locks, permit, reservations>>

\* Another round, after wait_timeout has taken the mutex again: a permit that is
\* free is taken even then, and the timeout counts from the first round.
Recheck(t) ==
  /\ waiting[t] = "woken"
  /\ \/ active < MaxFds /\ Answered(t, TRUE)
     \/ active >= MaxFds /\ late[t] /\ Answered(t, FALSE)
     \/ active >= MaxFds /\ ~late[t] /\ FallAsleep(t)
  /\ UNCHANGED <<locks, permit, reservations>>

TimeoutPasses(t) ==
  /\ waiting[t] # "no"
  /\ ~late[t]
  /\ late' = [late EXCEPT ![t] = TRUE]
  /\ waiting' = [waiting EXCEPT ![t] = "woken"]
  /\ UNCHANGED <<active, handles, locks, permit, reservations>>

NotifyOne ==
  IF Asleep = {} THEN UNCHANGED waiting
  ELSE \E t \in Asleep : waiting' = [waiting EXCEPT ![t] = "woken"]

Without(s, i) == SubSeq(s, 1, i - 1) \o SubSeq(s, i + 1, Len(s))

\* A directory is closed: a scanner's innermost, an executor's outermost, which
\* its child or the next cached parent replaces.
Closes(t) == IF t \in Scanners THEN Len(handles[t]) ELSE 1

\* Mutation: waiters are notified only when the pool was full.
CloseNotifyingWhenFull(t) ==
  /\ waiting[t] = "no"
  /\ handles[t] # <<>>
  /\ handles' = [handles EXCEPT ![t] = Without(@, Closes(t))]
  /\ IF handles[t][Closes(t)]
       THEN /\ active' = IF active > 0 THEN active - 1 ELSE 0
            /\ IF active = MaxFds THEN NotifyOne ELSE UNCHANGED waiting
       ELSE UNCHANGED <<active, waiting>>
  /\ UNCHANGED <<late, locks, permit, reservations>>

\* Mutation: a handle opened without a permit gives one back.
CloseReturningNone(t) ==
  /\ waiting[t] = "no"
  /\ handles[t] # <<>>
  /\ handles' = [handles EXCEPT ![t] = Without(@, Closes(t))]
  /\ active' = IF active > 0 THEN active - 1 ELSE 0
  /\ NotifyOne
  /\ UNCHANGED <<late, locks, permit, reservations>>

\* FdPermit::drop, if the handle has one.
CloseHandle(t) ==
  /\ waiting[t] = "no"
  /\ handles[t] # <<>>
  /\ handles' = [handles EXCEPT ![t] = Without(@, Closes(t))]
  /\ IF handles[t][Closes(t)]
       THEN /\ active' = IF active > 0 THEN active - 1 ELSE 0
            /\ NotifyOne
       ELSE UNCHANGED <<active, waiting>>
  /\ UNCHANGED <<late, locks, permit, reservations>>

-----------------------------------------------------------------------------

\* acquire_target_lock_for_attempt: refused while the target is in the table.
AcquireTargetLock(t, x) ==
  /\ permit[t] = NoPermit
  /\ reservations < MaxReservations
  /\ locks[x] = 0
  /\ reservations' = reservations + 1
  /\ locks' = [locks EXCEPT ![x] = reservations']
  /\ permit' = [permit EXCEPT ![t] = [target |-> x, reservation |-> reservations']]
  /\ UNCHANGED <<active, handles, waiting, late>>

\* TargetLockPermit::drop, at the end of the operation: only its own reservation.
DropTargetLock(t) ==
  /\ waiting[t] = "no"
  /\ permit[t] # NoPermit
  /\ locks' = [locks EXCEPT ![permit[t].target] =
       IF @ = permit[t].reservation THEN 0 ELSE @]
  /\ permit' = [permit EXCEPT ![t] = NoPermit]
  /\ UNCHANGED <<active, handles, waiting, late, reservations>>

-----------------------------------------------------------------------------

ResInit ==
  /\ active = 0
  /\ handles = [t \in Threads |-> <<>>]
  /\ waiting = [t \in Threads |-> "no"]
  /\ late = [t \in Threads |-> FALSE]
  /\ locks = [x \in Targets |-> 0]
  /\ permit = [t \in Threads |-> NoPermit]
  /\ reservations = 0

ResNext ==
  \/ \E t \in Threads :
       AcquireFdPermit(t) \/ Recheck(t) \/ TimeoutPasses(t) \/ CloseHandle(t)
  \/ \E t \in Executors : DropTargetLock(t) \/ \E x \in Targets : AcquireTargetLock(t, x)

ResSpec == ResInit /\ [][ResNext]_resVars

-----------------------------------------------------------------------------

\* The permits alive: a thread and the place of a handle that has one.
Held == {h \in Threads \X (1 .. MaxDepth) : h[2] <= Len(handles[h[1]]) /\ handles[h[1]][h[2]]}

\* active_fds counts the permits alive, no more and no fewer, although handles
\* are also opened without one; and the lock table holds exactly the reservations
\* of the permits alive, so that two executors never share a target.
PermitsExact ==
  /\ active = Cardinality(Held)
  /\ \A x \in Targets :
       {permit[t].reservation : t \in {u \in Threads : permit[u].target = x}}
         = {locks[x]} \ {0}
  /\ \A t, u \in Threads : permit[t].target = permit[u].target /\ permit[t] # NoPermit => t = u

\* No wake-up is lost: while anybody sleeps, at least as many threads are on their
\* way to look again as there are permits to take, whatever timeouts, late
\* notifications and newcomers that overtake a waiter do to the queue.
NoLostWakeup == Asleep # {} => MaxFds - active <= Cardinality(Woken)

\* Threads that hold permits while they wait for more do not wait for each other
\* for ever: every acquire_fd_permit returns.
WaitEnds == \A t \in Threads : waiting[t] = "asleep" ~> waiting[t] = "no"

=============================================================================
