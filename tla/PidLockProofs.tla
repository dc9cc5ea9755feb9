--------------------------- MODULE PidLockProofs ----------------------------
(***************************************************************************)
(* PidLock for any number of processes: one holder, files that name it,    *)
(* and a stop that signals holders only and leaves none.                   *)
(*                                                                         *)
(* The argument.  A holder's lock is on the inode it has open.  As long as *)
(* nobody removes LOCK_PATH under a process that has it open, everyone who *)
(* tries for the lock has the same inode open, so there is one holder; so  *)
(* only that holder writes PID_PATH; so PIDs in it are those of holders;   *)
(* so stop_daemon finds nobody else.                                       *)
(***************************************************************************)
EXTENDS PidLock, FiniteSetTheorems, TLAPS

\* The steps at which a process has the advisory lock of the file it has open.
Locking == Holding \cup {"probeunlock", "sweepunlock"}
Opened == Locking \cup {"flock", "probetest", "sweeptest"}

\* A lock is on the file its owner has open.
Locked ==
  \A p \in Procs : /\ pc[p] \in Opened => fd[p] # None
                   /\ pc[p] \in Locking => lockedBy[fd[p]] = p

\* Claimants have the file open that LOCK_PATH names.
Linked == ~orphaned => \A p \in Procs : Claims(p) => fd[p] = lockPath

\* PID_PATH names the holder.
Named ==
  ~orphaned /\ ~misled =>
    \A p \in Procs : pc[p] \in {"held", "serving", "cleaning"} => pidFile = p

\* PIDs in PID_PATH, and those found there, are of processes that held the lock.
Known ==
  reused = 0 =>
    /\ \A p \in Procs : pc[p] \in Holding => p \in holders
    /\ pidFile \in Procs => pidFile \in holders
    /\ \A p \in Procs : found[p] \in holders \cup {None}
    /\ \A p \in holders : pc[p] # "new"
    /\ ~stray

PInv == TypeOK /\ Locked /\ Linked /\ Named /\ Known /\ StopLeavesNone

-----------------------------------------------------------------------------

\* There is a number for a new file: fewer files are open than there are inodes.
LEMMA FreshInode ==
  ASSUME TypeOK, lockPath = None
  PROVE  NewInode \in Inodes
<1>1. IsFiniteSet(Procs) /\ Cardinality(Procs) \in Nat
  BY PidAssumption, FS_CardinalityType, Zenon
<1>2. IsFiniteSet(Inodes) /\ Cardinality(Procs) < Cardinality(Inodes)
  BY <1>1, FS_Interval DEF Inodes
<1>3. \E i \in Inodes : \A q \in Procs : fd[q] # i
  <2> SUFFICES ASSUME \A i \in Inodes : \E q \in Procs : fd[q] = i
               PROVE  FALSE
    BY Zenon
  <2> DEFINE g == [i \in Inodes |-> CHOOSE q \in Procs : fd[q] = i]
  <2>1. g \in [Inodes -> Procs] /\ \A i \in Inodes : fd[g[i]] = i
    BY Zenon
  <2> HIDE DEF g
  <2>2. \E i, j \in Inodes : i # j /\ g[i] = g[j]
    BY <1>1, <1>2, <2>1, FS_PigeonHole
  <2> QED
    BY <2>1, <2>2, Zenon
<1>4. \A i \in Inodes : i # lockPath
  BY PidAssumption, <1>1 DEF Inodes
<1> QED
  BY <1>3, <1>4, Zenon DEF NewInode

\* A process that ends leaves every variable its type.
LEMMA EndsType ==
  ASSUME TypeOK, NEW p \in Procs, Ends(p)
  PROVE  /\ pc' \in [Procs -> Labels]
         /\ fd' \in [Procs -> Inodes \cup {None}]
         /\ found' \in [Procs -> Procs \cup {None}]
         /\ lockedBy' \in [Inodes -> Procs \cup {None}]
         /\ abstract' \in Procs \cup {None}
         /\ stopping' \subseteq Procs /\ killed' \subseteq Procs
BY Zenon DEF TypeOK, Ends, Goto, Unlocked, Labels

\* So does a stop that is done, also when a start follows.
LEMMA StopDoneType ==
  ASSUME TypeOK, NEW p \in Procs, StopDone(p)
  PROVE  /\ prog' \in [Procs -> Programs \cup {"none"}]
         /\ pc' \in [Procs -> Labels]
         /\ fd' \in [Procs -> Inodes \cup {None}]
         /\ found' \in [Procs -> Procs \cup {None}]
         /\ lockedBy' \in [Inodes -> Procs \cup {None}]
         /\ abstract' \in Procs \cup {None}
         /\ stopping' \subseteq Procs /\ killed' \subseteq Procs
<1>1. CASE prog[p] = "restart"
  BY <1>1, Zenon DEF TypeOK, StopDone, Goto, Labels, Probing, Programs, signals
<1>2. CASE prog[p] # "restart"
  <2>1. Ends(p) /\ prog' = prog
    BY <1>2, Zenon DEF StopDone
  <2> QED
    BY <2>1, EndsType, Zenon DEF TypeOK
<1> QED
  BY <1>1, <1>2, Zenon

\* Every step keeps the types.
LEMMA TypeStep ==
  ASSUME TypeOK, [Next]_vars
  PROVE  TypeOK'
<1> USE DEF TypeOK, Goto, At, Labels, files, ipc, signals, bounds, history
<1> SUFFICES ASSUME NEW p \in Procs,
                    \/ Holder(p) \/ Probe(p) \/ Tiers(p) \/ Sweep(p) \/ Command(p)
                    \/ Launch(p) \/ Die(p) \/ Crash(p) \/ PidReused(p)
             PROVE  TypeOK'
  BY Zenon DEF Next, vars
<1>1. CASE OpenLock(p)
  BY <1>1, FreshInode, Zenon DEF OpenLock
<1>2. CASE TryFlock(p)
  BY <1>2, EndsType DEF TryFlock, Holding
<1>3. CASE TruncatePid(p)
  BY <1>3, Zenon DEF TruncatePid, Holding
<1>4. CASE WritePid(p)
  BY <1>4, Zenon DEF WritePid, Holding
<1>5. CASE PidFileFails(p)
  BY <1>5, EndsType, Zenon DEF PidFileFails
<1>6. CASE BindSocket(p)
  BY <1>6, Zenon DEF BindSocket, Holding
<1>7. CASE Shutdown(p)
  BY <1>7, Zenon DEF Shutdown, Holding, Unlocked
<1>8. CASE StandaloneEnds(p)
  BY <1>8, Zenon DEF StandaloneEnds, Holding
<1>9. CASE ReleaseLock(p)
  BY <1>9, Zenon DEF ReleaseLock, Unlocked
<1>10. CASE DropPid(p)
  BY <1>10, Zenon DEF DropPid, RemovePid
<1>11. CASE DropLock(p)
  BY <1>11, EndsType, Zenon DEF DropLock, RemoveLock
<1>12. CASE ProbeOpen(p)
  BY <1>12, Zenon DEF ProbeOpen, Probing
<1>13. CASE ProbeTest(p)
  BY <1>13 DEF ProbeTest, Probing
<1>14. CASE ProbeUnlock(p)
  BY <1>14, Zenon DEF ProbeUnlock, Probing, Unlocked
<1>15. CASE ReadPid(p)
  BY <1>15, Zenon DEF ReadPid, Probing, is_process_alive
<1>16. CASE IpcStop(p)
  BY <1>16, Zenon DEF IpcStop, Stopping, Sweeping
<1>17. CASE SigTerm(p)
  <2>1. CASE ~is_process_alive(found[p])
    BY <1>17, <2>1 DEF SigTerm, Sweeping
  <2>2. CASE is_process_alive(found[p])
    <3>1. found[p] \in Procs
      BY <2>2, Zenon DEF is_process_alive
    <3>2. stopping' \subseteq Procs /\ killed' \subseteq Procs
      BY <1>17, <2>2, <3>1 DEF SigTerm
    <3> QED
      BY <1>17, <2>2, <3>2, Zenon DEF SigTerm, Stopping, Signals
  <2> QED
    BY <2>1, <2>2, Zenon
<1>18. CASE SigKill(p)
  BY <1>18, Zenon DEF SigKill, Sweeping, Signals, is_process_alive
<1>19. CASE SweepOpen(p)
  BY <1>19, StopDoneType DEF SweepOpen, Sweeping
<1>20. CASE SweepTest(p)
  BY <1>20, StopDoneType DEF SweepTest, Sweeping
<1>21. CASE SweepUnlock(p)
  BY <1>21, Zenon DEF SweepUnlock, Sweeping, Unlocked
<1>22. CASE SweepLock(p)
  BY <1>22, Zenon DEF SweepLock, Sweeping, RemoveLock
<1>23. CASE SweepPid(p)
  BY <1>23, StopDoneType, Zenon DEF SweepPid, RemovePid
<1>24. CASE BeginClean(p)
  BY <1>24, Zenon DEF BeginClean
<1>25. CASE DelegateEnds(p)
  BY <1>25, EndsType, Zenon DEF DelegateEnds
<1>26. CASE StartDaemon(p)
  BY <1>26, EndsType DEF StartDaemon, Programs
<1>27. CASE StopBegins(p)
  BY <1>27, Zenon DEF StopBegins, Stopping, Sweeping
<1>28. CASE ReloadByIpc(p)
  BY <1>28, EndsType, Zenon DEF ReloadByIpc, Probing
<1>29. CASE SigHup(p)
  BY <1>29, Zenon DEF SigHup, is_process_alive
<1>30. CASE Launch(p)
  BY <1>30 DEF Launch, Programs, Probing
<1>31. CASE Die(p)
  BY <1>31, EndsType, Zenon DEF Die
<1>32. CASE Crash(p)
  BY <1>32, EndsType, PidAssumption DEF Crash
<1>33. CASE PidReused(p)
  BY <1>33, PidAssumption DEF PidReused
<1> HIDE DEF TypeOK, Goto, At, Labels, files, ipc, signals, bounds, history
<1> QED
  BY <1>1, <1>2, <1>3, <1>4, <1>5, <1>6, <1>7, <1>8, <1>9, <1>10, <1>11, <1>12, <1>13, <1>14, <1>15, <1>16, <1>17, <1>18, <1>19, <1>20, <1>21, <1>22, <1>23, <1>24, <1>25, <1>26, <1>27, <1>28, <1>29, <1>30, <1>31, <1>32, <1>33, Zenon
     DEF Holder, Probe, Tiers, Sweep, Command

-----------------------------------------------------------------------------

\* A process that ends takes nothing from the others.
LEMMA EndsLocks ==
  ASSUME TypeOK, Locked, Linked, NEW p \in Procs, Ends(p)
  PROVE  Locked' /\ (lockPath' = lockPath /\ orphaned' = orphaned => Linked')
<1>1. \A q \in Procs \ {p} : pc'[q] = pc[q] /\ fd'[q] = fd[q]
  BY Zenon DEF TypeOK, Ends, Goto
<1>2. pc'[p] = "dead"
  BY Zenon DEF TypeOK, Ends, Goto
<1>3. Locked'
  <2> SUFFICES ASSUME NEW q \in Procs
               PROVE  /\ pc'[q] \in Opened => fd'[q] # None
                      /\ pc'[q] \in Locking => lockedBy'[fd'[q]] = q
    BY Zenon DEF Locked
  <2>1. CASE q = p
    BY <1>2, <2>1, Zenon DEF Opened, Locking, Holding
  <2>2. CASE q # p
    BY <1>1, <2>2 DEF TypeOK, Locked, Ends, Unlocked, Opened
  <2> QED
    BY <2>1, <2>2, Zenon
<1>4. lockPath' = lockPath /\ orphaned' = orphaned => Linked'
  BY <1>1, <1>2 DEF Linked, Claims, Holding
<1> QED
  BY <1>3, <1>4, Zenon

\* Nor does one that moves on without having taken a lock.
LEMMA MovesOn ==
  ASSUME TypeOK, Locked, Linked, NEW p \in Procs,
         pc' \in [Procs -> Labels], fd' \in [Procs -> Inodes \cup {None}],
         \A q \in Procs \ {p} : pc'[q] \in Opened => pc'[q] = pc[q] /\ fd'[q] = fd[q],
         \A q \in Procs \ {p}, i \in Inodes : lockedBy[i] = q => lockedBy'[i] = q,
         pc'[p] \notin Opened,
         lockPath' = lockPath, orphaned' = orphaned
  PROVE  Locked' /\ Linked'
<1>1. Locked'
  <2> SUFFICES ASSUME NEW q \in Procs, pc'[q] \in Opened
               PROVE  fd'[q] # None /\ (pc'[q] \in Locking => lockedBy'[fd'[q]] = q)
    BY Zenon DEF Locked, Opened
  <2> QED
    BY DEF TypeOK, Locked, Opened
<1>2. Linked'
  BY Zenon DEF Linked, Claims, Opened, Locking
<1> QED
  BY <1>1, <1>2, Zenon

\* A stop that is done is one or the other.
LEMMA StopDoneLocks ==
  ASSUME TypeOK, TypeOK', Locked, Linked, NEW p \in Procs, StopDone(p),
         lockPath' = lockPath, orphaned' = orphaned
  PROVE  Locked' /\ Linked'
<1>1. CASE prog[p] = "restart"
  <2>1. /\ pc' = [pc EXCEPT ![p] = "probe"]
        /\ fd' = [fd EXCEPT ![p] = None]
        /\ lockedBy' = lockedBy
    BY <1>1, Zenon DEF StopDone, Goto
  <2> QED
    BY <2>1, MovesOn, Zenon DEF TypeOK, Opened, Locking, Holding
<1>2. CASE prog[p] # "restart"
  BY <1>2, EndsLocks, Zenon DEF StopDone
<1> QED
  BY <1>1, <1>2, Zenon

\* A lock that was free is taken: nobody had it, so nobody loses it.
LEMMA Takes ==
  ASSUME TypeOK, Locked, Linked, NEW p \in Procs, NEW l \in Locking,
         pc[p] \in Opened, l \in Holding => pc[p] = "flock",
         lockedBy[fd[p]] = None,
         lockedBy' = [lockedBy EXCEPT ![fd[p]] = p],
         pc' = [pc EXCEPT ![p] = l],
         fd' = fd, lockPath' = lockPath, orphaned' = orphaned
  PROVE  Locked' /\ Linked'
<1>1. fd[p] \in Inodes
  BY Zenon DEF TypeOK, Locked
<1>2. Locked'
  <2> SUFFICES ASSUME NEW q \in Procs, pc'[q] \in Opened
               PROVE  fd'[q] # None /\ (pc'[q] \in Locking => lockedBy'[fd'[q]] = q)
    BY Zenon DEF Locked, Opened
  <2>1. CASE q = p
    BY <1>1, <2>1, PidAssumption, Zenon DEF TypeOK, Locked
  <2>2. CASE q # p
    <3>1. pc'[q] = pc[q] /\ fd[q] # None
      BY <2>2, Zenon DEF TypeOK, Locked
    <3>2. pc[q] \in Locking => lockedBy[fd[q]] = q /\ q # None
      BY PidAssumption, Zenon DEF Locked
    <3> QED
      BY <1>1, <3>1, <3>2, Zenon DEF TypeOK
  <2> QED
    BY <2>1, <2>2, Zenon
<1>3. Linked'
  BY Zenon DEF TypeOK, Linked, Claims, Holding, Locking
<1> QED
  BY <1>2, <1>3, Zenon

\* LOCK_PATH is removed: if a claimant had that file open, it is orphaned.
LEMMA Removes ==
  ASSUME Linked, NEW p \in Procs, RemoveLock(p), ~Claims(p)',
         \A q \in Procs \ {p} : pc'[q] = pc[q]
  PROVE  Linked'
<1>1. SUFFICES ASSUME ~orphaned' PROVE \A q \in Procs : ~Claims(q)'
  BY Zenon DEF Linked
<1>2. ~orphaned /\ \A q \in Procs \ {p} : ~(Claims(q) /\ fd[q] = lockPath)
  BY <1>1, Zenon DEF RemoveLock
<1> QED
  BY <1>2, Zenon DEF Linked, Claims

\* A lock stays with the file its owner has open, and a claimant's file with
\* its path.
LEMMA LockStep ==
  ASSUME TypeOK, TypeOK', Locked, Linked, [Next]_vars
  PROVE  Locked' /\ Linked'
<1> USE DEF Goto, At, files, ipc, signals, bounds, history
<1> SUFFICES ASSUME NEW p \in Procs,
                    \/ Holder(p) \/ Probe(p) \/ Tiers(p) \/ Sweep(p) \/ Command(p)
                    \/ Launch(p) \/ Die(p) \/ Crash(p) \/ PidReused(p)
             PROVE  Locked' /\ Linked'
  BY Zenon DEF Next, vars, Locked, Linked, Claims
<1>1. CASE OpenLock(p)
  <2>1. /\ lockPath' \in Inodes
        /\ fd' = [fd EXCEPT ![p] = lockPath']
        /\ pc' = [pc EXCEPT ![p] = "flock"]
        /\ lockedBy' = lockedBy /\ orphaned' = orphaned
        /\ lockPath = None \/ lockPath' = lockPath
    BY <1>1, FreshInode, Zenon DEF OpenLock, TypeOK
  <2>2. None \notin Inodes
    BY PidAssumption, FS_CardinalityType DEF Inodes
  <2>3. Locked'
    BY <2>1, <2>2 DEF TypeOK, Locked, Opened, Locking, Holding
  <2>4. lockPath = None /\ ~orphaned => \A q \in Procs : ~Claims(q)
    BY Zenon DEF Locked, Linked, Claims, Opened, Locking
  <2>5. Linked'
    BY <2>1, <2>4, Zenon DEF TypeOK, Linked, Claims
  <2> QED
    BY <2>3, <2>5, Zenon
<1>2. CASE TryFlock(p)
  <2>1. CASE lockedBy[fd[p]] = None
    BY <1>2, <2>1, Takes, Zenon DEF TryFlock, Opened, Locking, Holding
  <2>2. CASE lockedBy[fd[p]] # None
    BY <1>2, <2>2, EndsLocks, Zenon DEF TryFlock
  <2> QED
    BY <2>1, <2>2, Zenon
<1>3. CASE TruncatePid(p)
  BY <1>3, Zenon DEF TruncatePid,
     TypeOK, Locked, Linked, Claims, Opened, Locking, Holding
<1>4. CASE WritePid(p)
  BY <1>4 DEF WritePid,
     TypeOK, Locked, Linked, Claims, Opened, Locking, Holding
<1>5. CASE PidFileFails(p)
  BY <1>5, EndsLocks, Zenon DEF PidFileFails,
     TypeOK, Locked, Linked, Claims, Opened, Locking, Holding
<1>6. CASE BindSocket(p)
  BY <1>6, Zenon DEF BindSocket,
     TypeOK, Locked, Linked, Claims, Opened, Locking, Holding
<1>7. CASE Shutdown(p)
  BY <1>7 DEF Shutdown,
     TypeOK, Locked, Linked, Claims, Opened, Locking, Holding
<1>8. CASE StandaloneEnds(p)
  BY <1>8, Zenon DEF StandaloneEnds,
     TypeOK, Locked, Linked, Claims, Opened, Locking, Holding
<1>9. CASE ReleaseLock(p)
  BY <1>9 DEF ReleaseLock, Unlocked,
     TypeOK, Locked, Linked, Claims, Opened, Locking, Holding
<1>10. CASE DropPid(p)
  BY <1>10, Zenon DEF DropPid,
     TypeOK, Locked, Linked, Claims, Opened, Locking, Holding
<1>11. CASE DropLock(p)
  <2>1. Ends(p) /\ RemoveLock(p)
    BY <1>11, Zenon DEF DropLock
  <2>2. ~Claims(p)' /\ \A q \in Procs \ {p} : pc'[q] = pc[q]
    BY <2>1, Zenon DEF TypeOK, Ends, Claims, Holding
  <2> QED
    BY <2>1, <2>2, EndsLocks, Removes, Zenon
<1>12. CASE ProbeOpen(p)
  BY <1>12 DEF ProbeOpen,
     TypeOK, Locked, Linked, Claims, Opened, Locking, Holding
<1>13. CASE ProbeTest(p)
  <2>1. CASE lockedBy[fd[p]] = None
    BY <1>13, <2>1, Takes, Zenon DEF ProbeTest, Opened, Locking, Holding
  <2>2. CASE lockedBy[fd[p]] # None
    BY <1>13, <2>2, MovesOn DEF ProbeTest, TypeOK, Opened, Locking, Holding
  <2> QED
    BY <2>1, <2>2, Zenon
<1>14. CASE ProbeUnlock(p)
  BY <1>14 DEF ProbeUnlock, Unlocked,
     TypeOK, Locked, Linked, Claims, Opened, Locking, Holding
<1>15. CASE ReadPid(p)
  BY <1>15, Zenon DEF ReadPid,
     TypeOK, Locked, Linked, Claims, Opened, Locking, Holding
<1>16. CASE IpcStop(p)
  BY <1>16, Zenon DEF IpcStop,
     TypeOK, Locked, Linked, Claims, Opened, Locking, Holding
<1>17. CASE SigTerm(p)
  BY <1>17 DEF SigTerm,
     TypeOK, Locked, Linked, Claims, Opened, Locking, Holding
<1>18. CASE SigKill(p)
  BY <1>18, Zenon DEF SigKill,
     TypeOK, Locked, Linked, Claims, Opened, Locking, Holding
<1>19. CASE SweepOpen(p)
  <2>1. CASE lockPath # None
    BY <1>19, <2>1 DEF SweepOpen, TypeOK, Locked, Linked, Claims, Opened, Locking, Holding
  <2>2. CASE lockPath = None
    BY <1>19, <2>2, StopDoneLocks, Zenon DEF SweepOpen
  <2> QED
    BY <2>1, <2>2, Zenon
<1>20. CASE SweepTest(p)
  <2>1. CASE lockedBy[fd[p]] = None
    BY <1>20, <2>1, Takes, Zenon DEF SweepTest, Opened, Locking, Holding
  <2>2. CASE lockedBy[fd[p]] # None
    BY <1>20, <2>2, StopDoneLocks, Zenon DEF SweepTest
  <2> QED
    BY <2>1, <2>2, Zenon
<1>21. CASE SweepUnlock(p)
  BY <1>21 DEF SweepUnlock, Unlocked,
     TypeOK, Locked, Linked, Claims, Opened, Locking, Holding
<1>22. CASE SweepLock(p)
  <2>1. /\ RemoveLock(p)
        /\ pc' = [pc EXCEPT ![p] = "sweeppid"]
        /\ fd' = fd /\ lockedBy' = lockedBy
    BY <1>22, Zenon DEF SweepLock
  <2>2. ~Claims(p)' /\ \A q \in Procs \ {p} : pc'[q] = pc[q]
    BY <2>1, Zenon DEF TypeOK, Claims, Holding
  <2>3. Locked'
    BY <2>1, Zenon DEF TypeOK, Locked, Opened, Locking, Holding
  <2> QED
    BY <2>1, <2>2, <2>3, Removes, Zenon
<1>23. CASE SweepPid(p)
  BY <1>23, StopDoneLocks, Zenon DEF SweepPid
<1>24. CASE BeginClean(p)
  BY <1>24 DEF BeginClean,
     TypeOK, Locked, Linked, Claims, Opened, Locking, Holding
<1>25. CASE DelegateEnds(p)
  BY <1>25, EndsLocks, Zenon DEF DelegateEnds,
     TypeOK, Locked, Linked, Claims, Opened, Locking, Holding
<1>26. CASE StartDaemon(p)
  BY <1>26, EndsLocks DEF StartDaemon,
     TypeOK, Locked, Linked, Claims, Opened, Locking, Holding
<1>27. CASE StopBegins(p)
  BY <1>27 DEF StopBegins,
     TypeOK, Locked, Linked, Claims, Opened, Locking, Holding
<1>28. CASE ReloadByIpc(p)
  BY <1>28, EndsLocks DEF ReloadByIpc,
     TypeOK, Locked, Linked, Claims, Opened, Locking, Holding
<1>29. CASE SigHup(p)
  BY <1>29 DEF SigHup,
     TypeOK, Locked, Linked, Claims, Opened, Locking, Holding
<1>30. CASE Launch(p)
  BY <1>30 DEF Launch,
     TypeOK, Locked, Linked, Claims, Opened, Locking, Holding
<1>31. CASE Die(p)
  BY <1>31, EndsLocks, Zenon DEF Die,
     TypeOK, Locked, Linked, Claims, Opened, Locking, Holding
<1>32. CASE Crash(p)
  BY <1>32, EndsLocks, Zenon DEF Crash,
     TypeOK, Locked, Linked, Claims, Opened, Locking, Holding
<1>33. CASE PidReused(p)
  BY <1>33 DEF PidReused,
     TypeOK, Locked, Linked, Claims, Opened, Locking, Holding
<1> HIDE DEF Goto, At, files, ipc, signals, bounds, history
<1> QED
  BY <1>1, <1>2, <1>3, <1>4, <1>5, <1>6, <1>7, <1>8, <1>9, <1>10, <1>11, <1>12, <1>13, <1>14, <1>15, <1>16, <1>17, <1>18, <1>19, <1>20, <1>21, <1>22, <1>23, <1>24, <1>25, <1>26, <1>27, <1>28, <1>29, <1>30, <1>31, <1>32, <1>33
     DEF Holder, Probe, Tiers, Sweep, Command

\* Two holders of the lock would have the same file open, and a file has one
\* lock.
LEMMA Exclusive ==
  ASSUME TypeOK, Locked, Linked
  PROVE  OneHolder
BY Zenon DEF OneHolder, Locked, Linked, Claims, Locking

\* Only a holder writes PID_PATH, and there is no other; who removes it while
\* there is a holder misleads.
LEMMA NamedStep ==
  ASSUME TypeOK, OneHolder, Named, [Next]_vars
  PROVE  Named'
<1>a. pc \in [Procs -> Labels]
  BY Zenon DEF TypeOK
<1> USE <1>a DEF Named, Goto, At, files, ipc, signals, bounds, history
<1> SUFFICES ASSUME NEW p \in Procs,
                    \/ Holder(p) \/ Probe(p) \/ Tiers(p) \/ Sweep(p) \/ Command(p)
                    \/ Launch(p) \/ Die(p) \/ Crash(p) \/ PidReused(p)
             PROVE  Named'
  BY Zenon DEF Next, vars
<1>1. CASE OpenLock(p)
  BY <1>1, Zenon DEF OpenLock
<1>2. CASE TryFlock(p)
  BY <1>2, Zenon DEF TryFlock, Ends
<1>3. CASE TruncatePid(p)
  BY <1>3, Zenon DEF TruncatePid, OneHolder, Holding
<1>4. CASE WritePid(p)
  BY <1>4, Zenon DEF WritePid, OneHolder, Holding
<1>5. CASE PidFileFails(p)
  BY <1>5, Zenon DEF PidFileFails, Ends
<1>6. CASE BindSocket(p)
  BY <1>6, Zenon DEF BindSocket
<1>7. CASE Shutdown(p)
  BY <1>7, Zenon DEF Shutdown
<1>8. CASE StandaloneEnds(p)
  BY <1>8, Zenon DEF StandaloneEnds
<1>9. CASE ReleaseLock(p)
  BY <1>9, Zenon DEF ReleaseLock
<1>10. CASE DropPid(p)
  BY <1>10, Zenon DEF DropPid, RemovePid, Holding
<1>11. CASE DropLock(p)
  BY <1>11, Zenon DEF DropLock, Ends, RemoveLock, Holding
<1>12. CASE ProbeOpen(p)
  BY <1>12, Zenon DEF ProbeOpen
<1>13. CASE ProbeTest(p)
  BY <1>13, Zenon DEF ProbeTest
<1>14. CASE ProbeUnlock(p)
  BY <1>14, Zenon DEF ProbeUnlock
<1>15. CASE ReadPid(p)
  BY <1>15, Zenon DEF ReadPid, is_process_alive
<1>16. CASE IpcStop(p)
  BY <1>16, Zenon DEF IpcStop
<1>17. CASE SigTerm(p)
  BY <1>17, Zenon DEF SigTerm, Signals, is_process_alive
<1>18. CASE SigKill(p)
  BY <1>18, Zenon DEF SigKill, Signals, is_process_alive
<1>19. CASE SweepOpen(p)
  BY <1>19, Zenon DEF SweepOpen, StopDone, Ends
<1>20. CASE SweepTest(p)
  BY <1>20, Zenon DEF SweepTest, StopDone, Ends
<1>21. CASE SweepUnlock(p)
  BY <1>21, Zenon DEF SweepUnlock
<1>22. CASE SweepLock(p)
  BY <1>22, Zenon DEF SweepLock, RemoveLock
<1>23. CASE SweepPid(p)
  <2>1. pc'[p] \notin Holding /\ \A q \in Procs \ {p} : pc'[q] = pc[q]
    BY <1>23, Zenon DEF SweepPid, StopDone, Ends, Holding
  <2>2. ~misled' => \A q \in Procs \ {p} : pc[q] \notin Holding
    BY <1>23, Zenon DEF SweepPid, RemovePid
  <2> QED
    BY <2>1, <2>2, Zenon DEF Holding
<1>24. CASE BeginClean(p)
  BY <1>24, Zenon DEF BeginClean
<1>25. CASE DelegateEnds(p)
  BY <1>25, Zenon DEF DelegateEnds, Ends
<1>26. CASE StartDaemon(p)
  BY <1>26, Zenon DEF StartDaemon, Ends
<1>27. CASE StopBegins(p)
  BY <1>27, Zenon DEF StopBegins
<1>28. CASE ReloadByIpc(p)
  BY <1>28, Zenon DEF ReloadByIpc, Ends
<1>29. CASE SigHup(p)
  BY <1>29, Zenon DEF SigHup, is_process_alive
<1>30. CASE Launch(p)
  BY <1>30, Zenon DEF Launch
<1>31. CASE Die(p)
  BY <1>31, Zenon DEF Die, Ends
<1>32. CASE Crash(p)
  BY <1>32, Zenon DEF Crash, Ends
<1>33. CASE PidReused(p)
  BY <1>33, Zenon DEF PidReused
<1> HIDE DEF Named, Goto, At, files, ipc, signals, bounds, history
<1> QED
  BY <1>1, <1>2, <1>3, <1>4, <1>5, <1>6, <1>7, <1>8, <1>9, <1>10, <1>11, <1>12, <1>13, <1>14, <1>15, <1>16, <1>17, <1>18, <1>19, <1>20, <1>21, <1>22, <1>23, <1>24, <1>25, <1>26, <1>27, <1>28, <1>29, <1>30, <1>31, <1>32, <1>33, Zenon
     DEF Holder, Probe, Tiers, Sweep, Command

\* While no PID has been given out again: PID_PATH, and whoever has read it, know
\* only processes that have held the lock.
LEMMA KnownStep ==
  ASSUME TypeOK, Known, [Next]_vars
  PROVE  Known'
<1>a. /\ pc \in [Procs -> Labels] /\ found \in [Procs -> Procs \cup {None}]
      /\ holders \subseteq Procs /\ reused \in Nat
  BY PidAssumption DEF TypeOK
<1> USE <1>a DEF Known, Goto, At, files, ipc, signals, bounds, history
<1> SUFFICES ASSUME NEW p \in Procs,
                    \/ Holder(p) \/ Probe(p) \/ Tiers(p) \/ Sweep(p) \/ Command(p)
                    \/ Launch(p) \/ Die(p) \/ Crash(p) \/ PidReused(p)
             PROVE  Known'
  <2>1. CASE UNCHANGED vars
    <3>1. UNCHANGED <<pc, found, pidFile, reused, holders, stray>>
      BY <2>1, Zenon DEF vars
    <3> QED
      BY <3>1, Zenon
  <2> QED
    BY <2>1, Zenon DEF Next
<1>1. CASE OpenLock(p)
  BY <1>1, Zenon DEF OpenLock, Holding
<1>2. CASE TryFlock(p)
  BY <1>2 DEF TryFlock, Ends, Holding
<1>3. CASE TruncatePid(p)
  BY <1>3, PidAssumption, Zenon DEF TruncatePid, Holding
<1>4. CASE WritePid(p)
  BY <1>4, Zenon DEF WritePid, Holding
<1>5. CASE PidFileFails(p)
  BY <1>5, Zenon DEF PidFileFails, Ends, Holding
<1>6. CASE BindSocket(p)
  BY <1>6, Zenon DEF BindSocket, Holding
<1>7. CASE Shutdown(p)
  BY <1>7, Zenon DEF Shutdown, Holding
<1>8. CASE StandaloneEnds(p)
  BY <1>8, Zenon DEF StandaloneEnds, Holding
<1>9. CASE ReleaseLock(p)
  BY <1>9, Zenon DEF ReleaseLock, Holding
<1>10. CASE DropPid(p)
  BY <1>10, PidAssumption, Zenon DEF DropPid, RemovePid, Holding
<1>11. CASE DropLock(p)
  BY <1>11, Zenon DEF DropLock, Ends, RemoveLock, Holding
<1>12. CASE ProbeOpen(p)
  BY <1>12, Zenon DEF ProbeOpen, Holding
<1>13. CASE ProbeTest(p)
  BY <1>13 DEF ProbeTest, Holding
<1>14. CASE ProbeUnlock(p)
  BY <1>14, Zenon DEF ProbeUnlock, Holding
<1>15. CASE ReadPid(p)
  BY <1>15, Zenon DEF ReadPid, is_process_alive, Holding
<1>16. CASE IpcStop(p)
  BY <1>16, Zenon DEF IpcStop, Holding
<1>17. CASE SigTerm(p)
  BY <1>17, PidAssumption, Zenon DEF SigTerm, Signals, is_process_alive, Holding
<1>18. CASE SigKill(p)
  BY <1>18, PidAssumption, Zenon DEF SigKill, Signals, is_process_alive, Holding
<1>19. CASE SweepOpen(p)
  BY <1>19 DEF SweepOpen, StopDone, Ends, Holding
<1>20. CASE SweepTest(p)
  BY <1>20 DEF SweepTest, StopDone, Ends, Holding
<1>21. CASE SweepUnlock(p)
  BY <1>21, Zenon DEF SweepUnlock, Holding
<1>22. CASE SweepLock(p)
  BY <1>22, Zenon DEF SweepLock, RemoveLock, Holding
<1>23. CASE SweepPid(p)
  BY <1>23, PidAssumption DEF SweepPid, StopDone, Ends, RemovePid, Holding
<1>24. CASE BeginClean(p)
  BY <1>24, Zenon DEF BeginClean, Holding
<1>25. CASE DelegateEnds(p)
  BY <1>25, Zenon DEF DelegateEnds, Ends, Holding
<1>26. CASE StartDaemon(p)
  BY <1>26 DEF StartDaemon, Ends, Holding
<1>27. CASE StopBegins(p)
  BY <1>27, Zenon DEF StopBegins, Holding
<1>28. CASE ReloadByIpc(p)
  BY <1>28 DEF ReloadByIpc, Ends, Holding
<1>29. CASE SigHup(p)
  BY <1>29, Zenon DEF SigHup, is_process_alive, Holding
<1>30. CASE Launch(p)
  BY <1>30 DEF Launch, Holding
<1>31. CASE Die(p)
  BY <1>31, Zenon DEF Die, Ends, Holding
<1>32. CASE Crash(p)
  BY <1>32, Zenon DEF Crash, Ends, Holding
<1>33. CASE PidReused(p)
  BY <1>33 DEF PidReused, Holding
<1> HIDE DEF Known, Goto, At, files, ipc, signals, bounds, history
<1> QED
  BY <1>1, <1>2, <1>3, <1>4, <1>5, <1>6, <1>7, <1>8, <1>9, <1>10, <1>11, <1>12, <1>13, <1>14, <1>15, <1>16, <1>17, <1>18, <1>19, <1>20, <1>21, <1>22, <1>23, <1>24, <1>25, <1>26, <1>27, <1>28, <1>29, <1>30, <1>31, <1>32, <1>33
     DEF Holder, Probe, Tiers, Sweep, Command

\* A process that stop_daemon found is dead or doomed when the files are swept,
\* and stays so.
LEMMA StopStep ==
  ASSUME TypeOK, TypeOK', Known, StopLeavesNone, [Next]_vars
  PROVE  StopLeavesNone'
<1>a. /\ pc \in [Procs -> Labels] /\ found \in [Procs -> Procs \cup {None}]
      /\ reused \in Nat
  BY PidAssumption DEF TypeOK
<1>b. reused = 0 => \A q \in Procs : found[q] # None => pc[found[q]] # "new"
  BY Zenon DEF Known
<1> USE <1>a DEF StopLeavesNone, is_process_alive, Sweeping,
            Goto, At, files, ipc, signals, bounds, history
<1> SUFFICES ASSUME NEW p \in Procs,
                    \/ Holder(p) \/ Probe(p) \/ Tiers(p) \/ Sweep(p) \/ Command(p)
                    \/ Launch(p) \/ Die(p) \/ Crash(p) \/ PidReused(p)
             PROVE  StopLeavesNone'
  BY Zenon DEF Next, vars
<1>1. CASE OpenLock(p)
  BY <1>1, Zenon DEF OpenLock
<1>2. CASE TryFlock(p)
  BY <1>2 DEF TryFlock, Ends, Holding
<1>3. CASE TruncatePid(p)
  BY <1>3, Zenon DEF TruncatePid
<1>4. CASE WritePid(p)
  BY <1>4, Zenon DEF WritePid, Holding
<1>5. CASE PidFileFails(p)
  BY <1>5, Zenon DEF PidFileFails, Ends
<1>6. CASE BindSocket(p)
  BY <1>6, Zenon DEF BindSocket
<1>7. CASE Shutdown(p)
  BY <1>7, Zenon DEF Shutdown
<1>8. CASE StandaloneEnds(p)
  BY <1>8, Zenon DEF StandaloneEnds
<1>9. CASE ReleaseLock(p)
  BY <1>9, Zenon DEF ReleaseLock
<1>10. CASE DropPid(p)
  BY <1>10, Zenon DEF DropPid, RemovePid
<1>11. CASE DropLock(p)
  BY <1>11, Zenon DEF DropLock, Ends, RemoveLock
<1>12. CASE ProbeOpen(p)
  BY <1>12 DEF ProbeOpen
<1>13. CASE ProbeTest(p)
  BY <1>13, Zenon DEF ProbeTest
<1>14. CASE ProbeUnlock(p)
  BY <1>14, Zenon DEF ProbeUnlock
<1>15. CASE ReadPid(p)
  BY <1>15, Zenon DEF ReadPid, is_process_alive
<1>16. CASE IpcStop(p)
  BY <1>16, Zenon DEF IpcStop
<1>17. CASE SigTerm(p)
  BY <1>17 DEF SigTerm, Signals, is_process_alive
<1>18. CASE SigKill(p)
  BY <1>18, Zenon DEF SigKill, Signals, is_process_alive
<1>19. CASE SweepOpen(p)
  BY <1>19 DEF SweepOpen, StopDone, Ends
<1>20. CASE SweepTest(p)
  BY <1>20 DEF SweepTest, StopDone, Ends
<1>21. CASE SweepUnlock(p)
  BY <1>21, Zenon DEF SweepUnlock
<1>22. CASE SweepLock(p)
  BY <1>22, Zenon DEF SweepLock, RemoveLock
<1>23. CASE SweepPid(p)
  BY <1>23 DEF SweepPid, StopDone, Ends, RemovePid
<1>24. CASE BeginClean(p)
  BY <1>24, Zenon DEF BeginClean
<1>25. CASE DelegateEnds(p)
  BY <1>25, Zenon DEF DelegateEnds, Ends
<1>26. CASE StartDaemon(p)
  BY <1>26, <1>b DEF StartDaemon, Ends
<1>27. CASE StopBegins(p)
  BY <1>27, Zenon DEF StopBegins
<1>28. CASE ReloadByIpc(p)
  BY <1>28 DEF ReloadByIpc, Ends
<1>29. CASE SigHup(p)
  BY <1>29, Zenon DEF SigHup, is_process_alive
<1>30. CASE Launch(p)
  BY <1>30, <1>b DEF Launch
<1>31. CASE Die(p)
  BY <1>31, Zenon DEF Die, Ends
<1>32. CASE Crash(p)
  BY <1>32, Zenon DEF Crash, Ends
<1>33. CASE PidReused(p)
  BY <1>33 DEF PidReused
<1> HIDE DEF StopLeavesNone, is_process_alive, Sweeping,
             Goto, At, files, ipc, signals, bounds, history
<1> QED
  BY <1>1, <1>2, <1>3, <1>4, <1>5, <1>6, <1>7, <1>8, <1>9, <1>10, <1>11, <1>12, <1>13, <1>14, <1>15, <1>16, <1>17, <1>18, <1>19, <1>20, <1>21, <1>22, <1>23, <1>24, <1>25, <1>26, <1>27, <1>28, <1>29, <1>30, <1>31, <1>32, <1>33, Zenon
     DEF Holder, Probe, Tiers, Sweep, Command

-----------------------------------------------------------------------------

\* The invariant holds from the first state on.
THEOREM Invariant == Spec => []PInv
<1>1. Init => PInv
  <2> SUFFICES ASSUME Init PROVE PInv
    BY Zenon
  <2>1. TypeOK
    <3>1. crashes \in 0 .. MaxCrashes /\ reused \in 0 .. MaxReused
      BY PidAssumption DEF Init
    <3>2. prog \in [Procs -> Programs \cup {"none"}] /\ pc \in [Procs -> Labels]
      BY Zenon DEF Init, Labels
    <3>3. /\ fd \in [Procs -> Inodes \cup {None}] /\ found \in [Procs -> Procs \cup {None}]
          /\ lockedBy \in [Inodes -> Procs \cup {None}]
      BY Zenon DEF Init
    <3> QED
      BY <3>1, <3>2, <3>3, Zenon DEF Init, TypeOK
  <2>2. Locked /\ Linked /\ Named /\ StopLeavesNone
    BY Zenon DEF Init, Locked, Linked, Named, StopLeavesNone, Claims, Opened, Locking, Holding, Sweeping
  <2>3. Known
    BY PidAssumption, Zenon DEF Init, Known, Holding
  <2> QED
    BY <2>1, <2>2, <2>3, Zenon DEF PInv
<1>2. PInv /\ [Next]_vars => PInv'
  BY TypeStep, LockStep, Exclusive, NamedStep, KnownStep, StopStep, Zenon DEF PInv
<1> QED
  BY <1>1, <1>2, PTL DEF Spec

\* For any number of processes, crashes and reused PIDs: two processes hold the
\* PID lock at a time only after LOCK_PATH was removed under one that had it open.
THEOREM OneHolderAtATime == Spec => []OneHolder
<1>1. PInv => OneHolder
  BY Exclusive, Zenon DEF PInv
<1> QED
  BY <1>1, Invariant, PTL

\* For any number of processes: lock and PID file lead to the holder, unless one
\* of them was removed between another process's calls.
THEOREM FilesAlwaysNameHolder == Spec => []FilesNameHolder
<1>1. PInv => FilesNameHolder
  BY Zenon DEF PInv, Linked, Named, FilesNameHolder, Claims, Holding
<1> QED
  BY <1>1, Invariant, PTL

\* For any number of processes: stop_daemon signals only processes that have held
\* the lock, as long as no PID was given out again.
THEOREM StopAlwaysHitsHolders == Spec => []StopHitsHolders
<1>1. PInv => StopHitsHolders
  BY Zenon DEF PInv, Known, StopHitsHolders
<1> QED
  BY <1>1, Invariant, PTL

\* For any number of processes: when stop_daemon sweeps the files, the process it
\* found is dead or has a fatal signal pending.
THEOREM StopAlwaysLeavesNone == Spec => []StopLeavesNone
<1>1. PInv => StopLeavesNone
  BY Zenon DEF PInv
<1> QED
  BY <1>1, Invariant, PTL

-----------------------------------------------------------------------------
(***************************************************************************)
(* The files and advisory locks implement LockOwner.                       *)
(***************************************************************************)

\* Who holds the lock, from the flock to its release.
Owner ==
  IF \E p \in Procs : pc[p] \in Holding
  THEN CHOOSE p \in Procs : pc[p] \in Holding
  ELSE None

Lock == INSTANCE LockOwner WITH Users <- Procs, Nobody <- None, owner <- Owner

\* A step makes at most one process a holder, or one that was no longer one.
LEMMA OneMoves ==
  ASSUME TypeOK, [Next]_vars
  PROVE  \/ \A q \in Procs : pc'[q] \in Holding <=> pc[q] \in Holding
         \/ \E p \in Procs : \A q \in Procs : q # p => (pc'[q] \in Holding <=> pc[q] \in Holding)
<1>1. CASE UNCHANGED vars
  BY <1>1, Zenon DEF vars
<1>2. ASSUME NEW p \in Procs,
             \/ Holder(p) \/ Probe(p) \/ Tiers(p) \/ Sweep(p) \/ Command(p)
             \/ Launch(p) \/ Die(p) \/ Crash(p) \/ PidReused(p)
      PROVE  \A q \in Procs : q # p => (pc'[q] \in Holding <=> pc[q] \in Holding)
  <2>1. pc \in [Procs -> Labels]
    BY Zenon DEF TypeOK
  <2>2. CASE \E l : pc' = [pc EXCEPT ![p] = l]
    BY <2>1, <2>2, Zenon
  <2>3. CASE StartDaemon(p)
    <3>1. CASE \E q \in Procs : At(q, "new") /\ pc' = [pc EXCEPT ![q] = "open", ![p] = "leaving"]
      BY <2>1, <3>1, Zenon DEF At, Holding
    <3> QED
      BY <2>2, <2>3, <3>1, Zenon DEF StartDaemon, Ends, Goto
  <2>4. CASE Holder(p)
    BY <2>2, <2>4, Zenon DEF Holder, OpenLock, TryFlock, TruncatePid, WritePid, PidFileFails,
           BindSocket, Shutdown, StandaloneEnds, ReleaseLock, DropPid, DropLock, Ends, Goto
  <2>5. CASE Probe(p) \/ Tiers(p)
    BY <2>2, <2>5, Zenon DEF Probe, Tiers, ProbeOpen, ProbeTest, ProbeUnlock, ReadPid, IpcStop,
           SigTerm, SigKill, Goto
  <2>6. CASE Sweep(p)
    BY <2>2, <2>6, Zenon DEF Sweep, SweepOpen, SweepTest, SweepUnlock, SweepLock, SweepPid,
           StopDone, Ends, Goto
  <2>7. CASE Command(p) /\ ~StartDaemon(p)
    BY <2>2, <2>7, Zenon DEF Command, BeginClean, DelegateEnds, StopBegins, ReloadByIpc, SigHup,
           Ends, Goto
  <2>8. CASE Launch(p) \/ Die(p) \/ Crash(p) \/ PidReused(p)
    BY <2>2, <2>8, Zenon DEF Launch, Die, Crash, PidReused, Ends, Goto
  <2> QED
    BY <1>2, <2>3, <2>4, <2>5, <2>6, <2>7, <2>8, Zenon
<1> QED
  BY <1>1, <1>2, Zenon DEF Next

\* Who holds the lock alone is its owner.
LEMMA HolderOwns ==
  ASSUME NEW p \in Procs, pc[p] \in Holding,
         \A q, r \in Procs : pc[q] \in Holding /\ pc[r] \in Holding => q = r
  PROVE  Owner = p
BY Zenon DEF Owner

\* The same of the state after a step.
LEMMA HolderOwnsNext ==
  ASSUME NEW p \in Procs, pc'[p] \in Holding,
         \A q, r \in Procs : pc'[q] \in Holding /\ pc'[r] \in Holding => q = r
  PROVE  Owner' = p
BY Zenon DEF Owner

\* A step with one holder before and after it is a step of the abstract lock.
LEMMA OwnerStep ==
  ASSUME TypeOK, OneHolder, OneHolder', ~orphaned, ~orphaned', [Next]_vars
  PROVE  [Lock!LockNext]_Owner
<1>1. /\ \A q, r \in Procs : pc[q] \in Holding /\ pc[r] \in Holding => q = r
      /\ \A q, r \in Procs : pc'[q] \in Holding /\ pc'[r] \in Holding => q = r
  BY Zenon DEF OneHolder
<1>2. CASE \A q \in Procs : pc'[q] \in Holding <=> pc[q] \in Holding
  <2>1. CASE \E p \in Procs : pc[p] \in Holding
    BY <1>1, <1>2, <2>1, HolderOwns, HolderOwnsNext, Zenon
  <2>2. CASE ~\E p \in Procs : pc[p] \in Holding
    BY <1>2, <2>2, Zenon DEF Owner
  <2> QED
    BY <2>1, <2>2, Zenon
<1>3. ASSUME NEW p \in Procs,
             \A q \in Procs : q # p => (pc'[q] \in Holding <=> pc[q] \in Holding),
             pc[p] \notin Holding, pc'[p] \in Holding
      PROVE  Lock!Take(p)
  <2>1. Owner' = p
    BY <1>1, <1>3, HolderOwnsNext, Zenon
  <2>2. ~\E q \in Procs : pc[q] \in Holding
    BY <1>1, <1>3, Zenon
  <2> QED
    BY <2>1, <2>2, Zenon DEF Owner, Lock!Take
<1>4. ASSUME NEW p \in Procs,
             \A q \in Procs : q # p => (pc'[q] \in Holding <=> pc[q] \in Holding),
             pc[p] \in Holding, pc'[p] \notin Holding
      PROVE  Lock!Give(p)
  <2>1. Owner = p
    BY <1>1, <1>4, HolderOwns, Zenon
  <2>2. ~\E q \in Procs : pc'[q] \in Holding
    BY <1>1, <1>4, Zenon
  <2> QED
    BY <2>1, <2>2, Zenon DEF Owner, Lock!Give
<1> QED
  BY <1>2, <1>3, <1>4, OneMoves, Zenon DEF Lock!LockNext

\* acquire, Drop and the kernel's release at exit make a lock with one owner, for
\* any number of processes, crashes and stale files, as long as LOCK_PATH is not
\* removed under a process that has it open.
THEOREM FilesImplementLock == Spec /\ []~orphaned => Lock!LockSpec
<1>1. Init => Lock!LockInit
  BY Zenon DEF Init, Holding, Owner, Lock!LockInit
<1>2. PInv /\ OneHolder /\ OneHolder' /\ ~orphaned /\ ~orphaned' /\ [Next]_vars
        => [Lock!LockNext]_Owner
  BY OwnerStep, Zenon DEF PInv
<1> QED
  BY <1>1, <1>2, Invariant, OneHolderAtATime, PTL DEF Spec, Lock!LockSpec

=============================================================================
