------------------------------ MODULE PidLock -------------------------------
(***************************************************************************)
(* One daemon per device: the lock and PID files (src/system/pidfile.rs),  *)
(* the daemon that holds them (src/system/watcher.rs), the standalone      *)
(* clean that holds them in its place (src/cli/clean.rs) and the commands  *)
(* that start and stop the daemon (src/cli/daemon_ctrl.rs).                *)
(*                                                                         *)
(* A process is named by its PID.  The lock path names an inode or         *)
(* nothing; an advisory lock belongs to the inode, so a process may hold   *)
(* one on a file that no path names any more.  Every system call is a step *)
(* of its own, and processes interleave between any two of them.           *)
(*                                                                         *)
(* The program runs as root, as it does on Android: acquire uses only the  *)
(* first of CANDIDATE_PATHS and the second never exists.                   *)
(***************************************************************************)
EXTENDS Integers, FiniteSets

CONSTANTS
  Procs,        \* PIDs
  None,
  MaxCrashes,   \* bound on processes that die of themselves
  MaxReused     \* bound on PIDs the kernel gives to unrelated processes

ASSUME PidAssumption ==
  /\ Procs # {} /\ IsFiniteSet(Procs)
  /\ "empty" \notin Procs /\ None \notin Procs \cup Nat
  /\ MaxCrashes \in Nat /\ MaxReused \in Nat

VARIABLES
  prog,        \* the program a process runs
  pc,          \* its next step
  fd,          \* the inode it has open, if any
  found,       \* the PID that get_running_pid returned to it
  lockPath,    \* the inode LOCK_PATH names, if it exists
  lockedBy,    \* who holds the advisory lock of an inode
  pidFile,     \* contents of PID_PATH: a PID, "empty", or None if absent
  abstract,    \* who listens on the abstract socket
  socket,      \* who bound the socket file, if it exists
  stopping,    \* daemons told to stop, by IPC or SIGTERM
  killed,      \* processes with a fatal signal pending
  crashes,
  reused,
  orphaned,    \* history: LOCK_PATH was removed while a claimant had it open
  misled,      \* history: PID_PATH was removed while another held the lock
  holders,     \* history: processes that have held the lock
  stray        \* history: stop_daemon signalled a process that never had

files == <<lockPath, pidFile>>
ipc == <<abstract, socket>>
signals == <<stopping, killed>>
bounds == <<crashes, reused>>
history == <<orphaned, misled, holders, stray>>
vars == <<prog, pc, fd, found, files, lockedBy, ipc, signals, bounds, history>>

Programs == {"daemon", "clean", "start", "stop", "restart", "reload"}
Inodes == 0 .. Cardinality(Procs)

Holding == {"pidopen", "pidwrite", "held", "serving", "cleaning", "unlock"}
Probing == {"probe", "probetest", "probeunlock", "readpid", "probed"}
Stopping == {"tier1", "wait1", "wait2"}
Sweeping == {"sweep", "sweeptest", "sweepunlock", "sweeplock", "sweeppid"}
Labels ==
  {"new", "dead", "other", "ipcreload", "spawn", "leaving", "open", "flock", "rmpid", "rmlock"}
    \cup Holding \cup Probing \cup Stopping \cup Sweeping

TypeOK ==
  /\ prog \in [Procs -> Programs \cup {"none"}]
  /\ pc \in [Procs -> Labels]
  /\ fd \in [Procs -> Inodes \cup {None}]
  /\ found \in [Procs -> Procs \cup {None}]
  /\ lockPath \in Inodes \cup {None}
  /\ lockedBy \in [Inodes -> Procs \cup {None}]
  /\ pidFile \in Procs \cup {"empty", None}
  /\ abstract \in Procs \cup {None}
  /\ socket \in Procs \cup {None}
  /\ stopping \subseteq Procs /\ killed \subseteq Procs /\ holders \subseteq Procs
  /\ crashes \in 0 .. MaxCrashes /\ reused \in 0 .. MaxReused
  /\ orphaned \in BOOLEAN /\ misled \in BOOLEAN /\ stray \in BOOLEAN

-----------------------------------------------------------------------------

is_process_alive(p) == p \in Procs /\ pc[p] \notin {"new", "dead"}
Claims(p) == pc[p] = "flock" \/ pc[p] \in Holding

\* IpcClient::try_connect: the abstract socket first, then the socket file; a
\* socket whose listener is gone refuses.
Listener ==
  IF abstract # None THEN abstract
  ELSE IF socket # None /\ is_process_alive(socket) /\ pc[socket] = "serving" THEN socket
  ELSE None

At(p, label) == pc[p] = label
Goto(p, label) == pc' = [pc EXCEPT ![p] = label]
Unlocked(p) == [i \in Inodes |-> IF lockedBy[i] = p THEN None ELSE lockedBy[i]]

\* A process ends, however: the kernel closes its files, which releases its
\* lock, and its abstract socket; the files it made stay.
Ends(p) ==
  /\ Goto(p, "dead")
  /\ fd' = [fd EXCEPT ![p] = None]
  /\ found' = [found EXCEPT ![p] = None]
  /\ lockedBy' = Unlocked(p)
  /\ abstract' = IF abstract = p THEN None ELSE abstract
  /\ stopping' = stopping \ {p}
  /\ killed' = killed \ {p}

-----------------------------------------------------------------------------
(***************************************************************************)
(* PidLock::acquire and Drop.                                              *)
(***************************************************************************)

NewInode == CHOOSE i \in Inodes : i # lockPath /\ \A q \in Procs : fd[q] # i

\* Mutation: the PID is written before the lock is tried.
OpenLockWritingPid(p) ==
  /\ At(p, "open")
  /\ lockPath' = IF lockPath # None THEN lockPath ELSE NewInode
  /\ fd' = [fd EXCEPT ![p] = lockPath']
  /\ pidFile' = p
  /\ Goto(p, "flock")
  /\ UNCHANGED <<prog, found, lockedBy, ipc, signals, bounds, history>>

\* open(LOCK_PATH) with create: the file there, or a new one.
OpenLock(p) ==
  /\ At(p, "open")
  /\ lockPath' = IF lockPath # None THEN lockPath ELSE NewInode
  /\ fd' = [fd EXCEPT ![p] = lockPath']
  /\ Goto(p, "flock")
  /\ UNCHANGED <<prog, found, lockedBy, pidFile, ipc, signals, bounds, history>>

\* Mutation: the lock is shared, and never refused.
SharedFlock(p) ==
  /\ At(p, "flock")
  /\ Goto(p, "pidopen")
  /\ lockedBy' = [lockedBy EXCEPT ![fd[p]] = p]
  /\ holders' = holders \cup {p}
  /\ UNCHANGED <<prog, fd, found, files, ipc, signals, bounds, orphaned, misled, stray>>

\* flock(LOCK_EX | LOCK_NB).  A process that is refused reports the PID in
\* PID_PATH and ends.
TryFlock(p) ==
  /\ At(p, "flock")
  /\ \/ /\ lockedBy[fd[p]] = None
        /\ Goto(p, "pidopen")
        /\ lockedBy' = [lockedBy EXCEPT ![fd[p]] = p]
        /\ holders' = holders \cup {p}
        /\ UNCHANGED <<fd, found, abstract, signals>>
     \/ /\ lockedBy[fd[p]] # None
        /\ Ends(p)
        /\ UNCHANGED holders
  /\ UNCHANGED <<prog, files, socket, bounds, orphaned, misled, stray>>

\* PID_PATH is truncated, then written; if either fails acquire returns an error
\* and the process ends.
TruncatePid(p) ==
  /\ At(p, "pidopen")
  /\ pidFile' = "empty"
  /\ Goto(p, "pidwrite")
  /\ UNCHANGED <<prog, fd, found, lockPath, lockedBy, ipc, signals, bounds, history>>

WritePid(p) ==
  /\ At(p, "pidwrite")
  /\ pidFile' = p
  /\ Goto(p, IF prog[p] = "daemon" THEN "held" ELSE "cleaning")
  /\ UNCHANGED <<prog, fd, found, lockPath, lockedBy, ipc, signals, bounds, history>>

PidFileFails(p) ==
  /\ pc[p] \in {"pidopen", "pidwrite"}
  /\ Ends(p)
  /\ UNCHANGED <<prog, files, socket, bounds, history>>

\* Drop: release the lock, then remove both files, whoever they are by then.
ReleaseLock(p) ==
  /\ At(p, "unlock")
  /\ lockedBy' = Unlocked(p)
  /\ Goto(p, "rmpid")
  /\ UNCHANGED <<prog, fd, found, files, ipc, signals, bounds, history>>

\* remove_file(PID_PATH) by p.
RemovePid(p) ==
  /\ pidFile' = None
  /\ misled' = (misled \/ \E q \in Procs \ {p} : pc[q] \in Holding)

\* remove_file(LOCK_PATH) by p.
RemoveLock(p) ==
  /\ lockPath' = None
  /\ orphaned' = (orphaned \/ \E q \in Procs \ {p} : Claims(q) /\ fd[q] = lockPath)

DropPid(p) ==
  /\ At(p, "rmpid")
  /\ RemovePid(p)
  /\ Goto(p, "rmlock")
  /\ UNCHANGED <<prog, fd, found, lockPath, lockedBy, ipc, signals, bounds, orphaned, holders, stray>>

DropLock(p) ==
  /\ At(p, "rmlock")
  /\ RemoveLock(p)
  /\ Ends(p)
  /\ UNCHANGED <<prog, pidFile, socket, bounds, misled, holders, stray>>

-----------------------------------------------------------------------------
(***************************************************************************)
(* get_running_pid: the lock is tested by taking it for a moment.          *)
(***************************************************************************)

ProbeOpen(p) ==
  /\ At(p, "probe")
  /\ IF lockPath # None
       THEN fd' = [fd EXCEPT ![p] = lockPath] /\ Goto(p, "probetest") /\ UNCHANGED found
       ELSE found' = [found EXCEPT ![p] = None] /\ Goto(p, "probed") /\ UNCHANGED fd
  /\ UNCHANGED <<prog, files, lockedBy, ipc, signals, bounds, history>>

ProbeTest(p) ==
  /\ At(p, "probetest")
  /\ \/ /\ lockedBy[fd[p]] = None
        /\ lockedBy' = [lockedBy EXCEPT ![fd[p]] = p]
        /\ Goto(p, "probeunlock")
     \/ /\ lockedBy[fd[p]] # None
        /\ Goto(p, "readpid")
        /\ UNCHANGED lockedBy
  /\ UNCHANGED <<prog, fd, found, files, ipc, signals, bounds, history>>

ProbeUnlock(p) ==
  /\ At(p, "probeunlock")
  /\ lockedBy' = Unlocked(p)
  /\ Goto(p, "readpid")
  /\ UNCHANGED <<prog, fd, found, files, ipc, signals, bounds, history>>

\* Held or not, the daemon counts as running if the PID in PID_PATH is alive.
ReadPid(p) ==
  /\ At(p, "readpid")
  /\ found' = [found EXCEPT ![p] = IF is_process_alive(pidFile) THEN pidFile ELSE None]
  /\ fd' = [fd EXCEPT ![p] = None]
  /\ Goto(p, "probed")
  /\ UNCHANGED <<prog, files, lockedBy, ipc, signals, bounds, history>>

-----------------------------------------------------------------------------
(***************************************************************************)
(* DaemonRunner::run and execute_clean.                                    *)
(***************************************************************************)

\* IpcServer::bind: the abstract name if it is free, the socket file in place of
\* the one that is there; the daemon goes on without either.
BindSocket(p) ==
  /\ At(p, "held")
  /\ abstract' \in {abstract} \cup (IF abstract = None THEN {p} ELSE {})
  /\ socket' \in {p, None}
  /\ Goto(p, "serving")
  /\ UNCHANGED <<prog, fd, found, files, lockedBy, signals, bounds, history>>

\* The loop ends: perform_shutdown_cleanup removes the socket file, and the
\* listeners close before the lock is dropped.
Shutdown(p) ==
  /\ At(p, "serving")
  /\ p \in stopping
  /\ socket' = None
  /\ abstract' = IF abstract = p THEN None ELSE abstract
  /\ Goto(p, "unlock")
  /\ UNCHANGED <<prog, fd, found, files, lockedBy, signals, bounds, history>>

\* A clean asks a running daemon to do it, or becomes its own holder.
BeginClean(p) ==
  /\ At(p, "probed")
  /\ prog[p] = "clean"
  /\ Goto(p, IF found[p] # None THEN "leaving" ELSE "open")
  /\ UNCHANGED <<prog, fd, found, files, lockedBy, ipc, signals, bounds, history>>

\* The client polls GetJobStatus until the job is done or the daemon is gone.
DelegateEnds(p) ==
  /\ At(p, "leaving")
  /\ Ends(p)
  /\ UNCHANGED <<prog, files, socket, bounds, history>>

StandaloneEnds(p) ==
  /\ At(p, "cleaning")
  /\ Goto(p, "unlock")
  /\ UNCHANGED <<prog, fd, found, files, lockedBy, ipc, signals, bounds, history>>

-----------------------------------------------------------------------------
(***************************************************************************)
(* start_daemon, stop_daemon, restart_daemon, reload_config.               *)
(***************************************************************************)

\* start_daemon: give up if one runs, run in the foreground, or spawn a child
\* and wait a while for it.
StartDaemon(p) ==
  /\ At(p, "probed")
  /\ prog[p] = "start"
  /\ \/ /\ found[p] # None
        /\ Ends(p)
        /\ UNCHANGED prog
     \/ /\ found[p] = None
        /\ prog' = [prog EXCEPT ![p] = "daemon"]
        /\ Goto(p, "open")
        /\ UNCHANGED <<fd, found, lockedBy, abstract, signals>>
     \/ /\ found[p] = None
        /\ \E q \in Procs :
             /\ At(q, "new")
             /\ prog' = [prog EXCEPT ![q] = "daemon"]
             /\ pc' = [pc EXCEPT ![q] = "open", ![p] = "leaving"]
        /\ UNCHANGED <<fd, found, lockedBy, abstract, signals>>
  /\ UNCHANGED <<files, socket, bounds, history>>

\* stop_daemon, before tier 1: no PID and no answer to Ping is no
\* daemon (one that hangs does not answer either).
StopBegins(p) ==
  /\ At(p, "probed")
  /\ prog[p] \in {"stop", "restart"}
  /\ \/ (found[p] # None \/ Listener # None) /\ Goto(p, "tier1")
     \/ found[p] = None /\ Goto(p, "sweep")
  /\ UNCHANGED <<prog, fd, found, files, lockedBy, ipc, signals, bounds, history>>

\* Tier 1: StopDaemon to whoever answers.
IpcStop(p) ==
  /\ At(p, "tier1")
  /\ stopping' = stopping \cup ({Listener} \cap Procs)
  /\ Goto(p, IF found[p] = None THEN "sweep" ELSE "wait1")
  /\ UNCHANGED <<prog, fd, found, files, lockedBy, ipc, killed, bounds, history>>

Signals(p) == stray' = (stray \/ found[p] \notin holders)

\* Tier 2, after 1.5 s: SIGTERM, which only a daemon in its loop handles.
SigTerm(p) ==
  /\ At(p, "wait1")
  /\ \/ /\ ~is_process_alive(found[p])
        /\ Goto(p, "sweep")
        /\ UNCHANGED <<signals, stray>>
     \/ /\ is_process_alive(found[p])
        /\ Signals(p)
        /\ Goto(p, "wait2")
        /\ IF At(found[p], "serving")
             THEN stopping' = stopping \cup {found[p]} /\ UNCHANGED killed
             ELSE killed' = killed \cup {found[p]} /\ UNCHANGED stopping
  /\ UNCHANGED <<prog, fd, found, files, lockedBy, ipc, bounds, orphaned, misled, holders>>

\* Mutation: there is no tier 3.
NoSigKill(p) ==
  /\ At(p, "wait2")
  /\ Goto(p, "sweep")
  /\ UNCHANGED <<prog, fd, found, files, lockedBy, ipc, signals, bounds, history>>

\* Tier 3, after another 1.5 s: SIGKILL.
SigKill(p) ==
  /\ At(p, "wait2")
  /\ Goto(p, "sweep")
  /\ \/ ~is_process_alive(found[p]) /\ UNCHANGED <<killed, stray>>
     \/ /\ is_process_alive(found[p])
        /\ Signals(p)
        /\ killed' = killed \cup {found[p]}
  /\ UNCHANGED <<prog, fd, found, files, lockedBy, ipc, stopping, bounds, orphaned, misled, holders>>

\* What follows a stop: a restart goes on with start_daemon.
StopDone(p) ==
  IF prog[p] = "restart"
    THEN /\ prog' = [prog EXCEPT ![p] = "start"]
         /\ Goto(p, "probe")
         /\ fd' = [fd EXCEPT ![p] = None]
         /\ UNCHANGED <<found, lockedBy, abstract, signals>>
    ELSE Ends(p) /\ UNCHANGED prog

\* clean_stale_pid_files: whoever can take the lock may remove the files.
SweepOpen(p) ==
  /\ At(p, "sweep")
  /\ IF lockPath # None
       THEN /\ fd' = [fd EXCEPT ![p] = lockPath]
            /\ Goto(p, "sweeptest")
            /\ UNCHANGED <<prog, found, lockedBy, abstract, signals>>
       ELSE StopDone(p)
  /\ UNCHANGED <<files, socket, bounds, history>>

SweepTest(p) ==
  /\ At(p, "sweeptest")
  /\ IF lockedBy[fd[p]] = None
       THEN /\ lockedBy' = [lockedBy EXCEPT ![fd[p]] = p]
            /\ Goto(p, "sweepunlock")
            /\ UNCHANGED <<prog, fd, found, abstract, signals>>
       ELSE StopDone(p)
  /\ UNCHANGED <<files, socket, bounds, history>>

SweepUnlock(p) ==
  /\ At(p, "sweepunlock")
  /\ lockedBy' = Unlocked(p)
  /\ Goto(p, "sweeplock")
  /\ UNCHANGED <<prog, fd, found, files, ipc, signals, bounds, history>>

SweepLock(p) ==
  /\ At(p, "sweeplock")
  /\ RemoveLock(p)
  /\ Goto(p, "sweeppid")
  /\ UNCHANGED <<prog, fd, found, pidFile, lockedBy, ipc, signals, bounds, misled, holders, stray>>

SweepPid(p) ==
  /\ At(p, "sweeppid")
  /\ RemovePid(p)
  /\ StopDone(p)
  /\ UNCHANGED <<lockPath, socket, bounds, orphaned, holders, stray>>

\* reload_config: by IPC; when nobody listens or the answer does not come, SIGHUP
\* to the PID found.
ReloadByIpc(p) ==
  /\ At(p, "ipcreload")
  /\ \/ Listener # None /\ Ends(p)
     \/ Goto(p, "probe") /\ UNCHANGED <<fd, found, lockedBy, abstract, signals>>
  /\ UNCHANGED <<prog, files, socket, bounds, history>>

SigHup(p) ==
  /\ At(p, "probed")
  /\ prog[p] = "reload"
  /\ Goto(p, "leaving")
  /\ killed' = IF is_process_alive(found[p]) /\ ~At(found[p], "serving")
              THEN killed \cup {found[p]} ELSE killed
  /\ UNCHANGED <<prog, fd, found, files, lockedBy, ipc, stopping, bounds, history>>

-----------------------------------------------------------------------------

\* A user, a boot script or Android's init runs a program.
Launch(p) ==
  /\ At(p, "new")
  /\ \E command \in Programs :
       /\ prog' = [prog EXCEPT ![p] = command]
       /\ Goto(p, CASE command = "daemon" -> "open"
                     [] command = "reload" -> "ipcreload"
                     [] OTHER -> "probe")
  /\ UNCHANGED <<fd, found, files, lockedBy, ipc, signals, bounds, history>>

\* A pending fatal signal takes effect.
Die(p) ==
  /\ p \in killed
  /\ is_process_alive(p)
  /\ Ends(p)
  /\ UNCHANGED <<prog, files, socket, bounds, history>>

\* The out-of-memory killer, a panic.
Crash(p) ==
  /\ crashes < MaxCrashes
  /\ is_process_alive(p)
  /\ crashes' = crashes + 1
  /\ Ends(p)
  /\ UNCHANGED <<prog, files, socket, reused, history>>

\* The kernel gives a PID that is free again to an unrelated process.
PidReused(p) ==
  /\ reused < MaxReused
  /\ At(p, "dead")
  /\ reused' = reused + 1
  /\ prog' = [prog EXCEPT ![p] = "none"]
  /\ Goto(p, "other")
  /\ holders' = holders \ {p}
  /\ UNCHANGED <<fd, found, files, lockedBy, ipc, signals, crashes, orphaned, misled, stray>>

Init ==
  /\ prog = [p \in Procs |-> "none"]
  /\ pc = [p \in Procs |-> "new"]
  /\ fd = [p \in Procs |-> None]
  /\ found = [p \in Procs |-> None]
  /\ lockPath = None
  /\ lockedBy = [i \in Inodes |-> None]
  /\ pidFile = None
  /\ abstract = None
  /\ socket = None
  /\ stopping = {} /\ killed = {} /\ holders = {}
  /\ crashes = 0 /\ reused = 0
  /\ orphaned = FALSE /\ misled = FALSE /\ stray = FALSE

Holder(p) ==
  OpenLock(p) \/ TryFlock(p) \/ TruncatePid(p) \/ WritePid(p) \/ PidFileFails(p)
    \/ BindSocket(p) \/ Shutdown(p) \/ StandaloneEnds(p)
    \/ ReleaseLock(p) \/ DropPid(p) \/ DropLock(p)
Probe(p) == ProbeOpen(p) \/ ProbeTest(p) \/ ProbeUnlock(p) \/ ReadPid(p)
Tiers(p) == IpcStop(p) \/ SigTerm(p) \/ SigKill(p)
Sweep(p) == SweepOpen(p) \/ SweepTest(p) \/ SweepUnlock(p) \/ SweepLock(p) \/ SweepPid(p)
Command(p) ==
  BeginClean(p) \/ DelegateEnds(p) \/ StartDaemon(p) \/ StopBegins(p) \/ ReloadByIpc(p) \/ SigHup(p)

Next ==
  \E p \in Procs :
    \/ Holder(p) \/ Probe(p) \/ Tiers(p) \/ Sweep(p) \/ Command(p)
    \/ Launch(p) \/ Die(p) \/ Crash(p) \/ PidReused(p)

Spec == Init /\ [][Next]_vars

-----------------------------------------------------------------------------

\* At most one process holds the PID lock, daemon or standalone clean, unless
\* LOCK_PATH was removed under a process that had it open: acquire does not look
\* again whether the file it locked is still the one the path names.
OneHolder ==
  ~orphaned => \A p, q \in Procs : pc[p] \in Holding /\ pc[q] \in Holding => p = q

\* The files name the process that holds the lock, through crashes and stale
\* files, unless Drop or clean_stale_pid_files removed one of them between
\* another process's calls; so start, stop and clean find the holder.
FilesNameHolder ==
  \A p \in Procs :
    pc[p] \in {"held", "serving", "cleaning"} /\ ~orphaned /\ ~misled =>
      lockPath = fd[p] /\ pidFile = p

\* stop_daemon signals nobody but a process that has held the lock, until a PID
\* it found in a file a crash left behind belongs to somebody else.
StopHitsHolders == reused = 0 => ~stray

\* The three tiers of stop_daemon leave the process they found dead or about to
\* be, also one that answers neither IPC nor SIGTERM, by the time the files are
\* swept; otherwise a restart would find the lock held.
StopLeavesNone ==
  \A s \in Procs :
    pc[s] \in Sweeping /\ found[s] # None /\ reused = 0 =>
      ~is_process_alive(found[s]) \/ found[s] \in killed

=============================================================================
