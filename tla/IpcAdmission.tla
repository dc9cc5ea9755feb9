---------------------------- MODULE IpcAdmission ----------------------------
(***************************************************************************)
(* IpcServer::accept_and_handle (src/ipc/server.rs): which connections get *)
(* a worker, which commands get an answer, and the count of workers that   *)
(* the accepting thread and the workers share.  What the commands do is    *)
(* the subject of DaemonControl.                                           *)
(***************************************************************************)
EXTENDS Integers, FiniteSets

CONSTANTS
  Conns,        \* connections
  NoConn,
  MaxWorkers    \* MAX_CONCURRENT_IPC_WORKERS

ASSUME AdmissionAssumption ==
  IsFiniteSet(Conns) /\ NoConn \notin Conns /\ MaxWorkers \in Nat

VARIABLES
  uid,          \* the peer of a connection, once accepted
  conn,         \* state of a connection
  accepting,    \* the connection the accepting thread is busy with
  current,      \* its copy of active_workers
  workers       \* active_workers

admVars == <<uid, conn, accepting, current, workers>>

\* "self" is the daemon's own UID when that is none of the others.
Uids == {"root", "system", "shell", "self", "unknown"}
Queries == {"GetStatus", "GetJobStatus", "Ping"}
Commands == Queries \cup {"Clean", "DeepClean", "Cancel", "ReloadConfig", "StopDaemon"}

Guarded == {"counted", "reading", "handling"}

AdmTypeOK ==
  /\ uid \in [Conns -> Uids]
  /\ conn \in [Conns -> Guarded \cup {"queued", "accepted", "answered", "refused"}]
  /\ accepting \in Conns \cup {NoConn}
  /\ current \in 0 .. MaxWorkers
  /\ workers \in 0 .. MaxWorkers

is_uid_allowed(u) == u \in {"root", "system", "shell", "self"}

is_command_authorized(u, c) ==
  \/ u = "root"
  \/ c \in Queries /\ u \in {"system", "shell"}
  \/ c = "Clean" /\ u = "system"

Becomes(c, s) == conn' = [conn EXCEPT ![c] = s]

\* accept: a peer that is not allowed, or not known, is turned away; for the
\* others the count of workers is loaded.
Accept(c) ==
  /\ accepting = NoConn
  /\ conn[c] = "queued"
  /\ \E u \in Uids :
       /\ uid' = [uid EXCEPT ![c] = u]
       /\ IF is_uid_allowed(u)
            THEN Becomes(c, "accepted") /\ accepting' = c /\ current' = workers
            ELSE Becomes(c, "refused") /\ UNCHANGED <<accepting, current>>
  /\ UNCHANGED workers

\* Mutation: the count is stored without comparing.
StoreCount(c) ==
  /\ accepting = c
  /\ conn[c] = "accepted"
  /\ current < MaxWorkers
  /\ workers' = current + 1
  /\ Becomes(c, "counted")
  /\ UNCHANGED <<uid, accepting, current>>

\* One round of the compare-exchange loop, which may fail for no reason.
CompareExchange(c) ==
  /\ accepting = c
  /\ conn[c] = "accepted"
  /\ current < MaxWorkers
  /\ \/ /\ workers = current
        /\ workers' = current + 1
        /\ Becomes(c, "counted")
        /\ UNCHANGED current
     \/ current' = workers /\ UNCHANGED <<workers, conn>>
  /\ UNCHANGED <<uid, accepting>>

\* The limit is reached: "Daemon IPC busy".
RejectBusy(c) ==
  /\ accepting = c
  /\ conn[c] = "accepted"
  /\ current >= MaxWorkers
  /\ Becomes(c, "refused")
  /\ accepting' = NoConn /\ current' = 0
  /\ UNCHANGED <<uid, workers>>

\* The guard moves into the worker, or is dropped with the closure if the thread
\* cannot be spawned.
SpawnIpcWorker(c) ==
  /\ accepting = c
  /\ conn[c] = "counted"
  /\ accepting' = NoConn /\ current' = 0
  /\ \/ Becomes(c, "reading") /\ UNCHANGED workers
     \/ Becomes(c, "refused") /\ workers' = workers - 1
  /\ UNCHANGED uid

\* read_message: a command the peer may give is handled; one it may not, a read
\* that fails or times out, ends the worker.
ReadCommand(c) ==
  /\ conn[c] = "reading"
  /\ \/ /\ \E cmd \in Commands : is_command_authorized(uid[c], cmd)
        /\ Becomes(c, "handling")
        /\ UNCHANGED workers
     \/ Becomes(c, "refused") /\ workers' = workers - 1
  /\ UNCHANGED <<uid, accepting, current>>

\* The handler is done, or has panicked; either way WorkerGuard is dropped.
WorkerEnds(c) ==
  /\ conn[c] = "handling"
  /\ Becomes(c, "answered")
  /\ workers' = workers - 1
  /\ UNCHANGED <<uid, accepting, current>>

AdmInit ==
  /\ uid = [c \in Conns |-> "unknown"]
  /\ conn = [c \in Conns |-> "queued"]
  /\ accepting = NoConn /\ current = 0 /\ workers = 0

AdmNext ==
  \E c \in Conns :
    \/ Accept(c) \/ CompareExchange(c) \/ RejectBusy(c)
    \/ SpawnIpcWorker(c) \/ ReadCommand(c) \/ WorkerEnds(c)

AdmSpec == AdmInit /\ [][AdmNext]_admVars

\* active_workers counts the guards alive and stays within its limit, whatever
\* workers end between the load and the exchange and whether or not the thread
\* could be spawned.
WorkersExact ==
  /\ workers = Cardinality({c \in Conns : conn[c] \in Guarded})
  /\ workers <= MaxWorkers

=============================================================================
