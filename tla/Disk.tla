-------------------------------- MODULE Disk --------------------------------
(***************************************************************************)
(* The part of the file system the engine works on: one target's tree, the *)
(* apps that keep using it while it is cleaned, and the directory handle   *)
(* (src/fs SafeDirHandle) an executor keeps open between operations.       *)
(***************************************************************************)
EXTENDS Domain

CONSTANT MaxAppMoves    \* bound on what the apps do in a behaviour

ASSUME AppMoveAssumption == MaxAppMoves \in Nat

VARIABLES
  disk,      \* the identity found at each entry, or Absent
  handle,    \* per process, the cached parent directory handle
  appMoves   \* how many steps the apps have taken

diskVars == <<disk, handle, appMoves>>

\* executor ActiveDirCache: the parent path and the directory it was opened on.
Handles == [open : BOOLEAN, dir : Dirs \cup {Root}, id : Idents \cup {Absent}]
NoHandle == [open |-> FALSE, dir |-> Root, id |-> Absent]

DiskTypeOK ==
  /\ disk \in [Paths -> Idents \cup {Absent}]
  /\ handle \in [Procs -> Handles]
  /\ appMoves \in Nat

Present(q) == disk[q] # Absent
ParentPresent(q) == Parent[q] # Root => Present(Parent[q])
Empty(d) == \A q \in Paths : Parent[q] = d => ~Present(q)

DiskInit ==
  /\ disk \in [Paths -> Idents \cup {Absent}]
  /\ \A q \in Paths : Present(q) => ParentPresent(q)
  /\ \A q, r \in Paths : Present(q) /\ disk[q] = disk[r] => q = r
  /\ handle = [p \in Procs |-> NoHandle]
  /\ appMoves = 0

-----------------------------------------------------------------------------

\* open_root followed by open_child_dir down to the parent of q.
OpenParent(q) ==
  [open |-> TRUE, dir |-> Parent[q],
   id |-> IF Parent[q] = Root THEN Absent ELSE disk[Parent[q]]]

\* A handle names the directory it was opened on: once an app has replaced
\* that directory, lookups through the handle find nothing.
Lookup(h, q) ==
  IF h.dir = Root \/ disk[h.dir] = h.id THEN disk[q] ELSE Absent

\* What a verifier may report: the truth of that moment, or that it could not
\* look (EACCES, EIO, EROFS, ...).
Observations(found, ident) ==
  {"UNAVAILABLE",
   IF found = Absent THEN "GONE"
   ELSE IF found = ident THEN "PRESENT" ELSE "MISMATCH"}

\* unlinkat can succeed: there is an entry, and rmdir finds it empty.
Removable(h, q) == Lookup(h, q) # Absent /\ (q \in Dirs => Empty(q))

-----------------------------------------------------------------------------
(***************************************************************************)
(* The apps.  A file is written or replaced by a new one; a directory is   *)
(* made where none is.  An inode in use, or held open, is not handed out.  *)
(***************************************************************************)
Free(id) ==
  /\ \A q \in Paths : disk[q] # id
  /\ \A p \in Procs : handle[p].id # id

AppWrite(q, id) ==
  /\ appMoves < MaxAppMoves
  /\ ParentPresent(q)
  /\ q \in Dirs => ~Present(q)
  /\ Free(id)
  /\ disk' = [disk EXCEPT ![q] = id]
  /\ appMoves' = appMoves + 1
  /\ UNCHANGED handle

AppRemove(q) ==
  /\ appMoves < MaxAppMoves
  /\ Present(q)
  /\ q \in Dirs => Empty(q)
  /\ disk' = [disk EXCEPT ![q] = Absent]
  /\ appMoves' = appMoves + 1
  /\ UNCHANGED handle

AppStep ==
  \/ \E q \in Paths, id \in Idents : AppWrite(q, id)
  \/ \E q \in Paths : AppRemove(q)

=============================================================================
