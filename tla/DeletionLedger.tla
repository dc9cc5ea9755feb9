--------------------------- MODULE DeletionLedger ---------------------------
(***************************************************************************)
(* What durable deletion promises, without processes, files or errors: a   *)
(* ledger with at most one intent per (attempt, operation), the removals   *)
(* done under it, and the keys some verifier has seen deleted.             *)
(*                                                                         *)
(*  - a removal is done under an intent that is already in the ledger and  *)
(*    already past COMMITTED, and removes the entry the intent names;      *)
(*  - an intent keeps its job, path and identity, never leaves the ledger  *)
(*    and never returns to COMMITTED;                                      *)
(*  - it becomes VERIFIED_SUCCESS only after a verifier saw the deletion.  *)
(***************************************************************************)
EXTENDS Domain

VARIABLES ledger, removals, seen

ledgerVars == <<ledger, removals, seen>>

LedgerInit ==
  /\ ledger = [k \in Attempts \X Ops |-> NoRow]
  /\ removals = {}
  /\ seen = {}

Commit(k, row) ==
  /\ ledger[k] = NoRow
  /\ row.state = "COMMITTED"
  /\ ledger' = [ledger EXCEPT ![k] = row]
  /\ UNCHANGED <<removals, seen>>

Advance(k, s) ==
  /\ ledger[k] # NoRow
  /\ s # "COMMITTED"
  /\ s = "VERIFIED_SUCCESS" => k \in seen
  /\ ledger' = [ledger EXCEPT ![k] = [@ EXCEPT !.state = s]]
  /\ UNCHANGED <<removals, seen>>

Remove(r) ==
  /\ ledger[r.attempt, r.op] # NoRow
  /\ ledger[r.attempt, r.op].state # "COMMITTED"
  /\ ledger[r.attempt, r.op].path = r.path
  /\ removals' = removals \cup {r}
  /\ UNCHANGED <<ledger, seen>>

See(k) ==
  /\ ledger[k] # NoRow
  /\ seen' = seen \cup {k}
  /\ UNCHANGED <<ledger, removals>>

LedgerNext ==
  \/ \E k \in Attempts \X Ops, row \in Intent : Commit(k, row)
  \/ \E k \in Attempts \X Ops, s \in IntentStates : Advance(k, s)
  \/ \E a \in Attempts, o \in Ops, q \in Paths, i \in Idents, d \in BOOLEAN :
       Remove([attempt |-> a, op |-> o, path |-> q, ident |-> i, dry |-> d])
  \/ \E k \in Attempts \X Ops : See(k)

LedgerSpec == LedgerInit /\ [][LedgerNext]_ledgerVars

=============================================================================
