-------------------------- MODULE MCCleanPipeline --------------------------
(***************************************************************************)
(* CleanPipeline for TLC.  The tree of a run is a directory "d" with one   *)
(* file "d/f" in it, or a single file "f".                                 *)
(***************************************************************************)
EXTENDS CleanPipeline, TLC

MCPaths == {"d", "d/f"}
MCDirs == {"d"}
MCParent == [q \in MCPaths |-> IF q = "d" THEN "" ELSE "d"]
MCBelow == [q \in MCDirs |-> {"d/f"}]
MCOrder == [q \in MCPaths |-> IF q = "d/f" THEN 1 ELSE 2]

FlatPaths == {"f"}
FlatParent == [q \in FlatPaths |-> ""]
FlatBelow == [q \in {} |-> {}]
FlatOrder == [q \in FlatPaths |-> 1]

\* Identities are only ever compared.
MCSymmetry == Permutations(Idents)

=============================================================================
