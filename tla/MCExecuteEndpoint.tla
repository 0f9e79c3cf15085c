-------------------------- MODULE MCExecuteEndpoint -------------------------
(* Small instances of ExecuteEndpoint for TLC. *)
EXTENDS ExecuteEndpoint, TLC

CONSTANTS c1, c2

MCCallers == {c1, c2}
Symmetry == Permutations(MCCallers)

(* The reviewers and the diagnosis do not touch what a call reads or writes. *)
NoReviewers  == {{"performance", "security_audit", "critique", "docs"}}
Interrupting == {"db", "process"}
NoFaults     == {}

=============================================================================
