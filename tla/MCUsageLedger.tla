--------------------------- MODULE MCUsageLedger ---------------------------
(***************************************************************************)
(* Small instances of UsageLedger and its refinement for TLC.              *)
(***************************************************************************)
EXTENDS UsageLedgerRefinement, TLC

(* Requests, users and keys are interchangeable: no action names one.      *)
Symmetry == Permutations(Requests) \cup Permutations(Users) \cup Permutations(Keys)

=============================================================================
