--------------------------- MODULE MCCallExecution ---------------------------
(* Instance of CallExecution for TLC. *)
EXTENDS CallExecution, TLC

Symmetry == Permutations(Workers) \cup Permutations(Keys)
=============================================================================
