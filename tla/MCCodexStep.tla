----------------------------- MODULE MCCodexStep -----------------------------
(* Instance of CodexStep for TLC. *)
EXTENDS CodexStep, TLC

Symmetry ==
    Permutations(Attempts) \cup Permutations(Threads)
        \cup Permutations(Calls \ (Invalid \cup Foreign))
=============================================================================
