----------------------------- MODULE MC_Storage -----------------------------
(* Model-checking instance of Storage. *)
EXTENDS Storage, TLC

Symmetry == Permutations(Calls) \cup Permutations(Suffixes)
=============================================================================
