----------------------------- MODULE MCAllocStats -----------------------------
(* An instance of AllocStats for TLC.                                        *)
EXTENDS AllocStats, TLC

Symmetry == Permutations(Handles)

===============================================================================
