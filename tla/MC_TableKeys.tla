---------------------------- MODULE MC_TableKeys ----------------------------
(* TableKeys on a small instance. *)
EXTENDS TableKeys, TLC

Symmetry == Permutations(Workers) \cup Permutations(Keys)
==============================================================================
