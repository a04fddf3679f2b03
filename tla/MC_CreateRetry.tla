--------------------------- MODULE MC_CreateRetry ---------------------------
(* CreateRetry on a small instance; the run about its liveness takes no symmetry. *)
EXTENDS CreateRetry, TLC

Symmetry == Permutations(Workers)
==============================================================================
