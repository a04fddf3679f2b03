--------------------------- MODULE MC_ApiRequests ---------------------------
(* ApiRequests on a small instance. *)
EXTENDS ApiRequests, TLC

Symmetry == Permutations(Requests)
==============================================================================
