------------------------ MODULE MC_EnclaveSessions ------------------------
(* EnclaveSessions on a small instance. *)
EXTENDS EnclaveSessions, TLC

Symmetry == Permutations(Clients) \cup Permutations(Calls)
==============================================================================
