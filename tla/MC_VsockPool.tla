---------------------------- MODULE MC_VsockPool ----------------------------
(* VsockPool on a small instance. *)
EXTENDS VsockPool, TLC

Symmetry == Permutations(Calls \ LongCalls) \cup Permutations(Conns)
==============================================================================
