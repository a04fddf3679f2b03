-------------------------- MODULE MC_ObjectRecords --------------------------
(* ObjectRecords on a small instance: two plaintexts, one of which may be too  *)
(* large to be sent inline, or both.                                           *)
EXTENDS ObjectRecords, TLC

CONSTANTS p1, p2

TwoPayloads == {p1, p2}
OneLarge == {1, 2} \X {p1}
BothLarge == {2} \X {p1, p2}

Symmetry == Permutations(Workers)
==============================================================================
