-------------------------- MODULE MC_ObjectIndexes --------------------------
(* ObjectIndexes on a small instance: two plaintexts, which differ in the       *)
(* first of their indexed values and agree in the second.                      *)
EXTENDS ObjectIndexes, TLC

CONSTANTS p1, p2, t1, t2

OnePayload == {p1}
Large == {1, 2} \X OnePayload
TwoPayloads == {p1, p2}
TwoTokens == {t1, t2}
OneOrTwo ==
  [p \in Payloads |-> IF p = p1 THEN (1 :> t1) ELSE (1 :> t2 @@ 2 :> t1)]

OneName == {1}
TwoNames == {1, 2}

Differ == [p \in Payloads |-> [n \in OneName |-> IF p = p1 THEN t1 ELSE t2]]

DifferInFirst ==
  [p \in Payloads |-> [n \in TwoNames |-> IF p = p2 /\ n = 1 THEN t2 ELSE t1]]

Symmetry == Permutations(Workers)
==============================================================================
