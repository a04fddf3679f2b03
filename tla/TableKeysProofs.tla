-------------------------- MODULE TableKeysProofs --------------------------
(* Proofs about TableKeys, for any number of requests and keys. *)
EXTENDS TableKeys, TLAPS

\* A key on its way to a client, and every key a request can read, was stored.
Inv ==
  /\ TypeOK
  /\ HandedWasStored
  /\ table # None => table \in stored
  /\ copy # None => copy \in stored
  /\ \A w \in Workers : pc[w] = "store" => iek[w] \in Keys
  /\ \A w \in Workers : pc[w] = "prepare" => iek[w] \in stored

LEMMA InvInit == Init => Inv
BY DEF Init, Inv, TypeOK, HandedWasStored

LEMMA InvStep ==
  ASSUME Inv, [Next]_vars
  PROVE  Inv'
<1> USE KeyAssumption DEF Inv, TypeOK, HandedWasStored, Goto
<1>1. ASSUME NEW w \in Workers, GetWrappedTableIEK(w)
      PROVE  Inv'
  <2>1. PICK k \in {table, copy} :
          IF k = None THEN Goto(w, "generate", None) ELSE Goto(w, "prepare", k)
    BY <1>1 DEF GetWrappedTableIEK
  <2>2. k # None => k \in stored /\ k \in Keys
    BY <2>1
  <2> QED
    BY <1>1, <2>1, <2>2 DEF GetWrappedTableIEK
<1>2. ASSUME NEW w \in Workers, GenerateDataKey(w)
      PROVE  Inv'
  BY <1>2 DEF GenerateDataKey
<1>3. ASSUME NEW w \in Workers, SetWrappedTableIEK(w)
      PROVE  Inv'
  BY <1>3 DEF SetWrappedTableIEK
<1>4. ASSUME NEW w \in Workers, PrepareIEK(w)
      PROVE  Inv'
  BY <1>4 DEF PrepareIEK
<1>5. ASSUME NEW w \in Workers, Fail(w)
      PROVE  Inv'
  BY <1>5 DEF Fail
<1>6. CASE CopySync
  BY <1>6 DEF CopySync
<1>7. CASE UNCHANGED vars
  BY <1>7 DEF vars
<1> QED
  BY <1>1, <1>2, <1>3, <1>4, <1>5, <1>6, <1>7 DEF Next

\* The table and every request only ever hold keys.
THEOREM KeyTypeCorrect == Spec => []TypeOK
<1>1. Inv => TypeOK
  BY DEF Inv
<1> QED
  BY <1>1, InvInit, InvStep, PTL DEF Spec

\* A client never holds a key that was not stored first.
THEOREM HandedKeysWereStored == Spec => []HandedWasStored
<1>1. Inv => HandedWasStored
  BY DEF Inv
<1> QED
  BY <1>1, InvInit, InvStep, PTL DEF Spec

LEMMA SettledStep ==
  ASSUME Inv, Settled, [Next]_vars
  PROVE  table' = table /\ Settled'
<1> USE DEF Settled, Inv, TypeOK, Goto
<1>1. ASSUME NEW w \in Workers, GetWrappedTableIEK(w)
      PROVE  table' = table /\ Settled'
  <2>1. Goto(w, "prepare", table) \/ Goto(w, "prepare", copy)
    BY <1>1 DEF GetWrappedTableIEK
  <2> QED
    BY <1>1, <2>1 DEF GetWrappedTableIEK
<1>2. ASSUME NEW w \in Workers, GenerateDataKey(w) \/ SetWrappedTableIEK(w)
      PROVE  FALSE
  BY <1>2 DEF GenerateDataKey, SetWrappedTableIEK
<1>3. ASSUME NEW w \in Workers, PrepareIEK(w) \/ Fail(w)
      PROVE  table' = table /\ Settled'
  BY <1>3 DEF PrepareIEK, Fail
<1>4. CASE CopySync
  BY <1>4 DEF CopySync
<1>5. CASE UNCHANGED vars
  BY <1>5 DEF vars
<1> QED
  BY <1>1, <1>2, <1>3, <1>4, <1>5 DEF Next

\* Once every copy of the table has a key and no request is making one, the key
\* never changes: the race can only be lost at the start.
THEOREM SettledKeyIsFinal == Spec => FinalKey
<1>1. Inv /\ [Next]_vars => [Settled => table' = table /\ Settled']_vars
  BY SettledStep
<1> QED
  BY <1>1, InvInit, InvStep, PTL DEF Spec, FinalKey

LEMMA AgreedStep ==
  ASSUME Inv, Agreed, [Next]_vars
  PROVE  Agreed' /\ handed' \subseteq handed \cup {table}
<1>1. table' = table /\ Settled'
  BY SettledStep DEF Agreed
<1> USE <1>1 DEF Agreed, Inv, TypeOK, Goto
<1>2. ASSUME NEW w \in Workers, GetWrappedTableIEK(w)
      PROVE  Agreed' /\ handed' \subseteq handed \cup {table}
  <2>1. Goto(w, "prepare", table)
    BY <1>2 DEF GetWrappedTableIEK, Settled
  <2> QED
    BY <1>2, <2>1 DEF GetWrappedTableIEK
<1>3. ASSUME NEW w \in Workers, GenerateDataKey(w) \/ SetWrappedTableIEK(w)
      PROVE  FALSE
  BY <1>3 DEF GenerateDataKey, SetWrappedTableIEK, Settled
<1>4. ASSUME NEW w \in Workers, PrepareIEK(w) \/ Fail(w)
      PROVE  Agreed' /\ handed' \subseteq handed \cup {table}
  BY <1>4 DEF PrepareIEK, Fail
<1>5. CASE CopySync
  BY <1>5 DEF CopySync
<1>6. CASE UNCHANGED vars
  BY <1>6 DEF vars
<1> QED
  BY <1>2, <1>3, <1>4, <1>5, <1>6 DEF Next

\* After the race is over and its losers are gone, clients only get one key.
THEOREM AgreedKeyIsHanded == Spec => AgreedForGood
<1>1. Inv /\ [Next]_vars =>
        [Agreed => Agreed' /\ handed' \subseteq handed \cup {table}]_vars
  BY AgreedStep
<1> QED
  BY <1>1, InvInit, InvStep, PTL DEF Spec, AgreedForGood

------------------------------------------------------------------------------
(* Without a race, and without lag, there is one key.  A single request    *)
(* only makes a key while the table has none, and hands out the table's.   *)

Alone ==
  /\ table = None => handed = {}
  /\ handed \subseteq {table}
  /\ \A w \in Workers :
       /\ pc[w] \in {"generate", "store"} => table = None
       /\ pc[w] = "prepare" => iek[w] = table

LEMMA AloneStep ==
  ASSUME Lag = FALSE, \A u, w \in Workers : u = w, Inv, Alone, [Next]_vars
  PROVE  Alone'
<1> USE DEF Alone, Inv, TypeOK, Goto
<1>1. ASSUME NEW w \in Workers, GetWrappedTableIEK(w)
      PROVE  Alone'
  BY <1>1 DEF GetWrappedTableIEK
<1>2. ASSUME NEW w \in Workers, GenerateDataKey(w) \/ Fail(w)
      PROVE  Alone'
  BY <1>2 DEF GenerateDataKey, Fail
<1>3. ASSUME NEW w \in Workers, SetWrappedTableIEK(w)
      PROVE  Alone'
  <2>1. pc[w] = "store" /\ handed = {} /\ handed' = {} /\ table' = iek[w]
    BY <1>3 DEF SetWrappedTableIEK
  <2>2. pc'[w] = "prepare" /\ iek'[w] = iek[w]
    BY <1>3 DEF SetWrappedTableIEK
  <2> QED
    BY <2>1, <2>2
<1>4. ASSUME NEW w \in Workers, PrepareIEK(w)
      PROVE  Alone'
  <2>1. iek[w] = table /\ iek[w] # None
    BY <1>4, KeyAssumption DEF PrepareIEK
  <2> QED
    BY <1>4, <2>1 DEF PrepareIEK
<1>5. CASE UNCHANGED vars
  BY <1>5 DEF vars
<1> QED
  BY <1>1, <1>2, <1>3, <1>4, <1>5 DEF Next, CopySync

\* Requests that come one after the other and read what was written share one
\* key, whatever fails: only a race or a stale read can give a table two keys.
THEOREM OneKeyWithoutRaces ==
  ASSUME Lag = FALSE, \A u, w \in Workers : u = w
  PROVE  Spec => []OneKey
<1>1. Init => Alone
  BY DEF Init, Alone
<1>2. Inv /\ Alone /\ [Next]_vars => Alone'
  BY AloneStep
<1>3. Alone => OneKey
  BY DEF Alone, OneKey
<1> QED
  BY <1>1, <1>2, <1>3, InvInit, InvStep, PTL DEF Spec
==============================================================================
