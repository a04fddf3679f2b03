-------------------------- MODULE IndexQueriesProofs --------------------------
(***************************************************************************)
(* Proofs about IndexQueries: the key conditions select what the operators *)
(* say, normalisation loses nothing but resolution, and a client that      *)
(* walks through the pages gets every steady row once, in order.           *)
(***************************************************************************)
EXTENDS IndexQueries, SequenceTheorems, FiniteSetTheorems, TLAPS

------------------------------------------------------------------------------
(* Normalisation *)

LEMMA DivFacts ==
  ASSUME NEW a \in Int, NEW d \in Nat \ {0}
  PROVE  /\ a \div d \in Int
         /\ d * (a \div d) <= a
         /\ a < d * (a \div d) + d
  BY SMTT(30)

LEMMA DivMonotone ==
  ASSUME NEW a \in Int, NEW b \in Int, NEW d \in Nat \ {0}, a <= b
  PROVE  a \div d <= b \div d
  BY SMTT(30)

LEMMA DivBound ==
  ASSUME NEW d \in Nat \ {0}, NEW a \in 0 .. d * d - 1
  PROVE  a \div d \in 0 .. d - 1
<1> DEFINE q == a \div d
<1>1. d * d \in Int /\ a \in Int /\ 0 <= a /\ a < d * d
  OBVIOUS
<1>2. q \in Int /\ d * q <= a /\ a < d * q + d
  BY <1>1, DivFacts
<1> HIDE DEF q
<1>3. q >= 0
  <2> SUFFICES ASSUME q <= -1 PROVE FALSE
    BY <1>2
  <2>1. d * q <= d * (-1)
    BY <1>2
  <2> QED BY <2>1, <1>1, <1>2
<1>4. q <= d - 1
  <2> SUFFICES ASSUME q >= d PROVE FALSE
    BY <1>2
  <2>1. d * q >= d * d
    BY <1>2
  <2> QED BY <2>1, <1>1, <1>2
<1> QED BY <1>2, <1>3, <1>4 DEF q

\* Multiples of d that are less than d apart are equal.
LEMMA Between ==
  ASSUME NEW d \in Nat \ {0}, NEW p \in Int, NEW q \in Int, d * p < d * q + d, d * q < d * p + d
  PROVE  p = q
<1>1. p <= q
  <2> SUFFICES ASSUME p >= q + 1 PROVE FALSE
    OBVIOUS
  <2>1. d * p >= d * (q + 1)
    BY SMTT(30)
  <2> QED BY <2>1
<1>2. q <= p
  <2> SUFFICES ASSUME q >= p + 1 PROVE FALSE
    OBVIOUS
  <2>1. d * q >= d * (p + 1)
    BY SMTT(30)
  <2> QED BY <2>1
<1> QED BY <1>1, <1>2

LEMMA Sizes ==
  /\ Sign \in Nat \ {0} /\ Half \in Nat \ {0} /\ Half = Sign + Sign
  /\ SignBit \in Nat \ {0} /\ 2 * SignBit = Half * Half
  BY OpeAssumption, SMTT(30) DEF Half, SignBit

\* The order of the bits of two floats is that of the floats.
LEMMA OrderedFloats ==
  ASSUME NEW s \in Nat \ {0}, NEW a \in 0 .. 2 * s - 1, NEW b \in 0 .. 2 * s - 1
  PROVE  /\ Ordered(a, s) \in 0 .. 2 * s - 1
         /\ Magnitude(a, s) \in Int
         /\ Magnitude(a, s) < Magnitude(b, s) => Ordered(a, s) < Ordered(b, s)
  BY DEF Ordered, Magnitude

\* What a value has a normal form of.
Normal(t, v) == v \in Values(t) /\ Normalizable(t, v)

LEMMA NormalInRange ==
  ASSUME NEW t \in Types, NEW v, Normal(t, v)
  PROVE  NormalizeValueOPE(t, v) \in 0 .. Half - 1 /\ Worth(t, v) \in Int
<1> USE Sizes
<1>1. CASE t = "int64"
  <2>1. v + SignBit \in 0 .. Half * Half - 1
    BY <1>1 DEF Normal, Values
  <2> QED BY <2>1, <1>1, DivBound DEF Normal, Values, NormalizeValueOPE, NormalizeInt64OPE, Worth
<1>2. CASE t = "int32"
  BY <1>2 DEF Normal, Values, NormalizeValueOPE, NormalizeInt32OPE, Worth
<1>3. CASE t = "uint32"
  BY <1>3 DEF Normal, Values, NormalizeValueOPE, Worth
<1>4. CASE t = "float64"
  <2>1. v \in 0 .. 2 * SignBit - 1
    BY <1>4 DEF Normal, Values
  <2>2. Ordered(v, SignBit) \in 0 .. Half * Half - 1 /\ Magnitude(v, SignBit) \in Int
    BY <2>1, OrderedFloats
  <2> QED BY <2>2, <1>4, DivBound DEF NormalizeValueOPE, NormalizeFloat64OPE, Worth
<1>5. CASE t = "float32"
  <2>1. v \in 0 .. 2 * Sign - 1
    BY <1>5 DEF Normal, Values
  <2>2. Ordered(v, Sign) \in 0 .. 2 * Sign - 1 /\ Magnitude(v, Sign) \in Int
    BY <2>1, OrderedFloats
  <2> QED BY <2>2, <1>5 DEF NormalizeValueOPE, NormalizeFloat32OPE, Worth
<1>6. CASE t = "time"
  <2>1. v \in Int
    BY <1>6, OpeAssumption DEF Normal, Values
  <2> QED BY <2>1, <1>6 DEF Normal, Normalizable, NormalizeValueOPE, Worth
<1> QED BY <1>1, <1>2, <1>3, <1>4, <1>5, <1>6 DEF Types

LEMMA NormalMonotone ==
  ASSUME NEW t \in Types, NEW a, NEW b, Normal(t, a), Normal(t, b), Worth(t, a) < Worth(t, b)
  PROVE  NormalizeValueOPE(t, a) <= NormalizeValueOPE(t, b)
<1> USE Sizes
<1>0. \A x, y \in Int : x <= y => x \div Half <= y \div Half
  BY DivMonotone
<1>1. CASE t = "int64"
  <2>1. a + SignBit \in Int /\ b + SignBit \in Int /\ a + SignBit <= b + SignBit
    BY <1>1 DEF Normal, Values, Worth
  <2>2. (a + SignBit) \div Half <= (b + SignBit) \div Half
    BY <2>1, <1>0
  <2> QED BY <2>2, <1>1 DEF NormalizeValueOPE, NormalizeInt64OPE
<1>2. CASE t \in {"int32", "uint32"}
  BY <1>2 DEF Normal, Values, NormalizeValueOPE, NormalizeInt32OPE, Worth
<1>3. CASE t = "time"
  <2>1. a \in Int /\ b \in Int /\ a <= b /\ Second \in Nat \ {0}
    BY <1>3, OpeAssumption DEF Normal, Values, Worth
  <2>2. a \div Second <= b \div Second
    BY <2>1, DivMonotone
  <2> QED BY <2>2, <1>3 DEF NormalizeValueOPE, NormalizeTimeOPE
<1>4. CASE t = "float64"
  <2>1. a \in 0 .. 2 * SignBit - 1 /\ b \in 0 .. 2 * SignBit - 1
    BY <1>4 DEF Normal, Values
  <2>2. /\ Ordered(a, SignBit) \in 0 .. 2 * SignBit - 1
        /\ Ordered(b, SignBit) \in 0 .. 2 * SignBit - 1
        /\ Ordered(a, SignBit) < Ordered(b, SignBit)
    BY <2>1, <1>4, OrderedFloats DEF Worth
  <2>3. /\ Ordered(a, SignBit) \in Int /\ Ordered(b, SignBit) \in Int
        /\ Ordered(a, SignBit) <= Ordered(b, SignBit)
    BY <2>2
  <2>4. Ordered(a, SignBit) \div Half <= Ordered(b, SignBit) \div Half
    BY <2>3, <1>0
  <2> QED BY <2>4, <1>4 DEF NormalizeValueOPE, NormalizeFloat64OPE
<1>5. CASE t = "float32"
  <2>1. a \in 0 .. 2 * Sign - 1 /\ b \in 0 .. 2 * Sign - 1
    BY <1>5 DEF Normal, Values
  <2>2. /\ Ordered(a, Sign) \in 0 .. 2 * Sign - 1
        /\ Ordered(b, Sign) \in 0 .. 2 * Sign - 1
        /\ Ordered(a, Sign) < Ordered(b, Sign)
    BY <2>1, <1>5, OrderedFloats DEF Worth
  <2> QED BY <2>2, <1>5 DEF NormalizeValueOPE, NormalizeFloat32OPE
<1> QED BY <1>1, <1>2, <1>3, <1>4, <1>5 DEF Types

\* Tokens are ordered as values are, weakly, and equal values have equal tokens.
LEMMA TokensInOrder ==
  ASSUME NEW t \in Types, NEW a, NEW b, Normal(t, a), Normal(t, b)
  PROVE  /\ RangeToken(t, a) \in Ranges /\ RangeToken(t, b) \in Ranges
         /\ RangeToken(t, a) \in Nat /\ RangeToken(t, b) \in Nat
         /\ Worth(t, a) \in Int /\ Worth(t, b) \in Int
         /\ Worth(t, a) < Worth(t, b) => RangeToken(t, a) <= RangeToken(t, b)
         /\ Worth(t, b) < Worth(t, a) => RangeToken(t, b) <= RangeToken(t, a)
         /\ Worth(t, a) = Worth(t, b) /\ ~OtherZero(t, a, b) => RangeToken(t, a) = RangeToken(t, b)
<1> DEFINE m == NormalizeValueOPE(t, a)
           n == NormalizeValueOPE(t, b)
<1>1. m \in 0 .. Half - 1 /\ n \in 0 .. Half - 1 /\ Worth(t, a) \in Int /\ Worth(t, b) \in Int
  BY NormalInRange
<1>2. /\ Worth(t, a) < Worth(t, b) => m <= n
      /\ Worth(t, b) < Worth(t, a) => n <= m
  BY NormalMonotone
<1>3. Half \in Nat \ {0}
  BY Sizes
<1>4. Enc[m] \in Nat /\ Enc[n] \in Nat /\ Enc[m] \in Ranges /\ Enc[n] \in Ranges
  BY <1>1, <1>3, OpeAssumption DEF Ranges
<1>5. (m <= n => Enc[m] <= Enc[n]) /\ (n <= m => Enc[n] <= Enc[m])
  <2>1. (m < n => Enc[m] < Enc[n]) /\ (n < m => Enc[n] < Enc[m])
    BY <1>1, OpeAssumption
  <2> QED BY <2>1, <1>1, <1>3, <1>4
<1>6. Worth(t, a) = Worth(t, b) /\ ~OtherZero(t, a, b) => a = b
  <2>1. CASE t \in {"float32", "float64"}
    BY <2>1 DEF OtherZero
  <2>2. CASE t \notin {"float32", "float64"}
    BY <2>2 DEF Worth
  <2> QED BY <2>1, <2>2
<1> QED BY <1>1, <1>2, <1>4, <1>5, <1>6 DEF RangeToken

------------------------------------------------------------------------------
(* Requests *)

Asked == {start[1] : start \in Starts}

LEMMA AskedIsTyped ==
  ASSUME NEW q \in Asked
  PROVE  /\ q \in Request
         /\ q.value # None => Normal(q.type, q.value)
         /\ q.between # None => Normal(q.type, q.between[1]) /\ Normal(q.type, q.between[2])
<1>1. PICK start \in Starts : q = start[1]
  BY DEF Asked
<1>2. start \in Request \X SUBSET Keys
  BY QueryAssumption
<1>3. q \in Request
  BY <1>1, <1>2
<1>4. /\ q.value # None => q.value \in Values(q.type) /\ Normalizable(q.type, q.value)
      /\ q.between # None => \A i \in 1 .. 2 :
           q.between[i] \in Values(q.type) /\ Normalizable(q.type, q.between[i])
  BY <1>1, QueryAssumption
<1> QED BY <1>3, <1>4 DEF Normal

\* What a query on an index with a range field needs to know of its bounds.
LEMMA BoundsGiven ==
  ASSUME NEW q \in Asked, Accepted(q), q.ranged, q.op # "scan"
  PROVE  /\ q.type \in Types
         /\ q.op \in {"eq", "lt", "lte", "gt", "gte", "between"}
         /\ q.op \in {"lt", "lte", "gt", "gte"} => q.value # None
         /\ q.value # None => q.value \in Bounds(q) /\ Normal(q.type, q.value)
         /\ q.op = "between" =>
              /\ q.between[1] \in Bounds(q) /\ Normal(q.type, q.between[1])
              /\ q.between[2] \in Bounds(q) /\ Normal(q.type, q.between[2])
  BY AskedIsTyped DEF Request, Accepted, Bounds

\* A query with a bound that belongs to the range misses no value, a strict one only
\* values that share their token with a bound, and what is given too much does as well.
LEMMA ResolutionOnly ==
  ASSUME NEW q \in Asked, Accepted(q), q.ranged, q.op # "scan",
         NEW v, Normal(q.type, v), \A w \in Bounds(q) : ~OtherZero(q.type, v, w)
  PROVE  /\ HoldsOf(q, v) /\ q.op \notin {"lt", "gt"} => Holds(q, Token(q, v))
         /\ ~(HoldsOf(q, v) <=> Holds(q, Token(q, v))) =>
              \E w \in Bounds(q) : w # v /\ Token(q, v) = Token(q, w)
<1> USE BoundsGiven
<1>1. ASSUME NEW w \in Bounds(q), Normal(q.type, w)
      PROVE  /\ Token(q, v) \in Nat /\ Token(q, w) \in Nat
             /\ Worth(q.type, v) \in Int /\ Worth(q.type, w) \in Int
             /\ Worth(q.type, v) < Worth(q.type, w) => Token(q, v) <= Token(q, w)
             /\ Worth(q.type, w) < Worth(q.type, v) => Token(q, w) <= Token(q, v)
             /\ Worth(q.type, v) = Worth(q.type, w) => Token(q, v) = Token(q, w)
  BY <1>1, TokensInOrder DEF Token
<1> HIDE DEF Token, Worth
<1>2. CASE q.op \in {"lt", "lte", "gt", "gte"} \/ (q.op = "eq" /\ q.value # None)
  <2>1. q.value \in Bounds(q) /\ Normal(q.type, q.value) /\ q.value # None
    BY <1>2
  <2>2. /\ Token(q, v) \in Nat /\ Token(q, q.value) \in Nat
        /\ Worth(q.type, v) \in Int /\ Worth(q.type, q.value) \in Int
        /\ Worth(q.type, v) < Worth(q.type, q.value) => Token(q, v) <= Token(q, q.value)
        /\ Worth(q.type, q.value) < Worth(q.type, v) => Token(q, q.value) <= Token(q, v)
        /\ Worth(q.type, v) = Worth(q.type, q.value) => Token(q, v) = Token(q, q.value)
    BY <2>1, <1>1
  <2>3. CASE q.op = "eq"
    <3>1. HoldsOf(q, v) <=> Worth(q.type, v) = Worth(q.type, q.value)
      BY <2>1, <2>2, <2>3, QueryAssumption DEF HoldsOf
    <3>2. Holds(q, Token(q, v)) <=> Token(q, v) = Token(q, q.value)
      BY <2>1, <2>3 DEF Holds
    <3> QED BY <2>1, <2>2, <2>3, <3>1, <3>2
  <2>4. CASE q.op = "lt"
    <3>1. HoldsOf(q, v) <=> Worth(q.type, v) < Worth(q.type, q.value)
      BY <2>1, <2>4 DEF HoldsOf
    <3>2. Holds(q, Token(q, v)) <=> Token(q, v) < Token(q, q.value)
      BY <2>4 DEF Holds
    <3>3. ~(HoldsOf(q, v) <=> Holds(q, Token(q, v)))
          => q.value # v /\ Token(q, v) = Token(q, q.value)
      BY <2>2, <3>1, <3>2
    <3> QED BY <2>1, <2>4, <3>3
  <2>5. CASE q.op = "lte"
    <3>1. HoldsOf(q, v) <=> Worth(q.type, v) <= Worth(q.type, q.value)
      BY <2>1, <2>5 DEF HoldsOf
    <3>2. Holds(q, Token(q, v)) <=> Token(q, v) <= Token(q, q.value)
      BY <2>5 DEF Holds
    <3>3. ~(HoldsOf(q, v) <=> Holds(q, Token(q, v)))
          => q.value # v /\ Token(q, v) = Token(q, q.value)
      BY <2>2, <3>1, <3>2
    <3>4. HoldsOf(q, v) => Holds(q, Token(q, v))
      BY <2>2, <3>1, <3>2
    <3> QED BY <2>1, <3>3, <3>4
  <2>6. CASE q.op = "gt"
    <3>1. HoldsOf(q, v) <=> Worth(q.type, v) > Worth(q.type, q.value)
      BY <2>1, <2>6 DEF HoldsOf
    <3>2. Holds(q, Token(q, v)) <=> Token(q, v) > Token(q, q.value)
      BY <2>6 DEF Holds
    <3>3. ~(HoldsOf(q, v) <=> Holds(q, Token(q, v)))
          => q.value # v /\ Token(q, v) = Token(q, q.value)
      BY <2>2, <3>1, <3>2
    <3> QED BY <2>1, <2>6, <3>3
  <2>7. CASE q.op = "gte"
    <3>1. HoldsOf(q, v) <=> Worth(q.type, v) >= Worth(q.type, q.value)
      BY <2>1, <2>7 DEF HoldsOf
    <3>2. Holds(q, Token(q, v)) <=> Token(q, v) >= Token(q, q.value)
      BY <2>7 DEF Holds
    <3>3. ~(HoldsOf(q, v) <=> Holds(q, Token(q, v)))
          => q.value # v /\ Token(q, v) = Token(q, q.value)
      BY <2>2, <3>1, <3>2
    <3>4. HoldsOf(q, v) => Holds(q, Token(q, v))
      BY <2>2, <3>1, <3>2
    <3> QED BY <2>1, <3>3, <3>4
  <2> QED BY <1>2, <2>3, <2>4, <2>5, <2>6, <2>7
<1>3. CASE q.op = "eq" /\ q.value = None
  <2>1. HoldsOf(q, v) /\ Holds(q, Token(q, v))
    BY <1>3 DEF HoldsOf, Holds
  <2> QED BY <2>1
<1>4. CASE q.op = "between"
  <2> DEFINE lo == q.between[1]
             hi == q.between[2]
  <2>1. lo \in Bounds(q) /\ Normal(q.type, lo) /\ hi \in Bounds(q) /\ Normal(q.type, hi)
    BY <1>4
  <2>2. /\ Token(q, v) \in Nat /\ Token(q, lo) \in Nat
        /\ Worth(q.type, v) \in Int /\ Worth(q.type, lo) \in Int
        /\ Worth(q.type, v) < Worth(q.type, lo) => Token(q, v) <= Token(q, lo)
        /\ Worth(q.type, lo) < Worth(q.type, v) => Token(q, lo) <= Token(q, v)
        /\ Worth(q.type, v) = Worth(q.type, lo) => Token(q, v) = Token(q, lo)
    BY <2>1, <1>1
  <2>3. /\ Token(q, v) \in Nat /\ Token(q, hi) \in Nat
        /\ Worth(q.type, v) \in Int /\ Worth(q.type, hi) \in Int
        /\ Worth(q.type, v) < Worth(q.type, hi) => Token(q, v) <= Token(q, hi)
        /\ Worth(q.type, hi) < Worth(q.type, v) => Token(q, hi) <= Token(q, v)
        /\ Worth(q.type, v) = Worth(q.type, hi) => Token(q, v) = Token(q, hi)
    BY <2>1, <1>1
  <2>4. HoldsOf(q, v) <=> Worth(q.type, lo) <= Worth(q.type, v) /\ Worth(q.type, v) <= Worth(q.type, hi)
    BY <1>4 DEF HoldsOf
  <2>5. Holds(q, Token(q, v)) <=> Token(q, lo) <= Token(q, v) /\ Token(q, v) <= Token(q, hi)
    BY <1>4 DEF Holds
  <2> HIDE DEF lo, hi
  <2>6. HoldsOf(q, v) => Holds(q, Token(q, v))
    BY <2>2, <2>3, <2>4, <2>5
  <2>7. ~(HoldsOf(q, v) <=> Holds(q, Token(q, v)))
        => (lo # v /\ Token(q, v) = Token(q, lo)) \/ (hi # v /\ Token(q, v) = Token(q, hi))
    BY <2>2, <2>3, <2>4, <2>5
  <2> QED BY <2>1, <2>6, <2>7
<1> QED BY <1>2, <1>3, <1>4

\* The bounds that QueryIndexes writes down, hash, range value and least or greatest
\* id, select exactly the rows for which the operator holds.
THEOREM RangeExact ==
  ASSUME NEW q \in Asked, Accepted(q), q.ranged, q.op # "scan", NEW k \in Keys \cup ScanKeys
  PROVE  Selects(q, k) <=> Holds(q, k[1])
<1> USE BoundsGiven
<1>1. k[1] \in Nat /\ k[1] <= MaxRange /\ k[2] \in Int /\ MinId < k[2] /\ k[2] < MaxId
  <2>1. k[2] \in Ids /\ (k[1] \in Ranges \/ k[1] = 0)
    BY DEF Keys, ScanKeys
  <2>2. \A n \in 0 .. Half - 1 : Enc[n] \in Nat /\ Enc[n] <= MaxRange
    BY OpeAssumption, QueryAssumption
  <2>3. 0 \in 0 .. Half - 1
    BY Sizes
  <2>4. MaxRange \in Int /\ 0 <= MaxRange
    BY <2>2, <2>3, QueryAssumption
  <2>5. k[1] \in Nat /\ k[1] <= MaxRange
    BY <2>1, <2>2, <2>4 DEF Ranges
  <2> QED BY <2>1, <2>5, QueryAssumption
<1>2. MinId \in Int /\ MaxId \in Int /\ MaxRange \in Int
  BY QueryAssumption
<1>3. ASSUME NEW w, Normal(q.type, w) PROVE Token(q, w) \in Nat
  BY <1>3, TokensInOrder DEF Token
<1>4. k = <<k[1], k[2]>>
  BY DEF Keys, ScanKeys
<1> HIDE DEF Token
<1>5. CASE q.op = "eq"
  BY <1>5 DEF Selects, Holds
<1>6. CASE q.op = "lt"
  <2>1. Token(q, q.value) \in Nat
    BY <1>6, <1>3
  <2>2. Lower(q) = <<0, MinId>> /\ Upper(q) = <<Token(q, q.value), MinId>>
    BY <1>6 DEF Lower, Upper
  <2>3. Selects(q, k) <=> AtMost(Lower(q), k) /\ AtMost(k, Upper(q))
    BY <1>6 DEF Selects
  <2> QED BY <1>1, <1>2, <1>4, <1>6, <2>1, <2>2, <2>3 DEF AtMost, Less, Holds
<1>7. CASE q.op = "lte"
  <2>1. Token(q, q.value) \in Nat
    BY <1>7, <1>3
  <2>2. Lower(q) = <<0, MinId>> /\ Upper(q) = <<Token(q, q.value), MaxId>>
    BY <1>7 DEF Lower, Upper
  <2>3. Selects(q, k) <=> AtMost(Lower(q), k) /\ AtMost(k, Upper(q))
    BY <1>7 DEF Selects
  <2> QED BY <1>1, <1>2, <1>4, <1>7, <2>1, <2>2, <2>3 DEF AtMost, Less, Holds
<1>8. CASE q.op = "gt"
  <2>1. Token(q, q.value) \in Nat
    BY <1>8, <1>3
  <2>2. Lower(q) = <<Token(q, q.value), MaxId>> /\ Upper(q) = <<MaxRange, MaxId>>
    BY <1>8 DEF Lower, Upper
  <2>3. Selects(q, k) <=> AtMost(Lower(q), k) /\ AtMost(k, Upper(q))
    BY <1>8 DEF Selects
  <2> QED BY <1>1, <1>2, <1>4, <1>8, <2>1, <2>2, <2>3 DEF AtMost, Less, Holds
<1>9. CASE q.op = "gte"
  <2>1. Token(q, q.value) \in Nat
    BY <1>9, <1>3
  <2>2. Lower(q) = <<Token(q, q.value), MinId>> /\ Upper(q) = <<MaxRange, MaxId>>
    BY <1>9 DEF Lower, Upper
  <2>3. Selects(q, k) <=> AtMost(Lower(q), k) /\ AtMost(k, Upper(q))
    BY <1>9 DEF Selects
  <2> QED BY <1>1, <1>2, <1>4, <1>9, <2>1, <2>2, <2>3 DEF AtMost, Less, Holds
<1>10. CASE q.op = "between"
  <2>1. Token(q, q.between[1]) \in Nat /\ Token(q, q.between[2]) \in Nat
    BY <1>10, <1>3
  <2>2. /\ Lower(q) = <<Token(q, q.between[1]), MinId>>
        /\ Upper(q) = <<Token(q, q.between[2]), MaxId>>
    BY <1>10 DEF Lower, Upper
  <2>3. Selects(q, k) <=> AtMost(Lower(q), k) /\ AtMost(k, Upper(q))
    BY <1>10 DEF Selects
  <2>4. Holds(q, k[1]) <=> Token(q, q.between[1]) <= k[1] /\ k[1] <= Token(q, q.between[2])
    BY <1>10 DEF Holds
  <2> QED BY <1>1, <1>2, <1>4, <2>1, <2>2, <2>3, <2>4 DEF AtMost, Less
<1> QED BY <1>5, <1>6, <1>7, <1>8, <1>9, <1>10

------------------------------------------------------------------------------
(* The order of keys *)

AllKeys == Keys \cup ScanKeys

LEMMA KeysArePairs ==
  ASSUME NEW k \in AllKeys
  PROVE  k[1] \in Int /\ k[2] \in Int /\ k[2] \in Ids /\ k = <<k[1], k[2]>>
<1>1. CASE k \in Keys
  <2>1. k[1] \in Ranges /\ k[2] \in Ids /\ k = <<k[1], k[2]>>
    BY <1>1 DEF Keys
  <2>2. PICK n \in 0 .. Half - 1 : k[1] = Enc[n]
    BY <2>1 DEF Ranges
  <2> QED BY <2>1, <2>2, OpeAssumption, QueryAssumption
<1>2. CASE k \in ScanKeys
  <2>1. k[1] = 0 /\ k[2] \in Ids /\ k = <<k[1], k[2]>>
    BY <1>2 DEF ScanKeys
  <2> QED BY <2>1, QueryAssumption
<1> QED BY <1>1, <1>2 DEF AllKeys

\* A strict total order.
LEMMA LessOrders ==
  /\ \A j \in AllKeys : ~Less(j, j)
  /\ \A j, k \in AllKeys : Less(j, k) => ~Less(k, j)
  /\ \A j, k \in AllKeys : Less(j, k) \/ Less(k, j) \/ j = k
  /\ \A i, j, k \in AllKeys : Less(i, j) /\ Less(j, k) => Less(i, k)
<1>1. \A k \in AllKeys : k[1] \in Int /\ k[2] \in Int /\ k = <<k[1], k[2]>>
  BY KeysArePairs
<1> HIDE DEF AllKeys
<1> QED BY <1>1 DEF Less

LEMMA BeforeOrders ==
  /\ \A j \in AllKeys : ~Before(j, j)
  /\ \A j, k \in AllKeys : Before(j, k) => ~Before(k, j)
  /\ \A j, k \in AllKeys : Before(j, k) \/ Before(k, j) \/ j = k
  /\ \A i, j, k \in AllKeys : Before(i, j) /\ Before(j, k) => Before(i, k)
  BY LessOrders DEF Before

LEMMA TableInKeys ==
  ASSUME TypeOK
  PROVE  Table \subseteq AllKeys
  BY DEF TypeOK, Table, AllKeys, ScanKeys

------------------------------------------------------------------------------
(* A page is answered *)

LEMMA SeenRows ==
  ASSUME NEW s \in Seq(AllKeys), NEW seen
  PROVE  /\ AsSeen(s, seen) \in Seq(Rows)
         /\ Len(AsSeen(s, seen)) = Len(s)
         /\ \A i \in 1 .. Len(s) :
              /\ AsSeen(s, seen)[i].row = s[i]
              /\ AsSeen(s, seen)[i].object <=> s[i][2] \in seen
<1> DEFINE a == AsSeen(s, seen)
<1>1. \A i \in 1 .. Len(s) : [row |-> s[i], object |-> s[i][2] \in seen] \in Rows
  BY DEF Rows, AllKeys
<1>2. a \in [1 .. Len(s) -> Rows]
  BY <1>1 DEF AsSeen
<1>3. Len(s) \in Nat
  OBVIOUS
<1>4. a \in Seq(Rows) /\ Len(a) = Len(s)
  BY <1>2, <1>3
<1>5. ASSUME NEW i \in 1 .. Len(s) PROVE a[i].row = s[i] /\ (a[i].object <=> s[i][2] \in seen)
  <2>1. a[i] = [row |-> s[i], object |-> s[i][2] \in seen]
    BY DEF AsSeen
  <2> HIDE DEF a
  <2>2. a[i].object = (s[i][2] \in seen)
    BY <2>1
  <2>3. CASE s[i][2] \in seen
    <3>1. (s[i][2] \in seen) = TRUE
      BY <2>3
    <3>2. a[i].object = TRUE
      BY <2>2, <3>1
    <3> QED BY <2>1, <2>3, <3>2
  <2>4. CASE s[i][2] \notin seen
    <3>1. (s[i][2] \in seen) = FALSE
      BY <2>4
    <3>2. a[i].object = FALSE
      BY <2>2, <3>1
    <3> QED BY <2>1, <2>4, <3>2
  <2> QED BY <2>3, <2>4
<1> QED BY <1>4, <1>5

\* The answer so far, and then the page.
LEMMA Appended ==
  ASSUME TypeOK, NEW s \in Seq(AllKeys), NEW seen,
         answered' = answered \o AsSeen(s, seen)
  PROVE  /\ answered' \in Seq(Rows)
         /\ \A i \in DOMAIN answered : i \in DOMAIN answered' /\ answered'[i] = answered[i]
         /\ \A i \in DOMAIN s :
              /\ Len(answered) + i \in DOMAIN answered'
              /\ answered'[Len(answered) + i].row = s[i]
              /\ answered'[Len(answered) + i].object <=> s[i][2] \in seen
         /\ \A i \in DOMAIN answered' :
              i \in DOMAIN answered \/ (i - Len(answered) \in DOMAIN s /\ i > Len(answered))
         /\ \A i \in DOMAIN answered : i <= Len(answered) /\ i \in Nat
         /\ Len(answered) \in Nat /\ DOMAIN s = 1 .. Len(s) /\ Len(s) \in Nat
<1> DEFINE a == AsSeen(s, seen)
<1>1. a \in Seq(Rows) /\ Len(a) = Len(s)
  BY SeenRows
<1>2. \A i \in 1 .. Len(s) : a[i].row = s[i] /\ (a[i].object <=> s[i][2] \in seen)
  BY SeenRows
<1>3. answered \in Seq(Rows)
  BY DEF TypeOK
<1> HIDE DEF a
<1>4. answered' = answered \o a
  BY DEF a
<1>5. /\ answered' \in Seq(Rows)
      /\ Len(answered') = Len(answered) + Len(a)
      /\ \A i \in 1 .. Len(answered) + Len(a) :
           answered'[i] = IF i <= Len(answered) THEN answered[i] ELSE a[i - Len(answered)]
  <2>1. answered \o a \in Seq(Rows) /\ Len(answered \o a) = Len(answered) + Len(a)
    BY <1>1, <1>3, ConcatProperties
  <2>2. \A i \in 1 .. Len(answered) + Len(a) :
          (answered \o a)[i] = IF i <= Len(answered) THEN answered[i] ELSE a[i - Len(answered)]
    BY <1>1, <1>3, ConcatProperties
  <2> QED BY <1>4, <2>1, <2>2
<1>6. /\ DOMAIN answered = 1 .. Len(answered) /\ DOMAIN answered' = 1 .. Len(answered')
      /\ DOMAIN s = 1 .. Len(s) /\ Len(s) \in Nat /\ Len(answered) \in Nat
  BY <1>3, <1>5
<1>7. \A i \in DOMAIN s :
        /\ Len(answered) + i \in DOMAIN answered'
        /\ answered'[Len(answered) + i] = a[i]
  BY <1>1, <1>5, <1>6
<1>8. \A i \in DOMAIN answered : i \in DOMAIN answered' /\ answered'[i] = answered[i]
  BY <1>1, <1>5, <1>6
<1>9. \A i \in DOMAIN answered' :
        i \in DOMAIN answered \/ (i - Len(answered) \in DOMAIN s /\ i > Len(answered))
  BY <1>1, <1>5, <1>6
<1> QED BY <1>2, <1>5, <1>6, <1>7, <1>8, <1>9

\* What Merge and ScanTable have in common: a page of rows beyond the cursor, in order,
\* that holds every steady row up to its last key, with the objects.
PageOK(s, l, seen) ==
  /\ s \in Seq(AllKeys) /\ l \in AllKeys \cup {None}
  /\ \A i \in DOMAIN s :
       /\ Selects(req, s[i])
       /\ cursor # None => Before(cursor, s[i])
       /\ l # None => ~Before(l, s[i])
  /\ l # None => \E i \in DOMAIN s : s[i] = l
  /\ \A i, j \in DOMAIN s : i < j => Before(s[i], s[j])
  /\ \A k \in steady :
       Selects(req, k) /\ ~Passed(k) /\ (l # None => ~Before(l, k)) =>
         \E i \in DOMAIN s : s[i] = k /\ k[2] \in seen

LEMMA PageAnswered ==
  ASSUME IInv, Accepted(req), pc \in {"ask", "fetch"},
         NEW s, NEW l, NEW seen, PageOK(s, l, seen),
         answered' = answered \o AsSeen(s, seen), NextPage(l),
         UNCHANGED <<req, objects, rows, changes, steady>>
  PROVE  /\ InKeyOrder'
         /\ pc' \in {"ask", "done"}
         /\ cursor' = l
         /\ answered' \in Seq(Rows)
         /\ pc' = "ask" => cursor' # None /\ \A i \in DOMAIN answered' : ~Before(l, answered'[i].row)
         /\ \A k \in steady : Selects(req, k) /\ (pc' = "done" \/ ~Before(l, k)) =>
              \E i \in DOMAIN answered' : answered'[i].row = k /\ answered'[i].object
         /\ \A i \in DOMAIN answered' : Selects(req, answered'[i].row)
<1> USE BeforeOrders
<1>1. /\ answered' \in Seq(Rows)
      /\ \A i \in DOMAIN answered : i \in DOMAIN answered' /\ answered'[i] = answered[i]
      /\ \A i \in DOMAIN s :
           /\ Len(answered) + i \in DOMAIN answered'
           /\ answered'[Len(answered) + i].row = s[i]
           /\ answered'[Len(answered) + i].object <=> s[i][2] \in seen
      /\ \A i \in DOMAIN answered' :
           i \in DOMAIN answered \/ (i - Len(answered) \in DOMAIN s /\ i > Len(answered))
      /\ \A i \in DOMAIN answered : i <= Len(answered) /\ i \in Nat
      /\ Len(answered) \in Nat /\ DOMAIN s = 1 .. Len(s) /\ Len(s) \in Nat
  BY Appended DEF IInv, PageOK
<1>2. /\ \A i \in DOMAIN answered : answered[i].row \in AllKeys
      /\ \A i \in DOMAIN s : s[i] \in AllKeys
      /\ cursor \in AllKeys \cup {None}
  <2>1. answered \in Seq(Rows) /\ cursor \in AllKeys \cup {None} /\ s \in Seq(AllKeys)
    BY DEF IInv, TypeOK, AllKeys, PageOK
  <2>2. \A i \in DOMAIN answered : answered[i] \in Rows
    BY <2>1
  <2>3. \A r \in Rows : r.row \in AllKeys
    BY DEF Rows, AllKeys
  <2> QED BY <2>1, <2>2, <2>3
<1>3. answered # <<>> => cursor # None /\ \A i \in DOMAIN answered : ~Before(cursor, answered[i].row)
  BY DEF IInv, Ahead
<1>4. \A i \in DOMAIN answered : cursor # None /\ ~Before(cursor, answered[i].row)
  BY <1>3
<1>5. \A i \in DOMAIN answered, j \in DOMAIN s : Before(answered[i].row, s[j])
  BY <1>2, <1>4 DEF PageOK
<1>6. ASSUME NEW i \in DOMAIN answered', i \notin DOMAIN answered
      PROVE  /\ i - Len(answered) \in DOMAIN s
             /\ answered'[i].row = s[i - Len(answered)]
             /\ i = Len(answered) + (i - Len(answered))
  <2> DEFINE j == i - Len(answered)
  <2>1. j \in DOMAIN s /\ i > Len(answered)
    BY <1>1, <1>6
  <2>2. i \in Int
    BY <1>1
  <2>3. i = Len(answered) + j
    BY <2>2, <1>1
  <2> HIDE DEF j
  <2>4. answered'[Len(answered) + j].row = s[j]
    BY <2>1, <1>1
  <2> QED BY <2>1, <2>3, <2>4 DEF j
<1>7. \A i, j \in DOMAIN answered' : i < j => Before(answered'[i].row, answered'[j].row)
  <2> SUFFICES ASSUME NEW i \in DOMAIN answered', NEW j \in DOMAIN answered', i < j
               PROVE  Before(answered'[i].row, answered'[j].row)
    OBVIOUS
  <2>0. i \in Int /\ j \in Int
    BY <1>1
  <2>1. CASE i \in DOMAIN answered /\ j \in DOMAIN answered
    BY <2>1, <1>1 DEF IInv, InKeyOrder
  <2>2. CASE i \in DOMAIN answered /\ j \notin DOMAIN answered
    BY <2>2, <1>1, <1>5, <1>6
  <2>3. CASE i \notin DOMAIN answered /\ j \in DOMAIN answered
    BY <2>0, <2>3, <1>1
  <2>4. CASE i \notin DOMAIN answered /\ j \notin DOMAIN answered
    <3>1. /\ i - Len(answered) \in DOMAIN s /\ j - Len(answered) \in DOMAIN s
          /\ answered'[i].row = s[i - Len(answered)] /\ answered'[j].row = s[j - Len(answered)]
      BY <2>4, <1>6
    <3>2. i - Len(answered) < j - Len(answered)
      BY <2>0, <1>1
    <3> QED BY <3>1, <3>2 DEF PageOK
  <2> QED BY <2>1, <2>2, <2>3, <2>4
<1>8. InKeyOrder'
  BY <1>7 DEF InKeyOrder, Before
<1>9. pc' \in {"ask", "done"} /\ cursor' = l /\ (pc' = "done" <=> l = None)
  BY DEF NextPage
<1>10. ASSUME pc' = "ask" PROVE \A i \in DOMAIN answered' : ~Before(l, answered'[i].row)
  <2>1. PICK m \in DOMAIN s : s[m] = l
    BY <1>9, <1>10 DEF PageOK
  <2>2. TAKE i \in DOMAIN answered'
  <2>3. CASE i \in DOMAIN answered
    BY <2>1, <2>3, <1>1, <1>2, <1>5
  <2>4. CASE i \notin DOMAIN answered
    BY <2>1, <2>4, <1>6, <1>9, <1>10 DEF PageOK
  <2> QED BY <2>3, <2>4
<1>11. ASSUME NEW k \in steady, Selects(req, k), pc' = "done" \/ ~Before(l, k)
       PROVE  \E i \in DOMAIN answered' : answered'[i].row = k /\ answered'[i].object
  <2>1. CASE Passed(k)
    <3>1. PICK i \in DOMAIN answered : answered[i].row = k /\ answered[i].object
      BY <2>1, <1>11 DEF IInv, NoneLost
    <3> QED BY <3>1, <1>1
  <2>2. CASE ~Passed(k)
    <3>1. PICK i \in DOMAIN s : s[i] = k /\ k[2] \in seen
      BY <2>2, <1>9, <1>11 DEF PageOK
    <3>2. answered'[Len(answered) + i].object
      BY <3>1, <1>1
    <3> QED BY <3>1, <3>2, <1>1
  <2> QED BY <2>1, <2>2
<1>12. \A i \in DOMAIN answered' : Selects(req, answered'[i].row)
  <2> TAKE i \in DOMAIN answered'
  <2>1. CASE i \in DOMAIN answered
    BY <2>1, <1>1 DEF IInv, WasAccepted
  <2>2. CASE i \notin DOMAIN answered
    BY <2>2, <1>6 DEF PageOK
  <2> QED BY <2>1, <2>2
<1> QED BY <1>1, <1>8, <1>9, <1>10, <1>11, <1>12

------------------------------------------------------------------------------
(* The steps *)

LEMMA InitHolds == Init => IInv
<1> SUFFICES ASSUME Init PROVE IInv
  OBVIOUS
<1>1. PICK start \in Starts : req = start[1] /\ rows = start[2]
  BY DEF Init
<1>2. start \in Request \X SUBSET Keys
  BY QueryAssumption
<1>3. TypeOK
  <2>1. rows \subseteq Keys /\ req \in Asked /\ objects \in [Ids -> Statuses]
    BY <1>1, <1>2 DEF Init, Asked, Statuses
  <2>2. steady \subseteq Keys \cup ScanKeys
    BY <2>1 DEF Init, SteadyNow, Table, ScanKeys
  <2> QED BY <2>1, <2>2 DEF Init, TypeOK, Asked
<1> QED BY <1>3 DEF Init, IInv, InKeyOrder, Ahead, NoneLost, WasAccepted, Passed

\* Nothing that the invariant is about changes, except that the query fails.
LEMMA GivesUp ==
  ASSUME IInv, pc' = "failed",
         UNCHANGED <<req, objects, rows, changes, cursor, page, last, left, found, answered, steady>>
  PROVE  IInv'
  BY DEF IInv, TypeOK, InKeyOrder, Ahead, NoneLost, WasAccepted, Passed, SteadyNow, Table,
         Answerable, Before, Statuses, Rows

LEMMA QueryStep ==
  ASSUME IInv, QueryIndexes
  PROVE  IInv'
<1>0. PICK S \in FirstRows : \E s \in InOrder(S), l \in S \cup {None} :
        EndsWith(s, l) /\ page' = s /\ last' = l /\ left' = DOMAIN s
  BY DEF QueryIndexes
<1>1. PICK s \in InOrder(S), l \in S \cup {None} :
        EndsWith(s, l) /\ page' = s /\ last' = l /\ left' = DOMAIN s
  BY <1>0
<1>2. /\ pc = "ask" /\ pc' = "fetch" /\ Accepted(req) /\ req.op # "scan"
      /\ UNCHANGED <<req, objects, rows, changes, cursor, found, answered, steady>>
  BY DEF QueryIndexes
<1>3. /\ S \subseteq Candidates /\ IsFiniteSet(S)
      /\ \A j \in S, k \in Candidates \ S : Before(j, k)
  BY DEF FirstRows
<1>4. S \subseteq Keys
  BY <1>2, <1>3 DEF Candidates, Table, IInv, TypeOK
<1>5. Cardinality(S) \in Nat
  BY <1>3, FS_CardinalityType
<1>6. /\ s \in Seq(S) /\ DOMAIN s = 1 .. Len(s) /\ Len(s) \in Nat /\ Members(s) = S
      /\ \A i, j \in DOMAIN s : i < j => Before(s[i], s[j])
  BY <1>5 DEF InOrder
<1>7. s \in Seq(Keys) /\ \A i \in DOMAIN s : s[i] \in S
  BY <1>4, <1>6
<1>8. TypeOK'
  BY <1>1, <1>2, <1>4, <1>7 DEF IInv, TypeOK
<1>9. ASSUME NEW i \in DOMAIN s
      PROVE  /\ Selects(req, s[i])
             /\ cursor # None => Before(cursor, s[i])
             /\ l # None => ~Before(l, s[i])
  <2>1. Selects(req, s[i]) /\ (cursor # None => Before(cursor, s[i]))
    BY <1>3, <1>7 DEF Candidates
  <2>2. ASSUME l # None PROVE ~Before(l, s[i])
    <3>1. l = s[Len(s)] /\ s # <<>>
      BY <1>1, <2>2 DEF EndsWith
    <3>2. Len(s) \in DOMAIN s
      BY <3>1, <1>6
    <3>3. s[i] \in AllKeys /\ l \in AllKeys
      BY <3>1, <3>2, <1>4, <1>7 DEF AllKeys
    <3>4. CASE i = Len(s)
      BY <3>1, <3>3, <3>4, BeforeOrders
    <3>5. CASE i < Len(s)
      <4>1. Before(s[i], l)
        BY <3>1, <3>2, <3>5, <1>6
      <4> QED BY <4>1, <3>3, BeforeOrders
    <3> QED BY <3>4, <3>5, <1>6
  <2> QED BY <2>1, <2>2
<1>10. l # None => \E i \in DOMAIN s : s[i] = l
  <2>1. l # None => l \in Members(s)
    BY <1>6
  <2> QED BY <2>1 DEF Members
<1>11. Ahead'
  BY <1>1, <1>2, <1>6, <1>9, <1>10 DEF IInv, Ahead, Before
<1>12. ASSUME NEW k \in steady, Selects(req, k), ~Passed(k), l # None => ~Before(l, k)
       PROVE  \E i \in DOMAIN s : s[i] = k
  <2>1. k \in Candidates
    BY <1>12 DEF IInv, NoneLost, SteadyNow, Candidates, Passed
  <2>2. CASE l = None
    <3>1. Members(s) = Candidates
      <4>1. CASE s # <<>> /\ l = s[Len(s)]
        <5>1. Len(s) \in DOMAIN s
          BY <4>1, <1>6
        <5>2. None \in Keys
          BY <5>1, <4>1, <2>2, <1>4, <1>7
        <5>3. None \in Int \X Int
          <6>1. None[1] \in Int /\ None[2] \in Int /\ None = <<None[1], None[2]>>
            BY <5>2, KeysArePairs DEF AllKeys
          <6> QED BY <6>1
        <5> QED BY <5>3, QueryAssumption
      <4>2. CASE Members(s) = Candidates
        BY <4>2
      <4> QED BY <4>1, <4>2, <1>1 DEF EndsWith
    <3> QED BY <3>1, <2>1 DEF Members
  <2>3. CASE l # None
    <3>1. k \in S
      BY <2>1, <2>3, <1>3, <1>12
    <3> QED BY <3>1, <1>6 DEF Members
  <2> QED BY <2>2, <2>3
<1>13. NoneLost'
  <2>1. SteadyNow' = SteadyNow /\ steady' = steady
    BY <1>2 DEF SteadyNow, Table, Answerable
  <2>2. steady' \subseteq SteadyNow'
    BY <2>1 DEF IInv, NoneLost
  <2>3. \A i \in DOMAIN page' : page'[i] \in steady' /\ i \notin left' => page'[i][2] \in found'
    BY <1>1
  <2>4. \A k \in steady : Passed(k)' <=> Passed(k)
    BY <1>2 DEF Passed, Before
  <2>5. ASSUME NEW k \in steady, Accepted(req), Selects(req, k), Passed(k)
        PROVE \E i \in DOMAIN answered' : answered'[i].row = k /\ answered'[i].object
    BY <2>5, <1>2 DEF IInv, NoneLost
  <2> QED BY <2>1, <2>2, <2>3, <2>4, <2>5, <1>1, <1>2, <1>12 DEF NoneLost, Before
<1> QED BY <1>2, <1>8, <1>11, <1>13 DEF IInv, InKeyOrder, WasAccepted, Before

LEMMA BatchStep ==
  ASSUME IInv, NEW b, BatchGetItem(b)
  PROVE  IInv'
<1>1. PICK got \in SUBSET {i \in left : Batch(i) = b} :
        /\ left' = left \ got
        /\ found' = found \cup {page[i][2] : i \in {j \in got : objects[page[j][2]] # "none"}}
  BY DEF BatchGetItem
<1>2. /\ pc = "fetch"
      /\ UNCHANGED <<req, objects, rows, changes, pc, cursor, page, last, answered, steady>>
  BY DEF BatchGetItem
<1>3. page \in Seq(Keys) /\ left \subseteq DOMAIN page
  BY DEF IInv, TypeOK
<1>4. \A i \in DOMAIN page : page[i] \in Keys /\ page[i][2] \in Ids
  <2>1. \A i \in DOMAIN page : page[i] \in Keys
    BY <1>3
  <2> QED BY <2>1, KeysArePairs DEF AllKeys
<1>5. TypeOK'
  BY <1>1, <1>2, <1>3, <1>4 DEF IInv, TypeOK
<1>6. ASSUME NEW i \in DOMAIN page, page[i] \in steady, i \notin left'
      PROVE  page[i][2] \in found'
  <2>1. CASE i \in left
    <3>1. i \in got
      BY <2>1, <1>1, <1>6
    <3>2. objects[page[i][2]] # "none"
      BY <1>2, <1>6 DEF IInv, NoneLost, WasAccepted, SteadyNow, Answerable
    <3> QED BY <3>1, <3>2, <1>1
  <2>2. CASE i \notin left
    BY <2>2, <1>1, <1>6 DEF IInv, NoneLost
  <2> QED BY <2>1, <2>2
<1>7. steady' \subseteq SteadyNow'
  BY <1>2 DEF IInv, NoneLost, SteadyNow, Table, Answerable
<1>8. NoneLost'
  BY <1>2, <1>6, <1>7 DEF IInv, NoneLost, Passed, Before
<1> QED BY <1>2, <1>5, <1>8 DEF IInv, InKeyOrder, Ahead, WasAccepted, Before

LEMMA MergeStep ==
  ASSUME IInv, Merge
  PROVE  IInv'
<1>1. /\ pc = "fetch" /\ left = {} /\ page' = <<>> /\ last' = None /\ found' = {}
      /\ answered' = answered \o AsSeen(page, found) /\ NextPage(last)
      /\ UNCHANGED <<req, objects, rows, changes, left, steady>>
  BY DEF Merge
<1>2. Accepted(req) /\ req.op # "scan"
  BY <1>1 DEF IInv, WasAccepted
<1>3. page \in Seq(Keys) /\ last \in Keys \cup {None} /\ page \in Seq(AllKeys)
  BY DEF IInv, TypeOK, AllKeys
<1>4. PageOK(page, last, found)
  <2>1. ASSUME NEW k \in steady, Selects(req, k), ~Passed(k), last # None => ~Before(last, k)
        PROVE  \E i \in DOMAIN page : page[i] = k /\ k[2] \in found
    <3>1. PICK i \in DOMAIN page : page[i] = k
      BY <2>1, <1>1, <1>2 DEF IInv, NoneLost
    <3> QED BY <3>1, <1>1 DEF IInv, NoneLost
  <2> QED BY <2>1, <1>1, <1>3 DEF PageOK, IInv, Ahead, AllKeys
<1>5. /\ InKeyOrder'
      /\ pc' \in {"ask", "done"}
      /\ cursor' = last
      /\ answered' \in Seq(Rows)
      /\ pc' = "ask" => cursor' # None /\ \A i \in DOMAIN answered' : ~Before(last, answered'[i].row)
      /\ \A k \in steady : Selects(req, k) /\ (pc' = "done" \/ ~Before(last, k)) =>
           \E i \in DOMAIN answered' : answered'[i].row = k /\ answered'[i].object
      /\ \A i \in DOMAIN answered' : Selects(req, answered'[i].row)
  BY <1>1, <1>2, <1>4, PageAnswered
<1>6. TypeOK'
  BY <1>1, <1>3, <1>5 DEF IInv, TypeOK
<1>7. Ahead'
  BY <1>1, <1>5 DEF Ahead, Before
<1>8. NoneLost'
  <2>1. steady' \subseteq SteadyNow'
    BY <1>1 DEF IInv, NoneLost, SteadyNow, Table, Answerable
  <2> QED BY <2>1, <1>1, <1>5 DEF NoneLost, Passed, Before
<1>9. WasAccepted'
  BY <1>1, <1>2, <1>5 DEF WasAccepted
<1> QED BY <1>5, <1>6, <1>7, <1>8, <1>9 DEF IInv

LEMMA ScanStep ==
  ASSUME IInv, ScanTable
  PROVE  IInv'
<1> DEFINE live == {id \in Ids : objects[id] = "live"}
<1>0. PICK S \in FirstRows : \E s \in InOrder(S), l \in S \cup {None} :
        EndsWith(s, l) /\ answered' = answered \o AsSeen(s, live) /\ NextPage(l)
  BY DEF ScanTable
<1>1. PICK s \in InOrder(S), l \in S \cup {None} :
        EndsWith(s, l) /\ answered' = answered \o AsSeen(s, live) /\ NextPage(l)
  BY <1>0
<1>2. /\ pc = "ask" /\ req.op = "scan"
      /\ UNCHANGED <<req, objects, rows, changes, page, last, left, found, steady>>
  BY DEF ScanTable
<1>3. /\ S \subseteq Candidates /\ IsFiniteSet(S)
      /\ \A j \in S, k \in Candidates \ S : Before(j, k)
  BY DEF FirstRows
<1>4. S \subseteq ScanKeys /\ S \subseteq AllKeys
  BY <1>2, <1>3 DEF Candidates, Table, ScanKeys, AllKeys
<1>5. Cardinality(S) \in Nat
  BY <1>3, FS_CardinalityType
<1>6. /\ s \in Seq(S) /\ DOMAIN s = 1 .. Len(s) /\ Len(s) \in Nat /\ Members(s) = S
      /\ \A i, j \in DOMAIN s : i < j => Before(s[i], s[j])
  BY <1>5 DEF InOrder
<1>7. s \in Seq(AllKeys) /\ \A i \in DOMAIN s : s[i] \in S
  BY <1>4, <1>6
<1>8. Accepted(req)
  BY <1>2 DEF Accepted
<1>9. ASSUME NEW i \in DOMAIN s, l # None PROVE ~Before(l, s[i])
  <2>1. l = s[Len(s)] /\ s # <<>>
    BY <1>1, <1>9 DEF EndsWith
  <2>2. Len(s) \in DOMAIN s
    BY <2>1, <1>6
  <2>3. s[i] \in AllKeys /\ l \in AllKeys
    BY <2>1, <2>2, <1>4, <1>7
  <2>4. CASE i = Len(s)
    BY <2>1, <2>3, <2>4, BeforeOrders
  <2>5. CASE i < Len(s)
    <3>1. Before(s[i], l)
      BY <2>1, <2>2, <2>5, <1>6
    <3> QED BY <3>1, <2>3, BeforeOrders
  <2> QED BY <2>4, <2>5, <1>6
<1>10. ASSUME NEW k \in steady, Selects(req, k), ~Passed(k), l # None => ~Before(l, k)
       PROVE  \E i \in DOMAIN s : s[i] = k /\ k[2] \in live
  <2>1. k \in Candidates /\ Answerable(k) /\ k \in AllKeys
    BY <1>10 DEF IInv, NoneLost, SteadyNow, Candidates, Passed, TypeOK, AllKeys
  <2>2. k[2] \in live
    BY <2>1, <1>2, KeysArePairs DEF Answerable
  <2>3. k \in S
    <3>1. CASE l = None
      <4>1. None \notin AllKeys
        <5> SUFFICES ASSUME None \in AllKeys PROVE FALSE
          OBVIOUS
        <5>1. None[1] \in Int /\ None[2] \in Int /\ None = <<None[1], None[2]>>
          BY KeysArePairs
        <5>2. None \in Int \X Int
          BY <5>1
        <5> QED BY <5>2, QueryAssumption
      <4>2. ~(s # <<>> /\ l = s[Len(s)])
        <5> SUFFICES ASSUME s # <<>>, l = s[Len(s)] PROVE FALSE
          OBVIOUS
        <5>1. Len(s) \in DOMAIN s
          BY <1>6
        <5> QED BY <5>1, <4>1, <3>1, <1>4, <1>7
      <4>3. Members(s) = Candidates
        BY <4>2, <1>1 DEF EndsWith
      <4> QED BY <4>3, <2>1, <1>6
    <3>2. CASE l # None
      BY <3>2, <2>1, <1>3, <1>10
    <3> QED BY <3>1, <3>2
  <2> QED BY <2>2, <2>3, <1>6 DEF Members
<1>11. PageOK(s, l, live)
  <2>1. \A i \in DOMAIN s : Selects(req, s[i]) /\ (cursor # None => Before(cursor, s[i]))
    BY <1>3, <1>7 DEF Candidates
  <2>2. l # None => \E i \in DOMAIN s : s[i] = l
    <3>1. l # None => l \in Members(s)
      BY <1>6
    <3> QED BY <3>1 DEF Members
  <2>3. l \in AllKeys \cup {None}
    BY <1>4
  <2> HIDE DEF live
  <2> QED BY <2>1, <2>2, <2>3, <1>6, <1>7, <1>9, <1>10 DEF PageOK
<1> HIDE DEF live
<1>12. /\ InKeyOrder'
       /\ pc' \in {"ask", "done"}
       /\ cursor' = l
       /\ answered' \in Seq(Rows)
       /\ pc' = "ask" => cursor' # None /\ \A i \in DOMAIN answered' : ~Before(l, answered'[i].row)
       /\ \A k \in steady : Selects(req, k) /\ (pc' = "done" \/ ~Before(l, k)) =>
            \E i \in DOMAIN answered' : answered'[i].row = k /\ answered'[i].object
       /\ \A i \in DOMAIN answered' : Selects(req, answered'[i].row)
  BY <1>1, <1>2, <1>8, <1>11, PageAnswered
<1>13. TypeOK'
  BY <1>2, <1>4, <1>12 DEF IInv, TypeOK
<1>14. Ahead'
  BY <1>2, <1>12 DEF Ahead, Before
<1>15. NoneLost'
  <2>1. steady' \subseteq SteadyNow'
    BY <1>2 DEF IInv, NoneLost, SteadyNow, Table, Answerable
  <2>2. \A i \in DOMAIN page' : page'[i] \in steady' /\ i \notin left' => page'[i][2] \in found'
    BY <1>2 DEF IInv, NoneLost
  <2> QED BY <2>1, <2>2, <1>2, <1>12 DEF NoneLost, Passed, Before
<1>16. WasAccepted'
  BY <1>2, <1>8, <1>12 DEF WasAccepted
<1> QED BY <1>12, <1>13, <1>14, <1>15, <1>16 DEF IInv

\* A write of another request only makes fewer rows steady.
LEMMA ChangeStep ==
  ASSUME IInv, Changed, rows' \subseteq Keys, objects' \in [Ids -> Statuses]
  PROVE  IInv'
<1>1. /\ UNCHANGED <<req, pc, cursor, page, last, left, found, answered>>
      /\ changes' = changes + 1 /\ steady' = steady \cap SteadyNow'
  BY DEF Changed
<1>2. TypeOK'
  BY <1>1 DEF IInv, TypeOK
<1>3. NoneLost'
  BY <1>1 DEF IInv, NoneLost, Passed, Before
<1> QED BY <1>1, <1>2, <1>3 DEF IInv, InKeyOrder, Ahead, WasAccepted, Before

LEMMA StepKeeps == IInv /\ [Next]_vars => IInv'
<1> SUFFICES ASSUME IInv, [Next]_vars PROVE IInv'
  OBVIOUS
<1>1. CASE Refused
  BY <1>1, GivesUp DEF Refused
<1>2. CASE QueryIndexes
  BY <1>2, QueryStep
<1>3. CASE Merge
  BY <1>3, MergeStep
<1>4. CASE ScanTable
  BY <1>4, ScanStep
<1>5. ASSUME NEW b, BatchGetItem(b) PROVE IInv'
  BY <1>5, BatchStep
<1>6. ASSUME NEW b, BatchRefused(b) \/ BatchFails(b) PROVE IInv'
  BY <1>6, GivesUp DEF BatchRefused, BatchFails, FailWith
<1>7. CASE QueryFails
  BY <1>7, GivesUp DEF QueryFails
<1>8. ASSUME NEW k \in Keys, PutRow(k) \/ DropRow(k) PROVE IInv'
  <2>1. rows' \subseteq Keys /\ objects' \in [Ids -> Statuses] /\ Changed
    BY <1>8 DEF PutRow, DropRow, IInv, TypeOK
  <2> QED BY <2>1, ChangeStep
<1>9. ASSUME NEW id \in Ids, NEW status \in Statuses, SetObject(id, status) PROVE IInv'
  <2>1. rows' \subseteq Keys /\ objects' \in [Ids -> Statuses] /\ Changed
    BY <1>9 DEF SetObject, IInv, TypeOK
  <2> QED BY <2>1, ChangeStep
<1>10. CASE UNCHANGED vars
  BY <1>10 DEF vars, IInv, TypeOK, InKeyOrder, Ahead, NoneLost, WasAccepted, Passed, SteadyNow,
             Table, Answerable, Before
<1> QED BY <1>1, <1>2, <1>3, <1>4, <1>5, <1>6, <1>7, <1>8, <1>9, <1>10
        DEF Next, Answering, Fetching, Failing

------------------------------------------------------------------------------
(* Theorems *)

\* The cursor, the page under way and the answer divide the steady rows between them.
THEOREM QueryInvariance == Spec => []IInv
<1>1. Init => IInv
  BY InitHolds
<1>2. IInv /\ [Next]_vars => IInv'
  BY StepKeeps
<1> QED BY <1>1, <1>2, PTL DEF Spec

\* Paging neither repeats a row nor goes back (QueryIndexes, ScanTable, NextToken).
THEOREM NeverBack == Spec => []InKeyOrder
<1>1. IInv => InKeyOrder
  BY DEF IInv
<1> QED BY <1>1, QueryInvariance, PTL

\* The key conditions select what the operators say, of every request that is accepted.
LEMMA SelectsMatching ==
  ASSUME TypeOK, Accepted(req), NEW k \in AllKeys
  PROVE  Selects(req, k) <=> Matches(k)
<1>1. CASE req.op = "scan" \/ ~req.ranged
  BY <1>1 DEF Selects, Matches
<1>2. CASE req.op # "scan" /\ req.ranged
  <2>1. Selects(req, k) <=> Holds(req, k[1])
    BY <1>2, RangeExact DEF TypeOK, Asked, AllKeys
  <2> QED BY <2>1, <1>2 DEF Matches
<1> QED BY <1>1, <1>2

\* A client that follows the tokens to the end gets every steady object that matches,
\* and nothing else (QueryIndexes, BatchGetItem, ScanTable).
THEOREM NothingMissed == Spec => []ExactAnswer
<1>1. IInv => ExactAnswer
  <2> SUFFICES ASSUME IInv PROVE ExactAnswer
    OBVIOUS
  <2>1. ASSUME NEW i \in DOMAIN answered PROVE Matches(answered[i].row)
    <3>1. Selects(req, answered[i].row) /\ Accepted(req)
      BY <2>1 DEF IInv, WasAccepted
    <3>2. answered \in Seq(Rows) /\ \A r \in Rows : r.row \in AllKeys
      BY DEF IInv, TypeOK, Rows, AllKeys
    <3>3. answered[i].row \in AllKeys
      BY <3>2
    <3> QED BY <3>1, <3>3, SelectsMatching DEF IInv
  <2>2. ASSUME pc = "done", NEW k \in steady, Matches(k)
        PROVE  \E i \in DOMAIN answered : answered[i].row = k /\ answered[i].object
    <3>1. Accepted(req) /\ k \in AllKeys /\ TypeOK
      BY <2>2 DEF IInv, TypeOK, WasAccepted, AllKeys
    <3>2. Selects(req, k)
      BY <2>2, <3>1, SelectsMatching
    <3> QED BY <2>2, <3>1, <3>2 DEF IInv, NoneLost, Passed
  <2> QED BY <2>1, <2>2 DEF ExactAnswer
<1> QED BY <1>1, QueryInvariance, PTL

\* What the bits and fractions that are cut off cost a range query (ope.go).
THEOREM TrueToResolution == Spec => []TrueToValues
<1>1. IInv => TrueToValues
  BY ResolutionOnly DEF IInv, TypeOK, Asked, TrueToValues, Normal
<1> QED BY <1>1, QueryInvariance, PTL

\* The types that fit into the 32 bits that are encrypted.
Narrow == {"int32", "uint32", "float32"}

\* Two values share a token only when they share a normal form.
LEMMA TokensOfForms ==
  ASSUME NEW t \in Types, NEW a, NEW b, Normal(t, a), Normal(t, b)
  PROVE  RangeToken(t, a) = RangeToken(t, b) <=> NormalizeValueOPE(t, a) = NormalizeValueOPE(t, b)
<1> DEFINE m == NormalizeValueOPE(t, a)
           n == NormalizeValueOPE(t, b)
<1>1. m \in 0 .. Half - 1 /\ n \in 0 .. Half - 1 /\ Half \in Nat \ {0}
  BY NormalInRange, Sizes
<1>2. (m < n => Enc[m] < Enc[n]) /\ (n < m => Enc[n] < Enc[m])
  BY <1>1, OpeAssumption
<1>3. Enc[m] \in Nat /\ Enc[n] \in Nat
  BY <1>1, OpeAssumption
<1> QED BY <1>1, <1>2, <1>3 DEF RangeToken

\* The narrow types have a token for every value.
LEMMA NarrowTokens ==
  ASSUME NEW t \in Narrow, NEW a, NEW b, Normal(t, a), Normal(t, b),
         RangeToken(t, a) = RangeToken(t, b)
  PROVE  a = b
<1>2. NormalizeValueOPE(t, a) = NormalizeValueOPE(t, b)
  BY TokensOfForms DEF Narrow, Types
<1>3. CASE t \in {"int32", "uint32"}
  BY <1>2, <1>3, Sizes DEF Normal, Values, NormalizeValueOPE, NormalizeInt32OPE
<1>4. CASE t = "float32"
  <2>1. Ordered(a, Sign) = Ordered(b, Sign) /\ a \in 0 .. 2 * Sign - 1 /\ b \in 0 .. 2 * Sign - 1
    BY <1>2, <1>4, Sizes DEF Normal, Values, NormalizeValueOPE, NormalizeFloat32OPE
  <2> QED BY <2>1, Sizes DEF Ordered
<1> QED BY <1>3, <1>4 DEF Narrow

\* The tokens of a range query select the very values for which its operator holds.
TrueToTheBit ==
  req.ranged /\ req.op # "scan" /\ Accepted(req) =>
    \A v \in Values(req.type) :
      Normalizable(req.type, v) /\ (\A w \in Bounds(req) : ~OtherZero(req.type, v, w)) =>
        (HoldsOf(req, v) <=> Holds(req, Token(req, v)))

\* Range queries over integers and floats of 32 bits are exact, whatever the key (ope.go).
THEOREM NarrowTypesAreExact == Spec => [](req.type \in Narrow => TrueToTheBit)
<1>1. IInv /\ req.type \in Narrow => TrueToTheBit
  <2> SUFFICES ASSUME IInv, req.type \in Narrow, req.ranged, req.op # "scan", Accepted(req),
                      NEW v, Normal(req.type, v),
                      \A w \in Bounds(req) : ~OtherZero(req.type, v, w)
               PROVE  HoldsOf(req, v) <=> Holds(req, Token(req, v))
    BY DEF TrueToTheBit, Normal
  <2>1. req \in Asked
    BY DEF IInv, TypeOK, Asked
  <2>2. \A w \in Bounds(req) : Normal(req.type, w)
    BY <2>1, AskedIsTyped DEF Bounds
  <2>3. ~(HoldsOf(req, v) <=> Holds(req, Token(req, v))) =>
          \E w \in Bounds(req) : w # v /\ Token(req, v) = Token(req, w)
    BY <2>1, ResolutionOnly
  <2> QED BY <2>2, <2>3, NarrowTokens DEF Token
<1> QED BY <1>1, QueryInvariance, PTL

\* 64-bit integers share a token when their high halves agree: among 0 .. 2^32 - 1, for
\* one, a range query sees no order (NormalizeInt64OPE, ope.go:127 "high-32-bit
\* truncation").
THEOREM LongsByHalves ==
  ASSUME NEW a \in Values("int64"), NEW b \in Values("int64")
  PROVE  RangeToken("int64", a) = RangeToken("int64", b) <=> a \div Half = b \div Half
<1> DEFINE m == NormalizeValueOPE("int64", a)
           n == NormalizeValueOPE("int64", b)
           i == a \div Half
           j == b \div Half
<1>2. RangeToken("int64", a) = RangeToken("int64", b) <=> m = n
  BY TokensOfForms DEF Normal, Normalizable, Types
<1>3. ASSUME NEW v \in Values("int64")
      PROVE  NormalizeValueOPE("int64", v) = v \div Half + Sign
  <2>1. /\ v \in Int /\ SignBit \in Int /\ Half \in Nat \ {0} /\ Sign \in Nat
        /\ SignBit = Half * Sign
    BY Sizes DEF Values, SignBit
  <2> DEFINE q == v \div Half
  <2>2. q \in Int /\ Half * q <= v /\ v < Half * q + Half
    BY <2>1, DivFacts
  <2> DEFINE p == (v + SignBit) \div Half
  <2>3. p \in Int /\ Half * p <= v + SignBit /\ v + SignBit < Half * p + Half
    BY <2>1, DivFacts
  <2>4. p = q + Sign
    <3> HIDE DEF p, q
    <3>1. Half * (q + Sign) = Half * q + SignBit /\ q + Sign \in Int
      BY <2>1, <2>2
    <3>2. /\ Half * p < Half * (q + Sign) + Half
          /\ Half * (q + Sign) < Half * p + Half
      BY <2>1, <2>2, <2>3, <3>1
    <3> QED BY <2>1, <2>3, <3>1, <3>2, Between
  <2> QED BY <2>4 DEF NormalizeValueOPE, NormalizeInt64OPE
<1>4. i \in Int /\ j \in Int /\ Sign \in Nat
  BY DivFacts, Sizes DEF Values
<1>5. m = i + Sign /\ n = j + Sign
  BY <1>3
<1>6. m = n <=> i = j
  <2> HIDE DEF m, n, i, j
  <2> QED BY <1>4, <1>5
<1> QED BY <1>2, <1>6

\* Two times share a token exactly when they lie in the same second: a range query sees
\* no order within it, and an equality query takes them for one (NormalizeTimeOPE, ope.go).
THEOREM TimesBySecond ==
  ASSUME NEW a \in Values("time"), NEW b \in Values("time"),
         Normalizable("time", a), Normalizable("time", b)
  PROVE  RangeToken("time", a) = RangeToken("time", b) <=> a \div Second = b \div Second
BY TokensOfForms DEF Normal, Types, NormalizeValueOPE, NormalizeTimeOPE

==============================================================================
