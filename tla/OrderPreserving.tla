--------------------------- MODULE OrderPreserving ---------------------------
(***************************************************************************)
(* The normalisation of values before order-preserving encryption          *)
(* (pkg/crypto/ope.go): every type is mapped to 32 bits, which the         *)
(* encryption then maps, in order, to a range of byte strings.             *)
(*                                                                         *)
(* A value of a type is written as the code sees it: an integer, or the    *)
(* bits of a float as an unsigned integer, or the Unix time in fractions   *)
(* of a second (nanoseconds in Go).  Values that the code refuses have no  *)
(* normal form.                                                            *)
(***************************************************************************)
EXTENDS Integers

CONSTANTS
  Sign,         \* 2^31, the sign bit of a half
  Infinity,     \* magnitude of the greatest float64; above it are the NaNs
  Infinity32,   \* the same of float32
  Second,       \* the fractions of a second that a time counts: 10^9
  Enc           \* goope's encryption under one key

Half == 2 * Sign                \* 2^32: 32 bits
SignBit == Half * Sign          \* 2^63

ASSUME OpeAssumption ==
  /\ Sign \in Nat \ {0}
  /\ Infinity \in 0 .. SignBit - 1
  /\ Infinity32 \in 0 .. Sign - 1
  /\ Second \in Nat \ {0}
  /\ Enc \in [0 .. Half - 1 -> Nat]
  /\ \A a, b \in 0 .. Half - 1 : a < b => Enc[a] < Enc[b]

Types == {"int64", "int32", "uint32", "float64", "float32", "time"}

Values(t) ==
  CASE t = "int64" -> -SignBit .. SignBit - 1
    [] t = "int32" -> -Sign .. Sign - 1
    [] t = "uint32" -> 0 .. Half - 1
    [] t = "float64" -> 0 .. 2 * SignBit - 1
    [] t = "float32" -> 0 .. Half - 1
    [] t = "time" -> -Half * Second .. 2 * Half * Second    \* around the 32 bits

\* The size of a float, as its bits order it: -0 and +0 are equal.
Magnitude(bits, sign) == IF bits < sign THEN bits ELSE sign - bits

\* An integer that orders the values of a type as the values themselves.
Worth(t, v) ==
  CASE t = "float64" -> Magnitude(v, SignBit)
    [] t = "float32" -> Magnitude(v, Sign)
    [] OTHER -> v

\* Mutant: the sign bit is not flipped.
NormalizeInt64OPEMut(v) == (v % (2 * SignBit)) \div Half

\* Sign bit flipped, and the high half of it.
NormalizeInt64OPE(v) == (v + SignBit) \div Half

NormalizeInt32OPE(v) == v + Sign

\* The bits of a float in the order of the floats: sign bit flipped if it is
\* positive, all bits if it is negative.
Ordered(bits, sign) == IF bits < sign THEN bits + sign ELSE 2 * sign - 1 - bits

NormalizeFloat64OPE(bits) == Ordered(bits, SignBit) \div Half
NormalizeFloat32OPE(bits) == Ordered(bits, Sign)

\* The whole seconds since 1970: Unix() rounds down, also before 1970.
NormalizeTimeOPE(v) == v \div Second

\* What the code refuses: NaN, and times before 1970 or after 2106.
Normalizable(t, v) ==
  /\ t = "float64" => Worth(t, v) \in -Infinity .. Infinity
  /\ t = "float32" => Worth(t, v) \in -Infinity32 .. Infinity32
  /\ t = "time" => NormalizeTimeOPE(v) \in 0 .. Half - 1

NormalizeValueOPE(t, v) ==
  CASE t = "int64" -> NormalizeInt64OPE(v)
    [] t = "int32" -> NormalizeInt32OPE(v)
    [] t = "float64" -> NormalizeFloat64OPE(v)
    [] t = "float32" -> NormalizeFloat32OPE(v)
    [] t = "time" -> NormalizeTimeOPE(v)
    [] OTHER -> v

\* EncryptObjectOPE of the normal form: what a client sends as a range token.
RangeToken(t, v) == Enc[NormalizeValueOPE(t, v)]

==============================================================================
