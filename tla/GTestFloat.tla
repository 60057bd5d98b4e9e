----------------------------- MODULE GTestFloat -----------------------------
(***************************************************************************)
(* Assertions on floating-point numbers: {ASSERT,EXPECT}_FLOAT_EQ and      *)
(* _DOUBLE_EQ, FloatLE and DoubleLE, and {ASSERT,EXPECT}_NEAR.             *)
(*                                                                         *)
(* A number is its bits: the sign, then the exponent, then the fraction,   *)
(* the last two of any width.  The processor's arithmetic is what a number *)
(* without sign stands for, in units of the smallest one, and the number   *)
(* to which it rounds a result.                                            *)
(***************************************************************************)
EXTENDS Integers

CONSTANTS
  kSignBitMask,      \* 2 to the power of kBitCount - 1
  kFractionBitMask,  \* 2 to the power of kFractionBitCount, minus 1
  Magnitude,         \* of the numbers from 0 to infinity
  Rounded            \* the number for a magnitude

VARIABLES
  assertion,         \* "EQ", "LE" or "NEAR"
  val1, val2,        \* its arguments
  abs_error,         \* and, for "NEAR", the third
  result             \* "none" before the assertion is evaluated

floatVars == <<assertion, val1, val2, abs_error, result>>

kMaxUlps         == 4
kExponentBitMask == kSignBitMask - kFractionBitMask - 1

Bits     == 0 .. 2 * kSignBitMask - 1
Infinity == kExponentBitMask
Unsigned == 0 .. Infinity   \* the numbers without sign, infinity included
Finite   == 0 .. Infinity - 1

\* A fraction and an exponent of one bit at least, without which nothing is a
\* NaN; Magnitude is increasing; rounding keeps what is a number, and the order.
WidthAssumption ==
  /\ kSignBitMask \in Nat /\ kFractionBitMask \in Nat \ {0}
  /\ \E exponents \in 2 .. kSignBitMask :
       kSignBitMask = exponents * (kFractionBitMask + 1)

ArithmeticAssumption ==
  /\ Magnitude \in [Unsigned -> Nat]
  /\ Magnitude[0] = 0
  /\ \A x, y \in Unsigned : x < y => Magnitude[x] < Magnitude[y]
  /\ Rounded \in [0 .. 2 * Magnitude[Infinity] -> Unsigned]
  /\ \A x \in Unsigned : Rounded[Magnitude[x]] = x
  /\ \A d, e \in DOMAIN Rounded : d <= e => Rounded[d] <= Rounded[e]

ASSUME FloatAssumption == WidthAssumption /\ ArithmeticAssumption

-----------------------------------------------------------------------------
(* FloatingPoint<RawType>                                                  *)

sign_bit(x)      == IF x < kSignBitMask THEN 0 ELSE kSignBitMask
fraction_bits(x) == (x - sign_bit(x)) % (kFractionBitMask + 1)
exponent_bits(x) == x - sign_bit(x) - fraction_bits(x)

is_nan(x) == exponent_bits(x) = kExponentBitMask /\ fraction_bits(x) # 0

\* ~sam + 1 for a negative number, in unsigned arithmetic of kBitCount bits.
SignAndMagnitudeToBiased(sam) ==
  IF sign_bit(sam) # 0 THEN (2 * kSignBitMask - 1 - sam + 1) % (2 * kSignBitMask)
                       ELSE kSignBitMask + sam

DistanceBetween(sam1, sam2) ==
  LET biased1 == SignAndMagnitudeToBiased(sam1)
      biased2 == SignAndMagnitudeToBiased(sam2)
  IN  IF biased1 >= biased2 THEN biased1 - biased2 ELSE biased2 - biased1

\* Mutant: the distance of the bits themselves.
AlmostEqualBits(lhs, rhs) ==
  /\ ~is_nan(lhs) /\ ~is_nan(rhs)
  /\ lhs - rhs \in -kMaxUlps .. kMaxUlps

\* Mutant: a NaN is like any number.
AlmostEqualNaNs(lhs, rhs) == DistanceBetween(lhs, rhs) <= kMaxUlps

AlmostEquals(lhs, rhs) ==
  /\ ~is_nan(lhs) /\ ~is_nan(rhs)
  /\ DistanceBetween(lhs, rhs) <= kMaxUlps

-----------------------------------------------------------------------------
(* The processor's operations                                              *)

Abs(x)     == x - sign_bit(x)
isinf(x)   == Abs(x) = Infinity
NaN        == Infinity + 1
Exact(x)   == IF sign_bit(x) = 0 THEN Magnitude[x] ELSE -Magnitude[Abs(x)]
Ordered(x, y) == ~is_nan(x) /\ ~is_nan(y)

Less(x, y)        == Ordered(x, y) /\ Exact(x) < Exact(y)
LessOrEqual(x, y) == Ordered(x, y) /\ Exact(x) <= Exact(y)

Gap(x, y) == IF Exact(x) < Exact(y) THEN Exact(y) - Exact(x) ELSE Exact(x) - Exact(y)

\* fabs(x - y)
AbsDifference(x, y) ==
  IF ~Ordered(x, y) \/ (isinf(x) /\ x = y) THEN NaN
  ELSE IF isinf(x) \/ isinf(y) THEN Infinity
  ELSE Rounded[Gap(x, y)]

-----------------------------------------------------------------------------
Evaluate(which, outcome) ==
  /\ assertion = which /\ result = "none"
  /\ result' = outcome
  /\ UNCHANGED <<assertion, val1, val2, abs_error>>

Holds(b) == IF b THEN "success" ELSE "failure"

CmpHelperFloatingPointEQ == Evaluate("EQ", Holds(AlmostEquals(val1, val2)))

FloatingPointLE ==
  Evaluate("LE", Holds(Less(val1, val2) \/ AlmostEquals(val1, val2)))

\* Infinities whose difference is no number, or is within an infinite error.
SameInfinity ==
  /\ isinf(val1) /\ isinf(val2)
  /\ sign_bit(val1) = sign_bit(val2) \/ (Less(0, abs_error) /\ isinf(abs_error))

\* The distance from the argument closest to zero to the next number.
Epsilon ==
  LET min_abs == IF Less(Abs(val2), Abs(val1)) THEN Abs(val2) ELSE Abs(val1)
  IN  IF min_abs = Infinity THEN NaN ELSE AbsDifference(min_abs + 1, min_abs)

\* The limit is so small that the check is one for equality.
Pointless ==
  Ordered(val1, val2) /\ Less(0, abs_error) /\ Less(abs_error, Epsilon)

\* Mutant: the difference exceeds the error only if it is greater, which a NaN
\* is not.
DoubleNearUnlessGreater ==
  Evaluate("NEAR",
    IF SameInfinity \/ ~Less(abs_error, AbsDifference(val1, val2)) THEN "success"
    ELSE IF Pointless THEN "pointless" ELSE "failure")

DoubleNearPredFormat ==
  Evaluate("NEAR",
    IF SameInfinity \/ LessOrEqual(AbsDifference(val1, val2), abs_error) THEN "success"
    ELSE IF Pointless THEN "pointless" ELSE "failure")

FloatInit ==
  /\ assertion \in {"EQ", "LE", "NEAR"}
  /\ val1 \in Bits /\ val2 \in Bits
  /\ abs_error \in IF assertion = "NEAR" THEN Bits ELSE {0}
  /\ result = "none"

Evaluated == result # "none" /\ UNCHANGED floatVars

FloatNext ==
  \/ CmpHelperFloatingPointEQ
  \/ FloatingPointLE
  \/ DoubleNearPredFormat
  \/ Evaluated

FloatSpec == FloatInit /\ [][FloatNext]_floatVars

FloatTypeOK ==
  /\ assertion \in {"EQ", "LE", "NEAR"}
  /\ val1 \in Bits /\ val2 \in Bits /\ abs_error \in Bits
  /\ result \in {"none", "success", "pointless", "failure"}

-----------------------------------------------------------------------------
(* Properties                                                              *)

\* Where a number is in the order of all of them, both zeros at 0.
Position(x) == IF x < kSignBitMask THEN x ELSE kSignBitMask - x

\* What the assertions for equality and order promise: they hold of numbers at
\* most kMaxUlps apart in the order of all numbers, whatever their signs, to
\* which infinity belongs and the zeros but once; never of a NaN.
AlmostRight ==
  /\ assertion = "EQ" /\ result # "none" =>
       (result = "success" <=>
          Ordered(val1, val2) /\ Position(val1) - Position(val2) \in -kMaxUlps .. kMaxUlps)
  /\ assertion = "LE" /\ result # "none" =>
       (result = "success" <=>
          Ordered(val1, val2) /\ Position(val1) <= Position(val2) + kMaxUlps)

\* Arguments at most a positive error apart, exactly, with infinity at most
\* infinity away from every number and from itself.
IsNear ==
  /\ Ordered(val1, val2)
  /\ \/ isinf(val1) /\ val1 = val2
     \/ /\ ~is_nan(abs_error) /\ Exact(abs_error) >= 0
        /\ \/ isinf(abs_error)
           \/ ~isinf(val1) /\ ~isinf(val2) /\ Gap(val1, val2) <= Exact(abs_error)

\* EXPECT_NEAR holds whenever the exact difference is within the error, and
\* fails when it is not within the next number after the error: the subtraction
\* is rounded, infinities have no difference and a NaN none either.
NearRight ==
  assertion = "NEAR" /\ result # "none" =>
    /\ IsNear => result = "success"
    /\ result = "success" /\ ~IsNear =>
         /\ ~isinf(val1) /\ ~isinf(val2)
         /\ abs_error \in Finite \/ abs_error = kSignBitMask
         /\ Gap(val1, val2) < Magnitude[Abs(abs_error) + 1]

\* The verdicts of the assertions on floating-point numbers, by the bits of the
\* code and its arithmetic, are those of the numbers.
FloatsCompared == AlmostRight /\ NearRight
=============================================================================
