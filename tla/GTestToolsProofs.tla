------------------------- MODULE GTestToolsProofs -------------------------
(***************************************************************************)
(* Proofs about the tools that tests are made of: the floating-point       *)
(* assertions, the payloads that matchers share, thread-local values, and  *)
(* death tests, for every test body, every style and whatever system calls *)
(* fail; about the filters that select tests, for every text; and about    *)
(* where the reports of programs go, for every disk and flag.              *)
(***************************************************************************)
EXTENDS GTestDeath, GTestFilter, GTestFloat, GTestOutput, GTestPayload, GTestThreads,
        Sums, SequenceTheorems, FiniteSetTheorems, TLAPS

-----------------------------------------------------------------------------
(* GTestFloat: the bits of a number                                        *)

\* A product that is smaller than a factor is 0.
LEMMA SmallProduct ==
  ASSUME NEW a \in Int, NEW b \in Nat, NEW c \in Int, a * b = c, -b < c, c < b
  PROVE  a = 0
<1>1. ASSUME a >= 1 PROVE FALSE
  <2>1. (a - 1) * b >= 0 /\ (a - 1) * b = a * b - b
    BY <1>1
  <2> QED
    BY <2>1
<1>2. ASSUME a <= -1 PROVE FALSE
  <2>1. (-1 - a) * b >= 0 /\ (-1 - a) * b = -b - a * b
    BY <1>2
  <2> QED
    BY <2>1
<1> QED
  BY <1>1, <1>2

\* Above the fraction the bits of infinity are a multiple of what a fraction holds.
LEMMA Layout ==
  /\ kSignBitMask \in Nat /\ kFractionBitMask \in Nat \ {0}
  /\ kExponentBitMask \in Nat \ {0}
  /\ kSignBitMask = kExponentBitMask + kFractionBitMask + 1
  /\ \E n \in Nat : kExponentBitMask = n * (kFractionBitMask + 1)
<1>1. kSignBitMask \in Nat /\ kFractionBitMask \in Nat \ {0}
  BY FloatAssumption DEF WidthAssumption
<1>2. PICK exponents \in 2 .. kSignBitMask : kSignBitMask = exponents * (kFractionBitMask + 1)
  BY FloatAssumption DEF WidthAssumption
<1>3. /\ kExponentBitMask = (exponents - 1) * (kFractionBitMask + 1)
      /\ (exponents - 2) * (kFractionBitMask + 1) \in Nat
  BY <1>1, <1>2 DEF kExponentBitMask
<1>4. (exponents - 1) * (kFractionBitMask + 1)
        = (exponents - 2) * (kFractionBitMask + 1) + kFractionBitMask + 1
  BY <1>1, <1>2
<1>5. kExponentBitMask \in Nat \ {0} /\ exponents - 1 \in Nat
  BY <1>1, <1>2, <1>3, <1>4
<1>6. kSignBitMask = kExponentBitMask + kFractionBitMask + 1
  BY <1>1 DEF kExponentBitMask
<1>7. \E n \in Nat : kExponentBitMask = n * (kFractionBitMask + 1)
  <2> WITNESS exponents - 1 \in Nat
  <2> QED
    BY <1>3
<1> QED
  BY <1>1, <1>5, <1>6, <1>7

LEMMA MagnitudeOf ==
  ASSUME NEW x \in Bits
  PROVE  /\ Abs(x) \in 0 .. kSignBitMask - 1
         /\ sign_bit(x) \in {0, kSignBitMask} /\ x = sign_bit(x) + Abs(x)
         /\ sign_bit(x) = 0 <=> x < kSignBitMask
BY Layout DEF Bits, Abs, sign_bit

\* A number is a NaN exactly if its magnitude is beyond infinity.
LEMMA BeyondInfinity ==
  ASSUME NEW x \in Bits
  PROVE  is_nan(x) <=> Abs(x) > Infinity
<1> DEFINE W == kFractionBitMask + 1
           a == Abs(x)
           r == fraction_bits(x)
<1>1. W \in Nat \ {0} /\ a \in Nat /\ a < kExponentBitMask + W /\ kExponentBitMask \in Nat
  BY Layout, MagnitudeOf
<1>2. r = a % W /\ r \in 0 .. W - 1 /\ a = W * (a \div W) + r /\ a \div W \in Nat
  <2>1. r = a % W
    BY DEF fraction_bits, Abs
  <2> HIDE DEF W, a, r
  <2> QED
    BY <1>1, <2>1
<1>3. PICK n \in Nat : kExponentBitMask = n * W
  BY Layout
<1>4. exponent_bits(x) = a - r
  BY DEF exponent_bits, Abs
<1>5. ASSUME a > kExponentBitMask PROVE a - r = kExponentBitMask /\ r # 0
  <2> HIDE DEF W, a, r
  <2>1. (a \div W - n) * W = a - r - kExponentBitMask
    <3>1. PICK q \in Nat : q = a \div W
      BY <1>2
    <3>2. (q - n) * W = W * q - n * W
      BY <1>1, <1>3, <3>1
    <3>3. W * q = a - r
      <4> DEFINE c == W * q
      <4>1. c \in Nat /\ a = c + r /\ r \in Nat
        BY <1>1, <1>2, <3>1
      <4> HIDE DEF c
      <4>2. c = a - r
        BY <1>1, <4>1
      <4> QED
        BY <4>2 DEF c
    <3> QED
      BY <1>3, <3>1, <3>2, <3>3
  <2>2. a \div W - n = 0
    <3>1. -W < a - r - kExponentBitMask /\ a - r - kExponentBitMask < W
      BY <1>1, <1>2, <1>5
    <3>2. a \div W - n \in Int /\ a - r - kExponentBitMask \in Int
      BY <1>1, <1>2, <1>3
    <3> QED
      BY <1>1, <2>1, <3>1, <3>2, SmallProduct
  <2> QED
    BY <1>1, <1>2, <1>3, <1>5, <2>1, <2>2
<1> HIDE DEF W, a, r
<1>6. is_nan(x) <=> a - r = kExponentBitMask /\ r # 0
  BY <1>4 DEF is_nan, r
<1>7. ASSUME a - r = kExponentBitMask, r # 0 PROVE a > kExponentBitMask
  BY <1>1, <1>2, <1>7
<1> QED
  BY <1>5, <1>6, <1>7 DEF Infinity, a

LEMMA Biased ==
  ASSUME NEW x \in Bits
  PROVE  SignAndMagnitudeToBiased(x) = kSignBitMask + Position(x)
<1>1. CASE x < kSignBitMask
  BY <1>1, Layout DEF Bits, SignAndMagnitudeToBiased, sign_bit, Position
<1>2. CASE x >= kSignBitMask
  <2>1. 2 * kSignBitMask - x \in 0 .. 2 * kSignBitMask - 1
    BY <1>2, Layout DEF Bits
  <2>2. (2 * kSignBitMask - 1 - x + 1) % (2 * kSignBitMask) = 2 * kSignBitMask - x
    BY <2>1, Layout DEF Bits
  <2> QED
    BY <1>2, <2>2, Layout DEF Bits, SignAndMagnitudeToBiased, sign_bit, Position
<1> QED
  BY <1>1, <1>2, Layout DEF Bits

\* AlmostEquals measures the distance of the places in the order of all numbers.
LEMMA AlmostByPosition ==
  ASSUME NEW x \in Bits, NEW y \in Bits
  PROVE  /\ Position(x) \in Int /\ Position(y) \in Int
         /\ AlmostEquals(x, y) <=>
              Ordered(x, y) /\ Position(x) - Position(y) \in -kMaxUlps .. kMaxUlps
<1>1. Position(x) \in Int /\ Position(y) \in Int
  BY Layout DEF Position, Bits
<1>2. DistanceBetween(x, y) <= kMaxUlps <=> Position(x) - Position(y) \in -kMaxUlps .. kMaxUlps
  BY <1>1, Biased, Layout DEF DistanceBetween, kMaxUlps
<1> QED
  BY <1>1, <1>2 DEF AlmostEquals, Ordered

-----------------------------------------------------------------------------
(* GTestFloat: the order of the numbers                                    *)

LEMMA MagnitudeMonotonic ==
  /\ Magnitude \in [Unsigned -> Nat]
  /\ \A x, y \in Unsigned : x < y <=> Magnitude[x] < Magnitude[y]
  /\ \A x, y \in Unsigned : x <= y <=> Magnitude[x] <= Magnitude[y]
  /\ Magnitude[0] = 0 /\ 0 \in Unsigned /\ Infinity \in Unsigned /\ 0 < Magnitude[Infinity]
<1>1. /\ Magnitude \in [Unsigned -> Nat] /\ Magnitude[0] = 0
      /\ \A x, y \in Unsigned : x < y => Magnitude[x] < Magnitude[y]
  BY FloatAssumption DEF ArithmeticAssumption
<1>2. Unsigned \subseteq Nat /\ 0 \in Unsigned /\ Infinity \in Unsigned /\ 0 < Infinity
  BY Layout DEF Unsigned, Infinity
<1>3. \A x, y \in Unsigned : x < y <=> Magnitude[x] < Magnitude[y]
  BY <1>1, <1>2
<1>4. \A x, y \in Unsigned : x <= y <=> Magnitude[x] <= Magnitude[y]
  BY <1>1, <1>2, <1>3
<1> QED
  BY <1>1, <1>2, <1>3, <1>4

LEMMA NumberExact ==
  ASSUME NEW x \in Bits, ~is_nan(x)
  PROVE  /\ Abs(x) \in Unsigned
         /\ Magnitude[Abs(x)] \in Nat /\ Magnitude[Abs(x)] <= Magnitude[Infinity]
         /\ x < kSignBitMask => Exact(x) = Magnitude[Abs(x)] /\ Abs(x) = x
         /\ x >= kSignBitMask => Exact(x) = -Magnitude[Abs(x)] /\ Abs(x) = x - kSignBitMask
         /\ Exact(x) \in Int
<1>1. Abs(x) \in Unsigned
  BY BeyondInfinity, MagnitudeOf, Layout DEF Unsigned, Infinity
<1>2. /\ x < kSignBitMask => sign_bit(x) = 0 /\ Abs(x) = x
      /\ x >= kSignBitMask => sign_bit(x) # 0 /\ Abs(x) = x - kSignBitMask
  BY Layout DEF sign_bit, Abs, Bits
<1>3. Magnitude[Abs(x)] \in Nat /\ Magnitude[Abs(x)] <= Magnitude[Infinity]
  BY <1>1, MagnitudeMonotonic, Layout DEF Unsigned, Infinity
<1>4. x \in Int /\ kSignBitMask \in Int
  BY Layout DEF Bits
<1> QED
  BY <1>1, <1>2, <1>3, <1>4 DEF Exact

LEMMA ExactByPosition ==
  ASSUME NEW x \in Bits, NEW y \in Bits, Ordered(x, y)
  PROVE  Exact(x) < Exact(y) <=> Position(x) < Position(y)
<1>1. ~is_nan(x) /\ ~is_nan(y) /\ x \in Int /\ y \in Int /\ kSignBitMask \in Int
  BY Layout DEF Ordered, Bits
<1>2. /\ Magnitude[Abs(x)] \in Nat /\ Magnitude[Abs(y)] \in Nat
      /\ Abs(x) \in Nat /\ Abs(y) \in Nat
      /\ Abs(x) < Abs(y) <=> Magnitude[Abs(x)] < Magnitude[Abs(y)]
      /\ Abs(y) < Abs(x) <=> Magnitude[Abs(y)] < Magnitude[Abs(x)]
      /\ 0 < Abs(x) <=> 0 < Magnitude[Abs(x)]
      /\ 0 < Abs(y) <=> 0 < Magnitude[Abs(y)]
  BY <1>1, NumberExact, MagnitudeMonotonic, Layout DEF Unsigned, Infinity
<1>3. /\ x < kSignBitMask => Exact(x) = Magnitude[Abs(x)] /\ Position(x) = Abs(x)
      /\ x >= kSignBitMask => Exact(x) = -Magnitude[Abs(x)] /\ Position(x) = -Abs(x)
  BY <1>1, NumberExact DEF Position
<1>4. /\ y < kSignBitMask => Exact(y) = Magnitude[Abs(y)] /\ Position(y) = Abs(y)
      /\ y >= kSignBitMask => Exact(y) = -Magnitude[Abs(y)] /\ Position(y) = -Abs(y)
  BY <1>1, NumberExact DEF Position
<1> QED
  BY <1>1, <1>2, <1>3, <1>4

-----------------------------------------------------------------------------
(* GTestFloat: the difference                                              *)

LEMMA RoundedDifference ==
  ASSUME NEW x \in Bits, NEW y \in Bits, Ordered(x, y)
  PROVE  /\ Gap(x, y) \in DOMAIN Rounded /\ Gap(x, y) \in Nat
         /\ Rounded[Gap(x, y)] \in Unsigned
         /\ \A z \in Unsigned : Gap(x, y) <= Magnitude[z] => Rounded[Gap(x, y)] <= z
         /\ \A z \in Unsigned : Magnitude[z] <= Gap(x, y) => z <= Rounded[Gap(x, y)]
<1>1. /\ Exact(x) \in Int /\ Exact(y) \in Int
      /\ -Magnitude[Infinity] <= Exact(x) /\ Exact(x) <= Magnitude[Infinity]
      /\ -Magnitude[Infinity] <= Exact(y) /\ Exact(y) <= Magnitude[Infinity]
      /\ Magnitude[Infinity] \in Nat
  BY NumberExact, MagnitudeMonotonic, Layout DEF Ordered, Bits
<1>2. Gap(x, y) \in 0 .. 2 * Magnitude[Infinity]
  BY <1>1 DEF Gap
<1>3. /\ Rounded \in [0 .. 2 * Magnitude[Infinity] -> Unsigned]
      /\ \A z \in Unsigned : Rounded[Magnitude[z]] = z
      /\ \A d, e \in DOMAIN Rounded : d <= e => Rounded[d] <= Rounded[e]
  BY FloatAssumption DEF ArithmeticAssumption
<1>4. \A z \in Unsigned : Magnitude[z] \in DOMAIN Rounded
  BY <1>1, <1>3, MagnitudeMonotonic, Layout DEF Unsigned, Infinity
<1> QED
  BY <1>2, <1>3, <1>4

\* A number without sign, as a number.
LEMMA UnsignedExact ==
  ASSUME NEW z \in Unsigned
  PROVE  z \in Bits /\ ~is_nan(z) /\ Exact(z) = Magnitude[z] /\ Abs(z) = z /\ sign_bit(z) = 0
<1>1. z \in Bits /\ z < kSignBitMask /\ Abs(z) = z /\ sign_bit(z) = 0
  BY Layout DEF Unsigned, Infinity, Bits, Abs, sign_bit
<1>2. ~is_nan(z)
  BY <1>1, BeyondInfinity, Layout DEF Unsigned, Infinity
<1> QED
  BY <1>1, <1>2 DEF Exact

LEMMA NaNIsNaN == NaN \in Bits /\ is_nan(NaN)
<1>1. NaN \in Bits /\ NaN < kSignBitMask
  BY Layout DEF NaN, Infinity, Bits
<1>2. Abs(NaN) = NaN
  BY <1>1, Layout DEF Abs, sign_bit, Bits
<1> QED
  BY <1>1, <1>2, BeyondInfinity, Layout DEF NaN, Infinity

\* A limit that is not negative is the number of its magnitude.
LEMMA LimitExact ==
  ASSUME NEW e \in Bits, ~is_nan(e), Exact(e) >= 0
  PROVE  /\ Abs(e) \in Unsigned /\ Exact(e) = Magnitude[Abs(e)]
         /\ e >= kSignBitMask => e = kSignBitMask
<1>1. Abs(e) \in Unsigned /\ Magnitude[Abs(e)] \in Nat
  BY NumberExact
<1>2. CASE e < kSignBitMask
  BY <1>1, <1>2, NumberExact, Layout DEF Bits
<1>3. CASE e >= kSignBitMask
  <2>1. Exact(e) = -Magnitude[Abs(e)] /\ Abs(e) = e - kSignBitMask
    BY <1>3, NumberExact
  <2>2. Magnitude[Abs(e)] = 0
    BY <1>1, <2>1
  <2>3. ~(0 < Abs(e))
    BY <1>1, <2>2, MagnitudeMonotonic
  <2>4. Abs(e) = 0
    BY <1>1, <2>3, Layout DEF Unsigned, Infinity
  <2>5. e = kSignBitMask
    BY <2>1, <2>4, Layout DEF Bits
  <2>6. Exact(e) = 0
    <3>1. Exact(e) \in Int /\ Exact(e) + Magnitude[Abs(e)] = 0
      BY <1>1, <2>1, NumberExact
    <3> QED
      BY <2>2, <3>1
  <2> QED
    BY <1>1, <2>2, <2>5, <2>6
<1> QED
  BY <1>2, <1>3, Layout DEF Bits

\* Among the limits only positive infinity is as great as infinity.
LEMMA LimitInfinite ==
  ASSUME NEW e \in Bits, ~is_nan(e)
  PROVE  /\ Exact(e) <= Magnitude[Infinity]
         /\ Exact(e) >= Magnitude[Infinity] => isinf(e)
         /\ isinf(e) /\ Exact(e) >= 0 => Exact(e) = Magnitude[Infinity] /\ Less(0, e)
<1>1. /\ Abs(e) \in Unsigned /\ Magnitude[Abs(e)] \in Nat /\ Exact(e) \in Int
      /\ Magnitude[Abs(e)] <= Magnitude[Infinity] /\ Magnitude[Infinity] \in Nat \ {0}
      /\ Exact(e) = Magnitude[Abs(e)] \/ Exact(e) = -Magnitude[Abs(e)]
  BY NumberExact, MagnitudeMonotonic, Layout DEF Bits
<1>2. Exact(e) <= Magnitude[Infinity]
  BY <1>1
<1>3. ASSUME Exact(e) >= Magnitude[Infinity] PROVE isinf(e)
  <2>1. ~(Magnitude[Abs(e)] < Magnitude[Infinity])
    BY <1>1, <1>3
  <2>2. ~(Abs(e) < Infinity)
    BY <1>1, <2>1, MagnitudeMonotonic
  <2> QED
    BY <1>1, <2>2, Layout DEF isinf, Unsigned, Infinity
<1>4. ASSUME isinf(e), Exact(e) >= 0 PROVE Exact(e) = Magnitude[Infinity] /\ Less(0, e)
  <2>1. Exact(e) = Magnitude[Infinity]
    BY <1>1, <1>4, LimitExact DEF isinf
  <2>2. ~is_nan(0) /\ Exact(0) = 0
    BY UnsignedExact, MagnitudeMonotonic
  <2> QED
    BY <1>1, <2>1, <2>2 DEF Less, Ordered
<1> QED
  BY <1>2, <1>3, <1>4

\* What DoubleNearPredFormat tests.
Near == SameInfinity \/ LessOrEqual(AbsDifference(val1, val2), abs_error)

\* Arguments within the error pass: the rounded difference does not exceed it.
LEMMA NearSucceeds ==
  ASSUME FloatTypeOK, IsNear
  PROVE  Near
<1>1. val1 \in Bits /\ val2 \in Bits /\ abs_error \in Bits /\ Ordered(val1, val2)
  BY DEF FloatTypeOK, IsNear
<1>2. CASE isinf(val1) /\ val1 = val2
  BY <1>2 DEF Near, SameInfinity
<1>3. ASSUME ~(isinf(val1) /\ val1 = val2) PROVE Near
  <2>1. ~is_nan(abs_error) /\ Exact(abs_error) >= 0
    BY <1>3 DEF IsNear
  <2>2. CASE isinf(abs_error) /\ isinf(val1) /\ isinf(val2)
    BY <1>1, <2>1, <2>2, LimitInfinite DEF Near, SameInfinity
  <2>3. CASE isinf(abs_error) /\ ~(isinf(val1) /\ isinf(val2)) /\ (isinf(val1) \/ isinf(val2))
    <3>1. AbsDifference(val1, val2) = Infinity
      BY <1>1, <1>3, <2>3 DEF AbsDifference
    <3>2. ~is_nan(Infinity) /\ Exact(Infinity) = Magnitude[Infinity] /\ Magnitude[Infinity] \in Int
      BY MagnitudeMonotonic, UnsignedExact
    <3>3. Exact(abs_error) = Magnitude[Infinity]
      BY <1>1, <2>1, <2>3, LimitInfinite
    <3> QED
      BY <2>1, <3>1, <3>2, <3>3 DEF Near, LessOrEqual, Ordered
  <2>4. CASE ~isinf(val1) /\ ~isinf(val2)
    <3> DEFINE D == Rounded[Gap(val1, val2)]
    <3>1. AbsDifference(val1, val2) = D
      BY <1>1, <2>4 DEF AbsDifference
    <3>2. D \in Unsigned /\ Abs(abs_error) \in Unsigned
      BY <1>1, <2>1, RoundedDifference, NumberExact
    <3>3. Exact(abs_error) = Magnitude[Abs(abs_error)]
      BY <1>1, <2>1, LimitExact
    <3>4. D <= Abs(abs_error)
      <4>1. CASE isinf(abs_error)
        BY <3>2, <4>1, Layout DEF isinf, Unsigned, Infinity
      <4>2. CASE ~isinf(abs_error)
        <5>1. Gap(val1, val2) <= Magnitude[Abs(abs_error)]
          BY <1>3, <2>4, <3>3, <4>2 DEF IsNear
        <5> QED
          BY <1>1, <3>2, <5>1, RoundedDifference
      <4> QED
        BY <4>1, <4>2
    <3>5. ~is_nan(D) /\ Exact(D) = Magnitude[D] /\ Magnitude[D] <= Magnitude[Abs(abs_error)]
      BY <3>2, <3>4, UnsignedExact, MagnitudeMonotonic
    <3> HIDE DEF D
    <3> QED
      BY <2>1, <3>1, <3>3, <3>5 DEF Near, LessOrEqual, Ordered
  <2>5. isinf(abs_error) \/ (~isinf(val1) /\ ~isinf(val2))
    BY <1>3 DEF IsNear
  <2> QED
    BY <2>2, <2>3, <2>4, <2>5
<1> QED
  BY <1>2, <1>3

\* Arguments that pass and are not within the error are finite, and nearer
\* than the number after the error: a difference as great as that one is not
\* rounded below it.
LEMMA NearFails ==
  ASSUME FloatTypeOK, Near, ~IsNear
  PROVE  /\ ~isinf(val1) /\ ~isinf(val2)
         /\ abs_error \in Finite \/ abs_error = kSignBitMask
         /\ Gap(val1, val2) < Magnitude[Abs(abs_error) + 1]
<1>1. val1 \in Bits /\ val2 \in Bits /\ abs_error \in Bits
  BY DEF FloatTypeOK
<1>2. ASSUME NEW x \in Bits, isinf(x) PROVE ~is_nan(x)
  BY <1>2, BeyondInfinity, Layout DEF isinf, Infinity
<1>3. ~SameInfinity
  <2>1. ASSUME isinf(val1), isinf(val2), sign_bit(val1) = sign_bit(val2) PROVE FALSE
    <3>1. val1 = val2
      BY <1>1, <2>1, MagnitudeOf DEF isinf
    <3> QED
      BY <1>1, <1>2, <2>1, <3>1 DEF IsNear, Ordered
  <2>2. ASSUME isinf(val1), isinf(val2), Less(0, abs_error), isinf(abs_error) PROVE FALSE
    <3>1. ~is_nan(abs_error) /\ Exact(0) < Exact(abs_error) /\ Exact(0) = 0
      BY <2>2, UnsignedExact, MagnitudeMonotonic DEF Less, Ordered
    <3>2. Exact(abs_error) \in Int
      BY <1>1, <3>1, NumberExact
    <3> QED
      BY <1>1, <1>2, <2>2, <3>1, <3>2 DEF IsNear, Ordered
  <2> QED
    BY <2>1, <2>2 DEF SameInfinity
<1> DEFINE D == AbsDifference(val1, val2)
<1>4. ~is_nan(D) /\ ~is_nan(abs_error) /\ Exact(D) <= Exact(abs_error)
  BY <1>3 DEF Near, LessOrEqual, Ordered
<1>5. Ordered(val1, val2) /\ ~(isinf(val1) /\ val1 = val2)
  BY <1>4, NaNIsNaN DEF AbsDifference
<1>6. ~isinf(val1) /\ ~isinf(val2)
  <2>1. SUFFICES ASSUME isinf(val1) \/ isinf(val2) PROVE FALSE
    OBVIOUS
  <2>2. D = Infinity
    BY <1>5, <2>1 DEF AbsDifference
  <2>3. Exact(D) = Magnitude[Infinity] /\ Magnitude[Infinity] \in Nat
    BY <2>2, UnsignedExact, MagnitudeMonotonic
  <2>4. Exact(abs_error) \in Int
    BY <1>1, <1>4, NumberExact
  <2>5. Exact(abs_error) >= 0 /\ Exact(abs_error) >= Magnitude[Infinity]
    BY <1>4, <2>3, <2>4
  <2>6. isinf(abs_error)
    BY <1>1, <1>4, <2>5, LimitInfinite
  <2> QED
    BY <1>4, <1>5, <2>5, <2>6 DEF IsNear
<1>7. /\ D = Rounded[Gap(val1, val2)] /\ D \in Unsigned
      /\ Exact(D) = Magnitude[D] /\ Magnitude[D] \in Nat
  <2>1. D = Rounded[Gap(val1, val2)]
    BY <1>5, <1>6 DEF AbsDifference
  <2>2. D \in Unsigned
    BY <1>1, <1>5, <2>1, RoundedDifference
  <2> QED
    BY <2>1, <2>2, UnsignedExact, MagnitudeMonotonic
<1>8. Exact(abs_error) \in Int /\ Exact(abs_error) >= 0
  BY <1>1, <1>4, <1>7, NumberExact
<1>9. ~isinf(abs_error)
  BY <1>4, <1>5, <1>8 DEF IsNear
<1>10. /\ Abs(abs_error) \in Unsigned /\ Exact(abs_error) = Magnitude[Abs(abs_error)]
       /\ abs_error >= kSignBitMask => abs_error = kSignBitMask
  BY <1>1, <1>4, <1>8, LimitExact
<1>11. Abs(abs_error) \in Nat /\ Abs(abs_error) + 1 \in Unsigned
  BY <1>9, <1>10, Layout DEF isinf, Unsigned, Infinity
<1>12. abs_error \in Finite \/ abs_error = kSignBitMask
  <2>1. CASE abs_error < kSignBitMask
    <3>1. Abs(abs_error) = abs_error
      BY <1>1, <1>4, <2>1, NumberExact
    <3> QED
      BY <1>11, <3>1, Layout DEF Finite, Unsigned, Infinity
  <2>2. CASE abs_error >= kSignBitMask
    BY <1>10, <2>2
  <2> QED
    BY <1>1, <2>1, <2>2, Layout DEF Bits
<1>13. Gap(val1, val2) < Magnitude[Abs(abs_error) + 1]
  <2>1. Gap(val1, val2) \in Nat /\ Magnitude[Abs(abs_error) + 1] \in Nat
    BY <1>1, <1>5, <1>11, RoundedDifference, MagnitudeMonotonic
  <2>2. SUFFICES ASSUME Magnitude[Abs(abs_error) + 1] <= Gap(val1, val2) PROVE FALSE
    BY <2>1
  <2>3. Abs(abs_error) + 1 <= D
    BY <1>1, <1>5, <1>7, <1>11, <2>2, RoundedDifference
  <2>4. Abs(abs_error) < D /\ Abs(abs_error) \in Nat
    BY <1>7, <1>11, <2>3, Layout DEF Unsigned, Infinity
  <2>5. Magnitude[Abs(abs_error)] < Magnitude[D] /\ Magnitude[Abs(abs_error)] \in Nat
    BY <1>7, <1>10, <2>4, MagnitudeMonotonic
  <2> QED
    BY <1>4, <1>7, <1>10, <2>5
<1> QED
  BY <1>6, <1>12, <1>13

-----------------------------------------------------------------------------
(* GTestFloat: the theorems                                                *)

\* One evaluation gives a verdict, and the verdict is right.
LEMMA FloatsStep == FloatTypeOK /\ FloatsCompared /\ [FloatNext]_floatVars
                      => FloatTypeOK' /\ FloatsCompared'
<1> SUFFICES ASSUME FloatTypeOK, FloatsCompared, [FloatNext]_floatVars
             PROVE  FloatTypeOK' /\ FloatsCompared'
  OBVIOUS
<1>1. CASE UNCHANGED floatVars
  BY <1>1 DEF floatVars, FloatTypeOK, FloatsCompared, AlmostRight, NearRight, IsNear
<1>2. CASE CmpHelperFloatingPointEQ
  <2>1. /\ assertion = "EQ" /\ assertion' = "EQ" /\ val1' = val1 /\ val2' = val2
        /\ abs_error' = abs_error /\ result' = Holds(AlmostEquals(val1, val2))
    BY <1>2 DEF CmpHelperFloatingPointEQ, Evaluate
  <2>2. result' \in {"success", "failure"} /\ (result' = "success" <=> AlmostEquals(val1, val2))
    BY <2>1 DEF Holds
  <2>3. AlmostEquals(val1, val2) <=>
          Ordered(val1, val2) /\ Position(val1) - Position(val2) \in -kMaxUlps .. kMaxUlps
    BY AlmostByPosition DEF FloatTypeOK
  <2>4. AlmostRight'
    BY <2>1, <2>2, <2>3 DEF AlmostRight
  <2> QED
    BY <2>1, <2>2, <2>4 DEF FloatTypeOK, FloatsCompared, NearRight
<1>3. CASE FloatingPointLE
  <2>1. /\ assertion = "LE" /\ assertion' = "LE" /\ val1' = val1 /\ val2' = val2
        /\ abs_error' = abs_error
        /\ result' = Holds(Less(val1, val2) \/ AlmostEquals(val1, val2))
    BY <1>3 DEF FloatingPointLE, Evaluate
  <2>2. /\ result' \in {"success", "failure"}
        /\ result' = "success" <=> Less(val1, val2) \/ AlmostEquals(val1, val2)
    BY <2>1 DEF Holds
  <2>3. Less(val1, val2) \/ AlmostEquals(val1, val2) <=>
          Ordered(val1, val2) /\ Position(val1) <= Position(val2) + kMaxUlps
    <3>1. /\ Position(val1) \in Int /\ Position(val2) \in Int
          /\ AlmostEquals(val1, val2) <=>
               Ordered(val1, val2) /\ Position(val1) - Position(val2) \in -kMaxUlps .. kMaxUlps
      BY AlmostByPosition DEF FloatTypeOK
    <3>2. Less(val1, val2) <=> Ordered(val1, val2) /\ Position(val1) < Position(val2)
      BY ExactByPosition DEF Less, FloatTypeOK
    <3> QED
      BY <3>1, <3>2 DEF kMaxUlps
  <2>4. AlmostRight'
    BY <2>1, <2>2, <2>3 DEF AlmostRight
  <2> QED
    BY <2>1, <2>2, <2>4 DEF FloatTypeOK, FloatsCompared, NearRight
<1>4. CASE DoubleNearPredFormat
  <2>1. /\ assertion = "NEAR" /\ assertion' = "NEAR" /\ val1' = val1 /\ val2' = val2
        /\ abs_error' = abs_error
        /\ result' = IF Near THEN "success" ELSE IF Pointless THEN "pointless" ELSE "failure"
    BY <1>4 DEF DoubleNearPredFormat, Evaluate, Near
  <2>2. /\ result' \in {"success", "pointless", "failure"}
        /\ result' = "success" <=> Near
    BY <2>1
  <2>3. IsNear' <=> IsNear
    BY <2>1 DEF IsNear
  <2>4. NearRight'
    BY <2>1, <2>2, <2>3, NearSucceeds, NearFails DEF NearRight
  <2> QED
    BY <2>1, <2>2, <2>4 DEF FloatTypeOK, FloatsCompared, AlmostRight
<1>5. CASE Evaluated
  BY <1>1, <1>5 DEF Evaluated
<1> QED
  BY <1>1, <1>2, <1>3, <1>4, <1>5 DEF FloatNext

\* The assertions on floating-point numbers give the verdicts of the numbers,
\* for every width of fraction and exponent and every rounding that keeps order.
THEOREM FloatsRight == FloatSpec => [](FloatTypeOK /\ FloatsCompared)
<1>1. FloatInit => FloatTypeOK /\ FloatsCompared
  <2> SUFFICES ASSUME FloatInit PROVE FloatTypeOK /\ FloatsCompared
    OBVIOUS
  <2>1. abs_error \in Bits
    BY Layout DEF FloatInit, Bits
  <2> QED
    BY <2>1 DEF FloatInit, FloatTypeOK, FloatsCompared, AlmostRight, NearRight
<1> QED
  BY <1>1, FloatsStep, PTL DEF FloatSpec

-----------------------------------------------------------------------------
(* GTestPayload: the count of a payload                                    *)

\* A matcher stands for 1 in the count of its payload, except between a step
\* that took the 1 away or will add it and the step that overwrites the matcher.
Counted(m) ==
  /\ IsShared(m)
  /\ \A t \in Caller : now[t] \in {"Delete", "Take", "Ref"} => to[t] # m

Holders(p)    == {m \in Matcher : Counted(m) /\ shared[m] = p}
Deletes(t, p) == now[t] = "Delete" /\ shared[to[t]] = p

Exclusive ==
  \A t, u \in Caller : t # u => Writes(t) \cap Uses(u) \subseteq {None}

Stages ==
  \A t \in Caller :
    /\ now[t] \in {"idle", "aborted"} => to[t] = None /\ from[t] = None
    /\ now[t] \in {"Destroy", "Delete", "Take", "Ref"} =>
         /\ to[t] \in Matcher /\ member[t] \in {"copy", "move", "destruct"}
         /\ member[t] # "destruct" => from[t] \in Matcher \ {to[t]}
    /\ now[t] = "Get" => to[t] = None /\ from[t] \in Matcher
    /\ now[t] = "Delete" => IsShared(to[t])
    /\ now[t] = "Ref" => /\ member[t] = "copy" /\ IsShared(to[t]) /\ IsShared(from[t])
                         /\ shared[to[t]] = shared[from[t]]

Owned ==
  \A p \in Payload :
    /\ ref[p] = Cardinality(Holders(p))
    /\ p \in heap <=> Holders(p) # {} \/ \E t \in Caller : Deletes(t, p)
    /\ \A t \in Caller : Deletes(t, p) => Holders(p) = {}
    /\ \A t, u \in Caller : Deletes(t, p) /\ Deletes(u, p) => t = u

PayloadInv == PayloadTypeOK /\ Exclusive /\ Stages /\ Owned

LEMMA HoldersFinite ==
  ASSUME NEW p
  PROVE  IsFiniteSet(Holders(p)) /\ Cardinality(Holders(p)) \in Nat
         /\ (Cardinality(Holders(p)) = 0 <=> Holders(p) = {})
<1>1. Holders(p) \in SUBSET Matcher /\ IsFiniteSet(Matcher)
  BY PayloadAssumption DEF Holders
<1>2. IsFiniteSet(Holders(p))
  BY <1>1, FS_Subset
<1> QED
  BY <1>2, FS_CardinalityType, FS_EmptySet

\* A matcher that no other thread writes, and that its thread is not done with,
\* is counted.
LEMMA InUseCounted ==
  ASSUME PayloadInv, NEW t \in Caller, NEW m \in Matcher, IsShared(m), m \in Uses(t),
         now[t] \in {"Delete", "Take", "Ref"} => m # to[t]
  PROVE  m \in Holders(shared[m]) /\ shared[m] \in heap /\ shared[m] \in Payload
<1>1. ASSUME NEW u \in Caller, now[u] \in {"Delete", "Take", "Ref"}, to[u] = m PROVE FALSE
  BY <1>1, PayloadAssumption DEF PayloadInv, Exclusive, Writes, Uses
<1>2. m \in Holders(shared[m])
  BY <1>1 DEF Holders, Counted
<1> QED
  BY <1>2 DEF PayloadInv, PayloadTypeOK, Owned

LEMMA PayloadShares == PayloadInv => PayloadShared
<1> SUFFICES ASSUME PayloadInv PROVE PayloadShared
  OBVIOUS
<1>1. ASSUME NEW t \in Caller PROVE Touches(t) \subseteq heap
  <2>1. ASSUME now[t] \in {"Destroy", "Ref"}, IsShared(to[t]) PROVE shared[to[t]] \in heap
    <3>1. to[t] \in Matcher
      BY <2>1 DEF PayloadInv, Stages
    <3>2. CASE now[t] = "Destroy"
      BY <2>1, <3>1, <3>2, InUseCounted DEF Uses
    <3>3. CASE now[t] = "Ref"
      <4>1. /\ from[t] \in Matcher /\ from[t] # to[t] /\ IsShared(from[t])
            /\ shared[to[t]] = shared[from[t]]
        BY <3>3 DEF PayloadInv, Stages
      <4> QED
        BY <4>1, InUseCounted DEF Uses
    <3> QED
      BY <2>1, <3>2, <3>3
  <2>2. ASSUME now[t] = "Delete" PROVE shared[to[t]] \in heap
    <3>1. to[t] \in Matcher /\ Deletes(t, shared[to[t]])
      BY <2>2 DEF PayloadInv, Stages, Deletes
    <3> QED
      BY <3>1 DEF PayloadInv, PayloadTypeOK, Owned
  <2>3. ASSUME now[t] = "Get", IsShared(from[t]) PROVE shared[from[t]] \in heap
    BY <2>3, InUseCounted DEF PayloadInv, Stages, Uses
  <2> QED
    BY <2>1, <2>2, <2>3 DEF Touches
<1>2. ASSUME NEW m \in Matcher, IsShared(m), Readable(m) PROVE shared[m] \in heap
  <2>1. m \in Holders(shared[m]) /\ shared[m] \in Payload
    BY <1>2 DEF Holders, Counted, Readable, Writes, Uses, PayloadInv, PayloadTypeOK
  <2> QED
    BY <2>1 DEF PayloadInv, Owned
<1>3. ASSUME NEW p \in heap PROVE \E m \in Matcher : IsShared(m) /\ shared[m] = p
  <2>1. p \in Payload
    BY <1>3 DEF PayloadInv, PayloadTypeOK
  <2>2. CASE Holders(p) # {}
    BY <2>2 DEF Holders, Counted
  <2>3. ASSUME NEW t \in Caller, Deletes(t, p) PROVE \E m \in Matcher : IsShared(m) /\ shared[m] = p
    BY <2>3 DEF Deletes, PayloadInv, Stages
  <2> QED
    BY <2>1, <2>2, <2>3 DEF PayloadInv, Owned
<1> QED
  BY <1>1, <1>2, <1>3 DEF PayloadShared

\* A step that counts and deletes nothing keeps what is owned.
LEMMA OwnedFrame ==
  ASSUME PayloadInv, UNCHANGED <<ref, heap>>,
         \A p \in Payload : Holders(p)' = Holders(p),
         \A t \in Caller, p \in Payload : Deletes(t, p)' <=> Deletes(t, p)
  PROVE  Owned'
BY DEF PayloadInv, Owned

\* A call by an idle thread for matchers that are its own.
LEMMA CallKeeps ==
  ASSUME PayloadInv, NEW t \in Caller, NEW name, NEW place,
         NEW this \in Matcher \cup {None}, NEW other \in Matcher \cup {None},
         Idle(t), Call(t, place, name, this, other), UNCHANGED <<vtable, shared, ref, heap>>,
         this # None => Mine(this),
         other # None => IF name = "move" THEN Mine(other) ELSE Readable(other),
         \/ /\ place \in {"Take", "Destroy"} /\ this # None /\ name \in {"copy", "move"}
            /\ other \in Matcher \ {this}
         \/ place = "Destroy" /\ this # None /\ name = "destruct" /\ other = None
         \/ place = "Get" /\ name = "match" /\ this = None /\ other # None,
         place = "Take" => vtable[this] = "none"
  PROVE  PayloadInv'
<1> USE DEF PayloadInv
<1>1. PayloadTypeOK'
  BY DEF PayloadTypeOK, Call
<1>2. Exclusive'
  <2> SUFFICES ASSUME NEW u \in Caller, NEW v \in Caller, u # v, NEW m \in Writes(u)' \cap Uses(v)'
               PROVE  m = None
    BY DEF Exclusive
  <2>1. CASE u # t /\ v # t
    BY <2>1 DEF Exclusive, Writes, Uses, Call, PayloadTypeOK
  <2>2. CASE u = t
    BY <2>2 DEF Writes, Uses, Call, PayloadTypeOK, Mine, Readable
  <2>3. CASE v = t
    <3>1. m \in Writes(u)
      BY <2>3 DEF Writes, Uses, Call, PayloadTypeOK
    <3>2. m \in {this, other}
      BY <2>3 DEF Uses, Call, PayloadTypeOK
    <3> QED
      BY <3>1, <3>2 DEF Writes, Uses, Mine, Readable
  <2> QED
    BY <2>1, <2>2, <2>3
<1>3. Stages'
  BY DEF Stages, Call, PayloadTypeOK, IsShared, Idle
<1>4. Owned'
  <2>1. ASSUME NEW m \in Matcher PROVE Counted(m)' <=> Counted(m)
    BY <2>1, PayloadAssumption DEF Counted, IsShared, Call, Idle, PayloadTypeOK
  <2>2. \A p \in Payload : Holders(p)' = Holders(p)
    BY <2>1 DEF Holders
  <2>3. \A u \in Caller, p \in Payload : Deletes(u, p)' <=> Deletes(u, p)
    BY DEF Deletes, Call, Idle, PayloadTypeOK
  <2> QED
    BY <2>2, <2>3, OwnedFrame
<1> QED
  BY <1>1, <1>2, <1>3, <1>4

\* What a thread in a call goes on to, or the end of the call, excludes no less.
LEMMA ProceedExclusive ==
  ASSUME PayloadTypeOK, Exclusive, NEW t \in Caller,
         (\E place : Goto(t, place)) \/ Return(t)
  PROVE  Exclusive'
<1>1. CASE \E place : Goto(t, place)
  BY <1>1 DEF Exclusive, Goto, Writes, Uses
<1>2. CASE Return(t)
  <2>1. ASSUME NEW u \in Caller
        PROVE  /\ Uses(u)' \subseteq Uses(u) \cup {None}
               /\ Writes(u)' \subseteq Writes(u) \cup {None}
    BY <1>2 DEF Return, Call, Writes, Uses, PayloadTypeOK
  <2> QED
    BY <2>1 DEF Exclusive
<1> QED
  BY <1>1, <1>2

LEMMA ConstructInsideKeeps ==
  ASSUME PayloadInv, NEW t \in Caller, NEW m \in Matcher, ConstructInside(t, m)
  PROVE  PayloadInv'
<1> USE DEF PayloadInv
<1>1. PICK kind \in {"null", "inlined"} : vtable' = [vtable EXCEPT ![m] = kind]
  BY DEF ConstructInside
<1>2. /\ UNCHANGED <<shared, ref, heap, now, member, to, from>>
      /\ Mine(m) /\ vtable[m] = "none"
  BY DEF ConstructInside
<1>3. PayloadTypeOK' /\ Exclusive'
  BY <1>1, <1>2 DEF PayloadTypeOK, Exclusive, Writes, Uses
<1>4. \A n \in Matcher : IsShared(n)' <=> IsShared(n)
  BY <1>1, <1>2 DEF IsShared, PayloadTypeOK
<1>5. Stages'
  BY <1>2, <1>4 DEF Stages
<1>6. Owned'
  <2>1. \A p \in Payload : Holders(p)' = Holders(p)
    BY <1>2, <1>4 DEF Holders, Counted
  <2>2. \A u \in Caller, p \in Payload : Deletes(u, p)' <=> Deletes(u, p)
    BY <1>2 DEF Deletes
  <2> QED
    BY <1>2, <2>1, <2>2, OwnedFrame
<1> QED
  BY <1>3, <1>5, <1>6

\* A new payload is the new matcher's alone.
LEMMA ConstructSharedKeeps ==
  ASSUME PayloadInv, NEW t \in Caller, NEW m \in Matcher, ConstructShared(t, m)
  PROVE  PayloadInv'
<1> USE DEF PayloadInv
<1>1. PICK p \in Payload \ heap :
        /\ heap' = heap \cup {p} /\ ref' = [ref EXCEPT ![p] = 1]
        /\ shared' = [shared EXCEPT ![m] = p]
  BY DEF ConstructShared
<1>2. /\ vtable' = [vtable EXCEPT ![m] = "shared"] /\ vtable[m] = "none"
      /\ UNCHANGED <<now, member, to, from>> /\ \A u \in Caller : to[u] # m /\ from[u] # m
  BY DEF ConstructShared, Mine, Uses
<1>3. PayloadTypeOK' /\ Exclusive'
  BY <1>1, <1>2 DEF PayloadTypeOK, Exclusive, Writes, Uses
<1>4. \A n \in Matcher \ {m} : (IsShared(n)' <=> IsShared(n)) /\ shared'[n] = shared[n]
  BY <1>1, <1>2 DEF IsShared, PayloadTypeOK
<1>5. IsShared(m)' /\ shared'[m] = p /\ ~IsShared(m)
  BY <1>1, <1>2 DEF IsShared, PayloadTypeOK
<1>6. Stages'
  BY <1>2, <1>4 DEF Stages
<1>7. Owned'
  <2>1. Holders(p) = {} /\ \A u \in Caller : ~Deletes(u, p)
    BY <1>1 DEF Owned
  <2>2. \A q \in Payload \ {p} : Holders(q)' = Holders(q)
    BY <1>1, <1>2, <1>4, <1>5 DEF Holders, Counted
  <2>3. Holders(p)' = {m}
    BY <1>1, <1>2, <1>4, <1>5, <2>1 DEF Holders, Counted
  <2>4. \A u \in Caller, q \in Payload : Deletes(u, q)' <=> Deletes(u, q)
    BY <1>1, <1>2, <1>4 DEF Deletes, Stages
  <2>5. Cardinality({m}) = 1
    BY FS_Singleton
  <2>6. ref'[p] = 1 /\ \A q \in Payload \ {p} : ref'[q] = ref[q] /\ (q \in heap' <=> q \in heap)
    BY <1>1 DEF PayloadTypeOK
  <2>7. p \in heap'
    BY <1>1
  <2> QED
    BY <2>1, <2>2, <2>3, <2>4, <2>5, <2>6, <2>7 DEF Owned
<1> QED
  BY <1>3, <1>6, <1>7

\* The calls that first only note their matchers.
LEMMA CallsKeep ==
  ASSUME PayloadInv, NEW t \in Caller, NEW m \in Matcher,
         Destruct(t, m) \/ Use(t, m)
           \/ \E other \in Matcher : ConstructFrom(t, m, other) \/ AssignFrom(t, m, other)
  PROVE  PayloadInv'
<1>1. CASE Destruct(t, m)
  BY <1>1, PayloadAssumption, CallKeeps DEF Destruct
<1>2. CASE Use(t, m) /\ vtable[m] = "null"
  <2> USE DEF PayloadInv
  <2>1. Goto(t, "aborted") /\ UNCHANGED <<vtable, shared, ref, heap>> /\ Idle(t)
    BY <1>2 DEF Use
  <2>2. PayloadTypeOK' /\ Exclusive'
    BY <2>1, ProceedExclusive DEF Goto, PayloadTypeOK
  <2>3. Stages'
    BY <2>1 DEF Stages, Goto, Idle, IsShared, PayloadTypeOK
  <2>4. Owned'
    <3>1. \A p \in Payload : Holders(p)' = Holders(p)
      BY <2>1 DEF Holders, Counted, IsShared, Goto, Idle, PayloadTypeOK
    <3>2. \A u \in Caller, p \in Payload : Deletes(u, p)' <=> Deletes(u, p)
      BY <2>1 DEF Deletes, Goto, Idle, PayloadTypeOK
    <3> QED
      BY <2>1, <3>1, <3>2, OwnedFrame
  <2> QED
    BY <2>2, <2>3, <2>4
<1>3. CASE Use(t, m) /\ vtable[m] # "null"
  BY <1>3, PayloadAssumption, CallKeeps DEF Use
<1>4. ASSUME NEW other \in Matcher, ConstructFrom(t, m, other) PROVE PayloadInv'
  BY <1>4, PayloadAssumption, CallKeeps DEF ConstructFrom
<1>5. ASSUME NEW other \in Matcher, AssignFrom(t, m, other) PROVE PayloadInv'
  BY <1>5, PayloadAssumption, CallKeeps DEF AssignFrom
<1> QED
  BY <1>1, <1>2, <1>3, <1>4, <1>5

\* The matcher gives up its 1; the thread whose 1 was the last deletes.
LEMMA UnrefKeeps ==
  ASSUME PayloadInv, NEW t \in Caller, Unref(t)
  PROVE  PayloadInv'
<1> USE DEF PayloadInv
<1>0. PICK m \in Matcher, p \in Payload : m = to[t] /\ p = shared[m]
  BY DEF Unref, Stages, PayloadTypeOK
<1>1. /\ now[t] = "Destroy" /\ UNCHANGED <<vtable, shared, heap, member, to, from>>
      /\ \E place : Goto(t, place)
  BY DEF Unref, Stages, Goto
<1>2. Exclusive'
  BY <1>1, ProceedExclusive
<1>3. CASE ~IsShared(m)
  <2>1. Goto(t, "Take") /\ UNCHANGED ref
    BY <1>0, <1>3 DEF Unref
  <2>2. PayloadTypeOK' /\ Stages'
    BY <1>0, <1>1, <2>1 DEF PayloadTypeOK, Stages, Goto, IsShared
  <2>3. Owned'
    <3>1. \A q \in Payload : Holders(q)' = Holders(q)
      BY <1>0, <1>1, <1>3, <2>1 DEF Holders, Counted, IsShared, Goto, PayloadTypeOK
    <3>2. \A u \in Caller, q \in Payload : Deletes(u, q)' <=> Deletes(u, q)
      BY <1>1, <2>1 DEF Deletes, Goto, PayloadTypeOK
    <3> QED
      BY <1>1, <2>1, <3>1, <3>2, OwnedFrame
  <2> QED
    BY <1>2, <2>2, <2>3
<1>4. CASE IsShared(m)
  <2> DEFINE place == IF ref[p] = 1 THEN "Delete" ELSE "Take"
  <2>1. /\ ref' = [ref EXCEPT ![p] = @ - 1] /\ now' = [now EXCEPT ![t] = place]
    BY <1>0, <1>4 DEF Unref, Goto
  <2>2. m \in Holders(p) /\ p \in heap /\ p \in Payload
    BY <1>0, <1>1, <1>4, InUseCounted DEF Uses
  <2>3. ref[p] = Cardinality(Holders(p)) /\ ref[p] \in Nat \ {0}
    BY <2>2, HoldersFinite DEF Owned
  <2>4. PayloadTypeOK'
    BY <1>0, <1>1, <2>1, <2>2, <2>3 DEF PayloadTypeOK
  <2>5. now'[t] = place /\ \A u \in Caller \ {t} : now'[u] = now[u]
    BY <2>1 DEF PayloadTypeOK
  <2>6. \A n \in Matcher : IsShared(n)' <=> IsShared(n)
    BY <1>1 DEF IsShared
  <2>7. Stages'
    BY <1>0, <1>1, <1>4, <2>5, <2>6 DEF Stages
  <2>8. Holders(p)' = Holders(p) \ {m}
    BY <1>0, <1>1, <2>2, <2>5, <2>6 DEF Holders, Counted
  <2>9. \A q \in Payload \ {p} : Holders(q)' = Holders(q)
    BY <1>0, <1>1, <2>2, <2>5, <2>6 DEF Holders, Counted
  <2>10. \A u \in Caller, q \in Payload :
           Deletes(u, q)' <=> Deletes(u, q) \/ (u = t /\ q = p /\ ref[p] = 1)
    BY <1>0, <1>1, <2>5 DEF Deletes
  <2>11. \A u \in Caller : ~Deletes(u, p)
    BY <2>2 DEF Owned
  <2>12. /\ IsFiniteSet(Holders(p)) /\ Cardinality(Holders(p) \ {m}) = Cardinality(Holders(p)) - 1
         /\ Cardinality(Holders(p) \ {m}) = 0 <=> Holders(p) \ {m} = {}
    BY <2>2, HoldersFinite, FS_RemoveElement, FS_EmptySet
  <2>13. ref'[p] = ref[p] - 1 /\ \A q \in Payload \ {p} : ref'[q] = ref[q]
    BY <2>1, <2>2 DEF PayloadTypeOK
  <2>14. ref[p] = 1 <=> Holders(p)' = {}
    BY <2>3, <2>8, <2>12
  <2>15. Owned'
    <3> SUFFICES ASSUME NEW q \in Payload
                 PROVE  /\ ref'[q] = Cardinality(Holders(q)')
                        /\ q \in heap' <=> Holders(q)' # {} \/ \E u \in Caller : Deletes(u, q)'
                        /\ \A u \in Caller : Deletes(u, q)' => Holders(q)' = {}
                        /\ \A u, v \in Caller : Deletes(u, q)' /\ Deletes(v, q)' => u = v
      BY DEF Owned
    <3>1. CASE q # p
      BY <1>1, <2>9, <2>10, <2>13, <3>1 DEF Owned
    <3>2. CASE q = p
      <4>1. ref'[p] = Cardinality(Holders(p)')
        BY <2>3, <2>8, <2>12, <2>13
      <4>2. \A u \in Caller : Deletes(u, p)' <=> u = t /\ Holders(p)' = {}
        BY <2>2, <2>10, <2>11, <2>14
      <4>3. p \in heap'
        BY <1>1, <2>2
      <4> QED
        BY <3>2, <4>1, <4>2, <4>3
    <3> QED
      BY <3>1, <3>2
  <2> QED
    BY <1>2, <2>4, <2>7, <2>15
<1> QED
  BY <1>3, <1>4

LEMMA SharedDestroyKeeps ==
  ASSUME PayloadInv, NEW t \in Caller, SharedDestroy(t)
  PROVE  PayloadInv'
<1> USE DEF PayloadInv
<1>1. PICK p \in Payload : p = shared[to[t]] /\ heap' = heap \ {p} /\ Deletes(t, p)
  BY DEF SharedDestroy, Stages, PayloadTypeOK, Deletes
<1>2. /\ now[t] = "Delete" /\ Goto(t, "Take") /\ UNCHANGED <<vtable, shared, ref>>
  BY DEF SharedDestroy
<1>3. PayloadTypeOK' /\ Exclusive'
  BY <1>1, <1>2, ProceedExclusive DEF PayloadTypeOK, Goto
<1>4. UNCHANGED <<to, from, member>> /\ now'[t] = "Take" /\ \A u \in Caller \ {t} : now'[u] = now[u]
  BY <1>2 DEF Goto, PayloadTypeOK
<1>5. \A n \in Matcher : IsShared(n)' <=> IsShared(n)
  BY <1>2 DEF IsShared
<1>6. Stages'
  BY <1>2, <1>4, <1>5 DEF Stages
<1>7. \A q \in Payload : Holders(q)' = Holders(q)
  BY <1>2, <1>4, <1>5 DEF Holders, Counted
<1>8. \A u \in Caller, q \in Payload : Deletes(u, q)' <=> Deletes(u, q) /\ u # t
  BY <1>2, <1>4 DEF Deletes
<1>9. Holders(p) = {} /\ \A u \in Caller : Deletes(u, p) => u = t
  BY <1>1 DEF Owned
<1>10. \A u \in Caller, q \in Payload : Deletes(u, q) /\ q # p => u # t
  BY <1>1 DEF Deletes
<1>11. Owned'
  BY <1>1, <1>2, <1>7, <1>8, <1>9, <1>10 DEF Owned
<1> QED
  BY <1>3, <1>6, <1>11

\* The matcher is overwritten: a moved one hands over its 1, a copied one keeps it.
LEMMA TakeKeeps ==
  ASSUME PayloadInv, NEW t \in Caller, Take(t)
  PROVE  PayloadInv'
<1> USE DEF PayloadInv
<1>1. PICK m \in Matcher : m = to[t] /\ now[t] = "Take" /\ UNCHANGED <<ref, heap>>
  BY DEF Take, Stages
<1>2. Exclusive'
  <2>1. (\E place : Goto(t, place)) \/ Return(t)
    BY DEF Take
  <2> QED
    BY <2>1, ProceedExclusive
<1>3. \A u \in Caller \ {t} : m \notin Uses(u)
  BY <1>1, PayloadAssumption DEF Exclusive, Uses, Writes
<1>4. \A u \in Caller, q \in Payload : Deletes(u, q) => u # t
  BY <1>1 DEF Deletes
<1>5. CASE member[t] = "destruct"
  <2>1. /\ vtable' = [vtable EXCEPT ![m] = "none"] /\ UNCHANGED shared /\ Return(t)
    BY <1>1, <1>5 DEF Take
  <2>2. PayloadTypeOK'
    BY <1>1, <2>1 DEF PayloadTypeOK, Return, Call
  <2>3. /\ now'[t] = "idle" /\ to'[t] = None /\ from'[t] = None
        /\ \A u \in Caller \ {t} : /\ now'[u] = now[u] /\ to'[u] = to[u] /\ from'[u] = from[u]
                                   /\ member'[u] = member[u]
    BY <2>1 DEF Return, Call, PayloadTypeOK
  <2>4. ~IsShared(m)' /\ \A n \in Matcher \ {m} : IsShared(n)' <=> IsShared(n)
    BY <2>1 DEF IsShared, PayloadTypeOK
  <2>5. Stages'
    BY <1>3, <2>1, <2>3, <2>4 DEF Stages, Uses
  <2>6. \A q \in Payload : Holders(q)' = Holders(q)
    BY <1>1, <2>1, <2>3, <2>4, PayloadAssumption DEF Holders, Counted
  <2>7. \A u \in Caller, q \in Payload : Deletes(u, q)' <=> Deletes(u, q)
    BY <1>1, <2>1, <2>3 DEF Deletes
  <2> QED
    BY <1>1, <1>2, <2>2, <2>5, <2>6, <2>7, OwnedFrame
<1>6. CASE member[t] # "destruct"
  <2>1. PICK f \in Matcher \ {m} : f = from[t] /\ member[t] \in {"copy", "move"}
    BY <1>1, <1>6 DEF Stages
  <2>2. shared' = [shared EXCEPT ![m] = shared[f]]
    BY <1>1, <1>6, <2>1 DEF Take
  <2>3. \A u \in Caller \ {t} : f \notin Writes(u)
    BY <2>1, PayloadAssumption DEF Exclusive, Uses
  <2>4. /\ now' \in [Caller -> {"idle", "Ref"} \cup {now[u] : u \in Caller}]
        /\ now'[t] = IF member[t] = "copy" /\ IsShared(f) THEN "Ref" ELSE "idle"
        /\ now'[t] = "idle" => to'[t] = None /\ from'[t] = None
        /\ now'[t] = "Ref" => to'[t] = m /\ from'[t] = f /\ member'[t] = "copy"
        /\ \A u \in Caller \ {t} : /\ now'[u] = now[u] /\ to'[u] = to[u] /\ from'[u] = from[u]
                                   /\ member'[u] = member[u]
    BY <1>1, <2>1 DEF Take, Return, Call, Goto, PayloadTypeOK
  <2>5. CASE member[t] = "copy"
    <3>1. vtable' = [vtable EXCEPT ![m] = vtable[f]]
      BY <1>1, <2>1, <2>5 DEF Take
    <3>2. PayloadTypeOK'
      BY <1>1, <2>1, <2>2, <3>1 DEF PayloadTypeOK, Take, Return, Call, Goto
    <3>3. /\ IsShared(m)' <=> IsShared(f)
          /\ \A n \in Matcher \ {m} : (IsShared(n)' <=> IsShared(n)) /\ shared'[n] = shared[n]
          /\ shared'[m] = shared[f]
      BY <2>1, <2>2, <3>1 DEF IsShared, PayloadTypeOK
    <3>4. Stages'
      BY <1>3, <2>1, <2>4, <2>5, <3>3 DEF Stages, Uses
    <3>5. \A n \in Matcher : Counted(n)' <=> Counted(n)
      <4>1. ~Counted(m)
        BY <1>1 DEF Counted
      <4>2. ~Counted(m)'
        BY <2>4, <2>5, <3>3 DEF Counted
      <4>3. \A n \in Matcher \ {m} : Counted(n)' <=> Counted(n)
        BY <1>1, <2>4, <3>3, PayloadAssumption DEF Counted
      <4> QED
        BY <4>1, <4>2, <4>3
    <3>6. \A q \in Payload : Holders(q)' = Holders(q)
      <4>1. ~Counted(m)
        BY <1>1 DEF Counted
      <4> QED
        BY <3>3, <3>5, <4>1 DEF Holders
    <3>7. \A u \in Caller, q \in Payload : Deletes(u, q)' <=> Deletes(u, q)
      BY <1>1, <1>3, <2>4, <3>3 DEF Deletes, Stages, Uses
    <3> QED
      BY <1>1, <1>2, <3>2, <3>4, <3>6, <3>7, OwnedFrame
  <2>6. CASE member[t] = "move"
    <3>1. vtable' = [vtable EXCEPT ![m] = vtable[f], ![f] = "null"] /\ Return(t)
      BY <1>1, <2>1, <2>6 DEF Take
    <3>2. PayloadTypeOK'
      BY <1>1, <2>1, <2>2, <3>1 DEF PayloadTypeOK, Return, Call
    <3>3. /\ IsShared(m)' <=> IsShared(f)
          /\ ~IsShared(f)'
          /\ \A n \in Matcher \ {m} : shared'[n] = shared[n]
          /\ \A n \in Matcher \ {m, f} : IsShared(n)' <=> IsShared(n)
          /\ shared'[m] = shared[f]
      BY <2>1, <2>2, <3>1 DEF IsShared, PayloadTypeOK
    <3>4. \A u \in Caller \ {t} : m \notin Uses(u) /\ f \notin Uses(u)
      BY <1>1, <1>3, <2>1, <2>6, PayloadAssumption DEF Exclusive, Uses, Writes
    <3>5. Stages'
      BY <2>1, <2>4, <2>6, <3>3, <3>4 DEF Stages, Uses
    <3>6. /\ ~Counted(m) /\ ~Counted(f)'
          /\ Counted(m)' <=> IsShared(f)
          /\ Counted(f) <=> IsShared(f)
          /\ \A n \in Matcher \ {m, f} : Counted(n)' <=> Counted(n)
      <4>1. ~Counted(m)
        BY <1>1 DEF Counted
      <4>2. ~Counted(f)'
        BY <3>3 DEF Counted
      <4>3. Counted(m)' <=> IsShared(f)
        BY <2>4, <2>6, <3>3, <3>4 DEF Counted, Uses
      <4>4. Counted(f) <=> IsShared(f)
        BY <1>1, <2>1, <3>4 DEF Counted, Uses
      <4>5. \A n \in Matcher \ {m, f} : Counted(n)' <=> Counted(n)
        BY <1>1, <2>4, <2>6, <3>3 DEF Counted
      <4> QED
        BY <4>1, <4>2, <4>3, <4>4, <4>5
    <3>7. \A u \in Caller, q \in Payload : Deletes(u, q)' <=> Deletes(u, q)
      BY <1>1, <2>4, <2>6, <3>3, <3>4 DEF Deletes, Stages, Uses
    <3>8. CASE ~IsShared(f)
      <4>1. \A q \in Payload : Holders(q)' = Holders(q)
        BY <3>3, <3>6, <3>8 DEF Holders
      <4> QED
        BY <1>1, <1>2, <3>2, <3>5, <3>7, <4>1, OwnedFrame
    <3>9. CASE IsShared(f)
      <4>1. PICK p \in Payload : p = shared[f]
        BY <2>1 DEF PayloadTypeOK
      <4>2. Holders(p)' = (Holders(p) \ {f}) \cup {m} /\ f \in Holders(p) /\ m \notin Holders(p)
        BY <2>1, <3>3, <3>6, <3>9, <4>1 DEF Holders
      <4>3. \A q \in Payload \ {p} : Holders(q)' = Holders(q)
        BY <2>1, <3>3, <3>6, <3>9, <4>1 DEF Holders
      <4>4. Cardinality(Holders(p)') = Cardinality(Holders(p))
        <5>1. IsFiniteSet(Holders(p)) /\ Cardinality(Holders(p)) \in Nat
          BY HoldersFinite
        <5>2. /\ IsFiniteSet(Holders(p) \ {f})
              /\ Cardinality(Holders(p) \ {f}) = Cardinality(Holders(p)) - 1
          BY <4>2, <5>1, FS_RemoveElement
        <5>3. Cardinality((Holders(p) \ {f}) \cup {m}) = Cardinality(Holders(p) \ {f}) + 1
          BY <4>2, <5>2, FS_AddElement
        <5> QED
          BY <4>2, <5>1, <5>2, <5>3
      <4>5. Owned'
        <5>1. \A u \in Caller : ~Deletes(u, p)
          BY <4>2 DEF Owned
        <5>2. p \in heap /\ Holders(p)' # {}
          BY <4>2 DEF Owned
        <5> QED
          BY <1>1, <3>7, <4>3, <4>4, <5>1, <5>2 DEF Owned
      <4> QED
        BY <1>2, <3>2, <3>5, <4>5
    <3> QED
      BY <3>8, <3>9
  <2> QED
    BY <2>1, <2>5, <2>6
<1> QED
  BY <1>5, <1>6

\* A copy counts itself, while the matcher it copies is held.
LEMMA RefKeeps ==
  ASSUME PayloadInv, NEW t \in Caller, Ref(t)
  PROVE  PayloadInv'
<1> USE DEF PayloadInv
<1>1. PICK m \in Matcher, p \in Payload : m = to[t] /\ p = shared[m]
  BY DEF Ref, Stages, PayloadTypeOK
<1>2. /\ now[t] = "Ref" /\ ref' = [ref EXCEPT ![p] = @ + 1] /\ Return(t)
      /\ UNCHANGED <<vtable, shared, heap>>
  BY <1>1 DEF Ref
<1>3. PayloadTypeOK' /\ Exclusive'
  <2>1. Exclusive'
    BY <1>2, ProceedExclusive
  <2>2. ref' \in [Payload -> Nat]
    BY <1>2 DEF PayloadTypeOK
  <2> QED
    BY <1>2, <2>1, <2>2 DEF PayloadTypeOK, Return, Call
<1>4. /\ now'[t] = "idle" /\ to'[t] = None /\ from'[t] = None
      /\ \A u \in Caller \ {t} : /\ now'[u] = now[u] /\ to'[u] = to[u] /\ from'[u] = from[u]
                                 /\ member'[u] = member[u]
  BY <1>2 DEF Return, Call, PayloadTypeOK
<1>5. \A n \in Matcher : IsShared(n)' <=> IsShared(n)
  BY <1>2 DEF IsShared
<1>6. Stages'
  BY <1>2, <1>4, <1>5 DEF Stages
<1>7. /\ IsShared(m) /\ from[t] \in Matcher /\ from[t] # m
      /\ IsShared(from[t]) /\ shared[from[t]] = p
  BY <1>1, <1>2 DEF Stages
<1>8. from[t] \in Holders(p) /\ p \in heap
  BY <1>1, <1>7, InUseCounted DEF Uses
<1>9. \A u \in Caller \ {t} : to[u] # m
  BY <1>1, PayloadAssumption DEF Exclusive, Uses, Writes
<1>10. Holders(p)' = Holders(p) \cup {m} /\ m \notin Holders(p)
  <2>1. ~Counted(m)
    BY <1>1, <1>2 DEF Counted
  <2>2. Counted(m)'
    BY <1>4, <1>5, <1>7, <1>9 DEF Counted
  <2>3. \A n \in Matcher \ {m} : Counted(n)' <=> Counted(n)
    BY <1>1, <1>2, <1>4, <1>5 DEF Counted
  <2> QED
    BY <1>1, <1>2, <2>1, <2>2, <2>3 DEF Holders
<1>11. \A q \in Payload \ {p} : Holders(q)' = Holders(q)
  BY <1>1, <1>2, <1>4, <1>5 DEF Holders, Counted
<1>12. \A u \in Caller, q \in Payload : Deletes(u, q)' <=> Deletes(u, q)
  BY <1>2, <1>4 DEF Deletes
<1>13. /\ Cardinality(Holders(p)') = Cardinality(Holders(p)) + 1
       /\ ref'[p] = ref[p] + 1 /\ \A q \in Payload \ {p} : ref'[q] = ref[q]
  BY <1>2, <1>10, HoldersFinite, FS_AddElement DEF PayloadTypeOK
<1>14. Owned'
  <2>1. \A u \in Caller : ~Deletes(u, p)
    BY <1>8 DEF Owned
  <2>2. Holders(p)' # {}
    BY <1>10
  <2> QED
    BY <1>2, <1>8, <1>11, <1>12, <1>13, <2>1, <2>2 DEF Owned
<1> QED
  BY <1>3, <1>6, <1>14

LEMMA ReadPayloadKeeps ==
  ASSUME PayloadInv, NEW t \in Caller, ReadPayload(t)
  PROVE  PayloadInv'
<1> USE DEF PayloadInv
<1>1. now[t] = "Get" /\ Return(t) /\ UNCHANGED <<vtable, shared, ref, heap>>
  BY DEF ReadPayload
<1>2. PayloadTypeOK' /\ Exclusive'
  BY <1>1, ProceedExclusive DEF PayloadTypeOK, Return, Call
<1>3. /\ now'[t] = "idle" /\ to'[t] = None /\ from'[t] = None
      /\ \A u \in Caller \ {t} : /\ now'[u] = now[u] /\ to'[u] = to[u] /\ from'[u] = from[u]
                                 /\ member'[u] = member[u]
  BY <1>1 DEF Return, Call, PayloadTypeOK
<1>4. Stages'
  BY <1>1, <1>3 DEF Stages, IsShared
<1>5. \A q \in Payload : Holders(q)' = Holders(q)
  BY <1>1, <1>3 DEF Holders, Counted, IsShared
<1>6. \A u \in Caller, q \in Payload : Deletes(u, q)' <=> Deletes(u, q)
  BY <1>1, <1>3 DEF Deletes
<1> QED
  BY <1>1, <1>2, <1>4, <1>5, <1>6, OwnedFrame

LEMMA PayloadStep == PayloadInv /\ [PayloadNext]_payloadVars => PayloadInv'
<1> SUFFICES ASSUME PayloadInv, [PayloadNext]_payloadVars PROVE PayloadInv'
  OBVIOUS
<1>1. CASE UNCHANGED payloadVars
  <2> USE <1>1 DEF payloadVars, PayloadInv
  <2>1. PayloadTypeOK' /\ Exclusive'
    BY DEF PayloadTypeOK, Exclusive, Writes, Uses
  <2>2. \A m : IsShared(m)' <=> IsShared(m)
    BY DEF IsShared
  <2>3. Stages'
    BY <2>2 DEF Stages
  <2>4. /\ \A p \in Payload : Holders(p)' = Holders(p)
        /\ \A t \in Caller, p \in Payload : Deletes(t, p)' <=> Deletes(t, p)
    BY <2>2 DEF Holders, Counted, Deletes
  <2> QED
    BY <2>1, <2>3, <2>4, OwnedFrame
<1>2. ASSUME NEW t \in Caller, NEW m \in Matcher,
             \/ ConstructInside(t, m) \/ ConstructShared(t, m) \/ Destruct(t, m) \/ Use(t, m)
             \/ \E other \in Matcher : ConstructFrom(t, m, other) \/ AssignFrom(t, m, other)
      PROVE  PayloadInv'
  BY <1>2, ConstructInsideKeeps, ConstructSharedKeeps, CallsKeep
<1>3. ASSUME NEW t \in Caller,
             Unref(t) \/ SharedDestroy(t) \/ Take(t) \/ Ref(t) \/ ReadPayload(t)
      PROVE  PayloadInv'
  BY <1>3, UnrefKeeps, SharedDestroyKeeps, TakeKeeps, RefKeeps, ReadPayloadKeeps
<1>4. CASE Aborted
  BY <1>1, <1>4 DEF Aborted
<1> QED
  BY <1>1, <1>2, <1>3, <1>4 DEF PayloadNext

\* A payload lives exactly as long as a matcher has it, for any matchers and any
\* threads: its count is that of the matchers that stand for it.
THEOREM PayloadsShared == PayloadSpec => []PayloadShared
<1>1. PayloadInit => PayloadInv
  <2> SUFFICES ASSUME PayloadInit PROVE PayloadInv
    OBVIOUS
  <2>1. PayloadTypeOK /\ Exclusive /\ Stages
    BY DEF PayloadInit, PayloadTypeOK, Exclusive, Writes, Uses, Stages
  <2>2. \A p : Holders(p) = {}
    BY DEF PayloadInit, Holders, Counted, IsShared
  <2>3. \A t \in Caller, p \in Payload : ~Deletes(t, p)
    BY DEF PayloadInit, Deletes
  <2>4. Cardinality({}) = 0
    BY FS_EmptySet
  <2>5. Owned
    BY <2>2, <2>3, <2>4 DEF PayloadInit, Owned
  <2> QED
    BY <2>1, <2>5 DEF PayloadInv
<1> QED
  BY <1>1, PayloadStep, PayloadShares, PTL DEF PayloadSpec

-----------------------------------------------------------------------------
(* GTestThreads: what the registry relies on                               *)

Locking == {"exchange", "create", "publish", "spin", "enter", "held"}
Owning  == {"held", "wait", "value", "unlock"}
Inside  == Owning \cup {"leave"}
Leaving == {"unlock", "leave", "destroy"}

ThreadAt(k)  == step[<<"thread", k>>]
WatcherAt(k) == step[<<"watcher", k>>]

\* The mutex is being initialised by one actor, while none is past it, and is
\* then held by one at a time.
MutexInv ==
  /\ phase = 0 => \A a \in Actor : step[a] \notin {"create", "publish", "spin", "enter"} \cup Inside
  /\ phase = 1 => \A a \in Actor : step[a] \notin {"enter"} \cup Inside
  /\ \A a \in Actor : step[a] \in {"create", "publish"} =>
       phase = 1 /\ \A b \in Actor \ {a} : step[b] \notin {"create", "publish"}
  /\ \A a \in Actor : section = a <=> step[a] \in Inside
  /\ \A a \in Actor : step[a] \in Owning => owner = a

\* Where a thread and its watcher are at the same time.
Places ==
  /\ ThreadAt(1) \notin {"none", "ready", "exited"}
  /\ \A k \in Thread :
       /\ ThreadAt(k) \in {"none", "ready", "idle", "exited", "wait", "value"} \cup Locking \cup Leaving
       /\ WatcherAt(k) \in {"none", "start", "watch", "close", "over"} \cup Locking \cup Leaving
       /\ ThreadAt(k) \in {"none", "ready"} => WatcherAt(k) = "none" /\ \A l \in Local : got[k][l] = 0
       /\ ThreadAt(k) = "wait" => WatcherAt(k) \in {"start", "watch"}
       /\ ThreadAt(k) = "value" => WatcherAt(k) = "watch"
       /\ WatcherAt(k) = "start" => ThreadAt(k) = "wait"
       /\ WatcherAt(k) \notin {"none", "start", "watch"} => ThreadAt(k) = "exited"
       /\ WatcherAt(k) \notin {"none", "over"} => <<"watcher", k>> \in handles
       /\ ThreadAt(k) = "none" => <<"parent", k>> \notin handles /\ <<"watcher", k>> \notin handles

\* Only the main thread ends a ThreadLocal, when it is the only thread.
Locals ==
  /\ \A k \in Thread \ {1} :
       ThreadAt(k) \in Locking \cup Leaving \cup {"wait", "value"} =>
         local[k] \notin gone /\ ThreadAt(k) # "destroy"
  /\ ThreadAt(1) \in {"wait", "value"} => local[1] \notin gone
  /\ ThreadAt(1) = "destroy" => local[1] \in gone
  /\ ThreadAt(1) # "idle" /\ local[1] \in gone => \A k \in Thread \ {1} : ~Alive(k)

Active(k)  == WatcherAt(k) \in {"start", "watch"} \cup Locking
KeepsId(k) == Alive(k) \/ <<"parent", k>> \in handles \/ <<"watcher", k>> \in handles

\* An id is in the map exactly while a watcher watches it, or is about to take
\* it out, and until then is no other thread's.
Registry ==
  /\ \A j, k \in Thread : KeepsId(j) /\ KeepsId(k) /\ id[j] = id[k] => j = k
  /\ \A i \in Ids : i \in registered <=> \E k \in Thread : id[k] = i /\ Active(k)
  /\ \A i \in Ids, l \in Local : values[i][l] # 0 =>
       /\ id[values[i][l]] = i /\ Active(values[i][l])
       /\ l \in gone => local[1] = l /\ ThreadAt(1) \in Locking

Has(k, l)   == values[id[k]][l] = k
Final(k, l) == ThreadAt(k) = "exited" \/ l \in gone

\* A value that was given out is in the map, with one actor, or destroyed, and
\* out of the map only when its thread or its ThreadLocal has ended.
Fates ==
  /\ \A a \in Actor : doomed[a] # {} => step[a] \in Leaving
  /\ \A v \in doomed[Main] : v[2] = local[1] /\ local[1] \in gone
  /\ \A k \in Thread \ {1} : doomed[<<"thread", k>>] = {}
  /\ \A k \in Thread, l \in Local :
       /\ got[k][l] \in {0, k}
       /\ Has(k, l) => got[k][l] = k
       /\ got[k][l] # 0 =>
            <<k, l>> \in destroyed \/ Has(k, l) \/ \E a \in Actor : <<k, l>> \in doomed[a]
       /\ <<k, l>> \in destroyed => ~Has(k, l) /\ Final(k, l)
       /\ \A a \in Actor : <<k, l>> \in doomed[a] =>
            /\ <<k, l>> \notin destroyed /\ ~Has(k, l) /\ Final(k, l)
            /\ \A b \in Actor \ {a} : <<k, l>> \notin doomed[b]

ThreadsInv == ThreadsTypeOK /\ MutexInv /\ Places /\ Locals /\ Registry /\ Fates

LEMMA Actors ==
  /\ 1 \in Thread /\ 0 \notin Thread /\ NoActor \notin Actor
  /\ Main \in Actor /\ Main = <<"thread", 1>>
  /\ \A k \in Thread : <<"thread", k>> \in Actor /\ <<"watcher", k>> \in Actor
  /\ \A j, k \in Thread : /\ <<"thread", j>> = <<"thread", k>> <=> j = k
                         /\ <<"watcher", j>> = <<"watcher", k>> <=> j = k
                         /\ <<"thread", j>> # <<"watcher", k>>
  /\ \A a \in Actor : \E k \in Thread : a = <<"thread", k>> \/ a = <<"watcher", k>>
BY ThreadsAssumption DEF Thread, Actor, Main, NoActor

LEMMA ValuePairs ==
  /\ \A v \in Value : v[1] \in Thread /\ v[2] \in Local /\ v = <<v[1], v[2]>>
  /\ \A k \in Thread, l \in Local : <<k, l>> \in Value /\ <<k, l>>[1] = k /\ <<k, l>>[2] = l
BY DEF Value

\* The invariant says what the property does.
LEMMA ThreadsInvValues == ThreadsInv => ThreadValues
<1> SUFFICES ASSUME ThreadsInv PROVE ThreadValues
  OBVIOUS
<1>1. Held
  BY DEF ThreadsInv, MutexInv, Held, Inside, Owning
<1>2. ASSUME NEW k \in Thread, NEW l \in Local, NEW i \in Ids, values[i][l] = k PROVE id[k] = i
  BY <1>2, Actors DEF ThreadsInv, Registry
<1>3. \A v \in Value : InMap(v) <=> Has(v[1], v[2])
  <2> SUFFICES ASSUME NEW v \in Value PROVE InMap(v) <=> Has(v[1], v[2])
    OBVIOUS
  <2>1. v[1] \in Thread /\ v[2] \in Local /\ id[v[1]] \in Ids
    BY ValuePairs DEF ThreadsInv, ThreadsTypeOK
  <2> QED
    BY <1>2, <2>1 DEF InMap, Has
<1>4. OwnValues
  <2> SUFFICES ASSUME NEW v \in Value
               PROVE  LET mine == got[v[1]][v[2]]
                      IN  /\ mine \in {0, v[1]}
                          /\ mine # 0 /\ Alive(v[1]) /\ v[2] \notin gone =>
                               values[id[v[1]]][v[2]] = v[1] /\ v \notin destroyed
    BY DEF OwnValues
  <2>1. PICK k \in Thread, l \in Local : v = <<k, l>> /\ v[1] = k /\ v[2] = l
    BY ValuePairs
  <2>2. got[k][l] \in {0, k}
    BY DEF ThreadsInv, Fates
  <2>3. Alive(k) /\ l \notin gone => ~Final(k, l)
    BY DEF Final, Alive, ThreadAt
  <2>4. got[k][l] # 0 /\ ~Final(k, l) => Has(k, l) /\ <<k, l>> \notin destroyed
    BY DEF ThreadsInv, Fates
  <2> QED
    BY <2>1, <2>2, <2>3, <2>4 DEF Has
<1>5. DestroyedOnce
  <2> SUFFICES ASSUME NEW v \in Value
               PROVE /\ got[v[1]][v[2]] # 0 =>
                          v \in destroyed \/ InMap(v) \/ \E a \in Actor : v \in doomed[a]
                     /\ \A a \in Actor : v \in doomed[a] =>
                          /\ v \notin destroyed /\ ~InMap(v)
                          /\ \A b \in Actor \ {a} : v \notin doomed[b]
                     /\ v \in destroyed => ~InMap(v)
                     /\ At(<<"watcher", v[1]>>, "over") => ~InMap(v)
                     /\ v[2] \in gone /\ At(Main, "idle") => ~InMap(v)
    BY DEF DestroyedOnce
  <2>1. PICK k \in Thread, l \in Local : v = <<k, l>> /\ v[1] = k /\ v[2] = l
    BY ValuePairs
  <2>2. InMap(v) <=> Has(k, l)
    BY <1>3, <2>1
  <2>3. /\ got[k][l] # 0 => v \in destroyed \/ Has(k, l) \/ \E a \in Actor : v \in doomed[a]
        /\ v \in destroyed => ~Has(k, l)
        /\ \A a \in Actor : v \in doomed[a] =>
             v \notin destroyed /\ ~Has(k, l) /\ \A b \in Actor \ {a} : v \notin doomed[b]
    BY <2>1 DEF ThreadsInv, Fates
  <2>4. id[k] \in Ids /\ k # 0
    BY Actors DEF ThreadsInv, ThreadsTypeOK
  <2>5. Has(k, l) => Active(k) /\ (l \in gone => ThreadAt(1) \in Locking)
    BY <2>4 DEF ThreadsInv, Registry, Has
  <2>6. At(<<"watcher", k>>, "over") => ~Active(k)
    BY DEF At, Active, WatcherAt, Locking
  <2>7. At(Main, "idle") => ThreadAt(1) \notin Locking
    BY DEF At, ThreadAt, Main, Locking
  <2> QED
    BY <2>1, <2>2, <2>3, <2>5, <2>6, <2>7
<1> QED
  BY <1>1, <1>4, <1>5 DEF ThreadValues

-----------------------------------------------------------------------------
(* GTestThreads: what most steps leave alone                               *)

LEMMA ActorGoes ==
  ASSUME ThreadsTypeOK, NEW a \in Actor, NEW s, Goes(a, s)
  PROVE  step'[a] = s /\ \A b \in Actor \ {a} : step'[b] = step[b]
BY DEF ThreadsTypeOK, Goes

LEMMA ThreadGoes ==
  ASSUME ThreadsTypeOK, NEW k \in Thread, NEW s, Goes(<<"thread", k>>, s)
  PROVE  /\ ThreadAt(k)' = s
         /\ \A j \in Thread \ {k} : ThreadAt(j)' = ThreadAt(j)
         /\ \A j \in Thread : WatcherAt(j)' = WatcherAt(j)
<1>1. PICK a \in Actor : a = <<"thread", k>>
  BY Actors
<1>2. step'[a] = s /\ \A b \in Actor \ {a} : step'[b] = step[b]
  BY <1>1, ActorGoes
<1>3. \A j \in Thread : <<"watcher", j>> \in Actor \ {a}
  BY <1>1, Actors
<1>4. \A j \in Thread \ {k} : <<"thread", j>> \in Actor \ {a}
  BY <1>1, Actors
<1> QED
  BY <1>1, <1>2, <1>3, <1>4 DEF ThreadAt, WatcherAt

LEMMA WatcherGoes ==
  ASSUME ThreadsTypeOK, NEW k \in Thread, NEW s, Goes(<<"watcher", k>>, s)
  PROVE  /\ WatcherAt(k)' = s
         /\ \A j \in Thread \ {k} : WatcherAt(j)' = WatcherAt(j)
         /\ \A j \in Thread : ThreadAt(j)' = ThreadAt(j)
<1>1. PICK a \in Actor : a = <<"watcher", k>>
  BY Actors
<1>2. step'[a] = s /\ \A b \in Actor \ {a} : step'[b] = step[b]
  BY <1>1, ActorGoes
<1>3. \A j \in Thread : <<"thread", j>> \in Actor \ {a}
  BY <1>1, Actors
<1>4. \A j \in Thread \ {k} : <<"watcher", j>> \in Actor \ {a}
  BY <1>1, Actors
<1> QED
  BY <1>1, <1>2, <1>3, <1>4 DEF ThreadAt, WatcherAt

\* Steps that are not the mutex's, by an actor that stays outside or inside it.
LEMMA MutexFrame ==
  ASSUME MutexInv, UNCHANGED mutexVars,
         \A a \in Actor :
           \/ step'[a] = step[a]
           \/ step[a] \in Owning /\ step'[a] \in Owning
           \/ /\ step[a] \notin {"create", "publish", "spin", "enter"} \cup Inside
              /\ step'[a] \notin {"create", "publish", "spin", "enter"} \cup Inside
  PROVE  MutexInv'
<1>1. phase' = phase /\ section' = section /\ owner' = owner
  BY DEF mutexVars
<1>2. \A a \in Actor :
        /\ step'[a] \in {"create", "publish"} <=> step[a] \in {"create", "publish"}
        /\ step'[a] \in Inside <=> step[a] \in Inside
        /\ step'[a] \in Owning <=> step[a] \in Owning
        /\ step'[a] = "enter" <=> step[a] = "enter"
        /\ step'[a] = "spin" <=> step[a] = "spin"
  BY DEF Inside, Owning
<1> QED
  BY <1>1, <1>2 DEF MutexInv

\* Steps after which no id is kept that was not, and that leave the map alone.
LEMMA RegistryFrame ==
  ASSUME Registry, UNCHANGED <<id, registered, values, gone>>,
         \A k \in Thread : (KeepsId(k)' => KeepsId(k)) /\ (Active(k)' <=> Active(k)),
         ThreadAt(1) \in Locking => local'[1] = local[1] /\ ThreadAt(1)' \in Locking,
         ThreadsTypeOK
  PROVE  Registry'
<1>1. \A j, k \in Thread : KeepsId(j)' /\ KeepsId(k)' /\ id'[j] = id'[k] => j = k
  BY DEF Registry
<1>2. \A i \in Ids : i \in registered' <=> \E k \in Thread : id'[k] = i /\ Active(k)'
  BY DEF Registry
<1>3. ASSUME NEW i \in Ids, NEW l \in Local, values[i][l]' # 0
      PROVE  (/\ id[values[i][l]] = i /\ Active(values[i][l])
              /\ l \in gone => local[1] = l /\ ThreadAt(1) \in Locking)'
  <2>1. PICK k \in Thread : values[i][l] = k /\ values[i][l]' = k /\ k # 0
    BY <1>3 DEF ThreadsTypeOK
  <2>2. id[k] = i /\ Active(k) /\ (l \in gone => local[1] = l /\ ThreadAt(1) \in Locking)
    BY <2>1 DEF Registry
  <2>3. id'[k] = i /\ Active(k)' /\ (l \in gone' => local'[1] = l /\ ThreadAt(1)' \in Locking)
    BY <2>2
  <2>4. Active(values[i][l])' <=> Active(k)'
    BY <2>1 DEF Active, WatcherAt
  <2> QED
    BY <2>1, <2>3, <2>4
<1> QED
  BY <1>1, <1>2, <1>3 DEF Registry

\* Steps that leave every value where it is.
LEMMA FatesFrame ==
  ASSUME Fates, UNCHANGED <<id, values, got, doomed, destroyed, gone>>,
         \A k \in Thread : ThreadAt(k) = "exited" => ThreadAt(k)' = "exited",
         \A a \in Actor : step[a] \in Leaving /\ doomed[a] # {} => step'[a] \in Leaving,
         ThreadAt(1) \in Leaving => local'[1] = local[1]
  PROVE  Fates'
<1>1. \A k \in Thread, l \in Local : Has(k, l)' <=> Has(k, l)
  BY DEF Has
<1>2. \A k \in Thread, l \in Local : Final(k, l) => Final(k, l)'
  BY DEF Final
<1>3. \A a \in Actor : doomed'[a] # {} => step'[a] \in Leaving
  BY DEF Fates
<1>4. \A v \in doomed'[Main] : v[2] = local'[1] /\ local'[1] \in gone'
  BY Actors DEF Fates, ThreadAt
<1> QED
  BY <1>1, <1>2, <1>3, <1>4 DEF Fates

\* Steps on the way to the lock, or out of it.
LEMMA LockFrame ==
  ASSUME ThreadsInv, NEW a \in Actor, NEW s, Goes(a, s),
         \/ step[a] \in Locking /\ s \in Locking
         \/ step[a] = "unlock" /\ s = "leave",
         UNCHANGED <<local, threadVars, valueVars, endVars>>
  PROVE  Places' /\ Locals' /\ Registry' /\ Fates'
<1> USE DEF ThreadsInv, threadVars, valueVars, endVars
<1>1. \A b \in Actor : \/ step'[b] = step[b]
                       \/ step[b] \in Locking /\ step'[b] \in Locking
                       \/ step[b] = "unlock" /\ step'[b] = "leave"
  BY ActorGoes
<1>2. \A k \in Thread : \/ ThreadAt(k)' = ThreadAt(k)
                        \/ ThreadAt(k) \in Locking /\ ThreadAt(k)' \in Locking
                        \/ ThreadAt(k) = "unlock" /\ ThreadAt(k)' = "leave"
  BY <1>1, Actors DEF ThreadAt
<1>3. \A k \in Thread : \/ WatcherAt(k)' = WatcherAt(k)
                        \/ WatcherAt(k) \in Locking /\ WatcherAt(k)' \in Locking
                        \/ WatcherAt(k) = "unlock" /\ WatcherAt(k)' = "leave"
  BY <1>1, Actors DEF WatcherAt
<1>4. \A k \in Thread : (Alive(k)' <=> Alive(k)) /\ (Active(k)' <=> Active(k))
  BY <1>2, <1>3 DEF Alive, Active, ThreadAt, Locking
<1>5. Places'
  BY <1>2, <1>3, Actors DEF Places, Locking, Leaving
<1>6. Locals'
  BY <1>2, <1>4, Actors DEF Locals, Locking, Leaving
<1>7. Registry'
  <2>1. \A k \in Thread : KeepsId(k)' => KeepsId(k)
    BY <1>4 DEF KeepsId
  <2>2. ThreadAt(1) \in Locking => ThreadAt(1)' \in Locking
    BY <1>2, Actors DEF Locking
  <2> QED
    BY <1>4, <2>1, <2>2, RegistryFrame
<1>8. Fates'
  <2>1. \A k \in Thread : ThreadAt(k) = "exited" => ThreadAt(k)' = "exited"
    BY <1>2 DEF Locking
  <2>2. \A b \in Actor : step[b] \in Leaving => step'[b] \in Leaving
    BY <1>1 DEF Locking, Leaving
  <2> QED
    BY <2>1, <2>2, FatesFrame
<1> QED
  BY <1>5, <1>6, <1>7, <1>8

-----------------------------------------------------------------------------
(* GTestThreads: the mutex                                                 *)

LEMMA LockKeeps ==
  ASSUME ThreadsInv, NEW a \in Actor,
         Exchange(a) \/ CreateSection(a) \/ Publish(a) \/ Spin(a) \/ Enter(a)
  PROVE  ThreadsInv'
<1> USE DEF ThreadsInv
<1>1. PICK s \in Locking : step[a] \in Locking /\ Goes(a, s)
                         /\ UNCHANGED <<local, threadVars, valueVars, endVars>>
  <2>1. CASE Exchange(a)
    BY <2>1 DEF Exchange, At, Locking, ThreadsTypeOK
  <2>2. CASE CreateSection(a) \/ Publish(a) \/ Spin(a) \/ Enter(a)
    BY <2>2 DEF CreateSection, Publish, Spin, Enter, At, Locking, mutexVars
  <2> QED
    BY <2>1, <2>2
<1>2. step'[a] = s /\ \A b \in Actor \ {a} : step'[b] = step[b]
  BY <1>1, ActorGoes
<1>3. ThreadsTypeOK'
  <2>1. step' \in [Actor -> {"none", "ready", "idle", "exited", "exchange", "create", "publish",
                        "spin", "enter", "held", "wait", "value", "unlock", "leave",
                        "destroy", "start", "watch", "close", "over"}]
    BY <1>1 DEF Goes, Locking, ThreadsTypeOK
  <2>2. phase' \in 0 .. 2 /\ section' \in Actor \cup {NoActor} /\ owner' \in Actor \cup {NoActor}
    BY DEF ThreadsTypeOK, Exchange, CreateSection, Publish, Spin, Enter, mutexVars
  <2> QED
    BY <1>1, <2>1, <2>2 DEF ThreadsTypeOK, threadVars, valueVars, endVars
<1>4. MutexInv'
  <2>1. CASE Exchange(a)
    <3>1. UNCHANGED <<section, owner>> /\ step[a] = "exchange" /\ phase \in 0 .. 2
      BY <2>1 DEF Exchange, At, ThreadsTypeOK
    <3>2. CASE phase = 0
      <4>1. phase' = 1 /\ step'[a] = "create"
        BY <2>1, <3>2, <1>2 DEF Exchange, Goes, ThreadsTypeOK
      <4> QED
        BY <1>2, <3>1, <3>2, <4>1 DEF MutexInv, Inside, Owning
    <3>3. CASE phase = 1
      <4>1. phase' = 1 /\ step'[a] = "spin"
        BY <2>1, <3>3, <1>2 DEF Exchange, Goes, ThreadsTypeOK
      <4> QED
        BY <1>2, <3>1, <3>3, <4>1 DEF MutexInv, Inside, Owning
    <3>4. CASE phase = 2
      <4>1. phase' = 2 /\ step'[a] = "enter"
        BY <2>1, <3>4, <1>2 DEF Exchange, Goes, ThreadsTypeOK
      <4> QED
        BY <1>2, <3>1, <3>4, <4>1 DEF MutexInv, Inside, Owning
    <3> QED
      BY <3>1, <3>2, <3>3, <3>4
  <2>2. CASE CreateSection(a)
    <3>1. /\ step[a] = "create" /\ step'[a] = "publish" /\ phase' = phase
          /\ section' = NoActor
      BY <2>2, <1>2 DEF CreateSection, At, Goes, ThreadsTypeOK
    <3>2. phase = 1
      BY <3>1 DEF MutexInv
    <3> QED
      BY <1>2, <3>1, <3>2, Actors DEF MutexInv, Inside, Owning
  <2>3. CASE Publish(a)
    <3>1. /\ step[a] = "publish" /\ step'[a] = "enter" /\ phase = 1 /\ phase' = 2
          /\ UNCHANGED <<section, owner>>
      BY <2>3, <1>2 DEF Publish, At, Goes, ThreadsTypeOK
    <3> QED
      BY <1>2, <3>1 DEF MutexInv, Inside, Owning
  <2>4. CASE Spin(a)
    <3>1. /\ step[a] = "spin" /\ step'[a] = "enter" /\ phase = 2
          /\ UNCHANGED <<phase, section, owner>>
      BY <2>4, <1>2 DEF Spin, At, Goes, ThreadsTypeOK, mutexVars
    <3> QED
      BY <1>2, <3>1 DEF MutexInv, Inside, Owning
  <2>5. CASE Enter(a)
    <3>1. /\ step[a] = "enter" /\ step'[a] = "held" /\ section = NoActor
          /\ section' = a /\ owner' = a /\ phase' = phase
      BY <2>5, <1>2 DEF Enter, At, Goes, ThreadsTypeOK
    <3>2. phase = 2 /\ \A b \in Actor : step[b] \notin Inside
      BY <3>1, Actors DEF MutexInv, ThreadsTypeOK
    <3> QED
      BY <1>2, <3>1, <3>2 DEF MutexInv, Inside, Owning
  <2> QED
    BY <2>1, <2>2, <2>3, <2>4, <2>5
<1>5. Places' /\ Locals' /\ Registry' /\ Fates'
  BY <1>1, LockFrame
<1> QED
  BY <1>3, <1>4, <1>5

\* The lock is disowned, then left; a watcher, and the end of a ThreadLocal, go
\* on to destroy what they took out of the map.
LEMMA UnlockKeeps ==
  ASSUME ThreadsInv, NEW a \in Actor, Unlock(a)
  PROVE  MutexInv' /\ Places' /\ Locals' /\ Registry' /\ Fates'
<1> USE DEF ThreadsInv, threadVars, valueVars, endVars
<1>1. CASE At(a, "unlock")
  <2>1. /\ step[a] = "unlock" /\ Goes(a, "leave") /\ UNCHANGED <<phase, section>>
        /\ UNCHANGED <<local, threadVars, valueVars, endVars>>
    BY <1>1 DEF Unlock, At
  <2>2. step'[a] = "leave" /\ \A b \in Actor \ {a} : step'[b] = step[b]
    BY <2>1, ActorGoes
  <2>3. section = a /\ \A b \in Actor \ {a} : step[b] \notin Inside
    BY <2>1 DEF MutexInv, Inside, Owning
  <2>4. MutexInv'
    BY <2>1, <2>2, <2>3 DEF MutexInv, Inside, Owning
  <2> QED
    BY <2>1, <2>4, LockFrame
<1>2. CASE At(a, "leave")
  <2>1. /\ step[a] = "leave" /\ Goes(a, Released(a)) /\ UNCHANGED <<phase, owner>>
        /\ section' = NoActor /\ UNCHANGED <<local, threadVars, valueVars, endVars>>
    BY <1>2 DEF Unlock, At
  <2>2. step'[a] = Released(a) /\ \A b \in Actor \ {a} : step'[b] = step[b]
    BY <2>1, ActorGoes
  <2>3. Released(a) \in {"destroy", "idle"}
    BY DEF Released
  <2>4. section = a /\ \A b \in Actor \ {a} : step[b] \notin Inside
    BY <2>1 DEF MutexInv, Inside, Owning
  <2>5. MutexInv'
    BY <2>1, <2>2, <2>3, <2>4, Actors DEF MutexInv, Inside, Owning
  <2>6. ASSUME NEW k \in Thread, a = <<"thread", k>>
        PROVE  Places' /\ Locals' /\ Registry' /\ Fates'
    <3>1. /\ ThreadAt(k) = "leave"
          /\ Released(a) = IF local[k] \in gone THEN "destroy" ELSE "idle"
      BY <2>1, <2>6 DEF ThreadAt, Released
    <3>2. /\ ThreadAt(k)' = Released(a)
          /\ \A j \in Thread \ {k} : ThreadAt(j)' = ThreadAt(j)
          /\ \A j \in Thread : WatcherAt(j)' = WatcherAt(j)
      BY <2>1, <2>6, ThreadGoes
    <3>3. k # 1 => local[k] \notin gone
      BY <3>1 DEF Locals, Leaving
    <3>4. \A j \in Thread : (Alive(j)' <=> Alive(j)) /\ (Active(j)' <=> Active(j))
      BY <2>3, <3>1, <3>2 DEF Alive, Active, ThreadAt, Locking
    <3>5. Places'
      BY <2>1, <2>3, <3>1, <3>2, Actors DEF Places, Locking, Leaving
    <3>6. Locals'
      BY <2>1, <2>3, <3>1, <3>2, <3>3, <3>4, Actors DEF Locals, Locking, Leaving
    <3>7. Registry'
      <4>1. \A j \in Thread : KeepsId(j)' => KeepsId(j)
        BY <2>1, <3>4 DEF KeepsId
      <4>2. ThreadAt(1) \in Locking => ThreadAt(1)' \in Locking
        BY <3>1, <3>2, Actors DEF Locking
      <4> QED
        BY <2>1, <3>4, <4>1, <4>2, RegistryFrame
    <3>8. Fates'
      <4>1. \A j \in Thread : ThreadAt(j) = "exited" => ThreadAt(j)' = "exited"
        BY <3>1, <3>2
      <4>2. ASSUME doomed[a] # {} PROVE step'[a] = "destroy"
        <5>1. k = 1 /\ a = Main
          BY <2>6, <4>2, Actors DEF Fates
        <5>2. local[1] \in gone
          BY <4>2, <5>1 DEF Fates
        <5> QED
          BY <2>2, <3>1, <5>1, <5>2
      <4>3. \A b \in Actor : step[b] \in Leaving /\ doomed[b] # {} => step'[b] \in Leaving
        BY <2>2, <4>2 DEF Leaving
      <4> QED
        BY <2>1, <4>1, <4>3, FatesFrame
    <3> QED
      BY <3>5, <3>6, <3>7, <3>8
  <2>7. ASSUME NEW k \in Thread, a = <<"watcher", k>>
        PROVE  Places' /\ Locals' /\ Registry' /\ Fates'
    <3>1. WatcherAt(k) = "leave" /\ Released(a) = "destroy"
      BY <2>1, <2>7 DEF WatcherAt, Released
    <3>2. /\ WatcherAt(k)' = "destroy"
          /\ \A j \in Thread \ {k} : WatcherAt(j)' = WatcherAt(j)
          /\ \A j \in Thread : ThreadAt(j)' = ThreadAt(j)
      BY <2>1, <2>7, <3>1, WatcherGoes
    <3>4. \A j \in Thread : (Alive(j)' <=> Alive(j)) /\ (Active(j)' <=> Active(j))
      BY <3>1, <3>2 DEF Alive, Active, ThreadAt, Locking
    <3>5. Places'
      BY <2>1, <3>1, <3>2, Actors DEF Places, Locking, Leaving
    <3>6. Locals'
      BY <2>1, <3>2, <3>4, Actors DEF Locals
    <3>7. Registry'
      <4>1. \A j \in Thread : KeepsId(j)' => KeepsId(j)
        BY <2>1, <3>4 DEF KeepsId
      <4> QED
        BY <2>1, <3>2, <3>4, <4>1, Actors, RegistryFrame
    <3>8. Fates'
      <4>3. \A b \in Actor : step[b] \in Leaving => step'[b] \in Leaving
        BY <2>2, <3>1 DEF Leaving
      <4> QED
        BY <2>1, <3>2, <4>3, FatesFrame
    <3> QED
      BY <3>5, <3>6, <3>7, <3>8
  <2> QED
    BY <2>5, <2>6, <2>7, Actors
<1> QED
  BY <1>1, <1>2 DEF Unlock

-----------------------------------------------------------------------------
(* GTestThreads: threads                                                   *)

\* A new thread's id is one that nobody keeps.
LEMMA CreateThreadKeeps ==
  ASSUME ThreadsInv, NEW k \in Thread, CreateThread(k)
  PROVE  MutexInv' /\ Places' /\ Locals' /\ Registry' /\ Fates'
<1> USE DEF ThreadsInv, valueVars, endVars
<1>1. PICK i \in Ids : ~InUse(i) /\ id' = [id EXCEPT ![k] = i]
  BY DEF CreateThread
<1>2. /\ ThreadAt(1) = "idle" /\ ThreadAt(k) = "none" /\ Goes(<<"thread", k>>, "ready")
      /\ handles' = handles \cup {<<"parent", k>>}
      /\ UNCHANGED <<mutexVars, local, notified, valueVars, endVars>>
  BY DEF CreateThread, At, Main, ThreadAt
<1>3. /\ ThreadAt(k)' = "ready"
      /\ \A j \in Thread \ {k} : ThreadAt(j)' = ThreadAt(j)
      /\ \A j \in Thread : WatcherAt(j)' = WatcherAt(j)
      /\ k # 1
  BY <1>2, ThreadGoes, Actors
<1>4. \A j \in Thread \ {k} : id'[j] = id[j] /\ id'[k] = i
  BY <1>1 DEF ThreadsTypeOK
<1>5. WatcherAt(k) = "none" /\ ~Active(k) /\ \A l \in Local : got[k][l] = 0
  BY <1>2 DEF Places, Active, Locking
<1>6. \A j \in Thread : Active(j)' <=> Active(j)
  BY <1>3 DEF Active
<1>7. \A j \in Thread \ {k} : (Alive(j)' <=> Alive(j)) /\ (KeepsId(j)' <=> KeepsId(j))
  BY <1>2, <1>3 DEF Alive, KeepsId, ThreadAt
<1>8. MutexInv'
  <2>1. PICK a \in Actor : a = <<"thread", k>> /\ step[a] = "none" /\ step'[a] = "ready"
    BY <1>2, <1>3, Actors DEF ThreadAt
  <2>2. \A b \in Actor \ {a} : step'[b] = step[b]
    BY <1>2, <2>1, ActorGoes
  <2> QED
    BY <1>2, <2>1, <2>2, MutexFrame DEF Inside, Owning
<1>9. Places'
  BY <1>2, <1>3, <1>5, Actors DEF Places, Locking, Leaving
<1>10. Locals'
  BY <1>2, <1>3, Actors DEF Locals, Locking, Leaving
<1>11. Registry'
  <2>1. \A j \in Thread : KeepsId(j) => id[j] # i
    BY <1>1 DEF InUse, KeepsId
  <2>2. \A j, n \in Thread : KeepsId(j)' /\ KeepsId(n)' /\ id'[j] = id'[n] => j = n
    BY <1>4, <1>7, <2>1 DEF Registry
  <2>3. \A m \in Ids : m \in registered' <=> \E j \in Thread : id'[j] = m /\ Active(j)'
    BY <1>2, <1>4, <1>5, <1>6 DEF Registry
  <2>4. ASSUME NEW m \in Ids, NEW l \in Local, values[m][l]' # 0
        PROVE  (/\ id[values[m][l]] = m /\ Active(values[m][l])
                /\ l \in gone => local[1] = l /\ ThreadAt(1) \in Locking)'
    <3>1. PICK j \in Thread : values[m][l] = j /\ values[m][l]' = j /\ j # 0
      BY <1>2, <2>4 DEF ThreadsTypeOK
    <3>2. id[j] = m /\ Active(j) /\ l \notin gone
      BY <1>2, <3>1 DEF Registry, Locking
    <3>3. id'[j] = m /\ Active(j)' /\ l \notin gone'
      BY <1>2, <1>4, <1>5, <1>6, <3>2
    <3>4. Active(values[m][l])' <=> Active(j)'
      BY <3>1 DEF Active, WatcherAt
    <3> QED
      BY <3>1, <3>3, <3>4
  <2> QED
    BY <2>2, <2>3, <2>4 DEF Registry
<1>12. Fates'
  <2>1. ASSUME NEW l \in Local PROVE ~Has(k, l) /\ ~Has(k, l)'
    <3>1. \A m \in Ids : values[m][l] # k
      BY <1>5, Actors DEF Registry
    <3> QED
      BY <1>1, <1>2, <1>4, <3>1 DEF Has, ThreadsTypeOK
  <2>2. \A j \in Thread, l \in Local : Has(j, l)' <=> Has(j, l)
    BY <1>2, <1>4, <2>1 DEF Has
  <2>3. \A j \in Thread, l \in Local : Final(j, l) => Final(j, l)'
    BY <1>2, <1>3 DEF Final
  <2>4. \A a \in Actor : doomed'[a] # {} => step'[a] \in Leaving
    <3>1. PICK a \in Actor : a = <<"thread", k>> /\ step[a] = "none"
      BY <1>2, Actors DEF ThreadAt
    <3>2. \A b \in Actor \ {a} : step'[b] = step[b]
      BY <1>2, <3>1, ActorGoes
    <3> QED
      BY <1>2, <3>1, <3>2 DEF Fates, Leaving
  <2> QED
    BY <1>2, <2>2, <2>3, <2>4 DEF Fates
<1> QED
  BY <1>8, <1>9, <1>10, <1>11, <1>12

\* Steps of a thread that is not in a call: it begins, begins a call, or ends.
LEMMA ThreadFrame ==
  ASSUME ThreadsInv, NEW k \in Thread, NEW s, Goes(<<"thread", k>>, s),
         \/ ThreadAt(k) = "ready" /\ s = "idle"
         \/ ThreadAt(k) = "idle" /\ k # 1 /\ s = "exited",
         UNCHANGED <<mutexVars, local, threadVars, valueVars, endVars>>
  PROVE  MutexInv' /\ Places' /\ Locals' /\ Registry' /\ Fates'
<1> USE DEF ThreadsInv, threadVars, valueVars, endVars
<1>1. /\ ThreadAt(k)' = s
      /\ \A j \in Thread \ {k} : ThreadAt(j)' = ThreadAt(j)
      /\ \A j \in Thread : WatcherAt(j)' = WatcherAt(j)
  BY ThreadGoes
<1>2. PICK a \in Actor : a = <<"thread", k>> /\ step[a] \in {"ready", "idle"} /\ step'[a] = s
  BY <1>1, Actors DEF ThreadAt
<1>3. \A b \in Actor \ {a} : step'[b] = step[b]
  BY <1>2, ActorGoes
<1>4. k # 1
  BY DEF Places
<1>5. MutexInv'
  BY <1>2, <1>3, MutexFrame DEF Inside, Owning
<1>6. \A j \in Thread : (Alive(j)' => Alive(j)) /\ (Active(j)' <=> Active(j))
  BY <1>1 DEF Alive, Active, ThreadAt
<1>7. Places'
  BY <1>1, <1>4, Actors DEF Places, Locking, Leaving
<1>8. Locals'
  BY <1>1, <1>4, <1>6, Actors DEF Locals, Locking, Leaving
<1>9. Registry'
  <2>1. \A j \in Thread : KeepsId(j)' => KeepsId(j)
    BY <1>6 DEF KeepsId
  <2> QED
    BY <1>1, <1>4, <1>6, <2>1, Actors, RegistryFrame
<1>10. Fates'
  <2>1. \A j \in Thread : ThreadAt(j) = "exited" => ThreadAt(j)' = "exited"
    BY <1>1
  <2>2. \A b \in Actor : step[b] \in Leaving => step'[b] \in Leaving
    BY <1>2, <1>3 DEF Leaving
  <2> QED
    BY <2>1, <2>2, FatesFrame
<1> QED
  BY <1>5, <1>7, <1>8, <1>9, <1>10

LEMMA ThreadKeeps ==
  ASSUME ThreadsInv, NEW k \in Thread, ThreadMain(k) \/ Exit(k)
  PROVE  MutexInv' /\ Places' /\ Locals' /\ Registry' /\ Fates'
BY ThreadFrame DEF ThreadMain, Exit, At, ThreadAt

\* Steps that only close a handle, or notify the threads.
LEMMA JoinKeeps ==
  ASSUME ThreadsInv, Notify \/ \E k \in Thread : Join(k)
  PROVE  MutexInv' /\ Places' /\ Locals' /\ Registry' /\ Fates'
<1> USE DEF ThreadsInv, valueVars, endVars
<1>1. /\ UNCHANGED <<mutexVars, step, local, id, valueVars, endVars>>
      /\ handles' \subseteq handles
      /\ \A k \in Thread : <<"watcher", k>> \in handles' <=> <<"watcher", k>> \in handles
  BY DEF Join, Notify
<1>2. \A j \in Thread : /\ ThreadAt(j)' = ThreadAt(j) /\ WatcherAt(j)' = WatcherAt(j)
                       /\ (Alive(j)' <=> Alive(j)) /\ (Active(j)' <=> Active(j))
  BY <1>1 DEF ThreadAt, WatcherAt, Alive, Active
<1>3. MutexInv'
  BY <1>1, MutexFrame
<1>4. Places'
  BY <1>1, <1>2, Actors DEF Places
<1>5. Locals'
  BY <1>1, <1>2, Actors DEF Locals
<1>6. Registry'
  <2>1. \A j \in Thread : KeepsId(j)' => KeepsId(j)
    BY <1>1, <1>2 DEF KeepsId
  <2> QED
    BY <1>1, <1>2, <2>1, Actors, RegistryFrame
<1>7. Fates'
  BY <1>1, <1>2, FatesFrame
<1> QED
  BY <1>3, <1>4, <1>5, <1>6, <1>7

-----------------------------------------------------------------------------
(* GTestThreads: the map                                                   *)

LEMMA GetKeeps ==
  ASSUME ThreadsInv, NEW k \in Thread, NEW l \in Local, Get(k, l)
  PROVE  MutexInv' /\ Places' /\ Locals' /\ Registry' /\ Fates'
<1> USE DEF ThreadsInv, threadVars, valueVars, endVars
<1>1. /\ ThreadAt(k) = "idle" /\ Goes(<<"thread", k>>, "exchange") /\ l \notin gone
      /\ local' = [local EXCEPT ![k] = l]
      /\ UNCHANGED <<mutexVars, threadVars, valueVars, endVars>>
  BY DEF Get, At, ThreadAt
<1>2. /\ ThreadAt(k)' = "exchange"
      /\ \A j \in Thread \ {k} : ThreadAt(j)' = ThreadAt(j)
      /\ \A j \in Thread : WatcherAt(j)' = WatcherAt(j)
  BY <1>1, ThreadGoes
<1>3. PICK a \in Actor : a = <<"thread", k>> /\ step[a] = "idle" /\ step'[a] = "exchange"
  BY <1>1, <1>2, Actors DEF ThreadAt
<1>4. \A b \in Actor \ {a} : step'[b] = step[b]
  BY <1>1, <1>3, ActorGoes
<1>5. local'[k] = l /\ \A j \in Thread \ {k} : local'[j] = local[j]
  BY <1>1 DEF ThreadsTypeOK
<1>6. MutexInv'
  BY <1>1, <1>3, <1>4, MutexFrame DEF Inside, Owning
<1>7. \A j \in Thread : (Alive(j)' <=> Alive(j)) /\ (Active(j)' <=> Active(j))
  BY <1>1, <1>2 DEF Alive, Active, ThreadAt
<1>8. Places'
  BY <1>1, <1>2, Actors DEF Places, Locking, Leaving
<1>9. Locals'
  BY <1>1, <1>2, <1>5, <1>7, Actors DEF Locals, Locking, Leaving
<1>10. Registry'
  <2>1. \A j \in Thread : KeepsId(j)' => KeepsId(j)
    BY <1>1, <1>7 DEF KeepsId
  <2>2. ThreadAt(1) \in Locking => local'[1] = local[1] /\ ThreadAt(1)' \in Locking
    BY <1>1, <1>2, <1>5, Actors DEF Locking
  <2> QED
    BY <1>1, <1>7, <2>1, <2>2, RegistryFrame
<1>11. Fates'
  <2>1. \A j \in Thread : ThreadAt(j) = "exited" => ThreadAt(j)' = "exited"
    BY <1>1, <1>2
  <2>2. \A b \in Actor : step[b] \in Leaving => step'[b] \in Leaving
    BY <1>3, <1>4 DEF Leaving
  <2>3. ThreadAt(1) \in Leaving => local'[1] = local[1]
    BY <1>1, <1>5, Actors DEF Leaving
  <2> QED
    BY <1>1, <2>1, <2>2, <2>3, FatesFrame
<1> QED
  BY <1>6, <1>8, <1>9, <1>10, <1>11

\* The end of a ThreadLocal begins when no other thread is there to use it.
LEMMA DestroyLocalKeeps ==
  ASSUME ThreadsInv, NEW l \in Local, DestroyLocal(l)
  PROVE  MutexInv' /\ Places' /\ Locals' /\ Registry' /\ Fates'
<1> USE DEF ThreadsInv, threadVars, valueVars
<1>1. /\ ThreadAt(1) = "idle" /\ step[Main] = "idle" /\ Goes(Main, "exchange")
      /\ \A k \in Thread \ {1} : ~Alive(k)
      /\ gone' = gone \cup {l} /\ local' = [local EXCEPT ![1] = l]
      /\ UNCHANGED <<mutexVars, threadVars, valueVars, doomed, destroyed>>
  BY DEF DestroyLocal, At, ThreadAt, Main
<1>2. /\ ThreadAt(1)' = "exchange"
      /\ \A j \in Thread \ {1} : ThreadAt(j)' = ThreadAt(j)
      /\ \A j \in Thread : WatcherAt(j)' = WatcherAt(j)
  BY <1>1, ThreadGoes, Actors
<1>3. step'[Main] = "exchange" /\ \A b \in Actor \ {Main} : step'[b] = step[b]
  BY <1>1, Actors, ActorGoes
<1>4. local'[1] = l
  BY <1>1, Actors DEF ThreadsTypeOK
<1>5. MutexInv'
  BY <1>1, <1>3, MutexFrame DEF Inside, Owning
<1>6. \A j \in Thread : (Alive(j)' <=> Alive(j)) /\ (Active(j)' <=> Active(j))
  BY <1>1, <1>2 DEF Alive, Active, ThreadAt
<1>7. Places'
  BY <1>1, <1>2, Actors DEF Places, Locking, Leaving
<1>8. Locals'
  <2>1. \A k \in Thread \ {1} : ThreadAt(k) \in {"none", "exited"}
    BY <1>1 DEF Alive, ThreadAt
  <2> QED
    BY <1>1, <1>2, <1>6, <2>1 DEF Locals, Locking, Leaving
<1>9. Registry'
  <2>1. \A j \in Thread : KeepsId(j)' <=> KeepsId(j)
    BY <1>1, <1>6 DEF KeepsId
  <2>2. ASSUME NEW i \in Ids, NEW m \in Local, values[i][m]' # 0
        PROVE  (/\ id[values[i][m]] = i /\ Active(values[i][m])
                /\ m \in gone => local[1] = m /\ ThreadAt(1) \in Locking)'
    <3>1. PICK j \in Thread : values[i][m] = j /\ values[i][m]' = j /\ j # 0
      BY <1>1, <2>2 DEF ThreadsTypeOK
    <3>2. id[j] = i /\ Active(j) /\ m \notin gone
      BY <1>1, <3>1 DEF Registry, Locking
    <3>3. id'[j] = i /\ Active(j)' /\ (m \in gone' => local'[1] = m /\ ThreadAt(1)' \in Locking)
      BY <1>1, <1>2, <1>4, <1>6, <3>2 DEF Locking
    <3>4. Active(values[i][m])' <=> Active(j)'
      BY <3>1 DEF Active, WatcherAt
    <3> QED
      BY <3>1, <3>3, <3>4
  <2>3. \A j, k \in Thread : KeepsId(j)' /\ KeepsId(k)' /\ id'[j] = id'[k] => j = k
    BY <1>1, <2>1 DEF Registry
  <2>4. \A i \in Ids : i \in registered' <=> \E k \in Thread : id'[k] = i /\ Active(k)'
    BY <1>1, <1>6 DEF Registry
  <2> QED
    BY <2>2, <2>3, <2>4 DEF Registry
<1>10. Fates'
  <2>1. \A j \in Thread, m \in Local : Has(j, m)' <=> Has(j, m)
    BY <1>1 DEF Has
  <2>2. \A j \in Thread, m \in Local : Final(j, m) => Final(j, m)'
    BY <1>1, <1>2 DEF Final
  <2>3. doomed[Main] = {}
    BY <1>1, Actors DEF Fates, Leaving
  <2>4. \A a \in Actor : doomed'[a] # {} => step'[a] \in Leaving
    BY <1>1, <1>3, <2>3 DEF Fates
  <2> QED
    BY <1>1, <2>1, <2>2, <2>3, <2>4 DEF Fates
<1> QED
  BY <1>5, <1>7, <1>8, <1>9, <1>10

\* A thread whose id is in the map has put it there itself.
LEMMA StartWatcherKeeps ==
  ASSUME ThreadsInv, NEW k \in Thread, StartWatcher(k)
  PROVE  MutexInv' /\ Places' /\ Locals' /\ Registry' /\ Fates'
<1> USE DEF ThreadsInv, endVars
<1>1. /\ ThreadAt(k) = "held" /\ local[k] \notin gone
      /\ UNCHANGED <<mutexVars, local, id, notified, values, got, endVars>>
  BY DEF StartWatcher, At, ThreadAt
<1>2. PICK a \in Actor : a = <<"thread", k>> /\ step[a] = "held"
  BY <1>1, Actors DEF ThreadAt
<1>3. Alive(k) /\ KeepsId(k)
  BY <1>1 DEF Alive, KeepsId, ThreadAt
<1>4. WatcherAt(k) \in {"none", "watch"}
  BY <1>1 DEF Places
<1>5. CASE id[k] \in registered
  <2>1. /\ Goes(<<"thread", k>>, "value") /\ UNCHANGED <<registered, handles>>
    BY <1>5 DEF StartWatcher
  <2>2. /\ ThreadAt(k)' = "value"
        /\ \A j \in Thread \ {k} : ThreadAt(j)' = ThreadAt(j)
        /\ \A j \in Thread : WatcherAt(j)' = WatcherAt(j)
    BY <2>1, ThreadGoes
  <2>3. step'[a] = "value" /\ \A b \in Actor \ {a} : step'[b] = step[b]
    BY <1>2, <2>1, ActorGoes
  <2>4. WatcherAt(k) = "watch"
    <3>1. id[k] \in Ids
      BY DEF ThreadsTypeOK
    <3>2. PICK j \in Thread : id[j] = id[k] /\ Active(j)
      BY <1>5, <3>1 DEF Registry
    <3>3. KeepsId(j)
      BY <3>2 DEF KeepsId, Places, Active, Locking
    <3>4. j = k
      BY <1>3, <3>2, <3>3 DEF Registry
    <3> QED
      BY <1>4, <3>2, <3>4 DEF Active, Locking
  <2>5. MutexInv'
    BY <1>1, <1>2, <2>3, MutexFrame DEF Owning
  <2>6. \A j \in Thread : (Alive(j)' <=> Alive(j)) /\ (Active(j)' <=> Active(j))
    BY <1>1, <2>2 DEF Alive, Active, ThreadAt
  <2>7. Places'
    BY <1>1, <2>1, <2>2, <2>4, Actors DEF Places, Locking, Leaving
  <2>8. Locals'
    BY <1>1, <2>2, <2>6, Actors DEF Locals, Locking, Leaving
  <2>9. Registry'
    <3>1. \A j \in Thread : KeepsId(j)' => KeepsId(j)
      BY <2>1, <2>6 DEF KeepsId
    <3>2. ASSUME NEW i \in Ids, NEW m \in Local, values[i][m]' # 0
          PROVE  (/\ id[values[i][m]] = i /\ Active(values[i][m])
                  /\ m \in gone => local[1] = m /\ ThreadAt(1) \in Locking)'
      <4>1. PICK j \in Thread : values[i][m] = j /\ values[i][m]' = j /\ j # 0
        BY <1>1, <3>2 DEF ThreadsTypeOK
      <4>2. id[j] = i /\ Active(j) /\ (m \in gone => local[1] = m /\ ThreadAt(1) \in Locking)
        BY <4>1 DEF Registry
      <4>3. m \in gone => k # 1
        BY <1>1, <4>2
      <4>4. id'[j] = i /\ Active(j)' /\ (m \in gone' => local'[1] = m /\ ThreadAt(1)' \in Locking)
        BY <1>1, <2>2, <2>6, <4>2, <4>3, Actors
      <4>5. Active(values[i][m])' <=> Active(j)'
        BY <4>1 DEF Active, WatcherAt
      <4> QED
        BY <4>1, <4>4, <4>5
    <3>3. \A i \in Ids : i \in registered' <=> \E j \in Thread : id'[j] = i /\ Active(j)'
      BY <1>1, <2>1, <2>6 DEF Registry
    <3>4. \A j, n \in Thread : KeepsId(j)' /\ KeepsId(n)' /\ id'[j] = id'[n] => j = n
      BY <1>1, <3>1 DEF Registry
    <3> QED
      BY <3>2, <3>3, <3>4 DEF Registry
  <2>10. Fates'
    <3>1. \A j \in Thread : ThreadAt(j) = "exited" => ThreadAt(j)' = "exited"
      BY <1>1, <2>2
    <3>2. \A b \in Actor : step[b] \in Leaving => step'[b] \in Leaving
      BY <1>2, <2>3 DEF Leaving
    <3> QED
      BY <1>1, <3>1, <3>2, FatesFrame
  <2> QED
    BY <2>5, <2>7, <2>8, <2>9, <2>10
<1>6. CASE id[k] \notin registered
  <2>1. /\ registered' = registered \cup {id[k]} /\ handles' = handles \cup {<<"watcher", k>>}
        /\ step' = [step EXCEPT ![<<"thread", k>>] = "wait", ![<<"watcher", k>>] = "start"]
    BY <1>6 DEF StartWatcher
  <2>2. PICK w \in Actor \ {a} : w = <<"watcher", k>>
    BY <1>2, Actors
  <2>3. /\ step'[a] = "wait" /\ step'[w] = "start"
        /\ \A b \in Actor \ {a, w} : step'[b] = step[b]
    BY <1>2, <2>1, <2>2 DEF ThreadsTypeOK
  <2>4. WatcherAt(k) = "none" /\ step[w] = "none" /\ ~Active(k)
    <3>1. id[k] \in Ids
      BY DEF ThreadsTypeOK
    <3>2. ~Active(k)
      BY <1>6, <3>1 DEF Registry
    <3> QED
      BY <1>4, <2>2, <3>2 DEF Active, WatcherAt
  <2>5. /\ ThreadAt(k)' = "wait" /\ WatcherAt(k)' = "start"
        /\ \A j \in Thread \ {k} : ThreadAt(j)' = ThreadAt(j) /\ WatcherAt(j)' = WatcherAt(j)
    <3>1. \A j \in Thread \ {k} : /\ <<"thread", j>> \in Actor \ {a, w}
                                 /\ <<"watcher", j>> \in Actor \ {a, w}
      BY <1>2, <2>2, Actors
    <3> QED
      BY <1>2, <2>2, <2>3, <3>1 DEF ThreadAt, WatcherAt
  <2>6. MutexInv'
    BY <1>1, <1>2, <2>3, <2>4, MutexFrame DEF Owning, Inside
  <2>7. /\ \A j \in Thread : Alive(j)' <=> Alive(j)
        /\ \A j \in Thread \ {k} : Active(j)' <=> Active(j)
        /\ Active(k)'
    BY <1>1, <2>5 DEF Alive, Active, ThreadAt
  <2>8. Places'
    BY <1>1, <2>1, <2>5, Actors DEF Places, Locking, Leaving
  <2>9. Locals'
    BY <1>1, <2>5, <2>7, Actors DEF Locals, Locking, Leaving
  <2>10. Registry'
    <3>1. \A j \in Thread : KeepsId(j)' => KeepsId(j)
      BY <1>3, <2>1, <2>7, Actors DEF KeepsId
    <3>2. ASSUME NEW i \in Ids, NEW m \in Local, values[i][m]' # 0
          PROVE  (/\ id[values[i][m]] = i /\ Active(values[i][m])
                  /\ m \in gone => local[1] = m /\ ThreadAt(1) \in Locking)'
      <4>1. PICK j \in Thread : values[i][m] = j /\ values[i][m]' = j /\ j # 0
        BY <1>1, <3>2 DEF ThreadsTypeOK
      <4>2. id[j] = i /\ Active(j) /\ (m \in gone => local[1] = m /\ ThreadAt(1) \in Locking)
        BY <4>1 DEF Registry
      <4>3. m \in gone => k # 1
        BY <1>1, <4>2
      <4>4. id'[j] = i /\ Active(j)' /\ (m \in gone' => local'[1] = m /\ ThreadAt(1)' \in Locking)
        BY <1>1, <2>5, <2>7, <4>2, <4>3, Actors
      <4>5. Active(values[i][m])' <=> Active(j)'
        BY <4>1 DEF Active, WatcherAt
      <4> QED
        BY <4>1, <4>4, <4>5
    <3>3. \A i \in Ids : i \in registered' <=> \E j \in Thread : id'[j] = i /\ Active(j)'
      BY <1>1, <2>1, <2>4, <2>7 DEF Registry
    <3>4. \A j, n \in Thread : KeepsId(j)' /\ KeepsId(n)' /\ id'[j] = id'[n] => j = n
      BY <1>1, <3>1 DEF Registry
    <3> QED
      BY <3>2, <3>3, <3>4 DEF Registry
  <2>11. Fates'
    <3>1. \A j \in Thread : ThreadAt(j) = "exited" => ThreadAt(j)' = "exited"
      BY <1>1, <2>5
    <3>2. \A b \in Actor : step[b] \in Leaving => step'[b] \in Leaving
      BY <1>2, <2>3, <2>4 DEF Leaving
    <3> QED
      BY <1>1, <3>1, <3>2, FatesFrame
  <2> QED
    BY <2>6, <2>8, <2>9, <2>10, <2>11
<1> QED
  BY <1>5, <1>6

LEMMA WatcherStartedKeeps ==
  ASSUME ThreadsInv, NEW k \in Thread, WatcherStarted(k)
  PROVE  MutexInv' /\ Places' /\ Locals' /\ Registry' /\ Fates'
<1> USE DEF ThreadsInv, threadVars, valueVars, endVars
<1>1. /\ ThreadAt(k) = "wait" /\ WatcherAt(k) # "start" /\ Goes(<<"thread", k>>, "value")
      /\ UNCHANGED <<mutexVars, local, threadVars, valueVars, endVars>>
  BY DEF WatcherStarted, At, ThreadAt, WatcherAt
<1>2. /\ ThreadAt(k)' = "value"
      /\ \A j \in Thread \ {k} : ThreadAt(j)' = ThreadAt(j)
      /\ \A j \in Thread : WatcherAt(j)' = WatcherAt(j)
  BY <1>1, ThreadGoes
<1>3. PICK a \in Actor : a = <<"thread", k>> /\ step[a] = "wait" /\ step'[a] = "value"
  BY <1>1, <1>2, Actors DEF ThreadAt
<1>4. \A b \in Actor \ {a} : step'[b] = step[b]
  BY <1>1, <1>3, ActorGoes
<1>5. WatcherAt(k) = "watch"
  BY <1>1 DEF Places
<1>6. MutexInv'
  BY <1>1, <1>3, <1>4, MutexFrame DEF Owning
<1>7. \A j \in Thread : (Alive(j)' <=> Alive(j)) /\ (Active(j)' <=> Active(j))
  BY <1>1, <1>2 DEF Alive, Active, ThreadAt
<1>8. Places'
  BY <1>1, <1>2, <1>5, Actors DEF Places, Locking, Leaving
<1>9. Locals'
  BY <1>1, <1>2, <1>7, Actors DEF Locals, Locking, Leaving
<1>10. Registry'
  <2>1. \A j \in Thread : KeepsId(j)' => KeepsId(j)
    BY <1>1, <1>7 DEF KeepsId
  <2>2. ThreadAt(1) \in Locking => ThreadAt(1)' \in Locking
    BY <1>1, <1>2, Actors DEF Locking
  <2> QED
    BY <1>1, <1>7, <2>1, <2>2, RegistryFrame
<1>11. Fates'
  <2>1. \A j \in Thread : ThreadAt(j) = "exited" => ThreadAt(j)' = "exited"
    BY <1>1, <1>2
  <2>2. \A b \in Actor : step[b] \in Leaving => step'[b] \in Leaving
    BY <1>3, <1>4 DEF Leaving
  <2> QED
    BY <1>1, <2>1, <2>2, FatesFrame
<1> QED
  BY <1>6, <1>8, <1>9, <1>10, <1>11

\* The value under a thread's id, if there is one, is its own.
LEMMA GetValueKeeps ==
  ASSUME ThreadsInv, NEW k \in Thread, GetValue(k)
  PROVE  MutexInv' /\ Places' /\ Locals' /\ Registry' /\ Fates'
<1> USE DEF ThreadsInv, threadVars, endVars
<1>1. PICK i \in Ids, l \in Local : i = id[k] /\ l = local[k]
  BY DEF ThreadsTypeOK
<1>2. /\ ThreadAt(k) = "value" /\ Goes(<<"thread", k>>, "unlock")
      /\ UNCHANGED <<mutexVars, local, threadVars, registered, endVars>>
  BY DEF GetValue, At, ThreadAt
<1>3. WatcherAt(k) = "watch" /\ Active(k) /\ Alive(k) /\ KeepsId(k) /\ l \notin gone
  BY <1>1, <1>2 DEF Places, Locals, Active, Alive, KeepsId, ThreadAt
<1>4. values[i][l] \in {0, k}
  <2>1. ASSUME NEW j \in Thread, values[i][l] = j PROVE j = k
    <3>1. id[j] = i /\ Active(j)
      BY <2>1, Actors DEF Registry
    <3>2. KeepsId(j)
      BY <3>1 DEF KeepsId, Places, Active, Locking
    <3> QED
      BY <1>1, <1>3, <3>1, <3>2 DEF Registry
  <2> QED
    BY <2>1 DEF ThreadsTypeOK
<1>5. /\ values' = [values EXCEPT ![i][l] = k] /\ got' = [got EXCEPT ![k][l] = k]
  BY <1>1, <1>4 DEF GetValue
<1>6. /\ values'[i][l] = k
      /\ \A n \in Ids, m \in Local : n # i \/ m # l => values'[n][m] = values[n][m]
  BY <1>5 DEF ThreadsTypeOK
<1>7. /\ got'[k][l] = k
      /\ \A j \in Thread, m \in Local : j # k \/ m # l => got'[j][m] = got[j][m]
  BY <1>5 DEF ThreadsTypeOK
<1>8. /\ ThreadAt(k)' = "unlock"
      /\ \A j \in Thread \ {k} : ThreadAt(j)' = ThreadAt(j)
      /\ \A j \in Thread : WatcherAt(j)' = WatcherAt(j)
  BY <1>2, ThreadGoes
<1>9. PICK a \in Actor : a = <<"thread", k>> /\ step[a] = "value" /\ step'[a] = "unlock"
  BY <1>2, <1>8, Actors DEF ThreadAt
<1>10. \A b \in Actor \ {a} : step'[b] = step[b]
  BY <1>2, <1>9, ActorGoes
<1>11. MutexInv'
  BY <1>2, <1>9, <1>10, MutexFrame DEF Owning
<1>12. \A j \in Thread : (Alive(j)' <=> Alive(j)) /\ (Active(j)' <=> Active(j))
  BY <1>2, <1>8 DEF Alive, Active, ThreadAt
<1>13. Places'
  <2>1. \A j \in Thread \ {k}, m \in Local : got'[j][m] = got[j][m]
    BY <1>7
  <2> QED
    BY <1>2, <1>8, <2>1, Actors DEF Places, Locking, Leaving
<1>14. Locals'
  BY <1>2, <1>8, <1>12, Actors DEF Locals, Locking, Leaving
<1>15. Registry'
  <2>1. \A j \in Thread : KeepsId(j)' => KeepsId(j)
    BY <1>2, <1>12 DEF KeepsId
  <2>2. ASSUME NEW n \in Ids, NEW m \in Local, values[n][m]' # 0
        PROVE  (/\ id[values[n][m]] = n /\ Active(values[n][m])
                /\ m \in gone => local[1] = m /\ ThreadAt(1) \in Locking)'
    <3>1. CASE n = i /\ m = l
      <4>1. values[n][m]' = k
        BY <1>6, <3>1
      <4>2. Active(values[n][m])' <=> Active(k)'
        BY <4>1 DEF Active, WatcherAt
      <4> QED
        BY <1>1, <1>2, <1>3, <1>12, <3>1, <4>1, <4>2
    <3>2. CASE n # i \/ m # l
      <4>1. PICK j \in Thread : values[n][m] = j /\ values[n][m]' = j /\ j # 0
        BY <1>6, <2>2, <3>2 DEF ThreadsTypeOK
      <4>2. id[j] = n /\ Active(j) /\ (m \in gone => local[1] = m /\ ThreadAt(1) \in Locking)
        BY <4>1 DEF Registry
      <4>3. ThreadAt(1) \in Locking => ThreadAt(1)' \in Locking
        BY <1>2, <1>8, Actors DEF Locking
      <4>4. Active(values[n][m])' <=> Active(j)'
        BY <4>1 DEF Active, WatcherAt
      <4> QED
        BY <1>2, <1>12, <4>1, <4>2, <4>3, <4>4
    <3> QED
      BY <3>1, <3>2
  <2>3. \A n \in Ids : n \in registered' <=> \E j \in Thread : id'[j] = n /\ Active(j)'
    BY <1>2, <1>12 DEF Registry
  <2>4. \A j, n \in Thread : KeepsId(j)' /\ KeepsId(n)' /\ id'[j] = id'[n] => j = n
    BY <1>2, <2>1 DEF Registry
  <2> QED
    BY <2>2, <2>3, <2>4 DEF Registry
<1>16. Fates'
  <2>1. Has(k, l)'
    BY <1>1, <1>2, <1>6 DEF Has
  <2>2. \A j \in Thread, m \in Local : j # k \/ m # l => (Has(j, m)' <=> Has(j, m))
    <3> SUFFICES ASSUME NEW j \in Thread, NEW m \in Local, j # k \/ m # l
                 PROVE  Has(j, m)' <=> Has(j, m)
      OBVIOUS
    <3>1. id'[j] = id[j] /\ id[j] \in Ids
      BY <1>2 DEF ThreadsTypeOK
    <3>2. CASE id[j] # i \/ m # l
      BY <1>6, <3>1, <3>2 DEF Has
    <3>3. CASE id[j] = i /\ m = l
      BY <1>4, <1>6, <3>1, <3>3, Actors DEF Has
    <3> QED
      BY <3>2, <3>3
  <2>3. \A j \in Thread, m \in Local : Final(j, m) => Final(j, m)'
    BY <1>2, <1>8 DEF Final
  <2>4. ~Final(k, l)
    BY <1>2, <1>3 DEF Final
  <2>5. \A b \in Actor : doomed'[b] # {} => step'[b] \in Leaving
    BY <1>2, <1>9, <1>10 DEF Fates, Leaving
  <2>6. <<k, l>> \notin destroyed /\ \A b \in Actor : <<k, l>> \notin doomed[b]
    BY <2>4 DEF Fates
  <2>7. ASSUME NEW j \in Thread, NEW m \in Local
        PROVE (/\ got[j][m] \in {0, j}
               /\ Has(j, m) => got[j][m] = j
               /\ got[j][m] # 0 =>
                    <<j, m>> \in destroyed \/ Has(j, m) \/ \E b \in Actor : <<j, m>> \in doomed[b]
               /\ <<j, m>> \in destroyed => ~Has(j, m) /\ Final(j, m)
               /\ \A b \in Actor : <<j, m>> \in doomed[b] =>
                    /\ <<j, m>> \notin destroyed /\ ~Has(j, m) /\ Final(j, m)
                    /\ \A c \in Actor \ {b} : <<j, m>> \notin doomed[c])'
    <3>1. CASE j = k /\ m = l
      BY <1>2, <1>7, <2>1, <2>6, <3>1
    <3>2. CASE j # k \/ m # l
      BY <1>2, <1>7, <2>2, <2>3, <3>2 DEF Fates
    <3> QED
      BY <3>1, <3>2
  <2> QED
    BY <1>2, <2>5, <2>7 DEF Fates
<1> QED
  BY <1>11, <1>13, <1>14, <1>15, <1>16

-----------------------------------------------------------------------------
(* GTestThreads: the watchers, and the end of values                       *)

\* Steps of a watcher that leave the map alone.
LEMMA WatcherFrame ==
  ASSUME ThreadsInv, NEW k \in Thread, NEW s, Goes(<<"watcher", k>>, s),
         \/ WatcherAt(k) = "start" /\ s = "watch" /\ UNCHANGED handles
         \/ /\ WatcherAt(k) = "watch" /\ s = "exchange" /\ ThreadAt(k) = "exited"
            /\ UNCHANGED handles
         \/ WatcherAt(k) = "close" /\ s = "over" /\ handles' = handles \ {<<"watcher", k>>},
         UNCHANGED <<mutexVars, local, id, notified, valueVars, endVars>>
  PROVE  MutexInv' /\ Places' /\ Locals' /\ Registry' /\ Fates'
<1> USE DEF ThreadsInv, valueVars, endVars
<1>1. /\ WatcherAt(k)' = s
      /\ \A j \in Thread \ {k} : WatcherAt(j)' = WatcherAt(j)
      /\ \A j \in Thread : ThreadAt(j)' = ThreadAt(j)
  BY WatcherGoes
<1>2. PICK a \in Actor : a = <<"watcher", k>> /\ step[a] \in {"start", "watch", "close"} /\ step'[a] = s
  BY <1>1, Actors DEF WatcherAt
<1>3. \A b \in Actor \ {a} : step'[b] = step[b]
  BY <1>2, ActorGoes
<1>4. s \in {"watch", "exchange", "over"}
  OBVIOUS
<1>5. MutexInv'
  BY <1>2, <1>3, <1>4, MutexFrame DEF Inside, Owning
<1>6. \A j \in Thread : (Alive(j)' <=> Alive(j)) /\ (Active(j)' <=> Active(j))
  BY <1>1 DEF Alive, Active, ThreadAt, Locking
<1>7. \A who \in {"parent", "watcher"}, j \in Thread :
        /\ <<who, j>> \in handles' => <<who, j>> \in handles
        /\ j # k => (<<who, j>> \in handles' <=> <<who, j>> \in handles)
        /\ s # "over" => (<<who, j>> \in handles' <=> <<who, j>> \in handles)
  OBVIOUS
<1>8. Places'
  BY <1>1, <1>7, Actors DEF Places, Locking, Leaving
<1>9. Locals'
  BY <1>1, <1>6, Actors DEF Locals
<1>10. Registry'
  <2>1. \A j \in Thread : KeepsId(j)' => KeepsId(j)
    BY <1>6, <1>7 DEF KeepsId
  <2> QED
    BY <1>1, <1>6, <2>1, Actors, RegistryFrame
<1>11. Fates'
  <2>1. \A b \in Actor : step[b] \in Leaving => step'[b] \in Leaving
    BY <1>2, <1>3 DEF Leaving
  <2> QED
    BY <1>1, <2>1, FatesFrame
<1> QED
  BY <1>5, <1>8, <1>9, <1>10, <1>11

LEMMA WatcherKeeps ==
  ASSUME ThreadsInv, NEW k \in Thread,
         WatcherNotify(k) \/ WaitForSingleObject(k) \/ CloseHandle(k)
  PROVE  MutexInv' /\ Places' /\ Locals' /\ Registry' /\ Fates'
<1>1. CASE WatcherNotify(k)
  BY <1>1, WatcherFrame DEF WatcherNotify, At, WatcherAt, threadVars
<1>2. CASE WaitForSingleObject(k)
  BY <1>2, WatcherFrame DEF WaitForSingleObject, At, WatcherAt, ThreadAt, threadVars
<1>3. CASE CloseHandle(k)
  BY <1>3, WatcherFrame DEF CloseHandle, At, WatcherAt
<1> QED
  BY <1>1, <1>2, <1>3

\* The watcher takes its thread's values out of the map, and no other's.
LEMMA OnThreadExitKeeps ==
  ASSUME ThreadsInv, NEW k \in Thread, OnThreadExit(k)
  PROVE  MutexInv' /\ Places' /\ Locals' /\ Registry' /\ Fates'
<1> USE DEF ThreadsInv, threadVars
<1>1. PICK i \in Ids, w \in Actor : i = id[k] /\ w = <<"watcher", k>>
  BY Actors DEF ThreadsTypeOK
<1>2. /\ WatcherAt(k) = "held" /\ step[w] = "held" /\ Goes(<<"watcher", k>>, "unlock")
      /\ registered' = registered \ {i} /\ values' = [values EXCEPT ![i] = [l \in Local |-> 0]]
      /\ doomed' = [doomed EXCEPT ![w] = {v \in Value : values[i][v[2]] = v[1]}]
      /\ UNCHANGED <<mutexVars, local, threadVars, got, destroyed, gone>>
  BY <1>1 DEF OnThreadExit, At, WatcherAt
<1>3. /\ WatcherAt(k)' = "unlock"
      /\ \A j \in Thread \ {k} : WatcherAt(j)' = WatcherAt(j)
      /\ \A j \in Thread : ThreadAt(j)' = ThreadAt(j)
  BY <1>2, WatcherGoes
<1>4. step'[w] = "unlock" /\ \A b \in Actor \ {w} : step'[b] = step[b]
  BY <1>1, <1>2, ActorGoes
<1>5. /\ Active(k) /\ KeepsId(k) /\ ThreadAt(k) = "exited" /\ ~Active(k)'
      /\ \A j \in Thread : Alive(j)' <=> Alive(j)
      /\ \A j \in Thread \ {k} : Active(j)' <=> Active(j)
  BY <1>2, <1>3 DEF Active, KeepsId, Alive, ThreadAt, Locking, Places
<1>6. ASSUME NEW j \in Thread, Active(j), id[j] = i PROVE j = k
  <2>1. KeepsId(j)
    BY <1>6 DEF KeepsId, Places, Active, Locking
  <2> QED
    BY <1>1, <1>5, <1>6, <2>1 DEF Registry
<1>7. /\ \A l \in Local : values'[i][l] = 0
      /\ \A n \in Ids \ {i} : values'[n] = values[n]
  BY <1>2 DEF ThreadsTypeOK
<1>8. MutexInv'
  BY <1>2, <1>4, MutexFrame DEF Owning
<1>9. Places'
  BY <1>2, <1>3, <1>5, Actors DEF Places, Locking, Leaving
<1>10. Locals'
  BY <1>2, <1>3, <1>5, Actors DEF Locals
<1>11. Registry'
  <2>1. \A j \in Thread : KeepsId(j)' => KeepsId(j)
    BY <1>2, <1>5 DEF KeepsId
  <2>2. ASSUME NEW n \in Ids, NEW m \in Local, values[n][m]' # 0
        PROVE  (/\ id[values[n][m]] = n /\ Active(values[n][m])
                /\ m \in gone => local[1] = m /\ ThreadAt(1) \in Locking)'
    <3>1. n # i
      BY <1>7, <2>2
    <3>2. PICK j \in Thread : values[n][m] = j /\ values[n][m]' = j /\ j # 0
      BY <1>7, <2>2, <3>1 DEF ThreadsTypeOK
    <3>3. id[j] = n /\ Active(j) /\ (m \in gone => local[1] = m /\ ThreadAt(1) \in Locking)
      BY <3>2 DEF Registry
    <3>4. j # k
      BY <1>1, <3>1, <3>3
    <3>5. Active(values[n][m])' <=> Active(j)'
      BY <3>2 DEF Active, WatcherAt
    <3> QED
      BY <1>2, <1>3, <1>5, <3>2, <3>3, <3>4, <3>5, Actors
  <2>3. ASSUME NEW n \in Ids
        PROVE  n \in registered' <=> \E j \in Thread : id'[j] = n /\ Active(j)'
    <3>1. CASE n = i
      BY <1>2, <1>5, <1>6, <3>1
    <3>2. CASE n # i
      <4>1. n \in registered <=> \E j \in Thread : id[j] = n /\ Active(j)
        BY DEF Registry
      <4> QED
        BY <1>1, <1>2, <1>5, <3>2, <4>1
    <3> QED
      BY <3>1, <3>2
  <2>4. \A j, n \in Thread : KeepsId(j)' /\ KeepsId(n)' /\ id'[j] = id'[n] => j = n
    BY <1>2, <2>1 DEF Registry
  <2> QED
    BY <2>2, <2>3, <2>4 DEF Registry
<1>12. Fates'
  <2>1. \A m \in Local : ~Has(k, m)'
    BY <1>1, <1>2, <1>7, Actors DEF Has
  <2>2. ASSUME NEW j \in Thread \ {k}, NEW m \in Local PROVE Has(j, m)' <=> Has(j, m)
    <3>1. id'[j] = id[j] /\ id[j] \in Ids
      BY <1>2 DEF ThreadsTypeOK
    <3>2. CASE id[j] # i
      BY <1>7, <3>1, <3>2 DEF Has
    <3>3. CASE id[j] = i
      <4>1. values[i][m] # j
        BY <1>6, <3>3, Actors DEF Registry
      <4> QED
        BY <1>7, <3>1, <3>3, <4>1, Actors DEF Has
    <3> QED
      BY <3>2, <3>3
  <2>3. doomed[w] = {}
    BY <1>2 DEF Fates, Leaving
  <2>4. /\ \A m \in Local : <<k, m>> \in doomed'[w] <=> Has(k, m)
        /\ \A j \in Thread \ {k}, m \in Local : <<j, m>> \notin doomed'[w]
    <3>1. doomed'[w] = {v \in Value : values[i][v[2]] = v[1]}
      BY <1>2 DEF ThreadsTypeOK
    <3>2. \A j \in Thread, m \in Local : <<j, m>> \in doomed'[w] <=> values[i][m] = j
      BY <3>1, ValuePairs
    <3>3. ASSUME NEW j \in Thread, NEW m \in Local, values[i][m] = j PROVE j = k
      <4>1. id[j] = i /\ Active(j)
        BY <3>3, Actors DEF Registry
      <4> QED
        BY <1>6, <4>1
    <3> QED
      BY <1>1, <3>2, <3>3 DEF Has
  <2>5. \A b \in Actor \ {w} : doomed'[b] = doomed[b]
    BY <1>2 DEF ThreadsTypeOK
  <2>6. \A j \in Thread, m \in Local : Final(j, m)' <=> Final(j, m)
    BY <1>2, <1>3 DEF Final
  <2>7. \A b \in Actor : doomed'[b] # {} => step'[b] \in Leaving
    BY <1>4, <2>5 DEF Fates, Leaving
  <2>8. /\ \A v \in doomed'[Main] : v[2] = local'[1] /\ local'[1] \in gone'
        /\ \A j \in Thread \ {1} : doomed'[<<"thread", j>>] = {}
    BY <1>1, <1>2, <2>5, Actors DEF Fates
  <2>9. ASSUME NEW j \in Thread, NEW m \in Local
        PROVE (/\ got[j][m] \in {0, j}
               /\ Has(j, m) => got[j][m] = j
               /\ got[j][m] # 0 =>
                    <<j, m>> \in destroyed \/ Has(j, m) \/ \E b \in Actor : <<j, m>> \in doomed[b]
               /\ <<j, m>> \in destroyed => ~Has(j, m) /\ Final(j, m)
               /\ \A b \in Actor : <<j, m>> \in doomed[b] =>
                    /\ <<j, m>> \notin destroyed /\ ~Has(j, m) /\ Final(j, m)
                    /\ \A c \in Actor \ {b} : <<j, m>> \notin doomed[c])'
    <3>1. CASE j # k
      <4>1. \A b \in Actor : <<j, m>> \in doomed'[b] <=> <<j, m>> \in doomed[b]
        BY <2>3, <2>4, <2>5, <3>1
      <4>2. Has(j, m)' <=> Has(j, m)
        BY <2>2, <3>1
      <4> QED
        BY <1>2, <2>6, <4>1, <4>2 DEF Fates
    <3>2. CASE j = k
      <4>1. ~Has(k, m)' /\ Final(k, m)'
        BY <1>5, <2>1, <2>6 DEF Final
      <4>2. CASE Has(k, m)
        <5>1. <<k, m>> \notin destroyed /\ \A b \in Actor : <<k, m>> \notin doomed[b]
          BY <4>2 DEF Fates
        <5>2. <<k, m>> \in doomed'[w] /\ \A b \in Actor \ {w} : <<k, m>> \notin doomed'[b]
          BY <2>4, <2>5, <4>2, <5>1
        <5>3. got[k][m] \in {0, k}
          BY DEF Fates
        <5> QED
          BY <1>2, <3>2, <4>1, <5>1, <5>2, <5>3
      <4>3. CASE ~Has(k, m)
        <5>1. \A b \in Actor : <<k, m>> \in doomed'[b] <=> <<k, m>> \in doomed[b]
          BY <2>3, <2>4, <2>5, <4>3
        <5>2. /\ got[k][m] \in {0, k}
              /\ got[k][m] # 0 => <<k, m>> \in destroyed \/ \E b \in Actor : <<k, m>> \in doomed[b]
              /\ \A b \in Actor : <<k, m>> \in doomed[b] =>
                   /\ <<k, m>> \notin destroyed
                   /\ \A c \in Actor \ {b} : <<k, m>> \notin doomed[c]
          BY <4>3 DEF Fates
        <5> QED
          BY <1>2, <3>2, <4>1, <5>1, <5>2
      <4> QED
        BY <4>2, <4>3
    <3> QED
      BY <3>1, <3>2
  <2> QED
    BY <2>7, <2>8, <2>9 DEF Fates
<1> QED
  BY <1>8, <1>9, <1>10, <1>11, <1>12

\* The main thread takes the values of a ThreadLocal out of the map, whoever's.
LEMMA OnThreadLocalDestroyedKeeps ==
  ASSUME ThreadsInv, OnThreadLocalDestroyed
  PROVE  MutexInv' /\ Places' /\ Locals' /\ Registry' /\ Fates'
<1> USE DEF ThreadsInv, threadVars
<1>1. PICK l \in Local : l = local[1] /\ l \in gone
  BY Actors DEF OnThreadLocalDestroyed, ThreadsTypeOK
<1>2. /\ ThreadAt(1) = "held" /\ step[Main] = "held" /\ Goes(Main, "unlock")
      /\ values' = [n \in Ids |-> [values[n] EXCEPT ![l] = 0]]
      /\ doomed' = [doomed EXCEPT ![Main] =
                      {v \in Value : v[2] = l /\ \E n \in Ids : values[n][v[2]] = v[1]}]
      /\ UNCHANGED <<mutexVars, local, threadVars, registered, got, destroyed, gone>>
  BY <1>1 DEF OnThreadLocalDestroyed, At, ThreadAt, Main
<1>3. /\ ThreadAt(1)' = "unlock"
      /\ \A j \in Thread \ {1} : ThreadAt(j)' = ThreadAt(j)
      /\ \A j \in Thread : WatcherAt(j)' = WatcherAt(j)
  BY <1>2, ThreadGoes, Actors
<1>4. step'[Main] = "unlock" /\ \A b \in Actor \ {Main} : step'[b] = step[b]
  BY <1>2, ActorGoes, Actors
<1>5. \A j \in Thread : (Alive(j)' <=> Alive(j)) /\ (Active(j)' <=> Active(j))
  BY <1>2, <1>3 DEF Alive, Active, ThreadAt
<1>6. /\ \A n \in Ids : values'[n][l] = 0
      /\ \A n \in Ids, m \in Local \ {l} : values'[n][m] = values[n][m]
  BY <1>2 DEF ThreadsTypeOK
<1>7. MutexInv'
  BY <1>2, <1>4, MutexFrame DEF Owning
<1>8. Places'
  BY <1>2, <1>3, Actors DEF Places, Locking, Leaving
<1>9. Locals'
  BY <1>2, <1>3, <1>5, Actors DEF Locals, Locking, Leaving
<1>10. Registry'
  <2>1. \A j \in Thread : KeepsId(j)' => KeepsId(j)
    BY <1>2, <1>5 DEF KeepsId
  <2>2. ASSUME NEW n \in Ids, NEW m \in Local, values[n][m]' # 0
        PROVE  (/\ id[values[n][m]] = n /\ Active(values[n][m])
                /\ m \in gone => local[1] = m /\ ThreadAt(1) \in Locking)'
    <3>1. m # l
      BY <1>6, <2>2
    <3>2. PICK j \in Thread : values[n][m] = j /\ values[n][m]' = j /\ j # 0
      BY <1>6, <2>2, <3>1 DEF ThreadsTypeOK
    <3>3. id[j] = n /\ Active(j) /\ m \notin gone
      BY <1>1, <3>1, <3>2 DEF Registry
    <3>5. Active(values[n][m])' <=> Active(j)'
      BY <3>2 DEF Active, WatcherAt
    <3> QED
      BY <1>2, <1>5, <3>2, <3>3, <3>5
  <2>3. \A n \in Ids : n \in registered' <=> \E j \in Thread : id'[j] = n /\ Active(j)'
    BY <1>2, <1>5 DEF Registry
  <2>4. \A j, n \in Thread : KeepsId(j)' /\ KeepsId(n)' /\ id'[j] = id'[n] => j = n
    BY <1>2, <2>1 DEF Registry
  <2> QED
    BY <2>2, <2>3, <2>4 DEF Registry
<1>11. Fates'
  <2>1. \A j \in Thread : ~Has(j, l)'
    BY <1>2, <1>6, Actors DEF Has, ThreadsTypeOK
  <2>2. \A j \in Thread, m \in Local \ {l} : Has(j, m)' <=> Has(j, m)
    BY <1>2, <1>6 DEF Has, ThreadsTypeOK
  <2>3. doomed[Main] = {}
    BY <1>2, Actors DEF Fates, Leaving
  <2>4. \A j \in Thread, m \in Local : <<j, m>> \in doomed'[Main] <=> m = l /\ Has(j, m)
    <3>1. doomed'[Main] = {v \in Value : v[2] = l /\ \E n \in Ids : values[n][v[2]] = v[1]}
      BY <1>2, Actors DEF ThreadsTypeOK
    <3>2. \A j \in Thread, m \in Local :
            <<j, m>> \in doomed'[Main] <=> m = l /\ \E n \in Ids : values[n][m] = j
      BY <3>1, ValuePairs
    <3>3. \A j \in Thread, m \in Local, n \in Ids : values[n][m] = j => id[j] = n
      BY Actors DEF Registry
    <3>4. \A j \in Thread : id[j] \in Ids
      BY DEF ThreadsTypeOK
    <3>5. \A j \in Thread, m \in Local : (\E n \in Ids : values[n][m] = j) <=> values[id[j]][m] = j
      BY <3>3, <3>4
    <3> QED
      BY <3>2, <3>5 DEF Has
  <2>5. \A b \in Actor \ {Main} : doomed'[b] = doomed[b]
    BY <1>2 DEF ThreadsTypeOK
  <2>6. \A j \in Thread, m \in Local : Final(j, m) => Final(j, m)'
    BY <1>2, <1>3 DEF Final
  <2>7. \A b \in Actor : doomed'[b] # {} => step'[b] \in Leaving
    BY <1>4, <2>5 DEF Fates, Leaving
  <2>8. /\ \A v \in doomed'[Main] : v[2] = local'[1] /\ local'[1] \in gone'
        /\ \A j \in Thread \ {1} : doomed'[<<"thread", j>>] = {}
    <3>1. \A v \in doomed'[Main] : v[2] = l
      BY <1>2, Actors DEF ThreadsTypeOK
    <3> QED
      BY <1>1, <1>2, <2>5, <3>1, Actors DEF Fates
  <2>9. ASSUME NEW j \in Thread, NEW m \in Local
        PROVE (/\ got[j][m] \in {0, j}
               /\ Has(j, m) => got[j][m] = j
               /\ got[j][m] # 0 =>
                    <<j, m>> \in destroyed \/ Has(j, m) \/ \E b \in Actor : <<j, m>> \in doomed[b]
               /\ <<j, m>> \in destroyed => ~Has(j, m) /\ Final(j, m)
               /\ \A b \in Actor : <<j, m>> \in doomed[b] =>
                    /\ <<j, m>> \notin destroyed /\ ~Has(j, m) /\ Final(j, m)
                    /\ \A c \in Actor \ {b} : <<j, m>> \notin doomed[c])'
    <3>1. CASE m # l
      <4>1. \A b \in Actor : <<j, m>> \in doomed'[b] <=> <<j, m>> \in doomed[b]
        BY <2>3, <2>4, <2>5, <3>1
      <4>2. Has(j, m)' <=> Has(j, m)
        BY <2>2, <3>1
      <4> QED
        BY <1>2, <2>6, <4>1, <4>2 DEF Fates
    <3>2. CASE m = l
      <4>1. ~Has(j, l)' /\ Final(j, l)'
        BY <1>1, <1>2, <2>1 DEF Final
      <4>2. CASE Has(j, l)
        <5>1. <<j, l>> \notin destroyed /\ \A b \in Actor : <<j, l>> \notin doomed[b]
          BY <4>2 DEF Fates
        <5>2. <<j, l>> \in doomed'[Main] /\ \A b \in Actor \ {Main} : <<j, l>> \notin doomed'[b]
          BY <2>4, <2>5, <4>2, <5>1
        <5>3. got[j][l] \in {0, j}
          BY DEF Fates
        <5> QED
          BY <1>2, <3>2, <4>1, <5>1, <5>2, <5>3, Actors
      <4>3. CASE ~Has(j, l)
        <5>1. \A b \in Actor : <<j, l>> \in doomed'[b] <=> <<j, l>> \in doomed[b]
          BY <2>3, <2>4, <2>5, <4>3
        <5>2. /\ got[j][l] \in {0, j}
              /\ got[j][l] # 0 => <<j, l>> \in destroyed \/ \E b \in Actor : <<j, l>> \in doomed[b]
              /\ \A b \in Actor : <<j, l>> \in doomed[b] =>
                   /\ <<j, l>> \notin destroyed
                   /\ \A c \in Actor \ {b} : <<j, l>> \notin doomed[c]
          BY <4>3 DEF Fates
        <5> QED
          BY <1>2, <3>2, <4>1, <5>1, <5>2
      <4> QED
        BY <4>2, <4>3
    <3> QED
      BY <3>1, <3>2
  <2> QED
    BY <2>7, <2>8, <2>9 DEF Fates
<1> QED
  BY <1>7, <1>8, <1>9, <1>10, <1>11

\* An actor destroys what it took out of the map.
LEMMA DestroyValuesKeeps ==
  ASSUME ThreadsInv, NEW a \in Actor, DestroyValues(a)
  PROVE  MutexInv' /\ Places' /\ Locals' /\ Registry' /\ Fates'
<1> USE DEF ThreadsInv, threadVars, valueVars
<1> DEFINE s == IF a = Main THEN "idle" ELSE "close"
<1>1. /\ step[a] = "destroy" /\ Goes(a, s)
      /\ destroyed' = destroyed \cup doomed[a] /\ doomed' = [doomed EXCEPT ![a] = {}]
      /\ UNCHANGED <<mutexVars, local, threadVars, valueVars, gone>>
  BY DEF DestroyValues, At
<1>2. step'[a] = s /\ \A b \in Actor \ {a} : step'[b] = step[b]
  BY <1>1, ActorGoes
<1>3. MutexInv'
  BY <1>1, <1>2, MutexFrame DEF Inside, Owning
<1>4. Places' /\ Locals' /\ Registry'
  <2>1. CASE a = Main
    <3>1. /\ ThreadAt(1) = "destroy" /\ ThreadAt(1)' = "idle"
          /\ \A j \in Thread \ {1} : ThreadAt(j)' = ThreadAt(j)
          /\ \A j \in Thread : WatcherAt(j)' = WatcherAt(j)
      BY <1>1, <2>1, ThreadGoes, Actors DEF ThreadAt
    <3>2. \A j \in Thread : (Alive(j)' <=> Alive(j)) /\ (Active(j)' <=> Active(j))
      BY <3>1 DEF Alive, Active, ThreadAt
    <3>3. \A j \in Thread : KeepsId(j)' => KeepsId(j)
      BY <1>1, <3>2 DEF KeepsId
    <3>4. Places'
      BY <1>1, <3>1, Actors DEF Places, Locking, Leaving
    <3>5. Locals'
      BY <1>1, <3>1, <3>2, Actors DEF Locals, Locking, Leaving
    <3>6. Registry'
      <4>1. ThreadAt(1) \notin Locking
        BY <3>1 DEF Locking
      <4> QED
        BY <1>1, <3>2, <3>3, <4>1, RegistryFrame
    <3> QED
      BY <3>4, <3>5, <3>6
  <2>2. CASE a # Main
    <3>1. PICK k \in Thread : a = <<"watcher", k>>
      <4>1. ASSUME NEW k \in Thread, a = <<"thread", k>> PROVE FALSE
        BY <1>1, <2>2, <4>1, Actors DEF Locals, ThreadAt, Leaving
      <4> QED
        BY <4>1, Actors
    <3>2. /\ WatcherAt(k) = "destroy" /\ WatcherAt(k)' = "close"
          /\ \A j \in Thread \ {k} : WatcherAt(j)' = WatcherAt(j)
          /\ \A j \in Thread : ThreadAt(j)' = ThreadAt(j)
      BY <1>1, <2>2, <3>1, WatcherGoes DEF WatcherAt
    <3>3. \A j \in Thread : (Alive(j)' <=> Alive(j)) /\ (Active(j)' <=> Active(j))
      BY <3>2 DEF Alive, Active, ThreadAt, Locking
    <3>4. \A j \in Thread : KeepsId(j)' => KeepsId(j)
      BY <1>1, <3>3 DEF KeepsId
    <3>5. Places'
      BY <1>1, <3>2, Actors DEF Places, Locking, Leaving
    <3>6. Locals'
      BY <1>1, <3>2, <3>3, Actors DEF Locals
    <3>7. Registry'
      BY <1>1, <3>2, <3>3, <3>4, Actors, RegistryFrame
    <3> QED
      BY <3>5, <3>6, <3>7
  <2> QED
    BY <2>1, <2>2
<1>5. Fates'
  <2>1. \A j \in Thread, m \in Local : Has(j, m)' <=> Has(j, m)
    BY <1>1 DEF Has
  <2>2. \A j \in Thread, m \in Local : Final(j, m) => Final(j, m)'
    <3>1. \A j \in Thread : ThreadAt(j) = "exited" => ThreadAt(j)' = "exited"
      BY <1>1, <1>2, Actors DEF ThreadAt
    <3> QED
      BY <1>1, <3>1 DEF Final
  <2>3. doomed'[a] = {} /\ \A b \in Actor \ {a} : doomed'[b] = doomed[b]
    BY <1>1 DEF ThreadsTypeOK
  <2>4. \A b \in Actor : doomed'[b] # {} => step'[b] \in Leaving
    BY <1>2, <2>3 DEF Fates
  <2>5. /\ \A v \in doomed'[Main] : v[2] = local'[1] /\ local'[1] \in gone'
        /\ \A j \in Thread \ {1} : doomed'[<<"thread", j>>] = {}
    BY <1>1, <2>3, Actors DEF Fates
  <2>6. ASSUME NEW j \in Thread, NEW m \in Local
        PROVE (/\ got[j][m] \in {0, j}
               /\ Has(j, m) => got[j][m] = j
               /\ got[j][m] # 0 =>
                    <<j, m>> \in destroyed \/ Has(j, m) \/ \E b \in Actor : <<j, m>> \in doomed[b]
               /\ <<j, m>> \in destroyed => ~Has(j, m) /\ Final(j, m)
               /\ \A b \in Actor : <<j, m>> \in doomed[b] =>
                    /\ <<j, m>> \notin destroyed /\ ~Has(j, m) /\ Final(j, m)
                    /\ \A c \in Actor \ {b} : <<j, m>> \notin doomed[c])'
    <3>1. /\ got[j][m] \in {0, j}
          /\ Has(j, m) => got[j][m] = j
          /\ got[j][m] # 0 =>
               <<j, m>> \in destroyed \/ Has(j, m) \/ \E b \in Actor : <<j, m>> \in doomed[b]
          /\ <<j, m>> \in destroyed => ~Has(j, m) /\ Final(j, m)
          /\ \A b \in Actor : <<j, m>> \in doomed[b] =>
               /\ <<j, m>> \notin destroyed /\ ~Has(j, m) /\ Final(j, m)
               /\ \A c \in Actor \ {b} : <<j, m>> \notin doomed[c]
      BY DEF Fates
    <3>2. CASE <<j, m>> \in doomed[a]
      <4>1. <<j, m>> \in destroyed' /\ \A b \in Actor : <<j, m>> \notin doomed'[b]
        BY <1>1, <2>3, <3>1, <3>2
      <4> QED
        BY <1>1, <2>1, <2>2, <3>1, <3>2, <4>1
    <3>3. CASE <<j, m>> \notin doomed[a]
      <4>1. /\ <<j, m>> \in destroyed' <=> <<j, m>> \in destroyed
            /\ \A b \in Actor : <<j, m>> \in doomed'[b] <=> <<j, m>> \in doomed[b]
        BY <1>1, <2>3, <3>3
      <4> QED
        BY <1>1, <2>1, <2>2, <3>1, <4>1
    <3> QED
      BY <3>2, <3>3
  <2> QED
    BY <2>4, <2>5, <2>6 DEF Fates
<1> QED
  BY <1>3, <1>4, <1>5

-----------------------------------------------------------------------------
(* GTestThreads: the theorem                                               *)

LEMMA ThreadsTypeStep == ThreadsTypeOK /\ ThreadsNext => ThreadsTypeOK'
<1> SUFFICES ASSUME ThreadsTypeOK, ThreadsNext PROVE ThreadsTypeOK'
  OBVIOUS
<1> USE DEF mutexVars, threadVars, valueVars, endVars
<1>1. ASSUME NEW a \in Actor,
             Exchange(a) \/ CreateSection(a) \/ Publish(a) \/ Spin(a) \/ Enter(a)
      PROVE  ThreadsTypeOK'
  <2>1. CASE Exchange(a)
    <3>1. phase \in {0, 1, 2}
      BY DEF ThreadsTypeOK
    <3>2. PICK s \in {"create", "spin", "enter"} : Goes(a, s)
      BY <2>1, <3>1 DEF Exchange
    <3>3. phase' \in 0 .. 2 /\ UNCHANGED <<section, owner, local, threadVars, valueVars, endVars>>
      BY <2>1, <3>1 DEF Exchange
    <3> QED
      BY <3>2, <3>3 DEF ThreadsTypeOK, Goes
  <2>2. CASE CreateSection(a)
    BY <2>2 DEF ThreadsTypeOK, CreateSection, Goes
  <2>3. CASE Publish(a)
    BY <2>3 DEF ThreadsTypeOK, Publish, Goes
  <2>4. CASE Spin(a)
    BY <2>4 DEF ThreadsTypeOK, Spin, Goes
  <2>5. CASE Enter(a)
    BY <2>5 DEF ThreadsTypeOK, Enter, Goes
  <2> QED
    BY <1>1, <2>1, <2>2, <2>3, <2>4, <2>5
<1>2. ASSUME NEW a \in Actor, Unlock(a) PROVE ThreadsTypeOK'
  BY <1>2 DEF ThreadsTypeOK, Unlock, Released, Goes
<1>3. ASSUME NEW a \in Actor, DestroyValues(a) PROVE ThreadsTypeOK'
  BY <1>3 DEF ThreadsTypeOK, DestroyValues, Goes
<1>4. ASSUME NEW k \in Thread, CreateThread(k) PROVE ThreadsTypeOK'
  <2>1. id' \in [Thread -> Ids] /\ handles' \subseteq {"parent", "watcher"} \X Thread
    BY <1>4 DEF ThreadsTypeOK, CreateThread
  <2> QED
    BY <1>4, <2>1 DEF ThreadsTypeOK, CreateThread, Goes
<1>5. ASSUME NEW k \in Thread, ThreadMain(k) \/ Exit(k) \/ Join(k) \/ WatcherStarted(k)
      PROVE  ThreadsTypeOK'
  BY <1>5 DEF ThreadsTypeOK, ThreadMain, Exit, Join, WatcherStarted, Goes
<1>6. ASSUME NEW k \in Thread, StartWatcher(k) PROVE ThreadsTypeOK'
  <2>1. registered' \subseteq Ids /\ handles' \subseteq {"parent", "watcher"} \X Thread
    BY <1>6 DEF ThreadsTypeOK, StartWatcher
  <2>2. \/ Goes(<<"thread", k>>, "value")
        \/ step' = [step EXCEPT ![<<"thread", k>>] = "wait", ![<<"watcher", k>>] = "start"]
    BY <1>6 DEF StartWatcher
  <2>3. step' \in [Actor -> {"none", "ready", "idle", "exited", "exchange", "create", "publish",
                        "spin", "enter", "held", "wait", "value", "unlock", "leave",
                        "destroy", "start", "watch", "close", "over"}]
    BY <2>2 DEF ThreadsTypeOK, Goes
  <2> QED
    BY <1>6, <2>1, <2>3 DEF ThreadsTypeOK, StartWatcher
<1>7. ASSUME NEW k \in Thread, GetValue(k) PROVE ThreadsTypeOK'
  <2>1. PICK i \in Ids, l \in Local, v \in Thread \cup {0} :
          /\ values' = [values EXCEPT ![i][l] = v] /\ got' = [got EXCEPT ![k][l] = v]
    <3>1. id[k] \in Ids /\ local[k] \in Local /\ values[id[k]][local[k]] \in Thread \cup {0}
      BY DEF ThreadsTypeOK
    <3> QED
      BY <1>7, <3>1 DEF GetValue
  <2>2. /\ values' \in [Ids -> [Local -> Thread \cup {0}]]
        /\ got' \in [Thread -> [Local -> Thread \cup {0}]]
    BY <2>1 DEF ThreadsTypeOK
  <2> QED
    BY <1>7, <2>2 DEF ThreadsTypeOK, GetValue, Goes
<1>8. ASSUME NEW k \in Thread, WatcherNotify(k) \/ WaitForSingleObject(k) \/ CloseHandle(k)
      PROVE  ThreadsTypeOK'
  BY <1>8 DEF ThreadsTypeOK, WatcherNotify, WaitForSingleObject, CloseHandle, Goes
<1>9. ASSUME NEW k \in Thread, OnThreadExit(k) PROVE ThreadsTypeOK'
  <2>1. /\ values' \in [Ids -> [Local -> Thread \cup {0}]] /\ doomed' \in [Actor -> SUBSET Value]
    BY <1>9 DEF ThreadsTypeOK, OnThreadExit
  <2> QED
    BY <1>9, <2>1 DEF ThreadsTypeOK, OnThreadExit, Goes
<1>10. ASSUME NEW k \in Thread, NEW l \in Local, Get(k, l) PROVE ThreadsTypeOK'
  BY <1>10 DEF ThreadsTypeOK, Get, Goes
<1>11. CASE Notify
  BY <1>11 DEF ThreadsTypeOK, Notify
<1>12. ASSUME NEW l \in Local, DestroyLocal(l) PROVE ThreadsTypeOK'
  BY <1>12 DEF ThreadsTypeOK, DestroyLocal, Goes
<1>13. CASE OnThreadLocalDestroyed
  <2>1. /\ values' \in [Ids -> [Local -> Thread \cup {0}]] /\ doomed' \in [Actor -> SUBSET Value]
    BY <1>13 DEF ThreadsTypeOK, OnThreadLocalDestroyed
  <2> QED
    BY <1>13, <2>1 DEF ThreadsTypeOK, OnThreadLocalDestroyed, Goes
<1> QED
  BY <1>1, <1>2, <1>3, <1>4, <1>5, <1>6, <1>7, <1>8, <1>9, <1>10, <1>11, <1>12, <1>13
     DEF ThreadsNext

LEMMA ThreadsStep == ThreadsInv /\ [ThreadsNext]_threadsVars => ThreadsInv'
<1> SUFFICES ASSUME ThreadsInv, [ThreadsNext]_threadsVars PROVE ThreadsInv'
  OBVIOUS
<1>1. CASE UNCHANGED threadsVars
  <2> USE <1>1 DEF ThreadsInv, threadsVars, mutexVars, threadVars, valueVars, endVars
  <2>1. ThreadsTypeOK' /\ MutexInv'
    BY DEF ThreadsTypeOK, MutexInv
  <2>2. \A k : ThreadAt(k)' = ThreadAt(k) /\ WatcherAt(k)' = WatcherAt(k)
    BY DEF ThreadAt, WatcherAt
  <2>3. \A k : (Alive(k)' <=> Alive(k)) /\ (Active(k)' <=> Active(k))
    BY <2>2 DEF Alive, Active
  <2>4. Places' /\ Locals'
    BY <2>2, <2>3 DEF Places, Locals
  <2>5. Registry'
    <3>1. \A k \in Thread : KeepsId(k)' => KeepsId(k)
      BY <2>3 DEF KeepsId
    <3> QED
      BY <2>2, <2>3, <3>1, RegistryFrame
  <2>6. Fates'
    BY <2>2, FatesFrame
  <2> QED
    BY <2>1, <2>4, <2>5, <2>6
<1>2. CASE ThreadsNext
  <2>1. ThreadsTypeOK'
    BY <1>2, ThreadsTypeStep DEF ThreadsInv
  <2>2. ASSUME NEW a \in Actor,
               \/ Exchange(a) \/ CreateSection(a) \/ Publish(a) \/ Spin(a) \/ Enter(a)
               \/ Unlock(a) \/ DestroyValues(a)
        PROVE  ThreadsInv'
    BY <2>1, <2>2, LockKeeps, UnlockKeeps, DestroyValuesKeeps DEF ThreadsInv
  <2>3. ASSUME NEW k \in Thread,
               \/ CreateThread(k) \/ ThreadMain(k) \/ Exit(k) \/ Join(k)
               \/ StartWatcher(k) \/ WatcherStarted(k) \/ GetValue(k)
               \/ WatcherNotify(k) \/ WaitForSingleObject(k) \/ OnThreadExit(k) \/ CloseHandle(k)
               \/ \E l \in Local : Get(k, l)
        PROVE  MutexInv' /\ Places' /\ Locals' /\ Registry' /\ Fates'
    BY <2>3, CreateThreadKeeps, ThreadKeeps, JoinKeeps, StartWatcherKeeps, WatcherStartedKeeps,
       GetValueKeeps, WatcherKeeps, OnThreadExitKeeps, GetKeeps
  <2>4. ASSUME \/ Notify
               \/ \E l \in Local : DestroyLocal(l)
               \/ OnThreadLocalDestroyed
        PROVE  MutexInv' /\ Places' /\ Locals' /\ Registry' /\ Fates'
    BY <2>4, JoinKeeps, DestroyLocalKeeps, OnThreadLocalDestroyedKeeps
  <2> QED
    BY <1>2, <2>1, <2>2, <2>3, <2>4 DEF ThreadsNext, ThreadsInv
<1> QED
  BY <1>1, <1>2

\* A thread's values are its own and are destroyed once, for any number of
\* threads, ids and ThreadLocals: an id that is in the map keeps its thread's
\* handle, so that no thread has it again before its values are taken out.
THEOREM ThreadsRight == ThreadsSpec => []ThreadValues
<1>1. ThreadsInit => ThreadsInv
  <2> SUFFICES ASSUME ThreadsInit PROVE ThreadsInv
    OBVIOUS
  <2> USE DEF ThreadsInit
  <2>1. ThreadsTypeOK
    <3>1. /\ values \in [Ids -> [Local -> Thread \cup {0}]]
          /\ got \in [Thread -> [Local -> Thread \cup {0}]]
          /\ doomed \in [Actor -> SUBSET Value]
      OBVIOUS
    <3>2. step \in [Actor -> {"none", "idle"}] /\ phase \in 0 .. 2
      OBVIOUS
    <3> QED
      BY <3>1, <3>2 DEF ThreadsTypeOK
  <2>2. \A a \in Actor : step[a] \in {"none", "idle"} /\ doomed[a] = {}
    OBVIOUS
  <2>3. MutexInv
    BY <2>2, Actors DEF MutexInv, Inside, Owning
  <2>4. /\ ThreadAt(1) = "idle" /\ \A k \in Thread \ {1} : ThreadAt(k) = "none"
        /\ \A k \in Thread : WatcherAt(k) = "none"
    BY Actors DEF ThreadAt, WatcherAt
  <2>5. Places
    BY <2>4, Actors DEF Places, Locking, Leaving
  <2>6. Locals
    BY <2>4, Actors DEF Locals, Locking, Leaving
  <2>7. Registry
    <3>1. \A k \in Thread : ~Active(k) /\ (KeepsId(k) => k = 1)
      BY <2>4 DEF Active, KeepsId, Locking, Alive, ThreadAt
    <3> QED
      BY <3>1 DEF Registry
  <2>8. Fates
    <3>1. \A k \in Thread, l \in Local : got[k][l] = 0 /\ ~Has(k, l)
      BY Actors DEF Has
    <3>2. \A k \in Thread : doomed[<<"thread", k>>] = {} /\ doomed[<<"watcher", k>>] = {}
      BY Actors
    <3> QED
      BY <2>2, <3>1, <3>2, Actors DEF Fates
  <2> QED
    BY <2>1, <2>3, <2>5, <2>6, <2>7, <2>8 DEF ThreadsInv
<1> QED
  BY <1>1, ThreadsStep, ThreadsInvValues, PTL DEF ThreadsSpec

-----------------------------------------------------------------------------
USE DeathAssumption

-----------------------------------------------------------------------------
(* GTestDeath: the invariant                                               *)

InTest   == {"assume", "capture", "fork", "spawned", "read", "wait", "judge"}
Forked   == {"spawned", "read", "wait", "judge"}
Running  == {"exec", "body", "statement", "end"}
DeathPlaces   == InTest \cup Running \cup {"end", "none", "gone", "aborted"}
Statuses == {"exit0", "exit1", "signal"}

TypeOK ==
  /\ style \in Styles /\ body \in Bodies /\ failing \in Faults
  /\ pc \in [Processes -> DeathPlaces]
  /\ at \in [Processes -> Nat] /\ count \in [Processes -> Nat]
  /\ flag \in [Processes -> Nat \X Nat]
  /\ captured \in [Processes -> {"no", "file", "lost"}]
  /\ writers \subseteq {"parent", "child", "daemon"}
  /\ bytes \in Seq({"L", "T", "R", "I"})
  /\ verdict \in [Positions -> {"none", "passed", "failed"}]
  /\ did \in [Positions -> Ends \cup {"none"}]

DeathsBefore(n) == {j \in 1 .. n - 1 : body[j].kind = "death"}

\* Where the parent is in its body, and which death tests it has counted.
ParentRight ==
  /\ pc["parent"] \in InTest \cup {"body", "end", "aborted"}
  /\ at["parent"] >= 1 /\ flag["parent"] = <<0, 0>>
  /\ pc["parent"] = "body" => count["parent"] = Cardinality(DeathsBefore(at["parent"]))
  /\ pc["parent"] \in InTest =>
       /\ at["parent"] \in Positions /\ Here("parent").kind = "death"
       /\ count["parent"] = Cardinality(DeathsBefore(at["parent"])) + 1
       /\ style \in {"fast", "threadsafe"}
  /\ pc["parent"] \in InTest \cup {"body"} =>
       \A j \in Positions : j < at["parent"] => body[j].kind # "fatal"

\* The pipe, the file and the child, as the parent holds them.
HoldsRight ==
  /\ pc["parent"] # "aborted" =>
       /\ reading <=> pc["parent"] \in {"capture", "fork", "spawned", "read"}
       /\ "parent" \in writers <=> pc["parent"] \in {"capture", "fork", "spawned"}
       /\ captured["parent"] = "no" <=> pc["parent"] \notin Forked \cup {"fork"}
  /\ pc["parent"] \in {"body", "end", "assume", "capture", "fork", "judge"} =>
       ended \in {"none", "reaped"}
  /\ pc["parent"] \in {"capture", "fork"} => bytes = <<>>
  /\ pc["parent"] = "fork" => log = {}
  /\ pc["parent"] = "aborted" \/ captured["parent"] = "lost" => failing # {}

\* The child that runs is the parent's, and is on the way to its death test.
ChildRight ==
  /\ pc["child"] \in Running \cup {"none", "gone"}
  /\ pc["child"] \in Running =>
       /\ pc["parent"] \in {"spawned", "read"} /\ ended = "running"
       /\ "child" \in writers /\ bytes = <<>> /\ log = {}
       /\ did[at["parent"]] = "none"
  /\ pc["parent"] \in Forked => pc["child"] # "none"
  /\ pc["child"] = "statement" =>
       at["child"] = at["parent"] /\ (captured["child"] = "no" <=> style # "fast")
  /\ pc["child"] \in {"exec", "body", "end"} => style = "threadsafe"
  /\ pc["child"] = "body" =>
       /\ flag["child"] = <<count["parent"], at["parent"]>>
       /\ at["child"] >= 1 /\ at["child"] <= at["parent"] /\ captured["child"] = "no"
       /\ count["child"] = Cardinality(DeathsBefore(at["child"]))
  /\ pc["child"] = "end" => \E j \in 1 .. at["parent"] - 1 : body[j].kind = "once"

\* What a child that has gone tells of the death test at k, by the way it ended,
\* its bytes and its words.
Told(k, how, bs, says) ==
  \/ did[k] = "none" /\ Mistaken(k)
  \/ /\ Death(k) # "none" /\ how = Death(k) /\ bs = <<>>
     /\ captured["parent"] = "file" => ("own" \in says <=> body[k].says)
  \/ /\ did[k] # "none" /\ Death(k) = "none"
     /\ bs # <<>> \/ Mistaken(k)

EvidenceRight ==
  /\ pc["parent"] \in {"spawned", "read"} /\ pc["child"] = "gone" =>
       ended \in Statuses /\ Told(at["parent"], ended, bytes, log)
  /\ pc["parent"] = "wait" =>
       /\ pc["child"] = "gone" /\ ended \in Statuses /\ outcome = Outcome
       /\ Told(at["parent"], ended, bytes, log)
  /\ pc["parent"] = "judge" =>
       /\ pc["child"] = "gone" /\ outcome = Outcome
       /\ Told(at["parent"], status, bytes, log)
  /\ pc["parent"] \in {"wait", "judge"} => bytes = <<>> \/ bytes[1] \in {"L", "T", "R"}
  /\ bytes # <<>> /\ bytes[1] = "I" => failing # {}

\* No verdict comes before its death test, and none is changed.
HistoryRight ==
  pc["parent"] \in InTest \cup {"body"} => \A j \in Positions : j >= at["parent"] =>
    /\ verdict[j] = "none"
    /\ did[j] = "none" \/ (j = at["parent"] /\ pc["parent"] \in Forked)

IInv ==
  /\ TypeOK /\ ParentRight /\ HoldsRight /\ ChildRight /\ EvidenceRight /\ HistoryRight
  /\ PassedMeansDied

-----------------------------------------------------------------------------
(* What a step leaves alone.                                               *)

LEMMA SameVerdicts ==
  ASSUME PassedMeansDied, UNCHANGED <<style, body, failing, did, verdict>>
  PROVE  PassedMeansDied'
BY DEF PassedMeansDied, Positions, DiedRightly, Death, Mistaken

LEMMA BodyFacts ==
  ASSUME TypeOK
  PROVE  /\ Len(body) \in Nat /\ Positions = 1 .. Len(body)
         /\ \A k \in Positions : body[k] \in Step
<1>1. body \in Seq(Step)
  BY DEF TypeOK
<1> QED
  BY <1>1 DEF Positions

LEMMA EndBodyParent == ASSUME IInv, EndBody("parent") PROVE IInv'
<1>1. /\ pc["parent"] = "body" /\ pc'["parent"] = "end" /\ pc'["child"] = pc["child"]
      /\ UNCHANGED <<tools, at, count, flag, failed, captured, lock, channel, judged, ended,
                 log, touched, did>>
      /\ pc' \in [Processes -> DeathPlaces]
  BY DEF EndBody, To, IInv, TypeOK, Processes, DeathPlaces
<1>2. TypeOK'
  BY <1>1 DEF IInv, TypeOK, Positions, tools, channel, judged
<1>3. ParentRight'
  BY <1>1 DEF IInv, ParentRight, InTest
<1>4. HoldsRight'
  BY <1>1 DEF IInv, HoldsRight, InTest, Forked, channel
<1>5. ChildRight'
  BY <1>1 DEF IInv, ChildRight, Forked, Running
<1>6. EvidenceRight'
  BY <1>1 DEF IInv, EvidenceRight, tools, channel
<1>7. HistoryRight'
  BY <1>1 DEF HistoryRight, InTest
<1>8. PassedMeansDied'
  BY <1>1, SameVerdicts DEF IInv, tools, judged
<1> QED
  BY <1>2, <1>3, <1>4, <1>5, <1>6, <1>7, <1>8 DEF IInv

LEMMA AbortInv ==
  ASSUME IInv, DeathTestAbort, pc["parent"] \in {"assume", "fork", "read", "judge"},
         pc["child"] \notin Running, failing # {}
  PROVE  IInv'
<1>1. /\ pc["parent"] \in {"assume", "fork", "read", "judge"} /\ failing # {}
      /\ pc'["parent"] = "aborted" /\ pc'["child"] = pc["child"]
      /\ UNCHANGED <<style, body, failing, at, count, flag, captured, writers, bytes, verdict,
                     ended, log, did>>
      /\ pc' \in [Processes -> DeathPlaces]
  BY DEF DeathTestAbort, IInv, TypeOK, Processes, DeathPlaces, To, Advance, tools, channel, judged, InTest, Forked, Running, Statuses
<1>2. TypeOK'
  BY <1>1 DEF IInv, TypeOK, Positions
<1>3. ParentRight'
  BY <1>1 DEF IInv, ParentRight, Positions, Here, DeathsBefore, InTest, Forked, Running, Statuses
<1>4. HoldsRight'
  BY <1>1 DEF IInv, HoldsRight, ParentRight, InTest, Forked, Running, Statuses
<1>5. ChildRight'
  BY <1>1 DEF IInv, ChildRight, DeathsBefore, InTest, Forked, Running, Statuses
<1>6. EvidenceRight'
  BY <1>1 DEF IInv, EvidenceRight, Told, Mistaken, Death, Outcome, Positions, InTest, Forked, Running, Statuses
<1>7. HistoryRight'
  BY <1>1 DEF IInv, HistoryRight, Positions, InTest, Forked, Running, Statuses
<1>8. PassedMeansDied'
  BY <1>1, SameVerdicts DEF IInv
<1> QED
  BY <1>2, <1>3, <1>4, <1>5, <1>6, <1>7, <1>8 DEF IInv

LEMMA OpenPipeInv == ASSUME IInv, OpenPipe, ~DeathTestAbort PROVE IInv'
<1>1. /\ pc["parent"] = "assume" /\ pc'["parent"] = "capture" /\ pc'["child"] = pc["child"]
      /\ UNCHANGED <<style, body, failing, at, count, flag, captured, verdict, ended, log, did>>
      /\ pc' \in [Processes -> DeathPlaces]
      /\ reading' = TRUE /\ writers' = {"parent"} /\ bytes' = <<>>
  BY DEF OpenPipe, IInv, TypeOK, Processes, DeathPlaces, To, Advance, tools, channel, judged, InTest, Forked, Running, Statuses
<1>2. TypeOK'
  BY <1>1 DEF IInv, TypeOK, Positions
<1>3. ParentRight'
  BY <1>1 DEF IInv, ParentRight, Positions, Here, DeathsBefore, InTest, Forked, Running, Statuses
<1>4. HoldsRight'
  BY <1>1 DEF IInv, HoldsRight, ParentRight, InTest, Forked, Running, Statuses
<1>5. ChildRight'
  BY <1>1 DEF IInv, ChildRight, DeathsBefore, InTest, Forked, Running, Statuses
<1>6. EvidenceRight'
  BY <1>1 DEF IInv, EvidenceRight, Told, Mistaken, Death, Outcome, Positions, InTest, Forked, Running, Statuses
<1>7. HistoryRight'
  BY <1>1 DEF IInv, HistoryRight, Positions, InTest, Forked, Running, Statuses
<1>8. PassedMeansDied'
  BY <1>1, SameVerdicts DEF IInv
<1> QED
  BY <1>2, <1>3, <1>4, <1>5, <1>6, <1>7, <1>8 DEF IInv

LEMMA CaptureStderrInv == ASSUME IInv, CaptureStderr PROVE IInv'
<1>1. /\ pc["parent"] = "capture" /\ pc'["parent"] = "fork" /\ pc'["child"] = pc["child"]
      /\ UNCHANGED <<style, body, failing, at, count, flag, writers, bytes, reading, verdict,
                     ended, did>>
      /\ pc' \in [Processes -> DeathPlaces] /\ captured' \in [Processes -> {"no", "file", "lost"}]
      /\ captured'["parent"] # "no" /\ captured'["child"] = captured["child"] /\ log' = {}
      /\ captured'["parent"] = "lost" => failing # {}
  BY DEF CaptureStderr, May, IInv, TypeOK, Processes, DeathPlaces, To, Advance, tools, channel, judged, InTest, Forked, Running, Statuses
<1>2. TypeOK'
  BY <1>1 DEF IInv, TypeOK, Positions
<1>3. ParentRight'
  BY <1>1 DEF IInv, ParentRight, Positions, Here, DeathsBefore, InTest, Forked, Running, Statuses
<1>4. HoldsRight'
  BY <1>1 DEF IInv, HoldsRight, ParentRight, InTest, Forked, Running, Statuses
<1>5. ChildRight'
  BY <1>1 DEF IInv, ChildRight, DeathsBefore, InTest, Forked, Running, Statuses
<1>6. EvidenceRight'
  BY <1>1 DEF IInv, EvidenceRight, Told, Mistaken, Death, Outcome, Positions, InTest, Forked, Running, Statuses
<1>7. HistoryRight'
  BY <1>1 DEF IInv, HistoryRight, Positions, InTest, Forked, Running, Statuses
<1>8. PassedMeansDied'
  BY <1>1, SameVerdicts DEF IInv
<1> QED
  BY <1>2, <1>3, <1>4, <1>5, <1>6, <1>7, <1>8 DEF IInv

LEMMA ForkInv == ASSUME IInv, Fork, ~DeathTestAbort PROVE IInv'
<1>1. /\ pc["parent"] = "fork" /\ pc'["parent"] = "spawned"
      /\ pc'["child"] = (IF style = "fast" THEN "statement" ELSE "exec")
      /\ UNCHANGED <<style, body, failing, bytes, reading, verdict, log, did>>
      /\ ended' = "running" /\ writers' = writers \cup {"child"}
      /\ pc' \in [Processes -> DeathPlaces] /\ captured' \in [Processes -> {"no", "file", "lost"}]
      /\ captured'["parent"] = captured["parent"] /\ captured'["child"] = captured["parent"]
      /\ at' \in [Processes -> Nat] /\ at'["parent"] = at["parent"] /\ at'["child"] = at["parent"]
      /\ count' \in [Processes -> Nat] /\ count'["parent"] = count["parent"]
      /\ flag' \in [Processes -> Nat \X Nat] /\ flag'["parent"] = flag["parent"]
  BY DEF Fork, IInv, TypeOK, Processes, DeathPlaces, To, Advance, tools, channel, judged, InTest, Forked, Running, Statuses
<1>2. TypeOK'
  BY <1>1 DEF IInv, TypeOK, Positions
<1>3. ParentRight'
  BY <1>1 DEF IInv, ParentRight, Positions, Here, DeathsBefore, InTest, Forked, Running, Statuses
<1>4. HoldsRight'
  BY <1>1 DEF IInv, HoldsRight, ParentRight, InTest, Forked, Running, Statuses
<1>5. ChildRight'
  <2>1. did[at["parent"]] = "none"
    <3>1. at["parent"] \in Positions
      BY <1>1 DEF IInv, ParentRight, InTest
    <3> QED
      BY <1>1, <3>1 DEF IInv, HistoryRight, InTest, Forked, Positions
  <2>2. bytes = <<>> /\ log = {} /\ captured["parent"] # "no"
    BY <1>1 DEF IInv, HoldsRight, Forked
  <2>3. style \in {"fast", "threadsafe"}
    BY <1>1 DEF IInv, ParentRight, InTest
  <2> QED
    BY <1>1, <2>1, <2>2, <2>3 DEF IInv, ChildRight, InTest, Forked, Running, Statuses
<1>6. EvidenceRight'
  BY <1>1 DEF IInv, EvidenceRight, Told, Mistaken, Death, Outcome, Positions, InTest, Forked, Running, Statuses
<1>7. HistoryRight'
  BY <1>1 DEF IInv, HistoryRight, Positions, InTest, Forked, Running, Statuses
<1>8. PassedMeansDied'
  BY <1>1, SameVerdicts DEF IInv
<1> QED
  BY <1>2, <1>3, <1>4, <1>5, <1>6, <1>7, <1>8 DEF IInv

LEMMA CloseWriteEndInv == ASSUME IInv, CloseWriteEnd PROVE IInv'
<1>1. /\ pc["parent"] = "spawned" /\ pc'["parent"] = "read" /\ pc'["child"] = pc["child"]
      /\ UNCHANGED <<style, body, failing, at, count, flag, captured, bytes, reading, verdict,
                     ended, log, did>>
      /\ pc' \in [Processes -> DeathPlaces] /\ writers' = writers \ {"parent"}
  BY DEF CloseWriteEnd, IInv, TypeOK, Processes, DeathPlaces, To, Advance, tools, channel, judged, InTest, Forked, Running, Statuses
<1>2. TypeOK'
  BY <1>1 DEF IInv, TypeOK, Positions
<1>3. ParentRight'
  BY <1>1 DEF IInv, ParentRight, Positions, Here, DeathsBefore, InTest, Forked, Running, Statuses
<1>4. HoldsRight'
  BY <1>1 DEF IInv, HoldsRight, ParentRight, InTest, Forked, Running, Statuses
<1>5. ChildRight'
  BY <1>1 DEF IInv, ChildRight, DeathsBefore, InTest, Forked, Running, Statuses
<1>6. EvidenceRight'
  BY <1>1 DEF IInv, EvidenceRight, Told, Mistaken, Death, Outcome, Positions, InTest, Forked, Running, Statuses
<1>7. HistoryRight'
  BY <1>1 DEF IInv, HistoryRight, Positions, InTest, Forked, Running, Statuses
<1>8. PassedMeansDied'
  BY <1>1, SameVerdicts DEF IInv
<1> QED
  BY <1>2, <1>3, <1>4, <1>5, <1>6, <1>7, <1>8 DEF IInv

LEMMA ReadInv == ASSUME IInv, ReadAndInterpretStatusByte PROVE IInv'
<1>1. /\ pc["parent"] = "read" /\ pc'["parent"] = "wait" /\ pc'["child"] = pc["child"]
      /\ bytes # <<>> \/ writers = {}
      /\ bytes = <<>> \/ bytes[1] \in {"L", "T", "R"}
      /\ UNCHANGED <<style, body, failing, at, count, flag, captured, writers, bytes, verdict,
                     ended, log, did>>
      /\ pc' \in [Processes -> DeathPlaces] /\ outcome' = Outcome /\ ~reading'
  <2>1. bytes # <<>> => bytes[1] \in {"L", "T", "R", "I"}
    BY DEF IInv, TypeOK
  <2> QED
    BY <2>1
    DEF ReadAndInterpretStatusByte, Answered, InternalError, IInv, TypeOK, Processes, DeathPlaces,
        To, Advance, tools, channel, judged, InTest, Forked, Running, Statuses
<1>2. TypeOK'
  BY <1>1 DEF IInv, TypeOK, Positions
<1>3. ParentRight'
  BY <1>1 DEF IInv, ParentRight, Positions, Here, DeathsBefore, InTest, Forked, Running, Statuses
<1>4. HoldsRight'
  BY <1>1 DEF IInv, HoldsRight, ParentRight, InTest, Forked, Running, Statuses
<1>5. ChildRight'
  <2>1. pc["child"] \notin Running
    BY <1>1 DEF IInv, ChildRight
  <2> QED
    BY <1>1, <2>1 DEF IInv, ChildRight, DeathsBefore, InTest, Forked, Running, Statuses
<1>6. EvidenceRight'
  <2>1. pc["child"] = "gone"
    BY <1>1 DEF IInv, ChildRight, InTest, Forked, Running, Statuses
  <2> QED
    BY <1>1, <2>1 DEF IInv, EvidenceRight, Told, Mistaken, Death, Outcome, Positions, InTest, Forked, Running, Statuses
<1>7. HistoryRight'
  BY <1>1 DEF IInv, HistoryRight, Positions, InTest, Forked, Running, Statuses
<1>8. PassedMeansDied'
  BY <1>1, SameVerdicts DEF IInv
<1> QED
  BY <1>2, <1>3, <1>4, <1>5, <1>6, <1>7, <1>8 DEF IInv

LEMMA WaitPidInv == ASSUME IInv, WaitPid PROVE IInv'
<1>1. /\ pc["parent"] = "wait" /\ pc'["parent"] = "judge" /\ pc'["child"] = pc["child"]
      /\ UNCHANGED <<style, body, failing, at, count, flag, captured, writers, bytes, reading,
                     outcome, verdict, log, did>>
      /\ pc' \in [Processes -> DeathPlaces] /\ status' = ended /\ ended' = "reaped"
  BY DEF WaitPid, IInv, TypeOK, Processes, DeathPlaces, To, Advance, tools, channel, judged, InTest, Forked, Running, Statuses
<1>2. TypeOK'
  BY <1>1 DEF IInv, TypeOK, Positions
<1>3. ParentRight'
  BY <1>1 DEF IInv, ParentRight, Positions, Here, DeathsBefore, InTest, Forked, Running, Statuses
<1>4. HoldsRight'
  BY <1>1 DEF IInv, HoldsRight, ParentRight, InTest, Forked, Running, Statuses
<1>5. ChildRight'
  BY <1>1 DEF IInv, ChildRight, DeathsBefore, InTest, Forked, Running, Statuses
<1>6. EvidenceRight'
  BY <1>1 DEF IInv, EvidenceRight, Told, Mistaken, Death, Outcome, Positions, InTest, Forked, Running, Statuses
<1>7. HistoryRight'
  BY <1>1 DEF IInv, HistoryRight, Positions, InTest, Forked, Running, Statuses
<1>8. PassedMeansDied'
  BY <1>1, SameVerdicts DEF IInv
<1> QED
  BY <1>2, <1>3, <1>4, <1>5, <1>6, <1>7, <1>8 DEF IInv

LEMMA WorkerInv == ASSUME IInv, Worker PROVE IInv'
<1>1. UNCHANGED <<style, body, failing, pc, at, count, flag, captured, writers, bytes, reading,
                  outcome, status, verdict, ended, log, did>>
  BY DEF Worker, IInv, TypeOK, Processes, DeathPlaces, To, Advance, tools, channel, judged, InTest, Forked, Running, Statuses
<1>2. TypeOK'
  BY <1>1 DEF IInv, TypeOK, Positions
<1>3. ParentRight'
  BY <1>1 DEF IInv, ParentRight, Positions, Here, DeathsBefore, InTest, Forked, Running, Statuses
<1>4. HoldsRight'
  BY <1>1 DEF IInv, HoldsRight, ParentRight, InTest, Forked, Running, Statuses
<1>5. ChildRight'
  BY <1>1 DEF IInv, ChildRight, DeathsBefore, InTest, Forked, Running, Statuses
<1>6. EvidenceRight'
  BY <1>1 DEF IInv, EvidenceRight, Told, Mistaken, Death, Outcome, Positions, InTest, Forked, Running, Statuses
<1>7. HistoryRight'
  BY <1>1 DEF IInv, HistoryRight, Positions, InTest, Forked, Running, Statuses
<1>8. PassedMeansDied'
  BY <1>1, SameVerdicts DEF IInv
<1> QED
  BY <1>2, <1>3, <1>4, <1>5, <1>6, <1>7, <1>8 DEF IInv

LEMMA DaemonEndsInv == ASSUME IInv, DaemonEnds PROVE IInv'
<1>1. /\ UNCHANGED <<style, body, failing, pc, at, count, flag, captured, bytes, reading,
                     outcome, status, verdict, ended, log, did>>
      /\ writers' = writers \ {"daemon"}
  BY DEF DaemonEnds, IInv, TypeOK, Processes, DeathPlaces, To, Advance, tools, channel, judged, InTest, Forked, Running, Statuses
<1>2. TypeOK'
  BY <1>1 DEF IInv, TypeOK, Positions
<1>3. ParentRight'
  BY <1>1 DEF IInv, ParentRight, Positions, Here, DeathsBefore, InTest, Forked, Running, Statuses
<1>4. HoldsRight'
  BY <1>1 DEF IInv, HoldsRight, ParentRight, InTest, Forked, Running, Statuses
<1>5. ChildRight'
  BY <1>1 DEF IInv, ChildRight, DeathsBefore, InTest, Forked, Running, Statuses
<1>6. EvidenceRight'
  BY <1>1 DEF IInv, EvidenceRight, Told, Mistaken, Death, Outcome, Positions, InTest, Forked, Running, Statuses
<1>7. HistoryRight'
  BY <1>1 DEF IInv, HistoryRight, Positions, InTest, Forked, Running, Statuses
<1>8. PassedMeansDied'
  BY <1>1, SameVerdicts DEF IInv
<1> QED
  BY <1>2, <1>3, <1>4, <1>5, <1>6, <1>7, <1>8 DEF IInv

\* The death tests before a position, counted.
LEMMA CountNext ==
  ASSUME TypeOK, NEW n \in Positions
  PROVE  /\ Cardinality(DeathsBefore(n)) \in Nat
         /\ Cardinality(DeathsBefore(n + 1)) =
              IF body[n].kind = "death" THEN Cardinality(DeathsBefore(n)) + 1
              ELSE Cardinality(DeathsBefore(n))
<1>1. n \in Nat /\ n >= 1
  BY BodyFacts
<1>2. IsFiniteSet(DeathsBefore(n)) /\ n \notin DeathsBefore(n)
  <2>1. IsFiniteSet(1 .. n - 1)
    BY <1>1, FS_Interval
  <2>2. DeathsBefore(n) \in SUBSET (1 .. n - 1)
    BY DEF DeathsBefore
  <2> QED
    BY <1>1, <2>1, <2>2, FS_Subset
<1>3. CASE body[n].kind = "death"
  <2>1. DeathsBefore(n + 1) = DeathsBefore(n) \cup {n}
    BY <1>1, <1>3 DEF DeathsBefore
  <2> QED
    BY <1>2, <1>3, <2>1, FS_AddElement, FS_CardinalityType
<1>4. CASE body[n].kind # "death"
  <2>1. DeathsBefore(n + 1) = DeathsBefore(n)
    BY <1>1, <1>4 DEF DeathsBefore
  <2> QED
    BY <1>2, <1>4, <2>1, FS_CardinalityType
<1> QED
  BY <1>3, <1>4

LEMMA CountFirst == DeathsBefore(1) = {} /\ Cardinality(DeathsBefore(1)) = 0
<1>1. DeathsBefore(1) = {}
  BY DEF DeathsBefore
<1> QED
  BY <1>1, FS_EmptySet

\* As long as the parent is not in a death test, no child runs.
LEMMA NoChild == ASSUME IInv, pc["parent"] \notin {"spawned", "read"} PROVE pc["child"] \notin Running
BY DEF IInv, ChildRight

LEMMA RunStepParent == ASSUME IInv, RunStep("parent") PROVE IInv'
<1>1. /\ pc["parent"] = "body" /\ at["parent"] \in Positions /\ Here("parent").kind # "death"
      /\ \/ pc'["parent"] = "end" /\ at' = at
         \/ /\ pc'["parent"] = "body" /\ at'["parent"] = at["parent"] + 1
            /\ Here("parent").kind = "once"
      /\ pc'["child"] = pc["child"]
      /\ UNCHANGED <<style, body, failing, count, flag, captured, writers, bytes, reading,
                     verdict, ended, log, did>>
      /\ pc' \in [Processes -> DeathPlaces] /\ at' \in [Processes -> Nat]
  BY DEF RunStep, IInv, TypeOK, Processes, DeathPlaces, To, Advance, tools, channel, judged, InTest, Forked, Running, Statuses
<1>2. TypeOK'
  BY <1>1 DEF IInv, TypeOK, Positions
<1>3. ParentRight'
  <2>1. CASE pc'["parent"] = "end"
    BY <1>1, <2>1 DEF IInv, ParentRight, InTest, Forked, Running, Statuses
  <2>2. CASE pc'["parent"] = "body" /\ at'["parent"] = at["parent"] + 1 /\ Here("parent").kind = "once"
    <3>1. DeathsBefore(at["parent"])' = DeathsBefore(at["parent"] + 1)
      BY <1>1, <2>2 DEF DeathsBefore
    <3>2. count'["parent"] = Cardinality(DeathsBefore(at["parent"]))'
      BY <1>1, <3>1, CountNext DEF IInv, ParentRight, Here
    <3>3. \A j \in Positions' : j < at'["parent"] => body'[j].kind # "fatal"
      BY <1>1, <2>2, BodyFacts DEF IInv, TypeOK, ParentRight, Here, Positions, Processes
    <3> QED
      BY <1>1, <2>2, <3>2, <3>3 DEF IInv, TypeOK, ParentRight, Processes, InTest, Forked, Running, Statuses
  <2> QED
    BY <1>1, <2>1, <2>2
<1>4. HoldsRight'
  BY <1>1 DEF IInv, HoldsRight, ParentRight, InTest, Forked, Running, Statuses
<1>5. ChildRight'
  <2>1. pc["child"] \notin Running
    BY <1>1, NoChild
  <2> QED
    BY <1>1, <2>1 DEF IInv, ChildRight, InTest, Forked, Running, Statuses
<1>6. EvidenceRight'
  BY <1>1 DEF IInv, EvidenceRight, Told, Mistaken, Death, Outcome, Positions, InTest, Forked, Running, Statuses
<1>7. HistoryRight'
  BY <1>1, BodyFacts DEF IInv, HistoryRight, Positions, InTest, Forked, Running, Statuses
<1>8. PassedMeansDied'
  BY <1>1, SameVerdicts DEF IInv
<1> QED
  BY <1>2, <1>3, <1>4, <1>5, <1>6, <1>7, <1>8 DEF IInv

\* The parent leaves a death test, with the verdict v, for the rest of its body or,
\* if it is fatal, for the end.
LEMMA LeaveTest ==
  ASSUME IInv, NEW v \in {"passed", "failed"}, pc["child"] \notin Running,
         at["parent"] \in Positions, Here("parent").kind = "death", TypeOK',
         \A j \in Positions : j < at["parent"] => body[j].kind # "fatal",
         \A j \in Positions : j > at["parent"] => verdict[j] = "none" /\ did[j] = "none",
         UNCHANGED <<style, body, failing, flag, bytes, did>>, pc'["child"] = pc["child"],
         verdict' = [verdict EXCEPT ![at["parent"]] = v],
         \/ pc'["parent"] = "body" /\ at'["parent"] = at["parent"] + 1
         \/ pc'["parent"] = "end" /\ at'["parent"] = at["parent"],
         count'["parent"] = Cardinality(DeathsBefore(at["parent"])) + 1,
         ~reading', "parent" \notin writers', captured'["parent"] = "no",
         ended' \in {"none", "reaped"},
         v = "passed" => DiedRightly(at["parent"]) \/ Mistaken(at["parent"]),
         v = "failed" => ~DiedRightly(at["parent"])
  PROVE  IInv'
<1>1. at["parent"] \in Nat /\ body[at["parent"]].kind = "death" /\ Positions' = Positions
  BY BodyFacts DEF IInv, Here, Positions
<1>2. ParentRight'
  <2>1. CASE pc'["parent"] = "end"
    BY <1>1, <2>1 DEF IInv, ParentRight, InTest
  <2>2. CASE pc'["parent"] = "body" /\ at'["parent"] = at["parent"] + 1
    <3>1. DeathsBefore(at["parent"])' = DeathsBefore(at["parent"] + 1)
      BY <2>2 DEF DeathsBefore
    <3>2. count'["parent"] = Cardinality(DeathsBefore(at["parent"]))'
      BY <1>1, <3>1, CountNext DEF IInv
    <3>3. \A j \in Positions' : j < at'["parent"] => body'[j].kind # "fatal"
      BY <1>1, <2>2, BodyFacts DEF IInv, Positions
    <3> QED
      BY <1>1, <2>2, <3>2, <3>3 DEF IInv, ParentRight, InTest
  <2> QED
    BY <2>1, <2>2
<1>3. HoldsRight'
  BY DEF IInv, HoldsRight, Forked
<1>4. ChildRight'
  BY DEF IInv, ChildRight, Running, Forked
<1>5. EvidenceRight'
  BY DEF IInv, EvidenceRight
<1>6. HistoryRight'
  <2>1. CASE pc'["parent"] = "end"
    BY <2>1 DEF HistoryRight, InTest
  <2>2. CASE pc'["parent"] = "body" /\ at'["parent"] = at["parent"] + 1
    <3>1. ASSUME NEW j \in Positions, j >= at'["parent"]
          PROVE  verdict'[j] = "none" /\ did'[j] = "none"
      <4>1. j > at["parent"]
        BY <1>1, <2>2, <3>1, BodyFacts DEF IInv
      <4>2. verdict'[j] = verdict[j]
        BY <1>1, <4>1, BodyFacts DEF IInv, TypeOK
      <4> QED
        BY <4>1, <4>2
    <3> QED
      BY <1>1, <3>1 DEF HistoryRight
  <2> QED
    BY <2>1, <2>2
<1>7. PassedMeansDied'
  <2>1. ASSUME NEW k \in Positions
        PROVE  /\ verdict'[k] = "passed" => DiedRightly(k) \/ Mistaken(k)
               /\ verdict'[k] = "failed" => ~DiedRightly(k)
    BY <1>1, <2>1 DEF IInv, TypeOK, PassedMeansDied
  <2>2. \A k : /\ DiedRightly(k)' <=> DiedRightly(k) 
               /\ Mistaken(k)' <=> Mistaken(k)
    BY DEF DiedRightly, Mistaken, Death
  <2> QED
    BY <1>1, <2>1, <2>2 DEF PassedMeansDied
<1> QED
  BY <1>2, <1>3, <1>4, <1>5, <1>6, <1>7 DEF IInv

LEMMA CreateParent == ASSUME IInv, Create("parent") PROVE IInv'
<1>1. /\ pc["parent"] = "body" /\ at["parent"] \in Positions /\ Here("parent").kind = "death"
      /\ count' = [count EXCEPT !["parent"] = @ + 1]
      /\ UNCHANGED <<style, body, failing, flag, captured, writers, bytes, reading, outcome,
                     status, ended, log, did>>
  BY DEF Create, tools, channel
<1>2. flag["parent"] = <<0, 0>> /\ count["parent"] = Cardinality(DeathsBefore(at["parent"]))
  BY <1>1 DEF IInv, ParentRight
<1>3. /\ count' \in [Processes -> Nat] /\ count'["parent"] = count["parent"] + 1
      /\ count'["child"] = count["child"] /\ count["parent"] \in Nat
  BY <1>1 DEF IInv, TypeOK, Processes
<1>4. pc["child"] \notin Running
  BY <1>1, NoChild
<1>5. CASE style \in {"fast", "threadsafe"} /\ pc' = [pc EXCEPT !["parent"] = "assume"]
           /\ UNCHANGED <<at, verdict>>
  <2>1. pc'["parent"] = "assume" /\ pc'["child"] = pc["child"] /\ pc' \in [Processes -> DeathPlaces]
    BY <1>5 DEF IInv, TypeOK, Processes, DeathPlaces, InTest
  <2>2. TypeOK'
    BY <1>1, <1>3, <1>5, <2>1 DEF IInv, TypeOK, Positions
  <2>3. ParentRight'
    BY <1>1, <1>2, <1>3, <1>5, <2>1 DEF IInv, ParentRight, InTest, Positions, Here, DeathsBefore
  <2>4. HoldsRight'
    BY <1>1, <2>1 DEF IInv, HoldsRight, Forked
  <2>5. ChildRight'
    BY <1>1, <1>4, <1>5, <2>1 DEF IInv, ChildRight, Running, Forked
  <2>6. EvidenceRight'
    BY <1>1, <2>1 DEF IInv, EvidenceRight
  <2>7. HistoryRight'
    BY <1>1, <1>5, <2>1 DEF IInv, HistoryRight, InTest, Forked, Positions
  <2>8. PassedMeansDied'
    BY <1>1, <1>5, SameVerdicts DEF IInv
  <2> QED
    BY <2>2, <2>3, <2>4, <2>5, <2>6, <2>7, <2>8 DEF IInv
<1>6. CASE Fail("parent") /\ verdict' = [verdict EXCEPT ![at["parent"]] = "failed"]
  <2>1. /\ pc' \in [Processes -> DeathPlaces] /\ pc'["child"] = pc["child"] /\ at' \in [Processes -> Nat]
        /\ \/ pc'["parent"] = "body" /\ at'["parent"] = at["parent"] + 1
           \/ pc'["parent"] = "end" /\ at'["parent"] = at["parent"]
    BY <1>6 DEF Fail, To, Advance, IInv, TypeOK, Processes, DeathPlaces, Running
  <2>2. TypeOK'
    BY <1>1, <1>3, <1>6, <2>1 DEF IInv, TypeOK, Positions
  <2>3. \A j \in Positions : j >= at["parent"] => verdict[j] = "none" /\ did[j] = "none"
    BY <1>1 DEF IInv, HistoryRight, Forked
  <2>4. ~DiedRightly(at["parent"])
    BY <1>1, <2>3, BodyFacts DEF IInv, DiedRightly, Death
  <2>5. \A j \in Positions : j < at["parent"] => body[j].kind # "fatal"
    BY <1>1 DEF IInv, ParentRight
  <2>6. ~reading /\ "parent" \notin writers /\ captured["parent"] = "no" /\ ended \in {"none", "reaped"}
    BY <1>1 DEF IInv, HoldsRight, Forked
  <2>7. \A j \in Positions : j > at["parent"] => verdict[j] = "none" /\ did[j] = "none"
    BY <2>3, <1>1, BodyFacts DEF IInv
  <2> QED
    BY <1>1, <1>2, <1>3, <1>4, <1>6, <2>1, <2>2, <2>4, <2>5, <2>6, <2>7, LeaveTest
<1>7. flag["parent"] # <<count'["parent"], at["parent"]>>
  BY <1>2, <1>3
<1> QED
  BY <1>2, <1>5, <1>6, <1>7 DEF Create, To

\* What the evidence is worth: the parent's judgement is the right one, or a mistake.
LEMMA JudgedRightly ==
  ASSUME NEW k \in Positions, Told(k, status, bytes, log), outcome = Outcome,
         bytes = <<>> \/ bytes[1] \in {"L", "T", "R"}, captured["parent"] = "file"
  PROVE  LET passing == /\ outcome = "DIED" /\ StatusOk(body[k].predicate, status)
                        /\ Matches(body[k].matcher, log)
         IN  /\ passing => DiedRightly(k) \/ Mistaken(k)
             /\ ~passing => ~DiedRightly(k)
<1> DEFINE passing == /\ outcome = "DIED" /\ StatusOk(body[k].predicate, status)
                      /\ Matches(body[k].matcher, log)
<1>1. outcome = "DIED" <=> bytes = <<>>
  BY DEF Outcome
<1>2. CASE did[k] = "none" /\ Mistaken(k)
  BY <1>2 DEF DiedRightly, Death
<1>3. CASE /\ Death(k) # "none" /\ status = Death(k) /\ bytes = <<>>
           /\ "own" \in log <=> body[k].says
  BY <1>1, <1>3 DEF DiedRightly, Matches
<1>4. CASE Death(k) = "none" /\ (bytes # <<>> \/ Mistaken(k))
  BY <1>1, <1>4 DEF DiedRightly
<1> QED
  BY <1>2, <1>3, <1>4 DEF Told

LEMMA PassedInv == ASSUME IInv, Passed, ~DeathTestAbort PROVE IInv'
<1> DEFINE k == at["parent"]
           passing == /\ outcome = "DIED" /\ StatusOk(Here("parent").predicate, status)
                      /\ Matches(Here("parent").matcher, log)
<1>1. /\ pc["parent"] = "judge" /\ captured["parent"] = "file"
      /\ captured' = [captured EXCEPT !["parent"] = "no"]
      /\ UNCHANGED <<style, body, failing, count, flag, writers, bytes, reading, outcome,
                     status, ended, log, did>>
      /\ \/ /\ passing /\ verdict' = [verdict EXCEPT ![k] = "passed"]
            /\ To("parent", "body") /\ Advance("parent")
         \/ /\ ~passing /\ verdict' = [verdict EXCEPT ![k] = "failed"] /\ Fail("parent")
  BY DEF Passed, tools, channel
<1>2. /\ k \in Positions /\ Here("parent").kind = "death"
      /\ count["parent"] = Cardinality(DeathsBefore(k)) + 1
      /\ \A j \in Positions : j < k => body[j].kind # "fatal"
  BY <1>1 DEF IInv, ParentRight, InTest
<1>3. pc["child"] \notin Running
  BY <1>1, NoChild
<1>4. \A j \in Positions : j > k => verdict[j] = "none" /\ did[j] = "none"
  BY <1>1, <1>2, BodyFacts DEF IInv, HistoryRight, InTest
<1>5. ~reading /\ "parent" \notin writers /\ ended \in {"none", "reaped"}
  BY <1>1 DEF IInv, HoldsRight
<1>6. /\ passing => DiedRightly(k) \/ Mistaken(k)
      /\ ~passing => ~DiedRightly(k)
  BY <1>1, <1>2, JudgedRightly DEF IInv, EvidenceRight, Here
<1>7. PICK v \in {"passed", "failed"} :
        /\ verdict' = [verdict EXCEPT ![k] = v]
        /\ v = "passed" => DiedRightly(k) \/ Mistaken(k)
        /\ v = "failed" => ~DiedRightly(k)
  BY <1>1, <1>6
<1>8. /\ pc' \in [Processes -> DeathPlaces] /\ pc'["child"] = pc["child"] /\ at' \in [Processes -> Nat]
      /\ \/ pc'["parent"] = "body" /\ at'["parent"] = k + 1
         \/ pc'["parent"] = "end" /\ at'["parent"] = k
  BY <1>1 DEF Fail, To, Advance, IInv, TypeOK, Processes, DeathPlaces, Running
<1>9. captured' \in [Processes -> {"no", "file", "lost"}] /\ captured'["parent"] = "no"
  BY <1>1 DEF IInv, TypeOK, Processes
<1>10. TypeOK'
  BY <1>1, <1>7, <1>8, <1>9 DEF IInv, TypeOK, Positions
<1> HIDE DEF passing
<1> QED
  BY <1>1, <1>2, <1>3, <1>4, <1>5, <1>7, <1>8, <1>9, <1>10, LeaveTest

-----------------------------------------------------------------------------
(* The child's steps.                                                      *)

LEMMA WhileChildRuns ==
  ASSUME IInv, pc["child"] \in Running
  PROVE  /\ pc["parent"] \in {"spawned", "read"} /\ at["parent"] \in Positions
         /\ bytes = <<>> /\ log = {} /\ did[at["parent"]] = "none"
         /\ verdict[at["parent"]] = "none" /\ body[at["parent"]].kind = "death"
         /\ count["parent"] = Cardinality(DeathsBefore(at["parent"])) + 1
         /\ \A j \in Positions : j < at["parent"] => body[j].kind # "fatal"
         /\ captured["parent"] \in {"file", "lost"}
<1>1. /\ pc["parent"] \in {"spawned", "read"} /\ bytes = <<>> /\ log = {}
      /\ did[at["parent"]] = "none"
  BY DEF IInv, ChildRight
<1>2. at["parent"] \in Positions
  BY <1>1 DEF IInv, ParentRight, InTest
<1> QED
  BY <1>1, <1>2, BodyFacts
  DEF IInv, TypeOK, ParentRight, HoldsRight, HistoryRight, InTest, Forked, Here, Processes

\* A step that leaves the child running.
LEMMA ChildMoves ==
  ASSUME IInv, pc["child"] \in Running, pc'["child"] \in Running, TypeOK', ChildRight',
         pc'["parent"] = pc["parent"], at'["parent"] = at["parent"],
         count'["parent"] = count["parent"], flag'["parent"] = flag["parent"],
         captured'["parent"] = captured["parent"],
         UNCHANGED <<style, body, failing, writers, bytes, reading, verdict, ended, log, did>>
  PROVE  IInv'
<1>1. pc["parent"] \in {"spawned", "read"} /\ pc'["child"] # "gone"
  BY WhileChildRuns DEF Running
<1>2. ParentRight'
  BY <1>1 DEF IInv, ParentRight, InTest, Positions, Here, DeathsBefore
<1>3. HoldsRight'
  BY <1>1 DEF IInv, HoldsRight, Forked
<1>4. EvidenceRight'
  BY <1>1 DEF IInv, EvidenceRight
<1>5. HistoryRight'
  BY <1>1 DEF IInv, HistoryRight, InTest, Forked, Positions
<1>6. PassedMeansDied'
  BY SameVerdicts DEF IInv
<1> QED
  BY <1>2, <1>3, <1>4, <1>5, <1>6 DEF IInv

\* A step that ends the child.
LEMMA ChildDies ==
  ASSUME IInv, pc["child"] \in Running, pc'["child"] = "gone", TypeOK',
         pc'["parent"] = pc["parent"],
         UNCHANGED <<style, body, failing, at, count, flag, captured, reading, verdict>>,
         "parent" \in writers' <=> "parent" \in writers, ended' \in Statuses,
         \A j \in Positions : j # at["parent"] => did'[j] = did[j],
         Told(at["parent"], ended, bytes, log)',
         bytes' # <<>> /\ bytes'[1] = "I" => failing # {}
  PROVE  IInv'
<1>1. pc["parent"] \in {"spawned", "read"} /\ Positions' = Positions
  BY WhileChildRuns DEF Positions
<1>2. ParentRight'
  BY <1>1 DEF IInv, ParentRight, InTest, Here, DeathsBefore
<1>3. HoldsRight'
  BY <1>1 DEF IInv, HoldsRight, Forked
<1>4. ChildRight'
  BY <1>1 DEF ChildRight, Running
<1>5. EvidenceRight'
  BY <1>1 DEF EvidenceRight, Running
<1>6. HistoryRight'
  BY <1>1 DEF IInv, HistoryRight, InTest, Forked
<1>7. PassedMeansDied'
  <2>1. ASSUME NEW k \in Positions, k # at["parent"]
        PROVE  (DiedRightly(k)' <=> DiedRightly(k)) /\ (Mistaken(k)' <=> Mistaken(k))
    BY <2>1 DEF DiedRightly, Mistaken, Death
  <2>2. verdict'[at["parent"]] = "none"
    BY WhileChildRuns
  <2> QED
    BY <1>1, <2>1, <2>2 DEF IInv, PassedMeansDied
<1> QED
  BY <1>2, <1>3, <1>4, <1>5, <1>6, <1>7 DEF IInv

LEMMA ExecInv == ASSUME IInv, Exec PROVE IInv'
<1>1. /\ pc["child"] = "exec" /\ pc'["child"] = "body" /\ pc'["parent"] = pc["parent"]
      /\ pc' \in [Processes -> DeathPlaces]
      /\ at' \in [Processes -> Nat] /\ at'["parent"] = at["parent"] /\ at'["child"] = 1
      /\ count' \in [Processes -> Nat] /\ count'["parent"] = count["parent"]
      /\ count'["child"] = 0
      /\ flag' \in [Processes -> Nat \X Nat] /\ flag'["parent"] = flag["parent"]
      /\ flag'["child"] = <<count["parent"], at["parent"]>>
      /\ captured' \in [Processes -> {"no", "file", "lost"}]
      /\ captured'["parent"] = captured["parent"] /\ captured'["child"] = "no"
      /\ UNCHANGED <<style, body, failing, writers, bytes, reading, verdict, ended, log, did>>
  BY DEF Exec, To, IInv, TypeOK, Processes, DeathPlaces, Running, tools, channel, judged
<1>2. TypeOK'
  BY <1>1 DEF IInv, TypeOK, Positions
<1>3. ChildRight'
  <2>1. style = "threadsafe" /\ at["parent"] >= 1
    BY <1>1 DEF IInv, ChildRight, ParentRight
  <2>2. DeathsBefore(1)' = DeathsBefore(1)
    BY <1>1 DEF DeathsBefore
  <2> QED
    BY <1>1, <2>1, <2>2, CountFirst DEF IInv, ChildRight, Running, Forked
<1> QED
  BY <1>1, <1>2, <1>3, ChildMoves DEF Running

LEMMA EndBodyChild == ASSUME IInv, EndBody("child") PROVE FALSE
<1>1. /\ pc["child"] = "body" /\ at["child"] \notin Positions
  BY DEF EndBody
<1>2. at["child"] >= 1 /\ at["child"] <= at["parent"] /\ at["parent"] \in Positions
  BY <1>1, WhileChildRuns DEF IInv, ChildRight, Running
<1> QED
  BY <1>1, <1>2, BodyFacts DEF IInv, TypeOK, Processes

\* The child goes on with its body, short of its death test.
LEMMA ChildAdvances ==
  ASSUME IInv, pc["child"] = "body", pc' = pc, at["child"] < at["parent"],
         at' = [at EXCEPT !["child"] = @ + 1], count' \in [Processes -> Nat],
         count'["parent"] = count["parent"],
         count'["child"] = IF Here("child").kind = "death" THEN count["child"] + 1
                           ELSE count["child"],
         UNCHANGED <<style, body, failing, flag, captured, writers, bytes, reading, verdict,
                     ended, log, did>>
  PROVE  IInv'
<1>1. /\ at["child"] \in Nat /\ at["parent"] \in Nat /\ at["child"] >= 1
      /\ at["parent"] \in Positions
  BY WhileChildRuns DEF IInv, TypeOK, ChildRight, Processes, Running
<1>2. at["child"] \in Positions
  BY <1>1, BodyFacts DEF IInv
<1>3. /\ at' \in [Processes -> Nat] /\ at'["parent"] = at["parent"]
      /\ at'["child"] = at["child"] + 1
  BY DEF IInv, TypeOK, Processes
<1>4. TypeOK'
  BY <1>3 DEF IInv, TypeOK, Positions
<1>5. count'["child"] = Cardinality(DeathsBefore(at["child"]))'
  <2>1. DeathsBefore(at["child"])' = DeathsBefore(at["child"] + 1)
    BY <1>3 DEF DeathsBefore
  <2> QED
    BY <1>2, <2>1, CountNext DEF IInv, ChildRight, Here
<1>6. ChildRight'
  BY <1>1, <1>3, <1>5 DEF IInv, ChildRight, Running, Forked
<1> QED
  BY <1>3, <1>4, <1>6, ChildMoves DEF Running

LEMMA CreateChild == ASSUME IInv, Create("child") PROVE IInv'
<1>1. /\ pc["child"] = "body" /\ at["child"] \in Positions /\ Here("child").kind = "death"
      /\ count' = [count EXCEPT !["child"] = @ + 1]
      /\ UNCHANGED <<style, body, failing, flag, captured, writers, bytes, reading, outcome,
                     status, ended, log, did>>
  BY DEF Create, tools, channel
<1>2. /\ count' \in [Processes -> Nat] /\ count'["child"] = count["child"] + 1
      /\ count'["parent"] = count["parent"]
  BY <1>1 DEF IInv, TypeOK, Processes
<1>3. /\ flag["child"] = <<count["parent"], at["parent"]>> /\ at["child"] <= at["parent"]
      /\ captured["child"] = "no" /\ style = "threadsafe"
      /\ count["child"] = Cardinality(DeathsBefore(at["child"]))
  BY <1>1 DEF IInv, ChildRight
<1>4. /\ at["parent"] \in Positions
      /\ count["parent"] = Cardinality(DeathsBefore(at["parent"])) + 1
  BY <1>1, WhileChildRuns DEF Running
<1>5. at["child"] \in Nat /\ at["parent"] \in Nat /\ count["parent"] >= 1
  BY <1>4, CountNext DEF IInv, TypeOK, Processes
<1>6. flag["child"] # <<0, 0>>
  BY <1>3, <1>5
<1>7. CASE at["child"] = at["parent"]
  <2>1. flag["child"] = <<count'["child"], at["child"]>>
    BY <1>2, <1>3, <1>4, <1>7
  <2>2. pc' = [pc EXCEPT !["child"] = "statement"] /\ UNCHANGED <<at, verdict>>
    BY <1>6, <2>1 DEF Create, To
  <2>3. /\ pc' \in [Processes -> DeathPlaces] /\ pc'["child"] = "statement"
        /\ pc'["parent"] = pc["parent"]
    BY <2>2 DEF IInv, TypeOK, Processes, DeathPlaces, Running
  <2>4. TypeOK'
    BY <1>1, <1>2, <2>2, <2>3 DEF IInv, TypeOK, Positions
  <2>5. ChildRight'
    BY <1>1, <1>3, <1>7, <2>2, <2>3 DEF IInv, ChildRight, Running, Forked
  <2> QED
    BY <1>1, <1>2, <2>2, <2>3, <2>4, <2>5, ChildMoves DEF Running
<1>8. CASE at["child"] # at["parent"]
  <2>1. flag["child"] # <<count'["child"], at["child"]>>
    BY <1>3, <1>8
  <2>2. pc' = pc /\ at' = [at EXCEPT !["child"] = @ + 1] /\ UNCHANGED verdict
    BY <1>6, <2>1 DEF Create, Advance
  <2>3. at["child"] < at["parent"]
    BY <1>3, <1>5, <1>8
  <2> QED
    BY <1>1, <1>2, <2>2, <2>3, ChildAdvances
<1> QED
  BY <1>7, <1>8

LEMMA RunStepChild == ASSUME IInv, RunStep("child") PROVE IInv'
<1>1. /\ pc["child"] = "body" /\ at["child"] \in Positions /\ Here("child").kind # "death"
      /\ UNCHANGED <<style, body, failing, count, flag, captured, writers, bytes, reading,
                     verdict, ended, log, did>>
  BY DEF RunStep, tools, channel, judged
<1>2. /\ at["child"] <= at["parent"] /\ at["parent"] \in Positions
      /\ body[at["parent"]].kind = "death" /\ at["child"] >= 1
      /\ \A j \in Positions : j < at["parent"] => body[j].kind # "fatal"
  BY <1>1, WhileChildRuns DEF IInv, ChildRight, Running
<1>3. at["child"] < at["parent"] /\ at["child"] \in Nat /\ at["parent"] \in Nat
  BY <1>1, <1>2 DEF Here, IInv, TypeOK, Processes
<1>4. Here("child").kind = "once"
  <2>1. Here("child").kind \in {"death", "fatal", "once"}
    BY <1>1, BodyFacts DEF IInv, Here, Step
  <2> QED
    BY <1>1, <1>2, <1>3, <2>1 DEF Here
<1>5. CASE pc' = [pc EXCEPT !["child"] = "end"] /\ at' = at
  <2>1. /\ pc' \in [Processes -> DeathPlaces] /\ pc'["child"] = "end"
        /\ pc'["parent"] = pc["parent"]
    BY <1>5 DEF IInv, TypeOK, Processes, DeathPlaces, Running
  <2>2. TypeOK'
    BY <1>1, <1>5, <2>1 DEF IInv, TypeOK, Positions
  <2>3. at["child"] \in 1 .. at["parent"] - 1
    BY <1>2, <1>3
  <2>4. ChildRight'
    BY <1>1, <1>4, <1>5, <2>1, <2>3 DEF IInv, ChildRight, Running, Forked, Here
  <2> QED
    BY <1>1, <1>5, <2>1, <2>2, <2>4, ChildMoves DEF Running
<1>6. CASE pc' = pc /\ at' = [at EXCEPT !["child"] = @ + 1]
  BY <1>1, <1>3, <1>6, ChildAdvances DEF IInv, TypeOK
<1> QED
  BY <1>4, <1>5, <1>6 DEF RunStep, To, Advance

\* The child's last step, flattened.
LEMMA DieFacts ==
  ASSUME IInv, pc["child"] \in Running, NEW how \in Statuses, NEW says, Die(how, says),
         writers' \subseteq writers \cup {"daemon"}, bytes' \in Seq({"L", "T", "R", "I"}),
         did' \in [Positions -> Ends \cup {"none"}]
  PROVE  /\ pc'["child"] = "gone" /\ pc'["parent"] = pc["parent"] /\ ended' \in Statuses
         /\ UNCHANGED <<style, body, failing, at, count, flag, captured, reading, verdict>>
         /\ TypeOK'
         /\ ended' = how
         /\ captured["parent"] = "file" => log' = says
<1>1. /\ pc' = [pc EXCEPT !["child"] = "gone"] /\ ended' = how
      /\ log' = IF captured["parent"] = "file" THEN log \cup says ELSE log
      /\ UNCHANGED <<style, body, failing, at, count, flag, captured, reading, verdict>>
  BY DEF Die, To, tools, judged
<1>2. /\ pc' \in [Processes -> DeathPlaces] /\ pc'["child"] = "gone"
      /\ pc'["parent"] = pc["parent"]
  BY <1>1 DEF IInv, TypeOK, Processes, DeathPlaces
<1>3. TypeOK'
  BY <1>1, <1>2 DEF IInv, TypeOK, Positions
<1>4. log = {}
  BY WhileChildRuns
<1> QED
  BY <1>1, <1>2, <1>3, <1>4

LEMMA MistakenSame ==
  ASSUME NEW k, UNCHANGED <<style, body, failing>>, did'[k] = did[k]
  PROVE  Mistaken(k)' <=> Mistaken(k)
BY DEF Mistaken

\* A child that goes before it has come to its statement.
LEMMA DiesBefore ==
  ASSUME IInv, pc["child"] \in Running, NEW how \in Statuses, NEW says, Die(how, says),
         writers' = writers \ {"child"}, bytes' = bytes, did' = did,
         Mistaken(at["parent"])
  PROVE  IInv'
<1>1. bytes' \in Seq({"L", "T", "R", "I"}) /\ did' \in [Positions -> Ends \cup {"none"}]
  BY DEF IInv, TypeOK
<1>2. /\ pc'["child"] = "gone" /\ pc'["parent"] = pc["parent"] /\ ended' \in Statuses
      /\ UNCHANGED <<style, body, failing, at, count, flag, captured, reading, verdict>>
      /\ TypeOK'
  BY <1>1, DieFacts
<1>3. did'[at["parent"]] = "none" /\ Mistaken(at["parent"])'
  BY <1>2, WhileChildRuns, MistakenSame
<1>4. Told(at["parent"], ended, bytes, log)'
  BY <1>2, <1>3 DEF Told
<1>5. bytes' # <<>> /\ bytes'[1] = "I" => failing # {}
  BY DEF IInv, EvidenceRight
<1> QED
  BY <1>2, <1>4, <1>5, ChildDies

LEMMA ExecFailsInv == ASSUME IInv, ExecFails PROVE IInv'
<1>1. /\ pc["child"] = "exec" /\ failing \cap {"chdir", "execv"} # {}
      /\ Die("signal", {"exec_failed"}) /\ writers' = writers \ {"child"}
      /\ bytes' = bytes /\ did' = did
  BY DEF ExecFails, May
<1>2. Mistaken(at["parent"])
  BY <1>1, WhileChildRuns DEF IInv, ChildRight, Mistaken, Running
<1> QED
  BY <1>1, <1>2, DiesBefore DEF Running, Statuses

LEMMA MainReturnsInv == ASSUME IInv, MainReturns PROVE IInv'
<1>1. /\ pc["child"] = "end" /\ writers' = writers \ {"child"} /\ bytes' = bytes /\ did' = did
      /\ Die(IF failed["child"] THEN "exit1" ELSE "exit0", {})
  BY DEF MainReturns
<1>2. Mistaken(at["parent"])
  BY <1>1, WhileChildRuns DEF IInv, ChildRight, Mistaken, Running
<1> QED
  BY <1>1, <1>2, DiesBefore DEF Running, Statuses

\* The statement of the parent's death test, by the ways it may end.
LEMMA StatementInv == ASSUME IInv, Statement PROVE IInv'
<1> DEFINE k    == at["parent"]
           st   == body[k]
           says == IF st.says THEN {"own"} ELSE {}
<1>1. /\ pc["child"] = "statement" /\ at["child"] = k /\ pc["child"] \in Running
      /\ captured["child"] = "no" <=> style # "fast"
      /\ k \in Positions /\ bytes = <<>> /\ style \in {"fast", "threadsafe"}
  <2>1. pc["child"] = "statement"
    BY DEF Statement
  <2> QED
    BY <2>1, WhileChildRuns DEF IInv, ChildRight, ParentRight, Running, InTest
<1>2. Here("child") = st /\ st \in Step /\ st.ends \in Ends /\ st.says \in BOOLEAN
  BY <1>1, BodyFacts DEF IInv, Here, Step
<1>3. /\ did' = [did EXCEPT ![k] = st.ends] /\ did'[k] = st.ends
      /\ did' \in [Positions -> Ends \cup {"none"}]
      /\ \A j \in Positions : j # k => did'[j] = did[j]
  BY <1>1, <1>2 DEF Statement, IInv, TypeOK
<1> DEFINE Ended(how, words, ws, bs) ==
             /\ how \in Statuses /\ Die(how, words) /\ writers' = ws /\ bytes' = bs
             /\ ws \subseteq writers \cup {"daemon"} /\ ("parent" \in ws <=> "parent" \in writers)
             /\ bs \in Seq({"L", "T", "R", "I"})
             /\ bs # <<>> /\ bs[1] = "I" => "write" \in failing
           \* what there is to tell of such an end
           Tells(how, words, bs) ==
             \/ /\ \/ st.ends = how
                   \/ st.ends \in {"locks", "daemon"} /\ how = "exit1"
                   \/ st.ends = "nested" /\ style = "fast" /\ how = "signal"
                /\ bs = <<>> /\ ("own" \in words <=> st.says)
             \/ /\ st.ends \in {"lives", "throws", "returns", "nested"}
                /\ st.ends = "nested" => style # "fast"
                /\ bs # <<>> \/ "write" \in failing
<1>4. ASSUME NEW how, NEW words, NEW ws, NEW bs, Ended(how, words, ws, bs),
             Tells(how, words, bs)
      PROVE  IInv'
  <2>1. /\ pc'["child"] = "gone" /\ pc'["parent"] = pc["parent"] /\ ended' = how
        /\ UNCHANGED <<style, body, failing, at, count, flag, captured, reading, verdict>>
        /\ TypeOK' /\ (captured["parent"] = "file" => log' = words)
    BY <1>1, <1>3, <1>4, DieFacts
  <2>2. /\ Death(k)' = (IF st.ends \in Statuses THEN st.ends
                        ELSE IF st.ends \in {"locks", "daemon"} THEN "exit1"
                        ELSE IF st.ends = "nested" /\ style = "fast" THEN "signal" ELSE "none")
    BY <1>2, <1>3, <2>1 DEF Death, Statuses, Ends
  <2>3. st.ends # "none"
    BY <1>2 DEF Ends
  <2>4. ASSUME \/ st.ends = how
               \/ st.ends \in {"locks", "daemon"} /\ how = "exit1"
               \/ st.ends = "nested" /\ style = "fast" /\ how = "signal",
               bs = <<>>, "own" \in words <=> st.says
        PROVE  Told(k, ended, bytes, log)'
    <3>1. Death(k)' = how /\ how # "none"
      BY <1>4, <2>2, <2>4 DEF Statuses
    <3> QED
      BY <1>3, <1>4, <2>1, <2>4, <3>1 DEF Told
  <2>5. ASSUME st.ends \in {"lives", "throws", "returns", "nested"},
               st.ends = "nested" => style # "fast",
               bs # <<>> \/ "write" \in failing
        PROVE  Told(k, ended, bytes, log)'
    <3>1. Death(k)' = "none"
      BY <2>2, <2>5 DEF Statuses
    <3>2. "write" \in failing => Mistaken(k)'
      BY <1>3, <2>1, <2>5 DEF Mistaken
    <3> QED
      BY <1>3, <1>4, <2>1, <2>3, <2>5, <3>1, <3>2 DEF Told
  <2>6. Told(k, ended, bytes, log)'
    BY <1>4, <2>4, <2>5
  <2>7. bytes' # <<>> /\ bytes'[1] = "I" => failing # {}
    BY <1>4
  <2> QED
    BY <1>1, <1>3, <1>4, <2>1, <2>6, <2>7, ChildDies
<1>5. "own" \in says <=> st.says
  BY <1>2
<1>6. /\ ("parent" \in writers \ {"child"} <=> "parent" \in writers)
      /\ ("parent" \in (writers \ {"child"}) \cup {"daemon"} <=> "parent" \in writers)
  OBVIOUS
<1>7. /\ bytes \in Seq({"L", "T", "R", "I"})
      /\ \A b \in {"L", "T", "R", "I"} :
           /\ Append(bytes, b) \in Seq({"L", "T", "R", "I"})
           /\ Append(bytes, b) # <<>> /\ Append(bytes, b)[1] = b
  <2>1. bytes \in Seq({"L", "T", "R", "I"})
    BY DEF IInv, TypeOK
  <2> QED
    BY <1>1, <2>1
<1>8. ASSUME st.ends \in Statuses,
             Die(st.ends, says),
             writers' = writers \ {"child"}, bytes' = bytes
      PROVE  IInv'
  <2>1. Ended(st.ends, says, writers \ {"child"}, bytes)
    BY <1>6, <1>7, <1>8 DEF Statuses, StatusByte
  <2>2. Tells(st.ends, says, bytes)
    BY <1>1, <1>5, <1>7, <1>8 DEF Statuses, StatusByte
  <2> HIDE DEF Ended, Tells, says
  <2> QED
    BY <1>4, <2>1, <2>2
<1>9. ASSUME st.ends = "locks",
             Die("exit1", says),
             writers' = writers \ {"child"}, bytes' = bytes
      PROVE  IInv'
  <2>1. Ended("exit1", says, writers \ {"child"}, bytes)
    BY <1>6, <1>7, <1>9 DEF Statuses, StatusByte
  <2>2. Tells("exit1", says, bytes)
    BY <1>1, <1>5, <1>7, <1>9 DEF Statuses, StatusByte
  <2> HIDE DEF Ended, Tells, says
  <2> QED
    BY <1>4, <2>1, <2>2
<1>10. ASSUME ComesBack(st.ends),
             Die("exit1", says),
             writers' = writers \ {"child"}, bytes' = Append(bytes, StatusByte(st.ends))
      PROVE  IInv'
  <2>0. /\ st.ends \in {"lives", "throws", "returns", "nested"}
        /\ st.ends = "nested" => style # "fast"
    BY <1>1, <1>10 DEF ComesBack
  <2>1. Ended("exit1", says, writers \ {"child"}, Append(bytes, StatusByte(st.ends)))
    BY <1>6, <1>7, <1>10, <2>0 DEF Statuses, StatusByte
  <2>2. Tells("exit1", says, Append(bytes, StatusByte(st.ends)))
    BY <1>7, <2>0 DEF StatusByte
  <2> HIDE DEF Ended, Tells, says
  <2> QED
    BY <1>4, <2>1, <2>2
<1>11. ASSUME ComesBack(st.ends) /\ "write" \in failing, NEW how \in {"signal", "exit1"},
             Die(how, says),
             writers' = writers \ {"child"}, bytes' \in {bytes, Append(bytes, "I")}
      PROVE  IInv'
  <2>0. /\ st.ends \in {"lives", "throws", "returns", "nested"}
        /\ st.ends = "nested" => style # "fast"
    BY <1>1, <1>11 DEF ComesBack
  <2>1. Ended(how, says, writers \ {"child"}, bytes')
    BY <1>6, <1>7, <1>11 DEF Statuses
  <2>2. Tells(how, says, bytes')
    BY <1>11, <2>0
  <2> HIDE DEF Ended, Tells, says
  <2> QED
    BY <1>4, <2>1, <2>2
<1>12. ASSUME st.ends = "daemon",
             Die("exit1", says),
             writers' = (writers \ {"child"}) \cup {"daemon"}, bytes' = bytes
      PROVE  IInv'
  <2>1. Ended("exit1", says, (writers \ {"child"}) \cup {"daemon"}, bytes)
    BY <1>6, <1>7, <1>12 DEF Statuses, StatusByte
  <2>2. Tells("exit1", says, bytes)
    BY <1>1, <1>5, <1>7, <1>12 DEF Statuses, StatusByte
  <2> HIDE DEF Ended, Tells, says
  <2> QED
    BY <1>4, <2>1, <2>2
<1>13. ASSUME st.ends = "nested" /\ captured["child"] # "no",
             Die("signal", says \cup {"only_one_capturer"}),
             writers' = writers \ {"child"}, bytes' = bytes
      PROVE  IInv'
  <2>1. Ended("signal", says \cup {"only_one_capturer"}, writers \ {"child"}, bytes)
    BY <1>6, <1>7, <1>13 DEF Statuses, StatusByte
  <2>2. Tells("signal", says \cup {"only_one_capturer"}, bytes)
    BY <1>1, <1>5, <1>7, <1>13 DEF Statuses, StatusByte
  <2> HIDE DEF Ended, Tells, says
  <2> QED
    BY <1>4, <2>1, <2>2
<1> QED
  BY <1>1, <1>2, <1>8, <1>9, <1>10, <1>11, <1>12, <1>13
  DEF Statement, May, Statuses, Ends

-----------------------------------------------------------------------------
(* The invariant is one, and what follows from it.                         *)

LEMMA InitInv == Init => IInv
<1> SUFFICES ASSUME Init PROVE IInv
  OBVIOUS
<1>1. TypeOK
  BY DEF Init, TypeOK, DeathPlaces, InTest, Running, Processes
<1>2. ParentRight
  <2>1. pc["parent"] = "body" /\ at["parent"] = 1 /\ count["parent"] = 0 /\ flag["parent"] = <<0, 0>>
    BY DEF Init, Processes
  <2>2. \A j \in Positions : ~(j < 1)
    BY <1>1, BodyFacts
  <2> QED
    BY <2>1, <2>2, CountFirst DEF ParentRight, InTest
<1>3. HoldsRight
  BY DEF Init, HoldsRight, Forked, Processes
<1>4. ChildRight
  BY DEF Init, ChildRight, Forked, Running, Processes
<1>5. EvidenceRight /\ HistoryRight /\ PassedMeansDied
  BY DEF Init, EvidenceRight, HistoryRight, PassedMeansDied, Processes
<1> QED
  BY <1>1, <1>2, <1>3, <1>4, <1>5 DEF IInv

LEMMA StutterInv == ASSUME IInv, UNCHANGED vars PROVE IInv'
<1>1. UNCHANGED <<style, body, failing, pc, at, count, flag, captured, writers, bytes, reading,
                  outcome, status, verdict, ended, log, did>>
  BY DEF vars
<1>2. TypeOK' /\ ParentRight' /\ HoldsRight'
  BY <1>1 DEF IInv, TypeOK, ParentRight, HoldsRight, Positions, Here, DeathsBefore
<1>3. ChildRight' /\ HistoryRight'
  BY <1>1 DEF IInv, ChildRight, HistoryRight, Positions, DeathsBefore
<1>4. EvidenceRight'
  BY <1>1 DEF IInv, EvidenceRight, Told, Mistaken, Death, Outcome
<1>5. PassedMeansDied'
  BY <1>1, SameVerdicts DEF IInv
<1> QED
  BY <1>2, <1>3, <1>4, <1>5 DEF IInv

\* Where the parent aborts, a system call has failed.
LEMMA Aborts ==
  ASSUME IInv, DeathTestAbort, OpenPipe \/ Fork \/ Passed \/ FailFromInternalError
  PROVE  IInv'
<1>1. DeathTestAbort => pc'["parent"] = "aborted"
  BY DEF DeathTestAbort, To, IInv, TypeOK, Processes
<1>2. pc["parent"] \in {"assume", "fork", "read", "judge"}
  BY DEF OpenPipe, Fork, Passed, FailFromInternalError, Answered
<1>3. failing # {}
  <2>1. CASE OpenPipe
    BY <1>1, <2>1 DEF OpenPipe, May, To, IInv, TypeOK, Processes
  <2>2. CASE Fork
    BY <1>1, <2>2 DEF Fork, May
  <2>3. CASE Passed
    <3>1. captured["parent"] = "lost"
      BY <1>1, <2>3 DEF Passed, DeathTestAbort, Fail, To, Advance, IInv, TypeOK, Processes
    <3> QED
      BY <3>1 DEF IInv, HoldsRight
  <2>4. CASE FailFromInternalError
    BY <2>4 DEF FailFromInternalError, InternalError, IInv, EvidenceRight
  <2> QED
    BY <2>1, <2>2, <2>3, <2>4
<1>4. pc["child"] \notin Running
  <2>1. CASE FailFromInternalError
    BY <2>1 DEF FailFromInternalError, InternalError, IInv, ChildRight
  <2>2. CASE ~FailFromInternalError
    BY <2>2, NoChild DEF OpenPipe, Fork, Passed
  <2> QED
    BY <2>1, <2>2
<1> QED
  BY <1>2, <1>3, <1>4, AbortInv

LEMMA NextInv == IInv /\ [Next]_vars => IInv'
<1> SUFFICES ASSUME IInv, [Next]_vars PROVE IInv'
  OBVIOUS
<1>2. CASE Parent
  <2>1. CASE RunStep("parent")
    BY <2>1, RunStepParent
  <2>2. CASE EndBody("parent")
    BY <2>2, EndBodyParent
  <2>3. CASE Create("parent")
    BY <2>3, CreateParent
  <2>4. CASE OpenPipe
    <3>1. CASE DeathTestAbort
      BY <2>4, <3>1, Aborts
    <3> QED
      BY <2>4, <3>1, OpenPipeInv
  <2>5. CASE CaptureStderr
    BY <2>5, CaptureStderrInv
  <2>6. CASE Fork
    <3>1. CASE DeathTestAbort
      BY <2>6, <3>1, Aborts
    <3> QED
      BY <2>6, <3>1, ForkInv
  <2>7. CASE CloseWriteEnd
    BY <2>7, CloseWriteEndInv
  <2>8. CASE ReadAndInterpretStatusByte
    BY <2>8, ReadInv
  <2>9. CASE WaitPid
    BY <2>9, WaitPidInv
  <2>10. CASE Passed
    <3>1. CASE DeathTestAbort
      BY <2>10, <3>1, Aborts
    <3> QED
      BY <2>10, <3>1, PassedInv
  <2>11. CASE FailFromInternalError
    BY <2>11, Aborts DEF FailFromInternalError
  <2> QED
    BY <1>2, <2>1, <2>2, <2>3, <2>4, <2>5, <2>6, <2>7, <2>8, <2>9, <2>10, <2>11 DEF Parent
<1>3. CASE Child
  BY <1>3, RunStepChild, EndBodyChild, CreateChild, ExecInv, ExecFailsInv, StatementInv,
     MainReturnsInv DEF Child
<1>4. CASE Worker \/ DaemonEnds
  BY <1>4, WorkerInv, DaemonEndsInv
<1>5. CASE UNCHANGED vars
  BY <1>5, StutterInv
<1> QED
  BY <1>2, <1>3, <1>4, <1>5 DEF Next, Terminated

LEMMA Invariance == Spec => []IInv
<1> QED
  BY InitInv, NextInv, PTL DEF Spec

\* Whatever the body, the style and the system calls that fail, the variables keep
\* to their types; above all the two processes' places in the code.
THEOREM TypeCorrect == Spec => []TypeOK
<1>1. IInv => TypeOK
  BY DEF IInv
<1> QED
  BY <1>1, Invariance, PTL

\* For every body: a death test passes only if its own statement ended the child that
\* ran it, with the status and the words expected, or by one of the mistakes that
\* Mistaken names; and it fails only if the statement did not (DeathTestImpl::Passed).
THEOREM VerdictsRight == Spec => []PassedMeansDied
<1>1. IInv => PassedMeansDied
  BY DEF IInv
<1> QED
  BY <1>1, Invariance, PTL

\* For every body: between its death tests the parent holds no pipe, has stderr back
\* and has no child left, and it is ended only by a system call that failed.
THEOREM ParentKeeps == Spec => []ParentUnharmed
<1>1. IInv => ParentUnharmed
  BY DEF IInv, ParentUnharmed, HoldsRight, Forked
<1> QED
  BY <1>1, Invariance, PTL

-----------------------------------------------------------------------------
(* GTestFilter: a pattern from p and a name from n are left.               *)

Star(pattern, p)  == p <= Len(pattern) /\ pattern[p] = "*"
Meets(pattern, name, p, n) ==
  /\ p <= Len(pattern) /\ ~Star(pattern, p)
  /\ n <= Len(name) /\ pattern[p] \in {"?", name[n]}
BothEnd(pattern, name, p, n) == p = Len(pattern) + 1 /\ n = Len(name) + 1

Spots(pattern, name) == (1 .. Len(pattern) + 1) \X (1 .. Len(name) + 1)

\* What Denotes defines, before it is known to exist.
DenotesFrom(g, pattern, name, p, n) ==
  IF p = Len(pattern) + 1 THEN n = Len(name) + 1
  ELSE IF pattern[p] = "*" THEN \E k \in n .. Len(name) + 1 : g[<<p + 1, k>>]
  ELSE n < Len(name) + 1 /\ pattern[p] \in {"?", name[n]} /\ g[<<p + 1, n + 1>>]
Rest(pattern, name) ==
  CHOOSE rest : rest = [x \in Spots(pattern, name) |->
                          DenotesFrom(rest, pattern, name, x[1], x[2])]

LEMMA DenotesRecurs ==
  ASSUME NEW S, NEW pattern \in Seq(S), NEW name \in Seq(S)
  PROVE  \E g : g = [x \in Spots(pattern, name) |-> DenotesFrom(g, pattern, name, x[1], x[2])]
<1> DEFINE P == Len(pattern) + 1
           N == Len(name) + 1
           Right(g, m) == \A p \in 1 .. P, n \in 1 .. N :
                            p > P - m => g[<<p, n>>] = DenotesFrom(g, pattern, name, p, n)
           On(g) == g = [x \in Spots(pattern, name) |-> g[x]]
           I == {m \in Nat : \E g : On(g) /\ Right(g, m)}
<1>1. P \in Nat \ {0} /\ N \in Nat \ {0}
  OBVIOUS
<1>2. 0 \in I
  <2> DEFINE g == [x \in Spots(pattern, name) |-> FALSE]
  <2>1. On(g)
    OBVIOUS
  <2>2. \A p \in 1 .. P : ~(p > P - 0)
    BY <1>1
  <2> HIDE DEF g
  <2> QED
    BY <2>1, <2>2
<1>3. ASSUME NEW m \in I PROVE m + 1 \in I
  <2>1. PICK g : On(g) /\ Right(g, m)
    OBVIOUS
  <2> DEFINE h == [x \in Spots(pattern, name) |->
                     IF x[1] = P - m THEN DenotesFrom(g, pattern, name, x[1], x[2]) ELSE g[x]]
  <2>2. ASSUME NEW p \in 1 .. P, NEW n \in 1 .. N, p > P - (m + 1)
        PROVE  h[<<p, n>>] = DenotesFrom(h, pattern, name, p, n)
    <3>1. h[<<p, n>>] = DenotesFrom(g, pattern, name, p, n)
      <4>1. CASE p = P - m
        BY <4>1 DEF Spots
      <4>2. CASE p > P - m
        BY <2>1, <4>2 DEF Spots
      <4> QED
        BY <1>1, <2>2, <4>1, <4>2
    <3>2. ASSUME p # P, NEW k \in 1 .. N PROVE h[<<p + 1, k>>] = g[<<p + 1, k>>]
      BY <1>1, <2>2, <3>2 DEF Spots
    <3> HIDE DEF h
    <3>3. DenotesFrom(g, pattern, name, p, n) = DenotesFrom(h, pattern, name, p, n)
      <4>1. CASE p = P
        BY <4>1 DEF DenotesFrom
      <4>2. CASE p # P
        <5>1. \A k \in n .. N : h[<<p + 1, k>>] = g[<<p + 1, k>>]
          BY <3>2, <4>2
        <5>2. n < N => h[<<p + 1, n + 1>>] = g[<<p + 1, n + 1>>]
          BY <3>2, <4>2
        <5> QED
          BY <4>2, <5>1, <5>2 DEF DenotesFrom
      <4> QED
        BY <4>1, <4>2
    <3> QED
      BY <3>1, <3>3
  <2>3. On(h) /\ Right(h, m + 1)
    BY <2>2
  <2>4. m + 1 \in Nat
    OBVIOUS
  <2> HIDE DEF h
  <2> QED
    BY <2>3, <2>4
<1>4. I = Nat
  <2> HIDE DEF I
  <2> QED
    BY <1>2, <1>3, SetInduction DEF I
<1>5. PICK g : On(g) /\ Right(g, P)
  BY <1>1, <1>4
<1>6. ASSUME NEW x \in Spots(pattern, name)
      PROVE  g[x] = DenotesFrom(g, pattern, name, x[1], x[2])
  <2>1. x = <<x[1], x[2]>> /\ x[1] \in 1 .. P /\ x[2] \in 1 .. N
    BY DEF Spots
  <2> QED
    BY <1>1, <1>5, <2>1
<1> QED
  BY <1>5, <1>6

LEMMA RestRight ==
  ASSUME NEW S, NEW pattern \in Seq(S), NEW name \in Seq(S),
         NEW p \in 1 .. Len(pattern) + 1, NEW n \in 1 .. Len(name) + 1
  PROVE  Rest(pattern, name)[<<p, n>>] = DenotesFrom(Rest(pattern, name), pattern, name, p, n)
<1> DEFINE g == Rest(pattern, name)
<1>1. g = [x \in Spots(pattern, name) |-> DenotesFrom(g, pattern, name, x[1], x[2])]
  BY DenotesRecurs DEF Rest
<1> HIDE DEF g
<1>2. <<p, n>> \in Spots(pattern, name)
  BY DEF Spots
<1>3. g[<<p, n>>] = DenotesFrom(g, pattern, name, <<p, n>>[1], <<p, n>>[2])
  BY <1>1, <1>2
<1> QED
  BY <1>3 DEF g

LEMMA DenotesRest ==
  ASSUME NEW pattern, NEW name
  PROVE  Denotes(pattern, name) = Rest(pattern, name)[<<1, 1>>]
BY DEF Denotes, Rest, DenotesFrom, Spots

\* The pattern is met character by character, up to a star or to both ends.
Run(pattern, name, p, n, k) == \A i \in 0 .. k - 1 : Meets(pattern, name, p + i, n + i)
Stop(pattern, name, p, n)   == Star(pattern, p) \/ BothEnd(pattern, name, p, n)
Reaches(pattern, name, p, n) ==
  \E k \in Nat : Run(pattern, name, p, n, k) /\ Stop(pattern, name, p + k, n + k)

LEMMA ReachesStep ==
  ASSUME NEW S, NEW pattern \in Seq(S), NEW name \in Seq(S),
         NEW p \in 1 .. Len(pattern) + 1, NEW n \in 1 .. Len(name) + 1
  PROVE  Reaches(pattern, name, p, n) <=>
           \/ Star(pattern, p) \/ BothEnd(pattern, name, p, n)
           \/ Meets(pattern, name, p, n) /\ Reaches(pattern, name, p + 1, n + 1)
<1>1. p \in Nat /\ n \in Nat
  OBVIOUS
<1>2. ASSUME Reaches(pattern, name, p, n), ~Stop(pattern, name, p, n)
      PROVE  Meets(pattern, name, p, n) /\ Reaches(pattern, name, p + 1, n + 1)
  <2>1. PICK k \in Nat : Run(pattern, name, p, n, k) /\ Stop(pattern, name, p + k, n + k)
    BY <1>2 DEF Reaches
  <2>2. k # 0
    <3>1. p + 0 = p /\ n + 0 = n
      BY <1>1
    <3> QED
      BY <1>2, <2>1, <3>1
  <2>3. Meets(pattern, name, p + 0, n + 0)
    <3>1. 0 \in 0 .. k - 1
      BY <2>2
    <3> QED
      BY <2>1, <3>1 DEF Run
  <2>4. Meets(pattern, name, p, n)
    BY <1>1, <2>3
  <2>5. k - 1 \in Nat
    BY <2>2
  <2>6. Run(pattern, name, p + 1, n + 1, k - 1)
    <3> SUFFICES ASSUME NEW i \in 0 .. (k - 1) - 1
                 PROVE  Meets(pattern, name, (p + 1) + i, (n + 1) + i)
      BY DEF Run
    <3>1. i + 1 \in 0 .. k - 1 /\ p + (i + 1) = (p + 1) + i /\ n + (i + 1) = (n + 1) + i
      BY <1>1
    <3>2. Meets(pattern, name, p + (i + 1), n + (i + 1))
      BY <2>1, <3>1 DEF Run
    <3> QED
      BY <3>1, <3>2
  <2>7. (p + 1) + (k - 1) = p + k /\ (n + 1) + (k - 1) = n + k
    BY <1>1
  <2>8. Stop(pattern, name, (p + 1) + (k - 1), (n + 1) + (k - 1))
    BY <2>1, <2>7
  <2>9. Reaches(pattern, name, p + 1, n + 1)
    BY <2>5, <2>6, <2>8 DEF Reaches
  <2> QED
    BY <2>4, <2>9
<1>3. ASSUME Meets(pattern, name, p, n), Reaches(pattern, name, p + 1, n + 1)
      PROVE  Reaches(pattern, name, p, n)
  <2>1. PICK k \in Nat : /\ Run(pattern, name, p + 1, n + 1, k)
                         /\ Stop(pattern, name, (p + 1) + k, (n + 1) + k)
    BY <1>3 DEF Reaches
  <2>2. Run(pattern, name, p, n, k + 1)
    <3> SUFFICES ASSUME NEW i \in 0 .. (k + 1) - 1 PROVE Meets(pattern, name, p + i, n + i)
      BY DEF Run
    <3>1. CASE i = 0
      <4>1. p + i = p /\ n + i = n
        BY <1>1, <3>1
      <4> QED
        BY <1>3, <4>1
    <3>2. CASE i # 0
      <4>1. i - 1 \in 0 .. k - 1 /\ (p + 1) + (i - 1) = p + i /\ (n + 1) + (i - 1) = n + i
        BY <1>1, <3>2
      <4>2. Meets(pattern, name, (p + 1) + (i - 1), (n + 1) + (i - 1))
        BY <2>1, <4>1 DEF Run
      <4> QED
        BY <4>1, <4>2
    <3> QED
      BY <3>1, <3>2
  <2>3. (p + 1) + k = p + (k + 1) /\ (n + 1) + k = n + (k + 1) /\ k + 1 \in Nat
    BY <1>1
  <2>4. Stop(pattern, name, p + (k + 1), n + (k + 1))
    BY <2>1, <2>3
  <2> QED
    BY <2>2, <2>3, <2>4 DEF Reaches
<1>4. ASSUME Stop(pattern, name, p, n) PROVE Reaches(pattern, name, p, n)
  <2>1. p + 0 = p /\ n + 0 = n
    BY <1>1
  <2>2. Run(pattern, name, p, n, 0)
    BY DEF Run
  <2>3. Stop(pattern, name, p + 0, n + 0)
    BY <1>4, <2>1
  <2> QED
    BY <2>2, <2>3 DEF Reaches
<1> QED
  BY <1>2, <1>3, <1>4 DEF Stop

\* What the rest of a pattern denotes, by its first character.
LEMMA RestStep ==
  ASSUME NEW S, NEW pattern \in Seq(S), NEW name \in Seq(S),
         NEW p \in 1 .. Len(pattern) + 1, NEW n \in 1 .. Len(name) + 1
  PROVE  /\ p = Len(pattern) + 1 => (Rest(pattern, name)[<<p, n>>] <=> n = Len(name) + 1)
         /\ Star(pattern, p) =>
              (Rest(pattern, name)[<<p, n>>] <=>
                 \E k \in n .. Len(name) + 1 : Rest(pattern, name)[<<p + 1, k>>])
         /\ p <= Len(pattern) /\ ~Star(pattern, p) =>
              (Rest(pattern, name)[<<p, n>>] <=>
                 Meets(pattern, name, p, n) /\ Rest(pattern, name)[<<p + 1, n + 1>>])
<1> DEFINE g == Rest(pattern, name)
<1>1. g[<<p, n>>] = DenotesFrom(g, pattern, name, p, n)
  BY RestRight
<1> HIDE DEF g
<1>2. Len(pattern) \in Nat /\ Len(name) \in Nat
  OBVIOUS
<1>3. p = Len(pattern) + 1 => (g[<<p, n>>] <=> n = Len(name) + 1)
  BY <1>1 DEF DenotesFrom
<1>4. Star(pattern, p) => (g[<<p, n>>] <=> \E k \in n .. Len(name) + 1 : g[<<p + 1, k>>])
  BY <1>1, <1>2 DEF DenotesFrom, Star
<1>5. ASSUME p <= Len(pattern), ~Star(pattern, p)
      PROVE  g[<<p, n>>] <=> Meets(pattern, name, p, n) /\ g[<<p + 1, n + 1>>]
  <2>1. p # Len(pattern) + 1 /\ pattern[p] # "*"
    BY <1>2, <1>5 DEF Star
  <2>2. g[<<p, n>>] = (n < Len(name) + 1 /\ pattern[p] \in {"?", name[n]} /\ g[<<p + 1, n + 1>>])
    BY <1>1, <2>1 DEF DenotesFrom
  <2>3. n < Len(name) + 1 <=> n <= Len(name)
    BY <1>2
  <2> QED
    BY <1>5, <2>2, <2>3 DEF Meets
<1> QED
  BY <1>3, <1>4, <1>5 DEF g

LEMMA RestEnd ==
  ASSUME NEW S, NEW pattern \in Seq(S), NEW name \in Seq(S),
         NEW p \in 1 .. Len(pattern) + 1, NEW n \in 1 .. Len(name) + 1, p = Len(pattern) + 1
  PROVE  Rest(pattern, name)[<<p, n>>] = (n = Len(name) + 1)
<1> DEFINE g == Rest(pattern, name)
<1>1. g[<<p, n>>] = DenotesFrom(g, pattern, name, p, n)
  BY RestRight
<1> HIDE DEF g
<1>2. DenotesFrom(g, pattern, name, p, n) = (n = Len(name) + 1)
  BY DEF DenotesFrom
<1> QED
  BY <1>1, <1>2 DEF g

LEMMA RestBoolean ==
  ASSUME NEW S, NEW pattern \in Seq(S), NEW name \in Seq(S),
         NEW p \in 1 .. Len(pattern) + 1, NEW n \in 1 .. Len(name) + 1
  PROVE  Rest(pattern, name)[<<p, n>>] \in BOOLEAN
<1> DEFINE g == Rest(pattern, name)
<1>1. g[<<p, n>>] = DenotesFrom(g, pattern, name, p, n)
  BY RestRight
<1> HIDE DEF g
<1>2. DenotesFrom(g, pattern, name, p, n) \in BOOLEAN
  <2>1. CASE p = Len(pattern) + 1
    BY <2>1 DEF DenotesFrom
  <2>2. CASE p # Len(pattern) + 1 /\ pattern[p] = "*"
    BY <2>2 DEF DenotesFrom
  <2>3. CASE p # Len(pattern) + 1 /\ pattern[p] # "*"
    BY <2>3 DEF DenotesFrom
  <2> QED
    BY <2>1, <2>2, <2>3
<1> QED
  BY <1>1, <1>2 DEF g

\* The last star is enough: what a later place of the name could still give to
\* the pattern, this one gives it too, if the next star is reached from it.
LEMMA LastStarSuffices ==
  ASSUME NEW S, NEW pattern \in Seq(S), NEW name \in Seq(S),
         NEW p \in 1 .. Len(pattern) + 1, NEW n \in 1 .. Len(name) + 1,
         NEW k \in n .. Len(name) + 1,
         Reaches(pattern, name, p, n), Rest(pattern, name)[<<p, k>>]
  PROVE  Rest(pattern, name)[<<p, n>>]
<1> DEFINE P == Len(pattern) + 1
           N == Len(name) + 1
           g == Rest(pattern, name)
           Enough(x) == \A y \in 1 .. N : \A z \in y .. N :
                          Reaches(pattern, name, x, y) /\ g[<<x, z>>] => g[<<x, y>>]
           I == {m \in Nat : m < P => Enough(P - m)}
<1>1. P \in Nat \ {0} /\ N \in Nat \ {0}
  OBVIOUS
<1>2. ASSUME NEW x \in 1 .. P, x # P => Enough(x + 1) PROVE Enough(x)
  <2> SUFFICES ASSUME NEW y \in 1 .. N, NEW z \in y .. N,
                      Reaches(pattern, name, x, y), g[<<x, z>>]
               PROVE  g[<<x, y>>]
    OBVIOUS
  <2>1. z \in 1 .. N
    BY <1>1
  <2>2. CASE Star(pattern, x)
    <3>1. ASSUME NEW w \in 1 .. N
          PROVE  g[<<x, w>>] <=> \E i \in w .. N : g[<<x + 1, i>>]
      <4>1. x \in 1 .. Len(pattern) + 1 /\ w \in 1 .. Len(name) + 1
        OBVIOUS
      <4>2. Star(pattern, x) =>
              (Rest(pattern, name)[<<x, w>>] <=>
                 \E k_1 \in w .. Len(name) + 1 : Rest(pattern, name)[<<x + 1, k_1>>])
        BY ONLY pattern \in Seq(S), name \in Seq(S), <4>1, RestStep, Zenon
      <4> QED
        BY <2>2, <4>2
    <3> HIDE DEF g
    <3>3. PICK i \in z .. N : g[<<x + 1, i>>]
      BY <2>1, <3>1
    <3>4. i \in y .. N
      BY <1>1
    <3> QED
      BY <3>1, <3>3, <3>4
  <2>3. CASE BothEnd(pattern, name, x, y)
    BY <2>3, RestStep DEF BothEnd
  <2>4. CASE ~Star(pattern, x) /\ ~BothEnd(pattern, name, x, y)
    <3>1. Meets(pattern, name, x, y) /\ Reaches(pattern, name, x + 1, y + 1)
      BY <2>4, ReachesStep
    <3>2. x <= Len(pattern) /\ y <= Len(name)
      BY <3>1 DEF Meets
    <3>3. Meets(pattern, name, x, z) /\ g[<<x + 1, z + 1>>]
      BY <2>1, <2>4, <3>2, RestStep
    <3>4. z <= Len(name)
      BY <3>3 DEF Meets
    <3>5. y + 1 \in 1 .. N /\ z + 1 \in y + 1 .. N /\ x # P
      BY <1>1, <3>2, <3>4
    <3>6. g[<<x + 1, y + 1>>]
      BY <1>2, <3>1, <3>3, <3>5
    <3> QED
      BY <2>4, <3>1, <3>2, <3>6, RestStep
  <2> QED
    BY <2>2, <2>3, <2>4
<1> HIDE DEF g, Enough
<1>3. 0 \in I
  <2>1. P - 0 \in 1 .. P /\ P - 0 = P
    BY <1>1
  <2> QED
    BY <1>2, <2>1
<1>4. ASSUME NEW m \in I PROVE m + 1 \in I
  <2>1. m + 1 < P => m < P /\ P - (m + 1) \in 1 .. P /\ (P - (m + 1)) + 1 = P - m
    BY <1>1
  <2> QED
    BY <1>2, <2>1
<1>5. I = Nat
  <2> HIDE DEF I
  <2> QED
    BY <1>3, <1>4, SetInduction DEF I
<1>6. P - p \in I /\ P - p < P /\ P - (P - p) = p
  <2>1. P - p \in Nat /\ P - p < P /\ P - (P - p) = p
    BY <1>1
  <2> HIDE DEF I
  <2> QED
    BY <1>5, <2>1
<1>7. Enough(p)
  BY <1>6
<1> QED
  BY <1>7 DEF Enough, g

-----------------------------------------------------------------------------
(* GTestFilter: the loop of PatternMatchesString.                          *)

Slots(pattern, name) ==
  (1 .. Len(pattern) + 1) \X (1 .. Len(name) + 1)
    \X (1 .. Len(pattern) + 1) \X (1 .. (Len(name) + 1) + 1)

\* What PatternMatchesString defines, before it is known to exist.
RoundsFrom(g, pattern, name, p, n, rp, rn) ==
  IF p = Len(pattern) + 1 /\ n = Len(name) + 1 THEN TRUE
  ELSE IF p < Len(pattern) + 1 /\ pattern[p] = "*" THEN g[<<p + 1, n, p, n + 1>>]
  ELSE IF p < Len(pattern) + 1 /\ n < Len(name) + 1 /\ pattern[p] \in {"?", name[n]}
         THEN g[<<p + 1, n + 1, rp, rn>>]
  ELSE IF 1 < rn /\ rn <= Len(name) + 1 THEN g[<<rp, rn, rp, rn>>]
  ELSE FALSE
Rounds(pattern, name) ==
  CHOOSE rounds : rounds = [r \in Slots(pattern, name) |->
                              RoundsFrom(rounds, pattern, name, r[1], r[2], r[3], r[4])]

\* What a round is to find: what is left is met, or what the last star restarts.
\* Where there was no star to restart at, which the loop never comes to, this
\* is still a solution.
Verdict(pattern, name, p, n, rp, rn) ==
  \/ Rest(pattern, name)[<<p, n>>] = TRUE
  \/ /\ ~Reaches(pattern, name, p, n)
     /\ 1 < rn /\ rn <= Len(name) + 1 /\ Rest(pattern, name)[<<rp, rn>>] = TRUE
Verdicts(pattern, name) ==
  [r \in Slots(pattern, name) |-> Verdict(pattern, name, r[1], r[2], r[3], r[4])]

LEMMA RoundsTests ==
  ASSUME NEW S, NEW pattern \in Seq(S), NEW name \in Seq(S),
         NEW p \in 1 .. Len(pattern) + 1, NEW n \in 1 .. Len(name) + 1
  PROVE  /\ (p < Len(pattern) + 1 /\ pattern[p] = "*") <=> Star(pattern, p)
         /\ ~Star(pattern, p) =>
              ((p < Len(pattern) + 1 /\ n < Len(name) + 1 /\ pattern[p] \in {"?", name[n]})
                 <=> Meets(pattern, name, p, n))
         /\ (p = Len(pattern) + 1 /\ n = Len(name) + 1) <=> BothEnd(pattern, name, p, n)
         /\ Star(pattern, p) => ~BothEnd(pattern, name, p, n)
         /\ Meets(pattern, name, p, n) => ~Star(pattern, p) /\ ~BothEnd(pattern, name, p, n)
<1>1. Len(pattern) \in Nat /\ Len(name) \in Nat /\ p \in Nat /\ n \in Nat
  OBVIOUS
<1> QED
  BY <1>1 DEF Star, Meets, BothEnd

LEMMA RoundsEnd ==
  ASSUME NEW S, NEW pattern \in Seq(S), NEW name \in Seq(S), NEW g,
         NEW p \in 1 .. Len(pattern) + 1, NEW n \in 1 .. Len(name) + 1, NEW rp, NEW rn,
         BothEnd(pattern, name, p, n)
  PROVE  RoundsFrom(g, pattern, name, p, n, rp, rn) = TRUE
BY RoundsTests DEF RoundsFrom, Stop

LEMMA RoundsStar ==
  ASSUME NEW S, NEW pattern \in Seq(S), NEW name \in Seq(S), NEW g,
         NEW p \in 1 .. Len(pattern) + 1, NEW n \in 1 .. Len(name) + 1, NEW rp, NEW rn,
         Star(pattern, p)
  PROVE  RoundsFrom(g, pattern, name, p, n, rp, rn) = g[<<p + 1, n, p, n + 1>>]
<1>1. p < Len(pattern) + 1 /\ pattern[p] = "*" /\ ~(p = Len(pattern) + 1 /\ n = Len(name) + 1)
  BY RoundsTests
<1> QED
  BY <1>1 DEF RoundsFrom

LEMMA RoundsMeet ==
  ASSUME NEW S, NEW pattern \in Seq(S), NEW name \in Seq(S), NEW g,
         NEW p \in 1 .. Len(pattern) + 1, NEW n \in 1 .. Len(name) + 1, NEW rp, NEW rn,
         Meets(pattern, name, p, n)
  PROVE  RoundsFrom(g, pattern, name, p, n, rp, rn) = g[<<p + 1, n + 1, rp, rn>>]
BY RoundsTests DEF RoundsFrom, Stop

LEMMA RoundsRestart ==
  ASSUME NEW S, NEW pattern \in Seq(S), NEW name \in Seq(S), NEW g,
         NEW p \in 1 .. Len(pattern) + 1, NEW n \in 1 .. Len(name) + 1, NEW rp, NEW rn,
         ~Stop(pattern, name, p, n), ~Meets(pattern, name, p, n)
  PROVE  RoundsFrom(g, pattern, name, p, n, rp, rn) =
           IF 1 < rn /\ rn <= Len(name) + 1 THEN g[<<rp, rn, rp, rn>>] ELSE FALSE
BY RoundsTests DEF RoundsFrom, Stop

LEMMA VerdictByCase ==
  ASSUME NEW S, NEW pattern \in Seq(S), NEW name \in Seq(S),
         NEW p \in 1 .. Len(pattern) + 1, NEW n \in 1 .. Len(name) + 1,
         NEW rp \in 1 .. Len(pattern) + 1, NEW rn \in 1 .. (Len(name) + 1) + 1
  PROVE  /\ BothEnd(pattern, name, p, n) => Verdict(pattern, name, p, n, rp, rn)
         /\ Star(pattern, p) =>
              (Verdict(pattern, name, p, n, rp, rn) <=> Verdict(pattern, name, p + 1, n, p, n + 1))
         /\ Meets(pattern, name, p, n) =>
              (Verdict(pattern, name, p, n, rp, rn) <=>
                 Verdict(pattern, name, p + 1, n + 1, rp, rn))
         /\ ~Stop(pattern, name, p, n) /\ ~Meets(pattern, name, p, n) =>
              (Verdict(pattern, name, p, n, rp, rn) <=>
                 /\ 1 < rn /\ rn <= Len(name) + 1 /\ Verdict(pattern, name, rp, rn, rp, rn))
<1> DEFINE N == Len(name) + 1
           left(x, y) == Rest(pattern, name)[<<x, y>>] = TRUE
<1>1. Len(pattern) \in Nat /\ Len(name) \in Nat /\ p \in Nat /\ n \in Nat /\ rn \in Nat
  OBVIOUS
<1>2. ASSUME p = Len(pattern) + 1 PROVE left(p, n) <=> n = Len(name) + 1
  <2>1. Rest(pattern, name)[<<p, n>>] = (n = Len(name) + 1)
    BY <1>2, RestEnd
  <2> QED
    BY <2>1
<1>3. ASSUME Star(pattern, p)
      PROVE  Verdict(pattern, name, p, n, rp, rn) <=> Verdict(pattern, name, p + 1, n, p, n + 1)
  <2>1. p + 1 \in 1 .. Len(pattern) + 1
    BY <1>1, <1>3 DEF Star
  <2>2. Reaches(pattern, name, p, n)
    BY <1>3, ReachesStep
  <2>3. ASSUME NEW y \in 1 .. N PROVE left(p, y) <=> \E k \in y .. N : left(p + 1, k)
    <3>1. Rest(pattern, name)[<<p, y>>] \in BOOLEAN
      BY RestBoolean
    <3>2. \A k \in y .. N : Rest(pattern, name)[<<p + 1, k>>] \in BOOLEAN
      BY <1>1, <2>1, RestBoolean
    <3>3. Rest(pattern, name)[<<p, y>>] <=> \E k \in y .. N : Rest(pattern, name)[<<p + 1, k>>]
      BY <1>3, RestStep, Zenon
    <3> QED
      BY <3>1, <3>2, <3>3
  <2>4. ASSUME left(p, n)
        PROVE  left(p + 1, n) \/ (~Reaches(pattern, name, p + 1, n) /\ n + 1 <= N /\ left(p, n + 1))
    <3>1. PICK k \in n .. N : left(p + 1, k)
      BY <2>3, <2>4
    <3>2. CASE k = n
      BY <3>1, <3>2
    <3>3. CASE k # n
      <4>1. n + 1 \in 1 .. N /\ k \in n + 1 .. N /\ n + 1 <= N
        BY <1>1, <3>3
      <4>2. left(p, n + 1)
        BY <2>3, <3>1, <4>1
      <4>3. Reaches(pattern, name, p + 1, n) => left(p + 1, n)
        <5>1. Reaches(pattern, name, p + 1, n) => Rest(pattern, name)[<<p + 1, n>>]
          BY <2>1, <3>1, LastStarSuffices
        <5> QED
          BY <2>1, <5>1, RestBoolean
      <4> QED
        BY <4>1, <4>2, <4>3
    <3> QED
      BY <3>2, <3>3
  <2>5. ASSUME left(p + 1, n) PROVE left(p, n)
    <3>1. n \in n .. N
      BY <1>1
    <3> QED
      BY <2>3, <2>5, <3>1
  <2>6. ASSUME n + 1 <= N, left(p, n + 1) PROVE left(p, n)
    <3>1. n + 1 \in 1 .. N
      BY <1>1, <2>6
    <3>2. PICK k \in n + 1 .. N : left(p + 1, k)
      BY <2>3, <2>6, <3>1
    <3>3. k \in n .. N
      BY <1>1
    <3> QED
      BY <2>3, <3>2, <3>3
  <2>7. 1 < n + 1
    BY <1>1
  <2> HIDE DEF left
  <2>8. Verdict(pattern, name, p, n, rp, rn) <=> left(p, n)
    BY <2>2 DEF Verdict, left
  <2>9. Verdict(pattern, name, p + 1, n, p, n + 1) <=>
          left(p + 1, n) \/ (~Reaches(pattern, name, p + 1, n) /\ n + 1 <= N /\ left(p, n + 1))
    BY <2>7 DEF Verdict, left
  <2> QED
    BY <2>4, <2>5, <2>6, <2>8, <2>9
<1>4. ASSUME Meets(pattern, name, p, n)
      PROVE  Verdict(pattern, name, p, n, rp, rn) <=> Verdict(pattern, name, p + 1, n + 1, rp, rn)
  <2>1. p <= Len(pattern) /\ n <= Len(name) /\ ~Star(pattern, p)
    BY <1>4 DEF Meets
  <2>2. p + 1 \in 1 .. Len(pattern) + 1 /\ n + 1 \in 1 .. N /\ ~BothEnd(pattern, name, p, n)
    BY <1>1, <2>1 DEF BothEnd
  <2>3. Rest(pattern, name)[<<p, n>>] <=> Rest(pattern, name)[<<p + 1, n + 1>>]
    BY <1>4, <2>1, RestStep
  <2>4. left(p, n) <=> left(p + 1, n + 1)
    BY <2>2, <2>3, RestBoolean
  <2>5. Reaches(pattern, name, p, n) <=> Reaches(pattern, name, p + 1, n + 1)
    BY <1>4, <2>1, <2>2, ReachesStep
  <2> QED
    BY <2>4, <2>5 DEF Verdict
<1>5. ASSUME ~Stop(pattern, name, p, n), ~Meets(pattern, name, p, n)
      PROVE  Verdict(pattern, name, p, n, rp, rn) <=>
               1 < rn /\ rn <= N /\ Verdict(pattern, name, rp, rn, rp, rn)
  <2>1. ~Star(pattern, p) /\ ~BothEnd(pattern, name, p, n)
    BY <1>5 DEF Stop
  <2>2. ~Reaches(pattern, name, p, n)
    BY <1>5, <2>1, ReachesStep
  <2>3. ~left(p, n)
    <3>1. CASE p = Len(pattern) + 1
      BY <1>2, <2>1, <3>1 DEF BothEnd
    <3>2. CASE p # Len(pattern) + 1
      <4>1. p <= Len(pattern)
        BY <1>1, <3>2
      <4> QED
        BY <1>5, <2>1, <4>1, RestStep
    <3> QED
      BY <3>1, <3>2
  <2> QED
    BY <2>2, <2>3 DEF Verdict
<1>6. BothEnd(pattern, name, p, n) => Verdict(pattern, name, p, n, rp, rn)
  BY <1>2 DEF Verdict, BothEnd
<1> QED
  BY <1>3, <1>4, <1>5, <1>6

LEMMA RoundsRecur ==
  ASSUME NEW S, NEW pattern \in Seq(S), NEW name \in Seq(S)
  PROVE  /\ Rounds(pattern, name) =
              [r \in Slots(pattern, name) |->
                 RoundsFrom(Rounds(pattern, name), pattern, name, r[1], r[2], r[3], r[4])]
         /\ \A p, rp \in 1 .. Len(pattern) + 1, n \in 1 .. Len(name) + 1,
               rn \in 1 .. (Len(name) + 1) + 1 :
              Rounds(pattern, name)[<<p, n, rp, rn>>] =
                RoundsFrom(Rounds(pattern, name), pattern, name, p, n, rp, rn)
<1> DEFINE P == Len(pattern) + 1
           N == Len(name) + 1
           g == Verdicts(pattern, name)
           f == Rounds(pattern, name)
<1>1. P \in Nat /\ N \in Nat
  OBVIOUS
<1>2. ASSUME NEW p \in 1 .. P, NEW n \in 1 .. N, NEW rp \in 1 .. P, NEW rn \in 1 .. N + 1
      PROVE  g[<<p, n, rp, rn>>] = Verdict(pattern, name, p, n, rp, rn)
  BY <1>2 DEF Verdicts, Slots
<1>3. ASSUME NEW p \in 1 .. P, NEW n \in 1 .. N, NEW rp \in 1 .. P, NEW rn \in 1 .. N + 1
      PROVE  Verdict(pattern, name, p, n, rp, rn) = RoundsFrom(g, pattern, name, p, n, rp, rn)
  <2> HIDE DEF g
  <2>1. Verdict(pattern, name, p, n, rp, rn) \in BOOLEAN
    BY DEF Verdict
  <2>2. CASE BothEnd(pattern, name, p, n)
    BY <2>1, <2>2, RoundsEnd, VerdictByCase
  <2>3. CASE Star(pattern, p)
    <3>1. p + 1 \in 1 .. P /\ n + 1 \in 1 .. N + 1
      BY <1>1, <2>3 DEF Star
    <3>2. RoundsFrom(g, pattern, name, p, n, rp, rn) = g[<<p + 1, n, p, n + 1>>]
      BY <2>3, RoundsStar
    <3>3. g[<<p + 1, n, p, n + 1>>] = Verdict(pattern, name, p + 1, n, p, n + 1)
      BY <1>2, <3>1
    <3>4. Verdict(pattern, name, p, n, rp, rn) <=> Verdict(pattern, name, p + 1, n, p, n + 1)
      BY <2>3, VerdictByCase
    <3> QED
      BY <3>2, <3>3, <3>4 DEF Verdict
  <2>4. CASE Meets(pattern, name, p, n)
    <3>1. p + 1 \in 1 .. P /\ n + 1 \in 1 .. N
      BY <1>1, <2>4 DEF Meets
    <3>2. RoundsFrom(g, pattern, name, p, n, rp, rn) = g[<<p + 1, n + 1, rp, rn>>]
      BY <2>4, RoundsMeet
    <3>3. g[<<p + 1, n + 1, rp, rn>>] = Verdict(pattern, name, p + 1, n + 1, rp, rn)
      BY <1>2, <3>1
    <3>4. Verdict(pattern, name, p, n, rp, rn) <=> Verdict(pattern, name, p + 1, n + 1, rp, rn)
      BY <2>4, VerdictByCase
    <3> QED
      BY <3>2, <3>3, <3>4 DEF Verdict
  <2>5. CASE ~Stop(pattern, name, p, n) /\ ~Meets(pattern, name, p, n)
    <3>1. RoundsFrom(g, pattern, name, p, n, rp, rn) =
            IF 1 < rn /\ rn <= N THEN g[<<rp, rn, rp, rn>>] ELSE FALSE
      BY <2>5, RoundsRestart
    <3>2. rn <= N => g[<<rp, rn, rp, rn>>] = Verdict(pattern, name, rp, rn, rp, rn)
      BY <1>1, <1>2
    <3>3. Verdict(pattern, name, p, n, rp, rn) <=>
            1 < rn /\ rn <= N /\ Verdict(pattern, name, rp, rn, rp, rn)
      BY <2>5, VerdictByCase
    <3>4. Verdict(pattern, name, rp, rn, rp, rn) \in BOOLEAN
      BY DEF Verdict
    <3>5. CASE 1 < rn /\ rn <= N
      BY <2>1, <3>1, <3>2, <3>3, <3>4, <3>5
    <3>6. CASE ~(1 < rn /\ rn <= N)
      BY <2>1, <3>1, <3>3, <3>6
    <3> QED
      BY <3>5, <3>6
  <2> QED
    BY <2>2, <2>3, <2>4, <2>5 DEF Stop
<1>4. ASSUME NEW r \in Slots(pattern, name)
      PROVE  g[r] = RoundsFrom(g, pattern, name, r[1], r[2], r[3], r[4])
  <2>1. /\ r = <<r[1], r[2], r[3], r[4]>>
        /\ r[1] \in 1 .. P /\ r[2] \in 1 .. N /\ r[3] \in 1 .. P /\ r[4] \in 1 .. N + 1
    BY DEF Slots
  <2> HIDE DEF g
  <2> QED
    BY <1>2, <1>3, <2>1
<1>5. g = [r \in Slots(pattern, name) |-> g[r]]
  BY DEF Verdicts
<1>6. g = [r \in Slots(pattern, name) |-> RoundsFrom(g, pattern, name, r[1], r[2], r[3], r[4])]
  BY <1>4, <1>5
<1>7. f = [r \in Slots(pattern, name) |-> RoundsFrom(f, pattern, name, r[1], r[2], r[3], r[4])]
  BY <1>6 DEF Rounds
<1> HIDE DEF f
<1>8. ASSUME NEW p \in 1 .. P, NEW rp \in 1 .. P, NEW n \in 1 .. N, NEW rn \in 1 .. N + 1
      PROVE  f[<<p, n, rp, rn>>] = RoundsFrom(f, pattern, name, p, n, rp, rn)
  <2>1. <<p, n, rp, rn>> \in Slots(pattern, name)
    BY DEF Slots
  <2> QED
    BY <1>7, <2>1
<1>9. \A p, rp \in 1 .. P, n \in 1 .. N, rn \in 1 .. N + 1 :
        f[<<p, n, rp, rn>>] = RoundsFrom(f, pattern, name, p, n, rp, rn)
  BY <1>8
<1> QED
  BY <1>7, <1>9 DEF f

\* Where the loop may be: the last star, if there was one, is behind it or here.
Possible(pattern, p, n, rp, rn) ==
  rn = 1 \/ (Star(pattern, rp) /\ rp <= p /\ rn <= n + 1 /\ (p = rp => rn <= n))

\* All rounds find what they are to find: later restarts first, then the restart
\* itself, then the rounds before it, from the end of the pattern.
LEMMA RoundsRight ==
  ASSUME NEW S, NEW pattern \in Seq(S), NEW name \in Seq(S),
         NEW p \in 1 .. Len(pattern) + 1, NEW n \in 1 .. Len(name) + 1,
         NEW rp \in 1 .. Len(pattern) + 1, NEW rn \in 1 .. (Len(name) + 1) + 1,
         Possible(pattern, p, n, rp, rn)
  PROVE  Rounds(pattern, name)[<<p, n, rp, rn>>] = Verdict(pattern, name, p, n, rp, rn)
<1> DEFINE P == Len(pattern) + 1
           N == Len(name) + 1
           f == Rounds(pattern, name)
           Right(a, b, c, d) == f[<<a, b, c, d>>] = Verdict(pattern, name, a, b, c, d)
           Later(m) == \A a \in 1 .. P, b \in 1 .. N, c \in 1 .. P, d \in 1 .. N + 1 :
                         Possible(pattern, a, b, c, d) /\ d > N + 1 - m => Right(a, b, c, d)
           I == {m \in Nat : Later(m)}
<1>1. P \in Nat \ {0} /\ N \in Nat \ {0}
  OBVIOUS
<1>2. ASSUME NEW a \in 1 .. P, NEW b \in 1 .. N, NEW c \in 1 .. P, NEW d \in 1 .. N + 1,
             Star(pattern, a) => Right(a + 1, b, a, b + 1),
             Meets(pattern, name, a, b) => Right(a + 1, b + 1, c, d),
             ~Stop(pattern, name, a, b) /\ ~Meets(pattern, name, a, b) /\ 1 < d /\ d <= N =>
               Right(c, d, c, d)
      PROVE  Right(a, b, c, d)
  <2>1. f[<<a, b, c, d>>] = RoundsFrom(f, pattern, name, a, b, c, d)
    BY RoundsRecur
  <2> HIDE DEF f
  <2>2. \A x, y, z, w : Verdict(pattern, name, x, y, z, w) \in BOOLEAN
    BY DEF Verdict
  <2>3. CASE BothEnd(pattern, name, a, b)
    <3>1. RoundsFrom(f, pattern, name, a, b, c, d) = TRUE
      BY <2>3, RoundsEnd
    <3>2. Verdict(pattern, name, a, b, c, d)
      BY <2>3, VerdictByCase
    <3> QED
      BY <2>1, <2>2, <3>1, <3>2
  <2>4. CASE Star(pattern, a)
    <3>1. RoundsFrom(f, pattern, name, a, b, c, d) = f[<<a + 1, b, a, b + 1>>]
      BY <2>4, RoundsStar
    <3>2. Verdict(pattern, name, a, b, c, d) <=> Verdict(pattern, name, a + 1, b, a, b + 1)
      BY <2>4, VerdictByCase
    <3> QED
      BY <1>2, <2>1, <2>2, <2>4, <3>1, <3>2
  <2>5. CASE Meets(pattern, name, a, b)
    <3>1. RoundsFrom(f, pattern, name, a, b, c, d) = f[<<a + 1, b + 1, c, d>>]
      <4>1. /\ a < Len(pattern) + 1 /\ b < Len(name) + 1 /\ pattern[a] \in {"?", name[b]}
            /\ pattern[a] # "*"
        BY <2>5, RoundsTests
      <4>2. ~(a = Len(pattern) + 1 /\ b = Len(name) + 1)
        BY <4>1
      <4> QED
        BY <4>1, <4>2 DEF RoundsFrom
    <3>2. Verdict(pattern, name, a, b, c, d) <=> Verdict(pattern, name, a + 1, b + 1, c, d)
      BY <2>5, VerdictByCase
    <3> QED
      BY <1>2, <2>1, <2>2, <2>5, <3>1, <3>2
  <2>6. CASE ~Stop(pattern, name, a, b) /\ ~Meets(pattern, name, a, b)
    <3>1. RoundsFrom(f, pattern, name, a, b, c, d) =
            IF 1 < d /\ d <= N THEN f[<<c, d, c, d>>] ELSE FALSE
      BY <2>6, RoundsRestart
    <3>2. Verdict(pattern, name, a, b, c, d) <=>
            1 < d /\ d <= N /\ Verdict(pattern, name, c, d, c, d)
      BY <2>6, VerdictByCase
    <3> QED
      BY <1>2, <2>1, <2>2, <2>6, <3>1, <3>2
  <2> QED
    BY <2>3, <2>4, <2>5, <2>6 DEF Stop
<1> HIDE DEF f, Right
<1>3. 0 \in I
  <2>1. \A d \in 1 .. N + 1 : ~(d > N + 1 - 0)
    BY <1>1
  <2> QED
    BY <2>1
<1>4. ASSUME NEW m \in I PROVE m + 1 \in I
  <2>1. \A a \in 1 .. P, b \in 1 .. N, c \in 1 .. P, d \in 1 .. N + 1 :
          Possible(pattern, a, b, c, d) /\ d > N + 1 - m => Right(a, b, c, d)
    OBVIOUS
  <2>2. ASSUME NEW a \in 1 .. P, NEW b \in 1 .. N, Star(pattern, a), b + 1 > N + 1 - m
        PROVE  Right(a + 1, b, a, b + 1)
    <3>1. a + 1 \in 1 .. P /\ b + 1 \in 1 .. N + 1
      BY <1>1, <2>2 DEF Star
    <3>2. Possible(pattern, a + 1, b, a, b + 1)
      BY <1>1, <2>2 DEF Possible
    <3> QED
      BY <2>1, <2>2, <3>1, <3>2
  <2>3. ASSUME NEW c \in 1 .. P, NEW d \in 1 .. N, NEW b \in d .. N, Star(pattern, c),
               d = N + 1 - m
        PROVE  Right(c, b, c, d)
    <3>1. b \in 1 .. N /\ d \in 1 .. N + 1 /\ b + 1 > N + 1 - m
      BY <1>1, <2>3
    <3>2. ~Meets(pattern, name, c, b) /\ Stop(pattern, name, c, b)
      BY <2>3 DEF Meets, Stop
    <3>3. Right(c + 1, b, c, b + 1)
      BY <2>2, <2>3, <3>1
    <3> QED
      BY <1>2, <3>1, <3>2, <3>3
  <2> DEFINE Before(j) == \A a \in 1 .. P, b \in 1 .. N, c \in 1 .. P, d \in 1 .. N + 1 :
                            /\ Possible(pattern, a, b, c, d) /\ d = N + 1 - m
                            /\ d = 1 \/ a # c
                            /\ a > P - j
                            => Right(a, b, c, d)
             J == {j \in Nat : Before(j)}
  <2>4. 0 \in J
    <3>1. \A a \in 1 .. P : ~(a > P - 0)
      BY <1>1
    <3> QED
      BY <3>1
  <2>5. ASSUME NEW j \in J PROVE j + 1 \in J
    <3>0. Before(j)
      OBVIOUS
    <3>1. ASSUME NEW a \in 1 .. P, NEW b \in 1 .. N, NEW c \in 1 .. P, NEW d \in 1 .. N + 1,
                 Possible(pattern, a, b, c, d), d = N + 1 - m, d = 1 \/ a # c, a > P - (j + 1)
          PROVE  Right(a, b, c, d)
      <4>1. ASSUME Star(pattern, a) PROVE Right(a + 1, b, a, b + 1)
        <5>1. CASE b + 1 > d
          <6>1. b + 1 > N + 1 - m
            BY <3>1, <5>1
          <6> QED
            BY <2>2, <4>1, <6>1
        <5>2. CASE ~(b + 1 > d)
          <6>1. b + 1 = d
            <7>1. b \in Int /\ d \in Int /\ d <= b + 1
              BY <1>1, <3>1 DEF Possible
            <7> QED
              BY <5>2, <7>1
          <6>2. /\ a + 1 \in 1 .. P /\ b + 1 \in 1 .. N + 1 /\ a + 1 # a
                /\ a + 1 > P - j /\ b + 1 = N + 1 - m
            BY <1>1, <3>1, <4>1, <6>1 DEF Star
          <6>3. Possible(pattern, a + 1, b, a, b + 1)
            BY <1>1, <4>1 DEF Possible
          <6> QED
            BY <3>0, <6>2, <6>3
        <5> QED
          BY <5>1, <5>2
      <4>2. ASSUME Meets(pattern, name, a, b) PROVE Right(a + 1, b + 1, c, d)
        <5>1. a + 1 \in 1 .. P /\ b + 1 \in 1 .. N /\ a + 1 > P - j
          BY <1>1, <3>1, <4>2 DEF Meets
        <5>2. Possible(pattern, a + 1, b + 1, c, d) /\ (d = 1 \/ a + 1 # c)
          BY <1>1, <3>1 DEF Possible
        <5> QED
          BY <3>0, <3>1, <5>1, <5>2
      <4>3. ASSUME 1 < d, d <= N PROVE Right(c, d, c, d)
        <5>1. Star(pattern, c) /\ d \in 1 .. N /\ d \in d .. N
          BY <1>1, <3>1, <4>3 DEF Possible
        <5> QED
          BY <2>3, <3>1, <5>1
      <4> QED
        BY <1>2, <4>1, <4>2, <4>3
    <3>2. Before(j + 1)
      BY <3>1
    <3>3. j + 1 \in Nat
      OBVIOUS
    <3> HIDE DEF Before
    <3> QED
      BY <3>2, <3>3
  <2>6. J = Nat
    <3> HIDE DEF J
    <3> QED
      BY <2>4, <2>5, SetInduction DEF J
  <2>7. Before(P)
    <3>1. P \in J
      BY <1>1, <2>6
    <3> QED
      BY <3>1
  <2>8. ASSUME NEW a \in 1 .. P, NEW b \in 1 .. N, NEW c \in 1 .. P, NEW d \in 1 .. N + 1,
               Possible(pattern, a, b, c, d), d > N + 1 - (m + 1)
        PROVE  Right(a, b, c, d)
    <3>1. CASE d > N + 1 - m
      BY <2>1, <2>8, <3>1
    <3>2. CASE d = N + 1 - m /\ (d = 1 \/ a # c)
      <4>1. a > P - P
        BY <1>1
      <4> QED
        BY <2>7, <2>8, <3>2, <4>1
    <3>3. CASE d = N + 1 - m /\ d # 1 /\ a = c
      <4>1. Star(pattern, c) /\ d \in 1 .. N /\ b \in d .. N
        BY <1>1, <2>8, <3>3 DEF Possible
      <4> QED
        BY <2>3, <3>3, <4>1
    <3> QED
      BY <1>1, <2>8, <3>1, <3>2, <3>3
  <2>9. Later(m + 1)
    BY <2>8
  <2>10. m + 1 \in Nat
    OBVIOUS
  <2> HIDE DEF Later
  <2> QED
    BY <2>9, <2>10
<1>5. I = Nat
  <2> HIDE DEF I
  <2> QED
    BY <1>3, <1>4, SetInduction DEF I
<1>6. Later(N + 1)
  <2>1. N + 1 \in Nat
    BY <1>1
  <2>2. N + 1 \in I
    <3> HIDE DEF I
    <3> QED
      BY <1>5, <2>1
  <2> QED
    BY <2>2
<1>7. Right(p, n, rp, rn)
  <2>1. rn > N + 1 - (N + 1)
    BY <1>1
  <2> QED
    BY <1>6, <2>1
<1> QED
  BY <1>7 DEF Right, f

LEMMA MatchesIsRounds ==
  ASSUME NEW pattern, NEW name
  PROVE  PatternMatchesString(name, pattern) = Rounds(pattern, name)[<<1, 1, 1, 1>>]
BY DEF PatternMatchesString, Rounds, RoundsFrom, Slots

\* The loop over a pattern, which goes back to the last star only, finds a match
\* exactly when there is one (gtest.cc, PatternMatchesString).
THEOREM PatternsMatch ==
  ASSUME NEW S, NEW pattern \in Seq(S), NEW name \in Seq(S)
  PROVE  PatternMatchesString(name, pattern) <=> Denotes(pattern, name)
<1>1. /\ 1 \in 1 .. Len(pattern) + 1 /\ 1 \in 1 .. Len(name) + 1
      /\ 1 \in 1 .. (Len(name) + 1) + 1
  OBVIOUS
<1>2. Possible(pattern, 1, 1, 1, 1)
  BY DEF Possible
<1>3. Rounds(pattern, name)[<<1, 1, 1, 1>>] = Verdict(pattern, name, 1, 1, 1, 1)
  BY <1>1, <1>2, RoundsRight
<1>4. Verdict(pattern, name, 1, 1, 1, 1) <=> Rest(pattern, name)[<<1, 1>>] = TRUE
  BY DEF Verdict
<1>5. Rest(pattern, name)[<<1, 1>>] \in BOOLEAN
  BY <1>1, RestBoolean
<1> QED
  BY <1>3, <1>4, <1>5, MatchesIsRounds, DenotesRest

-----------------------------------------------------------------------------
(* GTestFilter: a filter and its patterns.                                 *)

LEMMA LeastNumber ==
  ASSUME NEW I \in SUBSET Nat, I # {}
  PROVE  \E x \in I : \A y \in I : x <= y
<1> DEFINE J == {n \in Nat : (\E y \in I : y <= n) => \E x \in I : \A y \in I : x <= y}
<1>1. 0 \in J
  OBVIOUS
<1>2. ASSUME NEW n \in J PROVE n + 1 \in J
  <2>1. ASSUME NEW y \in I, y <= n + 1 PROVE \E x \in I : \A z \in I : x <= z
    <3>1. CASE \E z \in I : z <= n
      BY <3>1
    <3>2. CASE ~\E z \in I : z <= n
      BY <2>1, <3>2
    <3> QED
      BY <3>1, <3>2
  <2> QED
    BY <2>1
<1>3. J = Nat
  <2> HIDE DEF J
  <2> QED
    BY <1>1, <1>2, SetInduction DEF J
<1>4. PICK m \in I : TRUE
  OBVIOUS
<1>5. m \in J
  <2> HIDE DEF J
  <2> QED
    BY <1>3
<1> QED
  BY <1>5

\* As many of a finite set of numbers are below one as its place among them says.
LEMMA NumberRanks ==
  ASSUME NEW C \in SUBSET Nat, IsFiniteSet(C)
  PROVE  /\ Cardinality(C) \in Nat
         /\ \A j \in 1 .. Cardinality(C) : \E i \in C : Cardinality({c \in C : c < i}) = j - 1
<1> DEFINE below(i) == {c \in C : c < i}
           N == Cardinality(C)
           f == [i \in C |-> Cardinality(below(i))]
<1>1. N \in Nat
  BY FS_CardinalityType
<1>2. ASSUME NEW i \in C
      PROVE  IsFiniteSet(below(i)) /\ i \notin below(i) /\ Cardinality(below(i)) \in 0 .. N - 1
  <2>1. i \notin below(i)
    OBVIOUS
  <2>2. below(i) \in SUBSET (C \ {i})
    BY <2>1
  <2>3. IsFiniteSet(C \ {i}) /\ Cardinality(C \ {i}) = N - 1
    BY FS_RemoveElement
  <2> HIDE DEF below
  <2>4. IsFiniteSet(below(i)) /\ Cardinality(below(i)) <= N - 1
    BY <2>2, <2>3, FS_Subset
  <2>5. Cardinality(below(i)) \in Nat
    BY <2>4, FS_CardinalityType
  <2> HIDE DEF N
  <2> QED
    BY <1>1, <2>1, <2>4, <2>5
<1>3. ASSUME NEW i \in C, NEW k \in C, i < k PROVE Cardinality(below(i)) < Cardinality(below(k))
  <2>1. (below(i) \cup {i}) \in SUBSET below(k)
    <3>1. \A c \in C : c < i => c < k
      BY <1>3
    <3> QED
      BY <1>3, <3>1
  <2>2. /\ IsFiniteSet(below(i)) /\ i \notin below(i) /\ IsFiniteSet(below(k))
        /\ Cardinality(below(i)) \in Nat /\ Cardinality(below(k)) \in Nat
    <3> HIDE DEF below, N
    <3> QED
      BY <1>1, <1>2
  <2> HIDE DEF below, N
  <2>3. Cardinality(below(i) \cup {i}) = Cardinality(below(i)) + 1
    BY <2>2, FS_AddElement
  <2>4. Cardinality(below(i) \cup {i}) <= Cardinality(below(k))
    BY <2>1, <2>2, FS_Subset
  <2> QED
    BY <2>2, <2>3, <2>4
<1>4. f \in Injection(C, 0 .. N - 1)
  <2>1. f \in [C -> 0 .. N - 1]
    BY <1>2
  <2>2. ASSUME NEW i \in C, NEW k \in C, i # k PROVE f[i] # f[k]
    <3>1. i < k \/ k < i
      BY <2>2
    <3>2. f[i] \in Int /\ f[k] \in Int /\ f[i] = Cardinality(below(i)) /\ f[k] = Cardinality(below(k))
      BY <2>1
    <3> HIDE DEF below, f
    <3> QED
      BY <1>3, <3>1, <3>2
  <2> HIDE DEF f
  <2> QED
    BY <2>1, <2>2 DEF Injection, IsInjective
<1>5. IsFiniteSet(0 .. N - 1) /\ Cardinality(0 .. N - 1) = N
  <2> HIDE DEF N
  <2>1. 0 \in Int /\ N - 1 \in Int
    BY <1>1
  <2>2. Cardinality(0 .. N - 1) = IF 0 > N - 1 THEN 0 ELSE N - 1 - 0 + 1
    BY <2>1, FS_Interval
  <2>3. IsFiniteSet(0 .. N - 1)
    BY <2>1, FS_Interval
  <2> QED
    BY <1>1, <2>2, <2>3
<1>6. f \in Surjection(C, 0 .. N - 1)
  <2> HIDE DEF f
  <2> QED
    BY <1>4, <1>5, FS_Injection
<1>7. ASSUME NEW j \in 1 .. N PROVE \E i \in C : Cardinality(below(i)) = j - 1
  <2>1. j - 1 \in 0 .. N - 1
    <3> HIDE DEF N
    <3> QED
      BY <1>1
  <2>2. PICK i \in C : f[i] = j - 1
    BY <1>6, <2>1 DEF Surjection
  <2> QED
    BY <2>2
<1> QED
  BY <1>1, <1>7

Cuts(text, delimiter) ==
  {i \in 1 .. Len(text) + 1 : i > Len(text) \/ text[i] = delimiter}
Cut(text, delimiter, j) ==
  CHOOSE i \in Cuts(text, delimiter) :
    Cardinality({c \in Cuts(text, delimiter) : c < i}) = j - 1

LEMMA CutsRight ==
  ASSUME NEW S, NEW text \in Seq(S), NEW delimiter
  PROVE  /\ IsFiniteSet(Cuts(text, delimiter)) /\ Cardinality(Cuts(text, delimiter)) \in Nat
         /\ Len(text) + 1 \in Cuts(text, delimiter)
         /\ \A j \in 1 .. Cardinality(Cuts(text, delimiter)) :
              /\ Cut(text, delimiter, j) \in Cuts(text, delimiter)
              /\ Cardinality({c \in Cuts(text, delimiter) : c < Cut(text, delimiter, j)}) = j - 1
<1> DEFINE C == Cuts(text, delimiter)
<1>1. Len(text) \in Nat
  OBVIOUS
<1>2. C \in SUBSET (1 .. Len(text) + 1) /\ Len(text) + 1 \in C
  BY <1>1 DEF Cuts
<1>3. IsFiniteSet(1 .. Len(text) + 1)
  BY <1>1, FS_Interval
<1> HIDE DEF C
<1>4. IsFiniteSet(C) /\ C \in SUBSET Nat
  <2>1. IsFiniteSet(C)
    BY <1>2, <1>3, FS_Subset
  <2> QED
    BY <1>1, <1>2, <2>1
<1>5. /\ Cardinality(C) \in Nat
      /\ \A j \in 1 .. Cardinality(C) : \E i \in C : Cardinality({c \in C : c < i}) = j - 1
  BY <1>4, NumberRanks
<1>6. ASSUME NEW j \in 1 .. Cardinality(C)
      PROVE  LET i == CHOOSE i \in C : Cardinality({c \in C : c < i}) = j - 1
             IN  i \in C /\ Cardinality({c \in C : c < i}) = j - 1
  <2>1. \E i \in C : Cardinality({c \in C : c < i}) = j - 1
    BY <1>5
  <2> QED
    BY <2>1
<1> QED
  BY <1>2, <1>4, <1>5, <1>6 DEF C, Cut

LEMMA SplitIs ==
  ASSUME NEW text, NEW delimiter
  PROVE  SplitString(text, delimiter) =
           [j \in 1 .. Cardinality(Cuts(text, delimiter)) |->
              SubSeq(text, IF j = 1 THEN 1 ELSE Cut(text, delimiter, j - 1) + 1,
                           Cut(text, delimiter, j) - 1)]
BY DEF SplitString, Cuts, Cut

LEMMA PieceType ==
  ASSUME NEW S, NEW text \in Seq(S), NEW a \in 1 .. Len(text) + 2, NEW b \in 0 .. Len(text)
  PROVE  SubSeq(text, a, b) \in Seq(S)
OBVIOUS

LEMMA SplitType ==
  ASSUME NEW S, NEW text \in Seq(S), NEW delimiter
  PROVE  /\ SplitString(text, delimiter) \in Seq(Seq(S))
         /\ Len(SplitString(text, delimiter)) = Cardinality(Cuts(text, delimiter))
<1> DEFINE N == Cardinality(Cuts(text, delimiter))
<1>1. N \in Nat /\ Len(text) \in Nat
  BY CutsRight
<1>2. \A i \in Cuts(text, delimiter) : i \in 1 .. Len(text) + 1
  BY DEF Cuts
<1>3. \A j \in 1 .. N : Cut(text, delimiter, j) \in 1 .. Len(text) + 1
  BY <1>2, CutsRight
<1> HIDE DEF N
<1>4. ASSUME NEW j \in 1 .. N
      PROVE  SubSeq(text, IF j = 1 THEN 1 ELSE Cut(text, delimiter, j - 1) + 1,
                          Cut(text, delimiter, j) - 1) \in Seq(S)
  <2> DEFINE a == IF j = 1 THEN 1 ELSE Cut(text, delimiter, j - 1) + 1
             b == Cut(text, delimiter, j) - 1
  <2>1. b \in 0 .. Len(text)
    BY <1>1, <1>3
  <2>2. a \in 1 .. Len(text) + 2
    <3>1. j # 1 => j - 1 \in 1 .. N
      BY <1>1
    <3>2. j # 1 => Cut(text, delimiter, j - 1) \in 1 .. Len(text) + 1
      BY <1>3, <3>1
    <3> QED
      BY <1>1, <3>2
  <2> HIDE DEF a, b
  <2>3. SubSeq(text, a, b) \in Seq(S)
    BY <2>1, <2>2, PieceType
  <2> QED
    BY <2>3 DEF a, b
<1>5. SplitString(text, delimiter) \in [1 .. N -> Seq(S)]
  BY <1>4, SplitIs DEF N
<1>6. SplitString(text, delimiter) \in Seq(Seq(S)) /\ Len(SplitString(text, delimiter)) = N
  <2> HIDE DEF SplitString
  <2> QED
    BY <1>1, <1>5
<1> QED
  BY <1>6 DEF N

\* The first field ends before the first delimiter.
LEMMA FirstField ==
  ASSUME NEW S, NEW text \in Seq(S), NEW delimiter, NEW first \in Cuts(text, delimiter),
         \A i \in Cuts(text, delimiter) : first <= i
  PROVE  /\ SplitString(text, delimiter)[1] = SubSeq(text, 1, first - 1)
         /\ Len(SplitString(text, delimiter)) = 1 <=> first = Len(text) + 1
<1> DEFINE C == Cuts(text, delimiter)
           N == Cardinality(C)
<1>1. /\ IsFiniteSet(C) /\ N \in Nat /\ Len(text) + 1 \in C
      /\ \A j \in 1 .. N : /\ Cut(text, delimiter, j) \in C
                           /\ Cardinality({c \in C : c < Cut(text, delimiter, j)}) = j - 1
  BY CutsRight
<1>2. C \subseteq Nat /\ \A i \in C : i <= Len(text) + 1
  BY DEF Cuts
<1> HIDE DEF C
<1>3. N # 0
  BY <1>1, FS_EmptySet
<1> HIDE DEF N
<1>4. Cut(text, delimiter, 1) = first
  <2> DEFINE k == Cut(text, delimiter, 1)
  <2>1. k \in C /\ Cardinality({c \in C : c < k}) = 0
    BY <1>1, <1>3
  <2> HIDE DEF k
  <2>2. IsFiniteSet({c \in C : c < k})
    <3>1. {c \in C : c < k} \in SUBSET C
      OBVIOUS
    <3> QED
      BY <1>1, <3>1, FS_Subset
  <2>3. {c \in C : c < k} = {}
    BY <2>1, <2>2, FS_EmptySet
  <2>4. first \in C /\ first <= k
    BY <2>1 DEF C
  <2>5. k = first
    BY <1>2, <2>1, <2>3, <2>4
  <2> QED
    BY <2>5 DEF k
<1>5. SplitString(text, delimiter)[1] = SubSeq(text, 1, first - 1)
  <2>1. 1 \in 1 .. N
    BY <1>1, <1>3
  <2> QED
    BY <1>4, <2>1, SplitIs DEF N, C
<1>6. N = 1 <=> first = Len(text) + 1
  <2>1. ASSUME N = 1 PROVE first = Len(text) + 1
    <3>1. PICK x : C = {x}
      BY <1>1, <2>1, FS_Singleton DEF N
    <3> QED
      BY <1>1, <3>1 DEF C
  <2>2. ASSUME first = Len(text) + 1 PROVE N = 1
    <3>1. C = {first}
      <4>1. \A i \in C : first <= i
        BY DEF C
      <4>2. first \in C
        BY DEF C
      <4>3. \A i \in C : i = first
        BY <1>2, <2>2, <4>1, <4>2
      <4> QED
        BY <4>2, <4>3
    <3> QED
      BY <3>1, FS_Singleton DEF N
  <2> QED
    BY <2>1, <2>2
<1> QED
  BY <1>5, <1>6, SplitType DEF N, C

\* A pattern without wildcards denotes itself.
LEMMA PlainDenotes ==
  ASSUME NEW S, NEW pattern \in Seq(S), NEW name \in Seq(S), ~IsGlobPattern(pattern)
  PROVE  Denotes(pattern, name) <=> name = pattern
<1> DEFINE P == Len(pattern) + 1
           N == Len(name) + 1
           g == Rest(pattern, name)
           Same(p, n) == /\ P - p = N - n
                         /\ \A i \in 1 .. P - 1 : i >= p => pattern[i] = name[i + (n - p)]
           Plain(p) == \A n \in 1 .. N : g[<<p, n>>] = Same(p, n)
           I == {m \in Nat : m < P => Plain(P - m)}
<1>1. P \in Nat \ {0} /\ N \in Nat \ {0} /\ Len(pattern) = P - 1 /\ Len(name) = N - 1
  OBVIOUS
<1>2. \A i \in 1 .. P - 1 : pattern[i] \notin {"?", "*"}
  BY DEF IsGlobPattern
<1>3. 0 \in I
  <2>1. ASSUME NEW n \in 1 .. N PROVE g[<<P, n>>] = Same(P, n)
    <3>1. P \in 1 .. Len(pattern) + 1
      BY <1>1
    <3>2. g[<<P, n>>] = (n = N)
      BY <3>1, RestEnd
    <3>3. Same(P, n) <=> n = N
      BY <1>1
    <3> HIDE DEF g
    <3> QED
      BY <3>2, <3>3
  <2>2. P - 0 = P
    BY <1>1
  <2> QED
    BY <2>1, <2>2
<1>4. ASSUME NEW m \in I PROVE m + 1 \in I
  <2> HIDE DEF Plain
  <2>a. m \in Nat
    BY Zenon
  <2>b. m < P => Plain(P - m)
    BY Zenon
  <2>0. m \in Nat /\ m + 1 \in Nat /\ (m < P => Plain(P - m))
    BY <2>a, <2>b
  <2>1. SUFFICES ASSUME m + 1 < P PROVE Plain(P - (m + 1))
    BY <2>0
  <2> USE DEF Plain
  <2> DEFINE p == P - (m + 1)
  <2>2. p \in 1 .. P - 1 /\ p + 1 \in 1 .. P /\ p + 1 = P - m /\ m < P
    BY <1>1, <2>0, <2>1
  <2>3. Plain(p + 1)
    BY <2>0, <2>2
  <2> HIDE DEF p
  <2>4. ASSUME NEW n \in 1 .. N PROVE g[<<p, n>>] = Same(p, n)
    <3>1. p \in 1 .. Len(pattern) + 1 /\ p <= Len(pattern)
      BY <1>1, <2>2
    <3>2. ~Star(pattern, p)
      BY <1>2, <2>2 DEF Star
    <3>3. g[<<p, n>>] <=> Meets(pattern, name, p, n) /\ g[<<p + 1, n + 1>>]
      BY <3>1, <3>2, RestStep
    <3>4. g[<<p, n>>] \in BOOLEAN
      BY <3>1, RestBoolean
    <3>5. Meets(pattern, name, p, n) <=> n < N /\ pattern[p] = name[n]
      BY <1>1, <1>2, <2>2, <3>1, <3>2 DEF Meets
    <3> HIDE DEF g
    <3>6. CASE n = N
      <4>1. ~Same(p, n)
        BY <1>1, <2>2, <3>6
      <4>2. ~g[<<p, n>>]
        BY <3>3, <3>5, <3>6, <1>1
      <4>3. Same(p, n) \in BOOLEAN
        OBVIOUS
      <4> HIDE DEF Same
      <4> QED
        BY <3>4, <4>1, <4>2, <4>3
    <3>7. CASE n # N
      <4>1. n + 1 \in 1 .. N /\ n < N
        BY <1>1, <3>7
      <4>2. g[<<p + 1, n + 1>>] = Same(p + 1, n + 1)
        BY <2>3, <4>1
      <4>3. Same(p, n) <=> pattern[p] = name[n] /\ Same(p + 1, n + 1)
        <5>1. P - p = N - n <=> P - (p + 1) = N - (n + 1)
          BY <1>1, <2>2
        <5>2. (n + 1) - (p + 1) = n - p /\ p + (n - p) = n
          BY <2>2
        <5>3. \A i \in 1 .. P - 1 : i >= p <=> i = p \/ i >= p + 1
          BY <1>1, <2>2
        <5> QED
          BY <2>2, <5>1, <5>2, <5>3
      <4> QED
        BY <3>3, <3>4, <3>5, <4>1, <4>2, <4>3
    <3> QED
      BY <3>6, <3>7
  <2> QED
    BY <2>4 DEF p
<1>5. I = Nat
  <2> HIDE DEF I
  <2> QED
    BY <1>3, <1>4, SetInduction DEF I
<1>6. Plain(1)
  <2>1. P - 1 \in Nat /\ P - 1 < P /\ P - (P - 1) = 1
    BY <1>1
  <2>2. P - 1 \in I
    <3> HIDE DEF I
    <3> QED
      BY <1>5, <2>1
  <2> QED
    BY <2>1, <2>2
<1>7. g[<<1, 1>>] = Same(1, 1)
  <2>1. 1 \in 1 .. N
    BY <1>1
  <2> HIDE DEF g
  <2> QED
    BY <1>6, <2>1
<1>8. Same(1, 1) <=> name = pattern
  <2>1. Same(1, 1) <=> Len(pattern) = Len(name) /\ \A i \in 1 .. Len(pattern) : pattern[i] = name[i]
    <3>1. P - 1 = N - 1 <=> Len(pattern) = Len(name)
      BY <1>1
    <3>2. \A i \in 1 .. P - 1 : i >= 1 /\ i + (1 - 1) = i
      BY <1>1
    <3>3. 1 .. P - 1 = 1 .. Len(pattern)
      BY <1>1
    <3> HIDE DEF P, N
    <3> QED
      BY <3>1, <3>2, <3>3
  <2> QED
    BY <2>1
<1> QED
  BY <1>7, <1>8, DenotesRest

LEMMA Chosen1 ==
  ASSUME NEW S, NEW filter \in Seq(S), NEW name \in Seq(S)
  PROVE  UnitTestFilter(filter, name) <=>
           \E p \in ToSet(SplitString(filter, ":")) : Denotes(p, name)
<1> DEFINE pats == ToSet(SplitString(filter, ":"))
<1>1. \A p \in pats : p \in Seq(S)
  <2> HIDE DEF SplitString
  <2> QED
    BY SplitType DEF ToSet
<1> HIDE DEF pats
<1>2. ASSUME NEW p \in pats, IsGlobPattern(p)
      PROVE  PatternMatchesString(name, p) <=> Denotes(p, name)
  BY <1>1, PatternsMatch
<1>3. ASSUME NEW p \in pats, ~IsGlobPattern(p) PROVE name = p <=> Denotes(p, name)
  BY <1>1, <1>3, PlainDenotes
<1>4. UnitTestFilter(filter, name) <=>
        \/ name \in {p \in pats : ~IsGlobPattern(p)}
        \/ \E p \in pats : IsGlobPattern(p) /\ PatternMatchesString(name, p)
  BY DEF UnitTestFilter, pats
<1>5. UnitTestFilter(filter, name) <=> \E p \in pats : Denotes(p, name)
  BY <1>2, <1>3, <1>4
<1> QED
  BY <1>5 DEF pats

LEMMA RestAtEnds ==
  ASSUME NEW S, NEW pattern \in Seq(S), NEW name \in Seq(S)
  PROVE  Rest(pattern, name)[<<Len(pattern) + 1, Len(name) + 1>>]
<1>1. Len(pattern) + 1 \in 1 .. Len(pattern) + 1 /\ Len(name) + 1 \in 1 .. Len(name) + 1
  OBVIOUS
<1> QED
  BY <1>1, RestEnd

LEMMA RestStar ==
  ASSUME NEW S, NEW pattern \in Seq(S), NEW name \in Seq(S),
         NEW p \in 1 .. Len(pattern) + 1, NEW n \in 1 .. Len(name) + 1, Star(pattern, p),
         NEW k \in n .. Len(name) + 1, Rest(pattern, name)[<<p + 1, k>>]
  PROVE  Rest(pattern, name)[<<p, n>>]
<1> DEFINE g == Rest(pattern, name)
<1>1. Star(pattern, p) =>
        (g[<<p, n>>] <=> \E j \in n .. Len(name) + 1 : g[<<p + 1, j>>])
  BY ONLY pattern \in Seq(S), name \in Seq(S), p \in 1 .. Len(pattern) + 1,
          n \in 1 .. Len(name) + 1, RestStep, Zenon
<1> HIDE DEF g
<1>2. g[<<p + 1, k>>]
  BY DEF g
<1> QED
  BY <1>1, <1>2 DEF g

\* An empty text before the dash selects everything.
LEMMA StarSelects ==
  ASSUME NEW S, NEW name \in Seq(S)
  PROVE  UnitTestFilter(<<"*">>, name)
<1> DEFINE T == S \cup {"*"}
           star == <<"*">>
<1>1. star \in Seq(T) /\ name \in Seq(T) /\ Len(star) = 1 /\ star[1] = "*"
  OBVIOUS
<1>2. Cuts(star, ":") = {2}
  BY <1>1 DEF Cuts
<1>3. SplitString(star, ":")[1] = SubSeq(star, 1, 2 - 1) /\ Len(SplitString(star, ":")) = 1
  <2>1. \A i \in Cuts(star, ":") : 2 <= i
    BY <1>2
  <2>2. 2 \in Cuts(star, ":") /\ 2 = Len(star) + 1
    BY <1>1, <1>2
  <2> HIDE DEF star, T
  <2> QED
    BY <1>1, <2>1, <2>2, FirstField
<1>4. SubSeq(star, 1, 2 - 1) = star
  <2>1. SubSeq(star, 1, Len(star)) = star
    BY <1>1, SubSeqFull
  <2>2. Len(star) = 2 - 1
    BY <1>1
  <2> QED
    BY <2>1, <2>2
<1> HIDE DEF star, T
<1>5. star \in ToSet(SplitString(star, ":"))
  <2>1. SplitString(star, ":") \in Seq(Seq(T))
    BY <1>1, SplitType
  <2> QED
    BY <1>3, <1>4, <2>1 DEF ToSet
<1>6. Denotes(star, name)
  <2>1. 1 \in 1 .. Len(star) + 1 /\ 2 \in 1 .. Len(star) + 1 /\ 1 \in 1 .. Len(name) + 1
        /\ Len(name) + 1 \in 1 .. Len(name) + 1 /\ 1 + 1 = 2 /\ 2 = Len(star) + 1
    BY <1>1
  <2>2. Rest(star, name)[<<2, Len(name) + 1>>]
    BY <1>1, <2>1, RestAtEnds
  <2>3. Star(star, 1)
    BY <1>1 DEF Star
  <2>4. Rest(star, name)[<<1 + 1, Len(name) + 1>>]
    BY <2>1, <2>2
  <2>5. Rest(star, name)[<<1, 1>>]
    BY <1>1, <2>1, <2>3, <2>4, RestStar
  <2> QED
    BY <2>5, DenotesRest
<1> QED
  BY <1>1, <1>5, <1>6, Chosen1 DEF star

\* A filter selects exactly the names it means, the negative patterns, an empty
\* positive part and the greedy matching included (gtest.cc, UnitTestFilter and
\* PositiveAndNegativeUnitTestFilter).
THEOREM FiltersSelect ==
  ASSUME NEW S, NEW filter \in Seq(S), NEW name \in Seq(S)
  PROVE  PositiveAndNegativeUnitTestFilter(filter, name) <=> Selects(filter, name)
<1> DEFINE I == {i \in 1 .. Len(filter) : filter[i] = "-"}
           dash == SelectInSeq(filter, LAMBDA c : c = "-")
           Among(t) == \E p \in ToSet(SplitString(t, ":")) : Denotes(p, name)
           parts == SplitString(filter, "-")
<1>1. Len(filter) \in Nat
  OBVIOUS
<1>2. dash = IF I # {} THEN Min(I) ELSE 0
  BY DEF SelectInSeq
<1>3. Selects(filter, name) <=>
        /\ Among(IF dash = 0 THEN filter ELSE SubSeq(filter, 1, dash - 1)) \/ dash = 1
        /\ dash = 0 \/ ~Among(SubSeq(filter, dash + 1, Len(filter)))
  BY DEF Selects
<1>4. PositiveAndNegativeUnitTestFilter(filter, name) <=>
        IF Len(parts) = 1 THEN UnitTestFilter(parts[1], name)
        ELSE /\ UnitTestFilter(IF parts[1] = <<>> THEN <<"*">> ELSE parts[1], name)
             /\ ~UnitTestFilter(SubSeq(filter, Len(parts[1]) + 2, Len(filter)), name)
  BY DEF PositiveAndNegativeUnitTestFilter
<1>5. \A t \in Seq(S) : UnitTestFilter(t, name) <=> Among(t)
  BY Chosen1
<1> HIDE DEF dash, Among, parts
<1>6. CASE I = {}
  <2>1. dash = 0
    BY <1>2, <1>6
  <2>2. Cuts(filter, "-") = {Len(filter) + 1}
    BY <1>1, <1>6 DEF Cuts
  <2>3. parts[1] = SubSeq(filter, 1, (Len(filter) + 1) - 1) /\ Len(parts) = 1
    <3>1. Len(filter) + 1 \in Cuts(filter, "-") /\ \A i \in Cuts(filter, "-") : Len(filter) + 1 <= i
      BY <1>1, <2>2
    <3> QED
      BY <3>1, FirstField DEF parts
  <2>4. SubSeq(filter, 1, (Len(filter) + 1) - 1) = filter
    BY <1>1
  <2>5. parts[1] = filter /\ Len(parts) = 1
    BY <2>3, <2>4
  <2>6. PositiveAndNegativeUnitTestFilter(filter, name) <=> UnitTestFilter(filter, name)
    BY <1>4, <2>5
  <2>7. Selects(filter, name) <=> Among(filter)
    BY <1>3, <2>1
  <2> QED
    BY <1>5, <2>6, <2>7
<1>7. CASE I # {}
  <2>1. dash \in I /\ \A i \in I : dash <= i
    <3>1. I \in SUBSET Nat /\ I # {}
      BY <1>7
    <3>2. \E x \in I : \A y \in I : x <= y
      BY <3>1, LeastNumber
    <3> QED
      BY <1>2, <1>7, <3>2 DEF Min
  <2>2. dash \in 1 .. Len(filter) /\ dash # 0
    BY <1>1, <2>1
  <2>3. dash \in Cuts(filter, "-") /\ \A i \in Cuts(filter, "-") : dash <= i
    BY <1>1, <2>1, <2>2 DEF Cuts
  <2>4. parts[1] = SubSeq(filter, 1, dash - 1) /\ Len(parts) # 1
    <3>1. dash # Len(filter) + 1
      BY <1>1, <2>2
    <3> QED
      BY <2>3, <3>1, FirstField DEF parts
  <2>5. parts[1] \in Seq(S) /\ Len(parts[1]) = dash - 1
    BY <1>1, <2>2, <2>4
  <2>6. Len(parts[1]) + 2 = dash + 1 /\ (parts[1] = <<>> <=> dash = 1)
    BY <2>2, <2>5
  <2>7. SubSeq(filter, dash + 1, Len(filter)) \in Seq(S)
    <3>1. dash + 1 \in 1 .. Len(filter) + 2 /\ Len(filter) \in 0 .. Len(filter)
      BY <1>1, <2>2
    <3> QED
      BY <3>1, PieceType
  <2>8. UnitTestFilter(IF parts[1] = <<>> THEN <<"*">> ELSE parts[1], name) <=>
          Among(SubSeq(filter, 1, dash - 1)) \/ dash = 1
    <3>1. CASE dash = 1
      BY <2>6, <3>1, StarSelects
    <3>2. CASE dash # 1
      BY <1>5, <2>4, <2>5, <2>6, <3>2
    <3> QED
      BY <3>1, <3>2
  <2>9. ~UnitTestFilter(SubSeq(filter, Len(parts[1]) + 2, Len(filter)), name) <=>
          ~Among(SubSeq(filter, dash + 1, Len(filter)))
    BY <1>5, <2>6, <2>7
  <2> QED
    BY <1>3, <1>4, <2>2, <2>4, <2>8, <2>9
<1> QED
  BY <1>6, <1>7

-----------------------------------------------------------------------------
(* GTestOutput: paths.                                                     *)

Text == Seq(Char)

\* A scan of the numbers up to n, with what there is at each, has a result.
LEMMA ScanExists ==
  ASSUME NEW n \in Nat, NEW F \in [(1 .. n) \X Text -> Text]
  PROVE  \E g \in [0 .. n -> Text] : /\ g[0] = <<>>
                                 /\ \A i \in 1 .. n : g[i] = F[<<i, g[i - 1]>>]
<1> DEFINE Upto(g, m) == g[0] = <<>> /\ \A i \in 1 .. m : g[i] = F[<<i, g[i - 1]>>]
           I == {m \in Nat : m <= n => \E g \in [0 .. n -> Text] : Upto(g, m)}
<1>0. <<>> \in Text
  BY DEF Text
<1> HIDE DEF Text
<1>1. 0 \in I
  <2>1. [i \in 0 .. n |-> <<>>] \in [0 .. n -> Text] /\ Upto([i \in 0 .. n |-> <<>>], 0)
    BY <1>0
  <2> QED
    BY <2>1
<1>2. ASSUME NEW m \in I PROVE m + 1 \in I
  <2>1. SUFFICES ASSUME m + 1 <= n PROVE \E h \in [0 .. n -> Text] : Upto(h, m + 1)
    OBVIOUS
  <2>2. m \in Nat /\ m <= n
    BY <2>1
  <2>3. PICK g \in [0 .. n -> Text] : Upto(g, m)
    BY <2>2
  <2> DEFINE h == [g EXCEPT ![m + 1] = F[<<m + 1, g[m]>>]]
  <2>4. h \in [0 .. n -> Text]
    BY <2>1, <2>2
  <2>5. h[0] = <<>>
    BY <2>2, <2>3
  <2>6. ASSUME NEW i \in 1 .. m + 1 PROVE h[i] = F[<<i, h[i - 1]>>]
    <3>1. i \in 0 .. n /\ i - 1 \in 0 .. n /\ i - 1 # m + 1
      BY <2>1, <2>2
    <3>2. h[i - 1] = g[i - 1]
      BY <3>1
    <3>3. CASE i = m + 1
      BY <2>1, <2>2, <3>1, <3>2, <3>3
    <3>4. CASE i # m + 1
      BY <2>2, <2>3, <3>1, <3>2, <3>4
    <3> QED
      BY <3>3, <3>4
  <2> HIDE DEF h
  <2> QED
    BY <2>4, <2>5, <2>6
<1> HIDE DEF I
<1>3. I = Nat
  <2>1. I \in SUBSET Nat
    BY DEF I
  <2> QED
    BY <1>1, <1>2, <2>1, SetInduction
<1>4. n \in I
  BY <1>3
<1>5. \E g \in [0 .. n -> Text] : Upto(g, n)
  <2>1. n <= n => \E g \in [0 .. n -> Text] : Upto(g, n)
    BY <1>4, Zenon DEF I
  <2> QED
    BY <2>1
<1> QED
  BY <1>5, Zenon

\* What the scans of Normalize and Names do with one more character.
AddKept(text, c) ==
  IF c = "/" /\ text # <<>> /\ Last(text) = "/" THEN text ELSE Append(text, c)
AddName(text, c) == IF c \in {"/", "."} THEN text ELSE Append(text, c)

Kept(path) == CHOOSE out : out = [i \in 0 .. Len(path) |->
                IF i = 0 THEN <<>> ELSE AddKept(out[i - 1], path[i])]
Named(path) == CHOOSE names : names = [i \in 0 .. Len(path) |->
                IF i = 0 THEN <<>> ELSE AddName(names[i - 1], path[i])]

LEMMA KeptRight ==
  ASSUME NEW path \in Text
  PROVE  /\ Kept(path) \in [0 .. Len(path) -> Text] /\ Kept(path)[0] = <<>>
         /\ \A i \in 1 .. Len(path) : Kept(path)[i] = AddKept(Kept(path)[i - 1], path[i])
<1> DEFINE F == [x \in (1 .. Len(path)) \X Text |-> AddKept(x[2], path[x[1]])]
<1>1. Len(path) \in Nat /\ \A i \in 1 .. Len(path) : path[i] \in Char
  BY DEF Text
<1>2. \A i \in 1 .. Len(path), text \in Text : AddKept(text, path[i]) \in Text
  <2>1. ASSUME NEW c \in Char, NEW text \in Text PROVE AddKept(text, c) \in Text
    <3>1. Append(text, c) \in Text
      BY DEF Text
    <3> HIDE DEF Text
    <3> QED
      BY <3>1 DEF AddKept
  <2> QED
    BY <1>1, <2>1
<1>3. F \in [(1 .. Len(path)) \X Text -> Text]
  BY <1>2
<1>4. <<>> \in Text
  BY DEF Text
<1>5. PICK g \in [0 .. Len(path) -> Text] :
        g[0] = <<>> /\ \A i \in 1 .. Len(path) : g[i] = F[<<i, g[i - 1]>>]
  <2> DEFINE n == Len(path)
  <2>1. n \in Nat /\ F \in [(1 .. n) \X Text -> Text]
    BY <1>1, <1>3
  <2> HIDE DEF F, Text, n
  <2>2. \E g \in [0 .. n -> Text] : g[0] = <<>> /\ \A i \in 1 .. n : g[i] = F[<<i, g[i - 1]>>]
    BY <1>4, <2>1, ScanExists
  <2> QED
    BY <2>2 DEF n
<1>6. \A i \in 1 .. Len(path) : g[i - 1] \in Text
  BY <1>1
<1>7. \A i \in 1 .. Len(path) : g[i] = AddKept(g[i - 1], path[i])
  BY <1>5, <1>6
<1>8. g = [i \in 0 .. Len(path) |-> IF i = 0 THEN <<>> ELSE AddKept(g[i - 1], path[i])]
  <2>1. \A i \in 0 .. Len(path) : g[i] = IF i = 0 THEN <<>> ELSE AddKept(g[i - 1], path[i])
    BY <1>1, <1>5, <1>7
  <2> QED
    BY <2>1
<1>9. Kept(path) = [i \in 0 .. Len(path) |->
                     IF i = 0 THEN <<>> ELSE AddKept(Kept(path)[i - 1], path[i])]
  BY <1>8 DEF Kept
<1>10. \A i \in 1 .. Len(path) : Kept(path)[i] = AddKept(Kept(path)[i - 1], path[i])
  BY <1>1, <1>9
<1>11. Kept(path)[0] = <<>> /\ DOMAIN Kept(path) = 0 .. Len(path)
  BY <1>1, <1>9
<1> DEFINE I == {m \in Nat : m <= Len(path) => Kept(path)[m] \in Text}
<1>12. I = Nat
  <2>1. 0 \in I
    BY <1>4, <1>11
  <2>2. ASSUME NEW m \in I PROVE m + 1 \in I
    <3>1. SUFFICES ASSUME m + 1 <= Len(path) PROVE Kept(path)[m + 1] \in Text
      OBVIOUS
    <3>2. m \in Nat /\ m + 1 \in 1 .. Len(path) /\ (m + 1) - 1 = m /\ m <= Len(path)
      BY <1>1, <3>1
    <3> QED
      BY <1>2, <1>10, <3>2
  <2> HIDE DEF I
  <2>3. I \in SUBSET Nat
    BY DEF I
  <2> QED
    BY <2>1, <2>2, <2>3, SetInduction
<1>13. \A i \in 0 .. Len(path) : Kept(path)[i] \in Text
  BY <1>1, <1>12
<1>14. Kept(path) \in [0 .. Len(path) -> Text]
  <2>1. Kept(path) = [i \in 0 .. Len(path) |-> Kept(path)[i]]
    BY <1>9, <1>11
  <2> QED
    BY <1>13, <2>1
<1> QED
  BY <1>10, <1>11, <1>14

LEMMA NamedRight ==
  ASSUME NEW path \in Text
  PROVE  /\ Named(path) \in [0 .. Len(path) -> Text] /\ Named(path)[0] = <<>>
         /\ \A i \in 1 .. Len(path) : Named(path)[i] = AddName(Named(path)[i - 1], path[i])
<1> DEFINE F == [x \in (1 .. Len(path)) \X Text |-> AddName(x[2], path[x[1]])]
<1>1. Len(path) \in Nat /\ \A i \in 1 .. Len(path) : path[i] \in Char
  BY DEF Text
<1>2. \A i \in 1 .. Len(path), text \in Text : AddName(text, path[i]) \in Text
  <2>1. ASSUME NEW c \in Char, NEW text \in Text PROVE AddName(text, c) \in Text
    <3>1. Append(text, c) \in Text
      BY DEF Text
    <3> HIDE DEF Text
    <3> QED
      BY <3>1 DEF AddName
  <2> QED
    BY <1>1, <2>1
<1>3. F \in [(1 .. Len(path)) \X Text -> Text]
  BY <1>2
<1>4. <<>> \in Text
  BY DEF Text
<1>5. PICK g \in [0 .. Len(path) -> Text] :
        g[0] = <<>> /\ \A i \in 1 .. Len(path) : g[i] = F[<<i, g[i - 1]>>]
  <2> DEFINE n == Len(path)
  <2>1. n \in Nat /\ F \in [(1 .. n) \X Text -> Text]
    BY <1>1, <1>3
  <2> HIDE DEF F, Text, n
  <2>2. \E g \in [0 .. n -> Text] : g[0] = <<>> /\ \A i \in 1 .. n : g[i] = F[<<i, g[i - 1]>>]
    BY <1>4, <2>1, ScanExists
  <2> QED
    BY <2>2 DEF n
<1>6. \A i \in 1 .. Len(path) : g[i - 1] \in Text
  BY <1>1
<1>7. \A i \in 1 .. Len(path) : g[i] = AddName(g[i - 1], path[i])
  BY <1>5, <1>6
<1>8. g = [i \in 0 .. Len(path) |-> IF i = 0 THEN <<>> ELSE AddName(g[i - 1], path[i])]
  <2>1. \A i \in 0 .. Len(path) : g[i] = IF i = 0 THEN <<>> ELSE AddName(g[i - 1], path[i])
    BY <1>1, <1>5, <1>7
  <2> QED
    BY <2>1
<1>9. Named(path) = [i \in 0 .. Len(path) |->
                     IF i = 0 THEN <<>> ELSE AddName(Named(path)[i - 1], path[i])]
  BY <1>8 DEF Named
<1>10. \A i \in 1 .. Len(path) : Named(path)[i] = AddName(Named(path)[i - 1], path[i])
  BY <1>1, <1>9
<1>11. Named(path)[0] = <<>> /\ DOMAIN Named(path) = 0 .. Len(path)
  BY <1>1, <1>9
<1> DEFINE I == {m \in Nat : m <= Len(path) => Named(path)[m] \in Text}
<1>12. I = Nat
  <2>1. 0 \in I
    BY <1>4, <1>11
  <2>2. ASSUME NEW m \in I PROVE m + 1 \in I
    <3>1. SUFFICES ASSUME m + 1 <= Len(path) PROVE Named(path)[m + 1] \in Text
      OBVIOUS
    <3>2. m \in Nat /\ m + 1 \in 1 .. Len(path) /\ (m + 1) - 1 = m /\ m <= Len(path)
      BY <1>1, <3>1
    <3> QED
      BY <1>2, <1>10, <3>2
  <2> HIDE DEF I
  <2>3. I \in SUBSET Nat
    BY DEF I
  <2> QED
    BY <2>1, <2>2, <2>3, SetInduction
<1>13. \A i \in 0 .. Len(path) : Named(path)[i] \in Text
  BY <1>1, <1>12
<1>14. Named(path) \in [0 .. Len(path) -> Text]
  <2>1. Named(path) = [i \in 0 .. Len(path) |-> Named(path)[i]]
    BY <1>9, <1>11
  <2> QED
    BY <1>13, <2>1
<1> QED
  BY <1>10, <1>11, <1>14

LEMMA NormalizeIsKept == ASSUME NEW path PROVE Normalize(path) = Kept(path)[Len(path)]
BY DEF Normalize, Kept, AddKept

LEMMA NamesIsNamed == ASSUME NEW path PROVE Names(path) = Named(path)[Len(path)]
BY DEF Names, Named, AddName

LEMMA TextAppend ==
  ASSUME NEW text \in Text, NEW c \in Char
  PROVE  /\ Append(text, c) \in Text /\ Len(Append(text, c)) = Len(text) + 1
         /\ Append(text, c)[Len(text) + 1] = c /\ Len(text) \in Nat
         /\ \A i \in 1 .. Len(text) : Append(text, c)[i] = text[i]
         /\ Append(text, c) # <<>> /\ Last(Append(text, c)) = c
<1> DEFINE t == Append(text, c)
<1>1. /\ t \in Text /\ Len(t) = Len(text) + 1 /\ t[Len(text) + 1] = c /\ Len(text) \in Nat
      /\ \A i \in 1 .. Len(text) : t[i] = text[i]
  BY DEF Text
<1>2. t # <<>>
  <2>1. Len(t) # Len(<<>>)
    BY <1>1
  <2> QED
    BY <2>1
<1> QED
  BY <1>1, <1>2 DEF Last

LEMMA NormalizeAppend ==
  ASSUME NEW text \in Text, NEW c \in Char
  PROVE  Normalize(Append(text, c)) = AddKept(Normalize(text), c)
<1> DEFINE t == Append(text, c)
           g == Kept(text)
           h == Kept(t)
           I == {m \in Nat : m <= Len(text) => h[m] = g[m]}
<1>1. t \in Text /\ Len(text) \in Nat /\ Len(t) = Len(text) + 1 /\ t[Len(text) + 1] = c
      /\ \A i \in 1 .. Len(text) : t[i] = text[i]
  BY TextAppend
<1>2. g[0] = <<>> /\ \A i \in 1 .. Len(text) : g[i] = AddKept(g[i - 1], text[i])
  BY KeptRight
<1>3. h[0] = <<>> /\ \A i \in 1 .. Len(t) : h[i] = AddKept(h[i - 1], t[i])
  BY <1>1, KeptRight
<1> HIDE DEF t, g, h
<1>4. 0 \in I
  BY <1>2, <1>3
<1>5. ASSUME NEW m \in I PROVE m + 1 \in I
  <2>1. SUFFICES ASSUME m + 1 <= Len(text) PROVE h[m + 1] = g[m + 1]
    OBVIOUS
  <2>2. m \in Nat /\ m <= Len(text) /\ (m + 1) - 1 = m /\ m + 1 \in 1 .. Len(text)
        /\ m + 1 \in 1 .. Len(t)
    BY <1>1, <2>1
  <2>3. h[m] = g[m]
    BY <2>2
  <2>4. h[m + 1] = AddKept(h[m], t[m + 1]) /\ g[m + 1] = AddKept(g[m], text[m + 1])
    BY <1>2, <1>3, <2>2
  <2> QED
    BY <1>1, <2>2, <2>3, <2>4
<1>6. h[Len(text)] = g[Len(text)]
  <2> HIDE DEF I
  <2>1. I \in SUBSET Nat
    BY DEF I
  <2>2. I = Nat
    BY <1>4, <1>5, <2>1, SetInduction
  <2> QED
    BY <1>1, <2>2 DEF I
<1>7. h[Len(t)] = AddKept(h[Len(text)], c)
  <2>1. Len(t) \in 1 .. Len(t) /\ Len(t) - 1 = Len(text)
    BY <1>1
  <2> QED
    BY <1>1, <1>3, <2>1
<1> QED
  BY <1>6, <1>7, NormalizeIsKept DEF t, g, h

LEMMA NamesAppend ==
  ASSUME NEW text \in Text, NEW c \in Char
  PROVE  Names(Append(text, c)) = AddName(Names(text), c)
<1> DEFINE t == Append(text, c)
           g == Named(text)
           h == Named(t)
           I == {m \in Nat : m <= Len(text) => h[m] = g[m]}
<1>1. t \in Text /\ Len(text) \in Nat /\ Len(t) = Len(text) + 1 /\ t[Len(text) + 1] = c
      /\ \A i \in 1 .. Len(text) : t[i] = text[i]
  BY TextAppend
<1>2. g[0] = <<>> /\ \A i \in 1 .. Len(text) : g[i] = AddName(g[i - 1], text[i])
  BY NamedRight
<1>3. h[0] = <<>> /\ \A i \in 1 .. Len(t) : h[i] = AddName(h[i - 1], t[i])
  BY <1>1, NamedRight
<1> HIDE DEF t, g, h
<1>4. 0 \in I
  BY <1>2, <1>3
<1>5. ASSUME NEW m \in I PROVE m + 1 \in I
  <2>1. SUFFICES ASSUME m + 1 <= Len(text) PROVE h[m + 1] = g[m + 1]
    OBVIOUS
  <2>2. m \in Nat /\ m <= Len(text) /\ (m + 1) - 1 = m /\ m + 1 \in 1 .. Len(text)
        /\ m + 1 \in 1 .. Len(t)
    BY <1>1, <2>1
  <2>3. h[m] = g[m]
    BY <2>2
  <2>4. h[m + 1] = AddName(h[m], t[m + 1]) /\ g[m + 1] = AddName(g[m], text[m + 1])
    BY <1>2, <1>3, <2>2
  <2> QED
    BY <1>1, <2>2, <2>3, <2>4
<1>6. h[Len(text)] = g[Len(text)]
  <2> HIDE DEF I
  <2>1. I \in SUBSET Nat
    BY DEF I
  <2>2. I = Nat
    BY <1>4, <1>5, <2>1, SetInduction
  <2> QED
    BY <1>1, <2>2 DEF I
<1>7. h[Len(t)] = AddName(h[Len(text)], c)
  <2>1. Len(t) \in 1 .. Len(t) /\ Len(t) - 1 = Len(text)
    BY <1>1
  <2> QED
    BY <1>1, <1>3, <2>1
<1> QED
  BY <1>6, <1>7, NamesIsNamed DEF t, g, h

LEMMA OfNothing == Normalize(<<>>) = <<>> /\ Names(<<>>) = <<>>
<1>1. <<>> \in Text /\ Len(<<>>) = 0
  BY DEF Text
<1> QED
  BY <1>1, KeptRight, NamedRight, NormalizeIsKept, NamesIsNamed

LEMMA NamesType == ASSUME NEW text \in Text PROVE Names(text) \in Text
<1>1. Len(text) \in 0 .. Len(text)
  BY DEF Text
<1> QED
  BY <1>1, NamedRight, NamesIsNamed

LEMMA NormalizeType == ASSUME NEW text \in Text PROVE Normalize(text) \in Text
<1>1. Len(text) \in 0 .. Len(text)
  BY DEF Text
<1> QED
  BY <1>1, KeptRight, NormalizeIsKept

LEMMA FrontLast ==
  ASSUME NEW text \in Text, text # <<>>
  PROVE  /\ Front(text) \in Text /\ Last(text) \in Char
         /\ Len(text) \in Nat \ {0} /\ Len(Front(text)) = Len(text) - 1
         /\ text = Append(Front(text), Last(text))
         /\ \A i \in 1 .. Len(text) - 1 : Front(text)[i] = text[i]
<1>1. Len(text) \in Nat \ {0} /\ Last(text) \in Char
  BY DEF Text, Last
<1>2. /\ Front(text) \in Text /\ Len(Front(text)) = Len(text) - 1
      /\ \A i \in 1 .. Len(text) - 1 : Front(text)[i] = text[i]
  <2> DEFINE n == Len(text) - 1
             f == SubSeq(text, 1, n)
  <2>1. n \in Nat /\ n <= Len(text) /\ text \in Seq(Char)
    BY <1>1 DEF Text
  <2>2. \A i \in 1 .. n : text[i] \in Char
    BY <1>1, <2>1
  <2> HIDE DEF n
  <2>3. f \in Seq(Char) /\ Len(f) = n /\ \A i \in 1 .. n : f[i] = text[i]
    BY <2>1, <2>2, SubSeqProperties
  <2> QED
    BY <2>3 DEF Front, Text, n
<1>3. text = Append(Front(text), Last(text))
  BY <1>1, <1>2 DEF Text, Last
<1> QED
  BY <1>1, <1>2, <1>3

\* What holds of the empty text, and of a text with one more character if it holds of
\* the text, holds of all texts.
LEMMA TextInduction ==
  ASSUME NEW I \in SUBSET Text, <<>> \in I,
         \A text \in I, c \in Char : Append(text, c) \in I
  PROVE  I = Text
<1> DEFINE J == {n \in Nat : \A text \in Text : Len(text) = n => text \in I}
<1>1. 0 \in J
  BY DEF Text
<1>2. ASSUME NEW n \in J PROVE n + 1 \in J
  <2>1. ASSUME NEW text \in Text, Len(text) = n + 1 PROVE text \in I
    <3>1. text # <<>>
      BY <2>1
    <3>2. Front(text) \in Text /\ Len(Front(text)) = n /\ Last(text) \in Char
          /\ text = Append(Front(text), Last(text))
      BY <2>1, <3>1, FrontLast
    <3>3. Front(text) \in I
      BY <3>2
    <3> QED
      BY <3>2, <3>3
  <2> QED
    BY <2>1
<1> HIDE DEF J
<1>3. J = Nat
  <2>1. J \in SUBSET Nat
    BY DEF J
  <2> QED
    BY <1>1, <1>2, <2>1, SetInduction
<1>4. \A text \in Text : Len(text) \in Nat
  BY DEF Text
<1> QED
  BY <1>3, <1>4 DEF J

LEMMA IsPathAppend ==
  ASSUME NEW text \in Text, NEW c \in Char
  PROVE  IsPath(Append(text, c)) <=>
           IsPath(text) /\ (text # <<>> => "/" \in {Last(text), c})
<1> DEFINE t == Append(text, c)
           n == Len(text)
<1>1. /\ t \in Text /\ Len(t) = n + 1 /\ t[n + 1] = c /\ n \in Nat
      /\ \A i \in 1 .. n : t[i] = text[i]
  BY TextAppend
<1>2. text # <<>> <=> n # 0
  BY DEF Text
<1> HIDE DEF t, n
<1>3. IsPath(t) <=> \A i \in 1 .. n : "/" \in {t[i], t[i + 1]}
  BY <1>1 DEF IsPath, Text
<1>4. IsPath(text) <=> \A i \in 1 .. n - 1 : "/" \in {t[i], t[i + 1]}
  BY <1>1 DEF IsPath, Text, n
<1>5. n # 0 => Last(text) = t[n] /\ n \in 1 .. n
  BY <1>1 DEF Last, n
<1>6. ASSUME IsPath(t) PROVE IsPath(text) /\ (n # 0 => "/" \in {t[n], c})
  BY <1>1, <1>3, <1>4, <1>5, <1>6
<1>7. ASSUME IsPath(text), n # 0 => "/" \in {t[n], c} PROVE IsPath(t)
  <2>1. ASSUME NEW i \in 1 .. n PROVE "/" \in {t[i], t[i + 1]}
    <3>1. CASE i = n
      BY <1>1, <1>7, <3>1
    <3>2. CASE i # n
      BY <1>1, <1>4, <1>7, <3>2
    <3> QED
      BY <3>1, <3>2
  <2> QED
    BY <1>3, <2>1
<1> QED
  BY <1>2, <1>5, <1>6, <1>7 DEF t

\* What Normalize keeps of a text.
KeepsMeaning(text) ==
  /\ Names(Normalize(text)) = Names(text)
  /\ text # <<>> => /\ Normalize(text) # <<>>
                    /\ Last(Normalize(text)) = Last(text)
                    /\ Normalize(text)[1] = text[1]
  /\ IsPath(text) => IsPath(Normalize(text))

LEMMA FirstAppend ==
  ASSUME NEW text \in Text, NEW c \in Char
  PROVE  Append(text, c)[1] = IF text = <<>> THEN c ELSE text[1]
<1>1. text # <<>> => 1 \in 1 .. Len(text)
  BY DEF Text
<1>2. text = <<>> => Len(text) + 1 = 1
  OBVIOUS
<1> QED
  BY <1>1, <1>2, TextAppend

LEMMA NormalizeStep ==
  ASSUME NEW text \in Text, NEW c \in Char, KeepsMeaning(text)
  PROVE  KeepsMeaning(Append(text, c))
<1> DEFINE t == Append(text, c)
           n == Normalize(text)
<1>1. t \in Text /\ t # <<>> /\ Last(t) = c
  BY TextAppend
<1>2. n \in Text
  BY NormalizeType
<1>3. Normalize(t) = AddKept(n, c) /\ Names(t) = AddName(Names(text), c)
  BY NormalizeAppend, NamesAppend
<1>4. text = <<>> => n = <<>>
  BY OfNothing
<1>5. text # <<>> => n # <<>> /\ Last(n) = Last(text) /\ n[1] = text[1]
  BY DEF KeepsMeaning
<1>6. Names(n) = Names(text) /\ (IsPath(text) => IsPath(n))
  BY DEF KeepsMeaning
<1>7. IsPath(t) <=> IsPath(text) /\ (text # <<>> => "/" \in {Last(text), c})
  BY IsPathAppend
<1>8. t[1] = IF text = <<>> THEN c ELSE text[1]
  BY FirstAppend
<1> HIDE DEF t, n
<1>9. CASE c = "/" /\ n # <<>> /\ Last(n) = "/"
  <2>1. Normalize(t) = n /\ text # <<>>
    BY <1>3, <1>4, <1>9 DEF AddKept
  <2>2. Names(t) = Names(text)
    BY <1>3, <1>9 DEF AddName
  <2> QED
    BY <1>1, <1>5, <1>6, <1>7, <1>8, <1>9, <2>1, <2>2 DEF KeepsMeaning, t
<1>10. CASE ~(c = "/" /\ n # <<>> /\ Last(n) = "/")
  <2>1. Normalize(t) = Append(n, c)
    BY <1>3, <1>10 DEF AddKept
  <2>2. Append(n, c) # <<>> /\ Last(Append(n, c)) = c
    BY <1>2, TextAppend
  <2>3. Names(Append(n, c)) = AddName(Names(n), c)
    BY <1>2, NamesAppend
  <2>4. IsPath(Append(n, c)) <=> IsPath(n) /\ (n # <<>> => "/" \in {Last(n), c})
    BY <1>2, IsPathAppend
  <2>5. Append(n, c)[1] = IF n = <<>> THEN c ELSE n[1]
    BY <1>2, FirstAppend
  <2> QED
    BY <1>1, <1>3, <1>4, <1>5, <1>6, <1>7, <1>8, <2>1, <2>2, <2>3, <2>4, <2>5
    DEF KeepsMeaning, t
<1> QED
  BY <1>9, <1>10

LEMMA NormalizeKeeps == ASSUME NEW text \in Text PROVE KeepsMeaning(text)
<1> DEFINE I == {s \in Text : KeepsMeaning(s)}
<1>1. <<>> \in I
  <2>1. <<>> \in Text
    BY DEF Text
  <2> QED
    BY <2>1, OfNothing DEF KeepsMeaning
<1>2. ASSUME NEW s \in I, NEW c \in Char PROVE Append(s, c) \in I
  <2>1. Append(s, c) \in Text
    BY TextAppend
  <2> QED
    BY <2>1, NormalizeStep
<1> HIDE DEF I
<1>3. I = Text
  <2>1. I \in SUBSET Text
    BY DEF I
  <2> QED
    BY <1>1, <1>2, <2>1, TextInduction
<1> QED
  BY <1>3 DEF I

LEMMA NamesConcat ==
  ASSUME NEW a \in Text, NEW b \in Text
  PROVE  Names(a \o b) = Names(a) \o Names(b)
<1> DEFINE I == {s \in Text : Names(a \o s) = Names(a) \o Names(s)}
<1>1. <<>> \in I
  <2>1. Names(a) \in Text /\ <<>> \in Text
    BY NamesType DEF Text
  <2>2. a \o <<>> = a /\ Names(a) \o <<>> = Names(a)
    BY <2>1 DEF Text
  <2> QED
    BY <2>1, <2>2, OfNothing
<1>2. ASSUME NEW s \in I, NEW c \in Char PROVE Append(s, c) \in I
  <2>1. s \in Text /\ Append(s, c) \in Text /\ Names(a \o s) = Names(a) \o Names(s)
    BY TextAppend
  <2>2. a \o Append(s, c) = Append(a \o s, c) /\ a \o s \in Text
    BY <2>1 DEF Text
  <2>3. Names(a \o Append(s, c)) = AddName(Names(a) \o Names(s), c)
    BY <2>1, <2>2, NamesAppend
  <2>4. Names(Append(s, c)) = AddName(Names(s), c)
    BY <2>1, NamesAppend
  <2>5. Names(a) \o Append(Names(s), c) = Append(Names(a) \o Names(s), c)
    <3>1. Names(a) \in Text /\ Names(s) \in Text
      BY <2>1, NamesType
    <3> QED
      BY <3>1 DEF Text
  <2> QED
    BY <2>1, <2>3, <2>4, <2>5 DEF AddName
<1> HIDE DEF I
<1>3. I = Text
  <2>1. I \in SUBSET Text
    BY DEF I
  <2> QED
    BY <1>1, <1>2, <2>1, TextInduction
<1> QED
  BY <1>3 DEF I

LEMMA Separators == "/" \in Char /\ "." \in Char
BY OutputAssumption

LEMMA PathIsText == ASSUME NEW path, IsPath(path) PROVE path \in Text
BY DEF IsPath, Text

LEMMA FrontPath ==
  ASSUME NEW path, IsPath(path), path # <<>>
  PROVE  /\ path \in Text /\ Front(path) \in Text /\ Last(path) \in Char
         /\ path = Append(Front(path), Last(path))
         /\ IsPath(Front(path))
         /\ Front(path) # <<>> => /\ "/" \in {Last(Front(path)), Last(path)}
                                  /\ Front(path)[1] = path[1]
         /\ Front(path) = <<>> => Last(path) = path[1]
         /\ Names(path) = AddName(Names(Front(path)), Last(path))
<1> DEFINE f == Front(path)
           c == Last(path)
<1>1. path \in Text
  BY PathIsText
<1>2. f \in Text /\ c \in Char /\ path = Append(f, c)
  BY <1>1, FrontLast
<1> HIDE DEF f, c
<1>3. IsPath(f) /\ (f # <<>> => "/" \in {Last(f), c})
  BY <1>2, IsPathAppend
<1>4. path[1] = IF f = <<>> THEN c ELSE f[1]
  BY <1>2, FirstAppend
<1>5. Names(path) = AddName(Names(f), c)
  BY <1>2, NamesAppend
<1> QED
  BY <1>1, <1>2, <1>3, <1>4, <1>5 DEF f, c

IsFull(path) == IsPath(path) /\ IsAbsolutePath(path)

LEMMA FullIs == ASSUME NEW path, IsFull(path)
                PROVE  IsPath(path) /\ path \in Text /\ path # <<>> /\ path[1] = "/"
BY PathIsText DEF IsFull, IsAbsolutePath

LEMMA IsFullIf == ASSUME NEW path, IsPath(path), path # <<>>, path[1] = "/" PROVE IsFull(path)
<1>1. path \in Seq(Char)
  BY PathIsText DEF Text
<1>2. Head(path) = path[1]
  BY <1>1
<1> QED
  BY <1>2 DEF IsFull, IsAbsolutePath

LEMMA TrailingRight ==
  ASSUME NEW path, IsPath(path)
  PROVE  /\ IsPath(RemoveTrailingPathSeparator(path))
         /\ Names(RemoveTrailingPathSeparator(path)) = Names(path)
         /\ RemoveTrailingPathSeparator(path) # <<>> =>
              path # <<>> /\ RemoveTrailingPathSeparator(path)[1] = path[1]
<1>1. CASE IsDirectory(path)
  <2>1. path # <<>> /\ Last(path) = "/"
    BY <1>1 DEF IsDirectory
  <2>2. RemoveTrailingPathSeparator(path) = Front(path)
    BY <1>1 DEF RemoveTrailingPathSeparator
  <2>3. /\ IsPath(Front(path)) /\ Front(path) # <<>> => Front(path)[1] = path[1]
        /\ Names(path) = AddName(Names(Front(path)), Last(path))
    BY <2>1, FrontPath
  <2>4. IsPath(Front(path))
    BY <2>1, FrontPath
  <2> QED
    BY <2>1, <2>2, <2>3, <2>4 DEF AddName
<1>2. CASE ~IsDirectory(path)
  BY <1>2 DEF RemoveTrailingPathSeparator
<1> QED
  BY <1>1, <1>2

LEMMA PathConcat ==
  ASSUME NEW a, IsPath(a), a # <<>>, Last(a) = "/", NEW b, IsPath(b)
  PROVE  /\ IsPath(a \o b) /\ a \o b # <<>> /\ (a \o b)[1] = a[1]
         /\ Last(a \o b) = IF b = <<>> THEN "/" ELSE Last(b)
<1> DEFINE Good(s) == IsPath(s) => /\ IsPath(a \o s) /\ a \o s # <<>> /\ (a \o s)[1] = a[1]
                                   /\ Last(a \o s) = IF s = <<>> THEN "/" ELSE Last(s)
           I == {s \in Text : Good(s)}
<1>1. a \in Text /\ b \in Text
  BY PathIsText
<1>2. <<>> \in I
  <2>1. <<>> \in Text /\ a \o <<>> = a
    BY <1>1 DEF Text
  <2> QED
    BY <2>1
<1>3. ASSUME NEW s \in I, NEW c \in Char PROVE Append(s, c) \in I
  <2>1. s \in Text /\ Append(s, c) \in Text
    BY TextAppend
  <2>2. SUFFICES ASSUME IsPath(Append(s, c)) PROVE Good(Append(s, c))
    BY <2>1
  <2>3. IsPath(s) /\ (s # <<>> => "/" \in {Last(s), c})
    BY <2>1, <2>2, IsPathAppend
  <2>4. /\ IsPath(a \o s) /\ a \o s # <<>> /\ (a \o s)[1] = a[1]
        /\ Last(a \o s) = IF s = <<>> THEN "/" ELSE Last(s)
    BY <2>3
  <2> DEFINE u == a \o s
  <2>5. a \o Append(s, c) = Append(u, c) /\ u \in Text
    BY <1>1, <2>1 DEF Text
  <2>6. u # <<>> /\ IsPath(u) /\ "/" \in {Last(u), c} /\ u[1] = a[1]
    BY <2>3, <2>4
  <2> HIDE DEF u
  <2>7. IsPath(Append(u, c))
    BY <2>5, <2>6, IsPathAppend
  <2>8. Append(u, c)[1] = a[1]
    BY <2>5, <2>6, FirstAppend
  <2>9. Append(u, c) # <<>> /\ Last(Append(u, c)) = c
    BY <2>5, TextAppend
  <2>10. Append(s, c) # <<>> /\ Last(Append(s, c)) = c
    BY <2>1, TextAppend
  <2> QED
    BY <2>5, <2>7, <2>8, <2>9, <2>10
<1> HIDE DEF I
<1>4. I = Text
  <2>1. I \in SUBSET Text
    BY DEF I
  <2> QED
    BY <1>2, <1>3, <2>1, TextInduction
<1> HIDE DEF Good
<1>5. Good(b)
  BY <1>1, <1>4 DEF I
<1> QED
  BY <1>5 DEF Good

\* A path in a directory: where it leads, and how it begins and ends.
LEMMA ConcatRight ==
  ASSUME NEW directory, IsPath(directory), directory # <<>>, NEW path, IsPath(path)
  PROVE  /\ IsPath(ConcatPaths(directory, path)) /\ ConcatPaths(directory, path) # <<>>
         /\ Names(ConcatPaths(directory, path)) = Names(directory) \o Names(path)
         /\ Last(ConcatPaths(directory, path)) = IF path = <<>> THEN "/" ELSE Last(path)
         /\ IsFull(directory) => IsFull(ConcatPaths(directory, path))
<1> DEFINE d == RemoveTrailingPathSeparator(directory)
           a == Append(d, "/")
           u == a \o path
<1>1. IsPath(d) /\ Names(d) = Names(directory) /\ (d # <<>> => d[1] = directory[1])
  <2>1. IsPath(d)
    BY TrailingRight
  <2> QED
    BY <2>1, TrailingRight
<1>2. d \in Text /\ path \in Text /\ directory \in Text
  BY <1>1, PathIsText
<1>3. d \o <<"/">> \o path = u
  <2> HIDE DEF d
  <2>1. d \in Seq(Char) /\ "/" \in Char
    BY <1>2, Separators DEF Text
  <2>2. d \o <<"/">> = a
    BY <2>1
  <2> QED
    BY <2>2
<1> HIDE DEF d
<1>4. IsPath(a) /\ a # <<>> /\ Last(a) = "/" /\ a \in Text
  <2>1. IsPath(a)
    BY <1>1, <1>2, Separators, IsPathAppend
  <2> QED
    BY <1>2, <2>1, Separators, TextAppend
<1>5. Names(a) = Names(directory)
  BY <1>1, <1>2, Separators, NamesAppend DEF AddName
<1>6. IsFull(directory) => a[1] = "/"
  <2>1. a[1] = IF d = <<>> THEN "/" ELSE d[1]
    BY <1>2, Separators, FirstAppend
  <2> QED
    BY <1>1, <2>1, FullIs
<1> HIDE DEF a
<1>7. IsPath(u) /\ u # <<>> /\ u[1] = a[1] /\ Last(u) = IF path = <<>> THEN "/" ELSE Last(path)
  BY <1>4, PathConcat
<1>8. Names(u) = Names(directory) \o Names(path)
  BY <1>2, <1>4, <1>5, NamesConcat
<1>9. u \in Text
  BY <1>7, PathIsText
<1>10. ConcatPaths(directory, path) = Normalize(u)
  BY <1>3 DEF ConcatPaths, d
<1> HIDE DEF u
<1>11. KeepsMeaning(u)
  BY <1>9, NormalizeKeeps
<1>12. /\ IsPath(Normalize(u)) /\ Normalize(u) # <<>> /\ Names(Normalize(u)) = Names(u)
       /\ Last(Normalize(u)) = Last(u) /\ Normalize(u)[1] = u[1]
  BY <1>7, <1>11 DEF KeepsMeaning
<1>13. IsFull(directory) => IsFull(Normalize(u))
  BY <1>6, <1>7, <1>12, IsFullIf
<1> QED
  BY <1>7, <1>8, <1>10, <1>12, <1>13

LEMMA FileNameRemoved ==
  ASSUME NEW path, IsFull(path)
  PROVE  RemoveFileName(path) = IF Last(path) = "/" THEN path ELSE Front(path)
<1> DEFINE n == Len(path)
           I == {i \in 1 .. Len(path) : path[i] = "/"}
<1>1. path \in Text /\ IsPath(path) /\ path # <<>> /\ path[1] = "/"
  BY FullIs
<1>2. n \in Nat \ {0} /\ 1 \in I /\ Last(path) = path[n]
  BY <1>1 DEF Text, Last
<1>3. FindLastPathSeparator(path) = Max(I)
  BY <1>2 DEF FindLastPathSeparator, SelectLastInSeq
<1>4. \A i \in 1 .. n - 1 : "/" \in {path[i], path[i + 1]}
  BY <1>1 DEF IsPath
<1>5. ASSUME NEW m \in I, \A i \in I : i <= m PROVE Max(I) = m
  <2>1. \E x \in I : \A y \in I : x >= y
    BY <1>2, <1>5
  <2>2. Max(I) \in I /\ \A y \in I : Max(I) >= y
    BY <2>1 DEF Max
  <2>3. Max(I) >= m /\ Max(I) <= m /\ m \in Int /\ Max(I) \in Int
    BY <1>2, <1>5, <2>2
  <2> QED
    BY <2>3
<1>6. CASE path[n] = "/"
  <2>1. Max(I) = n
    BY <1>2, <1>5, <1>6
  <2>2. SubSeq(path, 1, n) = path
    BY <1>1, SubSeqFull DEF Text
  <2> QED
    BY <1>2, <1>3, <1>6, <2>1, <2>2 DEF RemoveFileName
<1>7. CASE path[n] # "/"
  <2>1. n # 1
    BY <1>1, <1>7
  <2>2. n - 1 \in I
    BY <1>2, <1>4, <1>7, <2>1
  <2>3. \A i \in I : i <= n - 1
    BY <1>2, <1>7
  <2>4. Max(I) = n - 1 /\ n - 1 # 0
    BY <1>2, <1>5, <2>1, <2>2, <2>3
  <2> QED
    BY <1>2, <1>3, <1>7, <2>4 DEF RemoveFileName, Front
<1> QED
  BY <1>6, <1>7

\* A directory above the root, on the way to a report.
IsFullDirectory(path) == IsFull(path) /\ Last(path) = "/"

Up(path) == RemoveFileName(RemoveTrailingPathSeparator(path))

LEMMA RemovedIsDirectory ==
  ASSUME NEW path, IsFull(path)
  PROVE  IsFullDirectory(RemoveFileName(path))
<1>1. IsPath(path) /\ path # <<>> /\ path[1] = "/"
  BY FullIs
<1>2. CASE Last(path) = "/"
  BY <1>2, FileNameRemoved DEF IsFullDirectory
<1>3. CASE Last(path) # "/"
  <2>1. RemoveFileName(path) = Front(path)
    BY <1>3, FileNameRemoved
  <2>2. IsPath(Front(path))
    BY <1>1, FrontPath
  <2>3. Front(path) # <<>> /\ Last(Front(path)) = "/" /\ Front(path)[1] = "/"
    BY <1>1, <1>3, FrontPath
  <2> QED
    BY <2>1, <2>2, <2>3, IsFullIf DEF IsFullDirectory
<1> QED
  BY <1>2, <1>3

\* One directory up, or the same one by a shorter path.
LEMMA UpRight ==
  ASSUME NEW path, IsFullDirectory(path), Names(path) # <<>>
  PROVE  /\ IsFullDirectory(Up(path))
         /\ Names(Up(path)) \in {Names(path), Front(Names(path))}
<1> DEFINE f == Front(path)
<1>1. IsPath(path) /\ path # <<>> /\ path[1] = "/" /\ Last(path) = "/"
  BY FullIs DEF IsFullDirectory
<1>2. RemoveTrailingPathSeparator(path) = f
  BY <1>1 DEF RemoveTrailingPathSeparator, IsDirectory
<1>3. IsPath(f) /\ Names(f) = Names(path) /\ f \in Text /\ (f # <<>> => f[1] = "/")
  <2>1. IsPath(f) /\ f \in Text /\ (f # <<>> => f[1] = "/")
    BY <1>1, FrontPath
  <2>2. Names(path) = AddName(Names(f), Last(path))
    BY <1>1, FrontPath
  <2> QED
    BY <1>1, <2>1, <2>2 DEF AddName
<1> HIDE DEF f
<1>4. f # <<>>
  BY <1>3, OfNothing
<1>5. IsFull(f)
  BY <1>3, <1>4, IsFullIf
<1>6. IsFullDirectory(RemoveFileName(f))
  BY <1>5, RemovedIsDirectory
<1>7. Names(RemoveFileName(f)) \in {Names(f), Front(Names(f))}
  <2>1. CASE Last(f) = "/"
    BY <1>5, <2>1, FileNameRemoved
  <2>2. CASE Last(f) # "/"
    <3> DEFINE g == Front(f)
    <3>1. RemoveFileName(f) = g
      BY <1>5, <2>2, FileNameRemoved
    <3>2. Names(f) = AddName(Names(g), Last(f)) /\ g \in Text /\ Last(f) \in Char
      BY <1>3, <1>4, FrontPath
    <3> HIDE DEF g
    <3>3. Names(g) \in Seq(Char)
      BY <3>2, NamesType DEF Text
    <3>4. Front(Append(Names(g), Last(f))) = Names(g)
      BY <3>2, <3>3 DEF Front
    <3> QED
      BY <3>1, <3>2, <3>4 DEF AddName
  <2> QED
    BY <2>1, <2>2
<1> QED
  BY <1>2, <1>3, <1>6, <1>7 DEF Up

-----------------------------------------------------------------------------
(* GTestOutput: the directories above a file.                              *)

LEMMA AboveRight ==
  ASSUME NEW names \in Text, NEW d \in Above(names)
  PROVE  /\ d \in Text /\ names # <<>>
         /\ d # <<>> => Front(d) \in Above(names) /\ Towards(Front(d), names) = d
         /\ Towards(d, names) # <<>> /\ Front(Towards(d, names)) = d
<1>1. PICK n \in 0 .. Len(names) - 1 : d = SubSeq(names, 1, n)
  BY DEF Above
<1>2. Len(names) \in Nat /\ n \in Nat /\ n < Len(names) /\ names \in Seq(Char)
  BY <1>1 DEF Text
<1>3. ASSUME NEW k \in Nat, k <= Len(names)
      PROVE  /\ SubSeq(names, 1, k) \in Seq(Char) /\ Len(SubSeq(names, 1, k)) = k
             /\ \A i \in 1 .. k : SubSeq(names, 1, k)[i] = names[i]
  <2>1. \A i \in 1 .. k : names[i] \in Char
    BY <1>2, <1>3
  <2> QED
    BY <1>2, <1>3, <2>1, SubSeqProperties
<1>4. ASSUME NEW k \in Nat, k + 1 <= Len(names)
      PROVE  Front(SubSeq(names, 1, k + 1)) = SubSeq(names, 1, k)
  <2> DEFINE s == SubSeq(names, 1, k + 1)
             t == SubSeq(names, 1, k)
  <2>1. /\ s \in Seq(Char) /\ Len(s) = k + 1 /\ \A i \in 1 .. k + 1 : s[i] = names[i]
    BY <1>2, <1>3, <1>4
  <2>2. /\ t \in Seq(Char) /\ Len(t) = k /\ \A i \in 1 .. k : t[i] = names[i]
    BY <1>2, <1>3, <1>4
  <2> HIDE DEF s, t
  <2>3. Len(s) # Len(<<>>)
    BY <2>1
  <2>4. /\ Front(s) \in Seq(Char) /\ Len(Front(s)) = k
        /\ \A i \in 1 .. k : Front(s)[i] = s[i]
    <3>1. s \in Text /\ s # <<>>
      BY <2>1, <2>3 DEF Text
    <3>2. /\ Front(s) \in Text /\ Len(Front(s)) = Len(s) - 1
          /\ \A i \in 1 .. Len(s) - 1 : Front(s)[i] = s[i]
      BY <3>1, FrontLast
    <3>3. Len(s) - 1 = k
      BY <2>1
    <3> QED
      BY <3>2, <3>3 DEF Text
  <2> QED
    BY <2>1, <2>2, <2>4 DEF s, t
<1>5. d \in Seq(Char) /\ Len(d) = n
  BY <1>1, <1>2, <1>3
<1>6. d # <<>> => Front(d) \in Above(names) /\ Towards(Front(d), names) = d
  <2>1. SUFFICES ASSUME d # <<>>
                 PROVE  Front(d) \in Above(names) /\ Towards(Front(d), names) = d
    OBVIOUS
  <2>2. n # 0
    BY <1>5, <2>1
  <2> DEFINE k == n - 1
  <2>3. k \in Nat /\ k + 1 = n /\ k <= Len(names) /\ k \in 0 .. Len(names) - 1
    BY <1>2, <2>2
  <2> HIDE DEF k
  <2>4. Front(d) = SubSeq(names, 1, k)
    BY <1>1, <1>2, <1>4, <2>3
  <2>5. Len(Front(d)) = k
    BY <1>3, <2>3, <2>4
  <2> QED
    BY <1>1, <2>3, <2>4, <2>5 DEF Above, Towards
<1>7. Towards(d, names) # <<>> /\ Front(Towards(d, names)) = d
  <2>1. Towards(d, names) = SubSeq(names, 1, n + 1) /\ n + 1 <= Len(names) /\ n + 1 \in Nat
    BY <1>2, <1>5 DEF Towards
  <2>2. Len(SubSeq(names, 1, n + 1)) = n + 1
    BY <1>3, <2>1
  <2>3. SubSeq(names, 1, n + 1) # <<>>
    BY <1>2, <2>2
  <2> QED
    BY <1>1, <1>2, <1>4, <2>1, <2>3
<1> QED
  BY <1>2, <1>5, <1>6, <1>7 DEF Text

LEMMA AboveLast ==
  ASSUME NEW names \in Text, names # <<>>
  PROVE  Front(names) \in Above(names) /\ Towards(Front(names), names) = names
<1>1. Len(names) \in Nat \ {0} /\ Len(Front(names)) = Len(names) - 1
  BY FrontLast
<1>2. Front(names) \in Above(names)
  BY <1>1 DEF Above, Front
<1>3. SubSeq(names, 1, Len(names)) = names
  BY SubSeqFull DEF Text
<1>4. Len(Front(names)) + 1 = Len(names)
  BY <1>1
<1> QED
  BY <1>2, <1>3, <1>4 DEF Towards

-----------------------------------------------------------------------------
(* GTestOutput: the programs.                                              *)

\* A path that a report may have.
IsReportPath(path) == IsFull(path) /\ Last(path) \notin {"/", "."}

Settled(p) == stage[p] \notin {"configure", "name"}
Climbing   == {"look", "create", "failed"}

OutputTypeOK ==
  /\ start \in Starts /\ <<>> \in tree
  /\ output_flag \in [Program -> Outputs] /\ origin \in [Program -> WorkDirs]
  /\ stage \in [Program -> {"configure", "name", "tests", "look", "create", "failed", "write",
                            "done", "aborted"}]
  /\ output_file \in [Program -> Text] /\ todo \in [Program -> Seq(Text)]
  /\ number \in [Program -> Nat] /\ round \in [Program -> 1 .. MaxRound]
  /\ seen \in [Program -> SUBSET Program] /\ cwd \in [Program -> WorkDirs]
  /\ DOMAIN start.files \subseteq DOMAIN disk /\ disk = [f \in DOMAIN disk |-> disk[f]]

\* Once a name is settled, it is one that was asked for; if the program chose it, it is
\* nobody's whose report was there.
NameRight(p) ==
  /\ ~Settled(p) => output_file[p] = <<>>
  /\ stage[p] = "name" => InDirectory(p)
  /\ Settled(p) => /\ IsReportPath(output_file[p]) /\ ReportFile(p) \in Asked(p)
                   /\ InDirectory(p) => ReportFile(p) \notin DOMAIN start.files
  /\ InDirectory(p) => \A q \in seen[p] : Settled(q) /\ ReportFile(q) # ReportFile(p)

\* The directory that must be there before the next is created.
Base(p) == IF todo[p] = <<>> THEN RemoveFileName(output_file[p]) ELSE Up(Last(todo[p]))

\* The paths of the calls lead from the directory of the report towards the root.
WayRight(p) ==
  stage[p] \in Climbing =>
    /\ \A k \in 1 .. Len(todo[p]) :
         /\ IsFullDirectory(todo[p][k]) /\ Names(todo[p][k]) \in Above(ReportFile(p))
         /\ todo[p][k] = IF k = 1 THEN RemoveFileName(output_file[p]) ELSE Up(todo[p][k - 1])
    /\ stage[p] # "create" => todo[p] # <<>>
    /\ stage[p] # "look" => Names(Base(p)) \in tree
    /\ stage[p] = "failed" =>
         LET folder == Names(Last(todo[p]))
         IN  \/ folder \in tree \cup DOMAIN disk
             \/ folder # <<>> /\ Front(folder) \in start.readonly

OnlyAuthor(p) == \A q \in Program \ {p} : ReportFile(q) # ReportFile(p)

ReportRight(p) ==
  /\ stage[p] \in {"write", "done"} => ReportFile(p) \in DOMAIN disk
  /\ stage[p] = "write" /\ OnlyAuthor(p) => disk[ReportFile(p)] = {}
  /\ stage[p] = "done" /\ OnlyAuthor(p) => disk[ReportFile(p)] = {<<p, MaxRound>>}
  /\ stage[p] = "aborted" => Impossible(ReportFile(p))

DiskRight ==
  /\ DOMAIN disk \subseteq
       DOMAIN start.files \cup {ReportFile(p) : p \in {q \in Program : Settled(q)}}
  /\ tree \subseteq
       start.dirs \cup UNION {Above(ReportFile(p)) : p \in {q \in Program : Settled(q)}}
  /\ (\A p \in Program : InDirectory(p)) => \A f \in DOMAIN start.files : disk[f] = start.files[f]

OutputInv ==
  /\ OutputTypeOK /\ DiskRight
  /\ \A p \in Program : NameRight(p) /\ WayRight(p) /\ ReportRight(p)

\* What a step of p leaves alone.
Frame(p) ==
  /\ start' = start /\ output_flag' = output_flag /\ origin' = origin
  /\ \A q \in Program \ {p} : /\ stage'[q] = stage[q] /\ output_file'[q] = output_file[q]
                              /\ todo'[q] = todo[q] /\ seen'[q] = seen[q]
  /\ Settled(p) => Settled(p)' /\ output_file'[p] = output_file[p]
  /\ tree \subseteq tree' /\ DOMAIN disk \subseteq DOMAIN disk'
  /\ \A x \in tree' \cup DOMAIN disk' :
       x \in tree \cup DOMAIN disk \/ (x # <<>> /\ Front(x) \notin start.readonly)
  /\ \A f \in DOMAIN disk : disk'[f] = disk[f] \/ (Settled(p) /\ f = ReportFile(p))
  /\ \A f \in DOMAIN disk' : f \in DOMAIN disk \/ (Settled(p) /\ f = ReportFile(p))
  /\ \A d \in tree' : d \in tree \/ (Settled(p) /\ d \in Above(ReportFile(p)))

LEMMA ResolveFull ==
  ASSUME NEW p, NEW path, IsFull(path)
  PROVE  Resolve(p, path) = Names(path)
BY DEF Resolve, IsFull

LEMMA ReportPathRight ==
  ASSUME NEW path, IsReportPath(path)
  PROVE  /\ Names(path) \in Text /\ Names(path) # <<>> /\ path \in Text /\ path # <<>>
         /\ ~IsDirectory(path) /\ IsFull(path)
         /\ IsFullDirectory(RemoveFileName(path))
         /\ Names(RemoveFileName(path)) = Front(Names(path))
         /\ Names(RemoveFileName(path)) \in Above(Names(path))
         /\ Towards(Front(Names(path)), Names(path)) = Names(path)
<1> DEFINE f == Front(path)
           c == Last(path)
<1>1. IsFull(path) /\ c \notin {"/", "."}
  BY DEF IsReportPath
<1>2. IsPath(path) /\ path \in Text /\ path # <<>>
  BY <1>1, FullIs
<1>3. RemoveFileName(path) = f
  BY <1>1, FileNameRemoved
<1>4. f \in Text /\ c \in Char /\ Names(path) = AddName(Names(f), c)
  BY <1>2, FrontPath
<1>5. IsFullDirectory(RemoveFileName(path))
  BY <1>1, RemovedIsDirectory
<1> HIDE DEF f, c
<1>6. Names(path) = Append(Names(f), c)
  BY <1>1, <1>4 DEF AddName
<1>7. Names(f) \in Text
  BY <1>4, NamesType
<1>8. Names(path) \in Text /\ Names(path) # <<>>
  BY <1>4, <1>6, <1>7, TextAppend
<1>9. Front(Names(path)) = Names(f)
  <2>1. Front(Append(Names(f), c)) = Names(f)
    BY <1>4, <1>7 DEF Front, Text
  <2> QED
    BY <1>6, <2>1
<1>10. /\ Front(Names(path)) \in Above(Names(path))
       /\ Towards(Front(Names(path)), Names(path)) = Names(path)
  BY <1>8, AboveLast
<1>11. ~IsDirectory(path)
  BY <1>1 DEF IsDirectory, c
<1> QED
  BY <1>1, <1>2, <1>3, <1>5, <1>8, <1>9, <1>10, <1>11

LEMMA ReportNamed ==
  ASSUME NEW p \in Program, NameRight(p)
  PROVE  /\ Settled(p) => ReportFile(p) \in Text /\ ReportFile(p) # <<>>
         /\ ~Settled(p) => ReportFile(p) = <<>>
<1>1. ASSUME Settled(p) PROVE ReportFile(p) \in Text /\ ReportFile(p) # <<>>
  <2>1. IsReportPath(output_file[p])
    BY <1>1 DEF NameRight
  <2> QED
    BY <2>1, ReportPathRight DEF ReportFile
<1>2. ASSUME ~Settled(p) PROVE ReportFile(p) = <<>>
  BY <1>2, OfNothing DEF NameRight, ReportFile
<1> QED
  BY <1>1, <1>2

\* Where nobody could put a file, nobody will be able to.
LEMMA ImpossibleKept ==
  ASSUME NEW p, Frame(p), NEW names \in Text, Impossible(names)
  PROVE  Impossible(names)'
<1>1. CASE names \in tree
  BY <1>1 DEF Impossible, Frame
<1>2. ASSUME NEW d \in Above(names),
             \/ d \in DOMAIN disk
             \/ d \in start.readonly /\ Towards(d, names) \notin tree \cup DOMAIN disk
      PROVE  Impossible(names)'
  <2>1. Towards(d, names) # <<>> /\ Front(Towards(d, names)) = d
    BY AboveRight
  <2>2. start' = start /\ DOMAIN disk \subseteq DOMAIN disk'
        /\ \A x \in tree' \cup DOMAIN disk' :
             x \in tree \cup DOMAIN disk \/ (x # <<>> /\ Front(x) \notin start.readonly)
    BY DEF Frame
  <2>3. \/ d \in DOMAIN disk'
        \/ d \in start'.readonly /\ Towards(d, names) \notin tree' \cup DOMAIN disk'
    BY <1>2, <2>1, <2>2
  <2> QED
    BY <2>3 DEF Impossible
<1> QED
  BY <1>1, <1>2 DEF Impossible

LEMMA AuthorBefore ==
  ASSUME NEW p \in Program, Frame(p), NEW r \in Program, \A q \in Program : NameRight(q),
         Settled(r), OnlyAuthor(r)'
  PROVE  OnlyAuthor(r) /\ ReportFile(r)' = ReportFile(r)
         /\ (p # r => ReportFile(p)' # ReportFile(r))
<1>1. output_file'[r] = output_file[r]
  BY DEF Frame
<1>2. ReportFile(r)' = ReportFile(r)
  BY <1>1 DEF ReportFile
<1>3. ASSUME NEW q \in Program \ {r} PROVE ReportFile(q) # ReportFile(r)
  <2>1. CASE ~Settled(q)
    <3>1. NameRight(q) /\ NameRight(r) /\ q \in Program
      OBVIOUS
    <3>2. ReportFile(q) = <<>>
      BY <2>1, <3>1, ReportNamed
    <3>3. ReportFile(r) # <<>>
      BY <3>1, ReportNamed
    <3> QED
      BY <3>2, <3>3
  <2>2. CASE Settled(q)
    <3>1. output_file'[q] = output_file[q]
      BY <2>2 DEF Frame
    <3>2. ReportFile(q)' = ReportFile(q)
      BY <3>1 DEF ReportFile
    <3>3. ReportFile(q)' # ReportFile(r)'
      BY DEF OnlyAuthor
    <3> QED
      BY <1>2, <3>2, <3>3
  <2> QED
    BY <2>1, <2>2
<1>4. p # r => ReportFile(p)' # ReportFile(r)'
  BY DEF OnlyAuthor
<1> QED
  BY <1>2, <1>3, <1>4 DEF OnlyAuthor

LEMMA OthersRight ==
  ASSUME NEW p \in Program, Frame(p), NEW q \in Program \ {p},
         \A r \in Program : NameRight(r), WayRight(q), ReportRight(q), OutputTypeOK
  PROVE  NameRight(q)' /\ WayRight(q)' /\ ReportRight(q)'
<1>1. /\ stage'[q] = stage[q] /\ output_file'[q] = output_file[q]
      /\ todo'[q] = todo[q] /\ seen'[q] = seen[q]
      /\ start' = start /\ output_flag' = output_flag /\ origin' = origin
      /\ tree \subseteq tree' /\ DOMAIN disk \subseteq DOMAIN disk'
  BY DEF Frame
<1>2. ReportFile(q)' = ReportFile(q) /\ InDirectory(q)' = InDirectory(q) /\ Asked(q)' = Asked(q)
      /\ Settled(q)' = Settled(q)
  BY <1>1 DEF ReportFile, InDirectory, Asked, Settled
<1>3. NameRight(q)'
  <2>1. NameRight(q)
    OBVIOUS
  <2>0. seen[q] \in SUBSET Program
    BY DEF OutputTypeOK
  <2>2. ASSUME InDirectory(q), NEW r \in seen[q]
        PROVE  Settled(r)' /\ ReportFile(r)' # ReportFile(q)
    <3>1. Settled(r) /\ ReportFile(r) # ReportFile(q)
      BY <2>1, <2>2 DEF NameRight
    <3>2. r \in Program
      BY <2>0
    <3>3. Settled(r)' /\ output_file'[r] = output_file[r]
      BY <3>1, <3>2 DEF Frame, Settled
    <3> QED
      BY <3>1, <3>3 DEF ReportFile
  <2>3. InDirectory(q) => \A r \in seen'[q] : Settled(r)' /\ ReportFile(r)' # ReportFile(q)'
    BY <1>1, <1>2, <2>2
  <2> QED
    BY <1>1, <1>2, <2>1, <2>3 DEF NameRight
<1>4. WayRight(q)'
  <2>1. Base(q)' = Base(q)
    BY <1>1 DEF Base
  <2> QED
    BY <1>1, <1>2, <2>1 DEF WayRight
<1>5. ReportRight(q)'
  <2>1. ASSUME stage[q] \in {"write", "done"}, OnlyAuthor(q)'
        PROVE  OnlyAuthor(q) /\ disk'[ReportFile(q)] = disk[ReportFile(q)]
    <3>1. Settled(q)
      BY <2>1 DEF Settled
    <3>2. OnlyAuthor(q) /\ ReportFile(p)' # ReportFile(q)
      BY <2>1, <3>1, AuthorBefore
    <3>3. Settled(p) => ReportFile(p)' = ReportFile(p)
      BY DEF Frame, ReportFile
    <3>4. ReportFile(q) \in DOMAIN disk
      BY <2>1 DEF ReportRight
    <3> QED
      BY <3>2, <3>3, <3>4 DEF Frame
  <2>2. stage[q] = "aborted" => Impossible(ReportFile(q))'
    <3>1. SUFFICES ASSUME stage[q] = "aborted" PROVE Impossible(ReportFile(q))'
      OBVIOUS
    <3>2. Impossible(ReportFile(q)) /\ Settled(q)
      BY <3>1 DEF ReportRight, Settled
    <3>3. ReportFile(q) \in Text
      BY <3>2, ReportNamed
    <3> QED
      BY <1>2, <3>2, <3>3, ImpossibleKept DEF Impossible
  <2> QED
    BY <1>1, <1>2, <2>1, <2>2 DEF ReportRight
<1> QED
  BY <1>3, <1>4, <1>5

LEMMA DiskKept ==
  ASSUME OutputInv, NEW p \in Program, Frame(p)
  PROVE  DiskRight'
<1>1. /\ start' = start /\ output_flag' = output_flag /\ InDirectory(p)' = InDirectory(p)
      /\ \A q \in Program : InDirectory(q)' = InDirectory(q)
      /\ \A q \in Program : Settled(q) => Settled(q)' /\ ReportFile(q)' = ReportFile(q)
  <2>1. start' = start /\ output_flag' = output_flag
    BY DEF Frame
  <2>2. \A q \in Program : Settled(q) => Settled(q)' /\ output_file'[q] = output_file[q]
    BY DEF Frame, Settled
  <2> QED
    BY <2>1, <2>2 DEF InDirectory, ReportFile
<1>2. ASSUME NEW f \in DOMAIN disk'
      PROVE  f \in DOMAIN start'.files
               \cup {ReportFile(q)' : q \in {q \in Program : Settled(q)'}}
  <2>1. f \in DOMAIN disk \/ (Settled(p) /\ f = ReportFile(p))
    BY DEF Frame
  <2>2. f \in DOMAIN start.files \/ \E q \in Program : Settled(q) /\ f = ReportFile(q)
    BY <2>1 DEF OutputInv, DiskRight
  <2> QED
    BY <1>1, <2>2
<1>3. ASSUME NEW d \in tree'
      PROVE  d \in start'.dirs
               \cup UNION {Above(ReportFile(q)') : q \in {q \in Program : Settled(q)'}}
  <2>1. d \in tree \/ (Settled(p) /\ d \in Above(ReportFile(p)))
    BY DEF Frame
  <2>2. d \in start.dirs \/ \E q \in Program : Settled(q) /\ d \in Above(ReportFile(q))
    BY <2>1 DEF OutputInv, DiskRight
  <2> QED
    BY <1>1, <2>2
<1>4. ASSUME \A q \in Program : InDirectory(q)', NEW f \in DOMAIN start'.files
      PROVE  disk'[f] = start'.files[f]
  <2>1. InDirectory(p) /\ f \in DOMAIN start.files /\ f \in DOMAIN disk /\ disk[f] = start.files[f]
    BY <1>1, <1>4 DEF OutputInv, OutputTypeOK, DiskRight
  <2>2. Settled(p) => f # ReportFile(p)
    BY <2>1 DEF OutputInv, NameRight
  <2>3. disk'[f] = disk[f]
    BY <2>1, <2>2 DEF Frame
  <2> QED
    BY <1>1, <2>1, <2>3
<1> QED
  BY <1>2, <1>3, <1>4 DEF DiskRight, Above

LEMMA OwnName ==
  ASSUME OutputInv, NEW p \in Program, Frame(p), Settled(p), seen'[p] = seen[p]
  PROVE  NameRight(p)'
<1>1. /\ output_file'[p] = output_file[p] /\ Settled(p)'
      /\ start' = start /\ output_flag' = output_flag /\ origin' = origin
  BY DEF Frame
<1>2. ReportFile(p)' = ReportFile(p) /\ InDirectory(p)' = InDirectory(p) /\ Asked(p)' = Asked(p)
  BY <1>1 DEF ReportFile, InDirectory, Asked
<1>3. NameRight(p) /\ seen[p] \in SUBSET Program
  BY DEF OutputInv, OutputTypeOK
<1>4. ASSUME InDirectory(p), NEW r \in seen[p]
      PROVE  Settled(r)' /\ ReportFile(r)' # ReportFile(p)
  <2>1. r \in Program /\ Settled(r) /\ ReportFile(r) # ReportFile(p)
    BY <1>3, <1>4 DEF NameRight
  <2>2. Settled(r)' /\ output_file'[r] = output_file[r]
    BY <2>1 DEF Frame, Settled
  <2> QED
    BY <2>1, <2>2 DEF ReportFile
<1>5. stage'[p] # "name"
  BY <1>1 DEF Settled
<1> QED
  BY <1>1, <1>2, <1>3, <1>4, <1>5 DEF NameRight

\* What is shown of each step of p.
StepRight(p) == OutputTypeOK' /\ Frame(p) /\ NameRight(p)' /\ WayRight(p)' /\ ReportRight(p)'

LEMMA StepKeeps ==
  ASSUME OutputInv, NEW p \in Program, StepRight(p)
  PROVE  OutputInv'
<1>1. Frame(p) /\ OutputTypeOK' /\ NameRight(p)' /\ WayRight(p)' /\ ReportRight(p)'
  BY DEF StepRight
<1>2. DiskRight'
  BY <1>1, DiskKept
<1>3. ASSUME NEW q \in Program PROVE NameRight(q)' /\ WayRight(q)' /\ ReportRight(q)'
  <2>1. CASE q = p
    BY <1>1, <2>1
  <2>2. CASE q # p
    <3>1. (\A r \in Program : NameRight(r)) /\ WayRight(q) /\ ReportRight(q) /\ OutputTypeOK
      BY DEF OutputInv
    <3>2. q \in Program \ {p}
      BY <2>2
    <3> QED
      BY <1>1, <3>1, <3>2, OthersRight
  <2> QED
    BY <2>1, <2>2
<1> QED
  BY <1>1, <1>2, <1>3 DEF OutputInv

-----------------------------------------------------------------------------
(* GTestOutput: what the flag asks for.                                    *)

\* The names from which a relative flag is meant.
Root(p) == IF output_flag[p] # NoColon /\ IsAbsolutePath(output_flag[p]) THEN <<>>
           ELSE Names(origin[p])

LEMMA OriginRight ==
  ASSUME OutputTypeOK, NEW p \in Program
  PROVE  IsFull(origin[p]) /\ IsPath(origin[p]) /\ origin[p] # <<>>
<1>1. origin[p] \in WorkDirs
  BY DEF OutputTypeOK
<1>2. IsFull(origin[p])
  BY <1>1, OutputAssumption DEF IsFull
<1> QED
  BY <1>2, FullIs

LEMMA NameIsPath ==
  ASSUME NEW name \in Char \ {"/", "."}
  PROVE  IsPath(<<name>>) /\ Names(<<name>>) = <<name>> /\ Last(<<name>>) = name /\ <<name>> # <<>>
<1>1. <<>> \in Text /\ Append(<<>>, name) = <<name>>
  BY DEF Text
<1>2. Names(<<name>>) = <<name>>
  BY <1>1, NamesAppend, OfNothing DEF AddName
<1>3. <<name>> \in Seq(Char) /\ Len(<<name>>) = 1
  OBVIOUS
<1> QED
  BY <1>2, <1>3 DEF IsPath, Last

LEMMA FlagIsPath ==
  ASSUME OutputTypeOK, NEW p \in Program, output_flag[p] # NoColon
  PROVE  /\ IsPath(output_flag[p]) /\ output_flag[p] \in Text
         /\ output_flag[p] # <<>> => Last(output_flag[p]) # "."
<1>1. output_flag[p] \in Outputs \ {NoColon}
  BY DEF OutputTypeOK
<1> QED
  BY <1>1, OutputAssumption, PathIsText

\* GetAbsolutePathToOutputFile keeps what the flag means.
LEMMA OutputNameRight ==
  ASSUME OutputTypeOK, NEW p \in Program, output_flag[p] # NoColon
  PROVE  /\ IsFull(OutputName(p)) /\ Names(OutputName(p)) = Root(p) \o Names(output_flag[p])
         /\ IsDirectory(OutputName(p)) <=> InDirectory(p)
         /\ ~InDirectory(p) => IsReportPath(OutputName(p))
<1> DEFINE asked == output_flag[p]
           given == Normalize(asked)
           o     == OutputName(p)
<1>1. IsPath(asked) /\ asked \in Text /\ (asked # <<>> => Last(asked) # ".")
  BY FlagIsPath
<1>2. IsFull(origin[p]) /\ IsPath(origin[p]) /\ origin[p] # <<>>
  BY OriginRight
<1>3. /\ IsPath(given) /\ given \in Text /\ Names(given) = Names(asked)
      /\ asked # <<>> => given # <<>> /\ Last(given) = Last(asked) /\ given[1] = asked[1]
      /\ asked = <<>> => given = <<>>
  <2>1. KeepsMeaning(asked)
    BY <1>1, NormalizeKeeps
  <2>2. given \in Text
    BY <1>1, NormalizeType
  <2> QED
    BY <1>1, <2>1, <2>2, OfNothing DEF KeepsMeaning
<1>4. o = IF IsAbsolutePath(given) THEN given ELSE ConcatPaths(origin[p], given)
  BY DEF OutputName
<1>5. IsAbsolutePath(given) <=> IsAbsolutePath(asked)
  <2>1. asked # <<>> => Head(asked) = asked[1] /\ Head(given) = given[1]
    BY <1>1, <1>3 DEF Text
  <2> QED
    BY <1>3, <2>1 DEF IsAbsolutePath
<1> HIDE DEF asked, given, o
<1>6. IsFull(o) /\ Names(o) = Root(p) \o Names(asked)
      /\ o # <<>> /\ Last(o) = IF asked = <<>> THEN "/" ELSE Last(asked)
  <2>1. CASE IsAbsolutePath(asked)
    <3>1. o = given /\ asked # <<>>
      BY <1>4, <1>5, <2>1 DEF IsAbsolutePath
    <3>2. Root(p) = <<>>
      BY <2>1 DEF Root, asked
    <3>3. Names(asked) \in Seq(Char)
      BY <1>1, NamesType DEF Text
    <3>4. <<>> \o Names(asked) = Names(asked)
      BY <3>3
    <3> QED
      BY <1>3, <1>5, <2>1, <3>1, <3>2, <3>4 DEF IsFull
  <2>2. CASE ~IsAbsolutePath(asked)
    <3>1. o = ConcatPaths(origin[p], given)
      BY <1>4, <1>5, <2>2
    <3>2. Root(p) = Names(origin[p])
      BY <2>2 DEF Root, asked
    <3>3. IsFull(o) /\ o # <<>> /\ Names(o) = Names(origin[p]) \o Names(given)
          /\ Last(o) = IF given = <<>> THEN "/" ELSE Last(given)
      BY <1>2, <1>3, <3>1, ConcatRight
    <3> QED
      BY <1>3, <3>2, <3>3
  <2> QED
    BY <2>1, <2>2
<1>7. InDirectory(p) <=> (asked = <<>> \/ Last(asked) = "/")
  BY DEF InDirectory, asked
<1>8. IsDirectory(o) <=> InDirectory(p)
  BY <1>6, <1>7 DEF IsDirectory
<1>9. ~InDirectory(p) => IsReportPath(o)
  BY <1>1, <1>6, <1>7 DEF IsReportPath
<1> QED
  BY <1>6, <1>8, <1>9 DEF o, asked

LEMMA AskedIs ==
  ASSUME NEW p \in Program
  PROVE  /\ output_flag[p] = NoColon => Asked(p) = {Root(p) \o <<DefaultFile>>}
         /\ InDirectory(p) => Asked(p) = {Root(p) \o Names(output_flag[p]) \o <<FileName[n]>> :
                                            n \in DOMAIN FileName}
         /\ output_flag[p] # NoColon /\ ~InDirectory(p) =>
              Asked(p) = {Root(p) \o Names(output_flag[p])}
BY DEF Asked, Root, InDirectory

LEMMA InDirectoryPath ==
  ASSUME NEW directory, IsFull(directory), NEW name \in Char \ {"/", "."}
  PROVE  /\ IsReportPath(ConcatPaths(directory, <<name>>))
         /\ Names(ConcatPaths(directory, <<name>>)) = Names(directory) \o <<name>>
<1>1. IsPath(directory) /\ directory # <<>>
  BY FullIs
<1>2. IsPath(<<name>>) /\ Names(<<name>>) = <<name>> /\ Last(<<name>>) = name /\ <<name>> # <<>>
  BY NameIsPath
<1>3. IsFull(ConcatPaths(directory, <<name>>))
  BY <1>1, <1>2, ConcatRight
<1>4. Last(ConcatPaths(directory, <<name>>)) = name
  BY <1>1, <1>2, ConcatRight
<1>5. Names(ConcatPaths(directory, <<name>>)) = Names(directory) \o <<name>>
  BY <1>1, <1>2, ConcatRight
<1> QED
  BY <1>3, <1>4, <1>5 DEF IsReportPath

-----------------------------------------------------------------------------
(* GTestOutput: each step of a program.                                    *)

\* A step that touches neither disk nor names.
LEMMA QuietFrame ==
  ASSUME OutputTypeOK, NEW p \in Program, NEW stop, Proceed(p, stop),
         UNCHANGED <<start, tree, disk, output_flag, origin>>,
         Settled(p) => stop \notin {"configure", "name"} /\ output_file'[p] = output_file[p],
         \A q \in Program \ {p} :
           output_file'[q] = output_file[q] /\ todo'[q] = todo[q] /\ seen'[q] = seen[q]
  PROVE  Frame(p)
<1>1. stage'[p] = stop /\ \A q \in Program \ {p} : stage'[q] = stage[q]
  BY DEF Proceed, OutputTypeOK
<1> QED
  BY <1>1 DEF Frame, Settled

LEMMA SettleRight ==
  ASSUME OutputInv, NEW p \in Program, NEW path, Settle(p, path),
         UNCHANGED <<start, tree, disk, output_flag, origin, cwd, todo, round>>,
         number' \in [Program -> Nat], ~Settled(p),
         IsReportPath(path), Names(path) \in Asked(p),
         InDirectory(p) => Names(path) \notin DOMAIN disk
  PROVE  StepRight(p)
<1>1. OutputTypeOK /\ NameRight(p) /\ (\A q \in Program : NameRight(q)) /\ path \in Text
  BY ReportPathRight DEF OutputInv
<1>2. /\ output_file' = [output_file EXCEPT ![p] = path] /\ Proceed(p, "tests")
      /\ seen' = [seen EXCEPT ![p] = {q \in Program : /\ output_file[q] # <<>>
                                                      /\ Names(output_file[q]) \in DOMAIN disk}]
  BY DEF Settle
<1>3. /\ output_file'[p] = path /\ stage'[p] = "tests"
      /\ \A q \in Program \ {p} : output_file'[q] = output_file[q] /\ seen'[q] = seen[q]
      /\ seen'[p] = {q \in Program : /\ output_file[q] # <<>>
                                     /\ Names(output_file[q]) \in DOMAIN disk}
  BY <1>1, <1>2 DEF OutputTypeOK, Proceed
<1>4. OutputTypeOK'
  <2>1. stage' = [stage EXCEPT ![p] = "tests"]
    BY <1>2 DEF Proceed
  <2>2. seen' \in [Program -> SUBSET Program] /\ output_file' \in [Program -> Text]
    BY <1>1, <1>2 DEF OutputTypeOK
  <2> QED
    BY <1>1, <2>1, <2>2 DEF OutputTypeOK
<1>5. Frame(p)
  BY <1>1, <1>2, <1>3, QuietFrame
<1>6. ReportFile(p)' = Names(path) /\ InDirectory(p)' = InDirectory(p) /\ Asked(p)' = Asked(p)
      /\ Settled(p)'
  BY <1>3 DEF ReportFile, InDirectory, Asked, Settled
<1>7. ASSUME InDirectory(p), NEW q \in seen'[p]
      PROVE  Settled(q)' /\ ReportFile(q)' # Names(path)
  <2>1. q \in Program /\ output_file[q] # <<>> /\ Names(output_file[q]) \in DOMAIN disk
    BY <1>3
  <2>2. Settled(q)
    BY <1>1, <2>1 DEF NameRight
  <2>3. q # p /\ Settled(q)' /\ output_file'[q] = output_file[q]
    BY <1>5, <2>1, <2>2 DEF Frame, Settled
  <2> QED
    BY <1>7, <2>1, <2>3 DEF ReportFile
<1>8. NameRight(p)'
  <2>1. DOMAIN start.files \subseteq DOMAIN disk
    BY <1>1 DEF OutputTypeOK
  <2> QED
    BY <1>3, <1>6, <1>7, <2>1 DEF NameRight
<1>9. WayRight(p)' /\ ReportRight(p)'
  BY <1>3 DEF WayRight, ReportRight, Climbing
<1> QED
  BY <1>4, <1>5, <1>8, <1>9 DEF StepRight

LEMMA ConfigureRight ==
  ASSUME OutputInv, NEW p \in Program, Configure(p)
  PROVE  StepRight(p)
<1>1. OutputTypeOK /\ ~Settled(p) /\ stage[p] = "configure" /\ number' = number
      /\ UNCHANGED <<start, tree, disk, output_flag, origin, cwd, todo, round>>
  BY DEF OutputInv, Configure, Settled
<1>2. number' \in [Program -> Nat]
  BY <1>1 DEF OutputTypeOK
<1>3. CASE output_flag[p] = NoColon
  <2> DEFINE path == ConcatPaths(origin[p], <<DefaultFile>>)
  <2>1. Settle(p, path)
    BY <1>3 DEF Configure
  <2>2. DefaultFile \in Char \ {"/", "."}
    BY OutputAssumption
  <2>3. IsFull(origin[p])
    BY <1>1, OriginRight
  <2>4. IsReportPath(path) /\ Names(path) = Names(origin[p]) \o <<DefaultFile>>
    BY <2>2, <2>3, InDirectoryPath
  <2>5. Asked(p) = {Root(p) \o <<DefaultFile>>} /\ Root(p) = Names(origin[p])
    BY <1>3, AskedIs DEF Root
  <2>6. ~InDirectory(p)
    BY <1>3 DEF InDirectory
  <2> HIDE DEF path
  <2> QED
    BY <1>1, <1>2, <2>1, <2>4, <2>5, <2>6, SettleRight
<1>4. CASE output_flag[p] # NoColon /\ ~IsDirectory(OutputName(p))
  <2>1. Settle(p, OutputName(p))
    BY <1>4 DEF Configure
  <2>2. ~InDirectory(p)
    BY <1>1, <1>4, OutputNameRight
  <2>3. IsReportPath(OutputName(p))
    BY <1>1, <1>4, <2>2, OutputNameRight
  <2>4. Names(OutputName(p)) = Root(p) \o Names(output_flag[p])
    BY <1>1, <1>4, OutputNameRight
  <2>5. Asked(p) = {Root(p) \o Names(output_flag[p])}
    BY <1>4, <2>2, AskedIs
  <2> QED
    BY <1>1, <1>2, <2>1, <2>2, <2>3, <2>4, <2>5, SettleRight
<1>5. CASE output_flag[p] # NoColon /\ IsDirectory(OutputName(p))
  <2>1. Proceed(p, "name") /\ UNCHANGED <<output_file, seen>>
    BY <1>5 DEF Configure
  <2>2. InDirectory(p)
    BY <1>1, <1>5, OutputNameRight
  <2>3. Frame(p)
    BY <1>1, <2>1, QuietFrame
  <2>4. stage' = [stage EXCEPT ![p] = "name"] /\ stage'[p] = "name"
    BY <1>1, <2>1 DEF Proceed, OutputTypeOK
  <2>5. OutputTypeOK'
    BY <1>1, <2>1, <2>4 DEF OutputTypeOK
  <2>6. NameRight(p)'
    <3>1. NameRight(p) /\ seen[p] \in SUBSET Program
      BY <1>1 DEF OutputInv, OutputTypeOK
    <3>2. InDirectory(p)' = InDirectory(p) /\ ReportFile(p)' = ReportFile(p)
      BY <1>1, <2>1 DEF InDirectory, ReportFile
    <3>3. ASSUME NEW q \in seen[p] PROVE Settled(q)' /\ ReportFile(q)' # ReportFile(p)
      <4>1. q \in Program /\ Settled(q) /\ ReportFile(q) # ReportFile(p)
        BY <2>2, <3>1 DEF NameRight
      <4>2. Settled(q)' /\ output_file'[q] = output_file[q]
        BY <2>3, <4>1 DEF Frame, Settled
      <4> QED
        BY <4>1, <4>2 DEF ReportFile
    <3> QED
      BY <1>1, <2>1, <2>2, <2>4, <3>1, <3>2, <3>3 DEF NameRight, Settled
  <2>7. WayRight(p)' /\ ReportRight(p)'
    BY <2>4 DEF WayRight, ReportRight, Climbing
  <2> QED
    BY <2>3, <2>5, <2>6, <2>7 DEF StepRight
<1> QED
  BY <1>3, <1>4, <1>5

LEMMA GenerateRight ==
  ASSUME OutputInv, NEW p \in Program, GenerateUniqueFileName(p)
  PROVE  StepRight(p)
<1> DEFINE full == MakeFileName(OutputName(p), number[p])
<1>1. OutputTypeOK /\ ~Settled(p) /\ stage[p] = "name" /\ number' = [number EXCEPT ![p] = @ + 1]
      /\ number[p] \in DOMAIN FileName /\ NameRight(p)
      /\ UNCHANGED <<start, tree, disk, output_flag, origin, cwd, todo, round>>
  BY DEF OutputInv, GenerateUniqueFileName, Settled
<1>2. number' \in [Program -> Nat]
  BY <1>1 DEF OutputTypeOK
<1>3. InDirectory(p) /\ output_flag[p] # NoColon
  BY <1>1 DEF NameRight, InDirectory
<1>4. IsFull(OutputName(p))
  BY <1>1, <1>3, OutputNameRight
<1>5. FileName[number[p]] \in Char \ {"/", "."}
  BY <1>1, OutputAssumption
<1>6. IsReportPath(full) /\ Names(full) = Names(OutputName(p)) \o <<FileName[number[p]]>>
  BY <1>4, <1>5, InDirectoryPath DEF MakeFileName
<1>7. Names(full) \in Asked(p)
  <2>1. Names(OutputName(p)) = Root(p) \o Names(output_flag[p])
    BY <1>1, <1>3, OutputNameRight
  <2>2. Asked(p) = {Root(p) \o Names(output_flag[p]) \o <<FileName[n]>> : n \in DOMAIN FileName}
    BY <1>3, AskedIs
  <2> QED
    BY <1>1, <1>6, <2>1, <2>2
<1>8. CASE FileOrDirectoryExists(p, full)
  <2>1. UNCHANGED <<output_file, seen, stage>>
    BY <1>8 DEF GenerateUniqueFileName
  <2>2. Frame(p)
    BY <1>1, <2>1 DEF Frame, Settled
  <2>3. OutputTypeOK'
    BY <1>1, <1>2, <2>1 DEF OutputTypeOK
  <2>4. NameRight(p)' /\ WayRight(p)' /\ ReportRight(p)'
    BY <1>1, <2>1 DEF NameRight, WayRight, ReportRight, Climbing, Settled, InDirectory, ReportFile
  <2> QED
    BY <2>2, <2>3, <2>4 DEF StepRight
<1>9. CASE ~FileOrDirectoryExists(p, full)
  <2>1. Settle(p, full)
    BY <1>9 DEF GenerateUniqueFileName
  <2>2. Names(full) \notin DOMAIN disk
    <3>1. ~IsDirectory(full) /\ IsFull(full)
      BY <1>6, ReportPathRight
    <3>2. Resolve(p, full) = Names(full)
      BY <3>1, ResolveFull
    <3> HIDE DEF full
    <3> QED
      BY <1>9, <3>1, <3>2 DEF FileOrDirectoryExists
  <2> HIDE DEF full
  <2> QED
    BY <1>1, <1>2, <1>6, <1>7, <2>1, <2>2, SettleRight
<1> QED
  BY <1>8, <1>9

LEMMA RunTestsRight ==
  ASSUME OutputInv, NEW p \in Program, RunTests(p)
  PROVE  StepRight(p)
<1> DEFINE directory == RemoveFileName(output_file[p])
<1>1. OutputTypeOK /\ Settled(p) /\ stage[p] = "tests" /\ NameRight(p) /\ Proceed(p, "look")
      /\ todo' = [todo EXCEPT ![p] = <<directory>>] /\ cwd' \in [Program -> WorkDirs]
      /\ UNCHANGED <<start, tree, disk, output_flag, origin, number, output_file, round, seen>>
  BY DEF OutputInv, RunTests, Settled, OutputTypeOK
<1>2. IsReportPath(output_file[p])
  BY <1>1 DEF NameRight
<1>3. IsFullDirectory(directory) /\ Names(directory) \in Above(ReportFile(p))
  BY <1>2, ReportPathRight DEF ReportFile
<1>4. directory \in Text
  BY <1>3, FullIs DEF IsFullDirectory
<1> HIDE DEF directory
<1>5. stage' = [stage EXCEPT ![p] = "look"] /\ stage'[p] = "look" /\ todo'[p] = <<directory>>
      /\ \A q \in Program \ {p} : todo'[q] = todo[q]
  BY <1>1 DEF Proceed, OutputTypeOK
<1>6. OutputTypeOK'
  <2>1. <<directory>> \in Seq(Text)
    BY <1>4
  <2>2. todo' \in [Program -> Seq(Text)]
    BY <1>1, <2>1 DEF OutputTypeOK
  <2> QED
    BY <1>1, <1>5, <2>2 DEF OutputTypeOK
<1>7. Frame(p)
  BY <1>1, <1>5, QuietFrame
<1>8. NameRight(p)'
  BY <1>1, <1>7, OwnName
<1>9. WayRight(p)'
  <2>1. output_file' = output_file /\ ReportFile(p)' = ReportFile(p)
    BY <1>1 DEF ReportFile
  <2>2. Len(<<directory>>) = 1 /\ <<directory>>[1] = directory /\ <<directory>> # <<>>
    OBVIOUS
  <2>3. \A k \in 1 .. 1 : k = 1
    OBVIOUS
  <2> QED
    BY <1>3, <1>5, <2>1, <2>2, <2>3 DEF WayRight, directory
<1>10. ReportRight(p)'
  BY <1>5 DEF ReportRight
<1> QED
  BY <1>6, <1>7, <1>8, <1>9, <1>10 DEF StepRight

LEMMA FrontOf ==
  ASSUME NEW s \in Seq(Text), s # <<>>
  PROVE  /\ Len(s) \in Nat \ {0} /\ Last(s) = s[Len(s)] /\ Last(s) \in Text
         /\ Front(s) \in Seq(Text) /\ Len(Front(s)) = Len(s) - 1
         /\ \A k \in 1 .. Len(s) - 1 : Front(s)[k] = s[k]
         /\ Front(s) = <<>> => Len(s) = 1
         /\ Front(s) # <<>> => Len(s) - 1 \in 1 .. Len(s) /\ Last(Front(s)) = s[Len(s) - 1]
<1> DEFINE n == Len(s) - 1
           f == SubSeq(s, 1, n)
<1> HIDE DEF Text
<1>1. Len(s) \in Nat \ {0} /\ Last(s) = s[Len(s)] /\ Last(s) \in Text
  BY DEF Last
<1>2. n \in Nat /\ n <= Len(s) /\ n + 1 = Len(s) /\ \A i \in 1 .. n : s[i] \in Text
  BY <1>1
<1> HIDE DEF n
<1>3. f \in Seq(Text) /\ Len(f) = n /\ \A i \in 1 .. n : f[i] = s[i]
  BY <1>2, SubSeqProperties
<1>4. Front(s) = f
  BY DEF Front, n
<1> HIDE DEF f
<1>5. f = <<>> => n = 0
  BY <1>3
<1>6. f # <<>> => n \in 1 .. n /\ Last(f) = s[n]
  <2>1. f # <<>> => n # 0
    BY <1>3
  <2> QED
    BY <1>2, <1>3, <2>1 DEF Last
<1>7. Len(s) - 1 = n
  BY DEF n
<1> QED
  BY <1>1, <1>2, <1>3, <1>4, <1>5, <1>6, <1>7

\* The call that a program is at.
LEMMA CallRight ==
  ASSUME OutputTypeOK, NEW p \in Program, NameRight(p), WayRight(p), stage[p] \in Climbing,
         todo[p] # <<>>
  PROVE  LET path == Last(todo[p])
         IN  /\ IsFullDirectory(path) /\ Names(path) \in Above(ReportFile(p)) /\ path \in Text
             /\ Resolve(p, path) = Names(path) /\ Settled(p) /\ ReportFile(p) \in Text
             /\ Names(path) # <<>> => /\ IsFullDirectory(Up(path)) /\ Up(path) \in Text
                                      /\ Names(Up(path)) \in Above(ReportFile(p))
                                      /\ Names(Up(path)) \in {Names(path), Front(Names(path))}
<1> DEFINE path == Last(todo[p])
<1>1. todo[p] \in Seq(Text)
  BY DEF OutputTypeOK
<1>2. Len(todo[p]) \in 1 .. Len(todo[p]) /\ path = todo[p][Len(todo[p])]
  BY <1>1, FrontOf
<1>3. IsFullDirectory(path) /\ Names(path) \in Above(ReportFile(p))
  BY <1>2 DEF WayRight
<1> HIDE DEF path
<1>4. IsFull(path) /\ path \in Text
  BY <1>3, FullIs DEF IsFullDirectory
<1>5. Resolve(p, path) = Names(path)
  BY <1>4, ResolveFull
<1>6. Settled(p)
  BY DEF Climbing, Settled
<1>7. ReportFile(p) \in Text
  BY <1>6, ReportNamed
<1>8. ASSUME Names(path) # <<>>
      PROVE  /\ IsFullDirectory(Up(path)) /\ Up(path) \in Text
             /\ Names(Up(path)) \in Above(ReportFile(p))
             /\ Names(Up(path)) \in {Names(path), Front(Names(path))}
  <2>1. IsFullDirectory(Up(path)) /\ Names(Up(path)) \in {Names(path), Front(Names(path))}
    BY <1>3, <1>8, UpRight
  <2>2. Up(path) \in Text
    BY <2>1, FullIs DEF IsFullDirectory
  <2>3. Front(Names(path)) \in Above(ReportFile(p))
    BY <1>3, <1>7, <1>8, AboveRight
  <2> QED
    BY <1>3, <2>1, <2>2, <2>3
<1> QED
  BY <1>3, <1>4, <1>5, <1>6, <1>7, <1>8 DEF path

\* A call returns: its directory is there, and the call before it is next.
LEMMA PopRight ==
  ASSUME OutputInv, NEW p \in Program, stage[p] \in Climbing, todo[p] # <<>>,
         Frame(p), stage' = [stage EXCEPT ![p] = "create"],
         todo' = [todo EXCEPT ![p] = Front(@)], Names(Last(todo[p])) \in tree',
         UNCHANGED <<output_file, seen, number, cwd, round, disk>>
  PROVE  StepRight(p)
<1> DEFINE s == todo[p]
           f == Front(s)
<1>1. OutputTypeOK /\ NameRight(p) /\ WayRight(p) /\ s \in Seq(Text)
  BY DEF OutputInv, OutputTypeOK
<1>2. /\ Len(s) \in Nat \ {0} /\ Last(s) = s[Len(s)] /\ f \in Seq(Text) /\ Len(f) = Len(s) - 1
      /\ \A k \in 1 .. Len(s) - 1 : f[k] = s[k]
      /\ f = <<>> => Len(s) = 1
      /\ f # <<>> => Len(s) - 1 \in 1 .. Len(s) /\ Last(f) = s[Len(s) - 1]
  BY <1>1, FrontOf
<1>3. \A k \in 1 .. Len(s) :
        /\ IsFullDirectory(s[k]) /\ Names(s[k]) \in Above(ReportFile(p))
        /\ s[k] = IF k = 1 THEN RemoveFileName(output_file[p]) ELSE Up(s[k - 1])
  BY <1>1 DEF WayRight
<1>4. todo'[p] = f /\ stage'[p] = "create" /\ output_file'[p] = output_file[p] /\ Settled(p)
      /\ start' = start /\ output_flag' = output_flag /\ origin' = origin /\ tree \subseteq tree'
  BY <1>1 DEF Frame, OutputTypeOK, Settled, Climbing
<1>5. OutputTypeOK'
  BY <1>1, <1>2, <1>4 DEF OutputTypeOK
<1>6. NameRight(p)'
  BY <1>4, OwnName
<1>7. (IF f = <<>> THEN RemoveFileName(output_file[p]) ELSE Up(Last(f))) = Last(s)
  <2>1. Len(s) \in 1 .. Len(s)
    BY <1>2
  <2>2. Last(s) = IF Len(s) = 1 THEN RemoveFileName(output_file[p]) ELSE Up(s[Len(s) - 1])
    BY <1>2, <1>3, <2>1
  <2>3. f # <<>> => Len(s) # 1
    BY <1>2
  <2> QED
    BY <1>2, <2>2, <2>3
<1>8. ASSUME NEW k \in 1 .. Len(f)
      PROVE  /\ IsFullDirectory(f[k]) /\ Names(f[k]) \in Above(ReportFile(p))
             /\ f[k] = IF k = 1 THEN RemoveFileName(output_file[p]) ELSE Up(f[k - 1])
  <2>1. k \in 1 .. Len(s) /\ f[k] = s[k]
    BY <1>2
  <2>2. k # 1 => f[k - 1] = s[k - 1]
    BY <1>2
  <2> QED
    BY <1>3, <2>1, <2>2
<1> HIDE DEF f
<1>9. Base(p)' = Last(s) /\ ReportFile(p)' = ReportFile(p)
  BY <1>4, <1>7 DEF Base, ReportFile
<1>10. WayRight(p)'
  <2> HIDE DEF s
  <2>1. Names(Base(p)') \in tree'
    BY <1>9 DEF s
  <2> QED
    BY <1>4, <1>8, <1>9, <2>1 DEF WayRight
<1>11. ReportRight(p)'
  BY <1>4 DEF ReportRight
<1> QED
  BY <1>5, <1>6, <1>10, <1>11 DEF StepRight

LEMMA LookRight ==
  ASSUME OutputInv, NEW p \in Program, CreateDirectoriesRecursively(p)
  PROVE  StepRight(p)
<1> DEFINE s    == todo[p]
           path == Last(s)
<1>1. /\ OutputTypeOK /\ NameRight(p) /\ WayRight(p) /\ stage[p] = "look" /\ stage[p] \in Climbing
      /\ UNCHANGED <<start, tree, disk, output_flag, origin, cwd, number, output_file, round, seen>>
  BY DEF OutputInv, CreateDirectoriesRecursively, Climbing
<1>2. s # <<>> /\ s \in Seq(Text)
  BY <1>1 DEF WayRight, OutputTypeOK
<1>3. /\ Names(path) \in Above(ReportFile(p)) /\ Resolve(p, path) = Names(path) /\ Settled(p)
      /\ Names(path) # <<>> => /\ IsFullDirectory(Up(path)) /\ Up(path) \in Text
                               /\ Names(Up(path)) \in Above(ReportFile(p))
  BY <1>1, <1>2, CallRight
<1>4. CASE DirectoryExists(p, path)
  <2>1. todo' = [todo EXCEPT ![p] = Front(@)] /\ Proceed(p, "create")
    BY <1>4 DEF CreateDirectoriesRecursively
  <2>2. stage' = [stage EXCEPT ![p] = "create"]
    BY <2>1 DEF Proceed
  <2>3. \A q \in Program \ {p} : todo'[q] = todo[q]
    BY <1>1, <2>1 DEF OutputTypeOK
  <2>4. Frame(p)
    BY <1>1, <2>1, <2>3, QuietFrame
  <2>5. Names(path) \in tree'
    BY <1>1, <1>3, <1>4 DEF DirectoryExists
  <2> QED
    BY <1>1, <1>2, <2>1, <2>2, <2>4, <2>5, PopRight
<1>5. CASE ~DirectoryExists(p, path)
  <2> DEFINE up == Up(path)
             t  == Append(s, up)
  <2>1. todo' = [todo EXCEPT ![p] = t] /\ stage' = stage
    BY <1>1, <1>5 DEF CreateDirectoriesRecursively, Up
  <2>2. Names(path) # <<>>
    BY <1>1, <1>3, <1>5 DEF DirectoryExists, OutputTypeOK
  <2>3. IsFullDirectory(up) /\ up \in Text /\ Names(up) \in Above(ReportFile(p))
    BY <1>3, <2>2
  <2>4. path = s[Len(s)] /\ Len(s) \in Nat \ {0}
    BY <1>2, FrontOf
  <2> HIDE DEF up
  <2>5. /\ t \in Seq(Text) /\ t # <<>> /\ Len(t) = Len(s) + 1 /\ t[Len(s) + 1] = up
        /\ \A k \in 1 .. Len(s) : t[k] = s[k]
    <3>1. t \in Seq(Text) /\ Len(t) = Len(s) + 1 /\ t[Len(s) + 1] = up
          /\ \A k \in 1 .. Len(s) : t[k] = s[k]
      BY <1>2, <2>3
    <3> HIDE DEF t
    <3>2. Len(t) # Len(<<>>)
      BY <2>4, <3>1
    <3> QED
      BY <3>1, <3>2
  <2> HIDE DEF t
  <2>6. todo'[p] = t /\ \A q \in Program \ {p} : todo'[q] = todo[q]
    BY <1>1, <2>1 DEF OutputTypeOK
  <2>7. Frame(p)
    BY <1>1, <2>1, <2>6 DEF Frame, Settled
  <2>8. OutputTypeOK'
    BY <1>1, <2>1, <2>5 DEF OutputTypeOK
  <2>9. NameRight(p)'
    BY <1>1, <1>3, <2>7, OwnName
  <2>10. ASSUME NEW k \in 1 .. Len(t)
         PROVE  /\ IsFullDirectory(t[k]) /\ Names(t[k]) \in Above(ReportFile(p))
                /\ t[k] = IF k = 1 THEN RemoveFileName(output_file[p]) ELSE Up(t[k - 1])
    <3>1. CASE k = Len(s) + 1
      <4>1. k # 1 /\ t[k - 1] = path /\ t[k] = up
        BY <2>4, <2>5, <3>1
      <4> QED
        BY <2>3, <4>1 DEF up
    <3>2. CASE k # Len(s) + 1
      <4>1. k \in 1 .. Len(s) /\ t[k] = s[k] /\ (k # 1 => t[k - 1] = s[k - 1])
        <5> HIDE DEF s
        <5>1. k \in 1 .. Len(s)
          BY <2>4, <2>5, <3>2
        <5>2. ASSUME k # 1 PROVE k - 1 \in 1 .. Len(s)
          BY <2>4, <5>1, <5>2
        <5> QED
          BY <2>5, <5>1, <5>2
      <4>2. /\ IsFullDirectory(s[k]) /\ Names(s[k]) \in Above(ReportFile(p))
            /\ s[k] = IF k = 1 THEN RemoveFileName(output_file[p]) ELSE Up(s[k - 1])
        BY <1>1, <4>1 DEF WayRight
      <4> QED
        BY <4>1, <4>2
    <3> QED
      BY <3>1, <3>2
  <2>11. ReportFile(p)' = ReportFile(p) /\ output_file'[p] = output_file[p] /\ stage'[p] = "look"
    BY <1>1, <2>1 DEF ReportFile
  <2>12. WayRight(p)' /\ ReportRight(p)'
    BY <2>5, <2>6, <2>10, <2>11 DEF WayRight, ReportRight
  <2> QED
    BY <2>7, <2>8, <2>9, <2>12 DEF StepRight
<1> QED
  BY <1>4, <1>5

LEMMA CreateFolderRight ==
  ASSUME OutputInv, NEW p \in Program, CreateFolder(p)
  PROVE  StepRight(p)
<1> DEFINE path   == Last(todo[p])
           folder == Names(path)
<1>1. /\ OutputTypeOK /\ NameRight(p) /\ WayRight(p) /\ stage[p] = "create" /\ stage[p] \in Climbing
      /\ todo[p] # <<>>
      /\ UNCHANGED <<start, disk, output_flag, origin, cwd, number, output_file, round, seen>>
  BY DEF OutputInv, CreateFolder, Climbing
<1>2. /\ folder \in Above(ReportFile(p)) /\ Resolve(p, path) = folder /\ Settled(p)
      /\ folder # <<>> => Names(Up(path)) \in {folder, Front(folder)}
  BY <1>1, CallRight
<1>3. Names(Up(path)) \in tree
  BY <1>1 DEF WayRight, Base
<1> HIDE DEF folder
<1>4. CASE MayCreate(folder)
  <2>1. tree' = tree \cup {folder} /\ todo' = [todo EXCEPT ![p] = Front(@)] /\ stage' = stage
    BY <1>2, <1>4 DEF CreateFolder
  <2>2. folder # <<>> /\ Front(folder) \notin start.readonly
    BY <1>4 DEF MayCreate
  <2>3. \A q \in Program \ {p} : todo'[q] = todo[q]
    BY <1>1, <2>1 DEF OutputTypeOK
  <2>4. Frame(p)
    BY <1>1, <1>2, <2>1, <2>2, <2>3 DEF Frame, Settled
  <2>5. stage' = [stage EXCEPT ![p] = "create"]
    BY <1>1, <2>1 DEF OutputTypeOK
  <2>6. Names(Last(todo[p])) \in tree'
    BY <2>1 DEF folder
  <2> QED
    BY <1>1, <2>1, <2>4, <2>5, <2>6, PopRight
<1>5. CASE ~MayCreate(folder)
  <2>1. Proceed(p, "failed") /\ UNCHANGED <<tree, todo>>
    BY <1>2, <1>5 DEF CreateFolder
  <2>2. Frame(p)
    BY <1>1, <2>1, QuietFrame
  <2>3. stage' = [stage EXCEPT ![p] = "failed"] /\ stage'[p] = "failed"
    BY <1>1, <2>1 DEF Proceed, OutputTypeOK
  <2>4. OutputTypeOK'
    BY <1>1, <2>1, <2>3 DEF OutputTypeOK
  <2>5. NameRight(p)'
    BY <1>1, <1>2, <2>2, OwnName
  <2>6. folder \in tree \cup DOMAIN disk \/ (folder # <<>> /\ Front(folder) \in start.readonly)
    <3>1. <<>> \in tree
      BY <1>1 DEF OutputTypeOK
    <3> QED
      BY <1>2, <1>3, <1>5, <3>1 DEF MayCreate
  <2>7. Base(p)' = Base(p) /\ ReportFile(p)' = ReportFile(p)
    BY <1>1, <2>1 DEF Base, ReportFile
  <2>8. WayRight(p)'
    BY <1>1, <2>1, <2>3, <2>6, <2>7 DEF WayRight, folder
  <2>9. ReportRight(p)'
    BY <2>3 DEF ReportRight
  <2> QED
    BY <2>2, <2>4, <2>5, <2>8, <2>9 DEF StepRight
<1> QED
  BY <1>4, <1>5

\* A step after which p is aborted.
LEMMA AbortRight ==
  ASSUME OutputInv, NEW p \in Program, Proceed(p, "aborted"), Settled(p), Impossible(ReportFile(p)),
         UNCHANGED <<start, tree, disk, output_flag, origin, cwd, number, output_file, todo,
                     round, seen>>
  PROVE  StepRight(p)
<1>1. OutputTypeOK
  BY DEF OutputInv
<1>2. Frame(p)
  BY <1>1, QuietFrame
<1>3. stage' = [stage EXCEPT ![p] = "aborted"] /\ stage'[p] = "aborted"
  BY <1>1 DEF Proceed, OutputTypeOK
<1>4. OutputTypeOK'
  BY <1>1, <1>3 DEF OutputTypeOK
<1>5. NameRight(p)'
  BY <1>2, OwnName
<1>6. Impossible(ReportFile(p))'
  BY DEF Impossible, ReportFile
<1>7. WayRight(p)' /\ ReportRight(p)'
  BY <1>3, <1>6 DEF WayRight, ReportRight, Climbing
<1> QED
  BY <1>2, <1>4, <1>5, <1>7 DEF StepRight

LEMMA AcceptFolderRight ==
  ASSUME OutputInv, NEW p \in Program, AcceptFolder(p)
  PROVE  StepRight(p)
<1> DEFINE path   == Last(todo[p])
           folder == Names(path)
<1>1. /\ OutputTypeOK /\ NameRight(p) /\ WayRight(p) /\ stage[p] = "failed" /\ stage[p] \in Climbing
      /\ UNCHANGED <<start, tree, disk, output_flag, origin, cwd, number, output_file, round, seen>>
  BY DEF OutputInv, AcceptFolder, Climbing
<1>2. /\ todo[p] # <<>>
      /\ folder \in tree \cup DOMAIN disk \/ (folder # <<>> /\ Front(folder) \in start.readonly)
  BY <1>1 DEF WayRight
<1>3. /\ folder \in Above(ReportFile(p)) /\ Resolve(p, path) = folder /\ Settled(p)
      /\ ReportFile(p) \in Text
  BY <1>1, <1>2, CallRight
<1>4. CASE DirectoryExists(p, path)
  <2>1. todo' = [todo EXCEPT ![p] = Front(@)] /\ Proceed(p, "create")
    BY <1>4 DEF AcceptFolder
  <2>2. stage' = [stage EXCEPT ![p] = "create"]
    BY <2>1 DEF Proceed
  <2>3. \A q \in Program \ {p} : todo'[q] = todo[q]
    BY <1>1, <2>1 DEF OutputTypeOK
  <2>4. Frame(p)
    BY <1>1, <1>3, <2>1, <2>3, QuietFrame
  <2>5. Names(path) \in tree'
    BY <1>1, <1>3, <1>4 DEF DirectoryExists
  <2> QED
    BY <1>1, <1>2, <2>1, <2>2, <2>4, <2>5, PopRight
<1>5. CASE ~DirectoryExists(p, path)
  <2>1. Proceed(p, "aborted") /\ UNCHANGED todo
    BY <1>5 DEF AcceptFolder
  <2>2. folder \notin tree
    BY <1>3, <1>5 DEF DirectoryExists
  <2>3. folder # <<>> => Front(folder) \in Above(ReportFile(p))
                         /\ Towards(Front(folder), ReportFile(p)) = folder
    BY <1>3, AboveRight
  <2> HIDE DEF folder
  <2>4. Impossible(ReportFile(p))
    BY <1>2, <1>3, <2>2, <2>3 DEF Impossible
  <2> QED
    BY <1>1, <1>3, <2>1, <2>4, AbortRight
<1> QED
  BY <1>4, <1>5

LEMMA OpenRight ==
  ASSUME OutputInv, NEW p \in Program, Open(p)
  PROVE  StepRight(p)
<1> DEFINE file == ReportFile(p)
<1>1. /\ OutputTypeOK /\ NameRight(p) /\ WayRight(p) /\ stage[p] = "create" /\ stage[p] \in Climbing
      /\ todo[p] = <<>> /\ Settled(p)
      /\ UNCHANGED <<start, tree, output_flag, origin, cwd, number, output_file, todo, round, seen>>
  BY DEF OutputInv, Open, Climbing, Settled
<1>2. IsReportPath(output_file[p])
  BY <1>1 DEF NameRight
<1>3. /\ file \in Text /\ file # <<>> /\ Names(RemoveFileName(output_file[p])) = Front(file)
      /\ IsFull(output_file[p]) /\ Front(file) \in Above(file) /\ Towards(Front(file), file) = file
  <2>1. Names(RemoveFileName(output_file[p])) = Front(Names(output_file[p]))
    BY <1>2, ReportPathRight
  <2> QED
    BY <1>2, <2>1, ReportPathRight DEF ReportFile
<1>4. Resolve(p, output_file[p]) = file
  BY <1>3, ResolveFull DEF ReportFile
<1>5. Front(file) \in tree
  BY <1>1, <1>3 DEF WayRight, Base
<1> HIDE DEF file
<1>6. CASE file \in DOMAIN disk \/ MayCreate(file)
  <2>1. /\ disk' = [f \in DOMAIN disk \cup {file} |-> IF f = file THEN {} ELSE disk[f]]
        /\ Proceed(p, "write")
    BY <1>4, <1>6 DEF Open
  <2>2. stage' = [stage EXCEPT ![p] = "write"] /\ stage'[p] = "write"
        /\ \A q \in Program \ {p} : stage'[q] = stage[q]
    BY <1>1, <2>1 DEF Proceed, OutputTypeOK
  <2>3. /\ DOMAIN disk' = DOMAIN disk \cup {file} /\ disk'[file] = {}
        /\ \A f \in DOMAIN disk : f # file => disk'[f] = disk[f]
    BY <2>1
  <2>4. file \in DOMAIN disk \/ Front(file) \notin start.readonly
    BY <1>6 DEF MayCreate
  <2>5. Frame(p)
    BY <1>1, <1>3, <2>2, <2>3, <2>4 DEF Frame, Settled, file
  <2>6. OutputTypeOK'
    <3>1. disk' = [f \in DOMAIN disk' |-> disk'[f]]
      BY <2>1
    <3> QED
      BY <1>1, <2>2, <2>3, <3>1 DEF OutputTypeOK
  <2>7. NameRight(p)'
    BY <1>1, <2>5, OwnName
  <2>8. ReportFile(p)' = file
    BY <1>1 DEF ReportFile, file
  <2>9. WayRight(p)' /\ ReportRight(p)'
    BY <2>2, <2>3, <2>8 DEF WayRight, ReportRight, Climbing
  <2> QED
    BY <2>5, <2>6, <2>7, <2>9 DEF StepRight
<1>7. CASE ~(file \in DOMAIN disk \/ MayCreate(file))
  <2>1. Proceed(p, "aborted") /\ UNCHANGED disk
    BY <1>4, <1>7 DEF Open
  <2>2. file \in tree \/ (Front(file) \in start.readonly /\ file \notin tree \cup DOMAIN disk)
    BY <1>3, <1>5, <1>7 DEF MayCreate
  <2>3. Impossible(file)
    BY <1>3, <2>2 DEF Impossible
  <2> QED
    BY <1>1, <2>1, <2>3, AbortRight DEF file
<1> QED
  BY <1>6, <1>7

LEMMA PrintRight ==
  ASSUME OutputInv, NEW p \in Program, PrintReport(p)
  PROVE  StepRight(p)
<1> DEFINE file == ReportFile(p)
<1>1. /\ OutputTypeOK /\ NameRight(p) /\ stage[p] = "write" /\ Settled(p) /\ ReportRight(p)
      /\ \A q \in Program : NameRight(q)
      /\ UNCHANGED <<start, tree, output_flag, origin, cwd, number, output_file, todo, seen>>
  BY DEF OutputInv, PrintReport, Settled
<1>2. IsReportPath(output_file[p])
  BY <1>1 DEF NameRight
<1>3. IsFull(output_file[p])
  BY <1>2, ReportPathRight
<1>4. Resolve(p, output_file[p]) = file
  BY <1>3, ResolveFull DEF ReportFile
<1>5. file \in DOMAIN disk /\ (OnlyAuthor(p) => disk[file] = {})
  BY <1>1 DEF ReportRight
<1> HIDE DEF file
<1>6. disk' = [disk EXCEPT ![file] = @ \cup {<<p, round[p]>>}]
  BY <1>4 DEF PrintReport
<1>7. /\ DOMAIN disk' = DOMAIN disk /\ disk'[file] = disk[file] \cup {<<p, round[p]>>}
      /\ \A f \in DOMAIN disk : f # file => disk'[f] = disk[f]
      /\ disk' = [f \in DOMAIN disk' |-> disk'[f]]
  BY <1>5, <1>6
<1>8. PICK stop \in {"tests", "done"} :
        /\ Proceed(p, stop) /\ round' \in [Program -> 1 .. MaxRound]
        /\ stop = "done" => round[p] = MaxRound
  <2>1. round[p] \in 1 .. MaxRound /\ MaxRound \in Nat
    BY <1>1, OutputAssumption DEF OutputTypeOK
  <2>2. CASE round[p] < MaxRound
    <3>1. round' = [round EXCEPT ![p] = @ + 1] /\ Proceed(p, "tests")
      BY <2>2 DEF PrintReport
    <3>2. round' \in [Program -> 1 .. MaxRound]
      BY <1>1, <2>1, <2>2, <3>1 DEF OutputTypeOK
    <3> QED
      BY <3>1, <3>2
  <2>3. CASE ~(round[p] < MaxRound)
    <3>1. round' = round /\ Proceed(p, "done")
      BY <2>3 DEF PrintReport
    <3>2. round[p] = MaxRound
      BY <2>1, <2>3
    <3> QED
      BY <1>1, <3>1, <3>2 DEF OutputTypeOK
  <2> QED
    BY <2>2, <2>3
<1>9. stage' = [stage EXCEPT ![p] = stop] /\ stage'[p] = stop
      /\ \A q \in Program \ {p} : stage'[q] = stage[q]
  BY <1>1, <1>8 DEF Proceed, OutputTypeOK
<1>10. Frame(p)
  BY <1>1, <1>7, <1>9 DEF Frame, Settled, file
<1>11. OutputTypeOK'
  BY <1>1, <1>7, <1>8, <1>9 DEF OutputTypeOK
<1>12. NameRight(p)'
  BY <1>1, <1>10, OwnName
<1>13. ReportFile(p)' = file
  BY <1>1 DEF ReportFile, file
<1>14. WayRight(p)'
  BY <1>9 DEF WayRight, Climbing
<1>15. ReportRight(p)'
  <2>1. ASSUME stop = "done", OnlyAuthor(p)' PROVE disk'[file] = {<<p, MaxRound>>}
    <3>1. OnlyAuthor(p)
      BY <1>1, <1>10, <2>1, AuthorBefore
    <3> QED
      BY <1>5, <1>7, <1>8, <2>1, <3>1
  <2> QED
    BY <1>5, <1>7, <1>9, <1>13, <2>1 DEF ReportRight
<1> QED
  BY <1>10, <1>11, <1>12, <1>14, <1>15 DEF StepRight

LEMMA OutputInitRight == OutputInit => OutputInv
<1> SUFFICES ASSUME OutputInit PROVE OutputInv
  OBVIOUS
<1>1. <<>> \in Text /\ <<>> \in Seq(Text) /\ MaxRound \in Nat \ {0}
  BY OutputAssumption DEF Text
<1>2. /\ start \in Starts /\ <<>> \in tree
      /\ DOMAIN start.files \subseteq DOMAIN disk /\ disk = [f \in DOMAIN disk |-> disk[f]]
  <2>1. start \in Starts /\ tree = start.dirs /\ disk = start.files
    BY DEF OutputInit
  <2>2. /\ <<>> \in start.dirs
        /\ start.files = [f \in DOMAIN start.files |-> start.files[f]]
    BY <2>1, OutputAssumption
  <2> QED
    BY <2>1, <2>2
<1> HIDE DEF Text
<1>3. OutputTypeOK
  <2>1. origin \in [Program -> WorkDirs] /\ cwd \in [Program -> WorkDirs]
    <3>1. PICK d \in WorkDirs : origin = [p \in Program |-> d]
      BY DEF OutputInit
    <3>2. cwd = origin
      BY DEF OutputInit
    <3> QED
      BY <3>1, <3>2
  <2>2. stage \in [Program -> {"configure", "name", "tests", "look", "create", "failed", "write",
                              "done", "aborted"}]
    BY DEF OutputInit
  <2>3. output_file \in [Program -> Text] /\ todo \in [Program -> Seq(Text)]
    <3>1. output_file = [p \in Program |-> <<>>] /\ todo = [p \in Program |-> <<>>]
      BY DEF OutputInit
    <3> QED
      BY <1>1, <3>1
  <2>4. number \in [Program -> Nat] /\ round \in [Program -> 1 .. MaxRound]
    <3>1. number = [p \in Program |-> 0] /\ round = [p \in Program |-> 1]
      BY DEF OutputInit
    <3>2. 0 \in Nat /\ 1 \in 1 .. MaxRound
      BY <1>1
    <3> QED
      BY <3>1, <3>2
  <2>5. seen \in [Program -> SUBSET Program] /\ output_flag \in [Program -> Outputs]
    BY DEF OutputInit
  <2> QED
    BY <1>2, <2>1, <2>2, <2>3, <2>4, <2>5 DEF OutputTypeOK
<1>4. DiskRight
  BY DEF OutputInit, DiskRight
<1>5. \A p \in Program : NameRight(p) /\ WayRight(p) /\ ReportRight(p)
  BY DEF OutputInit, NameRight, WayRight, ReportRight, Settled, Climbing
<1> QED
  BY <1>3, <1>4, <1>5 DEF OutputInv

LEMMA OutputNextRight == OutputInv /\ [OutputNext]_outputVars => OutputInv'
<1> SUFFICES ASSUME OutputInv, [OutputNext]_outputVars PROVE OutputInv'
  OBVIOUS
<1>1. ASSUME NEW p \in Program,
             \/ Configure(p) \/ GenerateUniqueFileName(p) \/ RunTests(p)
             \/ CreateDirectoriesRecursively(p) \/ CreateFolder(p) \/ AcceptFolder(p)
             \/ Open(p) \/ PrintReport(p)
      PROVE  OutputInv'
  <2>1. StepRight(p)
    BY <1>1, ConfigureRight, GenerateRight, RunTestsRight, LookRight, CreateFolderRight,
       AcceptFolderRight, OpenRight, PrintRight
  <2> QED
    BY <2>1, StepKeeps
<1>2. CASE UNCHANGED outputVars
  <2>1. /\ start' = start /\ tree' = tree /\ disk' = disk /\ output_flag' = output_flag
        /\ origin' = origin /\ cwd' = cwd /\ stage' = stage /\ number' = number
        /\ output_file' = output_file /\ todo' = todo /\ round' = round /\ seen' = seen
    BY <1>2 DEF outputVars
  <2>2. OutputTypeOK'
    BY <2>1 DEF OutputInv, OutputTypeOK
  <2>3. \A p : /\ Settled(p)' = Settled(p) /\ ReportFile(p)' = ReportFile(p)
               /\ InDirectory(p)' = InDirectory(p) /\ Asked(p)' = Asked(p) /\ Base(p)' = Base(p)
    BY <2>1 DEF Settled, ReportFile, InDirectory, Asked, Base
  <2>4. DiskRight'
    <3>1. DiskRight
      BY DEF OutputInv
    <3>2. {p \in Program : Settled(p)'} = {p \in Program : Settled(p)}
      BY <2>3
    <3> QED
      BY <2>1, <2>3, <3>1, <3>2 DEF DiskRight
  <2>5. ASSUME NEW p \in Program PROVE NameRight(p)' /\ WayRight(p)' /\ ReportRight(p)'
    <3>1. NameRight(p) /\ WayRight(p) /\ ReportRight(p)
      BY DEF OutputInv
    <3>2. NameRight(p)'
      BY <2>1, <2>3, <3>1 DEF NameRight
    <3>3. WayRight(p)'
      BY <2>1, <2>3, <3>1 DEF WayRight
    <3>4. OnlyAuthor(p)' = OnlyAuthor(p)
      BY <2>3 DEF OnlyAuthor
    <3>5. Impossible(ReportFile(p))' = Impossible(ReportFile(p))
      BY <2>1, <2>3 DEF Impossible
    <3>6. ReportRight(p)'
      BY <2>1, <2>3, <3>1, <3>4, <3>5 DEF ReportRight
    <3> QED
      BY <3>2, <3>3, <3>6
  <2> QED
    BY <2>2, <2>4, <2>5 DEF OutputInv
<1> QED
  BY <1>1, <1>2 DEF OutputNext, AllEnded

LEMMA OutputInvImplies == OutputInv => OutputRight
<1> SUFFICES ASSUME OutputInv PROVE OutputRight
  OBVIOUS
<1>1. \A p \in Program : NameRight(p) /\ ReportRight(p)
  BY DEF OutputInv
<1>2. ASSUME NEW p \in Program
      PROVE  /\ stage[p] = "done" =>
                  /\ ReportFile(p) \in Asked(p) \cap DOMAIN disk
                  /\ (\A q \in Program \ {p} : ReportFile(q) # ReportFile(p)) =>
                       disk[ReportFile(p)] = {<<p, MaxRound>>}
             /\ stage[p] = "aborted" => Impossible(ReportFile(p))
             /\ InDirectory(p) => \A q \in seen[p] : ReportFile(q) # ReportFile(p)
  BY <1>1 DEF NameRight, ReportRight, OnlyAuthor, Settled
<1>3. \A f \in DOMAIN start.files :
        (\A p \in Program : InDirectory(p)) => f \in DOMAIN disk /\ disk[f] = start.files[f]
  BY DEF OutputInv, OutputTypeOK, DiskRight
<1>4. /\ DOMAIN disk \subseteq DOMAIN start.files \cup {ReportFile(p) : p \in Program}
      /\ tree \subseteq start.dirs \cup UNION {Above(ReportFile(p)) : p \in Program}
  BY DEF OutputInv, DiskRight
<1> QED
  BY <1>2, <1>3, <1>4 DEF OutputRight

\* For any programs, flags and disks: a report that is printed is in the file that was
\* asked for, nothing that was there is overwritten where a name is chosen, and a
\* program is aborted only if nobody could have put a file there (gtest.cc,
\* OpenFileForWriting; gtest-filepath.cc, CreateDirectoriesRecursively).
THEOREM ReportsWritten == OutputSpec => []OutputRight
<1>1. OutputInit => OutputInv
  BY OutputInitRight
<1>2. OutputInv /\ [OutputNext]_outputVars => OutputInv'
  BY OutputNextRight
<1>3. OutputInv => OutputRight
  BY OutputInvImplies
<1> QED
  BY <1>1, <1>2, <1>3, PTL DEF OutputSpec
=============================================================================
