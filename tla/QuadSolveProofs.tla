--------------------------- MODULE QuadSolveProofs ---------------------------
(***************************************************************************)
(* What TLAPS proves of QuadSolve: whatever the coefficients, the number   *)
(* of equations, of lanes and of repetitions, and whichever kernels are    *)
(* compiled in, the counts and the roots left behind are right, provided   *)
(* that QuadSolveAVX is compiled with FMA and that Int32_v has as many     *)
(* lanes as Float_v.  (Without these the runs QuadSolveNoFma and           *)
(* QuadSolveAvxLanes show that they are not.)                              *)
(*                                                                         *)
(* The invariant names, for each equation that is done, the values the     *)
(* arrays hold; that these values solve the equation is algebra, and has   *)
(* nothing to do with the kernels.                                         *)
(***************************************************************************)
EXTENDS QuadSolve, TLAPS

LEMMA Division ==
  ASSUME NEW a \in Nat, NEW b \in Nat \ {0}
  PROVE  a \div b \in Nat /\ a = b * (a \div b) + (a % b)
OBVIOUS

\* When the lanes divide the number of equations, a block of them that begins
\* before the end does not exceed it.
LEMMA BlockInRow ==
  ASSUME NEW Total \in Nat, NEW V \in Nat \ {0}, NEW b \in Nat, Total % V = 0, b * V < Total
  PROVE  b * V + V <= Total
<1>1. PICK d \in Nat : Total = d * V
  <2>1. Total \div V \in Nat /\ Total = V * (Total \div V) + (Total % V)
    BY ONLY Division, Total \in Nat, V \in Nat \ {0}, Zenon
  <2>2. V * (Total \div V) = (Total \div V) * V
    BY <2>1
  <2>3. Total = (Total \div V) * V
    BY <2>1, <2>2
  <2> QED
    BY <2>1, <2>3, Zenon
<1>2. d > b
  <2>1. ASSUME d <= b PROVE FALSE
    <3>1. (b - d) * V \in Nat
      BY <2>1
    <3>2. (b - d) * V = b * V - d * V
      OBVIOUS
    <3> QED
      BY <1>1, <3>1, <3>2
  <2> QED
    BY <2>1
<1>3. (d - b - 1) * V \in Nat
  BY <1>2
<1>4. (d - b - 1) * V = d * V - b * V - V
  OBVIOUS
<1> QED
  BY <1>1, <1>3, <1>4

Compiled ==
  \A k \in DOMAIN Kernels : /\ Kernels[k] = "QuadSolveAVX" => Fma
                            /\ Kernels[k] = "QuadSolveSIMD" => IntLanes = FloatLanes

Number == [num : Int \X Int, den : Int \X Int, rad : Int]

TypeOK ==
  /\ coef \in [Index -> Coef]
  /\ x1 \in [Index -> Number]
  /\ x2 \in [Index -> Number]
  /\ roots \in [Index -> 0 .. 2]
  /\ test \in 1 .. Len(Kernels) + 1
  /\ run \in 1 .. NRuns
  /\ eq \in 0 .. N
  /\ half \in {"begin", "mask1"}

\* The vector kernels start at a multiple of the lanes, and only QuadSolveSIMD
\* can be between its two halves.
PlaceRight ==
  /\ test <= Len(Kernels) /\ Kernels[test] \in {"QuadSolveAVX", "QuadSolveSIMD"} =>
       eq % FloatLanes = 0
  /\ half = "mask1" => Testing("QuadSolveSIMD")

\* The results r1, r2 and count are right for equation x.
RightFor(x, r1, r2, count) ==
  \/ count = 0 /\ Delta(x) < 0
  \/ /\ count = 1 /\ 0 <= Delta(x) /\ Delta(x) <= Eps
     /\ r1 = DoubleRoot(x) /\ r2 = DoubleRoot(x)
  \/ /\ count = 2 /\ Delta(x) >= Eps
     /\ \/ r1 = LargeRoot(x, Delta(x)) /\ r2 = SmallRoot(x, Delta(x))
        \/ r1 = SmallRoot(x, Delta(x)) /\ r2 = LargeRoot(x, Delta(x))

Right(x) == RightFor(x, x1[x], x2[x], roots[x])

ResultsRight == \A x \in Current : Right(x)

\* Between its halves QuadSolveSIMD has only the single roots to write.
HalfRight == half = "mask1" => \A x \in FloatBlock \ mask1 : Right(x)

IInv == TypeOK /\ PlaceRight /\ ResultsRight /\ HalfRight

-----------------------------------------------------------------------------
(* Algebra.                                                                *)

\* -(b + s*sqrt(d)) / 2a is a root.
LEMMA LargeSolves ==
  ASSUME NEW a \in Int, NEW b \in Int, NEW c \in Int, NEW s \in {1, -1}, NEW d \in Int,
         d = b * b - 4 * a * c
  PROVE  /\ a * ((-b) * (-b) + (-s) * (-s) * d) + b * ((-b) * (2 * a) + (-s) * 0 * d)
              + c * ((2 * a) * (2 * a) + 0 * 0 * d) = 0
         /\ a * ((-b) * (-s) + (-s) * (-b)) + b * ((-b) * 0 + (-s) * (2 * a))
              + c * ((2 * a) * 0 + 0 * (2 * a)) = 0
  BY SMT

\* So is 2c / -(b + s*sqrt(d)).
LEMMA SmallSolves ==
  ASSUME NEW a \in Int, NEW b \in Int, NEW c \in Int, NEW s \in {1, -1}, NEW d \in Int,
         d = b * b - 4 * a * c
  PROVE  /\ a * ((2 * c) * (2 * c) + 0 * 0 * d) + b * ((2 * c) * (-b) + 0 * (-s) * d)
              + c * ((-b) * (-b) + (-s) * (-s) * d) = 0
         /\ a * ((2 * c) * 0 + 0 * (2 * c)) + b * ((2 * c) * (-s) + 0 * (-b))
              + c * ((-b) * (-s) + (-s) * (-b)) = 0
  BY SMT

\* b + s*sqrt(d) is not zero when s is the sign of b.
LEMMA DenominatorNotZero ==
  ASSUME NEW b \in Int, NEW s \in {1, -1}, NEW d \in Int, d > 0, s * b >= 0
  PROVE  ~((-b) * (-b) = (-s) * (-s) * d /\ (-b) * (-s) <= 0)
  BY SMT

\* The two roots differ by 2*sqrt(d)*(sqrt(d) + |b|) over a denominator.
LEMMA RootsDiffer ==
  ASSUME NEW b \in Int, NEW s \in {1, -1}, NEW d \in Int, d > 0, s * b >= 0
  PROVE  ~((2 * d) * (2 * d) = (2 * b * s) * (2 * b * s) * d /\ (2 * d) * (2 * b * s) <= 0)
  BY SMT
-----------------------------------------------------------------------------
(* Equations and their roots.                                              *)

LEMMA Equation ==
  ASSUME TypeOK, NEW x \in Index
  PROVE  /\ A(x) \in Int \ {0} /\ B(x) \in Int /\ C(x) \in Int
         /\ Delta(x) \in Int /\ Delta(x) = B(x) * B(x) - 4 * A(x) * C(x)
         /\ Sign(x) \in {1, -1} /\ Sign(x) * B(x) >= 0
         /\ Eps \in Nat \ {0}
<1>1. coef[x] \in (Int \ {0}) \X Int \X Int
  BY QuadAssumption DEF TypeOK
<1>2. A(x) \in Int \ {0} /\ B(x) \in Int /\ C(x) \in Int
  BY <1>1 DEF A, B, C
<1> QED
  BY <1>2, QuadAssumption DEF Delta, Sign

LEMMA Types ==
  ASSUME TypeOK, NEW x \in Index
  PROVE  /\ LargeRoot(x, Delta(x)) \in Number
         /\ SmallRoot(x, Delta(x)) \in Number
         /\ DoubleRoot(x) \in Number
         /\ Zero \in Number
  BY Equation DEF LargeRoot, SmallRoot, DoubleRoot, Zero, Quotient, Number

LEMMA LargeRootSolves ==
  ASSUME TypeOK, NEW x \in Index
  PROVE  Solves(x, LargeRoot(x, Delta(x)))
<1> DEFINE a == A(x)
           b == B(x)
           c == C(x)
           s == Sign(x)
           d == Delta(x)
<1>1. /\ a \in Int \ {0} /\ b \in Int /\ c \in Int /\ d \in Int /\ s \in {1, -1}
      /\ d = b * b - 4 * a * c
  BY Equation
<1>2. ~IsZero(<<2 * a, 0>>, d)
  BY <1>1 DEF IsZero
<1>3. /\ Times(<<-b, -s>>, <<-b, -s>>, d) =
           <<(-b) * (-b) + (-s) * (-s) * d, (-b) * (-s) + (-s) * (-b)>>
      /\ Times(<<-b, -s>>, <<2 * a, 0>>, d) =
           <<(-b) * (2 * a) + (-s) * 0 * d, (-b) * 0 + (-s) * (2 * a)>>
      /\ Times(<<2 * a, 0>>, <<2 * a, 0>>, d) =
           <<(2 * a) * (2 * a) + 0 * 0 * d, (2 * a) * 0 + 0 * (2 * a)>>
  BY DEF Times
<1>4. Plus(Plus(Scale(a, Times(<<-b, -s>>, <<-b, -s>>, d)),
                Scale(b, Times(<<-b, -s>>, <<2 * a, 0>>, d))),
           Scale(c, Times(<<2 * a, 0>>, <<2 * a, 0>>, d))) = <<0, 0>>
  <2> HIDE DEF a, b, c, s, d
  <2>1. Plus(Plus(Scale(a, Times(<<-b, -s>>, <<-b, -s>>, d)),
                  Scale(b, Times(<<-b, -s>>, <<2 * a, 0>>, d))),
             Scale(c, Times(<<2 * a, 0>>, <<2 * a, 0>>, d))) =
          <<a * ((-b) * (-b) + (-s) * (-s) * d) + b * ((-b) * (2 * a) + (-s) * 0 * d)
              + c * ((2 * a) * (2 * a) + 0 * 0 * d),
            a * ((-b) * (-s) + (-s) * (-b)) + b * ((-b) * 0 + (-s) * (2 * a))
              + c * ((2 * a) * 0 + 0 * (2 * a))>>
    BY <1>3 DEF Plus, Scale
  <2> QED
    BY <1>1, <2>1, LargeSolves
<1>5. IsZero(<<0, 0>>, d)
  BY <1>1 DEF IsZero
<1> QED
  BY <1>2, <1>4, <1>5 DEF Solves, LargeRoot, Quotient

LEMMA SmallRootSolves ==
  ASSUME TypeOK, NEW x \in Index, Delta(x) > 0
  PROVE  Solves(x, SmallRoot(x, Delta(x)))
<1> DEFINE a == A(x)
           b == B(x)
           c == C(x)
           s == Sign(x)
           d == Delta(x)
<1>1. /\ a \in Int \ {0} /\ b \in Int /\ c \in Int /\ d \in Int /\ s \in {1, -1}
      /\ d = b * b - 4 * a * c /\ s * b >= 0 /\ d > 0
  BY Equation
<1>2. ~IsZero(<<-b, -s>>, d)
  BY <1>1, DenominatorNotZero DEF IsZero
<1>3. /\ Times(<<2 * c, 0>>, <<2 * c, 0>>, d) =
           <<(2 * c) * (2 * c) + 0 * 0 * d, (2 * c) * 0 + 0 * (2 * c)>>
      /\ Times(<<2 * c, 0>>, <<-b, -s>>, d) =
           <<(2 * c) * (-b) + 0 * (-s) * d, (2 * c) * (-s) + 0 * (-b)>>
      /\ Times(<<-b, -s>>, <<-b, -s>>, d) =
           <<(-b) * (-b) + (-s) * (-s) * d, (-b) * (-s) + (-s) * (-b)>>
  BY DEF Times
<1>4. Plus(Plus(Scale(a, Times(<<2 * c, 0>>, <<2 * c, 0>>, d)),
                Scale(b, Times(<<2 * c, 0>>, <<-b, -s>>, d))),
           Scale(c, Times(<<-b, -s>>, <<-b, -s>>, d))) = <<0, 0>>
  <2> HIDE DEF a, b, c, s, d
  <2>1. Plus(Plus(Scale(a, Times(<<2 * c, 0>>, <<2 * c, 0>>, d)),
                  Scale(b, Times(<<2 * c, 0>>, <<-b, -s>>, d))),
             Scale(c, Times(<<-b, -s>>, <<-b, -s>>, d))) =
          <<a * ((2 * c) * (2 * c) + 0 * 0 * d) + b * ((2 * c) * (-b) + 0 * (-s) * d)
              + c * ((-b) * (-b) + (-s) * (-s) * d),
            a * ((2 * c) * 0 + 0 * (2 * c)) + b * ((2 * c) * (-s) + 0 * (-b))
              + c * ((-b) * (-s) + (-s) * (-b))>>
    BY <1>3 DEF Plus, Scale
  <2> QED
    BY <1>1, <2>1, SmallSolves
<1>5. IsZero(<<0, 0>>, d)
  BY <1>1 DEF IsZero
<1> QED
  BY <1>2, <1>4, <1>5 DEF Solves, SmallRoot, Quotient

\* Either way round.
LEMMA TwoRootsDiffer ==
  ASSUME TypeOK, NEW x \in Index, Delta(x) > 0
  PROVE  /\ ~SameValue(LargeRoot(x, Delta(x)), SmallRoot(x, Delta(x)))
         /\ ~SameValue(SmallRoot(x, Delta(x)), LargeRoot(x, Delta(x)))
<1> DEFINE a == A(x)
           b == B(x)
           c == C(x)
           s == Sign(x)
           d == Delta(x)
           cross == Times(<<-b, -s>>, <<-b, -s>>, d)
           flat  == Times(<<2 * c, 0>>, <<2 * a, 0>>, d)
<1>1. /\ a \in Int \ {0} /\ b \in Int /\ c \in Int /\ d \in Int /\ s \in {1, -1}
      /\ d = b * b - 4 * a * c /\ s * b >= 0 /\ d > 0
  BY Equation
<1>2. /\ Plus(cross, Scale(-1, flat)) = <<2 * d, 2 * b * s>>
      /\ Plus(flat, Scale(-1, cross)) = <<-(2 * d), -(2 * b * s)>>
  <2> HIDE DEF a, b, c, s, d
  <2> QED
    BY <1>1 DEF Plus, Scale, Times
<1>3. ~IsZero(<<2 * d, 2 * b * s>>, d) /\ ~IsZero(<<-(2 * d), -(2 * b * s)>>, d)
  <2> HIDE DEF a, b, c, s, d
  <2>1. ~IsZero(<<2 * d, 2 * b * s>>, d)
    BY <1>1, RootsDiffer DEF IsZero
  <2>2. /\ 2 * b * s \in Int /\ 2 * d \in Int
        /\ \A u \in Int, v \in Int : (-u) * (-v) = u * v
    BY <1>1
  <2>3. IsZero(<<-(2 * d), -(2 * b * s)>>, d) => IsZero(<<2 * d, 2 * b * s>>, d)
    <3> DEFINE u == 2 * d
               v == 2 * b * s
    <3>1. u \in Int /\ v \in Int
      BY <2>2
    <3> HIDE DEF u, v
    <3>2. (-u) * (-u) = u * u /\ (-v) * (-v) = v * v /\ (-u) * (-v) = u * v
      BY <3>1
    <3>3. IsZero(<<-u, -v>>, d) => IsZero(<<u, v>>, d)
      BY <3>2 DEF IsZero
    <3> QED
      BY <3>3 DEF u, v
  <2> QED
    BY <2>1, <2>3
<1>4. /\ Times(<<-b, -s>>, <<-b, -s>>, d) = cross
      /\ Times(<<2 * c, 0>>, <<2 * a, 0>>, d) = flat
  OBVIOUS
<1> QED
  BY <1>2, <1>3, <1>4 DEF SameValue, LargeRoot, SmallRoot, Quotient
-----------------------------------------------------------------------------
(* What each kernel leaves is right.                                       *)

LEMMA NaiveRight ==
  ASSUME TypeOK, NEW x \in Index
  PROVE  LET r == Naive(x) IN /\ RightFor(x, r.x1, r.x2, r.roots)
                              /\ r.x1 \in Number /\ r.x2 \in Number /\ r.roots \in 0 .. 2
<1>1. /\ Delta(x) \in Int /\ Eps \in Nat \ {0} /\ B(x) \in Int
      /\ x1[x] \in Number /\ x2[x] \in Number
  BY Equation DEF TypeOK
<1>2. Delta(x) < 0 \/ (Delta(x) >= 0 /\ Delta(x) < Eps) \/ Delta(x) >= Eps
  BY <1>1
<1> QED
  BY <1>1, <1>2, Types DEF Naive, Solved, RightFor

LEMMA OptimizedRight ==
  ASSUME TypeOK, NEW x \in Index
  PROVE  LET r == Optimized(x) IN /\ RightFor(x, r.x1, r.x2, r.roots)
                                  /\ r.x1 \in Number /\ r.x2 \in Number /\ r.roots \in 0 .. 2
<1>1. /\ Delta(x) \in Int /\ Eps \in Nat \ {0}
      /\ x1[x] \in Number /\ x2[x] \in Number
  BY Equation DEF TypeOK
<1>2. Delta(x) < 0 \/ (Delta(x) >= 0 /\ Delta(x) <= Eps) \/ Delta(x) > Eps
  BY <1>1
<1> QED
  BY <1>1, <1>2, Types DEF Optimized, Solved, RightFor

LEMMA AVXRight ==
  ASSUME TypeOK, Fma, NEW x \in Index
  PROVE  LET r == AVX(x) IN /\ RightFor(x, r.x1, r.x2, r.roots)
                            /\ r.x1 \in Number /\ r.x2 \in Number /\ r.roots \in 0 .. 2
<1>1. /\ Delta(x) \in Int /\ Eps \in Nat \ {0} /\ DeltaAVX(x) = Delta(x)
  BY Equation DEF DeltaAVX
<1>2. Delta(x) < 0 \/ (Delta(x) >= 0 /\ Delta(x) < Eps) \/ Delta(x) >= Eps
  BY <1>1
<1> QED
  BY <1>1, <1>2, Types DEF AVX, Solved, RightFor

-----------------------------------------------------------------------------
(* The lanes of a block, and the equations that are done.                  *)

LEMMA BlockInIndex ==
  ASSUME TypeOK, eq < N, eq % FloatLanes = 0
  PROVE  /\ FloatBlock \subseteq Index /\ eq + FloatLanes \in 0 .. N
         /\ (eq + FloatLanes) % FloatLanes = 0
<1> DEFINE k == eq \div FloatLanes
<1>1. /\ FloatLanes \in Nat \ {0} /\ N \in Nat \ {0} /\ N % FloatLanes = 0 /\ eq \in Nat
  BY QuadAssumption DEF TypeOK
<1>2. k \in Nat /\ eq = k * FloatLanes
  BY <1>1
<1>3. k * FloatLanes + FloatLanes <= N
  <2> HIDE DEF k
  <2> QED
    BY <1>1, <1>2, BlockInRow
<1>4. (eq + FloatLanes) % FloatLanes = 0
  <2> DEFINE q == (eq + FloatLanes) \div FloatLanes
             r == (eq + FloatLanes) % FloatLanes
  <2>1. q \in Nat /\ r \in 0 .. FloatLanes - 1 /\ eq + FloatLanes = FloatLanes * q + r
    BY <1>1
  <2>2. FloatLanes * (k + 1 - q) = r
    BY <1>1, <1>2, <2>1
  <2> HIDE DEF q, r, k
  <2>3. k + 1 - q = 0
    <3>1. ASSUME k + 1 - q >= 1 PROVE FALSE
      <4>1. FloatLanes * (k + 1 - q) >= FloatLanes
        BY <1>1, <1>2, <2>1, <3>1
      <4> QED
        BY <1>1, <2>1, <2>2, <4>1
    <3>2. ASSUME k + 1 - q <= -1 PROVE FALSE
      <4>1. FloatLanes * (k + 1 - q) < 0
        BY <1>1, <1>2, <2>1, <3>2
      <4> QED
        BY <1>1, <2>1, <2>2, <4>1
    <3> QED
      BY <1>2, <2>1, <3>1, <3>2
  <2>4. r = 0
    BY <1>1, <2>2, <2>3
  <2> QED
    BY <2>4 DEF r
<1> QED
  BY <1>1, <1>2, <1>3, <1>4 DEF FloatBlock, Index

\* The coefficients do not change, and the meaning of Right with them.
LEMMA SameEquations ==
  ASSUME UNCHANGED coef, NEW x
  PROVE  /\ Delta(x)' = Delta(x) /\ LargeRoot(x, Delta(x))' = LargeRoot(x, Delta(x))
         /\ SmallRoot(x, Delta(x))' = SmallRoot(x, Delta(x))
         /\ DoubleRoot(x)' = DoubleRoot(x)
         /\ Right(x)' <=> RightFor(x, x1'[x], x2'[x], roots'[x])
  BY DEF Delta, A, B, C, Sign, LargeRoot, SmallRoot, DoubleRoot, Right, RightFor, Quotient

LEMMA StillRight ==
  ASSUME UNCHANGED coef, NEW x,
         x1'[x] = x1[x], x2'[x] = x2[x], roots'[x] = roots[x], Right(x)
  PROVE  Right(x)'
  BY SameEquations DEF Right

LEMMA KernelSteps ==
  ASSUME TypeOK, TypeOK', UNCHANGED <<coef, test, run>>, test <= Len(Kernels), eq <= eq'
  PROVE  \A x \in Current' :
           x \in Current \/ (x >= eq /\ x < eq') \/ (half = "mask1" /\ x \in FloatBlock)
<1>1. TAKE x \in Current'
<1>2. Len(Kernels) \in Nat /\ N \in Nat /\ eq \in Nat /\ eq' \in Nat /\ test \in Nat /\ run \in Nat
  BY QuadAssumption DEF TypeOK
<1>3. x \in Index /\ x \in Int /\ (x < eq' \/ run > 1)
  BY <1>1, <1>2 DEF Current, Index
<1>4. x < eq \/ x >= eq
  BY <1>2, <1>3 DEF Index
<1>5. CASE x < eq
  BY <1>2, <1>3, <1>5 DEF Current
<1>6. CASE x >= eq /\ x < eq'
  BY <1>6
<1>7. CASE x >= eq /\ run > 1
  BY <1>2, <1>3, <1>7 DEF Current
<1> QED
  BY <1>2, <1>3, <1>4, <1>5, <1>6, <1>7 DEF Index
-----------------------------------------------------------------------------
(* The steps.                                                              *)

LEMMA InitInv == QuadInit => IInv
<1> SUFFICES ASSUME QuadInit PROVE IInv
  OBVIOUS
<1>1. /\ Len(Kernels) \in Nat \ {0} /\ N \in Nat \ {0} /\ NRuns \in Nat \ {0}
      /\ FloatLanes \in Nat \ {0}
  BY QuadAssumption
<1>2. Zero \in Number
  BY DEF Zero, Quotient, Number
<1>3. TypeOK
  BY <1>1, <1>2 DEF QuadInit, TypeOK
<1>4. Current = {}
  BY <1>1 DEF QuadInit, Current, Index
<1>5. PlaceRight
  BY <1>1 DEF QuadInit, PlaceRight
<1> QED
  BY <1>3, <1>4, <1>5 DEF QuadInit, IInv, ResultsRight, HalfRight

LEMMA ScalarInv ==
  ASSUME IInv, SolveScalar
  PROVE  IInv'
<1>1. /\ TypeOK /\ UNCHANGED <<coef, test, run, half>> /\ eq' = eq + 1
      /\ test <= Len(Kernels) /\ eq < N
      /\ Kernels[test] \in {"QuadSolve", "QuadSolveOptimized"}
  BY DEF IInv, SolveScalar, Testing
<1>2. half = "begin" /\ eq \in Nat /\ eq \in Index /\ N \in Nat
  BY <1>1, QuadAssumption DEF IInv, TypeOK, PlaceRight, Testing, Index
<1>3. PICK r \in {Naive(eq), Optimized(eq)} :
        /\ x1' = [x \in Index |-> IF x \in {eq} THEN r.x1 ELSE x1[x]]
        /\ x2' = [x \in Index |-> IF x \in {eq} THEN r.x2 ELSE x2[x]]
        /\ roots' = [x \in Index |-> IF x \in {eq} THEN r.roots ELSE roots[x]]
  BY <1>2 DEF SolveScalar, Put
<1>4. /\ RightFor(eq, r.x1, r.x2, r.roots)
      /\ r.x1 \in Number /\ r.x2 \in Number /\ r.roots \in 0 .. 2
  BY <1>1, <1>2, <1>3, NaiveRight, OptimizedRight
<1>5. TypeOK'
  BY <1>1, <1>2, <1>3, <1>4 DEF TypeOK
<1>6. PlaceRight' /\ HalfRight'
  BY <1>1, <1>2 DEF PlaceRight, HalfRight
<1>7. ASSUME NEW x \in Current' PROVE Right(x)'
  <2>1. x \in Index
    BY <1>1 DEF Current, Index
  <2>2. x \in Current \/ x = eq
    BY <1>1, <1>2, <1>5, <2>1, KernelSteps DEF Index
  <2>3. CASE x = eq
    BY <1>1, <1>2, <1>3, <1>4, <2>3, SameEquations
  <2>4. CASE x \in Current /\ x # eq
    BY <1>1, <1>3, <2>1, <2>4, StillRight DEF IInv, ResultsRight
  <2> QED
    BY <2>2, <2>3, <2>4
<1> QED
  BY <1>5, <1>6, <1>7 DEF IInv, ResultsRight

LEMMA AVXInv ==
  ASSUME Compiled, IInv, SolveAVX
  PROVE  IInv'
<1>1. /\ TypeOK /\ UNCHANGED <<coef, test, run, half>> /\ eq' = eq + FloatLanes
      /\ test <= Len(Kernels) /\ eq < N /\ Kernels[test] = "QuadSolveAVX"
  BY DEF IInv, SolveAVX, Testing
<1>2. /\ half = "begin" /\ eq \in Nat /\ eq % FloatLanes = 0 /\ N \in Nat
      /\ FloatLanes \in Nat \ {0}
  BY <1>1, QuadAssumption DEF IInv, TypeOK, PlaceRight, Testing
<1>3. FloatBlock \subseteq Index /\ eq + FloatLanes \in 0 .. N /\ (eq + FloatLanes) % FloatLanes = 0
  BY <1>1, <1>2, BlockInIndex
<1>4. Fma
  BY <1>1, QuadAssumption DEF Compiled, TypeOK
<1>5. /\ x1' = [x \in Index |-> IF x \in FloatBlock THEN AVX(x).x1 ELSE x1[x]]
      /\ x2' = [x \in Index |-> IF x \in FloatBlock THEN AVX(x).x2 ELSE x2[x]]
      /\ roots' = [x \in Index |-> IF x \in FloatBlock THEN AVX(x).roots ELSE roots[x]]
  BY DEF SolveAVX, Put
<1>6. ASSUME NEW x \in Index
      PROVE  /\ RightFor(x, AVX(x).x1, AVX(x).x2, AVX(x).roots)
             /\ AVX(x).x1 \in Number /\ AVX(x).x2 \in Number /\ AVX(x).roots \in 0 .. 2
  BY <1>1, <1>4, AVXRight
<1>7. TypeOK'
  <2>1. x1' \in [Index -> Number] /\ x2' \in [Index -> Number] /\ roots' \in [Index -> 0 .. 2]
    BY <1>1, <1>5, <1>6 DEF TypeOK
  <2> QED
    BY <1>1, <1>3, <2>1 DEF TypeOK
<1>8. PlaceRight' /\ HalfRight'
  BY <1>1, <1>2, <1>3 DEF PlaceRight, HalfRight
<1>9. ASSUME NEW x \in Current' PROVE Right(x)'
  <2>1. x \in Index
    BY <1>1 DEF Current, Index
  <2>2. x \in Current \/ x \in FloatBlock
    BY <1>1, <1>2, <1>7, <2>1, KernelSteps DEF Index, FloatBlock
  <2>3. CASE x \in FloatBlock
    BY <1>1, <1>5, <1>6, <2>1, <2>3, SameEquations
  <2>4. CASE x \in Current /\ x \notin FloatBlock
    BY <1>1, <1>5, <2>1, <2>4, StillRight DEF IInv, ResultsRight
  <2> QED
    BY <2>2, <2>3, <2>4
<1> QED
  BY <1>7, <1>8, <1>9 DEF IInv, ResultsRight
\* The masks of a block, in which QuadSolveSIMD writes.
LEMMA Masks ==
  ASSUME Compiled, IInv, Testing("QuadSolveSIMD")
  PROVE  /\ TypeOK /\ eq \in Nat /\ eq % FloatLanes = 0 /\ N \in Nat /\ FloatLanes \in Nat \ {0}
         /\ FloatBlock \subseteq Index /\ eq + FloatLanes \in 0 .. N
         /\ (eq + FloatLanes) % FloatLanes = 0
         /\ IntBlock = FloatBlock
         /\ \A x \in FloatBlock :
              \/ x \in mask0 /\ Delta(x) < 0 /\ x \notin mask2 /\ x \notin mask1
              \/ x \in mask2 /\ Delta(x) >= Eps /\ x \notin mask1
              \/ x \in mask1 /\ 0 <= Delta(x) /\ Delta(x) <= Eps /\ x \notin mask2
         /\ mask0 \subseteq FloatBlock /\ mask1 \subseteq FloatBlock /\ mask2 \subseteq FloatBlock
<1>1. TypeOK /\ eq \in Nat /\ eq % FloatLanes = 0 /\ N \in Nat /\ FloatLanes \in Nat \ {0} /\ eq < N
  BY QuadAssumption DEF IInv, TypeOK, PlaceRight, Testing
<1>2. FloatBlock \subseteq Index /\ eq + FloatLanes \in 0 .. N /\ (eq + FloatLanes) % FloatLanes = 0
  BY <1>1, BlockInIndex
<1>3. IntBlock = FloatBlock
  BY <1>1, QuadAssumption DEF Compiled, Testing, TypeOK, IntBlock, FloatBlock
<1>4. \A x \in FloatBlock : Delta(x) \in Int /\ Eps \in Nat \ {0}
  BY <1>1, <1>2, Equation
<1>5. ASSUME NEW x \in FloatBlock
      PROVE  \/ x \in mask0 /\ Delta(x) < 0 /\ x \notin mask2 /\ x \notin mask1
             \/ x \in mask2 /\ Delta(x) >= Eps /\ x \notin mask1
             \/ x \in mask1 /\ 0 <= Delta(x) /\ Delta(x) <= Eps /\ x \notin mask2
  BY <1>4 DEF mask0, mask1, mask2
<1>6. mask0 \subseteq FloatBlock /\ mask1 \subseteq FloatBlock /\ mask2 \subseteq FloatBlock
  BY DEF mask0, mask1, mask2
<1> QED
  BY <1>1, <1>2, <1>3, <1>5, <1>6

LEMMA SIMDInv ==
  ASSUME Compiled, IInv, SolveSIMD
  PROVE  IInv'
<1>1. /\ TypeOK /\ UNCHANGED <<coef, test, run>> /\ half = "begin"
      /\ test <= Len(Kernels) /\ eq < N /\ Testing("QuadSolveSIMD")
      /\ Kernels[test] = "QuadSolveSIMD"
  BY DEF IInv, SolveSIMD, Testing
<1>2. /\ eq \in Nat /\ eq % FloatLanes = 0 /\ N \in Nat /\ FloatLanes \in Nat \ {0}
      /\ FloatBlock \subseteq Index /\ eq + FloatLanes \in 0 .. N
      /\ (eq + FloatLanes) % FloatLanes = 0 /\ IntBlock = FloatBlock
      /\ mask0 \subseteq FloatBlock /\ mask1 \subseteq FloatBlock /\ mask2 \subseteq FloatBlock
  BY <1>1, Masks
<1>3. /\ x1' = [x \in Index |-> IF x \in mask2 THEN LargeRoot(x, Delta(x)) ELSE x1[x]]
      /\ x2' = [x \in Index |-> IF x \in mask2 THEN SmallRoot(x, Delta(x)) ELSE x2[x]]
      /\ roots' = [x \in Index |-> IF x \in mask2 THEN 2
                                   ELSE IF x \in FloatBlock THEN 0 ELSE roots[x]]
  BY <1>2 DEF SolveSIMD
<1>4. \/ mask1 = {} /\ eq' = eq + FloatLanes /\ half' = "begin"
      \/ eq' = eq /\ half' = "mask1"
  BY DEF SolveSIMD
<1>5. TypeOK'
  <2>1. x1' \in [Index -> Number] /\ x2' \in [Index -> Number] /\ roots' \in [Index -> 0 .. 2]
    BY <1>1, <1>3, Types DEF TypeOK
  <2> QED
    BY <1>1, <1>2, <1>4, <2>1 DEF TypeOK
<1>6. PlaceRight'
  BY <1>1, <1>2, <1>4 DEF PlaceRight, Testing
<1>7. ASSUME NEW x \in FloatBlock \ mask1 PROVE Right(x)'
  <2>1. x \in Index
    BY <1>2
  <2>2. RightFor(x, x1'[x], x2'[x], roots'[x])
    BY <1>1, <1>3, <2>1, Masks DEF RightFor
  <2> QED
    BY <1>1, <2>2, SameEquations
<1>8. ASSUME NEW x \in Index \ FloatBlock, x \in Current PROVE Right(x)'
  BY <1>1, <1>2, <1>3, <1>8, StillRight DEF IInv, ResultsRight
<1>9. HalfRight'
  <2>1. SUFFICES ASSUME half' = "mask1", NEW x \in (FloatBlock \ mask1)' PROVE Right(x)'
    BY DEF HalfRight
  <2>2. eq' = eq
    BY <1>4, <2>1
  <2>3. x \in FloatBlock \ mask1
    BY <1>1, <2>1, <2>2, SameEquations DEF mask1, mask0, mask2, FloatBlock
  <2> QED
    BY <1>7, <2>3
<1>10. ASSUME NEW x \in Current' PROVE Right(x)'
  <2>1. x \in Index
    BY <1>1 DEF Current, Index
  <2>2. x \in Current \/ (x >= eq /\ x < eq')
    BY <1>1, <1>2, <1>4, <1>5, <2>1, KernelSteps DEF Index
  <2>3. ASSUME x \in FloatBlock PROVE mask1 = {} \/ x < eq
    <3>1. CASE eq' = eq /\ half' = "mask1"
      <4>1. FloatBlock' = FloatBlock /\ ~(test' > Len(Kernels))
        BY <1>1, <3>1, QuadAssumption DEF FloatBlock, TypeOK
      <4> QED
        BY <1>10, <2>3, <3>1, <4>1 DEF Current
    <3> QED
      BY <1>4, <3>1
  <2>4. CASE x \in FloatBlock
    BY <1>2, <1>7, <2>3, <2>4 DEF FloatBlock
  <2>5. CASE x \notin FloatBlock
    <3>1. x \in Current
      BY <1>2, <1>4, <2>1, <2>2, <2>5 DEF FloatBlock, Index
    <3> QED
      BY <1>8, <2>1, <2>5, <3>1
  <2> QED
    BY <2>4, <2>5
<1> QED
  BY <1>5, <1>6, <1>9, <1>10 DEF IInv, ResultsRight

LEMMA FinishInv ==
  ASSUME Compiled, IInv, FinishSIMD
  PROVE  IInv'
<1>1. /\ TypeOK /\ UNCHANGED <<coef, test, run>> /\ half = "mask1" /\ half' = "begin"
      /\ Testing("QuadSolveSIMD") /\ test <= Len(Kernels) /\ eq < N /\ eq' = eq + FloatLanes
      /\ Kernels[test] = "QuadSolveSIMD"
  BY DEF IInv, FinishSIMD, PlaceRight, Testing
<1>2. /\ eq \in Nat /\ eq % FloatLanes = 0 /\ N \in Nat /\ FloatLanes \in Nat \ {0}
      /\ FloatBlock \subseteq Index /\ eq + FloatLanes \in 0 .. N
      /\ (eq + FloatLanes) % FloatLanes = 0 /\ IntBlock = FloatBlock
      /\ mask1 \subseteq FloatBlock
  BY <1>1, Masks
<1>3. /\ x1' = [x \in Index |-> IF x \in mask1 THEN DoubleRoot(x) ELSE x1[x]]
      /\ x2' = [x \in Index |-> IF x \in mask1 THEN DoubleRoot(x) ELSE x2[x]]
      /\ roots' = [x \in Index |-> IF x \in mask1 THEN 1 ELSE roots[x]]
  BY <1>2 DEF FinishSIMD
<1>4. TypeOK'
  <2>1. x1' \in [Index -> Number] /\ x2' \in [Index -> Number] /\ roots' \in [Index -> 0 .. 2]
    BY <1>1, <1>3, Types DEF TypeOK
  <2> QED
    BY <1>1, <1>2, <2>1 DEF TypeOK
<1>5. PlaceRight' /\ HalfRight'
  BY <1>1, <1>2 DEF PlaceRight, HalfRight
<1>6. ASSUME NEW x \in mask1 PROVE Right(x)'
  <2>1. RightFor(x, x1'[x], x2'[x], roots'[x])
    BY <1>1, <1>2, <1>3, Masks DEF RightFor
  <2> QED
    BY <1>1, <2>1, SameEquations
<1>7. ASSUME NEW x \in Current' PROVE Right(x)'
  <2>1. x \in Index
    BY <1>1 DEF Current, Index
  <2>2. x \in Current \/ x \in FloatBlock
    BY <1>1, <1>2, <1>4, <2>1, KernelSteps DEF Index, FloatBlock
  <2>3. x \notin mask1 => Right(x)
    BY <1>1, <2>2 DEF IInv, HalfRight, ResultsRight
  <2>4. CASE x \notin mask1
    BY <1>1, <1>3, <2>1, <2>3, <2>4, StillRight
  <2> QED
    BY <1>6, <2>4
<1> QED
  BY <1>4, <1>5, <1>7 DEF IInv, ResultsRight

\* The next repetition starts with all equations done; so does the next kernel,
\* which forgets that.
LEMMA NextRunInv ==
  ASSUME IInv, NextRun
  PROVE  IInv'
<1>1. /\ TypeOK /\ UNCHANGED <<coef, x1, x2, roots, half>> /\ eq' = 0
      /\ test <= Len(Kernels) /\ eq >= N
  BY DEF IInv, NextRun
<1>2. /\ Len(Kernels) \in Nat /\ N \in Nat \ {0} /\ FloatLanes \in Nat \ {0} /\ NRuns \in Nat \ {0}
      /\ half = "begin"
  BY <1>1, QuadAssumption DEF IInv, TypeOK, PlaceRight, Testing
<1>3. TypeOK'
  BY <1>1, <1>2 DEF TypeOK, NextRun
<1>4. PlaceRight' /\ HalfRight'
  BY <1>1, <1>2 DEF PlaceRight, HalfRight
<1>5. \A x \in Index : Right(x)
  BY <1>1, <1>2 DEF IInv, ResultsRight, Current, Index, TypeOK
<1>6. \A x \in Current' : Right(x)'
  BY <1>1, <1>5, StillRight DEF Current, Index
<1> QED
  BY <1>3, <1>4, <1>6 DEF IInv, ResultsRight

LEMMA NextInv == ASSUME Compiled PROVE IInv /\ [QuadNext]_quadVars => IInv'
<1> SUFFICES ASSUME IInv, [QuadNext]_quadVars PROVE IInv'
  OBVIOUS
<1>1. CASE UNCHANGED quadVars
  BY <1>1 DEF quadVars, IInv, TypeOK, PlaceRight, ResultsRight, HalfRight, Current, Right, RightFor,
     FloatBlock, mask0, mask1, mask2, Testing, Delta, A, B, C, Sign, LargeRoot, SmallRoot,
     DoubleRoot, Quotient
<1> QED
  BY <1>1, ScalarInv, AVXInv, SIMDInv, FinishInv, NextRunInv DEF QuadNext, Done

-----------------------------------------------------------------------------
(* The properties of what the invariant describes.                         *)

LEMMA CurrentInIndex == Current \subseteq Index
  BY DEF Current

LEMMA InvTwoRoots == IInv => TwoRootsSolve
<1> SUFFICES ASSUME IInv, NEW x \in Current, roots[x] = 2
             PROVE  Solves(x, x1[x]) /\ Solves(x, x2[x]) /\ ~SameValue(x1[x], x2[x])
  BY DEF TwoRootsSolve
<1>1. TypeOK /\ x \in Index /\ Right(x)
  BY CurrentInIndex DEF IInv, ResultsRight
<1>2. Delta(x) > 0
  BY <1>1, Equation DEF Right, RightFor
<1>3. \/ x1[x] = LargeRoot(x, Delta(x)) /\ x2[x] = SmallRoot(x, Delta(x))
      \/ x1[x] = SmallRoot(x, Delta(x)) /\ x2[x] = LargeRoot(x, Delta(x))
  BY <1>1 DEF Right, RightFor
<1> QED
  BY <1>1, <1>2, <1>3, LargeRootSolves, SmallRootSolves, TwoRootsDiffer

LEMMA InvCount == IInv => CountRight
<1> SUFFICES ASSUME IInv, NEW x \in Current
             PROVE  /\ roots[x] = 0 <=> Delta(x) < 0
                    /\ roots[x] = 2 => Delta(x) >= Eps
                    /\ roots[x] = 1 => Delta(x) <= Eps
  BY DEF CountRight, Delta
<1>1. TypeOK /\ x \in Index /\ Right(x)
  BY CurrentInIndex DEF IInv, ResultsRight
<1> QED
  BY <1>1, Equation DEF Right, RightFor

LEMMA InvSingle == IInv => SingleRoot
<1> SUFFICES ASSUME IInv, NEW x \in Current, roots[x] = 1
             PROVE  /\ x1[x] = x2[x]
                    /\ x1[x].num[1] * A(x) * 2 = -B(x) * x1[x].den[1]
                    /\ x1[x].num[2] = 0 /\ x1[x].den[2] = 0
  BY DEF SingleRoot
<1>1. TypeOK /\ x \in Index /\ Right(x)
  BY CurrentInIndex DEF IInv, ResultsRight
<1>2. x1[x] = DoubleRoot(x) /\ x2[x] = DoubleRoot(x)
  BY <1>1 DEF Right, RightFor
<1> QED
  BY <1>1, <1>2, Equation DEF DoubleRoot, Quotient

-----------------------------------------------------------------------------
LEMMA Invariant == ASSUME Compiled PROVE QuadSpec => []IInv
  BY InitInv, NextInv, PTL DEF QuadSpec

\* Every variable keeps its type: no kernel writes beyond the arrays, and the
\* counts are at most 2 (bench/quadratic.cc:25-166).
THEOREM TypeCorrect == ASSUME Compiled PROVE QuadSpec => []TypeOK
<1>1. IInv => TypeOK
  BY DEF IInv
<1> QED
  BY <1>1, Invariant, PTL

\* Whatever the coefficients, each kernel reports two roots only with two
\* different solutions in its arrays (bench/quadratic.cc:25-166).
THEOREM TwoRoots == ASSUME Compiled PROVE QuadSpec => []TwoRootsSolve
  BY Invariant, InvTwoRoots, PTL

\* and the right number of roots, of every equation of every block
\* (bench/quadratic.cc:25-166).
THEOREM Counts == ASSUME Compiled PROVE QuadSpec => []CountRight
  BY Invariant, InvCount, PTL

\* A single root is in both arrays, and is -b/2a (bench/quadratic.cc:25-166).
THEOREM OneRoot == ASSUME Compiled PROVE QuadSpec => []SingleRoot
  BY Invariant, InvSingle, PTL
=============================================================================
