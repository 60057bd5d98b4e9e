----------------------------- MODULE QuadSolve -----------------------------
(***************************************************************************)
(* bench/quadratic.cc: the roots of N quadratic equations, solved by each  *)
(* kernel in turn into the same arrays x1, x2 and roots.                   *)
(*                                                                         *)
(* Arithmetic is exact: a value is a quotient of numbers p + q*sqrt(rad)   *)
(* with integers p and q.  Rounding is not modelled, except that epsilon   *)
(* stays a positive threshold: discriminants 0 < delta < Eps occur.        *)
(***************************************************************************)
EXTENDS Integers, Sequences

CONSTANTS
  N,          \* kN, the number of equations
  FloatLanes, \* lanes of Float_v
  IntLanes,   \* lanes of Int32_v: fewer on a processor with AVX but not AVX2
  Coef,       \* the equations <<a, b, c>> considered
  Eps,        \* NumericLimits<float>::Epsilon()
  NRuns,      \* kNruns
  Fma,        \* whether __FMA__ is defined
  Kernels     \* the kernels compiled in, in main's order

KernelNames == {"QuadSolve", "QuadSolveOptimized", "QuadSolveAVX", "QuadSolveSIMD"}

ASSUME QuadAssumption ==
  /\ FloatLanes \in Nat \ {0} /\ N \in Nat \ {0} /\ N % FloatLanes = 0
  /\ IntLanes \in 1 .. FloatLanes
  /\ Coef \subseteq (Int \ {0}) \X Int \X Int
  /\ Eps \in Nat \ {0} /\ NRuns \in Nat \ {0} /\ Fma \in BOOLEAN
  /\ Kernels \in Seq(KernelNames) \ {<<>>}

Index == 0 .. N - 1

VARIABLES
  coef,          \* a[i], b[i], c[i]
  x1, x2, roots, \* the results
  test,          \* the kernel being timed: an index of Kernels
  run,           \* n
  eq,            \* the first equation not yet begun in this run
  half           \* "begin", or "mask1" inside QuadSolveSIMD

quadVars == <<coef, x1, x2, roots, test, run, eq, half>>

A(x) == coef[x][1]
B(x) == coef[x][2]
C(x) == coef[x][3]

-----------------------------------------------------------------------------
(***************************************************************************)
(* Numbers <<p, q>>, for p + q*sqrt(rad), and their quotients.             *)
(***************************************************************************)
Times(u, v, rad) ==
  <<u[1] * v[1] + u[2] * v[2] * rad, u[1] * v[2] + u[2] * v[1]>>
Plus(u, v)  == <<u[1] + v[1], u[2] + v[2]>>
Scale(s, u) == <<s * u[1], s * u[2]>>

\* p + q*sqrt(rad) = 0, for rad >= 0
IsZero(u, rad) == u[1] * u[1] = u[2] * u[2] * rad /\ u[1] * u[2] <= 0

Quotient(n, d, rad) == [num |-> n, den |-> d, rad |-> rad]
Zero == Quotient(<<0, 0>>, <<1, 0>>, 0)

SameValue(v, w) ==
  /\ ~IsZero(v.den, v.rad) /\ ~IsZero(w.den, w.rad)
  /\ IsZero(Plus(Times(v.num, w.den, v.rad), Scale(-1, Times(w.num, v.den, v.rad))), v.rad)

-----------------------------------------------------------------------------
(***************************************************************************)
(* The kernels.                                                            *)
(***************************************************************************)
Delta(x) == B(x) * B(x) - 4 * A(x) * C(x)

\* QuadSolveAVX subtracts -4ac unless the fused instruction is available.
DeltaAVX(x) == IF Fma THEN Delta(x) ELSE B(x) * B(x) - (-4) * A(x) * C(x)

Sign(x) == IF B(x) >= 0 THEN 1 ELSE -1

\* -0.5 * (b + sign*sqrt(delta)) / a
LargeRoot(x, d) == Quotient(<<-B(x), -Sign(x)>>, <<2 * A(x), 0>>, d)

\* Mutant: c is divided by x1 after a_inv has been multiplied to it.
SmallRootTimesA(x, d) == Quotient(<<2 * A(x) * C(x), 0>>, <<-B(x), -Sign(x)>>, d)

\* c / (-0.5 * (b + sign*sqrt(delta))), which is c / (a * LargeRoot)
SmallRoot(x, d) == Quotient(<<2 * C(x), 0>>, <<-B(x), -Sign(x)>>, d)

\* -0.5 * b / a
DoubleRoot(x) == Quotient(<<-B(x), 0>>, <<2 * A(x), 0>>, 0)

\* What a kernel leaves in x1[x], x2[x] and roots[x].
Solved(r1, r2, count) == [x1 |-> r1, x2 |-> r2, roots |-> count]

Naive(x) ==
  LET d == Delta(x) IN
  CASE d < 0              -> Solved(x1[x], x2[x], 0)
    [] d >= 0 /\ d < Eps  -> Solved(DoubleRoot(x), DoubleRoot(x), 1)
    [] OTHER              -> IF B(x) >= 0
                               THEN Solved(LargeRoot(x, d), SmallRoot(x, d), 2)
                               ELSE Solved(SmallRoot(x, d), LargeRoot(x, d), 2)

\* Mutant: the single root is assigned to x1 only.
OptimizedOneArray(x) ==
  LET d == Delta(x) IN
  CASE d > Eps              -> Solved(LargeRoot(x, d), SmallRoot(x, d), 2)
    [] d < 0                -> Solved(x1[x], x2[x], 0)
    [] d >= 0 /\ d <= Eps   -> Solved(DoubleRoot(x), x2[x], 1)

Optimized(x) ==
  LET d == Delta(x) IN
  CASE d > Eps              -> Solved(LargeRoot(x, d), SmallRoot(x, d), 2)
    [] d < 0                -> Solved(x1[x], x2[x], 0)
    [] d >= 0 /\ d <= Eps   -> Solved(DoubleRoot(x), DoubleRoot(x), 1)

\* The blends: mask2 selects two roots, mask0 zeroes what it does not.
AVX(x) ==
  LET d == DeltaAVX(x) IN
  CASE d < 0              -> Solved(Zero, Zero, 0)
    [] d >= 0 /\ d < Eps  -> Solved(DoubleRoot(x), DoubleRoot(x), 1)
    [] OTHER              -> Solved(LargeRoot(x, d), SmallRoot(x, d), 2)

QuadInit ==
  /\ coef \in [Index -> Coef]
  /\ x1 = [x \in Index |-> Zero]
  /\ x2 = [x \in Index |-> Zero]
  /\ roots = [x \in Index |-> 0]
  /\ test = 1 /\ run = 1 /\ eq = 0
  /\ half = "begin"

Testing(k) == test <= Len(Kernels) /\ Kernels[test] = k /\ eq < N

Put(S, F(_)) ==
  /\ x1' = [x \in Index |-> IF x \in S THEN F(x).x1 ELSE x1[x]]
  /\ x2' = [x \in Index |-> IF x \in S THEN F(x).x2 ELSE x2[x]]
  /\ roots' = [x \in Index |-> IF x \in S THEN F(x).roots ELSE roots[x]]

\* One iteration of a scalar test's loop.
SolveScalar ==
  /\ \/ Testing("QuadSolve") /\ Put({eq}, Naive)
     \/ Testing("QuadSolveOptimized") /\ Put({eq}, Optimized)
  /\ eq' = eq + 1
  /\ UNCHANGED <<coef, test, run, half>>

FloatBlock == eq .. eq + FloatLanes - 1

SolveAVX ==
  /\ Testing("QuadSolveAVX")
  /\ Put(FloatBlock, AVX)
  /\ eq' = eq + FloatLanes
  /\ UNCHANGED <<coef, test, run, half>>

mask0 == {x \in FloatBlock : Delta(x) < 0}
mask2 == {x \in FloatBlock : Delta(x) >= Eps}

mask1 == FloatBlock \ (mask2 \cup mask0)

\* The equations whose count is in the Int32_v that QuadSolveSIMD is given, and
\* that a mask of Float_v, reinterpreted as a mask of Int32_v, selects from.
IntBlock == eq .. eq + IntLanes - 1

\* Mutant: the kernel returns when some lane needs no single root.
SolveSIMDLeavesEarly ==
  /\ Testing("QuadSolveSIMD") /\ half = "begin"
  /\ x1' = [x \in Index |-> IF x \in mask2 THEN LargeRoot(x, Delta(x)) ELSE x1[x]]
  /\ x2' = [x \in Index |-> IF x \in mask2 THEN SmallRoot(x, Delta(x)) ELSE x2[x]]
  /\ roots' = [x \in Index |-> IF x \in mask2 \cap IntBlock THEN 2
                               ELSE IF x \in IntBlock THEN 0 ELSE roots[x]]
  /\ IF mask1 # FloatBlock
       THEN eq' = eq + FloatLanes /\ half' = "begin"
       ELSE eq' = eq /\ half' = "mask1"
  /\ UNCHANGED <<coef, test, run>>

\* QuadSolveSIMD up to its early return.
SolveSIMD ==
  /\ Testing("QuadSolveSIMD") /\ half = "begin"
  /\ x1' = [x \in Index |-> IF x \in mask2 THEN LargeRoot(x, Delta(x)) ELSE x1[x]]
  /\ x2' = [x \in Index |-> IF x \in mask2 THEN SmallRoot(x, Delta(x)) ELSE x2[x]]
  /\ roots' = [x \in Index |-> IF x \in mask2 \cap IntBlock THEN 2
                               ELSE IF x \in IntBlock THEN 0 ELSE roots[x]]
  /\ IF mask1 = {}
       THEN eq' = eq + FloatLanes /\ half' = "begin"
       ELSE eq' = eq /\ half' = "mask1"
  /\ UNCHANGED <<coef, test, run>>

\* The lanes with a single root.
FinishSIMD ==
  /\ half = "mask1"
  /\ x1' = [x \in Index |-> IF x \in mask1 THEN DoubleRoot(x) ELSE x1[x]]
  /\ x2' = [x \in Index |-> IF x \in mask1 THEN DoubleRoot(x) ELSE x2[x]]
  /\ roots' = [x \in Index |-> IF x \in mask1 \cap IntBlock THEN 1 ELSE roots[x]]
  /\ eq' = eq + FloatLanes /\ half' = "begin"
  /\ UNCHANGED <<coef, test, run>>

\* The end of the loop over i: the next of the kNruns, or the next test.
NextRun ==
  /\ test <= Len(Kernels) /\ eq >= N
  /\ eq' = 0
  /\ IF run < NRuns THEN run' = run + 1 /\ test' = test
                    ELSE run' = 1 /\ test' = test + 1
  /\ UNCHANGED <<coef, x1, x2, roots, half>>

Done == test > Len(Kernels) /\ UNCHANGED quadVars

QuadNext ==
  \/ SolveScalar
  \/ SolveAVX
  \/ SolveSIMD
  \/ FinishSIMD
  \/ NextRun
  \/ Done

QuadSpec == QuadInit /\ [][QuadNext]_quadVars

-----------------------------------------------------------------------------
\* The equations whose results are complete: those already solved in this run,
\* and in a repeated run those solved in the last one, but for the block being
\* redone.
Current ==
  IF test > Len(Kernels) THEN Index
  ELSE {x \in Index : \/ x < eq
                      \/ x >= eq /\ run > 1 /\ ~(half = "mask1" /\ x \in FloatBlock)}

\* v satisfies a*v^2 + b*v + c = 0.
Solves(x, v) ==
  LET nn == Times(v.num, v.num, v.rad)
      nd == Times(v.num, v.den, v.rad)
      dd == Times(v.den, v.den, v.rad)
  IN  /\ ~IsZero(v.den, v.rad)
      /\ IsZero(Plus(Plus(Scale(A(x), nn), Scale(B(x), nd)), Scale(C(x), dd)), v.rad)

\* Two roots are reported as two different solutions of the equation.
TwoRootsSolve ==
  \A x \in Current : roots[x] = 2 =>
    /\ Solves(x, x1[x]) /\ Solves(x, x2[x])
    /\ ~SameValue(x1[x], x2[x])

\* Every kernel reports the number of real roots; discriminants below epsilon
\* count as zero, and only at epsilon itself may the kernels differ.
CountRight ==
  \A x \in Current :
    LET d == B(x) * B(x) - 4 * A(x) * C(x) IN
      /\ roots[x] = 0 <=> d < 0
      /\ roots[x] = 2 => d >= Eps
      /\ roots[x] = 1 => d <= Eps

\* A single root is stored in both arrays, also by the kernel that writes its
\* lanes after the early return, whatever an earlier kernel had left there.
SingleRoot ==
  \A x \in Current : roots[x] = 1 =>
    /\ x1[x] = x2[x]
    /\ x1[x].num[1] * A(x) * 2 = -B(x) * x1[x].den[1]
    /\ x1[x].num[2] = 0 /\ x1[x].den[2] = 0
=============================================================================
