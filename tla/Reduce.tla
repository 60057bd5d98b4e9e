------------------------------- MODULE Reduce -------------------------------
(***************************************************************************)
(* Running extremes and reductions (include/VecCore/VecMath.h, Limits.h,   *)
(* Backend/Implementation.h).  A kernel folds one register after another   *)
(* into an accumulator with Min or Max, which are a comparison and a       *)
(* Blend, and at the end reduces the accumulator to a scalar; or it sums   *)
(* the lanes, or converts them to another type.                            *)
(*                                                                         *)
(* Scalars are small formats with the structure of the real ones: a        *)
(* "signed" integer ranges over -Lim - 1 .. Lim, an "unsigned" one over    *)
(* 0 .. 2 Lim + 1, and a "float" over both, between two infinities, and    *)
(* NaN.  Rounding is left out.                                             *)
(***************************************************************************)
EXTENDS Integers, FiniteSets

CONSTANTS
  VS,      \* number of lanes
  Lim,     \* the largest signed integer
  Inputs,  \* the scalars that registers are filled with, of each type
  MaxOps   \* bound on the number of folds and conversions

Lane == 0 .. VS - 1
Word == 2 * Lim + 2       \* number of integers of a kind
Inf  == Word              \* beyond every finite value of every kind
NaN  == Word + 1


\* NumericLimits<T>::Lowest and Max.
Lowest(k)  == CASE k = "float"    -> 1 - Word
                [] k = "signed"   -> -Lim - 1
                [] k = "unsigned" -> 0
Highest(k) == IF k = "signed" THEN Lim ELSE Word - 1

Finite(k) == Lowest(k) .. Highest(k)
Values(k) == Finite(k) \cup (IF k = "float" THEN {-Inf, Inf, NaN} ELSE {})

Kinds    == DOMAIN Inputs
RegistersOf(k) == [Lane -> Inputs[k]]

\* Assumed by the modules that give the constants their values.
ReduceAssumption ==
  /\ VS \in Nat \ {0}
  /\ Lim \in Nat \ {0}
  /\ Kinds \subseteq {"float", "signed", "unsigned"}
  /\ \A k \in Kinds : Inputs[k] \subseteq Values(k)
  /\ MaxOps \in Nat

\* C++'s comparison: false if an operand is not a number.
Less(x, y) == x # NaN /\ y # NaN /\ x < y

\* x precedes y in the order of the mode: less for Min, greater for Max.
Before(mode, x, y) == IF mode = "Min" THEN Less(x, y) ELSE Less(y, x)

\* One lane of Min(a, b) = Blend(a < b, a, b), Max(a, b) = Blend(a > b, a, b).
Pick(mode, x, y) == IF Before(mode, x, y) THEN x ELSE y

\* One lane of Min(a, Min(b, c)) or of Max(a, Max(b, c)).
PickThree(mode, x, y, z) == Pick(mode, x, Pick(mode, y, z))

\* Mutant: unsigned addition saturates.
SumSaturates(k, x, y) ==
  IF k = "unsigned" /\ x + y >= Word THEN {Word - 1} ELSE {(x + y) % Word}

\* The values that x + y may have: signed overflow is undefined, so it may be
\* anything; unsigned addition wraps; a float too large becomes infinite.
Sum(k, x, y) ==
  CASE k = "unsigned" -> {(x + y) % Word}
    [] k = "signed"   -> IF x + y \in Finite(k) THEN {x + y} ELSE Finite(k)
    [] OTHER ->
         {IF NaN \in {x, y} \/ (x \in {-Inf, Inf} /\ y = -x) THEN NaN
          ELSE IF x \in {-Inf, Inf} THEN x
          ELSE IF y \in {-Inf, Inf} THEN y
          ELSE IF x + y >= Inf  THEN Inf
          ELSE IF x + y <= -Inf THEN -Inf ELSE x + y}

\* The values that a scalar may have after conversion to kind k: a float that
\* does not fit an integer is undefined, an integer that does not fit an
\* unsigned one wraps, and wraps too for a signed one.
Cast(from, k, x) ==
  IF from = k \/ x \in Finite(k) THEN {x}
  ELSE IF from = "float" THEN Finite(k)
  ELSE IF k = "unsigned" THEN {x % Word} ELSE {x - Word}

-----------------------------------------------------------------------------
VARIABLES
  mode,    \* which extreme the kernel is after
  kind,    \* the type of the accumulator's lanes
  acc,     \* the accumulator
  live,    \* per lane, the values folded in since NaN last wiped them out
  op,      \* the reduction or conversion under way, or "none"
  target,  \* the kind a conversion goes to
  lane,    \* its loop counter i
  result,  \* its local result
  out,     \* Convert's local register
  ops      \* folds and conversions so far

vars == <<mode, kind, acc, live, op, target, lane, result, out, ops>>

Reductions == {"ReduceAdd", "ReduceExtreme"}
Numbers(S) == S \ {NaN}

Init ==
  /\ mode \in {"Min", "Max"}
  /\ kind \in Kinds
  /\ acc \in RegistersOf(kind)
  /\ live = [i \in Lane |-> Numbers({acc[i]})]
  /\ op = "none" /\ target = kind /\ lane = 0 /\ result = 0 /\ ops = 0
  /\ out = [i \in Lane |-> 0]

\* acc = Min(acc, b).
Fold ==
  /\ op = "none" /\ ops < MaxOps
  /\ \E b \in RegistersOf(kind) :
       /\ acc' = [i \in Lane |-> Pick(mode, acc[i], b[i])]
       /\ live' = [i \in Lane |->
                     IF b[i] = NaN THEN {} ELSE live[i] \cup {b[i]}]
  /\ ops' = ops + 1
  /\ UNCHANGED <<mode, kind, op, target, lane, result, out>>

\* acc = Min(acc, b, c): a NaN in b is skipped, one in c wipes out all.
FoldTwo ==
  /\ op = "none" /\ ops < MaxOps
  /\ \E b, c \in RegistersOf(kind) :
       /\ acc' = [i \in Lane |-> PickThree(mode, acc[i], b[i], c[i])]
       /\ live' = [i \in Lane |->
                     IF c[i] = NaN THEN {} ELSE live[i] \cup Numbers({b[i], c[i]})]
  /\ ops' = ops + 1
  /\ UNCHANGED <<mode, kind, op, target, lane, result, out>>

\* Mutant: a maximum starts from the smallest positive number, as with
\* std::numeric_limits<float>::min().
IdentityFromMin(o, m, k) ==
  IF o = "ReduceAdd" THEN 0
  ELSE IF m = "Min" THEN Highest(k) ELSE IF k = "float" THEN 1 ELSE Lowest(k)

\* The initial value of the local `result' of ReduceAdd, ReduceMin, ReduceMax.
Identity(o, m, k) ==
  IF o = "ReduceAdd" THEN 0
  ELSE IF m = "Min" THEN Highest(k) ELSE Lowest(k)

StartReduce(o) ==
  /\ op = "none"
  /\ op' = o /\ lane' = 0
  /\ result' = Identity(o, mode, kind)
  /\ UNCHANGED <<mode, kind, acc, live, target, out, ops>>

AddLane ==
  /\ op = "ReduceAdd" /\ lane < VS
  /\ result' \in Sum(kind, result, acc[lane])
  /\ lane' = lane + 1
  /\ UNCHANGED <<mode, kind, acc, live, op, target, out, ops>>

ExtremeLane ==
  /\ op = "ReduceExtreme" /\ lane < VS
  /\ result' = IF Before(mode, acc[lane], result) THEN acc[lane] ELSE result
  /\ lane' = lane + 1
  /\ UNCHANGED <<mode, kind, acc, live, op, target, out, ops>>

EndReduce ==
  /\ op \in Reductions /\ lane = VS
  /\ op' = "none" /\ lane' = 0 /\ result' = 0
  /\ UNCHANGED <<mode, kind, acc, live, target, out, ops>>

\* out is uninitialised when Convert begins.
StartConvert(k) ==
  /\ op = "none" /\ ops < MaxOps
  /\ op' = "Convert" /\ target' = k /\ lane' = 0 /\ ops' = ops + 1
  /\ \E x \in Finite(k) : out' = [i \in Lane |-> x]
  /\ UNCHANGED <<mode, kind, acc, live, result>>

ConvertLane ==
  /\ op = "Convert" /\ lane < VS
  /\ \E x \in Cast(kind, target, acc[lane]) : out' = [out EXCEPT ![lane] = x]
  /\ lane' = lane + 1
  /\ UNCHANGED <<mode, kind, acc, live, op, target, result, ops>>

\* The converted register becomes the accumulator: a value that the new type
\* can hold stands for itself, another one for what it was converted to.
EndConvert ==
  /\ op = "Convert" /\ lane = VS
  /\ acc' = out /\ kind' = target
  /\ live' = [i \in Lane |->
                Numbers(IF acc[i] \in Finite(target) THEN {acc[i]} ELSE {out[i]})]
  /\ op' = "none" /\ lane' = 0
  /\ UNCHANGED <<mode, target, result, out, ops>>

Next ==
  \/ Fold \/ FoldTwo
  \/ \E o \in Reductions : StartReduce(o)
  \/ AddLane \/ ExtremeLane \/ EndReduce
  \/ \E k \in Kinds : StartConvert(k)
  \/ ConvertLane \/ EndConvert

Spec == Init /\ [][Next]_vars

-----------------------------------------------------------------------------
\* x is the extreme of S.
Extreme(x, S) == x \in S /\ \A y \in S : ~Before(mode, y, x)

\* ReduceMin and ReduceMax return the extreme of everything folded into any
\* lane and not wiped out by a NaN that came after it as the last operand: Min
\* and Max keep the second operand unless the comparison holds, so a NaN met in
\* another operand is skipped (VecMath.h:71-104).  If nothing is left, or only
\* the infinity on the wrong side, they return the largest (lowest) finite
\* value, which is in no lane (Implementation.h:306-326).  A conversion on the
\* way keeps every value that the new type can hold (Implementation.h:328).
ExtremeOfAll ==
  op = "ReduceExtreme" /\ lane = VS =>
    LET All   == UNION {live[i] : i \in Lane}
        last == IF mode = "Min" THEN Highest(kind) ELSE Lowest(kind)
    IN  IF \E x \in All : ~Before(mode, last, x) THEN Extreme(result, All)
                                                ELSE result = last

LaneSum[n \in 0 .. VS] == IF n = 0 THEN 0 ELSE LaneSum[n - 1] + acc[n - 1]

\* ReduceAdd (Implementation.h:294-302): an unsigned sum is the sum modulo the
\* word; a signed one is the sum if no partial sum overflows; a finite
\* floating-point sum is the sum, and it has met no infinity and no NaN.
SumRight ==
  op = "ReduceAdd" =>
    CASE kind = "unsigned" -> result = LaneSum[lane] % Word
      [] kind = "signed"   -> (\A n \in 1 .. lane : LaneSum[n] \in Finite(kind))
                                => result = LaneSum[lane]
      [] kind = "float"    -> result \in Finite(kind) => result = LaneSum[lane]

\* Both promises of the reductions (Implementation.h:294-326).
ReductionsRight == ExtremeOfAll /\ SumRight
=============================================================================
