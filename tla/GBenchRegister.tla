--------------------------- MODULE GBenchRegister ---------------------------
(***************************************************************************)
(* How Google benchmark registers a family of benchmarks and finds the     *)
(* instances to run (builtins/benchmark/src/benchmark_register.{h,cc}).    *)
(*                                                                         *)
(* A family is built by a sequence of calls; each call is legal when the   *)
(* BM_CHECKs at its top hold.  Names are abstract: an instance is named by *)
(* its family, its arguments and its threads, and a filter is the set of   *)
(* names that its regular expression matches.                              *)
(***************************************************************************)
EXTENDS Integers, FiniteSetsExt, SequencesExt

CONSTANTS
  TMax,              \* the largest value of the type of an argument
  kRangeMultiplier,  \* range_multiplier_ until RangeMultiplier is called
  NumCpus            \* CPUInfo::Get().num_cpus

ASSUME RegisterAssumption ==
  /\ TMax \in Nat \ {0} /\ NumCpus \in Nat \ {0}
  /\ kRangeMultiplier \in Nat \ {0, 1}

-----------------------------------------------------------------------------
\* AddPowers: i is multiplied only while the product is a value of the type.
AddPowers(lo, hi, mult) ==
  LET from[i \in 1 .. TMax] ==
        (IF i >= lo THEN <<i>> ELSE <<>>) \o
        (IF i > TMax \div mult \/ i * mult > hi THEN <<>> ELSE from[i * mult])
  IN  IF hi < 1 THEN <<>> ELSE from[1]

\* AddNegatedPowers: negated, and in ascending order again.
AddNegatedPowers(lo, hi, mult) ==
  LET powers == AddPowers(-hi, -lo, mult)
  IN  Reverse([k \in DOMAIN powers |-> -powers[k]])

\* Mutant: the lower bound is taken for one of the powers too.
AddRangeOuter(dst, lo, hi, mult) ==
  LET inner == (IF lo < 0 THEN AddNegatedPowers(lo, Min({hi - 1, -1}), mult) ELSE <<>>)
               \o (IF lo < 0 /\ hi >= 0 THEN <<0>> ELSE <<>>)
               \o (IF hi - 1 > 0 THEN AddPowers(Max({lo + 1, 1}), hi - 1, mult) ELSE <<>>)
      most  == Append(dst, lo) \o inner
  IN  IF lo = hi THEN Append(dst, lo)
      ELSE IF Last(most) = hi THEN most ELSE Append(most, hi)

\* AddRange: lo, the powers strictly between, 0 as a power, and hi.
AddRange(dst, lo, hi, mult) ==
  LET negative == IF lo + 1 < 0 THEN AddNegatedPowers(lo + 1, Min({hi - 1, -1}), mult)
                  ELSE <<>>
      zero     == IF lo < 0 /\ hi >= 0 THEN <<0>> ELSE <<>>
      positive == IF hi - 1 > 0 THEN AddPowers(Max({lo + 1, 1}), hi - 1, mult) ELSE <<>>
      inner    == IF lo + 1 = hi THEN <<>> ELSE negative \o zero \o positive
      most     == Append(dst, lo) \o inner
  IN  IF lo = hi THEN Append(dst, lo)
      ELSE IF Last(most) = hi THEN most ELSE Append(most, hi)

\* start, start + step, ... up to limit.
Dense(start, limit, step) ==
  [k \in 1 .. (limit - start) \div step + 1 |-> start + (k - 1) * step]

\* The odometer of ArgsProduct: the first index turns fastest.
ArgsProduct(lists) ==
  LET size[a \in 0 .. Len(lists)] == IF a = 0 THEN 1 ELSE size[a - 1] * Len(lists[a])
      total == size[Len(lists)]
      turns[k \in 0 .. total] ==
        IF k = 0 THEN [a \in DOMAIN lists |-> 0]
        ELSE LET before == turns[k - 1]
                 \* the leading indices that wrap, before one that does not
                 wraps  == {a \in 0 .. Len(lists) :
                              \A b \in 1 .. a : before[b] = Len(lists[b]) - 1}
                 carry  == Max(wraps)
             IN  [a \in DOMAIN lists |-> CASE a <= carry    -> 0
                                           [] a = carry + 1 -> before[a] + 1
                                           [] OTHER         -> before[a]]
  IN  [k \in 1 .. total |-> [a \in DOMAIN lists |-> lists[a][turns[k - 1][a] + 1]]]

-----------------------------------------------------------------------------
\* The members of Benchmark that the calls change, and its name, which may
\* begin with DISABLED_.
NewBenchmark ==
  [args |-> <<>>, argNames |-> 0, threads |-> <<>>, mult |-> kRangeMultiplier,
   disabled |-> FALSE]

\* -1: the number of arguments is still open.
ArgsCnt(f) ==
  IF f.args # <<>> THEN Len(f.args[1]) ELSE IF f.argNames = 0 THEN -1 ELSE f.argNames

Arity(c) ==
  CASE c.call = "Args"        -> Len(c.args)
    [] c.call = "ArgsProduct" -> Len(c.lists)
    [] c.call = "Ranges"      -> Len(c.ranges)
    [] c.call = "ArgNames"    -> c.names
    [] OTHER                  -> 1

\* The bounds, numbers of threads and steps that a call may have.
Bounded(c) ==
  /\ c.call \in {"Range", "DenseRange", "ThreadRange", "DenseThreadRange"} =>
       c.lo \in Int /\ c.hi \in Int /\ c.lo <= c.hi
  /\ c.call \in {"Threads", "ThreadRange", "DenseThreadRange"} => c.lo \in Nat \ {0}
  /\ c.call \in {"DenseRange", "DenseThreadRange"} => c.step \in Nat \ {0}
  /\ c.call = "RangeMultiplier" => c.mult \in Nat \ {0, 1}
  /\ c.call = "ArgNames" => c.names \in Nat
  /\ c.call = "Args" => c.args \in Seq(Int)
  /\ c.call = "ArgsProduct" => c.lists \in Seq(Seq(Int))
  /\ c.call = "Ranges" => /\ c.ranges \in Seq(Int \X Int)
                          /\ \A k \in DOMAIN c.ranges : c.ranges[k][1] <= c.ranges[k][2]

\* The BM_CHECKs of the call.  (Args, Ranges and the like with no list at all
\* pass the checks of a new family; ArgsProduct then reads before its arrays.)
Legal(f, c) ==
  /\ Bounded(c)
  /\ \/ c.call \in {"Threads", "ThreadPerCpu", "ThreadRange", "DenseThreadRange",
                    "RangeMultiplier"}
     \/ /\ c.call \in {"Args", "ArgNames", "ArgsProduct", "Range", "DenseRange", "Ranges"}
        /\ Arity(c) > 0 /\ ArgsCnt(f) \in {-1, Arity(c)}

Singles(list) == [k \in DOMAIN list |-> <<list[k]>>]

\* One call on the family f.
Apply(f, c) ==
  CASE c.call = "Args" -> [f EXCEPT !.args = Append(@, c.args)]
    [] c.call = "ArgNames" -> [f EXCEPT !.argNames = c.names]
    [] c.call = "RangeMultiplier" -> [f EXCEPT !.mult = c.mult]
    [] c.call = "Range" ->
         [f EXCEPT !.args = @ \o Singles(AddRange(<<>>, c.lo, c.hi, f.mult))]
    [] c.call = "DenseRange" -> [f EXCEPT !.args = @ \o Singles(Dense(c.lo, c.hi, c.step))]
    [] c.call = "Ranges" ->
         [f EXCEPT !.args = @ \o ArgsProduct([k \in DOMAIN c.ranges |->
                              AddRange(<<>>, c.ranges[k][1], c.ranges[k][2], f.mult)])]
    [] c.call = "ArgsProduct" -> [f EXCEPT !.args = @ \o ArgsProduct(c.lists)]
    [] c.call = "Threads" -> [f EXCEPT !.threads = Append(@, c.lo)]
    [] c.call = "ThreadRange" -> [f EXCEPT !.threads = AddRange(@, c.lo, c.hi, 2)]
    [] c.call = "DenseThreadRange" ->
         [f EXCEPT !.threads = @ \o (IF c.lo < c.hi THEN Dense(c.lo, c.hi - 1, c.step)
                                     ELSE <<>>) \o <<c.hi>>]
    [] c.call = "ThreadPerCpu" -> [f EXCEPT !.threads = Append(@, NumCpus)]

\* A family after all calls on it.
Build(calls) ==
  LET built[k \in 0 .. Len(calls)] ==
        IF k = 0 THEN NewBenchmark ELSE Apply(built[k - 1], calls[k])
  IN  built[Len(calls)]

LegalCalls(calls) ==
  \A k \in DOMAIN calls : Legal(Build(SubSeq(calls, 1, k - 1)), calls[k])

-----------------------------------------------------------------------------
\* name().str() does not begin with DISABLED_, and the filter takes it.
Selected(filter, family, n, args, threads) ==
  /\ ~family.disabled
  /\ (<<n, args, threads>> \in filter.matches) # filter.negative

\* BenchmarkInstance: the nth family, the indices it is reported under, and the
\* arguments and threads it is run with; its options stay with the family.
Instance(n, family, instance, args, threads) ==
  [of |-> n, family |-> family, instance |-> instance, args |-> args, threads |-> threads]

\* What a family is run with; one thread, unless it asks for others.
InputsOf(f) == IF ArgsCnt(f) = -1 THEN <<<<>>>> ELSE f.args
CountsOf(f) == IF f.threads = <<>> THEN <<1>> ELSE f.threads

\* The family, the arguments and the thread count of each instance selected.
Matching(families, filter) ==
  {x \in UNION {{n} \X (DOMAIN InputsOf(families[n])) \X (DOMAIN CountsOf(families[n])) :
                  n \in DOMAIN families} :
     Selected(filter, families[x[1]], x[1], InputsOf(families[x[1]])[x[2]],
              CountsOf(families[x[1]])[x[3]])}

Precedes(x, y) ==
  \/ x[1] < y[1]
  \/ x[1] = y[1] /\ x[2] < y[2]
  \/ x[1] = y[1] /\ x[2] = y[2] /\ x[3] < y[3]

\* FindBenchmarks: the instances, in the order of the families, their
\* arguments and their thread counts.  The index of a family is the number of
\* the families before it that have an instance.
FindBenchmarks(families, filter) ==
  LET all       == Matching(families, filter)
      before(x) == {y \in all : Precedes(y, x)}
      nth(k)    == CHOOSE x \in all : Cardinality(before(x)) = k - 1
      instance(x) ==
        Instance(x[1], Cardinality({y[1] : y \in {z \in all : z[1] < x[1]}}),
                 Cardinality({y \in before(x) : y[1] = x[1]}),
                 InputsOf(families[x[1]])[x[2]], CountsOf(families[x[1]])[x[3]])
  IN  [k \in 1 .. Cardinality(all) |-> instance(nth(k))]
=============================================================================
