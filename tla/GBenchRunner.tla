---------------------------- MODULE GBenchRunner ----------------------------
(***************************************************************************)
(* RunSpecifiedBenchmarks of Google benchmark: the families are            *)
(* registered, the instances found, and every repetition of every instance *)
(* is run by its BenchmarkRunner, which warms up, estimates how many       *)
(* iterations it needs, and reports when its last repetition is done       *)
(* (builtins/benchmark/src/{benchmark,benchmark_runner,benchmark_register, *)
(* statistics,complexity}.cc).                                             *)
(*                                                                         *)
(* What DoNIterations returns is any of Outcomes, with any time; times are *)
(* natural numbers.  A statistic and a Big-O are the runs they are over.   *)
(***************************************************************************)
EXTENDS GBenchRegister, GBenchOutcome

CONSTANTS
  Sessions,         \* what the program registers and the flags it is given
  Times,            \* the times a DoNIterations may take
  kMaxIterations,
  kDefaultMinTime

\* What the flags and the members of a Benchmark may be.
LegalSession(s) ==
  /\ {s.minTime, s.warmUp, s.iters, s.repetitions} \subseteq Nat
  /\ s.families \in Seq(Range(s.families)) /\ s.families # <<>>
  /\ \A f \in Range(s.families) :
       /\ {f.minTime, f.iterations, f.repetitions} \subseteq Nat
       /\ f.warmUp \in Int /\ f.batch \in Nat \ {0} /\ f.complexity \in BOOLEAN
       /\ f.calls \in Seq(Range(f.calls)) /\ LegalCalls(f.calls)
       \* whether its function gives SetComplexityN a number above 0
       /\ f.sizes \in SUBSET BOOLEAN \ {{}}

ASSUME RunnerAssumption ==
  /\ kMaxIterations \in Nat \ {0} /\ kDefaultMinTime \in Nat \ {0}
  /\ Times \subseteq Nat
  /\ \A s \in Sessions : LegalSession(s)

VARIABLES
  session,   \* a member of Sessions
  families,  \* families_: what the calls have built so far
  runners,   \* runners: one BenchmarkRunner for each instance
  order,     \* repetition_indices, from the next one on
  current,   \* the runner at work
  result,    \* the Result of its last DoNIterations, and if it has a complexity_n
  perFamily, \* per_family_reports
  log,       \* what each reporter has been given: "display" and "file"
  pc         \* "register", "find", "create", "next", "warm", "measure",
             \* "record", "report", or how it ended: "done", "aborted" by an
             \* assertion, "undefined" when a null or dangling pointer is read

vars == <<session, families, runners, order, current, result, perFamily, log, pc>>

Ended == {"done", "aborted", "undefined"}

NoResult == [skipped |-> FALSE, iterations |-> 0, sized |-> FALSE]

Init ==
  /\ session \in Sessions
  /\ families = <<>> /\ runners = <<>> /\ order = <<>>
  /\ current = 0 /\ result = NoResult
  /\ perFamily = <<>>
  /\ log = [to \in session.reporters |-> <<>>]
  /\ pc = "register"

\* An assertion of the library; BM_CHECK and assert are void under NDEBUG.
Checked(holds, then) == IF holds \/ session.ndebug THEN then ELSE "aborted"

-----------------------------------------------------------------------------
\* The static initialisers that register the families, in their order.
Register ==
  /\ pc = "register"
  /\ LET f == session.families[Len(families) + 1]
     IN  families' = Append(families, [Build(f.calls) EXCEPT !.disabled = f.disabled])
  /\ pc' = IF Len(families') = Len(session.families) THEN "find" ELSE pc
  /\ UNCHANGED <<session, runners, order, current, result, perFamily, log>>

Options(i) == session.families[i.of]

MinTime(i) ==
  IF Options(i).minTime # 0 THEN Options(i).minTime
  ELSE IF session.iters # 0 THEN kDefaultMinTime ELSE session.minTime

MinWarmUpTime(i) ==
  IF Options(i).minTime # 0 /\ Options(i).warmUp > 0 THEN Options(i).warmUp
  ELSE session.warmUp

Explicit(i) == Options(i).iterations # 0 \/ session.iters # 0

\* Whether a reporter is to be given the aggregates only.
AggregatesOnly(i, to) ==
  IF Options(i).mode # {} THEN to \in Options(i).mode
  ELSE session.aggregates = "report" \/ (session.aggregates = "display" /\ to = "display")

\* The constructor of BenchmarkRunner.
NewRunner(i) ==
  [i |-> i, warm |-> MinWarmUpTime(i) = 0,
   repeats |-> IF Options(i).repetitions # 0 THEN Options(i).repetitions
               ELSE session.repetitions,
   iters |-> IF Options(i).iterations # 0 THEN Options(i).iterations
             ELSE IF session.iters # 0 THEN session.iters ELSE 1,
   runs |-> <<>>]

\* No benchmark, or a list of them, ends the call here.
Find ==
  /\ pc = "find"
  /\ LET found == FindBenchmarks(families, session.filter)
     IN  /\ runners' = [k \in DOMAIN found |-> NewRunner(found[k])]
         /\ pc' = IF found = <<>> \/ session.list THEN "done" ELSE "create"
  /\ UNCHANGED <<session, families, order, current, result, perFamily, log>>

\* The runs of a family that has a complexity to compute.
Complexity(i) == Options(i).complexity

Repeats == [r \in DOMAIN runners |-> runners[r].repeats]

\* The repetitions one after the other, or shuffled.
Create ==
  /\ pc = "create"
  /\ \E indices \in [1 .. SumFunction(Repeats) -> DOMAIN runners] :
       /\ \A r \in DOMAIN runners :
            Cardinality({k \in DOMAIN indices : indices[k] = r}) = Repeats[r]
       /\ \/ session.interleave
          \/ \A k, m \in DOMAIN indices : k <= m => indices[k] <= indices[m]
       /\ order' = indices
  /\ perFamily' =
       [f \in {runners[r].i.family : r \in {q \in DOMAIN runners : Complexity(runners[q].i)}} |->
          [total |-> SumFunctionOnSet(Repeats, {r \in DOMAIN runners : runners[r].i.family = f}),
           done |-> 0, runs |-> <<>>]]
  /\ pc' = "next"
  /\ UNCHANGED <<session, families, runners, current, result, log>>

-----------------------------------------------------------------------------
Begin ==
  /\ pc = "next" /\ order # <<>>
  /\ current' = Head(order) /\ order' = Tail(order)
  /\ pc' = IF runners[Head(order)].warm THEN "measure" ELSE "warm"
  /\ UNCHANGED <<session, families, runners, result, perFamily, log>>

\* Mutant: the estimate is not pushed beyond the iterations already run.
PredictAgain(iters, seconds, apply) ==
  LET next == IF 10 * seconds > apply
                THEN (28 * apply * iters + 10 * seconds) \div (20 * seconds) ELSE 10 * iters
  IN  Min({next, kMaxIterations})

\* PredictNumItersNeeded, 1.4 * apply / seconds times as many, or 10 times.
PredictNumItersNeeded(iters, seconds, apply) ==
  LET next == IF 10 * seconds > apply
                THEN (28 * apply * iters + 10 * seconds) \div (20 * seconds) ELSE 10 * iters
  IN  Min({Max({next, iters + 1}), kMaxIterations})

\* What one DoNIterations of the runner r, between Setup and Teardown, returns:
\* the IterationResults, with the iterations of one thread.
IterationResults(r) ==
  {x \in {[outcome |-> o, iters |-> o.iterations \div r.i.threads, seconds |-> s, real |-> t] :
            o \in Outcomes(r.iters, r.i.threads, Options(r.i).batch), s, t \in Times} :
     Options(r.i).clock = "real" => x.seconds = x.real}

ShouldReportIterationResults(i, x, apply) ==
  \/ x.outcome.skipped
  \/ x.iters >= kMaxIterations
  \/ x.seconds >= apply
  \/ x.real >= 5 * apply /\ Options(i).clock # "manual"

\* Mutant: the iterations the warm-up has come to are kept.
FinishWarmUpKeeps(r, first) == [r EXCEPT !.warm = TRUE]

FinishWarmUp(r, first) == [r EXCEPT !.warm = TRUE, !.iters = first]

\* A turn of the loop of RunWarmUp; i_backup is still what NewRunner gave.
Warm ==
  /\ pc = "warm"
  /\ LET r     == runners[current]
         apply == MinWarmUpTime(r.i)
     IN  \E x \in IterationResults(r) :
           LET next == PredictNumItersNeeded(x.iters, x.seconds, apply)
           IN  IF ShouldReportIterationResults(r.i, x, apply)
                 THEN /\ runners' = [runners EXCEPT
                                       ![current] = FinishWarmUp(r, NewRunner(r.i).iters)]
                      /\ pc' = "measure"
                 ELSE /\ runners' = [runners EXCEPT ![current].iters = next]
                      /\ pc' = Checked(next > x.iters, pc)
  /\ UNCHANGED <<session, families, order, current, result, perFamily, log>>

\* A turn of the loop of DoOneRepetition: only the first repetition estimates.
Measure ==
  /\ pc = "measure"
  /\ LET r == runners[current]
     IN  \E x \in IterationResults(r) :
           LET next == PredictNumItersNeeded(x.iters, x.seconds, MinTime(r.i))
           IN  IF \/ r.runs # <<>> \/ Explicit(r.i)
                  \/ ShouldReportIterationResults(r.i, x, MinTime(r.i))
                 THEN /\ \E sized \in Options(r.i).sizes :
                           result' = [skipped |-> x.outcome.skipped,
                                      iterations |-> x.outcome.iterations, sized |-> sized]
                      /\ runners' = runners
                      /\ pc' = "record"
                 ELSE /\ result' = result
                      /\ runners' = [runners EXCEPT ![current].iters = next]
                      /\ pc' = Checked(next > x.iters, pc)
  /\ UNCHANGED <<session, families, order, current, perFamily, log>>

\* Mutant: a skipped run is kept with the others.
TakeAll(reports, run) == [reports EXCEPT !.done = @ + 1, !.runs = Append(@, run)]

\* reports_for_family: every run is counted, and kept unless skipped.
Take(reports, run) ==
  [reports EXCEPT !.done = @ + 1, !.runs = IF run.skipped THEN @ ELSE Append(@, run)]

\* The report of the repetition that has just ended; complexity_n is not copied
\* from one that was skipped.
CreateRunReport(r) ==
  [of |-> current, repetition |-> Len(r.runs), skipped |-> result.skipped,
   iterations |-> result.iterations, sized |-> result.sized /\ ~result.skipped]

\* The end of DoOneRepetition: the report is created and kept.
Record ==
  /\ pc = "record"
  /\ LET r   == runners[current]
         run == CreateRunReport(r)
     IN  /\ runners' = [runners EXCEPT ![current].runs = Append(@, run)]
         /\ perFamily' = IF ~Complexity(r.i) THEN perFamily
                         ELSE [perFamily EXCEPT ![r.i.family] = Take(@, run)]
         /\ pc' = IF Len(r.runs) + 1 # r.repeats THEN "next" ELSE "report"
  /\ result' = NoResult
  /\ UNCHANGED <<session, families, order, current, log>>

-----------------------------------------------------------------------------
\* No two of the runs are equal, as each has another repetition.
Fine(runs) == {run \in Range(runs) : ~run.skipped}

\* ComputeStats: nothing, unless two runs have come through.
ComputeStats(runs) ==
  IF Cardinality(Fine(runs)) < 2 THEN <<>>
  ELSE <<[kind |-> "statistics", of |-> runs[1].of, over |-> Fine(runs)]>>

\* ComputeStats goes through all runs, and asks the first, skipped or not, for
\* the number of iterations and the statistics to compute.
StatsEnd(runs) ==
  IF Cardinality(Fine(runs)) < 2 THEN "next"
  ELSE Checked(\A k \in DOMAIN runs : runs[k].iterations = runs[1].iterations,
              IF runs[1].skipped THEN "undefined" ELSE "next")

\* ComputeBigO: nothing, unless the family has two runs.
ComputeBigO(of, runs) ==
  IF Len(runs) < 2 THEN <<>>
  ELSE <<[kind |-> "BigO", of |-> of, over |-> Range(runs)]>>

\* Mutant: the complexity_n is checked before the number of runs.
BigOEndFirst(runs) ==
  IF runs = <<>> THEN "undefined" ELSE Checked(\A k \in DOMAIN runs : runs[k].sized, "next")

\* ComputeBigO checks the complexity_n of each of them; if none has come
\* through, the caller asks an empty vector for its front.
BigOEnd(runs) ==
  IF Len(runs) < 2 THEN IF runs = <<>> THEN "undefined" ELSE "next"
  ELSE Checked(\A k \in DOMAIN runs : runs[k].sized, "next")

\* memory_results, a vector, has grown since its kth element was pushed, and
\* an earlier report points to where the element was.
Dangles(k, size) == \E n \in k + 1 .. size : n - 1 \in {1, 2, 4, 8}

\* Mutant: the aggregates only, whether there are any or not.
ReportNothing(r, all, to) ==
  (IF AggregatesOnly(r.i, to) THEN <<>>
   ELSE [k \in DOMAIN r.runs |-> [kind |-> "run", of |-> r.runs[k].of,
                                  repetition |-> r.runs[k].repetition]]) \o all

\* report_one: if there are no aggregates, the runs are reported in any case.
Report(r, all, to) ==
  (IF AggregatesOnly(r.i, to) /\ all # <<>> THEN <<>>
   ELSE [k \in DOMAIN r.runs |-> [kind |-> "run", of |-> r.runs[k].of,
                                  repetition |-> r.runs[k].repetition]]) \o all

\* Only the JSON reporter looks at the memory results of the runs it is given.
ReadsMemory(r, all) ==
  /\ session.memory
  /\ \E to \in session.json : ~AggregatesOnly(r.i, to) \/ all = <<>>
  /\ \E k \in DOMAIN r.runs : ~r.runs[k].skipped /\ Dangles(k, Len(r.runs))

\* With this runner all runs of its family are done.
Completes(r) ==
  Complexity(r.i) /\ perFamily[r.i.family].done = perFamily[r.i.family].total

\* The runner has done all its repetitions: GetResults, the Big-O of the
\* family, and Report; any of them may be the last.
Finish ==
  /\ pc = "report"
  /\ LET r   == runners[current]
         f   == r.i.family
         all == ComputeStats(r.runs) \o
                (IF Completes(r) THEN ComputeBigO(current, perFamily[f].runs) ELSE <<>>)
     IN  /\ perFamily' = IF Completes(r) THEN [g \in DOMAIN perFamily \ {f} |-> perFamily[g]]
                         ELSE perFamily
         /\ pc' = IF StatsEnd(r.runs) # "next" THEN StatsEnd(r.runs)
                  ELSE IF Completes(r) /\ BigOEnd(perFamily[f].runs) # "next"
                    THEN BigOEnd(perFamily[f].runs)
                  ELSE IF ReadsMemory(r, all) THEN "undefined" ELSE "next"
         /\ log' = IF pc' # "next" THEN log
                   ELSE [to \in session.reporters |-> log[to] \o Report(r, all, to)]
  /\ UNCHANGED <<session, families, runners, order, current, result>>

\* Finalize.
End ==
  /\ pc = "next" /\ order = <<>>
  /\ pc' = "done"
  /\ UNCHANGED <<session, families, runners, order, current, result, perFamily, log>>

Next ==
  \/ Register \/ Find \/ Create \/ Begin \/ Warm \/ Measure \/ Record \/ Finish \/ End
  \/ pc \in Ended /\ UNCHANGED vars

Spec == Init /\ [][Next]_vars

-----------------------------------------------------------------------------
\* What benchmark.h says of a range: its bounds, and the powers between them,
\* of either sign, in order.
RangeOf(list, lo, hi, mult) ==
  LET power[p \in 1 .. TMax] == p = 1 \/ (p % mult = 0 /\ power[p \div mult])
  IN  /\ \A k \in 1 .. Len(list) - 1 : list[k] < list[k + 1]
      /\ Range(list) = {lo, hi} \cup
           {x \in lo .. hi : x = 0 \/ \E p \in 1 .. TMax : power[p] /\ x \in {p, -p}}

\* Every combination of the lists once, in mixed radix.
ProductOf(args, lists) ==
  LET Size(a) == FoldLeft(LAMBDA n, list : n * Len(list), 1, SubSeq(lists, 1, a))
  IN  /\ Len(args) = Size(Len(lists))
      /\ \A k \in DOMAIN args : args[k] =
           [a \in DOMAIN lists |-> lists[a][(((k - 1) \div Size(a - 1)) % Len(lists[a])) + 1]]

\* The arguments and the thread counts of a registered family are those each
\* of its calls promises, after those of the calls before: no power is lost,
\* doubled or out of order, none beyond the type is reached, and the odometer
\* visits every combination (benchmark_register.h:13-105, benchmark_register.cc
\* 250-281).
ArgumentsRight ==
  \A n \in DOMAIN families : \A k \in DOMAIN session.families[n].calls :
    LET calls   == session.families[n].calls
        c       == calls[k]
        before  == Build(SubSeq(calls, 1, k - 1))
        after   == Build(SubSeq(calls, 1, k))
        args    == SubSeq(families[n].args, Len(before.args) + 1, Len(after.args))
        threads == SubSeq(families[n].threads, Len(before.threads) + 1, Len(after.threads))
    IN  CASE c.call = "Range" ->
               /\ \A j \in DOMAIN args : Len(args[j]) = 1
               /\ RangeOf([j \in DOMAIN args |-> args[j][1]], c.lo, c.hi, before.mult)
          [] c.call = "ArgsProduct" -> ProductOf(args, c.lists)
          [] c.call = "Ranges" ->
               \E lists \in {[j \in DOMAIN c.ranges |-> SelectSeq(
                                [m \in 1 .. 2 * TMax + 1 |-> m - TMax - 1],
                                LAMBDA x : \E a \in Range(args) : a[j] = x)]} :
                 /\ ProductOf(args, lists)
                 /\ \A j \in DOMAIN lists :
                      RangeOf(lists[j], c.ranges[j][1], c.ranges[j][2], before.mult)
          [] c.call = "ThreadRange" -> RangeOf(threads, c.lo, c.hi, 2)
          [] OTHER -> TRUE

\* The warm-up leaves the runner as if it had never happened, but for
\* warmup_done: "Every other manipulation of the BenchmarkRunner instance would
\* be a bug!" (benchmark_runner.cc:443-448).
WarmUpLeavesNoTrace ==
  [][\A r \in DOMAIN runners :
       ~runners[r].warm /\ runners'[r].warm =>
         runners'[r] = [NewRunner(runners[r].i) EXCEPT !.warm = TRUE]]_vars

\* Where the reporter has been given something about the runner r.
Entries(r, kinds, to) ==
  {k \in DOMAIN log[to] : log[to][k].kind \in kinds /\ log[to][k].of = r}

\* Every repetition of the runner r, once and in order; or its aggregates
\* alone, when those were asked for and exist.
Given(r, to) ==
  LET single == Entries(r, {"run"}, to)
      others == Entries(r, {"statistics", "BigO"}, to)
  IN  IF AggregatesOnly(runners[r].i, to) /\ others # {} THEN single = {}
      ELSE \E before \in 0 .. Len(log[to]) :
             /\ single = before + 1 .. before + runners[r].repeats
             /\ \A k \in single : log[to][k].repetition = k - before - 1

\* When the benchmarks are done each reporter has been given what it is to be
\* given of every instance, however they were interleaved (benchmark.cc:335-356,
\* 448-481).
EveryRunReported ==
  pc = "done" /\ ~session.list =>
    \A r \in DOMAIN runners, to \in session.reporters : Given(r, to)

\* The runs of the nth family that came through, and where the reporter has
\* been given a Big-O of it.
CameThrough(n) ==
  UNION {Fine(runners[r].runs) : r \in {q \in DOMAIN runners : runners[q].i.of = n}}
BigOs(n, to) ==
  {k \in DOMAIN log[to] : log[to][k].kind = "BigO" /\ runners[log[to][k].of].i.of = n}

\* One Big-O, over the runs that came through, if there are two.
Computed(n, to) ==
  IF session.families[n].complexity /\ Cardinality(CameThrough(n)) > 1
    THEN \E k \in DOMAIN log[to] : BigOs(n, to) = {k} /\ log[to][k].over = CameThrough(n)
    ELSE BigOs(n, to) = {}

\* The Big-O of a family that wants one is computed once, over all runs of all
\* its instances that came through and over no other, whichever of them is the
\* last (benchmark.cc:466-476, benchmark_runner.cc:504-508).
ComplexityOnce ==
  pc = "done" /\ ~session.list =>
    \A n \in DOMAIN families, to \in session.reporters : Computed(n, to)

\* What the reporters are told of a session is complete, and nothing twice.
ReportsRight == EveryRunReported /\ ComplexityOnce

\* Two repetitions came through, and another, which skipped, has run otherwise.
UnevenSkip(runs) ==
  /\ Cardinality(Fine(runs)) > 1
  /\ \E k, m \in DOMAIN runs :
       runs[k].skipped /\ ~runs[m].skipped /\ runs[k].iterations # runs[m].iterations

\* Two came through, but not the first, which alone brings the statistics.
FirstSkipped(runs) == Cardinality(Fine(runs)) > 1 /\ runs[1].skipped

\* All repetitions of a family with a Big-O are done.
FamilyOver(n) ==
  /\ session.families[n].complexity
  /\ \A r \in DOMAIN runners : runners[r].i.of = n => Len(runners[r].runs) = runners[r].repeats

\* A Big-O is due over runs of which one has no complexity_n, or over none.
Unsized(n) ==
  FamilyOver(n) /\ Cardinality(CameThrough(n)) > 1 /\ \E run \in CameThrough(n) : ~run.sized
NoneCame(n) == FamilyOver(n) /\ CameThrough(n) = {}

\* The JSON reporter is to show the memory of a run whose results have moved.
MemoryMoved(runs) ==
  /\ session.memory /\ session.json # {}
  /\ \E k \in DOMAIN runs : ~runs[k].skipped /\ Dangles(k, Len(runs))

\* A session fails in the known ways and in no other.  It is aborted, if
\* assertions are compiled in, by a repetition that skipped unlike the others
\* or by a Big-O over a run without complexity_n; it reads what is undefined
\* when the first repetition skipped, when no run of a family came through, or
\* through a pointer to moved memory results.  In particular every estimate
\* asks for more than has been run, and runs that come through have run alike
\* (benchmark_runner.cc:376-378, 405-408, 479-481, statistics.cc:137-141,
\* complexity.cc:169, benchmark.cc:473-474).
FailsOnlyAsKnown ==
  LET r == runners[current]
  IN  /\ pc = "aborted" => ~session.ndebug /\ (UnevenSkip(r.runs) \/ Unsized(r.i.of))
      /\ pc = "undefined" => FirstSkipped(r.runs) \/ NoneCame(r.i.of) \/ MemoryMoved(r.runs)

\* A benchmark may skip: it is reported as skipped (include/benchmark/
\* benchmark.h:823-826), and the program goes on.  In the code a repetition that
\* skips, beside two that come through, ends it in a failed assertion or a null
\* pointer.
SkipsReported ==
  pc \in {"aborted", "undefined"} =>
    \A k \in DOMAIN runners[current].runs : ~runners[current].runs[k].skipped


\* "If the benchmark is not repeated then the single result is always
\* reported" (include/benchmark/benchmark.h:1244-1245).  The code keeps it back
\* when the benchmark is the last of a family with a Big-O.
SingleAlwaysReported ==
  pc = "done" /\ ~session.list =>
    \A r \in DOMAIN runners, to \in session.reporters :
      runners[r].repeats = 1 => Entries(r, {"run"}, to) # {}
=============================================================================
