--------------------------- MODULE GBenchOutcome ---------------------------
(***************************************************************************)
(* What one execution of a benchmark by all its threads may return to the  *)
(* runner of Google benchmark (builtins/benchmark/src/benchmark_runner.cc  *)
(* DoNIterations).  GBenchThreads shows that the threads return nothing    *)
(* else; GBenchRunner takes the outcome from here.                         *)
(***************************************************************************)
EXTENDS Integers, FiniteSetsExt

\* The iterations that KeepRunningBatch(batch) runs when iters are asked for.
Rounded(iters, batch) == ((iters + batch - 1) \div batch) * batch

\* State::iterations() of one thread that has skipped: none before the loop;
\* in it and after it, all of them, whether they were run or not.
SkippedCounts(iters, batch) == {0, iters, Rounded(iters, batch)}

\* Skipped or not, and the iterations summed over n threads.
Outcomes(iters, n, batch) ==
  {[skipped |-> FALSE, iterations |-> n * Rounded(iters, batch)]} \cup
  {[skipped |-> TRUE, iterations |-> SumFunction(f)] :
     f \in [1 .. n -> SkippedCounts(iters, batch)]}
=============================================================================
