------------------------------ MODULE MCGBench ------------------------------
(***************************************************************************)
(* Google benchmark for TLC: the threads of one DoNIterations, or a whole  *)
(* RunSpecifiedBenchmarks that takes what those threads return from        *)
(* Outcomes.                                                               *)
(***************************************************************************)
EXTENDS GBenchRunner, GBenchThreads

VARIABLE part

\* One and two threads, every loop; three threads that all reach one iteration.
MCJobs ==
  {[threads |-> n, iters |-> i, loop |-> "range", batch |-> 1] : n \in 1 .. 2, i \in 1 .. 2}
  \cup {[threads |-> n, iters |-> i, loop |-> "while", batch |-> b] :
          n \in 1 .. 2, i \in 1 .. 2, b \in 1 .. 2}
  \cup {[threads |-> 3, iters |-> 1, loop |-> "while", batch |-> 1]}

-----------------------------------------------------------------------------
\* A family with the given calls and the options of its Benchmark.
Family(calls, iterations, repetitions, complexity, mode) ==
  [calls |-> calls, disabled |-> FALSE, iterations |-> iterations, minTime |-> 0,
   warmUp |-> 0, repetitions |-> repetitions, complexity |-> complexity, mode |-> mode,
   clock |-> "cpu", batch |-> 1, sizes |-> {TRUE}]

AllOf == [matches |-> {}, negative |-> TRUE]

Flags ==
  [filter |-> AllOf, list |-> FALSE, interleave |-> FALSE, repetitions |-> 1, iters |-> 0,
   minTime |-> 10, warmUp |-> 0, aggregates |-> "none", reporters |-> {"display", "file"},
   json |-> {}, memory |-> FALSE, ndebug |-> FALSE]

\* Ranges of every sign and bounds, alone and in products, and thread counts.
Registrations ==
  LET range(lo, hi) == [call |-> "Range", lo |-> lo, hi |-> hi]
      mult(m) == [call |-> "RangeMultiplier", mult |-> m]
  IN  {<<mult(m), range(lo, hi)>> : m \in {2, 3, 5}, lo, hi \in -TMax .. TMax}
      \cup {<<[call |-> "Threads", lo |-> 1], [call |-> "ThreadRange", lo |-> lo, hi |-> hi],
              [call |-> "DenseThreadRange", lo |-> lo, hi |-> hi, step |-> 2],
              [call |-> "ThreadPerCpu"]>> : lo, hi \in 1 .. 9}
      \cup {<<[call |-> "ArgNames", names |-> 2], [call |-> "Args", args |-> <<0, 0>>],
              [call |-> "Ranges", ranges |-> <<<<lo, hi>>, <<hi, 9>>>>]>> :
              lo, hi \in -3 .. 9}
      \cup {<<[call |-> "ArgsProduct", lists |->
                 [a \in 1 .. 3 |-> [k \in 1 .. n[a] |-> 10 * a + k]]]>> : n \in [1 .. 3 -> 0 .. 3]}
      \cup {<<[call |-> "ArgNames", names |-> 1]>>,
            <<range(1, 2), [call |-> "DenseRange", lo |-> 1, hi |-> 6, step |-> 2]>>}

Registering ==
  {[Flags EXCEPT !.list = TRUE] @@
     [families |-> <<Family(calls, 1, 0, FALSE, {})>>] : calls \in {c \in Registrations : LegalCalls(c)}}

TwoArgs == <<[call |-> "DenseRange", lo |-> 1, hi |-> 2, step |-> 1]>>

\* Two families, interleaved; and two of three, one after the other.
Repeating ==
  {[Flags EXCEPT !.ndebug = nd, !.interleave = TRUE] @@
     [families |-> <<Family(<<>>, 1, 1, c, m),
                     [Family(TwoArgs, 1, 2, TRUE, {"default"}) EXCEPT !.sizes = z]>>] :
     nd, c \in BOOLEAN, m \in {{}, {"default", "display"}}, z \in {{TRUE}, {FALSE}}}
  \cup
  {[Flags EXCEPT !.aggregates = g, !.repetitions = n, !.memory = (n = 2), !.json = {"file"},
                 !.filter = f] @@
     [families |-> <<[Family(TwoArgs, 1, 0, TRUE, {}) EXCEPT !.disabled = TRUE],
                     [Family(TwoArgs, 1, 0, c, {}) EXCEPT !.sizes = BOOLEAN],
                     Family(<<>>, 1, 0, c, {})>>] :
     c \in BOOLEAN, n \in 1 .. 2, g \in {"none", "report", "display"},
     f \in {AllOf, [matches |-> {<<2, <<1>>, 1>>, <<2, <<2>>, 1>>, <<3, <<>>, 1>>},
                     negative |-> FALSE]}}

\* One family whose iterations must be estimated, after a warm-up or without.
Estimating ==
  {[Flags EXCEPT !.ndebug = nd, !.iters = i, !.warmUp = w, !.repetitions = 2] @@
     [families |-> <<[Family(<<[call |-> "Threads", lo |-> t]>>, 0, 0, FALSE, {})
                      EXCEPT !.minTime = m, !.warmUp = 10, !.clock = c, !.batch = b]>>] :
     nd \in BOOLEAN, i \in {0, 3}, w \in {0, 10}, t \in 1 .. 2, m \in {0, 20},
     c \in {"cpu", "real", "manual"}, b \in {1, 3}}

MCTimes == {0, 2, 10, 19, 50}

MCSessions == Registering \cup Repeating \cup Estimating

\* A single run of each instance, a Big-O, and the aggregates only.
MCSingleSessions ==
  {[Flags EXCEPT !.aggregates = g, !.ndebug = nd] @@
     [families |-> <<Family(TwoArgs, 1, 0, c, {})>>] :
     g \in {"none", "report"}, c, nd \in BOOLEAN}

\* Three repetitions, without a Big-O; and a Big-O of a family without sizes.
MCSkipSessions == {[Flags EXCEPT !.repetitions = 3, !.ndebug = nd] @@
                     [families |-> <<Family(<<>>, 1, 0, FALSE, {})>>] : nd \in BOOLEAN}
MCSizeSessions == {[Flags EXCEPT !.ndebug = nd] @@
                     [families |-> <<[Family(TwoArgs, 1, 0, TRUE, {}) EXCEPT !.sizes = {FALSE}]>>] :
                     nd \in BOOLEAN}

AnySession == CHOOSE s \in MCSessions : TRUE
AnyJob     == CHOOSE j \in MCJobs : j.threads = 1

\* One part is looked at.  The other is over from the beginning: no benchmarks,
\* or one thread that has skipped at once.
MCInit ==
  \/ /\ part = "threads"
     /\ session = AnySession /\ families = <<>> /\ runners = <<>> /\ order = <<>>
     /\ current = 0 /\ result = NoResult /\ perFamily = <<>> /\ log = <<>> /\ pc = "done"
     /\ JobInit
  \/ /\ part = "runner"
     /\ Init
     /\ job = AnyJob
     /\ main = "done" /\ at = [t \in Thread |-> "done"]
     /\ state = [t \in Thread |-> [total |-> 0, leftover |-> 0, started |-> FALSE,
                                   finished |-> FALSE, skipped |-> TRUE, cached |-> 0]]
     /\ timer = [t \in Thread |-> [running |-> FALSE, slice |-> 0, used |-> 0]]
     /\ work = [t \in Thread |-> [run |-> 0, timed |-> 0]]
     /\ barrier = [running |-> 0, entered |-> 0, phase |-> 0]
     /\ copy = [t \in Thread |-> 0] /\ woken = {}
     /\ manager = [alive |-> 0, iterations |-> 0, time |-> 0, skipped |-> TRUE, message |-> {0}]
     /\ skips = <<0>>

MCNext ==
  \/ part = "threads" /\ JobNext /\ UNCHANGED <<part, vars>>
  \/ part = "runner" /\ Next /\ UNCHANGED <<part, jobVars>>

\* The threads are scheduled; the runner may stop.
MCSpec == MCInit /\ [][MCNext]_<<part, vars, jobVars>> /\ Fairness
=============================================================================
