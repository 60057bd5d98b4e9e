---------------------------- MODULE GTestSelect ----------------------------
(***************************************************************************)
(* Which of its tests a googletest program runs, and in which order: the   *)
(* flags of its command line, the filter, the shards that share the tests  *)
(* among processes, and the shuffled order of each iteration.  A session   *)
(* is a number of processes that run the same program one after the other  *)
(* (they share nothing): the shards of a run, a run and a later one that   *)
(* repeats an iteration of it, or a run and the child of a death test.     *)
(***************************************************************************)
EXTENDS GTestRegister, Integers

CONSTANTS
  Sessions,        \* [programs, processes, fails]: the programs it is of, a sequence of
                   \* [argv, total, index], and the letters that failing tests begin with
  kMaxRandomSeed,  \* 99999 in the code
  kMaxRange        \* of the random numbers, 2^31 in the code

SeedAssumption == kMaxRandomSeed \in Nat \ {0} /\ kMaxRange \in Nat \ {0}

FlagDefaults ==
  [filter : {<<"*">>}, also_run_disabled_tests : {FALSE}, shuffle : {FALSE},
   random_seed : {0}, repeat : {1}, fail_fast : {FALSE}, list_tests : {FALSE},
   internal_run_death_test : {FALSE}]
Default == CHOOSE flags \in FlagDefaults : TRUE

VARIABLES
  session, process,  \* the process that runs, by its position
  argv, flags, help,
  seed,              \* UnitTestImpl::random_seed_
  lists,             \* TestSuite::test_info_list_ of each suite, its should_run_ aside
  should_run,        \* the tests selected, by number
  indices,           \* UnitTestImpl::test_suite_indices_
  testIndices,       \* TestSuite::test_indices_ of each suite
  iteration, index,  \* of RunAllTests: the iteration, and the suite that is next
  order,             \* the tests run in this iteration
  orders,            \* history: of each iteration of each process
  child              \* the test whose death test this process is the child of, or NoTest

plan     == <<session, process, argv, child>>
settings == <<flags, help>>
shuffled == <<indices, testIndices>>
vars == <<registerVars, plan, settings, seed, lists, should_run, shuffled, iteration, index,
          order, orders>>

NoTest == [suite |-> <<>>, name |-> <<>>, nr |-> 0]

Init ==
  /\ InitRegister
  /\ session \in Sessions /\ program \in session.programs /\ process = 0
  /\ argv = <<>> /\ flags = Default /\ help = FALSE
  /\ seed = 0 /\ lists = <<>> /\ should_run = {} /\ indices = <<>> /\ testIndices = <<>>
  /\ iteration = 0 /\ index = 1 /\ order = <<>> /\ orders = {} /\ child = NoTest

Processes == session.processes
Env       == Processes[process]
TestIn(suite, t) == [suite |-> suite, name |-> t.name, nr |-> t.nr]
All == UNION {{TestIn(s.name, t) : t \in ToSet(s.tests)} : s \in ToSet(registry.suites)}
FullName(t) == t.suite \o <<".">> \o t.name

-----------------------------------------------------------------------------
(* The command line                                                        *)

\* ParseGoogleTestFlag; a number that is none leaves the flag as it was.
ParseGoogleTestFlag(fl, arg) ==
  IF arg.flag \in DOMAIN fl /\ arg.valid THEN [fl EXCEPT ![arg.flag] = arg.value] ELSE fl
Recognised(fl, arg) == arg.flag \in DOMAIN fl /\ arg.valid

\* Help is for --help and for what looks like a flag of googletest and is none.
LooksLikeOurs(arg) == arg.flag \notin {"user", "internal_user"}

LoadFlagsFromFile(st, lines) ==
  FoldLeft(LAMBDA s, line :
             [flags |-> ParseGoogleTestFlag(s.flags, line),
              help  |-> s.help \/ ~Recognised(s.flags, line)], st, lines)

ParseGoogleTestFlagsOnly(args) ==
  FoldLeft(LAMBDA s, arg :
             IF arg.flag = "flagfile" THEN LoadFlagsFromFile(s, arg.value)
             ELSE [flags |-> ParseGoogleTestFlag(s.flags, arg),
                   help  |-> s.help \/ (~Recognised(s.flags, arg) /\ LooksLikeOurs(arg))],
           [flags |-> Default, help |-> FALSE], args)

\* With PostFlagParsingInit, where the parameterised tests join the others.
InitGoogleTestImpl(args) ==
  /\ LET parsed == ParseGoogleTestFlagsOnly(args)
     IN flags' = parsed.flags /\ help' = parsed.help
  /\ lists' = [i \in DOMAIN registry.suites |-> registry.suites[i].tests]
  /\ pc' = "filter"

\* A process of the session begins: its flags are parsed, its tests registered.
InitGoogleTest ==
  /\ pc = "launch" /\ process < Len(Processes)
  /\ process' = process + 1
  /\ argv' = Processes[process'].argv /\ child' = NoTest
  /\ InitGoogleTestImpl(argv')
  /\ UNCHANGED <<program, static, known, session, seed, should_run, shuffled, iteration,
                 index, order, orders>>

\* ExecDeathTest::AssumeRole: the child has the arguments of its parent, and two more.
ForkChild ==
  /\ pc = "launch" /\ process > 0 /\ child = NoTest
  /\ \E t \in UNION {ToSet(o.order) : o \in {o \in orders : o.process = process}} :
       /\ child' = t
       /\ argv' = argv \o <<[flag |-> "filter", value |-> FullName(t), valid |-> TRUE],
                            [flag |-> "internal_run_death_test", value |-> TRUE, valid |-> TRUE]>>
  /\ InitGoogleTestImpl(argv')
  /\ UNCHANGED <<program, static, known, session, process, seed, should_run, shuffled,
                 iteration, index, order, orders>>

-----------------------------------------------------------------------------
(* UnitTestImpl::RunAllTests, up to its loop                               *)

InSubprocess == flags.internal_run_death_test

\* Mutant: the child of a death test takes part in the sharding.
ShouldShardAlways ==
  IF Env.total = -1 /\ Env.index = -1 THEN "no"
  ELSE IF Env.total = -1 \/ Env.index = -1 \/ Env.index < 0 \/ Env.index >= Env.total THEN "die"
  ELSE IF Env.total > 1 THEN "yes" ELSE "no"

\* -1: the environment variable is not set.
ShouldShard ==
  IF InSubprocess \/ (Env.total = -1 /\ Env.index = -1) THEN "no"
  ELSE IF Env.total = -1 \/ Env.index = -1 \/ Env.index < 0 \/ Env.index >= Env.total THEN "die"
  ELSE IF Env.total > 1 THEN "yes" ELSE "no"

ShouldRunTestOnShard(test_id) == test_id % Env.total = Env.index

IsDisabled(t) == UnitTestFilter(kDisableTestFilter, t.suite)
                   \/ UnitTestFilter(kDisableTestFilter, t.name)
IsRunnable(t) == (flags.also_run_disabled_tests \/ ~IsDisabled(t))
                   /\ PositiveAndNegativeUnitTestFilter(flags.filter, FullName(t))

\* The tests, in the order of the suites and of their registration.
InOrder == FlattenSeq([i \in DOMAIN registry.suites |->
             [j \in DOMAIN registry.suites[i].tests |->
                TestIn(registry.suites[i].name, registry.suites[i].tests[j])]])

\* Mutant: a shard counts the tests that it selects.
SelectedCountingOwn ==
  FoldLeft(LAMBDA s, t :
             LET mine == ShouldShard = "yes" => ShouldRunTestOnShard(s.runnable)
             IN [selected |-> IF IsRunnable(t) /\ mine THEN s.selected \cup {t.nr} ELSE s.selected,
                 runnable |-> IF IsRunnable(t) /\ mine THEN s.runnable + 1 ELSE s.runnable],
           [selected |-> {}, runnable |-> 0], InOrder).selected

\* UnitTestImpl::FilterTests: the runnable tests are dealt to the shards in turn.
Selected ==
  FoldLeft(LAMBDA s, t :
             LET mine == ShouldShard = "yes" => ShouldRunTestOnShard(s.runnable)
             IN [selected |-> IF IsRunnable(t) /\ mine THEN s.selected \cup {t.nr} ELSE s.selected,
                 runnable |-> IF IsRunnable(t) THEN s.runnable + 1 ELSE s.runnable],
           [selected |-> {}, runnable |-> 0], InOrder).selected

Over == pc' = "launch" /\ UNCHANGED <<seed, should_run, iteration, shuffled>>

Identity(s) == [i \in DOMAIN s |-> i]

\* A random seed of 0 stands for the time of day.
FilterTests ==
  /\ pc = "filter"
  /\ IF help \/ ShouldShard = "die" \/ flags.list_tests THEN Over
     ELSE /\ should_run' = Selected
          /\ \E time \in IF flags.random_seed = 0 THEN 1 .. kMaxRandomSeed ELSE {flags.random_seed} :
               seed' = ((time - 1) % kMaxRandomSeed) + 1
          /\ indices' = Identity(lists)
          /\ testIndices' = [i \in DOMAIN lists |-> Identity(lists[i])]
          /\ iteration' = 0
          /\ pc' = "iterate"
  /\ UNCHANGED <<program, static, known, plan, settings, lists, index, order, orders>>

-----------------------------------------------------------------------------
(* Its loop                                                                *)

\* Random::Generate, a linear congruential generator.
Generate(random) == (random * 5 + 3) % kMaxRange

\* ShuffleRange: Fisher-Yates on the elements after the begin-th, up to the end-th.
ShuffleRange(begin, end, st) ==
  FoldLeft(LAMBDA s, done :
             LET width    == end - begin - done + 1
                 random   == Generate(s.random)
                 selected == begin + (random % width) + 1
                 last     == begin + width
             IN [random |-> random,
                 v |-> [s.v EXCEPT ![selected] = s.v[last], ![last] = s.v[selected]]],
           st, [done \in 1 .. end - begin - 1 |-> done])

\* UnitTestImpl::ShuffleTests: the death tests, the others, and within each suite.
ShuffleTests(random) ==
  LET n      == Len(indices)
      deaths == ShuffleRange(0, registry.deaths, [random |-> random, v |-> indices])
      others == ShuffleRange(registry.deaths, n, deaths)
  IN FoldLeft(LAMBDA s, i :
                LET one == ShuffleRange(0, Len(lists[i]), [random |-> s.random, v |-> testIndices[i]])
                IN [s EXCEPT !.random = one.random, !.tests[i] = one.v],
              [random |-> others.random, suites |-> others.v, tests |-> testIndices],
              [i \in 1 .. n |-> i])

Repeat == IF InSubprocess THEN 1 ELSE flags.repeat

StartIteration ==
  /\ pc = "iterate" /\ iteration # Repeat
  /\ IF should_run # {} /\ flags.shuffle
       THEN LET s == ShuffleTests(seed) IN indices' = s.suites /\ testIndices' = s.tests
       ELSE UNCHANGED shuffled
  /\ index' = 1 /\ order' = <<>>
  /\ pc' = "suites"
  /\ UNCHANGED <<program, static, known, plan, settings, seed, lists, should_run, iteration,
                 orders>>

\* TestSuite::Run sorts the tests by file and line; equal ones stay as registered.
Sorted(list) ==
  LET Before(a, b) == \/ a.at[1] < b.at[1]
                      \/ a.at[1] = b.at[1] /\ a.at[2] < b.at[2]
                      \/ a.at = b.at /\ a.nr < b.nr
  IN SortSeq(list, Before)

Fails(test) == test.name[1] \in session.fails

\* UntilFailure: with --gtest_fail_fast, what comes after a failure is skipped.
UntilFailure(tests) ==
  LET first == SelectInSeq(tests, Fails)
  IN IF flags.fail_fast /\ first # 0 THEN SubSeq(tests, 1, first) ELSE tests

RunSuite ==
  /\ pc = "suites" /\ index <= Len(indices)
  /\ LET i    == indices[index]
         list == Sorted(lists[i])
         runs == UntilFailure(SelectSeq([j \in DOMAIN list |-> list[testIndices[i][j]]],
                                        LAMBDA t : t.nr \in should_run))
     IN IF runs = <<>> THEN index' = index + 1 /\ UNCHANGED <<lists, order>>
        ELSE /\ lists' = [lists EXCEPT ![i] = list]
             /\ order' = order \o [j \in DOMAIN runs |-> TestIn(registry.suites[i].name, runs[j])]
             /\ index' = IF flags.fail_fast /\ \E j \in DOMAIN runs : Fails(runs[j])
                           THEN Len(indices) + 1 ELSE index + 1
  /\ UNCHANGED <<program, pc, static, known, plan, settings, seed, should_run, shuffled,
                 iteration, orders>>

Record == orders' = orders \cup {[process |-> process, child |-> child, iteration |-> iteration,
                                  seed |-> IF flags.shuffle THEN seed ELSE 0, order |-> order]}

\* Mutant: the next iteration shuffles what this one has shuffled.
EndIterationShuffled ==
  /\ pc = "suites" /\ index > Len(indices)
  /\ Record
  /\ seed' = IF flags.shuffle THEN (seed % kMaxRandomSeed) + 1 ELSE seed
  /\ iteration' = iteration + 1
  /\ pc' = "iterate"
  /\ UNCHANGED <<program, static, known, plan, settings, lists, should_run, shuffled, index,
                 order>>

\* UnshuffleTests, GetNextRandomSeed
EndIteration ==
  /\ pc = "suites" /\ index > Len(indices)
  /\ Record
  /\ indices' = Identity(indices)
  /\ testIndices' = [i \in DOMAIN testIndices |-> Identity(testIndices[i])]
  /\ seed' = IF flags.shuffle THEN (seed % kMaxRandomSeed) + 1 ELSE seed
  /\ iteration' = iteration + 1
  /\ pc' = "iterate"
  /\ UNCHANGED <<program, static, known, plan, settings, lists, should_run, index, order>>

Exit ==
  /\ pc = "iterate" /\ iteration = Repeat
  /\ pc' = "launch"
  /\ UNCHANGED <<program, static, known, plan, settings, seed, lists, should_run, shuffled,
                 iteration, index, order, orders>>

Session == \/ InitGoogleTest \/ ForkChild \/ FilterTests \/ StartIteration \/ RunSuite
           \/ EndIteration \/ Exit

SessionOver == pc = "launch" /\ process = Len(Processes)
Terminated  == (SessionOver \/ pc = "aborted") /\ UNCHANGED vars

Next == \/ Register /\ UNCHANGED <<plan, settings, seed, lists, should_run, shuffled, iteration,
                                   index, order, orders>>
        \/ Session \/ Terminated

Spec == Init /\ [][Next]_vars

-----------------------------------------------------------------------------
\* The processes of the session are the shards of one run, or its only process.
Shards ==
  /\ \A p \in DOMAIN Processes : Processes[p].argv = Processes[1].argv
  /\ \/ \A p \in DOMAIN Processes : Processes[p].total = Len(Processes) /\ Processes[p].index = p - 1
     \/ Len(Processes) = 1 /\ Processes[1].total = -1 /\ Processes[1].index = -1

\* Together the shards of a run execute each test that the filter means and that is
\* not disabled, once in each iteration, and no other: no test falls between two
\* shards, and none is run by both.
ShardsPartition ==
  SessionOver /\ Shards /\ child = NoTest =>
    LET args   == ParseGoogleTestFlagsOnly(Processes[1].argv)
        wanted == {t \in All : Selects(args.flags.filter, FullName(t))
                     /\ \/ args.flags.also_run_disabled_tests
                        \/ "DISABLED_" \notin ToSet(t.suite) \cup ToSet(t.name)}
        Runs(i, t) == {<<o, j>> \in {o \in orders : o.iteration = i /\ o.child = NoTest} \X (1 .. registry.count) :
                         j \in DOMAIN o.order /\ o.order[j] = t}
    IN ~args.help /\ ~args.flags.list_tests /\ ~args.flags.fail_fast =>
         \A i \in 0 .. args.flags.repeat - 1 : \A t \in All :
           Cardinality(Runs(i, t)) = IF t \in wanted THEN 1 ELSE 0

\* Two iterations with the same random seed run the tests they share in the same
\* order: whichever iteration it was, in whichever process, with whichever filter
\* or shard, so that a failure of the N-th iteration can be met again at once.
SameSeed ==
  \A a, b \in orders : a.seed = b.seed =>
    LET Shared(x, y) == SelectSeq(x.order, LAMBDA t : Contains(y.order, t))
    IN Shared(a, b) = Shared(b, a)

\* The tests of the death test suites run before all others, so that they fork
\* while the program has as few threads as possible.
DeathTestsFirst ==
  LET Deadly(suite) == \E k \in DOMAIN suite :
        suite[k] = "DeathTest" /\ (k = Len(suite) \/ suite[k + 1] = "/")
  IN \A o \in orders : \A i, j \in DOMAIN o.order :
       i < j /\ Deadly(o.order[j].suite) => Deadly(o.order[i].suite)

\* The child of a death test runs the test that its parent was running, and that
\* alone, once, whatever shard, shuffle or repetition the parent had been asked
\* for; if the name of the test is its own, and holds no character of a filter.
ChildRunsItsTest ==
  \A o \in orders : o.child # NoTest =>
    LET name   == FullName(o.child)
        unique == \A t \in All : FullName(t) = name => t = o.child
    IN unique /\ ToSet(name) \cap {"-", ":", "*", "?"} = {} => o.order = <<o.child>>
\* The order of the tests is the one that the user and the death tests rely on,
\* in the program and in the children of its death tests.
OrderRight == SameSeed /\ DeathTestsFirst /\ ChildRunsItsTest
=============================================================================
