----------------------------- MODULE MCGTestRun -----------------------------
(***************************************************************************)
(* A googletest program for TLC: how it runs the tests that are selected,  *)
(* or how tests are registered, selected and put in order.                 *)
(***************************************************************************)
EXTENDS GTestReport

CONSTANTS Programs, Sessions, kMaxRandomSeed, kMaxRange

VARIABLES
  part,
  \* of GTestSelect; its pc and flags are named place and options here
  program, place, todo, unit, rest, registry, patterns, typed, ignored, defined, session,
  process, argv, options, help, seed, lists, should_run, indices, testIndices, iteration,
  index, order, orders, child

Sel == INSTANCE GTestSelect WITH pc <- place, flags <- options

ASSUME Sel!SeedAssumption /\ Sel!ProgramsAssumption

-----------------------------------------------------------------------------
(* Running the tests                                                       *)

TwoSuites == <<2, 1>>

Does(parts, guard) == [does |-> parts, guard |-> guard, throws |-> FALSE]

\* Nothing; a skip; failures; a skip that comes too late; a failure expected,
\* and one of the wrong kind; an exception.
SomeStatements ==
  {Does(<<>>, "none"), Does(<<"skip">>, "none"), Does(<<"nonfatal", "skip">>, "none"),
   Does(<<"fatal">>, "ASSERT_NO_FATAL_FAILURE"),
   Does(<<"fatal">>, "EXPECT_FATAL_FAILURE"),
   Does(<<"fatal">>, "EXPECT_NONFATAL_FAILURE"),
   [does |-> <<>>, guard |-> "none", throws |-> TRUE]}

Line(ff, re, ca, rep, how) ==
  [fail_fast |-> ff, recreate_environments_when_repeating |-> re,
   catch_exceptions |-> ca, list_tests |-> FALSE, repeat |-> rep, reaction |-> how]

CommandLines ==
  {Line(FALSE, FALSE, TRUE, 2, "record"), Line(TRUE, TRUE, TRUE, 2, "record"),
   Line(TRUE, FALSE, TRUE, 1, "listen"), Line(FALSE, TRUE, TRUE, -1, "record"),
   Line(FALSE, FALSE, FALSE, 1, "throw"), Line(FALSE, FALSE, TRUE, 1, "break"),
   Line(FALSE, FALSE, TRUE, 0, "record"),
   [Line(FALSE, FALSE, TRUE, 1, "record") EXCEPT !.list_tests = TRUE]}

Select(a, b, c) == [x \in Tests |-> IF x = <<1, 1>> THEN a
                                   ELSE IF x = <<1, 2>> THEN b ELSE c]

SomeSelections == {Select("run", "run", "disabled"), Select("run", "mixed", "no"),
                   Select("run", "disabled", "run"), Select("no", "disabled", "no")}

EarlyResults == {{}, {"nonfatal"}}

-----------------------------------------------------------------------------
(* Registering and selecting them                                          *)

Reg(kind, suite, test, prefix, n, tests, at) ==
  [kind |-> kind, suite |-> suite, fixture |-> 1, test |-> test, prefix |-> prefix, n |-> n,
   names |-> <<>>, tests |-> tests, at |-> at]
T(suite, test, file, line) == Reg("TEST", suite, test, <<>>, 0, <<>>, <<file, line>>)
P(suite, test, line)       == Reg("TEST_P", suite, test, <<>>, 0, <<>>, <<1, line>>)
Of(fixture, op)            == [op EXCEPT !.fixture = fixture]
V(suite, prefix, names)    == [Reg("INSTANTIATE_P", suite, <<>>, prefix, 0, <<>>, <<2, Len(names)>>)
                                 EXCEPT !.names = names]
I(suite, prefix, n)        == V(suite, prefix, [k \in 1 .. n |-> << <<"0", "1">>[k] >>])
Y(suite, test, line)       == Reg("TYPED_TEST_P", suite, test, <<>>, 0, <<>>, <<1, line>>)
R(suite, tests)            == Reg("REGISTER_TYPED", suite, <<>>, <<>>, 0, tests, <<1, 9>>)
N(suite, prefix, n, tests) == Reg("INSTANTIATE_TYPED", suite, <<>>, prefix, n, tests, <<2, 1>>)
Allow(suite)               == Reg("ALLOW", suite, <<>>, <<>>, 0, <<>>, <<3, 9>>)

S == <<"S">>   XDeath == <<"X", "DeathTest">>   YDeath == <<"Y", "DeathTest">>

\* A suite in two files, tests registered against the order of their lines, death
\* tests after other tests, and disabled ones.
Plain == <<
  <<T(S, <<"b">>, 1, 2), T(S, <<"a">>, 1, 1), T(XDeath, <<"d">>, 1, 3)>>,
  <<T(S, <<"c">>, 2, 1), T(YDeath, <<"a">>, 2, 2), T(S, <<"DISABLED_", "b">>, 2, 3)>>,
  <<T(<<"DISABLED_", "U">>, <<"a">>, 3, 1), T(<<"U">>, <<"a">>, 3, 2), T(XDeath, <<"b">>, 3, 3)>> >>

\* Suites and instantiations of them in different units; none, or an empty one.
Values == <<
  <<P(S, <<"a">>, 2), P(S, <<"DISABLED_", "b">>, 1), P(YDeath, <<"a">>, 3)>>,
  <<I(S, <<"I">>, 2), I(S, <<>>, 1), I(YDeath, <<"I">>, 1), I(<<"Q">>, <<"I">>, 1)>>,
  <<P(<<"V">>, <<"c">>, 4), I(<<"V">>, <<"I">>, 0), P(<<"O">>, <<"c">>, 5), Allow(<<"O">>),
    P(<<"R">>, <<"d">>, 6)>> >>
\* The instantiation stands in a header of two units: two tests of one name.
Twice == <<
  <<P(S, <<"a">>, 1), I(S, <<"I">>, 1)>>, <<I(S, <<"I">>, 1)>> >>

Header(suite) == <<Y(suite, <<"a">>, 2), Y(suite, <<"b">>, 1), R(suite, << <<"b">>, <<"a">> >>)>>
Types == <<
  Header(XDeath) \o <<N(XDeath, <<"I">>, 2, << <<"b">>, <<"a">> >>)>>,
  Header(XDeath) \o <<N(XDeath, <<"J">>, 1, << <<"b">>, <<"a">> >>)>>,
  Header(S) \o <<T(<<"U">>, <<"c">>, 3, 1)>> >>
Malformed == {
  << Header(S) \o <<Y(S, <<"c">>, 3)>> >>,
  << <<Y(S, <<"a">>, 1), Y(S, <<"a">>, 2), R(S, << <<"a">>, <<"b">> >>)>> >>,
  << <<Y(S, <<"a">>, 1), R(S, << <<"a">>, <<"a">> >>)>> >>,
  \* Two classes of one name; and names of parameters that a check refuses.
  << <<P(S, <<"a">>, 1), I(S, <<"I">>, 1)>>, <<Of(2, P(S, <<"b">>, 1))>> >>,
  << <<P(S, <<"a">>, 1)>>, <<Of(2, I(S, <<"I">>, 1))>> >>,
  << <<P(S, <<"a">>, 1)>>, <<V(S, <<"I">>, << <<"a">>, <<"_", "1">>, <<"a">> >>)>> >>,
  << <<P(S, <<"a">>, 1)>>, <<V(S, <<"I">>, << <<"a">>, <<"a", "-", "1">> >>)>> >>,
  << <<P(S, <<"a">>, 1)>>, <<V(S, <<"I">>, << <<>> >>)>> >>,
  \* They are not looked at where there is no test.
  << <<V(S, <<"I">>, << <<".">>, <<".">> >>), T(<<"U">>, <<"a">>, 3, 1)>> >> }

Letters == << <<T(<<"a">>, <<"b">>, 1, 1), T(<<"a">>, <<"a", "b">>, 1, 2), T(<<"b">>, <<"b", "a">>, 1, 3)>> >>

MCPrograms == {Plain, Values, Twice, Types, Letters} \cup Malformed

Arg(flag, value)   == [flag |-> flag, value |-> value, valid |-> TRUE]
Bad(flag)          == [flag |-> flag, value |-> 0, valid |-> FALSE]
Alone(args)        == [argv |-> args, total |-> -1, index |-> -1]
Shard(args, n, k)  == [argv |-> args, total |-> n, index |-> k]
Split(args, n)     == [k \in 1 .. n |-> Shard(args, n, k - 1)]
Shuffled(start)    == <<Arg("shuffle", TRUE), Arg("random_seed", start)>>
Only(text)         == <<Arg("filter", text)>>
Again(n)           == <<Arg("repeat", n)>>
Disabled           == <<Arg("also_run_disabled_tests", TRUE)>>

Runs == {
  Split(Disabled, 2), Split(Shuffled(2) \o Again(2), 3),
  Split(Only(<<"S", ".", "*", "-", "*", "b", ":", "*", "c">>), 2),
  \* The second iteration of a run, by itself and with some of the tests only.
  <<Alone(Shuffled(3) \o Again(2)), Alone(Shuffled(1) \o Only(<<"*", "a", "*">>))>>,
  <<Alone(Shuffled(0) \o Again(3)), Shard(Shuffled(2), 2, 1)>>,
  <<Alone(Shuffled(2) \o <<Arg("fail_fast", TRUE)>>)>>,
  <<Alone(<<[flag |-> "flagfile", value |-> Shuffled(1), valid |-> TRUE],
            [flag |-> "internal_user", value |-> 0, valid |-> TRUE]>>)>>,
  <<Alone(<<[flag |-> "flagfile", value |-> <<Bad("user")>>, valid |-> TRUE]>>), Alone(<<Bad("repeat")>>),
    Alone(<<Arg("list_tests", TRUE)>>), Shard(<<>>, 2, 2), Shard(<<>>, -1, 0), Shard(<<>>, 1, 0)>> }

\* Every filter of at most three characters, and every pattern of four.
Filters == UNION {[1 .. n -> {"a", "*", "?", ":", "-"}] : n \in 0 .. 3}
             \cup [1 .. 4 -> {"a", ".", "*", "?"}]

MCSessions ==
  [programs : {{Plain, Values, Twice, Types}}, processes : Runs, fails : {{"c"}}]
  \cup {[programs |-> Malformed, processes |-> <<Alone(<<>>)>>, fails |-> {}]}
  \cup {[programs |-> {Letters}, processes |-> <<Alone(Only(f))>>, fails |-> {}] : f \in Filters}

-----------------------------------------------------------------------------
selectVars == <<program, place, todo, unit, rest, registry, patterns, typed, ignored, defined,
                session, process, argv, options, help, seed, lists, should_run, indices,
                testIndices, iteration, index, order, orders, child>>

\* One part is looked at; the other does not begin.
NoRun ==
  /\ flags = Line(FALSE, FALSE, TRUE, 1, "record") /\ plan = Select("run", "run", "disabled")
  /\ pc = "start" /\ i = 0 /\ e = 0 /\ s = 0 /\ t = 0 /\ current = AdHoc
  /\ result = [o \in Owners |-> {}] /\ skip_all = FALSE /\ failed = FALSE
  /\ exit = "running" /\ events = [x \in Tests |-> "none"] /\ up = {} /\ seen = FALSE

NoSelection ==
  /\ session = CHOOSE x \in Sessions : x.programs = {Letters}
  /\ program = Letters
  /\ Sel!Init

MCInit == \/ part = "run" /\ Init /\ NoSelection
          \/ part = "select" /\ Sel!Init /\ NoRun

MCNext == \/ part = "run" /\ Next /\ UNCHANGED <<part, selectVars>>
          \/ part = "select" /\ Sel!Next /\ UNCHANGED <<part, vars>>

MCSpec == MCInit /\ [][MCNext]_<<part, vars, selectVars>>

AllRegistered   == Sel!AllRegistered
ShardsPartition == Sel!ShardsPartition
OrderRight      == Sel!OrderRight
=============================================================================
