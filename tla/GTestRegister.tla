--------------------------- MODULE GTestRegister ---------------------------
(***************************************************************************)
(* How googletest learns of the tests of a program.  Before main, the      *)
(* translation units are initialised one after the other, in an order that *)
(* the linker chose; each makes its registrations in the order of its      *)
(* text.  InitGoogleTest then expands the parameterised tests.             *)
(***************************************************************************)
EXTENDS Naturals, Sequences, SequencesExt, FiniteSets, GTestFilter

CONSTANTS Programs   \* sequences of translation units, themselves of registrations

\* Of the names of parameters: those of a word, and others.
WordCharacters == {"0", "1", "a", "_"}
Characters     == WordCharacters \cup {"-", "."}

Kinds == {"TEST", "TEST_P", "INSTANTIATE_P", "ALLOW", "TYPED_TEST_P", "REGISTER_TYPED",
          "INSTANTIATE_TYPED"}

\* fixture: the class that the macro names, of which there may be several of one
\* name; names: what the name generator makes of each value of an instantiation;
\* tests: the names listed by REGISTER_TYPED_TEST_SUITE_P; n: how many types a list
\* has; at: <<file, line>>.
ProgramsAssumption ==
  \A p \in Programs : \A u \in DOMAIN p : \A o \in DOMAIN p[u] :
    /\ p[u][o].kind \in Kinds /\ p[u][o].n \in 0 .. 4
    /\ \A k \in DOMAIN p[u][o].names : ToSet(p[u][o].names[k]) \subseteq Characters

VARIABLES
  program,
  pc,        \* of the program: "static" before main
  todo,      \* the units not initialised yet
  unit,      \* the one that is, and its registrations that are left
  rest,
  registry,  \* UnitTestImpl::test_suites_, last_death_test_suite_ + 1
  patterns,  \* ParameterizedTestSuiteRegistry::test_suite_infos_
  typed,     \* TypeParameterizedTestSuiteRegistry::suites_
  ignored,   \* ignored_parameterized_test_suites_
  defined    \* the TypedTestSuitePStates of the unit: tests_, and which are registered_

static == <<todo, unit, rest>>
known  == <<registry, patterns, typed, ignored, defined>>
registerVars == <<program, pc, static, known>>

InitRegister ==
  /\ program \in Programs /\ pc = "static"
  /\ todo = DOMAIN program /\ unit = 0 /\ rest = <<>>
  /\ registry = [suites |-> <<>>, deaths |-> 0, count |-> 0]
  /\ patterns = <<>> /\ typed = {} /\ ignored = {}
  /\ defined = [tests |-> {}, closed |-> {}]

Op == Head(rest)
IsDeath(suite) == UnitTestFilter(kDeathTestSuiteFilter, suite)

\* UnitTestImpl::GetTestSuite: the suites of death tests come before the others.
GetTestSuite(reg, suite) ==
  IF \E s \in ToSet(reg.suites) : s.name = suite THEN reg
  ELSE LET new == [name |-> suite, tests |-> <<>>]
       IN IF IsDeath(suite)
            THEN [reg EXCEPT !.suites = InsertAt(@, reg.deaths + 1, new), !.deaths = @ + 1]
            ELSE [reg EXCEPT !.suites = Append(@, new)]

\* MakeAndRegisterTestInfo, UnitTestImpl::AddTestInfo; nr tells the tests apart.
AddTestInfo(reg, test) ==
  LET found == GetTestSuite(reg, test.suite)
      i     == SelectInSeq(found.suites, LAMBDA s : s.name = test.suite)
  IN [found EXCEPT !.suites[i].tests = Append(@, [name |-> test.name, at |-> test.at,
                                                  nr |-> reg.count + 1]),
                   !.count = @ + 1]

AddAll(reg, tests) == FoldLeft(AddTestInfo, reg, tests)
Test(suite, name, at) == [suite |-> suite, name |-> name, at |-> at]
Digit(i) == <<"0", "1", "2", "3">>[i + 1]

-----------------------------------------------------------------------------
(* Before main                                                             *)

NextUnit ==
  /\ pc = "static" /\ rest = <<>> /\ todo # {}
  /\ \E u \in todo : /\ todo' = todo \ {u} /\ unit' = u /\ rest' = program[u]
  /\ defined' = [tests |-> {}, closed |-> {}]
  /\ UNCHANGED <<program, pc, registry, patterns, typed, ignored>>

Registering(kind) ==
  /\ pc = "static" /\ rest # <<>> /\ Op.kind = kind
  /\ rest' = Tail(rest)
  /\ UNCHANGED <<program, todo, unit>>

\* TEST, TEST_F and the function RegisterTest
RegisterTest ==
  /\ Registering("TEST")
  /\ registry' = AddTestInfo(registry, Test(Op.suite, Op.test, Op.at))
  /\ UNCHANGED <<pc, patterns, typed, ignored, defined>>

Abort == pc' = "aborted"

\* GetTestSuitePatternHolder creates what it does not find, and ends the program
\* if what it finds is of another class.
OtherClass == \E p \in ToSet(patterns) : p.suite = Op.suite /\ p.fixture # Op.fixture

PatternHolder ==
  IF \E p \in ToSet(patterns) : p.suite = Op.suite THEN patterns
  ELSE Append(patterns, [suite |-> Op.suite, fixture |-> Op.fixture, at |-> Op.at,
                         tests |-> <<>>, insts |-> <<>>])

AddToPattern(Added(_)) ==
  /\ IF OtherClass THEN Abort /\ patterns' = patterns
     ELSE LET i == SelectInSeq(PatternHolder, LAMBDA p : p.suite = Op.suite)
          IN patterns' = [PatternHolder EXCEPT ![i] = Added(@)] /\ pc' = pc
  /\ UNCHANGED <<registry, typed, ignored, defined>>

AddTestPattern ==
  /\ Registering("TEST_P")
  /\ AddToPattern(LAMBDA p : [p EXCEPT !.tests = Append(@, Op)])

AddTestSuiteInstantiation ==
  /\ Registering("INSTANTIATE_P")
  /\ AddToPattern(LAMBDA p : [p EXCEPT !.insts = Append(@, Op)])

\* GTEST_ALLOW_UNINSTANTIATED_PARAMETERIZED_TEST
MarkAsIgnored ==
  /\ Registering("ALLOW")
  /\ ignored' = ignored \cup {Op.suite}
  /\ UNCHANGED <<pc, registry, patterns, typed, defined>>

\* TYPED_TEST_P: emplace keeps the first of two definitions of a name.
AddTestName ==
  /\ Registering("TYPED_TEST_P")
  /\ IF Op.suite \in defined.closed THEN Abort /\ defined' = defined
     ELSE /\ defined' = IF \E d \in defined.tests : d.suite = Op.suite /\ d.name = Op.test
                          THEN defined
                          ELSE [defined EXCEPT !.tests = @ \cup {Test(Op.suite, Op.test, Op.at)}]
          /\ pc' = pc
  /\ UNCHANGED <<registry, patterns, typed, ignored>>

\* REGISTER_TYPED_TEST_SUITE_P: the suite is entered before its list is verified.
VerifyRegisteredTestNames ==
  /\ Registering("REGISTER_TYPED")
  /\ typed' = IF \E t \in typed : t.suite = Op.suite THEN typed
              ELSE typed \cup {[suite |-> Op.suite, at |-> Op.at, instantiated |-> FALSE]}
  /\ defined' = [defined EXCEPT !.closed = @ \cup {Op.suite}]
  /\ LET names == {d.name : d \in {d \in defined.tests : d.suite = Op.suite}}
     IN IF ToSet(Op.tests) = names /\ IsInjective(Op.tests) THEN pc' = pc ELSE Abort
  /\ UNCHANGED <<registry, patterns, ignored>>

\* INSTANTIATE_TYPED_TEST_SUITE_P: each test of the list with each of the types.
TypedTests(op, tests) ==
  FlattenSeq([j \in DOMAIN tests |->
    [k \in 1 .. op.n |->
      Test(op.prefix \o <<"/">> \o op.suite \o <<"/", Digit(k - 1)>>, tests[j],
           (CHOOSE d \in defined.tests : d.suite = op.suite /\ d.name = tests[j]).at)]])

RegisterInstantiation ==
  /\ Registering("INSTANTIATE_TYPED")
  /\ typed' = {IF t.suite = Op.suite THEN [t EXCEPT !.instantiated = TRUE] ELSE t : t \in typed}
  /\ registry' = AddAll(registry, TypedTests(Op, Op.tests))
  /\ UNCHANGED <<pc, patterns, ignored, defined>>

-----------------------------------------------------------------------------
(* UnitTestImpl::PostFlagParsingInit                                       *)

Slash(name) == IF name = <<>> THEN <<>> ELSE name \o <<"/">>

\* The loops of ParameterizedTestSuiteInfo::RegisterTests: the tests they make, and
\* the checks that each name of a parameter has to pass.
Expand(p) ==
  FlattenSeq([i \in DOMAIN p.tests |-> FlattenSeq([j \in DOMAIN p.insts |->
    [k \in DOMAIN p.insts[j].names |->
      Test(Slash(p.insts[j].prefix) \o p.suite, Slash(p.tests[i].test) \o p.insts[j].names[k],
           p.tests[i].at)]])])

IsValidParamName(name) == name # <<>> /\ ToSet(name) \subseteq WordCharacters

WellNamed(names) == IsInjective(names) /\ \A k \in DOMAIN names : IsValidParamName(names[k])

Accepted(p) == p.tests # <<>> => \A j \in DOMAIN p.insts : WellNamed(p.insts[j].names)

InsertSyntheticTestCase(reg, suite, at) ==
  IF suite \in ignored THEN reg
  ELSE AddTestInfo(reg, Test(<<"GoogleTestVerification">>, <<"<">> \o suite \o <<">">>, at))

\* Mutant: an instantiation counts even when its generator yields nothing.
RegisterTestsOfAny(reg, p) ==
  IF p.tests = <<>> \/ p.insts = <<>> THEN InsertSyntheticTestCase(reg, p.suite, p.at)
  ELSE AddAll(reg, Expand(p))

RegisterTests(reg, p) ==
  IF Expand(p) = <<>> THEN InsertSyntheticTestCase(reg, p.suite, p.at)
  ELSE AddAll(reg, Expand(p))

\* suites_ is a map: its elements are met in the order of their names.
CheckForInstantiations(reg) ==
  FoldLeft(LAMBDA r, t : InsertSyntheticTestCase(r, t.suite, t.at), reg,
           SetToSeq({t \in typed : ~t.instantiated}))

\* Of a program that a check ends, the registry is not looked at again.
PostFlagParsingInit ==
  /\ pc = "static" /\ rest = <<>> /\ todo = {}
  /\ IF \A p \in ToSet(patterns) : Accepted(p)
       THEN /\ registry' = CheckForInstantiations(FoldLeft(RegisterTests, registry, patterns))
            /\ pc' = "launch"
       ELSE Abort /\ registry' = registry
  /\ UNCHANGED <<program, static, patterns, typed, ignored, defined>>

Register ==
  \/ NextUnit \/ RegisterTest \/ AddTestPattern \/ AddTestSuiteInstantiation \/ MarkAsIgnored
  \/ AddTestName \/ VerifyRegisteredTestNames \/ RegisterInstantiation \/ PostFlagParsingInit

-----------------------------------------------------------------------------
\* The registrations of a kind, wherever in the program they are.
Ops(kind) == {<<u, o>> \in {<<u, o>> : u \in DOMAIN program, o \in 1 .. 20} :
                o \in DOMAIN program[u] /\ program[u][o].kind = kind}
At(uo) == program[uo[1]][uo[2]]

\* The reasons for which a test must exist, each with its full name.
Derivations ==
  {[from |-> <<x>>, suite |-> At(x).suite, name |-> At(x).test] : x \in Ops("TEST")}
  \cup UNION {{[from |-> <<x, y, k>>, suite |-> Slash(At(y).prefix) \o At(x).suite,
                name |-> Slash(At(x).test) \o At(y).names[k]] : k \in DOMAIN At(y).names} :
              <<x, y>> \in {<<x, y>> \in Ops("TEST_P") \X Ops("INSTANTIATE_P") :
                              At(x).suite = At(y).suite}}
  \cup UNION {{[from |-> <<x, j, k>>, name |-> At(x).tests[j],
                suite |-> At(x).prefix \o <<"/">> \o At(x).suite \o <<"/", Digit(k - 1)>>] :
                j \in DOMAIN At(x).tests, k \in 1 .. At(x).n} : x \in Ops("INSTANTIATE_TYPED")}

\* The parameterised suites of which no test exists, and that were not excused.
Uninstantiated ==
  LET Values(suite) == {y \in Ops("INSTANTIATE_P") : At(y).suite = suite /\ At(y).names # <<>>}
      Tests(suite)  == {x \in Ops("TEST_P") : At(x).suite = suite}
      Types(suite)  == {y \in Ops("INSTANTIATE_TYPED") : At(y).suite = suite}
      suites == {At(x).suite : x \in Ops("TEST_P") \cup Ops("INSTANTIATE_P")}
  IN ({s \in suites : Values(s) = {} \/ Tests(s) = {}}
        \cup {s \in {At(x).suite : x \in Ops("REGISTER_TYPED")} : Types(s) = {}})
     \ {At(x).suite : x \in Ops("ALLOW")}

Named(suite, name) ==
  Cardinality({<<i, j>> \in (1 .. Len(registry.suites)) \X (1 .. registry.count) :
                 /\ registry.suites[i].name = suite /\ j \in DOMAIN registry.suites[i].tests
                 /\ registry.suites[i].tests[j].name = name})

\* Why a program must not start: two classes of one parameterised suite, or an
\* instantiation of tests that gives two of them the same name, or a bad one.
Unsound ==
  \E x, y \in Ops("TEST_P") \cup Ops("INSTANTIATE_P") :
    /\ At(x).suite = At(y).suite
    /\ \/ At(x).fixture # At(y).fixture
       \/ At(x).kind = "TEST_P" /\ ~WellNamed(At(y).names)

\* Whatever the order in which the units are initialised, there is one test for
\* each reason, and one that fails for each parameterised suite that would
\* otherwise vanish unnoticed: no test is lost or doubled.  And no program starts
\* of which a test could not be told from another.
AllRegistered ==
  pc = "launch" =>
    /\ ~Unsound
    /\ \A d \in Derivations :
         Named(d.suite, d.name) = Cardinality({e \in Derivations : e.suite = d.suite /\ e.name = d.name})
    /\ \A s \in Uninstantiated : Named(<<"GoogleTestVerification">>, <<"<">> \o s \o <<">">>) = 1
    /\ registry.count = Cardinality(Derivations) + Cardinality(Uninstantiated)
=============================================================================
