------------------------------ MODULE GTestRun ------------------------------
(***************************************************************************)
(* googletest's runner: UnitTest::Run and what it calls, from the test     *)
(* environments down to the fixtures.  One action is one call of user code *)
(* together with the bookkeeping up to the next one.                       *)
(*                                                                         *)
(* Where an assertion is recorded depends on where the runner is: in the   *)
(* current test's result, else in the current suite's, else in the result  *)
(* for assertions outside of both.  An owner of a result is a pair of a    *)
(* suite and a test, with 0 for "none".                                    *)
(***************************************************************************)
EXTENDS GTestParts, FiniteSets

CONSTANTS
  SuiteTests,   \* the number of tests of each suite, in order
  NEnv,         \* environments registered
  Flags,        \* command lines considered
  Selections,   \* selections of tests considered
  Statements,   \* what a call of user code may do
  Early         \* what assertions before RUN_ALL_TESTS() may have recorded

Suites == DOMAIN SuiteTests
Tests  == UNION {{x} \X (1 .. SuiteTests[x]) : x \in Suites}
AdHoc  == <<0, 0>>
Owners == Tests \cup {<<x, 0>> : x \in Suites} \cup {AdHoc}
Envs   == 1 .. NEnv

\* run: selected; mixed: selected, but of another fixture class than the first
\* test of its suite; disabled: matches the filter; no: does not match.
\* (--gtest_also_run_disabled_tests is left out.)
Plans == {"run", "mixed", "disabled", "no"}

FlagValues == [
  fail_fast : BOOLEAN, recreate_environments_when_repeating : BOOLEAN,
  catch_exceptions : BOOLEAN, list_tests : BOOLEAN,
  repeat : Nat \cup {-1}, reaction : Reactions]

ASSUME RunAssumption ==
  /\ SuiteTests \in Seq(Nat \ {0}) /\ NEnv \in Nat
  /\ Flags \subseteq FlagValues
  /\ Selections \subseteq [Tests -> Plans]
  /\ \A p \in Selections : \A x \in Suites : p[<<x, 1>>] # "mixed"
  /\ Statements \subseteq Statement /\ Early \subseteq SUBSET Part

VARIABLES
  flags,     \* the command line
  plan,      \* which tests are selected
  pc,        \* the user code that is called next, or where the runner is
  i,         \* the iteration; with repeat < 0, the first one or a later one
  e, s, t,   \* the environment, suite and test it is at
  current,   \* the owner of the result that assertions are recorded in
  result,    \* the results
  skip_all,  \* TestSuite::Run: SetUpTestSuite failed or skipped
  failed,    \* RunAllTests: an iteration has failed
  exit,      \* how the program ends
  events,    \* history: what listeners heard of each test in this iteration
  up,        \* history: what has been set up and not torn down
  seen       \* history: user code has failed or thrown, before the verdict

vars == <<flags, plan, pc, i, e, s, t, current, result, skip_all, failed, exit,
          events, up, seen>>

ShouldRun(x)      == plan[x] \in {"run", "mixed"}
SuiteShouldRun(x) == \E n \in 1 .. SuiteTests[x] : ShouldRun(<<x, n>>)
HasTestsToRun     == \E x \in Tests : ShouldRun(x)

SuiteFailed(x) == \/ Failed(result[<<x, 0>>])
                  \/ \E n \in 1 .. SuiteTests[x] :
                       ShouldRun(<<x, n>>) /\ Failed(result[<<x, n>>])
RunFailed      == \/ Failed(result[AdHoc])
                  \/ \E x \in Suites : SuiteShouldRun(x) /\ SuiteFailed(x)

Recreate == flags.recreate_environments_when_repeating \/ flags.repeat < 0

Init ==
  /\ flags \in Flags /\ plan \in Selections
  /\ pc = "start" /\ i = 0 /\ e = 0 /\ s = 0 /\ t = 0
  /\ current = AdHoc
  /\ \E r \in Early : result = [o \in Owners |-> IF o = AdHoc THEN r ELSE {}]
  /\ skip_all = FALSE /\ failed = FALSE /\ exit = "running"
  /\ events = [x \in Tests |-> "none"]
  /\ up = {}
  /\ seen = Failed(result[AdHoc])

-----------------------------------------------------------------------------
(* Recording, and the ways out.                                            *)

Record(st, parts) ==
  /\ result' = [result EXCEPT ![current] = @ \cup parts]
  /\ seen' = (seen \/ Failed(parts) \/ st.throws)

\* Whatever escapes from RunAllTests: UnitTest::Run's own handler, or no one.
Escape(st, call) ==
  LET c == HandleExceptions(call, flags.reaction, flags.catch_exceptions) IN
    /\ Record(st, c.added)
    /\ pc' = "left"
    /\ exit' = CASE c.ends = "caught" -> "1"
                  [] c.ends = "trap"   -> "trap"
                  [] OTHER             -> "uncaught"
    /\ UNCHANGED <<flags, plan, i, e, s, t, current, skip_all, failed, events, up>>

\* A destructor that throws ends the program: exit is "uncaught", as for an
\* exception that no one catches, since both call std::terminate.
Terminate(st, call) ==
  /\ Record(st, call.added)
  /\ pc' = "left"
  /\ exit' = IF call.ends = "trap" THEN "trap" ELSE "uncaught"
  /\ UNCHANGED <<flags, plan, i, e, s, t, current, skip_all, failed, events, up>>

Direct(st)  == Execute(st, flags.reaction)
Wrapped(st) == HandleExceptions(Direct(st), flags.reaction, flags.catch_exceptions)

Goes(call) == call.ends \in {"returns", "caught"}

\* OnTestEnd tells the test's verdict; "again" is a second notification.
Verdict(r) == IF Passed(r) THEN "OK" ELSE IF Skipped(r) THEN "SKIPPED" ELSE "FAILED"
Start(x)   == IF events[x] = "none" THEN "started" ELSE "again"
End(x, r) == IF events[x] = "started" THEN Verdict(r) ELSE "again"

\* TestInfo::Skip, for each of the tests xs.
Skip(xs, r) ==
  LET skipped == {x \in xs : ShouldRun(x)} IN
    /\ result' = [o \in Owners |-> IF o \in skipped THEN r[o] \cup {"skip"} ELSE r[o]]
    /\ events' = [x \in Tests |-> IF x \notin skipped THEN events[x]
                                  ELSE IF events[x] = "none"
                                    THEN Verdict(r[x] \cup {"skip"}) ELSE "again"]

-----------------------------------------------------------------------------
(* UnitTestImpl::RunAllTests                                               *)

\* Where the iteration goes on when no suite is left.
AfterTests ==
  IF i = flags.repeat - 1 \/ Recreate
    THEN pc' = "envTearDown" /\ e' = NEnv
    ELSE pc' = "iterationEnd" /\ e' = e

Begin ==
  /\ pc = "start"
  /\ IF flags.list_tests THEN pc' = "done" /\ exit' = "0"
                         ELSE pc' = "iteration" /\ exit' = exit
  /\ UNCHANGED <<flags, plan, i, e, s, t, current, result, skip_all, failed,
                 events, up, seen>>

\* The head of the loop, with ClearNonAdHocTestResult.
StartIteration ==
  /\ pc = "iteration" /\ i # flags.repeat
  /\ result' = [o \in Owners |-> IF o = AdHoc THEN result[o] ELSE {}]
  /\ events' = [x \in Tests |-> "none"]
  /\ e' = 1 /\ s' = 1
  /\ pc' = IF ~HasTestsToRun THEN "iterationEnd"
           ELSE IF i = 0 \/ Recreate THEN "envSetUp" ELSE "select"
  /\ UNCHANGED <<flags, plan, i, t, current, skip_all, failed, exit, up, seen>>

SetUpEnvironment ==
  /\ pc = "envSetUp" /\ e <= NEnv
  /\ \E st \in Statements : LET c == Direct(st) IN
       \/ /\ Goes(c) /\ Record(st, c.added)
          /\ up' = up \cup {<<"env", e>>}
          /\ e' = e + 1
          /\ UNCHANGED <<flags, plan, pc, i, s, t, current, skip_all, failed,
                         exit, events>>
       \/ ~Goes(c) /\ Escape(st, c)

EndSetUp ==
  /\ pc = "envSetUp" /\ e > NEnv
  /\ pc' = "select"
  /\ UNCHANGED <<flags, plan, i, e, s, t, current, result, skip_all, failed,
                 exit, events, up, seen>>

\* Nothing is run, or reported, if the set-up of the environments skipped;
\* all tests are skipped if it failed fatally; else the suites are run.
SelectReaction ==
  /\ pc = "select"
  /\ \/ /\ Skipped(result[AdHoc])
        /\ AfterTests /\ UNCHANGED <<result, events>>
     \/ /\ ~Skipped(result[AdHoc]) /\ ~HasFatalFailure(result[AdHoc])
        /\ pc' = "suite" /\ UNCHANGED <<e, result, events>>
     \/ /\ HasFatalFailure(result[AdHoc])
        /\ AfterTests /\ Skip(Tests, result)
  /\ UNCHANGED <<flags, plan, i, s, t, current, skip_all, failed, exit, up, seen>>

TearDownEnvironment ==
  /\ pc = "envTearDown" /\ e > 0
  /\ \E st \in Statements : LET c == Direct(st) IN
       \/ /\ Goes(c) /\ Record(st, c.added)
          /\ up' = up \ {<<"env", e>>}
          /\ e' = e - 1
          /\ UNCHANGED <<flags, plan, pc, i, s, t, current, skip_all, failed,
                         exit, events>>
       \/ ~Goes(c) /\ Escape(st, c)

EndTearDown ==
  /\ pc = "envTearDown" /\ e = 0
  /\ pc' = "iterationEnd"
  /\ UNCHANGED <<flags, plan, i, e, s, t, current, result, skip_all, failed,
                 exit, events, up, seen>>

\* Mutant: only the last iteration decides.
EndIterationForgets ==
  /\ pc = "iterationEnd"
  /\ failed' = RunFailed
  /\ i' = IF flags.repeat < 0 THEN 1 ELSE i + 1
  /\ pc' = "iteration"
  /\ UNCHANGED <<flags, plan, e, s, t, current, result, skip_all, exit, events,
                 up, seen>>

\* The foot of the loop.
EndIteration ==
  /\ pc = "iterationEnd"
  /\ failed' = (failed \/ RunFailed)
  /\ i' = IF flags.repeat < 0 THEN 1 ELSE i + 1
  /\ pc' = "iteration"
  /\ UNCHANGED <<flags, plan, e, s, t, current, result, skip_all, exit, events,
                 up, seen>>

\* After the loop: the environments' destructors, which must not throw.
LeaveLoop ==
  /\ pc = "iteration" /\ i = flags.repeat
  /\ pc' = "deleteEnvironments" /\ e' = 1
  /\ UNCHANGED <<flags, plan, i, s, t, current, result, skip_all, failed, exit,
                 events, up, seen>>

DeleteEnvironment ==
  /\ pc = "deleteEnvironments" /\ e <= NEnv
  /\ \E st \in Statements : LET c == Direct(st) IN
       \/ /\ Goes(c)
          /\ result' = [result EXCEPT ![current] = @ \cup c.added]
          /\ e' = e + 1
          /\ UNCHANGED <<flags, plan, pc, i, s, t, current, skip_all, failed,
                         exit, events, up, seen>>
       \/ ~Goes(c) /\ Terminate(st, c)

Return ==
  /\ pc = "deleteEnvironments" /\ e > NEnv
  /\ pc' = "done"
  /\ exit' = IF failed THEN "1" ELSE "0"
  /\ UNCHANGED <<flags, plan, i, e, s, t, current, result, skip_all, failed,
                 events, up, seen>>

-----------------------------------------------------------------------------
(* TestSuite::Run                                                          *)

\* No suite is left, or this one has nothing to run.
PassSuite ==
  /\ pc = "suite"
  /\ \/ s > Len(SuiteTests) /\ AfterTests /\ s' = s
     \/ /\ s <= Len(SuiteTests) /\ ~SuiteShouldRun(s)
        /\ s' = s + 1 /\ pc' = pc /\ e' = e
  /\ UNCHANGED <<flags, plan, i, t, current, result, skip_all, failed, exit,
                 events, up, seen>>

StartSuite ==
  /\ pc = "suite" /\ s <= Len(SuiteTests) /\ SuiteShouldRun(s)
  /\ current' = <<s, 0>>
  /\ pc' = "setUpSuite"
  /\ UNCHANGED <<flags, plan, i, e, s, t, result, skip_all, failed, exit, events,
                 up, seen>>

\* Every call of user code that HandleExceptionsInMethodIfSupported surrounds:
\* the result is recorded, then After, unless an exception goes through.
Protected(After(_)) ==
  \E st \in Statements : LET c == Wrapped(st) IN
    \/ Goes(c) /\ Record(st, c.added) /\ After(c)
    \/ ~Goes(c) /\ Escape(st, c)

SetUpTestSuite ==
  /\ pc = "setUpSuite"
  /\ Protected(LAMBDA c :
       /\ up' = up \cup {<<"suite", 0>>}
       /\ skip_all' = (Failed(result'[current]) \/ Skipped(result'[current]))
       /\ t' = 1 /\ pc' = "test"
       /\ UNCHANGED <<flags, plan, i, e, s, current, failed, exit, events>>)

\* A test that is skipped with its suite, or not selected.
PassTest ==
  /\ pc = "test" /\ t <= SuiteTests[s]
  /\ skip_all \/ ~ShouldRun(<<s, t>>)
  /\ IF skip_all THEN Skip({<<s, t>>}, result)
     ELSE /\ result' = result
          /\ events' = [events EXCEPT ![<<s, t>>] =
                          IF plan[<<s, t>>] = "disabled" THEN "disabled" ELSE @]
  /\ t' = t + 1
  /\ UNCHANGED <<flags, plan, pc, i, e, s, current, skip_all, failed, exit, up, seen>>

LeaveTests ==
  /\ pc = "test" /\ t > SuiteTests[s]
  /\ pc' = "tearDownSuite"
  /\ UNCHANGED <<flags, plan, i, e, s, t, current, result, skip_all, failed, exit,
                 events, up, seen>>

\* With --gtest_fail_fast the first failed suite is the last one run.
TearDownTestSuite ==
  /\ pc = "tearDownSuite"
  /\ Protected(LAMBDA c :
       /\ up' = up \ {<<"suite", 0>>}
       /\ current' = AdHoc
       /\ pc' = "leaveSuite"
       /\ UNCHANGED <<flags, plan, i, e, s, t, skip_all, failed, exit, events>>)

\* Mutant: the suites after a failed one are not marked as skipped.
LeaveSuiteSilently ==
  /\ pc = "leaveSuite"
  /\ IF flags.fail_fast /\ SuiteFailed(s)
       THEN AfterTests /\ s' = s /\ UNCHANGED <<result, events>>
       ELSE pc' = "suite" /\ s' = s + 1 /\ UNCHANGED <<e, result, events>>
  /\ UNCHANGED <<flags, plan, i, t, current, skip_all, failed, exit, up, seen>>

LeaveSuite ==
  /\ pc = "leaveSuite"
  /\ IF flags.fail_fast /\ SuiteFailed(s)
       THEN AfterTests /\ s' = s /\ Skip({x \in Tests : x[1] > s}, result)
       ELSE pc' = "suite" /\ s' = s + 1 /\ UNCHANGED <<e, result, events>>
  /\ UNCHANGED <<flags, plan, i, t, current, skip_all, failed, exit, up, seen>>

-----------------------------------------------------------------------------
(* TestInfo::Run and Test::Run                                             *)

StartTest ==
  /\ pc = "test" /\ t <= SuiteTests[s] /\ ~skip_all /\ ShouldRun(<<s, t>>)
  /\ current' = <<s, t>>
  /\ events' = [events EXCEPT ![<<s, t>>] = Start(<<s, t>>)]
  /\ pc' = "construct"
  /\ UNCHANGED <<flags, plan, i, e, s, t, result, skip_all, failed, exit, up, seen>>

GoesOn(r) == ~HasFatalFailure(r) /\ ~Skipped(r)

\* The factory makes the fixture, or it throws and there is no object: then
\* only a failure or a skip keeps test->Run() from being called.
CreateTest ==
  /\ pc = "construct"
  /\ \E st \in Statements : LET c == Wrapped(st) IN
       \/ /\ c.ends = "returns" /\ Record(st, c.added)
          /\ up' = up \cup {<<"object", 0>>}
          /\ pc' = IF ~GoesOn(result'[current]) THEN "delete"
                   ELSE IF plan[current] = "mixed" THEN "mixed" ELSE "setUp"
          /\ UNCHANGED <<flags, plan, i, e, s, t, current, skip_all, failed, exit,
                         events>>
       \/ /\ c.ends = "caught" /\ Record(st, c.added)
          /\ IF GoesOn(result'[current])
               THEN pc' = "left" /\ exit' = "crash"
               ELSE pc' = "endTest" /\ exit' = exit
          /\ UNCHANGED <<flags, plan, i, e, s, t, current, skip_all, failed, events,
                         up>>
       \/ ~Goes(c) /\ Escape(st, c)

\* HasSameFixtureClass is false: a failure instead of the test.
RefuseFixture ==
  /\ pc = "mixed"
  /\ LET st == [does |-> <<"nonfatal">>, guard |-> "none", throws |-> FALSE]
         c == Direct(st)
     IN
       \/ /\ Goes(c) /\ Record(st, c.added)
          /\ pc' = "delete"
          /\ UNCHANGED <<flags, plan, i, e, s, t, current, skip_all, failed, exit,
                         events, up>>
       \/ ~Goes(c) /\ Escape(st, c)

SetUp ==
  /\ pc = "setUp"
  /\ Protected(LAMBDA c :
       /\ up' = up \cup {<<"fixture", 0>>}
       /\ pc' = IF GoesOn(result'[current]) THEN "body" ELSE "tearDown"
       /\ UNCHANGED <<flags, plan, i, e, s, t, current, skip_all, failed, exit, events>>)

\* Mutant: TearDown is left out after a failure.
TestBodyNoTearDown ==
  /\ pc = "body"
  /\ Protected(LAMBDA c :
       /\ pc' = IF Failed(result'[current]) THEN "delete" ELSE "tearDown"
       /\ UNCHANGED <<flags, plan, i, e, s, t, current, skip_all, failed, exit,
                      events, up>>)

TestBody ==
  /\ pc = "body"
  /\ Protected(LAMBDA c :
       /\ pc' = "tearDown"
       /\ UNCHANGED <<flags, plan, i, e, s, t, current, skip_all, failed, exit,
                      events, up>>)

TearDown ==
  /\ pc = "tearDown"
  /\ Protected(LAMBDA c :
       /\ up' = up \ {<<"fixture", 0>>}
       /\ pc' = "delete"
       /\ UNCHANGED <<flags, plan, i, e, s, t, current, skip_all, failed, exit, events>>)

\* The fixture's destructor, which must not throw.
DeleteTest ==
  /\ pc = "delete"
  /\ \E st \in Statements : LET c == Direct(st) IN
       \/ /\ Goes(c) /\ Record(st, c.added)
          /\ up' = up \ {<<"object", 0>>}
          /\ pc' = "endTest"
          /\ UNCHANGED <<flags, plan, i, e, s, t, current, skip_all, failed, exit,
                         events>>
       \/ ~Goes(c) /\ Terminate(st, c)

\* With --gtest_fail_fast the tests after a failed one are skipped.
EndTest ==
  /\ pc = "endTest"
  /\ LET ended == [events EXCEPT ![current] = End(current, result[current])]
         rest  == {x \in Tests : x[1] = s /\ x[2] > t /\ ShouldRun(x)}
     IN IF flags.fail_fast /\ Failed(result[current])
          THEN /\ result' = [o \in Owners |->
                              IF o \in rest THEN result[o] \cup {"skip"} ELSE result[o]]
               /\ events' = [x \in Tests |-> IF x \in rest THEN Verdict({"skip"}) ELSE ended[x]]
               /\ pc' = "tearDownSuite" /\ t' = t
          ELSE /\ result' = result /\ events' = ended
               /\ pc' = "test" /\ t' = t + 1
  /\ current' = <<s, 0>>
  /\ UNCHANGED <<flags, plan, i, e, s, skip_all, failed, exit, up, seen>>

Terminated == pc \in {"done", "left"} /\ UNCHANGED vars

Next ==
  \/ Begin \/ StartIteration \/ SetUpEnvironment \/ EndSetUp \/ SelectReaction
  \/ TearDownEnvironment \/ EndTearDown \/ EndIteration \/ LeaveLoop
  \/ DeleteEnvironment \/ Return \/ PassSuite \/ StartSuite \/ SetUpTestSuite \/ PassTest \/ StartTest
  \/ LeaveTests \/ TearDownTestSuite \/ LeaveSuite \/ CreateTest \/ RefuseFixture
  \/ SetUp \/ TestBody \/ TearDown \/ DeleteTest \/ EndTest \/ Terminated

Spec == Init /\ [][Next]_vars

-----------------------------------------------------------------------------
AllEnvs == {<<"env", x>> : x \in Envs}
InSuite == {<<"suite", 0>>, <<"object", 0>>, <<"fixture", 0>>}

Verdicts == {"OK", "SKIPPED", "FAILED"}

\* When an iteration ends, listeners have heard of the start and of the end of
\* every selected test exactly once, whether it was run, skipped because
\* something failed, or refused, and of no other test; only when the set-up of
\* the environments skipped (or had skipped in an earlier iteration) of none.
EachReportedOnce ==
  pc = "iterationEnd" =>
    \/ \A x \in Tests : events[x] \in Verdicts <=> ShouldRun(x)
    \/ "skip" \in result[AdHoc] /\ \A x \in Tests : events[x] = "none"

\* A program that returns from main returns 0 exactly if no assertion has
\* failed and no exception left user code, in whatever iteration, suite or
\* environment, before RUN_ALL_TESTS() even; but a failure is not looked at
\* with --gtest_list_tests, with --gtest_repeat=0, and in the destructors of
\* environments.
VerdictRight ==
  pc = "done" /\ ~flags.list_tests /\ flags.repeat # 0 => (exit = "0" <=> ~seen)

\* What is set up is torn down: a fixture's code finds every environment, its
\* suite and itself set up, and a test body finds that its constructor and SetUp
\* had no fatal failure and, with --gtest_fail_fast, that no other test and no
\* set-up or tear-down of a suite has failed in the same iteration; environments
\* come up in order and go in reverse; no suite or fixture outlives its
\* iteration, no environment the program, nor the iteration if environments are
\* recreated.  What escapes may leave all.
Scoped ==
  /\ \E n \in 0 .. NEnv : {x \in Envs : <<"env", x>> \in up} = 1 .. n
  /\ pc \in {"setUp", "body", "tearDown"} =>
       AllEnvs \cup {<<"suite", 0>>, <<"object", 0>>} \subseteq up
  /\ pc = "body" =>
       /\ ~HasFatalFailure(result[current])
       /\ flags.fail_fast => \A o \in Owners \ {AdHoc, current} : ~Failed(result[o])
  /\ pc # "left" => (<<"fixture", 0>> \in up <=> pc \in {"body", "tearDown"})
  /\ pc \in {"suite", "iterationEnd", "iteration"} =>
       InSuite \cap up = {}
  /\ pc = "done" \/ (pc = "iteration" /\ Recreate) => up = {}
=============================================================================
