----------------------------- MODULE GTestReport -----------------------------
(***************************************************************************)
(* What googletest reports of an iteration when it ends: the summary of    *)
(* the console printers and the XML or JSON file, which are all computed   *)
(* from the results at that time, and are to agree with what listeners     *)
(* were told of each test while it ran.                                    *)
(***************************************************************************)
EXTENDS GTestRun

TestPassed(x)             == ShouldRun(x) /\ Passed(result[x])
TestFailed(x)             == ShouldRun(x) /\ Failed(result[x])
TestSkipped(x)            == ShouldRun(x) /\ Skipped(result[x])
TestReportable(x)         == plan[x] # "no"
TestReportableDisabled(x) == plan[x] = "disabled"

\* The tests that the *_test_count functions of a suite count.
OfSuite(count, x) ==
  {y \in Tests : y[1] = x /\
     CASE count = "to_run"     -> ShouldRun(y)
       [] count = "successful" -> TestPassed(y)
       [] count = "skipped"    -> TestSkipped(y)
       [] count = "failed"     -> TestFailed(y)
       [] count = "reportable" -> TestReportable(y)
       [] count = "reportable_disabled" -> TestReportableDisabled(y)}

\* The tests that those of UnitTestImpl count, over all suites.
OfAll(count) == UNION {OfSuite(count, x) : x \in Suites}

\* PrettyUnitTestResultPrinter::OnTestIterationEnd
Pretty ==
  [ran     |-> Cardinality(OfAll("to_run")),
   suites  |-> Cardinality({x \in Suites : SuiteShouldRun(x)}),
   passed  |-> Cardinality(OfAll("successful")),
   skipped |-> OfAll("skipped"),
   failed  |-> IF RunFailed THEN OfAll("failed") ELSE {},
   failed_suites |->
     IF RunFailed THEN {x \in Suites : SuiteShouldRun(x) /\ Failed(result[<<x, 0>>])}
                  ELSE {},
   disabled |-> Cardinality(OfAll("reportable_disabled"))]

\* BriefUnitTestResultPrinter: a failed test was shown when it ended.
Brief ==
  [ran |-> Cardinality(OfAll("to_run")), passed |-> Cardinality(OfAll("successful")),
   skipped |-> Cardinality(OfAll("skipped")), disabled |-> Cardinality(OfAll("reportable_disabled"))]

\* <testcase>: its status, its result, and its <failure> and <skipped> elements.
OutputXmlTestInfo(x) ==
  [status |-> IF ShouldRun(x) THEN "run" ELSE "notrun",
   result |-> IF ~ShouldRun(x) THEN "suppressed"
              ELSE IF Skipped(result[x]) THEN "skipped" ELSE "completed",
   parts  |-> result[x]]

PrintXmlTestSuite(x) ==
  [tests    |-> Cardinality(OfSuite("reportable", x)),
   failures |-> Cardinality(OfSuite("failed", x)),
   disabled |-> Cardinality(OfSuite("reportable_disabled", x)),
   skipped  |-> Cardinality(OfSuite("skipped", x)),
   cases    |-> [y \in OfSuite("reportable", x) |-> OutputXmlTestInfo(y)]]

PrintXmlUnitTest ==
  [tests    |-> Cardinality(OfAll("reportable")),
   failures |-> Cardinality(OfAll("failed")),
   disabled |-> Cardinality(OfAll("reportable_disabled")),
   suites   |-> [x \in {y \in Suites : OfSuite("reportable", y) # {}}
                   |-> PrintXmlTestSuite(x)],
   NonTestSuiteFailure |-> IF Failed(result[AdHoc]) THEN {result[AdHoc]} ELSE {}]

\* The JSON file: failures and skips of a test in lists of their own, and no
\* count of the skipped tests of a suite.
OutputJsonTestInfo(x) ==
  [status   |-> IF ShouldRun(x) THEN "RUN" ELSE "NOTRUN",
   result   |-> IF ~ShouldRun(x) THEN "SUPPRESSED"
                ELSE IF Skipped(result[x]) THEN "SKIPPED" ELSE "COMPLETED",
   failures |-> result[x] \cap Failure,
   skipped  |-> result[x] \cap {"skip"}]

PrintJsonTestSuite(x) ==
  [tests     |-> Cardinality(OfSuite("reportable", x)),
   failures  |-> Cardinality(OfSuite("failed", x)),
   disabled  |-> Cardinality(OfSuite("reportable_disabled", x)),
   testsuite |-> [y \in OfSuite("reportable", x) |-> OutputJsonTestInfo(y)]]

PrintJsonUnitTest ==
  [failures   |-> Cardinality(OfAll("failed")),
   testsuites |-> [x \in {y \in Suites : OfSuite("reportable", y) # {}}
                     |-> PrintJsonTestSuite(x)],
   NonTestSuiteFailure |-> result[AdHoc] \cap Failure]

-----------------------------------------------------------------------------
Told(verdict) == {x \in Tests : events[x] = verdict}

ConsoleAgrees ==
  /\ Pretty.failed = Told("FAILED") /\ Pretty.skipped = Told("SKIPPED")
  /\ Pretty.ran = Pretty.passed + Cardinality(Pretty.skipped) + Cardinality(Pretty.failed)
  /\ Told("OK") \subseteq OfAll("successful")
  /\ RunFailed => \/ Pretty.failed # {} \/ Pretty.failed_suites # {}
                  \/ Failed(result[AdHoc])
  /\ Brief.passed = Pretty.passed /\ Brief.skipped = Cardinality(Pretty.skipped)

FileAgrees ==
  LET xml    == PrintXmlUnitTest
      case(x) == xml.suites[x[1]].cases[x]
  IN  /\ \A x \in Told("FAILED") :
           Failed(case(x).parts) /\ case(x).result = "completed"
      /\ \A x \in Told("SKIPPED") : case(x).result = "skipped"
      /\ xml.failures = Cardinality(Told("FAILED"))
      /\ (xml.failures > 0 \/ xml.NonTestSuiteFailure # {}) <=>
           \/ Failed(result[AdHoc])
           \/ \E x \in Tests : Failed(result[x])
      /\ \A x \in Told("OK") : case(x).parts = {}

JsonAgrees ==
  LET json == PrintJsonUnitTest
      info(x) == json.testsuites[x[1]].testsuite[x]
  IN  /\ \A x \in Tests : TestReportable(x) =>
           /\ info(x).failures # {} <=> x \in Told("FAILED")
           /\ info(x).result = "SKIPPED" <=> x \in Told("SKIPPED")
           /\ info(x).status = "RUN" <=> ShouldRun(x)
      /\ SumFunction([x \in DOMAIN json.testsuites |-> json.testsuites[x].failures])
           = json.failures

\* The summary at the end of an iteration and the report file agree with what
\* was told of each test when it ended: the same tests failed and were skipped,
\* the counts add up, and the file shows a failure exactly if a test or
\* something outside of all suites has failed; so does the JSON file.  (A failure
\* of SetUpTestSuite or TearDownTestSuite is in the console's summary only, and
\* one outside of all suites is in the file only.)
ReportAgrees == pc = "iterationEnd" => ConsoleAgrees /\ FileAgrees /\ JsonAgrees
=============================================================================
