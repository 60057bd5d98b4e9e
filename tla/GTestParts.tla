----------------------------- MODULE GTestParts -----------------------------
(***************************************************************************)
(* What one call of user code (a fixture's constructor, SetUp, a test body,*)
(* an environment's TearDown, ...) does to googletest: the part results    *)
(* that its assertions report, and how the call ends.                      *)
(*                                                                         *)
(* A test result is represented by the set of the kinds of its parts: all  *)
(* that googletest asks of it is whether it has a part of some kind.       *)
(***************************************************************************)
EXTENDS Naturals, Sequences, SequencesExt

Part    == {"skip", "nonfatal", "fatal"}
Failure == {"nonfatal", "fatal"}

\* Mutant: a skip hides the failures.
SkippedAnyway(r) == "skip" \in r

\* TestResult::Failed, Skipped, Passed, HasFatalFailure
Failed(r)          == r \cap Failure # {}
Skipped(r)         == ~Failed(r) /\ "skip" \in r
Passed(r)          == ~Skipped(r) /\ ~Failed(r)
HasFatalFailure(r) == "fatal" \in r

-----------------------------------------------------------------------------
(* The statement that the user code executes: its assertions in order, the *)
(* macro around it, and whether it ends in an exception of its own.        *)

Guards == {"none", "EXPECT_FATAL_FAILURE", "EXPECT_NONFATAL_FAILURE",
           "ASSERT_NO_FATAL_FAILURE"}
Statement == [does : Seq(Part), guard : Guards, throws : BOOLEAN]

Intercepts(guard) == guard \in {"EXPECT_FATAL_FAILURE", "EXPECT_NONFATAL_FAILURE"}

\* What SingleFailureChecker's destructor reports of the intercepted parts.
HasOneFailure(parts, type) == IF parts = <<type>> THEN <<>> ELSE <<"nonfatal">>

\* HasNewFatalFailureHelper: the parts are passed on, and a fatal one among
\* them fails the assertion around the statement.
NoFatalFailure(parts) ==
  IF Contains(parts, "fatal") THEN Append(parts, "fatal") ELSE parts

\* The parts that reach the current test result, when none of them is thrown.
ReportedParts(parts, guard) ==
  CASE guard = "none"                    -> parts
    [] guard = "EXPECT_FATAL_FAILURE"    -> HasOneFailure(parts, "fatal")
    [] guard = "EXPECT_NONFATAL_FAILURE" -> HasOneFailure(parts, "nonfatal")
    [] guard = "ASSERT_NO_FATAL_FAILURE" -> NoFatalFailure(parts)

-----------------------------------------------------------------------------
(* What a failed assertion does besides being recorded:                    *)
(*   "record"  nothing more                                                *)
(*   "throw"   --gtest_throw_on_failure: a GoogleTestFailureException      *)
(*   "break"   --gtest_break_on_failure: a trap, which ends the process    *)
(*   "listen"  a listener's OnTestPartResult throws an AssertionException  *)

Reactions == {"record", "throw", "break", "listen"}

Thrown(reaction) == CASE reaction = "throw"  -> "GoogleTestFailure"
                      [] reaction = "break"  -> "trap"
                      [] reaction = "listen" -> "Assertion"

\* The parts up to the first failure; all of them when there is none.
UpToFailure(parts) ==
  IF \E i \in DOMAIN parts : parts[i] \in Failure
    THEN SubSeq(parts, 1, SelectInSeq(parts, LAMBDA p : p \in Failure))
    ELSE parts

HasFailure(parts) == \E i \in DOMAIN parts : parts[i] \in Failure

\* AddTestPartResult for every part: the kinds recorded, and how it ends.
AddTestPartResult(parts, reaction) ==
  IF reaction = "record" \/ ~HasFailure(parts)
    THEN [added |-> ToSet(parts), ends |-> "returns"]
    ELSE [added |-> ToSet(UpToFailure(parts)), ends |-> Thrown(reaction)]

\* EXPECT_FATAL_FAILURE and EXPECT_NONFATAL_FAILURE.  A failure of the statement
\* does not reach the listeners, but it is thrown or trapped all the same; an
\* exception leaves the statement through the checker's destructor, which reports
\* what was intercepted until then, and which must not throw in its turn.
Intercepted(st, reaction) ==
  LET thrown  == reaction \in {"throw", "break"} /\ HasFailure(st.does)
      parts   == IF thrown THEN UpToFailure(st.does) ELSE st.does
      checked == AddTestPartResult(ReportedParts(parts, st.guard), reaction)
  IN  IF thrown /\ reaction = "break" THEN [added |-> {}, ends |-> "trap"]
      ELSE IF checked.ends \in {"GoogleTestFailure", "Assertion"}
        THEN [checked EXCEPT !.ends = "terminate"]
      ELSE IF thrown THEN [checked EXCEPT !.ends = "GoogleTestFailure"]
      ELSE checked

\* A call of user code.
Execute(st, reaction) ==
  LET call == IF Intercepts(st.guard) THEN Intercepted(st, reaction)
              ELSE AddTestPartResult(ReportedParts(st.does, st.guard), reaction)
  IN  IF call.ends = "returns" /\ st.throws THEN [call EXCEPT !.ends = "exception"]
      ELSE call

\* HandleExceptionsInMethodIfSupported: an exception becomes a fatal failure,
\* whose report may throw in turn.  "caught" stands for the 0 it returns; no
\* handler is reached by "trap" and "terminate".
HandleExceptions(call, reaction, catch) ==
  IF ~catch THEN call
  ELSE IF call.ends = "Assertion" THEN [call EXCEPT !.ends = "caught"]
  ELSE IF call.ends = "exception"
    THEN [added |-> call.added \cup {"fatal"},
          ends  |-> IF reaction = "record" THEN "caught" ELSE Thrown(reaction)]
  ELSE call
=============================================================================
