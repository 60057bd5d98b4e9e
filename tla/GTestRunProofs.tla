--------------------------- MODULE GTestRunProofs ---------------------------
(***************************************************************************)
(* Proofs about GTestRun and GTestReport, for any suites, environments,    *)
(* command lines and user code.                                            *)
(***************************************************************************)
EXTENDS GTestReport, Sums, TLAPS

USE RunAssumption

-----------------------------------------------------------------------------
(* The invariant.                                                          *)

InTest    == {"construct", "mixed", "setUp", "body", "tearDown", "delete", "endTest"}
OfSuites  == {"setUpSuite", "test", "tearDownSuite"}
InSuites  == InTest \cup OfSuites \cup {"suite", "leaveSuite"}
Iterating == InSuites \cup {"envSetUp", "select", "envTearDown", "iterationEnd"}
Places    == Iterating \cup {"start", "iteration", "deleteEnvironments", "done", "left"}
Items     == {<<"env", x>> : x \in Envs} \cup InSuite

TypeOK ==
  /\ flags \in Flags /\ plan \in Selections
  /\ pc \in Places /\ i \in Nat /\ e \in Nat /\ s \in Nat /\ t \in Nat
  /\ current \in Owners /\ result \in [Owners -> SUBSET Part]
  /\ skip_all \in BOOLEAN /\ failed \in BOOLEAN /\ seen \in BOOLEAN
  /\ exit \in {"running", "0", "1", "trap", "uncaught", "crash"}
  /\ events \in [Tests -> Verdicts \cup {"none", "started", "again", "disabled"}]
  /\ up \subseteq Items

\* Where the runner is, and that assertions are recorded there.
PlaceRight ==
  /\ pc = "start" => i = 0
  /\ pc \in {"envSetUp", "select"} => s = 1
  /\ pc = "suite" => s \in 1 .. Len(SuiteTests) + 1
  /\ pc \in InSuites \ {"suite"} => s \in Suites /\ SuiteShouldRun(s)
  /\ pc = "test" => t \in 1 .. SuiteTests[s] + 1
  /\ pc \in InTest => <<s, t>> \in Tests /\ ShouldRun(<<s, t>>) /\ ~skip_all
  /\ pc \in Places \ {"left"} =>
       current = IF pc \in InTest THEN <<s, t>>
                 ELSE IF pc \in OfSuites THEN <<s, 0>> ELSE AdHoc

\* What listeners have heard of a test that lies behind the runner.
Heard(x) == IF ShouldRun(x) THEN events[x] \in Verdicts
                            ELSE events[x] \in {"none", "disabled"}
Behind(x) ==
  \/ x[1] < s
  \/ x[1] = s /\ \/ pc \in {"tearDownSuite", "leaveSuite"}
                 \/ pc \in InTest \cup {"test"} /\ x[2] < t

EventsRight ==
  /\ pc \in {"envSetUp", "select"} => \A x \in Tests : events[x] = "none"
  /\ pc \in InSuites => \A x \in Tests :
       /\ Behind(x) => Heard(x)
       /\ ~Behind(x) =>
            events[x] = IF pc \in InTest /\ x = <<s, t>> THEN "started" ELSE "none"
  /\ pc \in {"envTearDown", "iterationEnd"} =>
       \/ \A x \in Tests : Heard(x)
       \/ "skip" \in result[AdHoc] /\ \A x \in Tests : events[x] = "none"

\* Only what is selected has failed; the rest is said by seen and failed.
SomeFailed == \E o \in Owners : Failed(result[o])
Counts(o)  == o = AdHoc \/ (SuiteShouldRun(o[1]) /\ (o[2] = 0 \/ ShouldRun(o)))

ResultsRight ==
  /\ \A o \in Owners : Failed(result[o]) => Counts(o)
  /\ pc \in Iterating => (seen <=> failed \/ SomeFailed)
  /\ pc \in {"start", "iteration"} =>
       /\ i = 0 => ~failed /\ (seen <=> Failed(result[AdHoc]))
       /\ i > 0 => (seen <=> failed) /\ (SomeFailed => failed)
  /\ pc = "deleteEnvironments" => flags.repeat = 0 \/ (seen <=> failed)
  /\ VerdictRight

\* With --gtest_fail_fast: where a failure may be found while the suites run.
FailFastRight ==
  /\ pc \in {"envSetUp", "select"} => \A o \in Owners : Failed(result[o]) => o = AdHoc
  /\ flags.fail_fast /\ pc \in InSuites => \A o \in Owners : Failed(result[o]) =>
       \/ o = AdHoc
       \/ o[1] = s /\ pc \in {"tearDownSuite", "leaveSuite"}
       \/ o = <<s, t>> /\ pc \in InTest
       \/ o = <<s, 0>> /\ pc = "test" /\ skip_all
  /\ pc = "body" => ~HasFatalFailure(result[current])

\* What is up, by the place of the runner.
EnvsUp(n) == \A x \in Envs : <<"env", x>> \in up <=> x <= n
Stays     == HasTestsToRun /\ ~Recreate

UpRight ==
  /\ \E n \in 0 .. NEnv : EnvsUp(n)
  /\ pc \in Iterating \ {"iterationEnd"} => HasTestsToRun
  /\ pc = "envSetUp" => e \in 1 .. NEnv + 1 /\ EnvsUp(e - 1)
  /\ pc = "envTearDown" => /\ e \in 0 .. NEnv /\ EnvsUp(e)
                           /\ Recreate \/ i = flags.repeat - 1
  /\ pc \in InSuites \cup {"select"} => EnvsUp(NEnv)
  /\ pc \in {"start", "deleteEnvironments", "done"} => EnvsUp(0)
  /\ pc = "iterationEnd" => EnvsUp(IF Stays /\ i # flags.repeat - 1 THEN NEnv ELSE 0)
  /\ pc = "iteration" => EnvsUp(IF Stays /\ i # 0 /\ i # flags.repeat THEN NEnv ELSE 0)
  /\ pc # "left" =>
       /\ <<"suite", 0>> \in up <=> pc \in InTest \cup {"test", "tearDownSuite"}
       /\ <<"object", 0>> \in up <=> pc \in InTest \ {"construct", "endTest"}
       /\ <<"fixture", 0>> \in up <=> pc \in {"body", "tearDown"}

IInv == /\ TypeOK /\ PlaceRight /\ EventsRight /\ ResultsRight /\ FailFastRight
        /\ UpRight

-----------------------------------------------------------------------------
(* What a call of user code may record, and how it ends.                   *)

LEMMA Smallest ==
  ASSUME NEW I \in SUBSET Nat, I # {}
  PROVE  Min(I) \in I
<1>1. IsWellFoundedOn(OpToRel(<, Nat), Nat)
  BY NatLessThanWellFounded
<1>2. PICK x \in I : \A y \in I : <<y, x>> \notin OpToRel(<, Nat)
  BY <1>1, WFMin
<1>3. \A y \in I : x <= y
  <2>1. ASSUME NEW y \in I, y < x PROVE FALSE
    <3>1. <<y, x>> \in OpToRel(<, Nat)
      BY <2>1 DEF OpToRel
    <3> QED
      BY <1>2, <3>1
  <2> QED
    BY <2>1
<1> QED
  BY <1>3 DEF Min

\* The parts up to the first failure contain it, and no part that was not there.
LEMMA UpToFailureFacts ==
  ASSUME NEW parts \in Seq(Part)
  PROVE  /\ UpToFailure(parts) \in Seq(Part)
         /\ ToSet(UpToFailure(parts)) \subseteq Part
         /\ HasFailure(parts) => Failed(ToSet(UpToFailure(parts)))
<1> DEFINE I == {n \in 1 .. Len(parts) : parts[n] \in Failure}
           m == SelectInSeq(parts, LAMBDA p : p \in Failure)
<1>1. CASE HasFailure(parts)
  <2>1. I # {} /\ I \subseteq Nat
    BY <1>1 DEF HasFailure
  <2>2. m = Min(I)
    BY <2>1 DEF SelectInSeq
  <2>3. m \in I
    BY <2>1, <2>2, Smallest
  <2>4. UpToFailure(parts) = SubSeq(parts, 1, m)
    BY <1>1 DEF UpToFailure, HasFailure
  <2> HIDE DEF m
  <2>5. /\ m \in 1 .. Len(parts) /\ parts[m] \in Failure
        /\ SubSeq(parts, 1, m) \in Seq(Part) /\ Len(SubSeq(parts, 1, m)) = m
        /\ \A n \in 1 .. m : SubSeq(parts, 1, m)[n] = parts[n]
    BY <2>3
  <2>6. PICK first \in Seq(Part) :
          /\ UpToFailure(parts) = first /\ Len(first) = m /\ first[m] \in Failure
    BY <2>4, <2>5
  <2>7. DOMAIN first = 1 .. m /\ \A n \in 1 .. m : first[n] \in Part
    BY <2>5, <2>6
  <2> QED
    BY <2>5, <2>6, <2>7 DEF ToSet, Failed
<1>2. CASE ~HasFailure(parts)
  BY <1>2 DEF UpToFailure, HasFailure, ToSet
<1> QED
  BY <1>1, <1>2

LEMMA ReportedFacts ==
  ASSUME NEW parts \in Seq(Part), NEW guard \in Guards
  PROVE  ReportedParts(parts, guard) \in Seq(Part)
<1>1. Append(parts, "fatal") \in Seq(Part)
  BY DEF Part
<1>2. <<>> \in Seq(Part) /\ <<"nonfatal">> \in Seq(Part)
  BY DEF Part
<1> QED
  BY <1>1, <1>2 DEF ReportedParts, Guards, HasOneFailure, NoFatalFailure

LEMMA AddFacts ==
  ASSUME NEW parts \in Seq(Part), NEW reaction \in Reactions
  PROVE  LET call == AddTestPartResult(parts, reaction) IN
           /\ call = [added |-> call.added, ends |-> call.ends]
           /\ call.added \subseteq Part
           /\ call.ends \in {"returns", "GoogleTestFailure", "trap", "Assertion"}
           /\ call.ends # "returns" => Failed(call.added) /\ reaction # "record"
<1>1. ToSet(parts) \subseteq Part
  BY DEF ToSet
<1> QED
  BY <1>1, UpToFailureFacts DEF AddTestPartResult, Thrown, Reactions

LEMMA InterceptedFacts ==
  ASSUME NEW st \in Statement, NEW reaction \in Reactions
  PROVE  LET call == Intercepted(st, reaction) IN
           /\ call = [added |-> call.added, ends |-> call.ends]
           /\ call.added \subseteq Part
           /\ call.ends \in {"returns", "GoogleTestFailure", "trap", "terminate"}
<1> DEFINE thrown  == reaction \in {"throw", "break"} /\ HasFailure(st.does)
           parts   == IF thrown THEN UpToFailure(st.does) ELSE st.does
           checked == AddTestPartResult(ReportedParts(parts, st.guard), reaction)
<1>1. st.does \in Seq(Part) /\ UpToFailure(st.does) \in Seq(Part)
  <2>1. st.does \in Seq(Part)
    BY DEF Statement
  <2> QED
    BY <2>1, UpToFailureFacts
<1>2. parts \in Seq(Part) /\ st.guard \in Guards
  BY <1>1 DEF Statement
<1>3. /\ checked = [added |-> checked.added, ends |-> checked.ends]
      /\ checked.added \subseteq Part
      /\ checked.ends \in {"returns", "GoogleTestFailure", "trap", "Assertion"}
  <2> HIDE DEF parts
  <2>1. ReportedParts(parts, st.guard) \in Seq(Part)
    BY <1>2, ReportedFacts
  <2> QED
    BY <2>1, AddFacts
<1>4. Intercepted(st, reaction) =
        IF thrown /\ reaction = "break" THEN [added |-> {}, ends |-> "trap"]
        ELSE IF checked.ends \in {"GoogleTestFailure", "Assertion"}
          THEN [checked EXCEPT !.ends = "terminate"]
        ELSE IF thrown THEN [checked EXCEPT !.ends = "GoogleTestFailure"]
        ELSE checked
  BY DEF Intercepted
<1> HIDE DEF checked, thrown
<1>5. \A x : /\ [checked EXCEPT !.ends = x].added = checked.added
             /\ [checked EXCEPT !.ends = x].ends = x
             /\ [checked EXCEPT !.ends = x] = [added |-> checked.added, ends |-> x]
  BY <1>3
<1> DEFINE call == Intercepted(st, reaction)
<1>6. \/ call = [added |-> {}, ends |-> "trap"]
      \/ call = [added |-> checked.added, ends |-> "terminate"]
      \/ call = [added |-> checked.added, ends |-> "GoogleTestFailure"]
      \/ /\ call = [added |-> checked.added, ends |-> checked.ends]
         /\ checked.ends \notin {"GoogleTestFailure", "Assertion"}
  BY <1>3, <1>4, <1>5
<1> HIDE DEF call
<1> QED
  BY <1>3, <1>6 DEF call

\* What the runner records of a call, and what of it there is to know.
LEMMA CallFacts ==
  ASSUME NEW st \in Statement, NEW reaction \in Reactions, NEW catch \in BOOLEAN
  PROVE  LET direct  == Execute(st, reaction)
             wrapped == HandleExceptions(direct, reaction, catch)
         IN  /\ direct.added \subseteq Part /\ wrapped.added \subseteq Part
             /\ Goes(direct) => ~st.throws
             /\ Goes(wrapped) => (st.throws => Failed(wrapped.added))
<1> DEFINE direct  == Execute(st, reaction)
           wrapped == HandleExceptions(direct, reaction, catch)
           plain   == AddTestPartResult(ReportedParts(st.does, st.guard), reaction)
           call    == IF Intercepts(st.guard) THEN Intercepted(st, reaction) ELSE plain
<1>1. st.throws \in BOOLEAN /\ st.does \in Seq(Part) /\ st.guard \in Guards
  BY DEF Statement
<1>2. /\ plain = [added |-> plain.added, ends |-> plain.ends] /\ plain.added \subseteq Part
      /\ plain.ends \in {"returns", "GoogleTestFailure", "trap", "Assertion"}
      /\ plain.ends = "Assertion" => Failed(plain.added)
  BY <1>1, AddFacts, ReportedFacts
<1>3. /\ call = [added |-> call.added, ends |-> call.ends] /\ call.added \subseteq Part
      /\ call.ends \in {"returns", "GoogleTestFailure", "trap", "Assertion", "terminate"}
      /\ call.ends = "Assertion" => Failed(call.added)
  BY <1>2, InterceptedFacts
<1>4. direct = IF call.ends = "returns" /\ st.throws THEN [call EXCEPT !.ends = "exception"]
               ELSE call
  BY DEF Execute
<1> HIDE DEF call, direct
<1>5. /\ direct.added = call.added
      /\ \/ direct.ends = "exception" /\ st.throws
         \/ direct.ends = call.ends /\ (direct.ends # "returns" \/ ~st.throws)
  BY <1>1, <1>3, <1>4
<1>6. \/ wrapped = direct
      \/ direct.ends = "Assertion" /\ wrapped.added = direct.added
      \/ direct.ends = "exception" /\ wrapped.added = direct.added \cup {"fatal"}
  BY <1>3, <1>4, <1>5 DEF HandleExceptions
<1> QED
  BY <1>1, <1>3, <1>5, <1>6 DEF Goes, Failed, Failure, Part, direct

-----------------------------------------------------------------------------
(* Owners of results, and what is recorded for them.                       *)

LEMMA OwnerFacts ==
  /\ AdHoc \notin Tests /\ AdHoc \in Owners /\ Suites = 1 .. Len(SuiteTests)
  /\ \A x \in Tests : /\ x \in Owners /\ x[1] \in Suites /\ x[2] \in 1 .. SuiteTests[x[1]]
                      /\ x = <<x[1], x[2]>>
  /\ \A x \in Suites : /\ <<x, 0>> \in Owners /\ x \in Nat /\ x >= 1
                       /\ SuiteTests[x] \in Nat /\ SuiteTests[x] >= 1
                       /\ \A n \in 1 .. SuiteTests[x] : <<x, n>> \in Tests
  /\ \A o \in Owners : o \in Tests \/ o = AdHoc \/ \E x \in Suites : o = <<x, 0>>
<1>1. SuiteTests \in Seq(Nat \ {0}) /\ Suites = 1 .. Len(SuiteTests)
  BY DEF Suites
<1>2. \A x \in Suites : x \in Nat /\ x >= 1 /\ SuiteTests[x] \in Nat /\ SuiteTests[x] >= 1
  BY <1>1
<1>3. \A x \in Tests : /\ x[1] \in Suites /\ x[2] \in 1 .. SuiteTests[x[1]]
                       /\ x = <<x[1], x[2]>>
  BY DEF Tests
<1>4. \A x \in Suites : \A n \in 1 .. SuiteTests[x] : <<x, n>> \in Tests
  BY DEF Tests
<1>5. AdHoc \notin Tests
  BY <1>2, <1>3 DEF AdHoc
<1> QED
  BY <1>1, <1>2, <1>3, <1>4, <1>5 DEF Owners

\* An assertion, or some, in the result that the runner records in.
Recorded(parts) ==
  /\ parts \subseteq Part
  /\ result' = [result EXCEPT ![current] = @ \cup parts]
  /\ seen' = (seen \/ Failed(parts))

LEMMA RecordFacts ==
  ASSUME TypeOK, NEW st \in Statement
  PROVE  /\ st.throws \in BOOLEAN /\ Direct(st).added \subseteq Part /\ Wrapped(st).added \subseteq Part
         /\ Goes(Direct(st)) /\ Record(st, Direct(st).added) => Recorded(Direct(st).added)
         /\ Goes(Wrapped(st)) /\ Record(st, Wrapped(st).added) => Recorded(Wrapped(st).added)
<1>1. flags.reaction \in Reactions /\ flags.catch_exceptions \in BOOLEAN
  BY DEF TypeOK, FlagValues
<1>2. st.throws \in BOOLEAN
  BY DEF Statement
<1>3. /\ Direct(st).added \subseteq Part /\ Wrapped(st).added \subseteq Part
      /\ Goes(Direct(st)) => ~st.throws
      /\ Goes(Wrapped(st)) => (st.throws => Failed(Wrapped(st).added))
  BY <1>1, CallFacts DEF Direct, Wrapped
<1> QED
  BY <1>2, <1>3 DEF Record, Recorded

LEMMA RecordedFacts ==
  ASSUME IInv, NEW parts, Recorded(parts)
  PROVE  /\ result' \in [Owners -> SUBSET Part] /\ seen' \in BOOLEAN
         /\ \A o \in Owners : result[o] \subseteq result'[o]
         /\ \A o \in Owners : o # current => result'[o] = result[o]
         /\ \A o \in Owners : Failed(result'[o]) <=>
                                Failed(result[o]) \/ (o = current /\ Failed(parts))
<1>1. current \in Owners /\ result \in [Owners -> SUBSET Part]
  BY DEF IInv, TypeOK
<1> QED
  BY <1>1 DEF Recorded, Failed

LEMMA CurrentCounts ==
  ASSUME IInv, pc # "left"
  PROVE  Counts(current) /\ current \in Owners
<1>1. current \in Owners /\ pc \in Places
  BY DEF IInv, TypeOK
<1>2. CASE pc \in InTest
  <2>1. current = <<s, t>> /\ ShouldRun(<<s, t>>) /\ SuiteShouldRun(s)
    BY <1>1, <1>2 DEF IInv, PlaceRight, InTest, InSuites
  <2> QED
    BY <1>1, <2>1 DEF Counts
<1>3. CASE pc \in OfSuites
  <2>1. current = <<s, 0>> /\ SuiteShouldRun(s)
    BY <1>1, <1>3 DEF IInv, PlaceRight, InTest, InSuites, OfSuites
  <2> QED
    BY <1>1, <2>1 DEF Counts
<1>4. CASE pc \notin InTest \cup OfSuites
  BY <1>1, <1>4 DEF IInv, PlaceRight, Counts
<1> QED
  BY <1>2, <1>3, <1>4

LEMMA RecordedResults ==
  ASSUME IInv, pc \in Iterating, pc' \in Iterating, UNCHANGED <<plan, failed>>,
         NEW parts, Recorded(parts)
  PROVE  ResultsRight'
<1>1. pc # "left" /\ pc' \notin {"start", "iteration", "deleteEnvironments", "done", "left"}
  BY DEF Iterating, InSuites, InTest, OfSuites
<1>2. \A o \in Owners : Failed(result[o]) => Counts(o)
  BY DEF IInv, ResultsRight
<1>3. \A o \in Owners : Failed(result'[o]) => Counts(o)
  BY <1>1, <1>2, RecordedFacts, CurrentCounts
<1>4. \A o : Counts(o)' <=> Counts(o)
  BY DEF Counts, SuiteShouldRun, ShouldRun
<1>5. SomeFailed' <=> SomeFailed \/ Failed(parts)
  BY <1>1, RecordedFacts, CurrentCounts DEF SomeFailed
<1>6. seen' <=> failed' \/ SomeFailed'
  BY <1>1, <1>5 DEF IInv, ResultsRight, Recorded
<1> QED
  BY <1>1, <1>3, <1>4, <1>6 DEF ResultsRight, VerdictRight

\* What leaves the runner leaves all but the record behind.
LEMMA Leaves ==
  ASSUME IInv, pc # "left", pc' = "left", NEW st \in Statement, NEW parts \in SUBSET Part,
         Record(st, parts), exit' \in {"1", "trap", "uncaught", "crash"},
         UNCHANGED <<flags, plan, i, e, s, t, current, skip_all, failed, events, up>>
  PROVE  IInv'
<1>1. st.throws \in BOOLEAN
  BY DEF Statement
<1>2. /\ current \in Owners /\ result' \in [Owners -> SUBSET Part] /\ seen' \in BOOLEAN
      /\ \A o \in Owners : Failed(result'[o]) => Failed(result[o]) \/ o = current
  BY <1>1 DEF IInv, TypeOK, Record, Failed
<1>3. TypeOK'
  BY <1>2 DEF IInv, TypeOK, Places
<1>4. PlaceRight' /\ EventsRight' /\ FailFastRight'
  BY DEF PlaceRight, EventsRight, FailFastRight, InTest, OfSuites, InSuites
<1>5. ResultsRight'
  <2>1. \A o : Counts(o)' <=> Counts(o)
    BY DEF Counts, SuiteShouldRun, ShouldRun
  <2>2. \A o \in Owners : Failed(result'[o]) => Counts(o)
    BY <1>2, CurrentCounts DEF IInv, ResultsRight
  <2> QED
    BY <2>1, <2>2 DEF ResultsRight, VerdictRight, Iterating, InSuites, InTest, OfSuites
<1>6. UpRight'
  BY DEF IInv, UpRight, EnvsUp, Iterating, InSuites, InTest, OfSuites
<1> QED
  BY <1>3, <1>4, <1>5, <1>6 DEF IInv

LEMMA EscapeLeaves ==
  ASSUME IInv, pc # "left", NEW st \in Statement,
         \/ Escape(st, Direct(st)) \/ Escape(st, Wrapped(st)) \/ Terminate(st, Direct(st))
  PROVE  IInv'
<1>1. flags.reaction \in Reactions /\ flags.catch_exceptions \in BOOLEAN
  BY DEF IInv, TypeOK, FlagValues
<1>2. ASSUME NEW call, call.added \subseteq Part
      PROVE  HandleExceptions(call, flags.reaction, flags.catch_exceptions).added \subseteq Part
  BY <1>2 DEF HandleExceptions, Part
<1>3. PICK parts \in SUBSET Part : Record(st, parts)
  BY <1>2, RecordFacts DEF IInv, Escape, Terminate
<1> QED
  BY <1>3, Leaves DEF Escape, Terminate

LEMMA FlagFacts ==
  ASSUME TypeOK
  PROVE  /\ flags.repeat \in Int /\ flags.repeat >= -1 /\ flags.list_tests \in BOOLEAN
         /\ flags.fail_fast \in BOOLEAN /\ i \in Nat
BY DEF TypeOK, FlagValues

LEMMA RunFailedFacts == ASSUME IInv PROVE RunFailed <=> SomeFailed
<1>1. \A o \in Owners : Failed(result[o]) => Counts(o)
  BY DEF IInv, ResultsRight
<1>2. ASSUME NEW o \in Owners, Failed(result[o]), o # AdHoc
      PROVE  \E x \in Suites : SuiteShouldRun(x) /\ SuiteFailed(x)
  <2>1. SuiteShouldRun(o[1]) /\ (o[2] = 0 \/ ShouldRun(o))
    BY <1>1, <1>2 DEF Counts
  <2>2. CASE o \in Tests
    <3>1. /\ o[1] \in Suites /\ o[2] \in 1 .. SuiteTests[o[1]] /\ o = <<o[1], o[2]>>
          /\ SuiteTests[o[1]] \in Nat
      BY <2>2, OwnerFacts
    <3>2. ShouldRun(<<o[1], o[2]>>) /\ Failed(result[<<o[1], o[2]>>])
      BY <1>2, <2>1, <3>1
    <3> QED
      BY <2>1, <3>1, <3>2 DEF SuiteFailed
  <2>3. CASE \E x \in Suites : o = <<x, 0>>
    <3>1. PICK x \in Suites : o = <<x, 0>>
      BY <2>3
    <3> QED
      BY <1>2, <2>1, <3>1 DEF SuiteFailed
  <2> QED
    BY <1>2, <2>2, <2>3, OwnerFacts
<1>3. ASSUME NEW x \in Suites, SuiteFailed(x)
      PROVE  SomeFailed
  BY <1>3, OwnerFacts DEF SuiteFailed, SomeFailed
<1> QED
  BY <1>2, <1>3, OwnerFacts DEF RunFailed, SomeFailed

\* What depends on the command line and the selection only, or on what is up.
LEMMA SamePlan ==
  ASSUME UNCHANGED <<flags, plan>>
  PROVE  /\ Recreate' <=> Recreate
         /\ HasTestsToRun' <=> HasTestsToRun
         /\ Stays' <=> Stays
         /\ \A x : /\ ShouldRun(x)' <=> ShouldRun(x)
                   /\ SuiteShouldRun(x)' <=> SuiteShouldRun(x)
                   /\ Counts(x)' <=> Counts(x)
BY DEF Recreate, HasTestsToRun, Stays, ShouldRun, SuiteShouldRun, Counts

LEMMA SameUp == ASSUME up' = up PROVE \A n : EnvsUp(n)' <=> EnvsUp(n)
BY DEF EnvsUp

-----------------------------------------------------------------------------
(* The runner's own steps.                                                 *)

LEMMA BeginInv == ASSUME IInv, Begin PROVE IInv'
<1>1. /\ pc = "start" /\ pc' \in {"done", "iteration"}
      /\ exit' \in {exit, "0"}
      /\ pc' = "done" <=> flags.list_tests
      /\ UNCHANGED <<flags, plan, i, e, s, t, current, result, skip_all, failed, events, up, seen>>
  BY DEF Begin, IInv, TypeOK, FlagValues
<1>2. TypeOK'
  BY <1>1 DEF IInv, TypeOK, InTest, OfSuites, InSuites, Iterating, Places
<1>3. PlaceRight'
  BY <1>1, SamePlan DEF IInv, PlaceRight, InTest, OfSuites, InSuites, Iterating, Places
<1>4. EventsRight'
  BY <1>1, SamePlan DEF IInv, EventsRight, Heard, Behind, InTest, OfSuites, InSuites,
     Iterating, Places
<1>5. ResultsRight'
  BY <1>1, SamePlan DEF IInv, ResultsRight, SomeFailed, VerdictRight, InTest, OfSuites,
     InSuites, Iterating, Places
<1>6. FailFastRight'
  BY <1>1 DEF IInv, FailFastRight, InTest, OfSuites, InSuites, Iterating, Places
<1>7. UpRight'
  <2>1. i = 0
    BY <1>1 DEF IInv, PlaceRight
  <2>2. EnvsUp(0) /\ EnvsUp(0)'
    BY <1>1, SameUp DEF IInv, UpRight
  <2> QED
    BY <1>1, <2>1, <2>2, SamePlan, SameUp DEF IInv, UpRight, InTest, OfSuites, InSuites, Iterating
<1> QED
  BY <1>2, <1>3, <1>4, <1>5, <1>6, <1>7 DEF IInv

LEMMA EndSetUpInv == ASSUME IInv, EndSetUp PROVE IInv'
<1>1. /\ pc = "envSetUp" /\ e > NEnv /\ pc' = "select"
      /\ UNCHANGED <<flags, plan, i, e, s, t, current, result, skip_all, failed, exit, events, up, seen>>
  BY DEF EndSetUp
<1>2. TypeOK'
  BY <1>1 DEF IInv, TypeOK, InTest, OfSuites, InSuites, Iterating, Places
<1>3. PlaceRight'
  BY <1>1, SamePlan DEF IInv, PlaceRight, InTest, OfSuites, InSuites, Iterating, Places
<1>4. EventsRight'
  BY <1>1, SamePlan DEF IInv, EventsRight, Heard, Behind, InTest, OfSuites, InSuites,
     Iterating, Places
<1>5. ResultsRight'
  BY <1>1, SamePlan DEF IInv, ResultsRight, SomeFailed, VerdictRight, InTest, OfSuites,
     InSuites, Iterating, Places
<1>6. FailFastRight'
  BY <1>1 DEF IInv, FailFastRight, InTest, OfSuites, InSuites, Iterating, Places
<1>7. UpRight'
  BY <1>1, SamePlan, SameUp DEF IInv, UpRight, InTest, OfSuites, InSuites, Iterating, Places
<1> QED
  BY <1>2, <1>3, <1>4, <1>5, <1>6, <1>7 DEF IInv

LEMMA EndTearDownInv == ASSUME IInv, EndTearDown PROVE IInv'
<1>1. /\ pc = "envTearDown" /\ e = 0 /\ pc' = "iterationEnd"
      /\ UNCHANGED <<flags, plan, i, e, s, t, current, result, skip_all, failed, exit, events, up, seen>>
  BY DEF EndTearDown
<1>2. TypeOK'
  BY <1>1 DEF IInv, TypeOK, InTest, OfSuites, InSuites, Iterating, Places
<1>3. PlaceRight'
  BY <1>1, SamePlan DEF IInv, PlaceRight, InTest, OfSuites, InSuites, Iterating, Places
<1>4. EventsRight'
  BY <1>1, SamePlan DEF IInv, EventsRight, Heard, Behind, InTest, OfSuites, InSuites,
     Iterating, Places
<1>5. ResultsRight'
  BY <1>1, SamePlan DEF IInv, ResultsRight, SomeFailed, VerdictRight, InTest, OfSuites,
     InSuites, Iterating, Places
<1>6. FailFastRight'
  BY <1>1 DEF IInv, FailFastRight, InTest, OfSuites, InSuites, Iterating, Places
<1>7. UpRight'
  <2>1. Recreate \/ i = flags.repeat - 1
    BY <1>1 DEF IInv, UpRight
  <2>2. ~(Stays /\ i # flags.repeat - 1)' /\ EnvsUp(0)'
    BY <1>1, <2>1, SamePlan, SameUp DEF IInv, UpRight, Stays
  <2> QED
    BY <1>1, <2>2, SameUp DEF IInv, UpRight, InTest, OfSuites, InSuites, Iterating
<1> QED
  BY <1>2, <1>3, <1>4, <1>5, <1>6, <1>7 DEF IInv

LEMMA EndIterationInv == ASSUME IInv, EndIteration PROVE IInv'
<1>1. /\ pc = "iterationEnd" /\ pc' = "iteration"
      /\ failed' = (failed \/ RunFailed)
      /\ i' = IF flags.repeat < 0 THEN 1 ELSE i + 1
      /\ UNCHANGED <<flags, plan, e, s, t, current, result, skip_all, exit, events, up, seen>>
  BY DEF EndIteration
<1>2. TypeOK'
  BY <1>1, FlagFacts, RunFailedFacts DEF IInv, TypeOK, InTest, OfSuites, InSuites, Iterating,
     Places
<1>3. PlaceRight'
  BY <1>1, SamePlan DEF IInv, PlaceRight, InTest, OfSuites, InSuites, Iterating, Places
<1>4. EventsRight'
  BY <1>1, SamePlan DEF IInv, EventsRight, Heard, Behind, InTest, OfSuites, InSuites,
     Iterating, Places
<1>5. ResultsRight'
  <2>1. i' \in Nat /\ i' > 0
    BY <1>1, FlagFacts DEF IInv
  <2>2. (seen' <=> failed') /\ (SomeFailed => failed')
    BY <1>1, RunFailedFacts DEF IInv, ResultsRight, Iterating
  <2> QED
    BY <1>1, <2>1, <2>2, SamePlan
    DEF IInv, ResultsRight, SomeFailed, VerdictRight, InTest, OfSuites, InSuites, Iterating
<1>6. FailFastRight'
  BY <1>1 DEF IInv, FailFastRight, InTest, OfSuites, InSuites, Iterating, Places
<1>7. UpRight'
  <2>1. i' # 0 /\ (~Recreate => (i' # flags.repeat <=> i # flags.repeat - 1))
    BY <1>1, FlagFacts DEF IInv, Recreate
  <2> QED
    BY <1>1, <2>1, SamePlan, SameUp DEF IInv, UpRight, Stays, InTest, OfSuites, InSuites, Iterating
<1> QED
  BY <1>2, <1>3, <1>4, <1>5, <1>6, <1>7 DEF IInv

LEMMA LeaveLoopInv == ASSUME IInv, LeaveLoop PROVE IInv'
<1>1. /\ pc = "iteration" /\ i = flags.repeat
      /\ pc' = "deleteEnvironments" /\ e' = 1
      /\ UNCHANGED <<flags, plan, i, s, t, current, result, skip_all, failed, exit, events, up,
                     seen>>
  BY DEF LeaveLoop
<1>2. TypeOK'
  BY <1>1 DEF IInv, TypeOK, InTest, OfSuites, InSuites, Iterating, Places
<1>3. PlaceRight'
  BY <1>1, SamePlan DEF IInv, PlaceRight, InTest, OfSuites, InSuites, Iterating, Places
<1>4. EventsRight'
  BY <1>1, SamePlan DEF IInv, EventsRight, Heard, Behind, InTest, OfSuites, InSuites,
     Iterating, Places
<1>5. ResultsRight'
  BY <1>1, SamePlan, FlagFacts DEF IInv, ResultsRight, SomeFailed, VerdictRight, InTest,
     OfSuites, InSuites, Iterating, Places
<1>6. FailFastRight'
  BY <1>1 DEF IInv, FailFastRight, InTest, OfSuites, InSuites, Iterating, Places
<1>7. UpRight'
  BY <1>1, SamePlan, SameUp DEF IInv, UpRight, InTest, OfSuites, InSuites, Iterating, Places
<1> QED
  BY <1>2, <1>3, <1>4, <1>5, <1>6, <1>7 DEF IInv

LEMMA ReturnInv == ASSUME IInv, Return PROVE IInv'
<1>1. /\ pc = "deleteEnvironments" /\ pc' = "done"
      /\ exit' = IF failed THEN "1" ELSE "0"
      /\ UNCHANGED <<flags, plan, i, e, s, t, current, result, skip_all, failed, events, up, seen>>
  BY DEF Return
<1>2. TypeOK'
  BY <1>1 DEF IInv, TypeOK, InTest, OfSuites, InSuites, Iterating, Places
<1>3. PlaceRight'
  BY <1>1, SamePlan DEF IInv, PlaceRight, InTest, OfSuites, InSuites, Iterating, Places
<1>4. EventsRight'
  BY <1>1, SamePlan DEF IInv, EventsRight, Heard, Behind, InTest, OfSuites, InSuites,
     Iterating, Places
<1>5. ResultsRight'
  BY <1>1, SamePlan, FlagFacts DEF IInv, ResultsRight, SomeFailed, VerdictRight, InTest,
     OfSuites, InSuites, Iterating, Places
<1>6. FailFastRight'
  BY <1>1 DEF IInv, FailFastRight, InTest, OfSuites, InSuites, Iterating, Places
<1>7. UpRight'
  BY <1>1, SamePlan, SameUp DEF IInv, UpRight, InTest, OfSuites, InSuites, Iterating, Places
<1> QED
  BY <1>2, <1>3, <1>4, <1>5, <1>6, <1>7 DEF IInv

LEMMA StartSuiteInv == ASSUME IInv, StartSuite PROVE IInv'
<1>1. /\ pc = "suite" /\ s <= Len(SuiteTests) /\ SuiteShouldRun(s)
      /\ current' = <<s, 0>> /\ pc' = "setUpSuite"
      /\ UNCHANGED <<flags, plan, i, e, s, t, result, skip_all, failed, exit, events, up, seen>>
  BY DEF StartSuite
<1>2. TypeOK'
  <2>1. s \in Suites /\ <<s, 0>> \in Owners
    BY <1>1, OwnerFacts DEF IInv, TypeOK, PlaceRight
  <2> QED
    BY <1>1, <2>1 DEF IInv, TypeOK, InTest, OfSuites, InSuites, Iterating, Places
<1>3. PlaceRight'
  <2>1. s \in Suites
    BY <1>1, OwnerFacts DEF IInv, TypeOK, PlaceRight
  <2> QED
    BY <1>1, <2>1, SamePlan DEF IInv, PlaceRight, InTest, OfSuites, InSuites, Iterating, Places
<1>4. EventsRight'
  BY <1>1, SamePlan DEF IInv, EventsRight, Heard, Behind, InTest, OfSuites, InSuites,
     Iterating, Places
<1>5. ResultsRight'
  BY <1>1, SamePlan DEF IInv, ResultsRight, SomeFailed, VerdictRight, InTest, OfSuites,
     InSuites, Iterating, Places
<1>6. FailFastRight'
  BY <1>1 DEF IInv, FailFastRight, InTest, OfSuites, InSuites, Iterating, Places
<1>7. UpRight'
  BY <1>1, SamePlan, SameUp DEF IInv, UpRight, InTest, OfSuites, InSuites, Iterating, Places
<1> QED
  BY <1>2, <1>3, <1>4, <1>5, <1>6, <1>7 DEF IInv

LEMMA LeaveTestsInv == ASSUME IInv, LeaveTests PROVE IInv'
<1>1. /\ pc = "test" /\ t > SuiteTests[s] /\ pc' = "tearDownSuite"
      /\ UNCHANGED <<flags, plan, i, e, s, t, current, result, skip_all, failed, exit, events, up, seen>>
  BY DEF LeaveTests
<1>2. TypeOK'
  BY <1>1 DEF IInv, TypeOK, InTest, OfSuites, InSuites, Iterating, Places
<1>3. PlaceRight'
  BY <1>1, SamePlan DEF IInv, PlaceRight, InTest, OfSuites, InSuites, Iterating, Places
<1>4. EventsRight'
  <2>1. \A x \in Tests : Behind(x)' <=> Behind(x)
    BY <1>1, OwnerFacts DEF IInv, TypeOK, Behind, InTest
  <2> QED
    BY <1>1, <2>1, SamePlan DEF IInv, EventsRight, Heard, InTest, OfSuites, InSuites
<1>5. ResultsRight'
  BY <1>1, SamePlan DEF IInv, ResultsRight, SomeFailed, VerdictRight, InTest, OfSuites,
     InSuites, Iterating, Places
<1>6. FailFastRight'
  BY <1>1 DEF IInv, FailFastRight, InTest, OfSuites, InSuites, Iterating, Places
<1>7. UpRight'
  BY <1>1, SamePlan, SameUp DEF IInv, UpRight, InTest, OfSuites, InSuites, Iterating, Places
<1> QED
  BY <1>2, <1>3, <1>4, <1>5, <1>6, <1>7 DEF IInv

\* TestInfo::Skip reports the tests that were to run, and fails none.
LEMMA SkipFacts ==
  ASSUME TypeOK, NEW xs \in SUBSET Tests, Skip(xs, result),
         \A x \in xs : events[x] = "none"
  PROVE  /\ result' \in [Owners -> SUBSET Part]
         /\ \A o \in Owners : Failed(result'[o]) <=> Failed(result[o])
         /\ result'[AdHoc] = result[AdHoc]
         /\ events' \in [Tests -> Verdicts \cup {"none", "started", "again", "disabled"}]
         /\ \A x \in xs : ShouldRun(x) => events'[x] \in Verdicts
         /\ \A x \in Tests : x \notin xs \/ ~ShouldRun(x) => events'[x] = events[x]
<1>1. \A r : Verdict(r) \in Verdicts
  BY DEF Verdict, Verdicts
<1>2. \A r : Failed(r \cup {"skip"}) <=> Failed(r)
  BY DEF Failed, Failure
<1> HIDE DEF Failed, Verdict, Verdicts
<1>3. result' \in [Owners -> SUBSET Part] /\ result'[AdHoc] = result[AdHoc]
  BY OwnerFacts DEF TypeOK, Skip, Part
<1>4. \A o \in Owners : result'[o] = result[o] \/ result'[o] = result[o] \cup {"skip"}
  BY DEF Skip
<1>5. \A x \in Tests : events'[x] =
        IF x \in xs /\ ShouldRun(x) THEN Verdict(result[x] \cup {"skip"}) ELSE events[x]
  BY DEF Skip
<1>6. events' \in [Tests -> Verdicts \cup {"none", "started", "again", "disabled"}]
  <2>1. events' = [x \in Tests |-> events'[x]]
    BY DEF Skip
  <2>2. \A x \in Tests : events'[x] \in Verdicts \cup {"none", "started", "again", "disabled"}
    BY <1>1, <1>5 DEF TypeOK
  <2> QED
    BY <2>1, <2>2
<1>7. \A o \in Owners : Failed(result'[o]) <=> Failed(result[o])
  BY <1>2, <1>4
<1>8. \A x \in xs : ShouldRun(x) => events'[x] \in Verdicts
  BY <1>1, <1>5
<1>9. \A x \in Tests : x \notin xs \/ ~ShouldRun(x) => events'[x] = events[x]
  BY <1>5
<1> QED
  BY <1>3, <1>6, <1>7, <1>8, <1>9

\* The end of the tests of an iteration.
LEMMA AfterTestsInv ==
  ASSUME IInv, pc \in {"select", "suite", "leaveSuite"}, AfterTests,
         UNCHANGED <<flags, plan, i, s, t, current, skip_all, failed, exit, up, seen>>,
         result' \in [Owners -> SUBSET Part],
         \A o \in Owners : Failed(result'[o]) <=> Failed(result[o]),
         events' \in [Tests -> Verdicts \cup {"none", "started", "again", "disabled"}],
         \/ \A x \in Tests : Heard(x)'
         \/ "skip" \in result'[AdHoc] /\ \A x \in Tests : events'[x] = "none"
  PROVE  IInv'
<1>1. /\ pc' \in {"envTearDown", "iterationEnd"} /\ e' \in Nat
      /\ pc' = "envTearDown" <=> (i = flags.repeat - 1 \/ Recreate)
      /\ pc' = "envTearDown" => e' = NEnv
  BY DEF AfterTests, IInv, TypeOK
<1>2. TypeOK'
  BY <1>1 DEF IInv, TypeOK, Places, Iterating
<1>3. PlaceRight'
  BY <1>1 DEF IInv, PlaceRight, InTest, OfSuites, InSuites, Places, Iterating
<1>4. EventsRight'
  BY <1>1 DEF EventsRight, InTest, OfSuites, InSuites
<1>5. ResultsRight'
  BY <1>1, SamePlan
  DEF IInv, ResultsRight, SomeFailed, VerdictRight, InTest, OfSuites, InSuites, Iterating
<1>6. FailFastRight'
  BY <1>1 DEF FailFastRight, InTest, OfSuites, InSuites
<1>7. UpRight'
  <2>1. EnvsUp(NEnv) /\ HasTestsToRun
    BY DEF IInv, UpRight, InSuites, Iterating
  <2>2. \A item \in InSuite : item \in up => FALSE
    BY DEF IInv, UpRight, InSuite, InTest
  <2> QED
    BY <1>1, <2>1, <2>2, SamePlan, SameUp
    DEF IInv, UpRight, Stays, InSuite, InTest, OfSuites, InSuites, Iterating
<1> QED
  BY <1>2, <1>3, <1>4, <1>5, <1>6, <1>7 DEF IInv

LEMMA SelectInv == ASSUME IInv, SelectReaction PROVE IInv'
<1>1. /\ pc = "select"
      /\ UNCHANGED <<flags, plan, i, s, t, current, skip_all, failed, exit, up, seen>>
      /\ \A x \in Tests : events[x] = "none"
  BY DEF SelectReaction, IInv, EventsRight
<1>2. CASE Skipped(result[AdHoc]) /\ AfterTests /\ UNCHANGED <<result, events>>
  BY <1>1, <1>2, AfterTestsInv DEF IInv, TypeOK, Skipped
<1>3. CASE AfterTests /\ Skip(Tests, result)
  <2>1. \A x \in Tests : Heard(x)'
    BY <1>1, <1>3, SkipFacts, SamePlan DEF IInv, Heard
  <2> QED
    BY <1>1, <1>3, <2>1, SkipFacts, AfterTestsInv DEF IInv
<1>4. CASE pc' = "suite" /\ UNCHANGED <<e, result, events>>
  <2>1. TypeOK'
    BY <1>1, <1>4 DEF IInv, TypeOK, InSuites, Iterating, Places
  <2>2. PlaceRight'
    <3>1. s \in 1 .. Len(SuiteTests) + 1
      BY <1>1, OwnerFacts DEF IInv, PlaceRight, Suites
    <3> QED
      BY <1>1, <1>4, <3>1 DEF IInv, PlaceRight, InTest, OfSuites, InSuites, Iterating, Places
  <2>3. EventsRight'
    <3>1. \A x \in Tests : ~Behind(x)'
      BY <1>1, <1>4, OwnerFacts DEF IInv, PlaceRight, Behind, InTest
    <3> QED
      BY <1>1, <1>4, <3>1 DEF EventsRight, InTest
  <2>4. ResultsRight'
    BY <1>1, <1>4, SamePlan
    DEF IInv, ResultsRight, SomeFailed, VerdictRight, InTest, OfSuites, InSuites, Iterating
  <2>5. FailFastRight'
    BY <1>1, <1>4 DEF IInv, FailFastRight, InTest
  <2>6. UpRight'
    BY <1>1, <1>4, SamePlan, SameUp DEF IInv, UpRight, InTest, OfSuites, InSuites, Iterating
  <2> QED
    BY <2>1, <2>2, <2>3, <2>4, <2>5, <2>6 DEF IInv
<1> QED
  BY <1>2, <1>3, <1>4 DEF SelectReaction

\* From one suite on to the next one.
LEMMA NextSuite ==
  ASSUME IInv, pc \in {"suite", "leaveSuite"}, s \in Suites, pc' = "suite", s' = s + 1,
         UNCHANGED <<flags, plan, i, e, t, current, result, skip_all, failed, exit, events,
                     up, seen>>,
         pc = "suite" => ~SuiteShouldRun(s),
         pc = "leaveSuite" => ~(flags.fail_fast /\ SuiteFailed(s))
  PROVE  IInv'
<1>1. TypeOK'
  BY OwnerFacts DEF IInv, TypeOK, InSuites, Iterating, Places
<1>2. PlaceRight'
  BY OwnerFacts DEF IInv, PlaceRight, InTest, OfSuites, InSuites, Iterating, Places
<1>3. EventsRight'
  <2>1. ASSUME NEW x \in Tests, x[1] = s
        PROVE  Heard(x)
    <3>1. CASE pc = "leaveSuite"
      BY <2>1, <3>1 DEF IInv, EventsRight, Behind, InSuites
    <3>2. CASE pc = "suite"
      <4>1. ~ShouldRun(x)
        BY <2>1, <3>2, OwnerFacts DEF SuiteShouldRun
      <4>2. ~Behind(x)
        BY <2>1, <3>2, OwnerFacts DEF Behind, InTest
      <4> QED
        BY <2>1, <3>2, <4>1, <4>2 DEF IInv, EventsRight, Heard, InTest, InSuites
    <3> QED
      BY <3>1, <3>2
  <2>2. ASSUME NEW x \in Tests
        PROVE  /\ Behind(x)' => Heard(x)
               /\ ~Behind(x)' => events[x] = "none"
    <3>1. x[1] \in Suites /\ x[1] \in Nat /\ s \in Nat
      BY OwnerFacts
    <3>2. Behind(x)' <=> x[1] < s \/ x[1] = s
      BY <3>1 DEF Behind, InTest
    <3>3. Behind(x) => Heard(x)
      BY DEF IInv, EventsRight, InSuites
    <3>4. x[1] > s => ~Behind(x) /\ events[x] = "none"
      BY <3>1 DEF IInv, EventsRight, InSuites, Behind, InTest
    <3>5. x[1] < s => Behind(x)
      BY DEF Behind
    <3> QED
      BY <2>1, <3>1, <3>2, <3>3, <3>4, <3>5
  <2> QED
    BY <2>2, SamePlan DEF EventsRight, Heard, InTest
<1>4. ResultsRight'
  BY SamePlan
  DEF IInv, ResultsRight, SomeFailed, VerdictRight, InTest, OfSuites, InSuites, Iterating
<1>5. FailFastRight'
  <2>1. ASSUME flags.fail_fast, NEW o \in Owners, Failed(result[o])
        PROVE  o = AdHoc
    <3>1. o = AdHoc \/ (o[1] = s /\ pc = "leaveSuite")
      BY <2>1 DEF IInv, FailFastRight, InTest, InSuites
    <3>2. CASE o[1] = s /\ pc = "leaveSuite" /\ o # AdHoc
      <4>1. ~SuiteFailed(s) /\ (o[2] = 0 \/ ShouldRun(o))
        BY <2>1, <3>2 DEF IInv, ResultsRight, Counts
      <4>2. CASE o \in Tests
        <5>1. PICK n \in 1 .. SuiteTests[s] : o = <<s, n>>
          BY <3>2, <4>2, OwnerFacts
        <5>2. n # 0
          BY OwnerFacts
        <5>3. ShouldRun(<<s, n>>) /\ Failed(result[<<s, n>>])
          BY <2>1, <4>1, <5>1, <5>2
        <5> QED
          BY <4>1, <5>3 DEF SuiteFailed
      <4>3. CASE \E x \in Suites : o = <<x, 0>>
        <5>1. o = <<s, 0>>
          BY <3>2, <4>3
        <5> QED
          BY <2>1, <4>1, <5>1 DEF SuiteFailed
      <4> QED
        BY <3>2, <4>2, <4>3, OwnerFacts
    <3> QED
      BY <3>1, <3>2
  <2> QED
    BY <2>1 DEF FailFastRight
<1>6. UpRight'
  BY SamePlan, SameUp DEF IInv, UpRight, InTest, OfSuites, InSuites, Iterating
<1> QED
  BY <1>1, <1>2, <1>3, <1>4, <1>5, <1>6 DEF IInv

LEMMA PassSuiteInv == ASSUME IInv, PassSuite PROVE IInv'
<1>1. pc = "suite" /\ s \in 1 .. Len(SuiteTests) + 1 /\ Len(SuiteTests) \in Nat
  BY DEF PassSuite, IInv, PlaceRight
<1>2. CASE s > Len(SuiteTests) /\ AfterTests /\ s' = s
  <2>1. ASSUME NEW x \in Tests
        PROVE  Heard(x)'
    <3>1. Behind(x)
      BY <1>1, <1>2, OwnerFacts DEF Behind
    <3> QED
      BY <1>1, <3>1, SamePlan DEF PassSuite, IInv, EventsRight, Heard, InSuites
  <2> QED
    BY <1>1, <1>2, <2>1, AfterTestsInv DEF PassSuite, IInv, TypeOK
<1>3. CASE s <= Len(SuiteTests) /\ ~SuiteShouldRun(s) /\ s' = s + 1 /\ pc' = pc /\ e' = e
  <2>1. s \in Suites
    BY <1>1, <1>3, OwnerFacts
  <2> QED
    BY <1>1, <1>3, <2>1, NextSuite DEF PassSuite
<1> QED
  BY <1>2, <1>3 DEF PassSuite

LEMMA LeaveSuiteInv == ASSUME IInv, LeaveSuite PROVE IInv'
<1>1. pc = "leaveSuite" /\ s \in Suites
  BY DEF LeaveSuite, IInv, PlaceRight, InSuites
<1>2. CASE AfterTests /\ s' = s /\ Skip({x \in Tests : x[1] > s}, result)
  <2> DEFINE rest == {x \in Tests : x[1] > s}
  <2>1. UNCHANGED <<flags, plan, i, s, t, current, skip_all, failed, exit, up, seen>>
    BY <1>1, <1>2 DEF LeaveSuite
  <2>2. \A x \in Tests : /\ x \in rest => events[x] = "none"
                         /\ x \notin rest => Heard(x)
    <3>1. \A x \in Tests : Behind(x) <=> x \notin rest
      BY <1>1, OwnerFacts DEF Behind, InTest
    <3> QED
      BY <1>1, <3>1 DEF IInv, EventsRight, InTest, InSuites
  <2>3. Skip(rest, result) /\ rest \in SUBSET Tests
    BY <1>2
  <2> HIDE DEF rest
  <2>4. \A x \in Tests : Heard(x)'
    BY <2>1, <2>2, <2>3, SkipFacts, SamePlan DEF IInv, Heard
  <2> QED
    BY <1>1, <1>2, <2>1, <2>2, <2>3, <2>4, SkipFacts, AfterTestsInv DEF IInv
<1>3. CASE ~(flags.fail_fast /\ SuiteFailed(s)) /\ pc' = "suite" /\ s' = s + 1
           /\ UNCHANGED <<e, result, events>>
  BY <1>1, <1>3, NextSuite DEF LeaveSuite
<1> QED
  BY <1>2, <1>3 DEF LeaveSuite

LEMMA StartIterationInv == ASSUME IInv, StartIteration PROVE IInv'
<1>1. /\ pc = "iteration" /\ i # flags.repeat /\ e' = 1 /\ s' = 1
      /\ result' = [o \in Owners |-> IF o = AdHoc THEN result[o] ELSE {}]
      /\ events' = [x \in Tests |-> "none"]
      /\ pc' = IF ~HasTestsToRun THEN "iterationEnd"
               ELSE IF i = 0 \/ Recreate THEN "envSetUp" ELSE "select"
      /\ UNCHANGED <<flags, plan, i, t, current, skip_all, failed, exit, up, seen>>
  BY DEF StartIteration
<1>2. TypeOK'
  <2>1. result' \in [Owners -> SUBSET Part]
    BY <1>1 DEF IInv, TypeOK
  <2>2. events' \in [Tests -> Verdicts \cup {"none", "started", "again", "disabled"}]
    BY <1>1
  <2> QED
    BY <1>1, <2>1, <2>2 DEF IInv, TypeOK, Iterating, Places
<1>3. PlaceRight'
  BY <1>1, SamePlan DEF IInv, PlaceRight, InTest, OfSuites, InSuites, Iterating, Places
<1>4. EventsRight'
  <2>1. ~HasTestsToRun => \A x \in Tests : ~ShouldRun(x)
    BY DEF HasTestsToRun
  <2> QED
    BY <1>1, <2>1, SamePlan DEF EventsRight, Heard, InTest, OfSuites, InSuites
<1>5. ResultsRight'
  <2>1. \A o \in Owners : Failed(result'[o]) <=> o = AdHoc /\ Failed(result[AdHoc])
    BY <1>1 DEF Failed
  <2>2. Counts(AdHoc) /\ AdHoc \in Owners
    BY OwnerFacts DEF Counts
  <2>3. seen' <=> failed' \/ Failed(result[AdHoc])
    <3>1. i > 0 => (seen <=> failed) /\ (Failed(result[AdHoc]) => failed)
      BY <1>1, <2>2 DEF IInv, ResultsRight, SomeFailed
    <3>2. i = 0 \/ i > 0
      BY FlagFacts DEF IInv
    <3> QED
      BY <1>1, <3>1, <3>2 DEF IInv, ResultsRight
  <2> QED
    BY <1>1, <2>1, <2>2, <2>3, SamePlan
    DEF ResultsRight, SomeFailed, VerdictRight, Iterating
<1>6. FailFastRight'
  <2>1. \A o \in Owners : Failed(result'[o]) => o = AdHoc
    BY <1>1 DEF Failed
  <2> QED
    BY <1>1, <2>1 DEF FailFastRight, InTest, OfSuites, InSuites
<1>7. UpRight'
  <2>1. /\ EnvsUp(IF Stays /\ i # 0 THEN NEnv ELSE 0)
        /\ HasTestsToRun /\ ~(i = 0 \/ Recreate) <=> Stays /\ i # 0
        /\ \A item \in InSuite : item \notin up
    BY <1>1 DEF IInv, UpRight, Stays, InSuite, InTest
  <2> QED
    BY <1>1, <2>1, SamePlan, SameUp
    DEF IInv, UpRight, Stays, InSuite, InTest, OfSuites, InSuites, Iterating
<1> QED
  BY <1>2, <1>3, <1>4, <1>5, <1>6, <1>7 DEF IInv

\* On to the next test, when this one, x, has been reported.
LEMMA NextTest ==
  ASSUME IInv, pc \in {"test", "endTest"}, pc' = "test", t' = t + 1, t \in 1 .. SuiteTests[s],
         s \in Suites, SuiteShouldRun(s), current' = <<s, 0>>,
         UNCHANGED <<flags, plan, i, e, s, skip_all, failed, exit, up, seen>>,
         result' \in [Owners -> SUBSET Part],
         \A o \in Owners : Failed(result'[o]) <=> Failed(result[o]),
         pc = "endTest" /\ flags.fail_fast => ~Failed(result[<<s, t>>]),
         events' \in [Tests -> Verdicts \cup {"none", "started", "again", "disabled"}],
         NEW now \in Tests, now = <<s, t>>, Heard(now)',
         \A x \in Tests : x # now => events'[x] = events[x]
  PROVE  IInv'
<1>1. <<s, t>> \in Tests /\ <<s, 0>> \in Owners /\ s \in Nat /\ t \in Nat
  BY OwnerFacts
<1>2. TypeOK'
  BY <1>1 DEF IInv, TypeOK, OfSuites, InSuites, Iterating, Places
<1>3. PlaceRight'
  BY <1>1, SamePlan, OwnerFacts
  DEF IInv, PlaceRight, InTest, OfSuites, InSuites, Iterating, Places
<1>4. EventsRight'
  <2>1. ASSUME NEW x \in Tests
        PROVE  /\ Behind(x)' => Heard(x)'
               /\ ~Behind(x)' => events'[x] = "none"
    <3>1. x[1] \in Nat /\ x[2] \in Nat /\ x = <<x[1], x[2]>>
      BY OwnerFacts
    <3>2. Behind(x)' <=> Behind(x) \/ x = now
      BY <1>1, <3>1 DEF Behind, InTest
    <3>3. x # now => /\ Behind(x) => Heard(x)
                     /\ ~Behind(x) => events[x] = "none"
      BY DEF IInv, EventsRight, InTest, OfSuites, InSuites
    <3>4. x # now => (Heard(x)' <=> Heard(x))
      BY SamePlan DEF Heard
    <3> QED
      BY <3>2, <3>3, <3>4
  <2> QED
    BY <2>1 DEF EventsRight, InTest
<1>5. ResultsRight'
  BY SamePlan
  DEF IInv, ResultsRight, SomeFailed, VerdictRight, InTest, OfSuites, InSuites, Iterating
<1>6. FailFastRight'
  BY DEF IInv, FailFastRight, InTest, OfSuites, InSuites
<1>7. UpRight'
  BY SamePlan, SameUp DEF IInv, UpRight, InTest, OfSuites, InSuites, Iterating
<1> QED
  BY <1>2, <1>3, <1>4, <1>5, <1>6, <1>7 DEF IInv

LEMMA PassTestInv == ASSUME IInv, PassTest PROVE IInv'
<1>1. /\ pc = "test" /\ pc' = pc /\ t <= SuiteTests[s] /\ t' = t + 1
      /\ UNCHANGED <<flags, plan, i, e, s, current, skip_all, failed, exit, up, seen>>
  BY DEF PassTest
<1>2. /\ s \in Suites /\ SuiteShouldRun(s) /\ t \in 1 .. SuiteTests[s] /\ current = <<s, 0>>
      /\ SuiteTests[s] \in Nat
  BY <1>1, OwnerFacts DEF IInv, PlaceRight, InTest, OfSuites, InSuites, Iterating, Places
<1>3. PICK now \in Tests : now = <<s, t>>
  BY <1>2, OwnerFacts
<1>4. events[now] = "none"
  <2>1. ~Behind(now)
    BY <1>1, <1>2, <1>3, OwnerFacts DEF Behind, InTest
  <2> QED
    BY <1>1, <1>3, <2>1 DEF IInv, EventsRight, InTest, OfSuites, InSuites
<1>5. CASE Skip({<<s, t>>}, result)
  <2>1. Skip({now}, result) /\ {now} \in SUBSET Tests /\ \A x \in {now} : events[x] = "none"
    BY <1>3, <1>4, <1>5
  <2>2. /\ result' \in [Owners -> SUBSET Part]
        /\ \A o \in Owners : Failed(result'[o]) <=> Failed(result[o])
        /\ events' \in [Tests -> Verdicts \cup {"none", "started", "again", "disabled"}]
        /\ ShouldRun(now) => events'[now] \in Verdicts
        /\ ~ShouldRun(now) => events'[now] = events[now]
        /\ \A x \in Tests : x # now => events'[x] = events[x]
    BY <2>1, SkipFacts DEF IInv
  <2>3. Heard(now)'
    BY <1>1, <1>4, <2>2, SamePlan DEF Heard
  <2> QED
    BY <1>1, <1>2, <1>3, <2>2, <2>3, NextTest
<1>6. CASE /\ ~ShouldRun(<<s, t>>) /\ result' = result
           /\ events' = [events EXCEPT ![<<s, t>>] =
                           IF plan[<<s, t>>] = "disabled" THEN "disabled" ELSE @]
  <2>1. Heard(now)' /\ \A x \in Tests : x # now => events'[x] = events[x]
    BY <1>1, <1>3, <1>4, <1>6, SamePlan DEF IInv, TypeOK, Heard
  <2>2. events' \in [Tests -> Verdicts \cup {"none", "started", "again", "disabled"}]
    BY <1>3, <1>6 DEF IInv, TypeOK
  <2> QED
    BY <1>1, <1>2, <1>3, <1>6, <2>1, <2>2, NextTest DEF IInv, TypeOK
<1> QED
  BY <1>5, <1>6 DEF PassTest

LEMMA StartTestInv == ASSUME IInv, StartTest PROVE IInv'
<1>1. /\ pc = "test" /\ pc' = "construct" /\ t <= SuiteTests[s] /\ ~skip_all
      /\ ShouldRun(<<s, t>>) /\ current' = <<s, t>>
      /\ events' = [events EXCEPT ![<<s, t>>] = Start(<<s, t>>)]
      /\ UNCHANGED <<flags, plan, i, e, s, t, result, skip_all, failed, exit, up, seen>>
  BY DEF StartTest
<1>2. s \in Suites /\ SuiteShouldRun(s) /\ t \in 1 .. SuiteTests[s] /\ SuiteTests[s] \in Nat
  BY <1>1, OwnerFacts DEF IInv, PlaceRight, InTest, OfSuites, InSuites, Iterating, Places
<1>3. <<s, t>> \in Tests /\ <<s, t>> \in Owners
  BY <1>2, OwnerFacts
<1>4. ~Behind(<<s, t>>) /\ events[<<s, t>>] = "none"
  <2>1. ~Behind(<<s, t>>)
    BY <1>1, <1>2, OwnerFacts DEF Behind, InTest
  <2> QED
    BY <1>1, <1>3, <2>1 DEF IInv, EventsRight, InTest, OfSuites, InSuites
<1>5. /\ events' \in [Tests -> Verdicts \cup {"none", "started", "again", "disabled"}]
      /\ events'[<<s, t>>] = "started"
      /\ \A x \in Tests : x # <<s, t>> => events'[x] = events[x]
  BY <1>1, <1>3, <1>4 DEF IInv, TypeOK, Start
<1>6. TypeOK'
  BY <1>1, <1>3, <1>5 DEF IInv, TypeOK, InTest, InSuites, Iterating, Places
<1>7. PlaceRight'
  BY <1>1, <1>2, <1>3, SamePlan DEF PlaceRight, InTest, OfSuites, InSuites, Iterating, Places
<1>8. EventsRight'
  <2>1. \A x \in Tests : Behind(x)' <=> Behind(x)
    BY <1>1 DEF Behind, InTest
  <2> QED
    BY <1>1, <1>4, <1>5, <2>1, SamePlan DEF IInv, EventsRight, Heard, InTest, OfSuites, InSuites
<1>9. ResultsRight'
  BY <1>1, SamePlan
  DEF IInv, ResultsRight, SomeFailed, VerdictRight, InTest, OfSuites, InSuites, Iterating
<1>10. FailFastRight'
  BY <1>1 DEF IInv, FailFastRight, InTest, OfSuites, InSuites
<1>11. UpRight'
  BY <1>1, SamePlan, SameUp DEF IInv, UpRight, InTest, OfSuites, InSuites, Iterating
<1> QED
  BY <1>6, <1>7, <1>8, <1>9, <1>10, <1>11 DEF IInv

LEMMA EndTestInv == ASSUME IInv, EndTest PROVE IInv'
<1> DEFINE rest  == {x \in Tests : x[1] = s /\ x[2] > t /\ ShouldRun(x)}
           ended == [events EXCEPT ![current] = End(current, result[current])]
<1>1. /\ pc = "endTest" /\ current' = <<s, 0>>
      /\ UNCHANGED <<flags, plan, i, e, s, skip_all, failed, exit, up, seen>>
  BY DEF EndTest
<1>2. PICK now \in Tests : now = <<s, t>> /\ current = now /\ ShouldRun(now)
  BY <1>1 DEF IInv, PlaceRight, InTest, InSuites, Iterating, Places
<1>3. /\ s \in Suites /\ SuiteShouldRun(s) /\ t \in 1 .. SuiteTests[s] /\ s \in Nat /\ t \in Nat
      /\ <<s, 0>> \in Owners
  BY <1>1, <1>2, OwnerFacts DEF IInv, PlaceRight, InTest, InSuites
<1>4. \A r : Verdict(r) \in Verdicts
  BY DEF Verdict, Verdicts
<1>5. events[now] = "started"
  <2>1. ~Behind(now)
    BY <1>1, <1>2, <1>3 DEF Behind, InTest
  <2> QED
    BY <1>1, <1>2, <2>1 DEF IInv, EventsRight, InTest, InSuites
<1>6. /\ ended \in [Tests -> Verdicts \cup {"none", "started", "again", "disabled"}]
      /\ ended[now] \in Verdicts /\ \A x \in Tests : x # now => ended[x] = events[x]
  BY <1>2, <1>4, <1>5 DEF IInv, TypeOK, End
<1> HIDE DEF ended
<1>7. CASE /\ flags.fail_fast /\ Failed(result[current])
           /\ result' = [o \in Owners |-> IF o \in rest THEN result[o] \cup {"skip"} ELSE result[o]]
           /\ events' = [x \in Tests |-> IF x \in rest THEN Verdict({"skip"}) ELSE ended[x]]
           /\ pc' = "tearDownSuite" /\ t' = t
  <2>1. result' \in [Owners -> SUBSET Part]
    BY <1>7 DEF IInv, TypeOK, Part
  <2>2. \A o \in Owners : Failed(result'[o]) <=> Failed(result[o])
    BY <1>7 DEF Failed, Failure
  <2>3. result'[AdHoc] = result[AdHoc]
    BY <1>7, OwnerFacts
  <2>4. events' \in [Tests -> Verdicts \cup {"none", "started", "again", "disabled"}]
    <3>1. \A x \in Tests : events'[x] \in Verdicts \cup {"none", "started", "again", "disabled"}
      BY <1>4, <1>6, <1>7
    <3> QED
      BY <1>7, <3>1
  <2>5. TypeOK'
    BY <1>1, <1>3, <1>7, <2>1, <2>4 DEF IInv, TypeOK, OfSuites, InSuites, Iterating, Places
  <2>6. PlaceRight'
    BY <1>1, <1>3, <1>7, SamePlan
    DEF PlaceRight, InTest, OfSuites, InSuites, Iterating, Places
  <2>7. EventsRight'
    <3>1. ASSUME NEW x \in Tests
          PROVE  /\ Behind(x)' => Heard(x)'
                 /\ ~Behind(x)' => events'[x] = "none"
      <4>1. /\ x[1] \in Nat /\ x[2] \in Nat /\ x = <<x[1], x[2]>>
            /\ x = now <=> x[1] = s /\ x[2] = t
        BY <1>2, OwnerFacts
      <4>2. Behind(x)' <=> x[1] <= s
        BY <1>1, <1>3, <1>7, <4>1 DEF Behind, InTest
      <4>3. Behind(x) <=> x[1] < s \/ (x[1] = s /\ x[2] < t)
        BY <1>1 DEF Behind, InTest
      <4>4. x # now => /\ Behind(x) => Heard(x)
                       /\ ~Behind(x) => events[x] = "none"
        BY <1>1, <1>2 DEF IInv, EventsRight, InTest, InSuites
      <4>5. CASE x \in rest
        BY <1>1, <1>3, <1>4, <1>7, <4>1, <4>2, <4>5, SamePlan DEF Heard
      <4>6. CASE x = now
        BY <1>1, <1>2, <1>6, <1>7, <4>1, <4>2, <4>6, SamePlan DEF Heard
      <4>7. CASE x \notin rest /\ x # now
        <5>1. events'[x] = events[x]
          BY <1>6, <1>7, <4>7
        <5>2. x[1] = s /\ x[2] > t => ~ShouldRun(x)
          BY <4>7
        <5> QED
          BY <1>1, <1>3, <4>1, <4>2, <4>3, <4>4, <4>7, <5>1, <5>2, SamePlan DEF Heard
      <4> QED
        BY <4>5, <4>6, <4>7
    <3> QED
      BY <1>7, <3>1 DEF EventsRight, InTest
  <2>8. ResultsRight'
    BY <1>1, <1>7, <2>2, SamePlan
    DEF IInv, ResultsRight, SomeFailed, VerdictRight, InTest, OfSuites, InSuites, Iterating
  <2>9. FailFastRight'
    BY <1>1, <1>7, <2>2 DEF IInv, FailFastRight, InTest, OfSuites, InSuites
  <2>10. UpRight'
    BY <1>1, <1>7, SamePlan, SameUp DEF IInv, UpRight, InTest, OfSuites, InSuites, Iterating
  <2> QED
    BY <2>5, <2>6, <2>7, <2>8, <2>9, <2>10 DEF IInv
<1>8. CASE /\ ~(flags.fail_fast /\ Failed(result[current]))
           /\ result' = result /\ events' = ended /\ pc' = "test" /\ t' = t + 1
  <2>1. Heard(now)' /\ \A x \in Tests : x # now => events'[x] = events[x]
    BY <1>1, <1>2, <1>6, <1>8, SamePlan DEF Heard
  <2> QED
    BY <1>1, <1>2, <1>3, <1>6, <1>8, <2>1, NextTest DEF IInv, TypeOK
<1> QED
  BY <1>7, <1>8 DEF EndTest, ended

-----------------------------------------------------------------------------
(* The calls of user code.                                                 *)

LEMMA SetUpEnvironmentInv == ASSUME IInv, SetUpEnvironment PROVE IInv'
<1>1. PICK st \in Statements :
        \/ /\ Goes(Direct(st)) /\ Record(st, Direct(st).added)
           /\ up' = up \cup {<<"env", e>>} /\ e' = e + 1 /\ e <= NEnv
           /\ UNCHANGED <<flags, plan, pc, i, s, t, current, skip_all, failed, exit, events>>
        \/ Escape(st, Direct(st))
  BY DEF SetUpEnvironment
<1>2. pc \in {"envSetUp"} /\ pc # "left" /\ st \in Statement
  BY DEF SetUpEnvironment
<1>3. CASE Escape(st, Direct(st))
  BY <1>2, <1>3, EscapeLeaves
<1>4. CASE /\ Goes(Direct(st)) /\ Record(st, Direct(st).added)
           /\ up' = up \cup {<<"env", e>>} /\ e' = e + 1 /\ e <= NEnv
           /\ UNCHANGED <<flags, plan, pc, i, s, t, current, skip_all, failed, exit, events>>
  <2>1. PICK parts : Recorded(parts)
    BY <1>2, <1>4, RecordFacts DEF IInv
  <2>2. TypeOK'
    <3>1. e \in Envs /\ <<"env", e>> \in Items
      BY <1>2, <1>4 DEF IInv, UpRight, Envs, Items
    <3> QED
      BY <1>2, <1>4, <2>1, <3>1, RecordedFacts DEF IInv, TypeOK
  <2>3. PlaceRight'
    BY <1>2, <1>4, SamePlan DEF IInv, PlaceRight, InTest, OfSuites, InSuites, Iterating, Places
  <2>4. EventsRight'
    BY <1>2, <1>4, <2>1, RecordedFacts, SamePlan DEF IInv, EventsRight, Heard, Behind, InTest,
       OfSuites, InSuites, Iterating, Places
  <2>5. ResultsRight'
    BY <1>2, <1>4, <2>1, RecordedResults DEF InTest, OfSuites, InSuites, Iterating
  <2>6. FailFastRight'
    BY <1>2, <1>4, <2>1, RecordedFacts DEF IInv, FailFastRight, PlaceRight, InTest, OfSuites,
       InSuites, Iterating, Places
  <2>7. UpRight'
    <3>1. e \in 1 .. NEnv /\ EnvsUp(e - 1)
      BY <1>2, <1>4 DEF IInv, UpRight
    <3>2. /\ \A x \in Envs : <<"env", x>> \in up' <=> x <= e
          /\ \A item \in InSuite : item \in up' <=> item \in up
      BY <1>4, <3>1 DEF EnvsUp, Envs, InSuite
    <3>3. e \in 0 .. NEnv /\ e' - 1 = e /\ e' \in 1 .. NEnv + 1
      BY <1>4, <3>1
    <3>4. \E n \in 0 .. NEnv : EnvsUp(n)'
      BY <3>2, <3>3 DEF EnvsUp
    <3>5. /\ HasTestsToRun
          /\ \A item \in InSuite : item \notin up
      BY <1>2 DEF IInv, UpRight, InSuite, InTest, OfSuites, InSuites, Iterating
    <3> QED
      BY <1>2, <1>4, <3>2, <3>3, <3>4, <3>5, SamePlan
      DEF UpRight, EnvsUp, InSuite, InTest, OfSuites, InSuites, Iterating
  <2> QED
    BY <2>2, <2>3, <2>4, <2>5, <2>6, <2>7 DEF IInv
<1> QED
  BY <1>1, <1>3, <1>4

LEMMA TearDownEnvironmentInv == ASSUME IInv, TearDownEnvironment PROVE IInv'
<1>1. PICK st \in Statements :
        \/ /\ Goes(Direct(st)) /\ Record(st, Direct(st).added)
           /\ up' = up \ {<<"env", e>>} /\ e' = e - 1 /\ e > 0
           /\ UNCHANGED <<flags, plan, pc, i, s, t, current, skip_all, failed, exit, events>>
        \/ Escape(st, Direct(st))
  BY DEF TearDownEnvironment
<1>2. pc \in {"envTearDown"} /\ pc # "left" /\ st \in Statement
  BY DEF TearDownEnvironment
<1>3. CASE Escape(st, Direct(st))
  BY <1>2, <1>3, EscapeLeaves
<1>4. CASE /\ Goes(Direct(st)) /\ Record(st, Direct(st).added)
           /\ up' = up \ {<<"env", e>>} /\ e' = e - 1 /\ e > 0
           /\ UNCHANGED <<flags, plan, pc, i, s, t, current, skip_all, failed, exit, events>>
  <2>1. PICK parts : Recorded(parts)
    BY <1>2, <1>4, RecordFacts DEF IInv
  <2>2. TypeOK'
    BY <1>2, <1>4, <2>1, RecordedFacts DEF IInv, TypeOK, Items, InSuite, InTest, OfSuites,
       InSuites, Iterating, Places
  <2>3. PlaceRight'
    BY <1>2, <1>4, SamePlan DEF IInv, PlaceRight, InTest, OfSuites, InSuites, Iterating, Places
  <2>4. EventsRight'
    BY <1>2, <1>4, <2>1, RecordedFacts, SamePlan, OwnerFacts DEF IInv, EventsRight, Heard,
       Behind, InTest, OfSuites, InSuites, Iterating, Places
  <2>5. ResultsRight'
    BY <1>2, <1>4, <2>1, RecordedResults DEF InTest, OfSuites, InSuites, Iterating
  <2>6. FailFastRight'
    BY <1>2, <1>4, <2>1, RecordedFacts DEF IInv, FailFastRight, PlaceRight, InTest, OfSuites,
       InSuites, Iterating, Places
  <2>7. UpRight'
    <3>1. e \in 1 .. NEnv /\ EnvsUp(e) /\ (Recreate \/ i = flags.repeat - 1)
      BY <1>2, <1>4 DEF IInv, UpRight
    <3>2. /\ \A x \in Envs : <<"env", x>> \in up' <=> x <= e'
          /\ \A item \in InSuite : item \in up' <=> item \in up
      BY <1>4, <3>1 DEF EnvsUp, Envs, InSuite
    <3>3. e' \in 0 .. NEnv
      BY <1>4, <3>1
    <3>4. \E n \in 0 .. NEnv : EnvsUp(n)'
      BY <3>2, <3>3 DEF EnvsUp
    <3>5. /\ HasTestsToRun
          /\ \A item \in InSuite : item \notin up
      BY <1>2 DEF IInv, UpRight, InSuite, InTest, OfSuites, InSuites, Iterating
    <3> QED
      BY <1>2, <1>4, <3>1, <3>2, <3>3, <3>4, <3>5, SamePlan
      DEF UpRight, EnvsUp, InSuite, InTest, OfSuites, InSuites, Iterating
  <2> QED
    BY <2>2, <2>3, <2>4, <2>5, <2>6, <2>7 DEF IInv
<1> QED
  BY <1>1, <1>3, <1>4

LEMMA SetUpTestSuiteInv == ASSUME IInv, SetUpTestSuite PROVE IInv'
<1>1. PICK st \in Statements :
        \/ /\ Goes(Wrapped(st)) /\ Record(st, Wrapped(st).added)
           /\ up' = up \cup {<<"suite", 0>>} /\ t' = 1 /\ pc' = "test"
           /\ skip_all' = (Failed(result'[current]) \/ Skipped(result'[current]))
           /\ UNCHANGED <<flags, plan, i, e, s, current, failed, exit, events>>
        \/ Escape(st, Wrapped(st))
  BY DEF SetUpTestSuite, Protected
<1>2. pc \in {"setUpSuite"} /\ pc # "left" /\ st \in Statement
  BY DEF SetUpTestSuite
<1>3. CASE Escape(st, Wrapped(st))
  BY <1>2, <1>3, EscapeLeaves
<1>4. CASE /\ Goes(Wrapped(st)) /\ Record(st, Wrapped(st).added)
           /\ up' = up \cup {<<"suite", 0>>} /\ t' = 1 /\ pc' = "test"
           /\ skip_all' = (Failed(result'[current]) \/ Skipped(result'[current]))
           /\ UNCHANGED <<flags, plan, i, e, s, current, failed, exit, events>>
  <2>1. PICK parts : Recorded(parts)
    BY <1>2, <1>4, RecordFacts DEF IInv
  <2>2. TypeOK'
    BY <1>2, <1>4, <2>1, RecordedFacts DEF IInv, TypeOK, Items, InSuite, InTest, OfSuites,
       InSuites, Iterating, Places
  <2>3. PlaceRight'
    <3>1. s \in Suites /\ SuiteShouldRun(s) /\ current = <<s, 0>> /\ SuiteTests[s] \in Nat
      BY <1>2, OwnerFacts DEF IInv, PlaceRight, InTest, OfSuites, InSuites, Iterating, Places
    <3> QED
      BY <1>4, <3>1, SamePlan DEF PlaceRight, InTest, OfSuites, InSuites, Iterating, Places
  <2>4. EventsRight'
    <3>1. \A x \in Tests : Behind(x)' <=> Behind(x)
      BY <1>2, <1>4, OwnerFacts DEF Behind, InTest
    <3> QED
      BY <1>2, <1>4, <3>1, SamePlan DEF IInv, EventsRight, Heard, InTest, OfSuites, InSuites
  <2>5. ResultsRight'
    BY <1>2, <1>4, <2>1, RecordedResults DEF InTest, OfSuites, InSuites, Iterating
  <2>6. FailFastRight'
    BY <1>2, <1>4, <2>1, RecordedFacts DEF IInv, FailFastRight, PlaceRight, InTest, OfSuites,
       InSuites, Iterating, Places
  <2>7. UpRight'
    BY <1>2, <1>4, SamePlan DEF IInv, UpRight, EnvsUp, Items, InSuite, InTest, OfSuites,
       InSuites, Iterating, Places
  <2> QED
    BY <2>2, <2>3, <2>4, <2>5, <2>6, <2>7 DEF IInv
<1> QED
  BY <1>1, <1>3, <1>4

LEMMA TearDownTestSuiteInv == ASSUME IInv, TearDownTestSuite PROVE IInv'
<1>1. PICK st \in Statements :
        \/ /\ Goes(Wrapped(st)) /\ Record(st, Wrapped(st).added)
           /\ up' = up \ {<<"suite", 0>>} /\ current' = AdHoc /\ pc' = "leaveSuite"
           /\ UNCHANGED <<flags, plan, i, e, s, t, skip_all, failed, exit, events>>
        \/ Escape(st, Wrapped(st))
  BY DEF TearDownTestSuite, Protected
<1>2. pc \in {"tearDownSuite"} /\ pc # "left" /\ st \in Statement
  BY DEF TearDownTestSuite
<1>3. CASE Escape(st, Wrapped(st))
  BY <1>2, <1>3, EscapeLeaves
<1>4. CASE /\ Goes(Wrapped(st)) /\ Record(st, Wrapped(st).added)
           /\ up' = up \ {<<"suite", 0>>} /\ current' = AdHoc /\ pc' = "leaveSuite"
           /\ UNCHANGED <<flags, plan, i, e, s, t, skip_all, failed, exit, events>>
  <2>1. PICK parts : Recorded(parts)
    BY <1>2, <1>4, RecordFacts DEF IInv
  <2>2. TypeOK'
    BY <1>2, <1>4, <2>1, RecordedFacts, OwnerFacts DEF IInv, TypeOK, Items, InSuite, InTest,
       OfSuites, InSuites, Iterating, Places
  <2>3. PlaceRight'
    BY <1>2, <1>4, SamePlan DEF IInv, PlaceRight, InTest, OfSuites, InSuites, Iterating, Places
  <2>4. EventsRight'
    BY <1>2, <1>4, <2>1, RecordedFacts, SamePlan DEF IInv, EventsRight, Heard, Behind, InTest,
       OfSuites, InSuites, Iterating, Places
  <2>5. ResultsRight'
    BY <1>2, <1>4, <2>1, RecordedResults DEF InTest, OfSuites, InSuites, Iterating
  <2>6. FailFastRight'
    BY <1>2, <1>4, <2>1, RecordedFacts DEF IInv, FailFastRight, PlaceRight, InTest, OfSuites,
       InSuites, Iterating, Places
  <2>7. UpRight'
    BY <1>2, <1>4, SamePlan DEF IInv, UpRight, EnvsUp, Items, InSuite, InTest, OfSuites,
       InSuites, Iterating, Places
  <2> QED
    BY <2>2, <2>3, <2>4, <2>5, <2>6, <2>7 DEF IInv
<1> QED
  BY <1>1, <1>3, <1>4

LEMMA SetUpInv == ASSUME IInv, SetUp PROVE IInv'
<1>1. PICK st \in Statements :
        \/ /\ Goes(Wrapped(st)) /\ Record(st, Wrapped(st).added)
           /\ up' = up \cup {<<"fixture", 0>>}
           /\ pc' \in {"body", "tearDown"}
           /\ pc' = "body" => GoesOn(result'[current])
           /\ UNCHANGED <<flags, plan, i, e, s, t, current, skip_all, failed, exit, events>>
        \/ Escape(st, Wrapped(st))
  BY DEF SetUp, Protected
<1>2. pc \in {"setUp"} /\ pc # "left" /\ st \in Statement
  BY DEF SetUp
<1>3. CASE Escape(st, Wrapped(st))
  BY <1>2, <1>3, EscapeLeaves
<1>4. CASE /\ Goes(Wrapped(st)) /\ Record(st, Wrapped(st).added)
           /\ up' = up \cup {<<"fixture", 0>>}
           /\ pc' \in {"body", "tearDown"}
           /\ pc' = "body" => GoesOn(result'[current])
           /\ UNCHANGED <<flags, plan, i, e, s, t, current, skip_all, failed, exit, events>>
  <2>1. PICK parts : Recorded(parts)
    BY <1>2, <1>4, RecordFacts DEF IInv
  <2>2. TypeOK'
    BY <1>2, <1>4, <2>1, RecordedFacts DEF IInv, TypeOK, Items, InSuite, InTest, OfSuites,
       InSuites, Iterating, Places
  <2>3. PlaceRight'
    BY <1>2, <1>4, SamePlan DEF IInv, PlaceRight, InTest, OfSuites, InSuites, Iterating, Places
  <2>4. EventsRight'
    BY <1>2, <1>4, <2>1, RecordedFacts, SamePlan DEF IInv, EventsRight, Heard, Behind, InTest,
       OfSuites, InSuites, Iterating, Places
  <2>5. ResultsRight'
    BY <1>2, <1>4, <2>1, RecordedResults DEF InTest, OfSuites, InSuites, Iterating
  <2>6. FailFastRight'
    BY <1>2, <1>4, <2>1, RecordedFacts
    DEF IInv, FailFastRight, PlaceRight, GoesOn, InTest, OfSuites, InSuites, Iterating, Places
  <2>7. UpRight'
    BY <1>2, <1>4, SamePlan DEF IInv, UpRight, EnvsUp, Items, InSuite, InTest, OfSuites,
       InSuites, Iterating, Places
  <2> QED
    BY <2>2, <2>3, <2>4, <2>5, <2>6, <2>7 DEF IInv
<1> QED
  BY <1>1, <1>3, <1>4

LEMMA TestBodyInv == ASSUME IInv, TestBody PROVE IInv'
<1>1. PICK st \in Statements :
        \/ /\ Goes(Wrapped(st)) /\ Record(st, Wrapped(st).added)
           /\ pc' = "tearDown"
           /\ UNCHANGED <<flags, plan, i, e, s, t, current, skip_all, failed, exit, events, up>>
        \/ Escape(st, Wrapped(st))
  BY DEF TestBody, Protected
<1>2. pc \in {"body"} /\ pc # "left" /\ st \in Statement
  BY DEF TestBody
<1>3. CASE Escape(st, Wrapped(st))
  BY <1>2, <1>3, EscapeLeaves
<1>4. CASE /\ Goes(Wrapped(st)) /\ Record(st, Wrapped(st).added)
           /\ pc' = "tearDown"
           /\ UNCHANGED <<flags, plan, i, e, s, t, current, skip_all, failed, exit, events, up>>
  <2>1. PICK parts : Recorded(parts)
    BY <1>2, <1>4, RecordFacts DEF IInv
  <2>2. TypeOK'
    BY <1>2, <1>4, <2>1, RecordedFacts DEF IInv, TypeOK, Items, InSuite, InTest, OfSuites,
       InSuites, Iterating, Places
  <2>3. PlaceRight'
    BY <1>2, <1>4, SamePlan DEF IInv, PlaceRight, InTest, OfSuites, InSuites, Iterating, Places
  <2>4. EventsRight'
    BY <1>2, <1>4, <2>1, RecordedFacts, SamePlan DEF IInv, EventsRight, Heard, Behind, InTest,
       OfSuites, InSuites, Iterating, Places
  <2>5. ResultsRight'
    BY <1>2, <1>4, <2>1, RecordedResults DEF InTest, OfSuites, InSuites, Iterating
  <2>6. FailFastRight'
    BY <1>2, <1>4, <2>1, RecordedFacts DEF IInv, FailFastRight, PlaceRight, InTest, OfSuites,
       InSuites, Iterating, Places
  <2>7. UpRight'
    BY <1>2, <1>4, SamePlan DEF IInv, UpRight, EnvsUp, Items, InSuite, InTest, OfSuites,
       InSuites, Iterating, Places
  <2> QED
    BY <2>2, <2>3, <2>4, <2>5, <2>6, <2>7 DEF IInv
<1> QED
  BY <1>1, <1>3, <1>4

LEMMA TearDownInv == ASSUME IInv, TearDown PROVE IInv'
<1>1. PICK st \in Statements :
        \/ /\ Goes(Wrapped(st)) /\ Record(st, Wrapped(st).added)
           /\ pc' = "delete" /\ up' = up \ {<<"fixture", 0>>}
           /\ UNCHANGED <<flags, plan, i, e, s, t, current, skip_all, failed, exit, events>>
        \/ Escape(st, Wrapped(st))
  BY DEF TearDown, Protected
<1>2. pc \in {"tearDown"} /\ pc # "left" /\ st \in Statement
  BY DEF TearDown
<1>3. CASE Escape(st, Wrapped(st))
  BY <1>2, <1>3, EscapeLeaves
<1>4. CASE /\ Goes(Wrapped(st)) /\ Record(st, Wrapped(st).added)
           /\ pc' = "delete" /\ up' = up \ {<<"fixture", 0>>}
           /\ UNCHANGED <<flags, plan, i, e, s, t, current, skip_all, failed, exit, events>>
  <2>1. PICK parts : Recorded(parts)
    BY <1>2, <1>4, RecordFacts DEF IInv
  <2>2. TypeOK'
    BY <1>2, <1>4, <2>1, RecordedFacts DEF IInv, TypeOK, Items, InSuite, InTest, OfSuites,
       InSuites, Iterating, Places
  <2>3. PlaceRight'
    BY <1>2, <1>4, SamePlan DEF IInv, PlaceRight, InTest, OfSuites, InSuites, Iterating, Places
  <2>4. EventsRight'
    BY <1>2, <1>4, <2>1, RecordedFacts, SamePlan DEF IInv, EventsRight, Heard, Behind, InTest,
       OfSuites, InSuites, Iterating, Places
  <2>5. ResultsRight'
    BY <1>2, <1>4, <2>1, RecordedResults DEF InTest, OfSuites, InSuites, Iterating
  <2>6. FailFastRight'
    BY <1>2, <1>4, <2>1, RecordedFacts DEF IInv, FailFastRight, PlaceRight, InTest, OfSuites,
       InSuites, Iterating, Places
  <2>7. UpRight'
    BY <1>2, <1>4, SamePlan DEF IInv, UpRight, EnvsUp, Items, InSuite, InTest, OfSuites,
       InSuites, Iterating, Places
  <2> QED
    BY <2>2, <2>3, <2>4, <2>5, <2>6, <2>7 DEF IInv
<1> QED
  BY <1>1, <1>3, <1>4

LEMMA DeleteTestInv == ASSUME IInv, DeleteTest PROVE IInv'
<1>1. PICK st \in Statements :
        \/ /\ Goes(Direct(st)) /\ Record(st, Direct(st).added)
           /\ pc' = "endTest" /\ up' = up \ {<<"object", 0>>}
           /\ UNCHANGED <<flags, plan, i, e, s, t, current, skip_all, failed, exit, events>>
        \/ Terminate(st, Direct(st))
  BY DEF DeleteTest
<1>2. pc \in {"delete"} /\ pc # "left" /\ st \in Statement
  BY DEF DeleteTest
<1>3. CASE Terminate(st, Direct(st))
  BY <1>2, <1>3, EscapeLeaves
<1>4. CASE /\ Goes(Direct(st)) /\ Record(st, Direct(st).added)
           /\ pc' = "endTest" /\ up' = up \ {<<"object", 0>>}
           /\ UNCHANGED <<flags, plan, i, e, s, t, current, skip_all, failed, exit, events>>
  <2>1. PICK parts : Recorded(parts)
    BY <1>2, <1>4, RecordFacts DEF IInv
  <2>2. TypeOK'
    BY <1>2, <1>4, <2>1, RecordedFacts DEF IInv, TypeOK, Items, InSuite, InTest, OfSuites,
       InSuites, Iterating, Places
  <2>3. PlaceRight'
    BY <1>2, <1>4, SamePlan DEF IInv, PlaceRight, InTest, OfSuites, InSuites, Iterating, Places
  <2>4. EventsRight'
    BY <1>2, <1>4, <2>1, RecordedFacts, SamePlan DEF IInv, EventsRight, Heard, Behind, InTest,
       OfSuites, InSuites, Iterating, Places
  <2>5. ResultsRight'
    BY <1>2, <1>4, <2>1, RecordedResults DEF InTest, OfSuites, InSuites, Iterating
  <2>6. FailFastRight'
    BY <1>2, <1>4, <2>1, RecordedFacts DEF IInv, FailFastRight, PlaceRight, InTest, OfSuites,
       InSuites, Iterating, Places
  <2>7. UpRight'
    BY <1>2, <1>4, SamePlan DEF IInv, UpRight, EnvsUp, Items, InSuite, InTest, OfSuites,
       InSuites, Iterating, Places
  <2> QED
    BY <2>2, <2>3, <2>4, <2>5, <2>6, <2>7 DEF IInv
<1> QED
  BY <1>1, <1>3, <1>4

\* The fixture is made, or its constructor or one of its assertions keeps it from
\* being made.
LEMMA CreateTestInv == ASSUME IInv, CreateTest PROVE IInv'
<1>1. PICK st \in Statements :
        \/ /\ Goes(Wrapped(st)) /\ Record(st, Wrapped(st).added)
           /\ \/ /\ up' = up \cup {<<"object", 0>>} /\ pc' \in {"delete", "mixed", "setUp"}
              \/ up' = up /\ pc' = "endTest"
           /\ UNCHANGED <<flags, plan, i, e, s, t, current, skip_all, failed, exit, events>>
        \/ /\ Record(st, Wrapped(st).added) /\ pc' = "left" /\ exit' = "crash"
           /\ UNCHANGED <<flags, plan, i, e, s, t, current, skip_all, failed, events, up>>
        \/ Escape(st, Wrapped(st))
  BY DEF CreateTest, Goes
<1>2. pc = "construct" /\ st \in Statement
  BY DEF CreateTest
<1>3. CASE Escape(st, Wrapped(st))
  BY <1>2, <1>3, EscapeLeaves
<1>4. CASE /\ Record(st, Wrapped(st).added) /\ pc' = "left" /\ exit' = "crash"
           /\ UNCHANGED <<flags, plan, i, e, s, t, current, skip_all, failed, events, up>>
  BY <1>2, <1>4, RecordFacts, Leaves DEF IInv
<1>5. CASE /\ Goes(Wrapped(st)) /\ Record(st, Wrapped(st).added)
           /\ \/ /\ up' = up \cup {<<"object", 0>>} /\ pc' \in {"delete", "mixed", "setUp"}
              \/ up' = up /\ pc' = "endTest"
           /\ UNCHANGED <<flags, plan, i, e, s, t, current, skip_all, failed, exit, events>>
  <2>1. PICK parts : Recorded(parts)
    BY <1>2, <1>5, RecordFacts DEF IInv
  <2>2. TypeOK'
    BY <1>2, <1>5, <2>1, RecordedFacts
    DEF IInv, TypeOK, Items, InSuite, InTest, InSuites, Iterating, Places
  <2>3. PlaceRight'
    BY <1>2, <1>5, SamePlan DEF IInv, PlaceRight, InTest, InSuites, Iterating, Places
  <2>4. EventsRight'
    BY <1>2, <1>5, SamePlan DEF IInv, EventsRight, Heard, Behind, InTest, OfSuites, InSuites
  <2>5. ResultsRight'
    BY <1>2, <1>5, <2>1, RecordedResults DEF InTest, InSuites, Iterating
  <2>6. FailFastRight'
    BY <1>2, <1>5, <2>1, RecordedFacts
    DEF IInv, FailFastRight, PlaceRight, InTest, InSuites, Iterating, Places
  <2>7. UpRight'
    BY <1>2, <1>5, SamePlan DEF IInv, UpRight, EnvsUp, InTest, OfSuites, InSuites, Iterating
  <2> QED
    BY <2>2, <2>3, <2>4, <2>5, <2>6, <2>7 DEF IInv
<1> QED
  BY <1>1, <1>3, <1>4, <1>5

LEMMA RefuseFixtureInv == ASSUME IInv, RefuseFixture PROVE IInv'
<1>1. PICK st \in Statement :
        \/ /\ Goes(Direct(st)) /\ Record(st, Direct(st).added) /\ pc' = "delete"
           /\ UNCHANGED <<flags, plan, i, e, s, t, current, skip_all, failed, exit, events, up>>
        \/ Escape(st, Direct(st))
  <2> DEFINE st == [does |-> <<"nonfatal">>, guard |-> "none", throws |-> FALSE]
  <2>1. st \in Statement
    BY DEF Statement, Part, Guards
  <2> HIDE DEF st
  <2>2. \/ /\ Goes(Direct(st)) /\ Record(st, Direct(st).added) /\ pc' = "delete"
           /\ UNCHANGED <<flags, plan, i, e, s, t, current, skip_all, failed, exit, events, up>>
        \/ Escape(st, Direct(st))
    BY DEF RefuseFixture, st
  <2> QED
    BY <2>1, <2>2
<1>2. pc = "mixed"
  BY DEF RefuseFixture
<1>3. CASE Escape(st, Direct(st))
  BY <1>2, <1>3, EscapeLeaves
<1>4. CASE /\ Goes(Direct(st)) /\ Record(st, Direct(st).added) /\ pc' = "delete"
           /\ UNCHANGED <<flags, plan, i, e, s, t, current, skip_all, failed, exit, events, up>>
  <2>1. PICK parts : Recorded(parts)
    BY <1>2, <1>4, RecordFacts DEF IInv
  <2>2. TypeOK'
    BY <1>2, <1>4, <2>1, RecordedFacts DEF IInv, TypeOK, InTest, InSuites, Iterating, Places
  <2>3. PlaceRight'
    BY <1>2, <1>4, SamePlan DEF IInv, PlaceRight, InTest, InSuites, Iterating, Places
  <2>4. EventsRight'
    BY <1>2, <1>4, SamePlan DEF IInv, EventsRight, Heard, Behind, InTest, OfSuites, InSuites
  <2>5. ResultsRight'
    BY <1>2, <1>4, <2>1, RecordedResults DEF InTest, InSuites, Iterating
  <2>6. FailFastRight'
    BY <1>2, <1>4, <2>1, RecordedFacts
    DEF IInv, FailFastRight, PlaceRight, InTest, InSuites, Iterating, Places
  <2>7. UpRight'
    BY <1>2, <1>4, SamePlan, SameUp DEF IInv, UpRight, InTest, OfSuites, InSuites, Iterating
  <2> QED
    BY <2>2, <2>3, <2>4, <2>5, <2>6, <2>7 DEF IInv
<1> QED
  BY <1>1, <1>3, <1>4

LEMMA DeleteEnvironmentInv == ASSUME IInv, DeleteEnvironment PROVE IInv'
<1>1. PICK st \in Statements :
        \/ /\ result' = [result EXCEPT ![current] = @ \cup Direct(st).added] /\ e' = e + 1
           /\ UNCHANGED <<flags, plan, pc, i, s, t, current, skip_all, failed, exit, events, up,
                          seen>>
        \/ Terminate(st, Direct(st))
  BY DEF DeleteEnvironment
<1>2. pc = "deleteEnvironments" /\ st \in Statement /\ current = AdHoc
  BY DEF DeleteEnvironment, IInv, PlaceRight, InTest, OfSuites, Places
<1>3. CASE Terminate(st, Direct(st))
  BY <1>2, <1>3, EscapeLeaves
<1>4. CASE /\ result' = [result EXCEPT ![current] = @ \cup Direct(st).added] /\ e' = e + 1
           /\ UNCHANGED <<flags, plan, pc, i, s, t, current, skip_all, failed, exit, events, up,
                          seen>>
  <2>1. /\ result' \in [Owners -> SUBSET Part] /\ AdHoc \in Owners
        /\ \A o \in Owners : o # AdHoc => result'[o] = result[o]
    BY <1>2, <1>4, RecordFacts, OwnerFacts DEF IInv, TypeOK
  <2>2. TypeOK'
    BY <1>2, <1>4, <2>1 DEF IInv, TypeOK, Places
  <2>3. PlaceRight'
    BY <1>2, <1>4 DEF IInv, PlaceRight, InTest, OfSuites, InSuites, Places
  <2>4. EventsRight'
    BY <1>2, <1>4 DEF EventsRight, InTest, OfSuites, InSuites
  <2>5. ResultsRight'
    <3>1. \A o \in Owners : Failed(result'[o]) => Counts(o)
      BY <2>1 DEF IInv, ResultsRight, Counts
    <3>2. flags.repeat = 0 \/ (seen <=> failed)
      BY <1>2 DEF IInv, ResultsRight
    <3> QED
      BY <1>2, <1>4, <3>1, <3>2, SamePlan
      DEF ResultsRight, VerdictRight, InTest, OfSuites, InSuites, Iterating
  <2>6. FailFastRight'
    BY <1>2, <1>4 DEF FailFastRight, InTest, OfSuites, InSuites
  <2>7. UpRight'
    BY <1>2, <1>4, SamePlan, SameUp DEF IInv, UpRight, InTest, OfSuites, InSuites, Iterating
  <2> QED
    BY <2>2, <2>3, <2>4, <2>5, <2>6, <2>7 DEF IInv
<1> QED
  BY <1>1, <1>3, <1>4

-----------------------------------------------------------------------------
(* The invariant is one, and what follows from it.                         *)

LEMMA InitInv == Init => IInv
<1> SUFFICES ASSUME Init PROVE IInv
  OBVIOUS
<1>1. /\ flags \in Flags /\ plan \in Selections
      /\ pc = "start" /\ i = 0 /\ e = 0 /\ s = 0 /\ t = 0 /\ current = AdHoc
      /\ skip_all = FALSE /\ failed = FALSE /\ exit = "running"
      /\ events = [x \in Tests |-> "none"] /\ up = {} /\ seen = Failed(result[AdHoc])
  BY DEF Init
<1>2. PICK r \in SUBSET Part : result = [o \in Owners |-> IF o = AdHoc THEN r ELSE {}]
  BY DEF Init
<1>3. TypeOK
  BY <1>1, <1>2, OwnerFacts DEF TypeOK, Places, Failed
<1>4. PlaceRight
  BY <1>1 DEF PlaceRight, InTest, OfSuites, InSuites
<1>5. EventsRight /\ FailFastRight
  BY <1>1 DEF EventsRight, FailFastRight, InTest, OfSuites, InSuites
<1>6. ResultsRight
  <2>1. \A o \in Owners : Failed(result[o]) => o = AdHoc
    BY <1>2 DEF Failed
  <2> QED
    BY <1>1, <2>1 DEF ResultsRight, VerdictRight, Counts, InTest, OfSuites, InSuites, Iterating
<1>7. UpRight
  <2>1. EnvsUp(0)
    BY <1>1 DEF EnvsUp, Envs
  <2>2. 0 \in 0 .. NEnv
    OBVIOUS
  <2> QED
    BY <1>1, <2>1, <2>2 DEF UpRight, InTest, OfSuites, InSuites, Iterating
<1> QED
  BY <1>3, <1>4, <1>5, <1>6, <1>7 DEF IInv

LEMMA StutterInv == ASSUME IInv, UNCHANGED vars PROVE IInv'
<1>1. UNCHANGED <<flags, plan, pc, i, e, s, t, current, result, skip_all, failed, exit, events,
                  up, seen>>
  BY DEF vars
<1>2. TypeOK' /\ PlaceRight'
  BY <1>1, SamePlan DEF IInv, TypeOK, PlaceRight
<1>3. EventsRight' /\ FailFastRight'
  BY <1>1, SamePlan DEF IInv, EventsRight, FailFastRight, Heard, Behind
<1>4. ResultsRight' /\ UpRight'
  BY <1>1, SamePlan, SameUp DEF IInv, ResultsRight, UpRight, SomeFailed, VerdictRight
<1> QED
  BY <1>2, <1>3, <1>4 DEF IInv

LEMMA NextInv == IInv /\ [Next]_vars => IInv'
<1> SUFFICES ASSUME IInv, [Next]_vars PROVE IInv'
  OBVIOUS
<1>1. CASE \/ Begin \/ StartIteration \/ SetUpEnvironment \/ EndSetUp \/ SelectReaction
           \/ TearDownEnvironment \/ EndTearDown \/ EndIteration \/ LeaveLoop
           \/ DeleteEnvironment \/ Return
  BY <1>1, BeginInv, StartIterationInv, SetUpEnvironmentInv, EndSetUpInv, SelectInv,
     TearDownEnvironmentInv, EndTearDownInv, EndIterationInv, LeaveLoopInv, DeleteEnvironmentInv,
     ReturnInv
<1>2. CASE \/ PassSuite \/ StartSuite \/ SetUpTestSuite \/ PassTest \/ StartTest
           \/ LeaveTests \/ TearDownTestSuite \/ LeaveSuite
  BY <1>2, PassSuiteInv, StartSuiteInv, SetUpTestSuiteInv, PassTestInv, StartTestInv,
     LeaveTestsInv, TearDownTestSuiteInv, LeaveSuiteInv
<1>3. CASE \/ CreateTest \/ RefuseFixture \/ SetUp \/ TestBody \/ TearDown \/ DeleteTest
           \/ EndTest
  BY <1>3, CreateTestInv, RefuseFixtureInv, SetUpInv, TestBodyInv, TearDownInv,
     DeleteTestInv, EndTestInv
<1>4. CASE UNCHANGED vars
  BY <1>4, StutterInv
<1> QED
  BY <1>1, <1>2, <1>3, <1>4 DEF Next, Terminated

LEMMA Invariance == Spec => []IInv
<1> QED
  BY InitInv, NextInv, PTL DEF Spec

\* Whatever the suites, the command line and the user code, the variables keep to
\* their types: above all, results have parts of the kinds known, and listeners
\* hear of each test what the enumeration lists.
THEOREM TypeCorrect == Spec => []TypeOK
<1>1. IInv => TypeOK
  BY DEF IInv
<1> QED
  BY <1>1, Invariance, PTL

\* For any suites and any user code: when an iteration ends, listeners have heard once
\* of each selected test and of no other, whichever way it went (UnitTestImpl::RunAllTests,
\* TestSuite::Run and Skip, TestInfo::Run and Skip).
THEOREM ReportedOnce == Spec => []EachReportedOnce
<1>1. IInv => EachReportedOnce
  BY DEF IInv, EventsRight, EachReportedOnce, Heard, Verdicts
<1> QED
  BY <1>1, Invariance, PTL

\* For any suites and any user code: the value that main returns tells whether anything
\* has failed (the result of UnitTestImpl::RunAllTests).
THEOREM ExitRight == Spec => []VerdictRight
<1>1. IInv => VerdictRight
  BY DEF IInv, ResultsRight
<1> QED
  BY <1>1, Invariance, PTL

\* For any suites and any user code: environments, suites and fixtures are set up before
\* what they serve and torn down after it, in order, and a test body runs only after
\* what --gtest_fail_fast and its own SetUp allow.
THEOREM WellScoped == Spec => []Scoped
<1>1. ASSUME IInv PROVE Scoped
  <2>1. \E n \in 0 .. NEnv : {x \in Envs : <<"env", x>> \in up} = 1 .. n
    <3>1. PICK n \in 0 .. NEnv : EnvsUp(n)
      BY <1>1 DEF IInv, UpRight
    <3>2. {x \in Envs : <<"env", x>> \in up} = 1 .. n
      BY <3>1 DEF EnvsUp, Envs
    <3> QED
      BY <3>2
  <2>2. pc \in {"setUp", "body", "tearDown"} =>
          AllEnvs \cup {<<"suite", 0>>, <<"object", 0>>} \subseteq up
    <3>1. EnvsUp(NEnv) => AllEnvs \subseteq up
      BY DEF EnvsUp, AllEnvs, Envs
    <3> QED
      BY <1>1, <3>1 DEF IInv, UpRight, InTest, InSuites
  <2>3. pc = "body" =>
          /\ ~HasFatalFailure(result[current])
          /\ flags.fail_fast => \A o \in Owners \ {AdHoc, current} : ~Failed(result[o])
    BY <1>1 DEF IInv, FailFastRight, PlaceRight, InTest, InSuites, Iterating, Places
  <2>4. pc # "left" => (<<"fixture", 0>> \in up <=> pc \in {"body", "tearDown"})
    BY <1>1 DEF IInv, UpRight
  <2>5. pc \in {"suite", "iterationEnd", "iteration"} => InSuite \cap up = {}
    BY <1>1 DEF IInv, UpRight, InSuite, InTest
  <2>6. pc = "done" \/ (pc = "iteration" /\ Recreate) => up = {}
    <3>1. pc = "done" \/ (pc = "iteration" /\ Recreate) => EnvsUp(0)
      BY <1>1 DEF IInv, UpRight, Stays
    <3>2. pc \in {"done", "iteration"} => \A item \in InSuite : item \notin up
      BY <1>1 DEF IInv, UpRight, InSuite, InTest
    <3>3. EnvsUp(0) => \A x \in Envs : <<"env", x>> \notin up
      <4>1. \A x \in Envs : ~(x <= 0)
        BY DEF Envs
      <4> QED
        BY <4>1 DEF EnvsUp
    <3> QED
      BY <1>1, <3>1, <3>2, <3>3 DEF IInv, TypeOK, Items
  <2> QED
    BY <2>1, <2>2, <2>3, <2>4, <2>5, <2>6 DEF Scoped
<1> QED
  BY <1>1, Invariance, PTL

-----------------------------------------------------------------------------
(* What the report shows of a test is what listeners were told of it.      *)

Spoken(x) ==
  /\ events[x] \in Verdicts => events[x] = Verdict(result[x])
  /\ events[x] \in {"none", "disabled"} => result[x] = {}

VerdictsKept == pc \in Iterating => \A x \in Tests : Spoken(x)

LEMMA SameSpoken ==
  ASSUME VerdictsKept, pc \in Iterating, UNCHANGED <<events, result>>
  PROVE  VerdictsKept'
BY DEF VerdictsKept, Spoken, Verdict, Passed, Skipped, Failed

\* Assertions are recorded for a test only between its start and its end.
LEMMA RecordingKeeps ==
  ASSUME IInv, VerdictsKept, pc \in Iterating, NEW parts,
         events' = events, result' = [result EXCEPT ![current] = @ \cup parts]
  PROVE  VerdictsKept'
<1>1. ASSUME NEW x \in Tests PROVE Spoken(x)'
  <2>1. x \in Owners /\ current \in Owners /\ pc \in Places \ {"left"}
        /\ result \in [Owners -> SUBSET Part]
    BY OwnerFacts DEF IInv, TypeOK, Places, Iterating, InSuites, InTest, OfSuites
  <2>2. CASE x = current
    <3>1. pc \in InTest /\ x = <<s, t>>
      <4>1. x # AdHoc /\ x # <<s, 0>>
        <5>1. x[2] # 0 /\ AdHoc \notin Tests
          BY OwnerFacts
        <5> QED
          BY <5>1
      <4> QED
        BY <2>1, <2>2, <4>1 DEF IInv, PlaceRight
    <3>2. ~Behind(x)
      <4>1. s \in Suites /\ x[1] = s /\ x[2] = t /\ s \in Nat /\ t \in Nat
        BY <3>1, OwnerFacts DEF IInv, PlaceRight, InSuites, InTest, TypeOK
      <4> QED
        BY <3>1, <4>1 DEF Behind, InTest
    <3>3. events[x] = "started"
      BY <3>1, <3>2 DEF IInv, EventsRight, InSuites
    <3> QED
      BY <3>3 DEF Spoken, Verdicts
  <2>3. CASE x # current
    <3>1. result'[x] = result[x] /\ Spoken(x)
      BY <2>1, <2>3 DEF VerdictsKept
    <3> QED
      BY <3>1 DEF Spoken, Verdict, Passed, Skipped, Failed
  <2> QED
    BY <2>2, <2>3
<1> QED
  BY <1>1 DEF VerdictsKept

\* A test is skipped with a word to the listeners and with a part in its result.
LEMMA SkipKeeps ==
  ASSUME IInv, VerdictsKept, pc \in Iterating, NEW xs, Skip(xs, result)
  PROVE  VerdictsKept'
<1> DEFINE skipped == {x \in xs : ShouldRun(x)}
<1>1. /\ result' = [o \in Owners |-> IF o \in skipped THEN result[o] \cup {"skip"} ELSE result[o]]
      /\ events' = [x \in Tests |-> IF x \notin skipped THEN events[x]
                                    ELSE IF events[x] = "none"
                                      THEN Verdict(result[x] \cup {"skip"}) ELSE "again"]
  BY DEF Skip
<1> HIDE DEF skipped
<1>2. ASSUME NEW x \in Tests PROVE Spoken(x)'
  <2>1. x \in Owners /\ Spoken(x)
    BY OwnerFacts DEF VerdictsKept
  <2>2. CASE x \notin skipped
    <3>1. result'[x] = result[x] /\ events'[x] = events[x]
      BY <1>1, <2>1, <2>2
    <3> QED
      BY <2>1, <3>1 DEF Spoken, Verdict, Passed, Skipped, Failed
  <2>3. CASE x \in skipped /\ events[x] = "none"
    <3>1. result'[x] = result[x] \cup {"skip"} /\ events'[x] = Verdict(result[x] \cup {"skip"})
      BY <1>1, <2>1, <2>3
    <3>2. events'[x] \in Verdicts
      BY <3>1 DEF Verdict, Verdicts
    <3> QED
      BY <3>1, <3>2 DEF Spoken, Verdict, Verdicts, Passed, Skipped, Failed
  <2>4. CASE x \in skipped /\ events[x] # "none"
    <3>1. events'[x] = "again"
      BY <1>1, <2>4
    <3> QED
      BY <3>1 DEF Spoken, Verdicts
  <2> QED
    BY <2>2, <2>3, <2>4
<1> QED
  BY <1>2 DEF VerdictsKept

LEMMA StartIterationKeeps == ASSUME IInv, StartIteration PROVE VerdictsKept'
<1>1. /\ result' = [o \in Owners |-> IF o = AdHoc THEN result[o] ELSE {}]
      /\ events' = [x \in Tests |-> "none"]
  BY DEF StartIteration
<1>2. ASSUME NEW x \in Tests PROVE Spoken(x)'
  <2>1. events'[x] = "none" /\ result'[x] = {}
    BY <1>1, OwnerFacts
  <2> QED
    BY <2>1 DEF Spoken, Verdicts
<1> QED
  BY <1>2 DEF VerdictsKept

LEMMA PassTestKeeps == ASSUME IInv, VerdictsKept, PassTest PROVE VerdictsKept'
<1>1. pc = "test" /\ pc \in Iterating /\ pc' = pc /\ <<s, t>> \in Tests /\ s \in Nat /\ t \in Nat
  <2>1. pc = "test" /\ pc' = pc /\ t <= SuiteTests[s]
    BY DEF PassTest
  <2>2. s \in Suites /\ t \in 1 .. SuiteTests[s]
    <3>1. s \in Suites /\ t \in 1 .. SuiteTests[s] + 1
      BY <2>1 DEF IInv, PlaceRight, InSuites, OfSuites
    <3> QED
      BY <2>1, <3>1, OwnerFacts
  <2> QED
    BY <2>1, <2>2, OwnerFacts DEF IInv, TypeOK, Iterating, InSuites, OfSuites
<1>2. CASE skip_all
  BY <1>1, <1>2, SkipKeeps DEF PassTest
<1>3. CASE ~skip_all
  <2>1. /\ result' = result
        /\ events' = [events EXCEPT ![<<s, t>>] =
                         IF plan[<<s, t>>] = "disabled" THEN "disabled" ELSE @]
    BY <1>3 DEF PassTest
  <2>2. events[<<s, t>>] = "none"
    <3>1. ~Behind(<<s, t>>)
      BY <1>1 DEF Behind, InTest
    <3> QED
      BY <1>1, <3>1 DEF IInv, EventsRight, InSuites, OfSuites, InTest
  <2>3. events \in [Tests -> Verdicts \cup {"none", "started", "again", "disabled"}]
    BY DEF IInv, TypeOK
  <2>4. ASSUME NEW x \in Tests PROVE Spoken(x)'
    <3>1. CASE x = <<s, t>>
      <4>1. result'[x] = {} /\ events'[x] \in {"none", "disabled"}
        BY <1>1, <2>1, <2>2, <2>3, <3>1 DEF VerdictsKept, Spoken
      <4> QED
        BY <4>1 DEF Spoken, Verdicts
    <3>2. CASE x # <<s, t>>
      <4>1. result'[x] = result[x] /\ events'[x] = events[x] /\ Spoken(x)
        BY <1>1, <2>1, <2>3, <3>2 DEF VerdictsKept
      <4> QED
        BY <4>1 DEF Spoken, Verdict, Passed, Skipped, Failed
    <3> QED
      BY <3>1, <3>2
  <2> QED
    BY <2>4 DEF VerdictsKept
<1> QED
  BY <1>2, <1>3

LEMMA StartTestKeeps == ASSUME IInv, VerdictsKept, StartTest PROVE VerdictsKept'
<1>1. /\ pc \in Iterating /\ result' = result
      /\ events' = [events EXCEPT ![<<s, t>>] = Start(<<s, t>>)]
      /\ events \in [Tests -> Verdicts \cup {"none", "started", "again", "disabled"}]
  BY DEF StartTest, IInv, TypeOK, Iterating, InSuites, OfSuites
<1>2. ASSUME NEW x \in Tests PROVE Spoken(x)'
  <2>1. CASE x = <<s, t>>
    <3>1. events'[x] \in {"started", "again"}
      BY <1>1, <2>1 DEF Start
    <3> QED
      BY <3>1 DEF Spoken, Verdicts
  <2>2. CASE x # <<s, t>>
    <3>1. result'[x] = result[x] /\ events'[x] = events[x] /\ Spoken(x)
      BY <1>1, <2>2 DEF VerdictsKept
    <3> QED
      BY <3>1 DEF Spoken, Verdict, Passed, Skipped, Failed
  <2> QED
    BY <2>1, <2>2
<1> QED
  BY <1>2 DEF VerdictsKept

LEMMA EndTestKeeps == ASSUME IInv, VerdictsKept, EndTest PROVE VerdictsKept'
<1> DEFINE ended == [events EXCEPT ![current] = End(current, result[current])]
           rest  == {x \in Tests : x[1] = s /\ x[2] > t /\ ShouldRun(x)}
<1>1. /\ pc = "endTest" /\ pc \in Iterating /\ pc \in InTest /\ pc \in InSuites
      /\ current = <<s, t>> /\ current \in Tests /\ s \in Nat /\ t \in Nat
      /\ events \in [Tests -> Verdicts \cup {"none", "started", "again", "disabled"}]
  BY DEF EndTest, IInv, TypeOK, PlaceRight, Iterating, InSuites, InTest, Places
<1>2. ASSUME NEW x \in Tests
      PROVE  /\ x # current => ended[x] = events[x] /\ Spoken(x)
             /\ x = current => ended[x] \in {Verdict(result[x]), "again"}
             /\ x \in rest => x # current /\ events[x] = "none" /\ result[x] = {}
  <2>1. x # current => ended[x] = events[x] /\ Spoken(x)
    BY <1>1 DEF VerdictsKept
  <2>2. x = current => ended[x] \in {Verdict(result[x]), "again"}
    BY <1>1 DEF End
  <2>3. x \in rest => x # current /\ events[x] = "none" /\ result[x] = {}
    <3> SUFFICES ASSUME x \in rest PROVE x # current /\ events[x] = "none" /\ result[x] = {}
      OBVIOUS
    <3>1. x[1] = s /\ x[2] > t /\ x[2] \in Nat
      BY OwnerFacts
    <3>2. x # <<s, t>>
      BY <1>1, <3>1
    <3>3. ~Behind(x)
      BY <1>1, <3>1 DEF Behind
    <3>4. events[x] = "none"
      BY <1>1, <3>2, <3>3 DEF IInv, EventsRight
    <3> QED
      BY <1>1, <2>1, <3>2, <3>4 DEF Spoken
  <2> QED
    BY <2>1, <2>2, <2>3
<1>3. CASE flags.fail_fast /\ Failed(result[current])
  <2>1. /\ result' = [o \in Owners |->
                        IF o \in rest THEN result[o] \cup {"skip"} ELSE result[o]]
        /\ events' = [x \in Tests |-> IF x \in rest THEN Verdict({"skip"}) ELSE ended[x]]
    BY <1>3 DEF EndTest
  <2> HIDE DEF rest, ended
  <2>2. ASSUME NEW x \in Tests PROVE Spoken(x)'
    <3>0. x \in Owners
      BY OwnerFacts
    <3>1. CASE x \in rest
      <4>1. result'[x] = {"skip"} /\ events'[x] = Verdict({"skip"})
        BY <1>2, <2>1, <3>0, <3>1
      <4> QED
        BY <4>1 DEF Spoken, Verdict, Verdicts, Passed, Skipped, Failed, Failure
    <3>2. CASE x \notin rest
      <4>1. result'[x] = result[x] /\ events'[x] = ended[x]
        BY <2>1, <3>0, <3>2
      <4>2. Verdict(result[x]) \in Verdicts
        BY DEF Verdict, Verdicts
      <4> QED
        BY <1>2, <4>1, <4>2 DEF Spoken, Verdict, Verdicts, Passed, Skipped, Failed
    <3> QED
      BY <3>1, <3>2
  <2> QED
    BY <2>2 DEF VerdictsKept
<1>4. CASE ~(flags.fail_fast /\ Failed(result[current]))
  <2>1. result' = result /\ events' = ended
    BY <1>4 DEF EndTest
  <2> HIDE DEF rest, ended
  <2>2. ASSUME NEW x \in Tests PROVE Spoken(x)'
    <3>1. Verdict(result[x]) \in Verdicts
      BY DEF Verdict, Verdicts
    <3> QED
      BY <1>2, <2>1, <3>1 DEF Spoken, Verdict, Verdicts, Passed, Skipped, Failed
  <2> QED
    BY <2>2 DEF VerdictsKept
<1> QED
  BY <1>3, <1>4

\* What a call of user code records keeps what listeners were told.
LEMMA CallsKeep ==
  ASSUME IInv, VerdictsKept,
         \/ SetUpEnvironment \/ TearDownEnvironment \/ SetUpTestSuite \/ TearDownTestSuite
         \/ CreateTest \/ RefuseFixture \/ SetUp \/ TestBody \/ TearDown \/ DeleteTest
  PROVE  VerdictsKept'
<1>1. pc \in Iterating
  BY DEF SetUpEnvironment, TearDownEnvironment, SetUpTestSuite, TearDownTestSuite, CreateTest,
         RefuseFixture, SetUp, TestBody, TearDown, DeleteTest,
         Iterating, InSuites, InTest, OfSuites
<1>2. \/ pc' = "left"
      \/ \E parts : events' = events /\ result' = [result EXCEPT ![current] = @ \cup parts]
  <2>1. CASE SetUpEnvironment \/ TearDownEnvironment
    BY <2>1 DEF SetUpEnvironment, TearDownEnvironment, Record, Escape
  <2>2. CASE SetUpTestSuite \/ TearDownTestSuite
    BY <2>2 DEF SetUpTestSuite, TearDownTestSuite, Protected, Record, Escape
  <2>3. CASE CreateTest
    BY <2>3 DEF CreateTest, Record, Escape
  <2>4. CASE SetUp \/ TestBody \/ TearDown
    BY <2>4 DEF SetUp, TestBody, TearDown, Protected, Record, Escape
  <2>5. CASE RefuseFixture \/ DeleteTest
    BY <2>5 DEF RefuseFixture, DeleteTest, Record, Escape, Terminate
  <2> QED
    BY <2>1, <2>2, <2>3, <2>4, <2>5
<1>3. CASE pc' = "left"
  BY <1>3 DEF VerdictsKept, Iterating, InSuites, InTest, OfSuites
<1>4. CASE pc' # "left"
  <2>1. PICK parts : events' = events /\ result' = [result EXCEPT ![current] = @ \cup parts]
    BY <1>2, <1>4
  <2> QED
    BY <1>1, <2>1, RecordingKeeps
<1> QED
  BY <1>3, <1>4

LEMMA NextKeeps == IInv /\ VerdictsKept /\ [Next]_vars => VerdictsKept'
<1> SUFFICES ASSUME IInv, VerdictsKept, [Next]_vars PROVE VerdictsKept'
  OBVIOUS
<1>1. CASE \/ EndSetUp \/ EndTearDown \/ PassSuite \/ StartSuite \/ LeaveTests
  <2>1. pc \in Iterating /\ events' = events /\ result' = result
    BY <1>1 DEF EndSetUp, EndTearDown, PassSuite, StartSuite, LeaveTests,
                Iterating, InSuites, InTest, OfSuites
  <2> QED
    BY <2>1, SameSpoken
<1>2. CASE Begin \/ EndIteration \/ LeaveLoop \/ DeleteEnvironment \/ Return
  <2>1. pc' \in {"done", "iteration", "deleteEnvironments", "left"}
    BY <1>2 DEF Begin, EndIteration, LeaveLoop, DeleteEnvironment, Return, Terminate
  <2> QED
    BY <2>1 DEF VerdictsKept, Iterating, InSuites, InTest, OfSuites
<1>3. CASE SelectReaction \/ LeaveSuite
  <2>1. pc \in Iterating
    BY <1>3 DEF SelectReaction, LeaveSuite, Iterating, InSuites
  <2>2. (events' = events /\ result' = result) \/ \E xs : Skip(xs, result)
    BY <1>3 DEF SelectReaction, LeaveSuite
  <2> QED
    BY <2>1, <2>2, SameSpoken, SkipKeeps
<1>4. CASE StartIteration
  BY <1>4, StartIterationKeeps
<1>5. CASE PassTest
  BY <1>5, PassTestKeeps
<1>6. CASE StartTest
  BY <1>6, StartTestKeeps
<1>7. CASE EndTest
  BY <1>7, EndTestKeeps
<1>8. CASE \/ SetUpEnvironment \/ TearDownEnvironment \/ SetUpTestSuite \/ TearDownTestSuite
           \/ CreateTest \/ RefuseFixture \/ SetUp \/ TestBody \/ TearDown \/ DeleteTest
  BY <1>8, CallsKeep
<1>9. CASE UNCHANGED vars
  BY <1>9 DEF vars, VerdictsKept, Spoken, Verdict, Passed, Skipped, Failed
<1> QED
  BY <1>1, <1>2, <1>3, <1>4, <1>5, <1>6, <1>7, <1>8, <1>9 DEF Next, Terminated

LEMMA VerdictsInvariance == Spec => [](IInv /\ VerdictsKept)
<1>1. Init => IInv /\ VerdictsKept
  <2>1. Init => VerdictsKept
    BY DEF Init, VerdictsKept, Iterating, InSuites, InTest, OfSuites
  <2> QED
    BY <2>1, InitInv
<1>2. (IInv /\ VerdictsKept) /\ [Next]_vars => (IInv /\ VerdictsKept)'
  BY NextInv, NextKeeps
<1> QED
  BY <1>1, <1>2, PTL DEF Spec

-----------------------------------------------------------------------------
(* The report at the end of an iteration.                                  *)

\* The tests of each suite, and that there are finitely many.
LEMMA FiniteTests ==
  /\ IsFiniteSet(Suites) /\ IsFiniteSet(Tests)
  /\ \A x \in Suites : IsFiniteSet({x} \X (1 .. SuiteTests[x]))
<1> DEFINE F == [x \in Suites |-> {x} \X (1 .. SuiteTests[x])]
           f == [x \in Suites |-> Cardinality(F[x])]
<1>1. IsFiniteSet(Suites)
  BY OwnerFacts, FS_Interval
<1>2. ASSUME NEW x \in Suites PROVE IsFiniteSet({x} \X (1 .. SuiteTests[x]))
  <2>1. SuiteTests[x] \in Int
    BY OwnerFacts
  <2>2. IsFiniteSet(1 .. SuiteTests[x])
    BY <2>1, FS_Interval
  <2>3. IsFiniteSet({x})
    BY FS_Singleton
  <2> QED
    BY <2>2, <2>3, FS_Product
<1>3. \A x \in Suites : IsFiniteSet(F[x]) /\ f[x] = Cardinality(F[x])
  BY <1>2
<1>4. \A x \in Suites : \A y \in Suites : x # y => F[x] \cap F[y] = {}
  OBVIOUS
<1>5. IsFiniteSet(UnionOf(F, Suites))
  <2> HIDE DEF F, f
  <2> QED
    BY <1>1, <1>3, <1>4, SumDisjoint
<1>6. Tests = UnionOf(F, Suites)
  BY DEF Tests, UnionOf
<1> QED
  BY <1>1, <1>2, <1>5, <1>6

LEMMA Counted ==
  /\ \A x : \A y : y \in OfSuite("to_run", x) <=> y \in Tests /\ y[1] = x /\ ShouldRun(y)
  /\ \A x : \A y : y \in OfSuite("successful", x) <=> y \in Tests /\ y[1] = x /\ TestPassed(y)
  /\ \A x : \A y : y \in OfSuite("skipped", x) <=> y \in Tests /\ y[1] = x /\ TestSkipped(y)
  /\ \A x : \A y : y \in OfSuite("failed", x) <=> y \in Tests /\ y[1] = x /\ TestFailed(y)
  /\ \A x : \A y : y \in OfSuite("reportable", x) <=> y \in Tests /\ y[1] = x /\ TestReportable(y)
  /\ OfAll("to_run") = {y \in Tests : ShouldRun(y)}
  /\ OfAll("successful") = {y \in Tests : TestPassed(y)}
  /\ OfAll("skipped") = {y \in Tests : TestSkipped(y)}
  /\ OfAll("failed") = {y \in Tests : TestFailed(y)}
<1>1. \A y \in Tests : y[1] \in Suites
  BY OwnerFacts
<1> QED
  BY <1>1 DEF OfSuite, OfAll

\* At the end of an iteration, a test's verdict is what its result says.
LEMMA EndVerdicts ==
  ASSUME IInv, VerdictsKept, pc = "iterationEnd", NEW x \in Tests
  PROVE  /\ events[x] = "FAILED" <=> TestFailed(x)
         /\ events[x] = "SKIPPED" <=> TestSkipped(x)
         /\ events[x] = "OK" => TestPassed(x) /\ result[x] = {}
         /\ Failed(result[x]) <=> TestFailed(x)
         /\ ShouldRun(x) => TestReportable(x)
         /\ result[x] \subseteq Part
<1>1. /\ Spoken(x) /\ result[x] \subseteq Part
      /\ Heard(x) \/ events[x] = "none"
  BY OwnerFacts DEF VerdictsKept, IInv, TypeOK, EventsRight, Iterating
<1>2. CASE events[x] \in {"none", "disabled"}
  BY <1>1, <1>2
  DEF Spoken, TestFailed, TestSkipped, TestReportable, ShouldRun, Skipped, Failed
<1>3. CASE ShouldRun(x) /\ events[x] = Verdict(result[x])
  <2>1. Passed(result[x]) => result[x] = {}
    BY <1>1 DEF Passed, Skipped, Failed, Failure, Part
  <2> QED
    BY <1>1, <1>3, <2>1
    DEF Verdict, TestFailed, TestSkipped, TestPassed, TestReportable, ShouldRun, Passed,
        Skipped
<1> QED
  BY <1>1, <1>2, <1>3 DEF Heard, Spoken

LEMMA EndTold ==
  ASSUME IInv, VerdictsKept, pc = "iterationEnd"
  PROVE  /\ OfAll("failed") = Told("FAILED") /\ OfAll("skipped") = Told("SKIPPED")
         /\ Told("OK") \subseteq OfAll("successful")
BY EndVerdicts, Counted DEF Told

\* The tests to run are those that passed, were skipped and failed.
LEMMA ThreeWays ==
  LET C(count) == Cardinality(OfAll(count)) IN
  C("to_run") = C("successful") + C("skipped") + C("failed")
<1> DEFINE A == OfAll("successful")
           B == OfAll("skipped")
           C == OfAll("failed")
<1>1. OfAll("to_run") = (A \cup B) \cup C /\ A \cap B = {} /\ (A \cup B) \cap C = {}
  BY Counted DEF TestPassed, TestSkipped, TestFailed, Passed, Skipped
<1>2. A \subseteq Tests /\ B \subseteq Tests /\ C \subseteq Tests
  BY Counted
<1> HIDE DEF A, B, C
<1>3. IsFiniteSet(A) /\ IsFiniteSet(B) /\ IsFiniteSet(C) /\ IsFiniteSet(A \cup B)
  BY <1>2, FiniteTests, FS_Subset
<1>4. /\ Cardinality(A) \in Nat /\ Cardinality(B) \in Nat /\ Cardinality(C) \in Nat
      /\ Cardinality({}) = 0
  BY <1>3, FS_CardinalityType, FS_EmptySet
<1>5. Cardinality(A \cup B) = Cardinality(A) + Cardinality(B)
  <2>1. Cardinality(A \cup B) = Cardinality(A) + Cardinality(B) - Cardinality(A \cap B)
    BY <1>3, FS_Union
  <2>2. Cardinality(A \cap B) = 0
    BY <1>1, <1>4
  <2> QED
    BY <1>4, <2>1, <2>2
<1>6. Cardinality((A \cup B) \cup C) = Cardinality(A \cup B) + Cardinality(C)
  <2> DEFINE D == A \cup B
  <2>1. IsFiniteSet(D) /\ D \cap C = {} /\ Cardinality(D) \in Nat
    BY <1>1, <1>3, FS_CardinalityType
  <2> HIDE DEF D
  <2>2. Cardinality(D \cup C) = Cardinality(D) + Cardinality(C) - Cardinality(D \cap C)
    BY <1>3, <2>1, FS_Union
  <2>3. Cardinality(D \cap C) = 0
    BY <1>4, <2>1
  <2>4. Cardinality(D \cup C) = Cardinality(D) + Cardinality(C)
    BY <1>4, <2>1, <2>2, <2>3
  <2> QED
    BY <2>4 DEF D
<1> QED
  BY <1>1, <1>4, <1>5, <1>6 DEF A, B, C

\* Without a failed run no selected test has failed; with one, a test, a suite
\* or something outside of both has.
LEMMA RunFailedShown ==
  ASSUME IInv
  PROVE  /\ ~RunFailed => OfAll("failed") = {}
         /\ RunFailed => \/ OfAll("failed") # {}
                         \/ \E x \in Suites : SuiteShouldRun(x) /\ Failed(result[<<x, 0>>])
                         \/ Failed(result[AdHoc])
<1>1. ASSUME NEW y \in OfAll("failed") PROVE RunFailed
  <2>1. y \in Tests /\ ShouldRun(y) /\ Failed(result[y])
    BY Counted DEF TestFailed
  <2>2. y = <<y[1], y[2]>> /\ y[1] \in Suites /\ y[2] \in 1 .. SuiteTests[y[1]]
    BY <2>1, OwnerFacts
  <2>3. SuiteShouldRun(y[1]) /\ SuiteFailed(y[1])
    BY <2>1, <2>2 DEF SuiteShouldRun, SuiteFailed
  <2> QED
    BY <2>2, <2>3 DEF RunFailed
<1>2. ASSUME NEW x \in Suites, SuiteFailed(x), ~Failed(result[<<x, 0>>])
      PROVE  OfAll("failed") # {}
  <2>1. PICK n \in 1 .. SuiteTests[x] : ShouldRun(<<x, n>>) /\ Failed(result[<<x, n>>])
    BY <1>2 DEF SuiteFailed
  <2>2. <<x, n>> \in Tests
    BY OwnerFacts
  <2> QED
    BY <2>1, <2>2, Counted DEF TestFailed
<1> QED
  BY <1>1, <1>2 DEF RunFailed

LEMMA ConsoleRight ==
  ASSUME IInv, VerdictsKept, pc = "iterationEnd"
  PROVE  ConsoleAgrees
<1>1. /\ Pretty.ran = Cardinality(OfAll("to_run")) /\ Pretty.passed = Cardinality(OfAll("successful"))
      /\ Pretty.skipped = OfAll("skipped")
      /\ Pretty.failed = IF RunFailed THEN OfAll("failed") ELSE {}
      /\ Pretty.failed_suites =
           IF RunFailed THEN {x \in Suites : SuiteShouldRun(x) /\ Failed(result[<<x, 0>>])} ELSE {}
      /\ Brief.passed = Cardinality(OfAll("successful"))
      /\ Brief.skipped = Cardinality(OfAll("skipped"))
  BY DEF Pretty, Brief
<1>2. Pretty.failed = OfAll("failed")
  BY <1>1, RunFailedShown
<1>3. Pretty.ran = Pretty.passed + Cardinality(Pretty.skipped) + Cardinality(Pretty.failed)
  BY <1>1, <1>2, ThreeWays
<1>4. RunFailed => \/ Pretty.failed # {} \/ Pretty.failed_suites # {}
                   \/ Failed(result[AdHoc])
  BY <1>1, <1>2, RunFailedShown
<1> QED
  BY <1>1, <1>2, <1>3, <1>4, EndTold DEF ConsoleAgrees

\* The files have an element for every test that matches the filter.
LEMMA FileCases ==
  ASSUME NEW x \in Tests, TestReportable(x)
  PROVE  /\ PrintXmlUnitTest.suites[x[1]].cases[x] = OutputXmlTestInfo(x)
         /\ PrintJsonUnitTest.testsuites[x[1]].testsuite[x] = OutputJsonTestInfo(x)
<1>1. x[1] \in {y \in Suites : OfSuite("reportable", y) # {}} /\ x \in OfSuite("reportable", x[1])
  BY OwnerFacts, Counted
<1>2. PrintXmlUnitTest.suites = [z \in {y \in Suites : OfSuite("reportable", y) # {}}
                                    |-> PrintXmlTestSuite(z)]
  BY DEF PrintXmlUnitTest
<1>3. PrintXmlTestSuite(x[1]).cases = [y \in OfSuite("reportable", x[1]) |-> OutputXmlTestInfo(y)]
  BY DEF PrintXmlTestSuite
<1>4. PrintJsonUnitTest.testsuites = [z \in {y \in Suites : OfSuite("reportable", y) # {}}
                                        |-> PrintJsonTestSuite(z)]
  BY DEF PrintJsonUnitTest
<1>5. PrintJsonTestSuite(x[1]).testsuite
        = [y \in OfSuite("reportable", x[1]) |-> OutputJsonTestInfo(y)]
  BY DEF PrintJsonTestSuite
<1>6. PrintXmlUnitTest.suites[x[1]].cases[x] = OutputXmlTestInfo(x)
  BY <1>1, <1>2, <1>3
<1>7. PrintJsonUnitTest.testsuites[x[1]].testsuite[x] = OutputJsonTestInfo(x)
  BY <1>1, <1>4, <1>5
<1> QED
  BY <1>6, <1>7

LEMMA FileRight ==
  ASSUME IInv, VerdictsKept, pc = "iterationEnd"
  PROVE  FileAgrees
<1> DEFINE xml == PrintXmlUnitTest
           case(x) == xml.suites[x[1]].cases[x]
<1>1. ASSUME NEW x \in Told("FAILED")
      PROVE  Failed(case(x).parts) /\ case(x).result = "completed"
  <2>1. x \in Tests /\ TestFailed(x) /\ TestReportable(x)
    BY EndVerdicts DEF Told, TestFailed
  <2>2. case(x) = OutputXmlTestInfo(x)
    BY <2>1, FileCases
  <2> QED
    BY <2>1, <2>2 DEF OutputXmlTestInfo, TestFailed, Skipped
<1>2. ASSUME NEW x \in Told("SKIPPED") PROVE case(x).result = "skipped"
  <2>1. x \in Tests /\ TestSkipped(x) /\ TestReportable(x)
    BY EndVerdicts DEF Told, TestSkipped
  <2>2. case(x) = OutputXmlTestInfo(x)
    BY <2>1, FileCases
  <2> QED
    BY <2>1, <2>2 DEF OutputXmlTestInfo, TestSkipped
<1>3. ASSUME NEW x \in Told("OK") PROVE case(x).parts = {}
  <2>1. x \in Tests /\ result[x] = {} /\ TestReportable(x)
    BY EndVerdicts DEF Told, TestPassed
  <2>2. case(x) = OutputXmlTestInfo(x)
    BY <2>1, FileCases
  <2> QED
    BY <2>1, <2>2 DEF OutputXmlTestInfo
<1>4. xml.failures = Cardinality(Told("FAILED"))
      /\ xml.NonTestSuiteFailure = IF Failed(result[AdHoc]) THEN {result[AdHoc]} ELSE {}
  BY EndTold DEF PrintXmlUnitTest
<1>5. xml.failures > 0 <=> \E x \in Tests : Failed(result[x])
  <2>1. Told("FAILED") = {x \in Tests : Failed(result[x])}
    BY EndVerdicts DEF Told
  <2>2. IsFiniteSet(Told("FAILED"))
    BY <2>1, FiniteTests, FS_Subset
  <2> DEFINE T == Told("FAILED")
  <2> HIDE DEF T
  <2>3. IsFiniteSet(T) => Cardinality(T) \in Nat /\ (Cardinality(T) = 0 <=> T = {})
    BY FS_CardinalityType, FS_EmptySet
  <2>4. Cardinality(T) > 0 <=> T # {}
    BY <2>2, <2>3 DEF T
  <2> QED
    BY <1>4, <2>1, <2>4 DEF T
<1>6. (xml.failures > 0 \/ xml.NonTestSuiteFailure # {}) <=>
        Failed(result[AdHoc]) \/ \E x \in Tests : Failed(result[x])
  <2> HIDE DEF xml
  <2> QED
    BY <1>4, <1>5
<1> QED
  BY <1>1, <1>2, <1>3, <1>4, <1>6 DEF FileAgrees

\* The JSON file counts the failed tests suite by suite and all together.
LEMMA JsonCounts ==
  LET json == PrintJsonUnitTest IN
  SumFunction([x \in DOMAIN json.testsuites |-> json.testsuites[x].failures]) = json.failures
<1> DEFINE json == PrintJsonUnitTest
           S == {y \in Suites : OfSuite("reportable", y) # {}}
           F == [x \in S |-> OfSuite("failed", x)]
           f == [x \in S |-> Cardinality(F[x])]
<1>1. json.testsuites = [x \in S |-> PrintJsonTestSuite(x)] /\ json.failures = Cardinality(OfAll("failed"))
  BY DEF PrintJsonUnitTest
<1>2. \A x \in S : PrintJsonTestSuite(x).failures = Cardinality(OfSuite("failed", x))
  BY DEF PrintJsonTestSuite
<1>3. [x \in DOMAIN json.testsuites |-> json.testsuites[x].failures] = f
  <2>1. DOMAIN json.testsuites = S
    BY <1>1
  <2>2. \A x \in S : json.testsuites[x].failures = Cardinality(F[x])
    BY <1>1, <1>2
  <2> HIDE DEF json, S, F
  <2> QED
    BY <2>1, <2>2
<1>4. IsFiniteSet(S) /\ \A x \in S : IsFiniteSet(F[x])
  <2>1. IsFiniteSet(S)
    BY FiniteTests, FS_Subset
  <2>2. ASSUME NEW x \in S PROVE IsFiniteSet(F[x])
    <3>1. OfSuite("failed", x) \subseteq Tests
      BY Counted
    <3> QED
      BY <3>1, FiniteTests, FS_Subset
  <2> QED
    BY <2>1, <2>2
<1>5. \A x \in S : \A y \in S : x # y => F[x] \cap F[y] = {}
  BY Counted
<1>6. UnionOf(F, S) = OfAll("failed")
  <2>1. ASSUME NEW y \in OfAll("failed") PROVE \E x \in S : y \in F[x]
    <3>1. y \in Tests /\ TestFailed(y) /\ y[1] \in Suites
      BY Counted, OwnerFacts
    <3>2. y \in OfSuite("failed", y[1]) /\ y \in OfSuite("reportable", y[1])
      BY <3>1, Counted DEF TestFailed, TestReportable, ShouldRun
    <3>3. y[1] \in S
      BY <3>1, <3>2
    <3> QED
      BY <3>2, <3>3
  <2>2. ASSUME NEW x \in S, NEW y \in F[x] PROVE y \in OfAll("failed")
    BY Counted
  <2> HIDE DEF S, F
  <2> QED
    BY <2>1, <2>2 DEF UnionOf
<1>7. SumFunctionOnSet(f, S) = Cardinality(UnionOf(F, S))
  <2>1. \A x \in S : f[x] = Cardinality(F[x])
    OBVIOUS
  <2> HIDE DEF S, F, f
  <2> QED
    BY <1>4, <1>5, <2>1, SumDisjoint
<1>8. SumFunction(f) = SumFunctionOnSet(f, S)
  <2>1. DOMAIN f = S
    OBVIOUS
  <2> HIDE DEF f, S
  <2> QED
    BY <2>1 DEF SumFunction, SumFunctionOnSet, FoldFunction
<1>9. SumFunction(f) = json.failures
  BY <1>1, <1>6, <1>7, <1>8
<1> QED
  BY <1>3, <1>9

LEMMA JsonRight ==
  ASSUME IInv, VerdictsKept, pc = "iterationEnd"
  PROVE  JsonAgrees
<1> DEFINE json == PrintJsonUnitTest
           info(x) == json.testsuites[x[1]].testsuite[x]
<1>1. ASSUME NEW x \in Tests, TestReportable(x)
      PROVE  /\ info(x).failures # {} <=> x \in Told("FAILED")
             /\ info(x).result = "SKIPPED" <=> x \in Told("SKIPPED")
             /\ info(x).status = "RUN" <=> ShouldRun(x)
  <2>1. info(x) = OutputJsonTestInfo(x)
    BY <1>1, FileCases
  <2>2. /\ info(x).failures = result[x] \cap Failure
        /\ info(x).status = IF ShouldRun(x) THEN "RUN" ELSE "NOTRUN"
        /\ info(x).result = IF ~ShouldRun(x) THEN "SUPPRESSED"
                            ELSE IF Skipped(result[x]) THEN "SKIPPED" ELSE "COMPLETED"
    BY <2>1 DEF OutputJsonTestInfo
  <2>3. /\ x \in Told("FAILED") <=> Failed(result[x])
        /\ x \in Told("SKIPPED") <=> TestSkipped(x)
    BY EndVerdicts DEF Told
  <2> HIDE DEF info
  <2> QED
    BY <2>2, <2>3 DEF Failed, TestSkipped
<1> QED
  BY <1>1, JsonCounts DEF JsonAgrees

\* For any suites and any user code: the summary on the console, the XML and the
\* JSON file agree with what listeners were told of each test, and their counts add
\* up (PrettyUnitTestResultPrinter::OnTestIterationEnd, PrintXmlUnitTest,
\* PrintJsonUnitTest).
THEOREM ReportsAgree == Spec => []ReportAgrees
<1>1. IInv /\ VerdictsKept => ReportAgrees
  BY ConsoleRight, FileRight, JsonRight DEF ReportAgrees
<1> QED
  BY <1>1, VerdictsInvariance, PTL
=============================================================================
