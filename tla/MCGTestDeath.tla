---------------------------- MODULE MCGTestDeath ----------------------------
(***************************************************************************)
(* For TLC: a test body with death tests, or one of the tools that tests   *)
(* are made of - the assertions on floating-point numbers, matchers,       *)
(* threads and thread-local values, diffs, regular expressions, parameters *)
(* or report files - by itself.                                            *)
(***************************************************************************)
EXTENDS GTestDeath, GTestFloat, GTestPayload, GTestThreads, GTestDiff, GTestRegex,
        GTestParams, GTestOutput

VARIABLE part

-----------------------------------------------------------------------------
(* Death tests                                                             *)

Death1(ends, says, predicate, matcher, fatal) ==
  [kind |-> "death", says |-> says, ends |-> ends, predicate |-> predicate,
   matcher |-> matcher, fatal |-> fatal]
Plain(kind) == [Death1("exit0", FALSE, "ExitedUnsuccessfully", "any", FALSE)
                  EXCEPT !.kind = kind]

Expect(ends)     == Death1(ends, TRUE, "ExitedUnsuccessfully", "own", FALSE)
ExpectAny(ends)  == Death1(ends, FALSE, "ExitedUnsuccessfully", "any", FALSE)
ExpectMute(ends) == Death1(ends, FALSE, "ExitedUnsuccessfully", "own", FALSE)

\* Each way to end, before and after another death test; predicates that the
\* status meets or not; a body that ends early, or runs only once.
SomeBodies ==
  {<<ExpectAny(a), Expect("exit1")>> : a \in Ends}
  \cup {<<Expect("signal"), ExpectAny(a)>> : a \in Ends}
  \cup {<<Death1(a, TRUE, b, "own", TRUE), ExpectMute("exit1")>> :
          a \in {"exit0", "exit1", "signal"}, b \in Predicates}
  \cup {<<Plain("once"), ExpectAny("lives")>>,
        <<ExpectAny("exit1"), Plain("once"), Expect("signal")>>,
        <<ExpectAny("exit1"), Plain("fatal"), Expect("signal")>>}

AllStyles == {"fast", "threadsafe", "slow"}
SomeFaults == {{}, {"execv"}, {"chdir", "fork"}, {"pipe", "mkstemp"}, {"write"}}

\* A program without tests.
NoDeath ==
  /\ style = "fast" /\ body = <<>> /\ failing = {}
  /\ pc = [parent |-> "end", child |-> "none"]
  /\ at = [p \in Processes |-> 1] /\ count = [p \in Processes |-> 0]
  /\ flag = [p \in Processes |-> <<0, 0>>]
  /\ failed = [p \in Processes |-> FALSE]
  /\ captured = [p \in Processes |-> "no"] /\ lock = [p \in Processes |-> "free"]
  /\ writers = {} /\ bytes = <<>> /\ reading = FALSE
  /\ outcome = "IN_PROGRESS" /\ status = "none" /\ ended = "none"
  /\ log = {} /\ touched = FALSE /\ verdict = <<>> /\ did = <<>>

-----------------------------------------------------------------------------
(* Numbers of five bits, two of them the fraction.                         *)

Exactly(x) == LET exponent == x \div 4
              IN  IF exponent = 0 THEN x          ELSE (4 + (x % 4)) * 2 ^ (exponent - 1)
SomeMagnitudes == [x \in 0 .. 12 |-> Exactly(x)]

\* To the nearest number, to the even one of two.
RoundTo(d) ==
  LET far(x) == IF Exactly(x) > d THEN Exactly(x) - d ELSE d - Exactly(x)
      near   == {x \in 0 .. 12 : \A y \in 0 .. 12 : far(x) <= far(y)}
  IN  CHOOSE x \in near : near = {x} \/ x % 2 = 0
ToNearest == [d \in 0 .. 2 * Exactly(12) |-> RoundTo(d)]

NoFloat ==
  /\ assertion = "EQ" /\ val1 = 0 /\ val2 = 0 /\ abs_error = 0
  /\ result = "none"

-----------------------------------------------------------------------------
(* Matchers, and threads: what is written before it is read does not matter *)
(* at first.                                                               *)

AnyShared == shared = [m \in Matcher |-> CHOOSE p \in Payload : TRUE]
AnyIds    == /\ local = [k \in Thread |-> CHOOSE l \in Local : TRUE]
             /\ id = [k \in Thread |-> CHOOSE i \in Ids : TRUE]

-----------------------------------------------------------------------------
(* All pairs of texts of up to four lines of two kinds, and long ones with *)
(* any two changes, which are near or far.                                 *)

Short   == UNION {[1 .. n -> {0, 1}] : n \in 0 .. 4}
Long    == <<0, 1, 2, 0, 1, 2, 0, 1, 2>>
Changed ==
  {[Long EXCEPT ![i] = 3, ![j] = 4] : i, j \in 1 .. 9}
  \cup {RemoveAt(RemoveAt(Long, j), i) : i \in 1 .. 8, j \in 1 .. 9}
  \cup {InsertAt([Long EXCEPT ![j] = 4], i, 3) : i, j \in 1 .. 9}
SomeTexts ==
  [left : Short, right : Short, context : {1, 2}]
  \cup [left : {Long}, right : Changed, context : {1, 2}]
  \cup [left : Changed, right : {Long}, context : {2}]

NoDiff ==
  /\ left = <<>> /\ right = <<>> /\ context = 1 /\ edits = <<>>
  /\ edit_i = 0 /\ l_i = 0 /\ r_i = 0 /\ hunk = Empty(1, 1) /\ n_suffix = 0 /\ hunks = <<>>
  /\ doing = "done"

-----------------------------------------------------------------------------
(* All texts of three of the characters that mean something, and those of  *)
(* the trees of one unit, of two units without escapes and of three that   *)
(* come once.                                                              *)

Units(chars, escaped) == [escaped : {escaped}, char : chars, repeat : {"once", "*", "?", "+"}]
Trees ==
  LET plain   == Units({"a", ".", "d"}, FALSE)
      escapes == Units({"d", "$", "\\", ".", "^", "*", "("}, TRUE)
      once(units) == {u \in units : u.repeat = "once"}
  IN  [head : BOOLEAN, tail : BOOLEAN,
       units : {<<>>} \cup {<<u>> : u \in plain \cup escapes} \cup {<<u, v>> : u, v \in plain}
                 \cup {<<u, v>> : u \in once(plain), v \in once(escapes)}
                 \cup {<<v, u>> : u \in once(plain), v \in once(escapes)}
                 \cup {<<u, v, w>> : u, v, w \in once(plain)}]
SomePatterns ==
  UNION {[1 .. n -> {"^", "$", "\\", "*", "a", ".", "d", "("}] : n \in 0 .. 3}
  \cup {TreeText(t) : t \in Trees}
SomeStrings == UNION {[1 .. n -> {"a", "1", "$"}] : n \in 0 .. 2} \cup [1 .. 3 -> {"a", "$"}]

NoRegex ==
  /\ regex = <<>> /\ str = <<>> /\ is_valid = FALSE /\ full_pattern = <<>>
  /\ partial = FALSE /\ full = FALSE /\ trying = "init"

-----------------------------------------------------------------------------
(* Ranges, containers, products of two and three with empty ones among     *)
(* them, conversions, and products of these.                               *)

Leaves  == {Range_(0, 5, 2), Range_(1, 4, 1), Range_(3, 3, 1),
            ValuesIn(<<>>), ValuesIn(<<7>>), ValuesIn(<<4, 9, 4>>)}
Small   == {Range_(1, 3, 1), ValuesIn(<<>>), ValuesIn(<<7, 5>>)}
Pairs   == {Combine(<<a, b>>) : a, b \in Leaves}
SomeGenerators ==
  Leaves \cup Pairs \cup {Combine(<<a, b, c>>) : a, b, c \in Small}
  \cup {Convert(g) : g \in Pairs \cup Leaves}
  \cup {Combine(<<Convert(a), Combine(<<ValuesIn(<<8>>), Range_(0, 3, 2)>>)>>) : a \in Leaves}

NoParams == gen = ValuesIn(<<>>) /\ it = [x \in Iter |-> Begin(gen)] /\ advances = [x \in Iter |-> 0]

-----------------------------------------------------------------------------
(* An empty directory; one with a report; and one where a file has the name *)
(* of a directory, below a root in which nothing may be created.           *)

ReportAt(names)  == [f \in {names} |-> {<<NoColon, 0>>}]
SomeStarts ==
  {[dirs |-> {<<>>, <<"w">>}, files |-> [f \in {} |-> {}], readonly |-> {}],
   [dirs |-> {<<>>, <<"w">>, <<"w", "a">>}, files |-> ReportAt(<<"w", "a", "t">>), readonly |-> {}],
   [dirs |-> {<<>>, <<"w">>}, files |-> ReportAt(<<"w", "a">>), readonly |-> {<<>>}]}
SomeOutputs ==
  {NoColon, <<>>, <<"a", "/", "/">>, <<"/", "w", "/", "a", "/", "b", "/", "t">>,
   <<".", "/", "a", "/", "b", "/">>}
SomeDirs  == {<<"/">>, <<"/", "w">>}
FileNames == 0 :> "t" @@ 1 :> "t_1" @@ 2 :> "t_2"

NoOutput ==
  /\ start = [dirs |-> {<<>>}, files |-> [f \in {} |-> {}], readonly |-> {}]
  /\ tree = start.dirs /\ disk = start.files
  /\ output_flag = [p \in Program |-> NoColon]
  /\ origin = [p \in Program |-> <<"/">>] /\ cwd = origin
  /\ stage = [p \in Program |-> "configure"] /\ number = [p \in Program |-> 0]
  /\ output_file = [p \in Program |-> <<>>] /\ todo = output_file
  /\ round = [p \in Program |-> 1] /\ seen = [p \in Program |-> {}]

-----------------------------------------------------------------------------
MCInit ==
  /\ part \in {"death", "float", "payload", "threads", "diff", "regex", "params", "output"}
  /\ AnyShared /\ PayloadInit /\ AnyIds /\ ThreadsInit
  /\ IF part = "death"   THEN Init       ELSE NoDeath
  /\ IF part = "float"   THEN FloatInit  ELSE NoFloat
  /\ IF part = "diff"    THEN DiffInit   ELSE NoDiff
  /\ IF part = "regex"   THEN RegexInit  ELSE NoRegex
  /\ IF part = "params"  THEN ParamInit  ELSE NoParams
  /\ IF part = "output"  THEN OutputInit ELSE NoOutput

MCNext ==
  \/ /\ part = "death" /\ Next
     /\ UNCHANGED <<part, floatVars, payloadVars, threadsVars, diffVars, regexVars, paramVars, outputVars>>
  \/ /\ part = "float" /\ FloatNext
     /\ UNCHANGED <<part, vars, payloadVars, threadsVars, diffVars, regexVars, paramVars, outputVars>>
  \/ /\ part = "payload" /\ PayloadNext
     /\ UNCHANGED <<part, vars, floatVars, threadsVars, diffVars, regexVars, paramVars, outputVars>>
  \/ /\ part = "threads" /\ ThreadsNext
     /\ UNCHANGED <<part, vars, floatVars, payloadVars, diffVars, regexVars, paramVars, outputVars>>
  \/ /\ part = "diff" /\ DiffNext
     /\ UNCHANGED <<part, vars, floatVars, payloadVars, threadsVars, regexVars, paramVars, outputVars>>
  \/ /\ part = "regex" /\ RegexNext
     /\ UNCHANGED <<part, vars, floatVars, payloadVars, threadsVars, diffVars, paramVars, outputVars>>
  \/ /\ part = "params" /\ ParamNext
     /\ UNCHANGED <<part, vars, floatVars, payloadVars, threadsVars, diffVars, regexVars, outputVars>>
  \/ /\ part = "output" /\ OutputNext
     /\ UNCHANGED <<part, vars, floatVars, payloadVars, threadsVars, diffVars, regexVars, paramVars>>

mcVars == <<part, vars, floatVars, payloadVars, threadsVars, diffVars, regexVars, paramVars, outputVars>>

MCSpec == MCInit /\ [][MCNext]_mcVars /\ WF_vars(Parent) /\ WF_vars(Child)
=============================================================================
