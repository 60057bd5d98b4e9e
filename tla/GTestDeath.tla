----------------------------- MODULE GTestDeath -----------------------------
(***************************************************************************)
(* googletest's death tests on POSIX: EXPECT_DEATH and its like, in a test *)
(* body that the parent process runs.  For each death test the parent      *)
(* forks a child that runs the statement (style "fast"), or one that runs  *)
(* the program again from main, with flags that select this test and this  *)
(* death test (style "threadsafe").  The parent learns from a pipe whether *)
(* the statement came back, from waitpid how the child ended, and from a   *)
(* file what it wrote to stderr.                                           *)
(***************************************************************************)
EXTENDS Naturals, Sequences, SequencesExt, FiniteSets

CONSTANTS
  Bodies,   \* test bodies: sequences of steps
  Styles,   \* values of --gtest_death_test_style
  Faults    \* sets of system calls that may fail

Ends       == {"exit0", "exit1", "signal", "lives", "throws", "returns", "locks",
               "nested", "daemon"}
Predicates == {"ExitedUnsuccessfully", "ExitedWithCode0", "KilledBySignal"}
Calls      == {"pipe", "mkstemp", "fork", "chdir", "execv", "write"}

\* death: a death test whose statement writes to stderr (says) and ends in one
\* of the ways above, checked by ASSERT_ (fatal) or EXPECT_; fatal: an assertion
\* that fails; once: something that cannot be done a second time.
Step == [kind : {"death", "fatal", "once"}, says : BOOLEAN, ends : Ends,
         predicate : Predicates, matcher : {"any", "own"}, fatal : BOOLEAN]

ASSUME DeathAssumption ==
  Bodies \subseteq Seq(Step) /\ Faults \subseteq SUBSET Calls

VARIABLES
  style, body, failing,
  pc,        \* of the parent and of its child
  at,        \* position in the body
  count,     \* TestResult::death_test_count_
  flag,      \* --gtest_internal_run_death_test: index and line, <<0, 0>> if unset
  failed,    \* the test has failed
  captured,  \* where stderr goes: "no", "file", or "lost" without a file
  lock,      \* a mutex of the program, as each process sees it
  writers,   \* who holds the write end of the pipe
  bytes,     \* what is in the pipe
  reading,   \* the parent holds the read end
  outcome,   \* DeathTestImpl::outcome_
  status,    \* DeathTestImpl::status_
  ended,     \* the child: "none", "running", how it ended, or "reaped"
  log,       \* what stderr's file contains
  touched,   \* what a "once" step has done outside of the process
  verdict,   \* history: of the parent's death tests, by position
  did        \* history: how the statement at a position ended in a child

vars == <<style, body, failing, pc, at, count, flag, failed, captured, lock, writers,
          bytes, reading, outcome, status, ended, log, touched, verdict, did>>
tools   == <<style, body, failing>>
channel == <<writers, bytes, reading>>
judged  == <<outcome, status, verdict>>

Processes == {"parent", "child"}
Positions == 1 .. Len(body)
Here(p)   == body[at[p]]
May(call) == call \in failing

Init ==
  /\ style \in Styles /\ body \in Bodies /\ failing \in Faults
  /\ pc = [parent |-> "body", child |-> "none"]
  /\ at = [p \in Processes |-> 1] /\ count = [p \in Processes |-> 0]
  /\ flag = [p \in Processes |-> <<0, 0>>]
  /\ failed = [p \in Processes |-> FALSE]
  /\ captured = [p \in Processes |-> "no"]
  /\ lock = [p \in Processes |-> "free"]
  /\ writers = {} /\ bytes = <<>> /\ reading = FALSE
  /\ outcome = "IN_PROGRESS" /\ status = "none" /\ ended = "none"
  /\ log = {} /\ touched = FALSE
  /\ verdict = [k \in Positions |-> "none"] /\ did = [k \in Positions |-> "none"]

To(p, where)  == pc' = [pc EXCEPT ![p] = where]
Advance(p)    == at' = [at EXCEPT ![p] = @ + 1]

\* GTEST_DEATH_TEST_CHECK_ and GTEST_LOG_(FATAL) in the parent.
DeathTestAbort ==
  /\ To("parent", "aborted")
  /\ UNCHANGED <<tools, at, count, flag, failed, captured, lock, channel, judged, ended,
                 log, touched, did>>

-----------------------------------------------------------------------------
(* The test body, in the parent or in a child that runs main again.        *)

RunStep(p) ==
  /\ pc[p] = "body" /\ at[p] \in Positions /\ Here(p).kind # "death"
  /\ \/ /\ Here(p).kind = "fatal" \/ touched
        /\ failed' = [failed EXCEPT ![p] = TRUE]
        /\ To(p, "end") /\ UNCHANGED <<at, touched>>
     \/ /\ Here(p).kind = "once" /\ ~touched
        /\ touched' = TRUE /\ Advance(p) /\ UNCHANGED <<pc, failed>>
  /\ UNCHANGED <<tools, count, flag, captured, lock, channel, judged, ended, log, did>>

EndBody(p) ==
  /\ pc[p] = "body" /\ at[p] \notin Positions
  /\ To(p, "end")
  /\ UNCHANGED <<tools, at, count, flag, failed, captured, lock, channel, judged, ended,
                 log, touched, did>>

\* The macro's fail branch: EXPECT_ goes on with the body, ASSERT_ leaves it.
Fail(p) ==
  /\ failed' = [failed EXCEPT ![p] = TRUE]
  /\ IF Here(p).fatal THEN To(p, "end") /\ at' = at ELSE To(p, "body") /\ Advance(p)

\* Mutant: the child takes the first death test it meets for its own.
CreateAnyIndex(p) ==
  /\ pc[p] = "body" /\ at[p] \in Positions /\ Here(p).kind = "death"
  /\ count' = [count EXCEPT ![p] = @ + 1]
  /\ \/ /\ flag[p] = <<0, 0>> /\ style \in {"fast", "threadsafe"}
        /\ To(p, "assume") /\ UNCHANGED <<at, failed, verdict>>
     \/ /\ flag[p] # <<0, 0>>
        /\ To(p, "statement") /\ UNCHANGED <<at, failed, verdict>>
  /\ UNCHANGED <<tools, flag, captured, lock, channel, outcome, status, ended, log,
                 touched, did>>

\* DefaultDeathTestFactory::Create; and AssumeRole of the child whose flag this is.
\* An index above the flag's is met only inside a statement: see ComesBack below.
Create(p) ==
  /\ pc[p] = "body" /\ at[p] \in Positions /\ Here(p).kind = "death"
  /\ count' = [count EXCEPT ![p] = @ + 1]
  /\ LET index == count'[p]
         mine  == flag[p] = <<index, at[p]>>
     IN \/ /\ flag[p] = <<0, 0>> /\ style \in {"fast", "threadsafe"}
           /\ To(p, "assume") /\ UNCHANGED <<at, failed, verdict>>
        \/ /\ mine
           /\ To(p, "statement") /\ UNCHANGED <<at, failed, verdict>>
        \/ /\ flag[p] # <<0, 0>> /\ index <= flag[p][1] /\ ~mine
           /\ Advance(p) /\ UNCHANGED <<pc, failed, verdict>>
        \/ /\ flag[p] = <<0, 0>> /\ style \notin {"fast", "threadsafe"}
           /\ Fail(p) /\ verdict' = [verdict EXCEPT ![at[p]] = "failed"]
  /\ UNCHANGED <<tools, flag, captured, lock, channel, outcome, status, ended, log,
                 touched, did>>

-----------------------------------------------------------------------------
(* NoExecDeathTest::AssumeRole, ExecDeathTest::AssumeRole                  *)

OpenPipe ==
  /\ pc["parent"] = "assume"
  /\ \/ /\ reading' = TRUE /\ writers' = {"parent"} /\ bytes' = <<>>
        /\ outcome' = "IN_PROGRESS" /\ status' = "none"
        /\ To("parent", "capture")
        /\ UNCHANGED <<tools, at, count, flag, failed, captured, lock, verdict, ended,
                       log, touched, did>>
     \/ May("pipe") /\ DeathTestAbort

\* CaptureStderr: without a temporary file stderr goes where it went.
CaptureStderr ==
  /\ pc["parent"] = "capture"
  /\ \E where \in {"file"} \cup (IF May("mkstemp") THEN {"lost"} ELSE {}) :
       captured' = [captured EXCEPT !["parent"] = where]
  /\ log' = {}
  /\ To("parent", "fork")
  /\ UNCHANGED <<tools, at, count, flag, failed, lock, channel, judged, ended, touched,
                 did>>

\* The child is a copy of the parent, with none but the forking thread.
Fork ==
  /\ pc["parent"] = "fork"
  /\ \/ /\ pc' = [parent |-> "spawned",
                  child |-> IF style = "fast" THEN "statement" ELSE "exec"]
        /\ ended' = "running"
        /\ writers' = writers \cup {"child"}
        /\ at' = [at EXCEPT !["child"] = at["parent"]]
        /\ count' = [count EXCEPT !["child"] = count["parent"]]
        /\ failed' = [failed EXCEPT !["child"] = failed["parent"]]
        /\ captured' = [captured EXCEPT !["child"] = captured["parent"]]
        /\ lock' = [lock EXCEPT !["child"] = lock["parent"]]
        /\ flag' = [flag EXCEPT !["child"] = <<0, 0>>]
        /\ UNCHANGED <<tools, bytes, reading, judged, log, touched, did>>
     \/ May("fork") /\ DeathTestAbort

\* Mutant: the parent keeps its copy of the write end.
KeepWriteEnd ==
  /\ pc["parent"] = "spawned"
  /\ To("parent", "read")
  /\ UNCHANGED <<tools, at, count, flag, failed, captured, lock, channel, judged, ended,
                 log, touched, did>>

CloseWriteEnd ==
  /\ pc["parent"] = "spawned"
  /\ writers' = writers \ {"parent"}
  /\ To("parent", "read")
  /\ UNCHANGED <<tools, at, count, flag, failed, captured, lock, bytes, reading, judged,
                 ended, log, touched, did>>

-----------------------------------------------------------------------------
(* The child                                                               *)

\* What every end of the child does; its stderr goes to the parent's file.
Die(how, says) ==
  /\ To("child", "gone")
  /\ ended' = how
  /\ log' = IF captured["parent"] = "file" THEN log \cup says ELSE log
  /\ UNCHANGED <<tools, at, count, flag, failed, captured, lock, reading, judged, touched>>

\* ExecDeathTestChildMain: the new program knows nothing of the old but its flags.
Exec ==
  /\ pc["child"] = "exec"
  /\ To("child", "body")
  /\ at' = [at EXCEPT !["child"] = 1]
  /\ count' = [count EXCEPT !["child"] = 0]
  /\ flag' = [flag EXCEPT !["child"] = <<count["parent"], at["parent"]>>]
  /\ failed' = [failed EXCEPT !["child"] = FALSE]
  /\ captured' = [captured EXCEPT !["child"] = "no"]
  /\ lock' = [lock EXCEPT !["child"] = "free"]
  /\ UNCHANGED <<tools, channel, judged, ended, log, touched, did>>

ExecFails ==
  /\ pc["child"] = "exec" /\ (May("chdir") \/ May("execv"))
  /\ Die("signal", {"exec_failed"})
  /\ writers' = writers \ {"child"} /\ UNCHANGED <<bytes, did>>

\* The statement came back: DeathTestImpl::Abort tells it.  A death test within
\* one that is run again is refused, for its count is too high.
ComesBack(ends) == \/ ends \in {"lives", "throws", "returns"}
                   \/ ends = "nested" /\ captured["child"] = "no"

StatusByte(ends) == CASE ends \in {"lives", "nested"} -> "L"
                      [] ends = "throws"              -> "T"
                      [] ends = "returns"             -> "R"

\* A statement that has said what it has to say, and ends as written in the body.
Statement ==
  LET st   == Here("child")
      says == IF st.says THEN {"own"} ELSE {}
      alone == writers' = writers \ {"child"} /\ bytes' = bytes
  IN
  /\ pc["child"] = "statement"
  /\ did' = [did EXCEPT ![at["child"]] = st.ends]
  /\ \/ /\ st.ends \in {"exit0", "exit1", "signal"}
        /\ Die(st.ends, says) /\ alone
     \/ /\ st.ends = "locks" /\ lock["child"] = "free"
        /\ Die("exit1", says) /\ alone
     \/ /\ ComesBack(st.ends)
        /\ Die("exit1", says)
        /\ writers' = writers \ {"child"}
        /\ bytes' = Append(bytes, StatusByte(st.ends))
     \* The byte cannot be written: DeathTestAbort, which in a program that was run
     \* again writes another one, with better luck or none.
     \/ /\ ComesBack(st.ends) /\ May("write") /\ flag["child"] = <<0, 0>>
        /\ Die("signal", says) /\ alone
     \/ /\ ComesBack(st.ends) /\ May("write") /\ flag["child"] # <<0, 0>>
        /\ Die("exit1", says)
        /\ writers' = writers \ {"child"} /\ bytes' \in {bytes, Append(bytes, "I")}
     \/ /\ st.ends = "daemon"             \* it leaves a process behind
        /\ Die("exit1", says)
        /\ writers' = (writers \ {"child"}) \cup {"daemon"} /\ bytes' = bytes
     \/ /\ st.ends = "nested" /\ captured["child"] # "no"
        /\ Die("signal", says \cup {"only_one_capturer"}) /\ alone

\* The child's own body has come to an end: its main returns.
MainReturns ==
  /\ pc["child"] = "end"
  /\ Die(IF failed["child"] THEN "exit1" ELSE "exit0", {})
  /\ writers' = writers \ {"child"} /\ UNCHANGED <<bytes, did>>

-----------------------------------------------------------------------------
(* ForkingDeathTest::Wait and DeathTestImpl::Passed                        *)

Outcome == IF bytes = <<>> THEN "DIED"
           ELSE CASE bytes[1] = "L" -> "LIVED"
                  [] bytes[1] = "T" -> "THREW"
                  [] bytes[1] = "R" -> "RETURNED"

\* The read returns a byte, or nothing once no one holds the write end.
Answered      == pc["parent"] = "read" /\ (bytes # <<>> \/ writers = {})
InternalError == bytes # <<>> /\ bytes[1] = "I"

\* Mutant: the read end is not closed.
ReadStatusByteOnly ==
  /\ Answered /\ ~InternalError
  /\ outcome' = Outcome
  /\ To("parent", "wait")
  /\ UNCHANGED <<tools, at, count, flag, failed, captured, lock, channel, status,
                 verdict, ended, log, touched, did>>

ReadAndInterpretStatusByte ==
  /\ Answered /\ ~InternalError
  /\ outcome' = Outcome
  /\ reading' = FALSE
  /\ To("parent", "wait")
  /\ UNCHANGED <<tools, at, count, flag, failed, captured, lock, writers, bytes, status,
                 verdict, ended, log, touched, did>>

\* What an internal error has to say is read to its end.
FailFromInternalError == Answered /\ InternalError /\ writers = {} /\ DeathTestAbort

WaitPid ==
  /\ pc["parent"] = "wait" /\ ended # "running"
  /\ status' = ended /\ ended' = "reaped"
  /\ To("parent", "judge")
  /\ UNCHANGED <<tools, at, count, flag, failed, captured, lock, channel, outcome,
                 verdict, log, touched, did>>

StatusOk(predicate, how) ==
  CASE predicate = "ExitedUnsuccessfully" -> how # "exit0"
    [] predicate = "ExitedWithCode0"      -> how = "exit0"
    [] predicate = "KilledBySignal"       -> how = "signal"

Matches(matcher, text) == matcher = "any" \/ "own" \in text

Passed ==
  /\ pc["parent"] = "judge"
  /\ \/ /\ captured["parent"] = "file"
        /\ captured' = [captured EXCEPT !["parent"] = "no"]
        /\ IF /\ outcome = "DIED" /\ StatusOk(Here("parent").predicate, status)
              /\ Matches(Here("parent").matcher, log)
             THEN /\ verdict' = [verdict EXCEPT ![at["parent"]] = "passed"]
                  /\ To("parent", "body") /\ Advance("parent") /\ failed' = failed
             ELSE /\ verdict' = [verdict EXCEPT ![at["parent"]] = "failed"]
                  /\ Fail("parent")
        /\ UNCHANGED <<tools, count, flag, lock, channel, outcome, status, ended, log,
                       touched, did>>
     \/ captured["parent"] = "lost" /\ DeathTestAbort

-----------------------------------------------------------------------------
(* What goes on beside: another thread of the parent uses the mutex, and a *)
(* process that a statement left behind may end.                           *)

Worker ==
  /\ pc["parent"] \notin {"end", "aborted"}
  /\ lock' = [lock EXCEPT !["parent"] = IF @ = "free" THEN "worker" ELSE "free"]
  /\ UNCHANGED <<tools, pc, at, count, flag, failed, captured, channel, judged, ended,
                 log, touched, did>>

DaemonEnds ==
  /\ "daemon" \in writers
  /\ writers' = writers \ {"daemon"}
  /\ UNCHANGED <<tools, pc, at, count, flag, failed, captured, lock, bytes, reading,
                 judged, ended, log, touched, did>>

Parent == \/ RunStep("parent") \/ EndBody("parent") \/ Create("parent")
          \/ OpenPipe \/ CaptureStderr \/ Fork \/ CloseWriteEnd
          \/ ReadAndInterpretStatusByte \/ FailFromInternalError \/ WaitPid \/ Passed
Child  == \/ RunStep("child") \/ EndBody("child") \/ Create("child")
          \/ Exec \/ ExecFails \/ Statement \/ MainReturns

Stopped    == pc["parent"] \in {"end", "aborted"}
Terminated == Stopped /\ pc["child"] \in {"none", "gone"} /\ UNCHANGED vars

Next == Parent \/ Child \/ Worker \/ DaemonEnds \/ Terminated

\* The parent and the child are scheduled; nothing is assumed of a daemon, nor of
\* the other thread.
Spec == Init /\ [][Next]_vars /\ WF_vars(Parent) /\ WF_vars(Child)

-----------------------------------------------------------------------------
\* How the process ended that ran the statement at k, if the statement ended it.
Death(k) == CASE did[k] \in {"exit0", "exit1", "signal"} -> did[k]
              [] did[k] \in {"locks", "daemon"}          -> "exit1"
              [] did[k] = "nested" /\ style = "fast"     -> "signal"
              [] OTHER                                   -> "none"

DiedRightly(k) ==
  Death(k) # "none" /\ StatusOk(body[k].predicate, Death(k))
                    /\ Matches(body[k].matcher, IF body[k].says THEN {"own"} ELSE {})

\* What can pass for a death though it is none: a program that could not be run
\* again, a body that went another way the second time and ended before its death
\* test, and a byte that could not be written.
Mistaken(k) ==
  \/ did[k] = "none" /\ style = "threadsafe"
       /\ (failing \cap {"chdir", "execv"} # {} \/ \E j \in 1 .. k - 1 : body[j].kind = "once")
  \/ did[k] \in {"lives", "throws", "returns", "nested"} /\ "write" \in failing

\* A death test passes exactly if its own statement, run in a child, ended the
\* child, with the status and the words expected; the other death tests of the
\* same body, which a child that runs again meets first, are not taken for it.
PassedMeansDied ==
  \A k \in Positions :
    /\ verdict[k] = "passed" => DiedRightly(k) \/ Mistaken(k)
    /\ verdict[k] = "failed" => ~DiedRightly(k)

\* After a death test, passed or failed, the parent goes on with its body as if
\* nothing had happened: both ends of the pipe are closed, the child is reaped,
\* stderr is its own again; and only a failed system call ends the parent.
ParentUnharmed ==
  /\ pc["parent"] \in {"body", "assume", "end"} =>
       /\ ~reading /\ "parent" \notin writers
       /\ captured["parent"] = "no" /\ ended \in {"none", "reaped"}
  /\ pc["parent"] = "aborted" => failing # {}

\* A forked child waits for a mutex whose holder was not forked, or a process it left
\* behind keeps the pipe open.  (A child that runs again has a mutex of its own.)
Stuck ==
  \/ /\ style = "fast" /\ pc["child"] = "statement"
     /\ Here("child").ends = "locks" /\ lock["child"] = "worker"
  \/ "daemon" \in writers

\* Every test body comes to an end, unless it waits forever for such a child.
Concludes == <>Stopped \/ <>[]Stuck
=============================================================================
