--------------------------- MODULE GBenchThreads ---------------------------
(***************************************************************************)
(* One DoNIterations of Google benchmark (builtins/benchmark): the calling *)
(* thread creates the others, all of them run the benchmark function, each *)
(* with a State of its own, and meet at a barrier before and after the     *)
(* loop; the last to leave wakes the caller, which joins them all and      *)
(* reads what they have added up.                                          *)
(*                                                                         *)
(* The benchmark function is any that keeps to benchmark.h: it runs one    *)
(* loop, may skip once, before, in or after the loop, may then return or   *)
(* break out, and may stop the clock during an iteration.  A step is one   *)
(* critical section with the thread-local work around it.  A condition     *)
(* variable may wake a thread for no reason, and must when notified.       *)
(***************************************************************************)
EXTENDS GBenchOutcome, Sequences

CONSTANTS Jobs  \* [threads, iters, loop, batch]: what DoNIterations is given

ASSUME JobsAssumption ==
  \A j \in Jobs : /\ {j.threads, j.iters, j.batch} \subseteq Nat \ {0}
                  /\ j.loop \in {"range", "while"}
                  /\ j.loop = "range" => j.batch = 1

VARIABLES
  job,      \* the arguments of this call
  main,     \* the caller: "spawn", "own", "asleep", "join", "done"
  at,       \* where each thread is in RunInThread
  state,    \* its State: total_iterations_, batch_leftover_, started_,
            \* finished_, skipped_, and the cached_ of the range loop
  timer,    \* its ThreadTimer: running, the iterations since it started, and
            \* those it has accumulated
  work,     \* the iterations the thread has really run, and those it has run
            \* without stopping the clock
  barrier,  \* running_threads_, entered_, phase_number_
  copy,     \* each waiting thread's phase_number_cp
  woken,    \* the threads notified since they went to sleep; -1 is the caller
  manager,  \* alive_threads_ and results
  skips     \* the threads that have skipped, in that order

jobVars == <<job, main, at, state, timer, work, barrier, copy, woken, manager, skips>>

Thread == 0 .. job.threads - 1
Caller == -1

Gone    == {"removed", "last", "done"}
Waiting == {"start_wait", "stop_wait"}

JobInit ==
  /\ job \in Jobs
  /\ main = "spawn"
  /\ at = [t \in Thread |-> "unborn"]
  /\ state = [t \in Thread |-> [total |-> 0, leftover |-> 0, started |-> FALSE,
                                finished |-> FALSE, skipped |-> FALSE, cached |-> 0]]
  /\ timer = [t \in Thread |-> [running |-> FALSE, slice |-> 0, used |-> 0]]
  /\ work = [t \in Thread |-> [run |-> 0, timed |-> 0]]
  /\ barrier = [running |-> job.threads, entered |-> 0, phase |-> 0]
  /\ copy = [t \in Thread |-> 0]
  /\ woken = {}
  /\ manager = [alive |-> job.threads, iterations |-> 0, time |-> 0, skipped |-> FALSE,
                message |-> {}]
  /\ skips = <<>>

Go(t, to) == at' = [at EXCEPT ![t] = to]

-----------------------------------------------------------------------------
\* The loop over pool, and then the caller's own RunInThread.
Spawn ==
  /\ main = "spawn"
  /\ LET born == {t \in Thread : at[t] # "unborn"}
     IN  IF Cardinality(born) = job.threads - 1
           THEN Go(0, "body") /\ main' = "own"
           ELSE Go(Cardinality(born) + 1, "body") /\ main' = main
  /\ UNCHANGED <<job, state, timer, work, barrier, copy, woken, manager, skips>>

StopTimer(tm) == [running |-> FALSE, slice |-> 0, used |-> tm.used + tm.slice]
StartTimer(tm) == [tm EXCEPT !.running = TRUE, !.slice = 0]

\* PauseTiming and ResumeTiming: what happens between them is not timed.
Untimed(tm) == StartTimer(StopTimer(tm))

\* Mutant: the last message wins.
SkipOverwrites(t) ==
  /\ ~state[t].skipped
  /\ state' = [state EXCEPT ![t].skipped = TRUE, ![t].total = 0]
  /\ manager' = [manager EXCEPT !.skipped = TRUE, !.message = {t}]
  /\ timer' = [timer EXCEPT ![t] = StopTimer(@)]
  /\ skips' = Append(skips, t)

\* SkipWithMessage and SkipWithError, which differ in the kind they record.
Skip(t) ==
  /\ ~state[t].skipped
  /\ state' = [state EXCEPT ![t].skipped = TRUE, ![t].total = 0]
  /\ manager' = IF manager.skipped THEN manager
                ELSE [manager EXCEPT !.skipped = TRUE, !.message = {t}]
  /\ timer' = [timer EXCEPT ![t] = StopTimer(@)]
  /\ skips' = Append(skips, t)

SkipOutside(t) ==
  /\ at[t] \in {"body", "after"}
  /\ Skip(t)
  /\ UNCHANGED <<job, main, at, work, barrier, copy, woken>>

\* createBarrier: the thread waits, unless it is the last.
EnterBarrier(t, wait, notify) ==
  IF barrier.entered + 1 < barrier.running
    THEN /\ barrier' = [barrier EXCEPT !.entered = @ + 1]
         /\ copy' = [copy EXCEPT ![t] = barrier.phase]
         /\ Go(t, wait)
    ELSE /\ barrier' = [barrier EXCEPT !.entered = 0, !.phase = @ + 1]
         /\ copy' = copy
         /\ Go(t, notify)

\* The first KeepRunning, or begin and end: StartKeepRunning up to the barrier.
StartKeepRunning(t) ==
  /\ at[t] = "body"
  /\ LET n == IF state[t].skipped THEN 0 ELSE job.iters
     IN  state' = [state EXCEPT ![t].started = TRUE, ![t].total = n,
                                ![t].cached = IF job.loop = "range" THEN n ELSE 0]
  /\ EnterBarrier(t, "start_wait", "start_notify")
  /\ UNCHANGED <<job, main, timer, work, woken, manager, skips>>

\* Mutant: a thread woken up goes on although its phase is not over.
MayPassInPhase(t) == barrier.phase >= copy[t] \/ barrier.entered = barrier.running

\* The predicate of phase_condition_.wait.
MayPass(t) == barrier.phase > copy[t] \/ barrier.entered = barrier.running

\* ResumeTiming, on the way into the loop; nothing on the way out of it.
Pass(t) ==
  /\ Go(t, IF at[t] \in {"start_wait", "start_notify"} THEN "loop" ELSE "after")
  /\ timer' = IF at[t] \in {"start_wait", "start_notify"} /\ ~state[t].skipped
                THEN [timer EXCEPT ![t] = StartTimer(@)] ELSE timer

\* A waiting thread wakes up and its predicate holds.  If the phase has not
\* changed a thread has left, and the sleeper is the last thread after all.
WakePasses(t) ==
  /\ at[t] \in Waiting /\ MayPass(t)
  /\ woken' = woken \ {t}
  /\ IF barrier.phase > copy[t] \/ barrier.entered # barrier.running
       THEN Pass(t) /\ UNCHANGED barrier
       ELSE /\ barrier' = [barrier EXCEPT !.entered = 0, !.phase = @ + 1]
            /\ Go(t, IF at[t] = "start_wait" THEN "start_notify" ELSE "stop_notify")
            /\ UNCHANGED timer
  /\ UNCHANGED <<job, main, state, work, copy, manager, skips>>

\* It wakes up and its predicate does not hold.
WakeWaits(t) ==
  /\ at[t] \in Waiting /\ t \in woken /\ ~MayPass(t)
  /\ woken' = woken \ {t}
  /\ UNCHANGED <<job, main, at, state, timer, work, barrier, copy, manager, skips>>

NotifyAll == woken' = woken \cup {t \in Thread : at[t] \in Waiting}

\* The last thread wakes the others, after it has left the lock.
NotifyPhase(t) ==
  /\ at[t] \in {"start_notify", "stop_notify"}
  /\ NotifyAll
  /\ Pass(t)
  /\ UNCHANGED <<job, main, state, work, barrier, copy, manager, skips>>

\* Mutant: what the last batch runs beyond the iterations asked for is lost.
KeepsRunningForgets(t) ==
  /\ at[t] = "loop"
  /\ IF job.loop = "range" THEN state[t].cached # 0 /\ state' = state
     ELSE /\ state[t].total # 0
          /\ state' = [state EXCEPT ![t].total =
                          IF @ >= job.batch THEN @ - job.batch ELSE 0]
  /\ Go(t, "iterate")
  /\ UNCHANGED <<job, main, timer, work, barrier, copy, woken, manager, skips>>

\* The condition of the loop: KeepRunningInternal, or StateIterator's !=.
KeepsRunning(t) ==
  /\ at[t] = "loop"
  /\ IF job.loop = "range" THEN state[t].cached # 0 /\ state' = state
     ELSE /\ state[t].total # 0
          /\ state' = IF state[t].total >= job.batch
                        THEN [state EXCEPT ![t].total = @ - job.batch]
                        ELSE [state EXCEPT ![t].total = 0,
                                           ![t].leftover = job.batch - state[t].total]
  /\ Go(t, "iterate")
  /\ UNCHANGED <<job, main, timer, work, barrier, copy, woken, manager, skips>>

FinishKeepRunning(t) ==
  /\ at[t] = "loop"
  /\ IF job.loop = "range" THEN state[t].cached = 0 ELSE state[t].total = 0
  /\ timer' = IF state[t].skipped THEN timer ELSE [timer EXCEPT ![t] = StopTimer(@)]
  /\ state' = [state EXCEPT ![t].total = 0, ![t].finished = TRUE]
  /\ EnterBarrier(t, "stop_wait", "stop_notify")
  /\ UNCHANGED <<job, main, work, woken, manager, skips>>

\* The body of the loop, with the clock stopped by PauseTiming or not.
Iterate(t) ==
  /\ at[t] = "iterate"
  /\ \E paused \in BOOLEAN :
       /\ paused => ~state[t].skipped
       /\ timer' = IF paused THEN [timer EXCEPT ![t] = Untimed(@)]
                   ELSE IF timer[t].running THEN [timer EXCEPT ![t].slice = @ + job.batch]
                   ELSE timer
       /\ work' = [work EXCEPT ![t].run = @ + job.batch,
                               ![t].timed = IF paused THEN @ ELSE @ + job.batch]
  /\ state' = [state EXCEPT ![t].cached = IF job.loop = "range" THEN @ - 1 ELSE 0]
  /\ Go(t, "loop")
  /\ UNCHANGED <<job, main, barrier, copy, woken, manager, skips>>

\* The iteration skips the benchmark, and ends.
IterateSkips(t) ==
  /\ at[t] = "iterate"
  /\ Skip(t)
  /\ Go(t, "skipped")
  /\ UNCHANGED <<job, main, work, barrier, copy, woken>>

\* The function breaks out of the loop, or goes on with it.
AfterSkip(t) ==
  /\ at[t] = "skipped"
  /\ \/ Go(t, "after") /\ state' = state
     \/ /\ Go(t, "loop")
        /\ state' = [state EXCEPT ![t].cached = IF job.loop = "range" THEN @ - 1 ELSE 0]
  /\ UNCHANGED <<job, main, timer, work, barrier, copy, woken, manager, skips>>

Iterations(s) == IF s.started THEN job.iters - s.total + s.leftover ELSE 0

\* The function returns: after its loop, or as it has skipped.
Return(t) ==
  /\ at[t] = "after" \/ (at[t] = "body" /\ state[t].skipped)
  /\ manager' = [manager EXCEPT !.iterations = @ + Iterations(state[t]),
                                !.time = @ + timer[t].used]
  /\ Go(t, "recorded")
  /\ UNCHANGED <<job, main, state, timer, work, barrier, copy, woken, skips>>

\* Mutant: the threads at the barrier are not told.
RemoveThreadSilently(t) ==
  /\ at[t] = "recorded"
  /\ barrier' = [barrier EXCEPT !.running = @ - 1]
  /\ Go(t, "removed")
  /\ UNCHANGED <<job, main, state, timer, work, copy, woken, manager, skips>>

\* NotifyThreadComplete: Barrier::removeThread,
RemoveThread(t) ==
  /\ at[t] = "recorded"
  /\ barrier' = [barrier EXCEPT !.running = @ - 1]
  /\ IF barrier.entered # 0 THEN NotifyAll ELSE woken' = woken
  /\ Go(t, "removed")
  /\ UNCHANGED <<job, main, state, timer, work, copy, manager, skips>>

\* the atomic --alive_threads_,
CountDown(t) ==
  /\ at[t] = "removed"
  /\ manager' = [manager EXCEPT !.alive = @ - 1]
  /\ Go(t, IF manager.alive = 1 THEN "last" ELSE "done")
  /\ UNCHANGED <<job, main, state, timer, work, barrier, copy, woken, skips>>

\* and, by the last thread, the notification under the lock.
NotifyEnd(t) ==
  /\ at[t] = "last"
  /\ woken' = IF main = "asleep" THEN woken \cup {Caller} ELSE woken
  /\ Go(t, "done")
  /\ UNCHANGED <<job, main, state, timer, work, barrier, copy, manager, skips>>

\* WaitForAllThreads.
WaitForAllThreads ==
  /\ main = "own" /\ at[0] = "done"
  /\ main' = IF manager.alive = 0 THEN "join" ELSE "asleep"
  /\ UNCHANGED <<job, at, state, timer, work, barrier, copy, woken, manager, skips>>

CallerWakes ==
  /\ main = "asleep" /\ manager.alive = 0
  /\ main' = "join"
  /\ woken' = woken \ {Caller}
  /\ UNCHANGED <<job, at, state, timer, work, barrier, copy, manager, skips>>

\* Mutant: the manager goes when no thread is alive.
JoinNone ==
  /\ main = "join"
  /\ main' = "done"
  /\ UNCHANGED <<job, at, state, timer, work, barrier, copy, woken, manager, skips>>

\* The threads are joined, the results are read, the manager is destroyed.
Join ==
  /\ main = "join"
  /\ \A t \in Thread \ {0} : at[t] = "done"
  /\ main' = "done"
  /\ UNCHANGED <<job, at, state, timer, work, barrier, copy, woken, manager, skips>>

Returned == main = "done" /\ UNCHANGED jobVars

ThreadStep(t) ==
  \/ StartKeepRunning(t) \/ NotifyPhase(t)
  \/ KeepsRunning(t) \/ FinishKeepRunning(t)
  \/ Iterate(t) \/ IterateSkips(t) \/ AfterSkip(t)
  \/ Return(t) \/ RemoveThread(t) \/ CountDown(t) \/ NotifyEnd(t)

CallerStep == Spawn \/ WaitForAllThreads \/ Join

JobNext ==
  \/ CallerStep \/ CallerWakes
  \/ \E t \in Thread : ThreadStep(t) \/ SkipOutside(t) \/ WakePasses(t) \/ WakeWaits(t)
  \/ Returned

\* Every thread that can run is scheduled; a sleeping thread must wake up only
\* when notified; a skip is the benchmark's choice.
Notified(t) == t \in woken /\ (WakePasses(t) \/ WakeWaits(t))

Fairness ==
  /\ WF_jobVars(CallerStep)
  /\ WF_jobVars(Caller \in woken /\ CallerWakes)
  /\ \A t \in UNION {0 .. j.threads - 1 : j \in Jobs} :
       WF_jobVars(t \in Thread /\ (ThreadStep(t) \/ Notified(t)))

JobSpec == JobInit /\ [][JobNext]_jobVars /\ Fairness

-----------------------------------------------------------------------------
\* No thread is timed before every thread has reached its loop or left the
\* benchmark, and none goes on behind its loop before every thread has left
\* its own: what is measured is measured while the others run too, even when
\* some skip, break out or return early (mutex.h:99-150, benchmark.cc:303-324).
Together ==
  \A t, u \in Thread :
    /\ timer[t].running => state[u].started \/ at[u] \in Gone
    /\ state[t].finished /\ at[t] \in Gone \cup {"after", "recorded"} =>
         state[u].finished \/ at[u] \in Gone

\* What a thread hands over is what it did, if it has not skipped: it has run
\* what it was asked for, rounded up to whole batches by less than one, and its
\* State and its timer, which keep their own books of it, agree with that
\* (benchmark.h:965-984, 1036-1120, benchmark.cc:303-324, thread_timer.h:23-44).
CountsRight ==
  \A t \in Thread : at[t] \in Gone \cup {"recorded"} /\ ~state[t].skipped =>
    /\ work[t].run = Iterations(state[t]) /\ work[t].timed = timer[t].used
    /\ work[t].run \in job.iters .. job.iters + job.batch - 1

\* What the caller reads is what the threads did: every iteration, and the time
\* of those that did not stop the clock, summed over the threads as
\* RunInThread does (benchmark_runner.cc:139-146; LargestReported says what
\* benchmark.h promises of the time instead); or that the benchmark was
\* skipped, for the reason the first thread to skip gave, and a count of
\* iterations that is one of those GBenchRunner reckons with.
ResultRight ==
  main = "done" =>
    /\ [skipped |-> manager.skipped, iterations |-> manager.iterations]
         \in Outcomes(job.iters, job.threads, job.batch)
    /\ IF manager.skipped
         THEN manager.message = {skips[1]}
         ELSE /\ skips = <<>>
              /\ manager.iterations = SumFunction([t \in Thread |-> work[t].run])
              /\ manager.time = SumFunction([t \in Thread |-> work[t].timed])

\* "If different threads report different measurements the largest one is
\* reported" (include/benchmark/benchmark.h:802-803; of manual times, 875-876).
\* The report divides the time by the iterations of all threads (reporter.cc:
\* 106-109), so it shows the largest if the time is that of as many threads as
\* slow as the slowest.
LargestReported ==
  main = "done" /\ ~manager.skipped =>
    manager.time = job.threads * Max({work[t].timed : t \in Thread})

\* The manager, with its mutexes, is not destroyed while a thread still has to
\* use it: alive_threads_ is 0 before the last thread takes the lock to tell
\* (thread_manager.h:25-31), and the caller may find that out by itself.
Outlives == main = "done" => \A t \in Thread : at[t] = "done"

\* DoNIterations returns: no thread waits for ever at the barrier for one that
\* has left, and the caller is woken by the last.
Concludes == <>(main = "done")
=============================================================================
