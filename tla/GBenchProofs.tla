---------------------------- MODULE GBenchProofs ----------------------------
(***************************************************************************)
(* Proofs about GBenchThreads, for every number of threads and iterations, *)
(* every loop and every way in which threads skip, break out, leave early  *)
(* and wake up for no reason; and about GBenchRunner, for every legal      *)
(* session: its warm-up, what its reporters are told of each instance and  *)
(* family, and when it may fail.                                           *)
(***************************************************************************)
EXTENDS GBenchRunner, GBenchThreads, Sums, SequenceTheorems

USE JobsAssumption

-----------------------------------------------------------------------------
(* The invariant.                                                          *)

Places == {"unborn", "body", "loop", "iterate", "skipped", "after", "recorded",
           "start_wait", "start_notify", "stop_wait", "stop_notify",
           "removed", "last", "done"}

States   == [total : Nat, leftover : Nat, started : BOOLEAN, finished : BOOLEAN,
             skipped : BOOLEAN, cached : Int]
Timers   == [running : BOOLEAN, slice : Nat, used : Nat]
Works    == [run : Nat, timed : Nat]
Barriers == [running : Int, entered : Int, phase : Nat]

TypeOK ==
  /\ job \in Jobs
  /\ main \in {"spawn", "own", "asleep", "join", "done"}
  /\ at \in [Thread -> Places]
  /\ state \in [Thread -> States]
  /\ timer \in [Thread -> Timers]
  /\ work \in [Thread -> Works]
  /\ barrier \in Barriers
  /\ copy \in [Thread -> Nat]

\* How far a thread at p has come, with its State s and its timer m.
Stage(p, s, m) ==
  /\ p \in {"unborn", "body"} => ~s.started /\ ~s.finished
  /\ p \in {"start_wait", "start_notify", "loop", "iterate", "skipped"} =>
       s.started /\ ~s.finished
  /\ p \in {"stop_wait", "stop_notify"} => s.started /\ s.finished
  /\ p = "after" => s.started
  /\ m.running => p \in {"loop", "iterate"} /\ ~s.skipped

\* Which phases of the barrier it has behind it, and which one it waits for, c;
\* and what it means that the barrier has reached a phase.
Phase(p, s, c, phase) ==
  /\ p \in {"start_notify", "loop", "iterate", "skipped", "stop_wait", "stop_notify",
            "after"} => phase >= 1
  /\ p = "stop_notify" => phase >= 2
  /\ s.finished /\ p \in {"after", "recorded", "removed", "last", "done"} => phase >= 2
  /\ p = "start_wait" => c = 0
  /\ p = "stop_wait" => c >= 1
  /\ p \in Waiting => c <= phase
  /\ phase >= 1 => s.started \/ p \in Gone
  /\ phase >= 2 => s.finished \/ p \in Gone

\* Its books, if it has not skipped: what is left of the iterations and what it
\* has run, w, add up, wherever it is.
Books(p, s, m, w) ==
  /\ s.leftover < job.batch
  /\ p = "skipped" => s.skipped
  /\ ~s.skipped =>
       /\ w.timed = m.used + m.slice
       /\ p \in {"loop", "iterate"} => m.running
       /\ p \notin {"loop", "iterate"} => m.slice = 0
       /\ s.total > 0 => s.leftover = 0
       /\ p \in {"unborn", "body"} => w.run = 0 /\ s.leftover = 0
       /\ p \in {"start_wait", "start_notify"} =>
            /\ w.run = 0 /\ s.leftover = 0 /\ s.total = job.iters
            /\ job.loop = "range" => s.cached = job.iters
       /\ p \in {"loop", "iterate"} /\ job.loop = "range" =>
            s.total = job.iters /\ s.leftover = 0 /\ w.run = job.iters - s.cached
       /\ p = "loop" /\ job.loop = "while" => w.run = job.iters - s.total + s.leftover
       /\ p = "iterate" /\ job.loop = "while" =>
            w.run + job.batch = job.iters - s.total + s.leftover
       /\ p \in {"stop_wait", "stop_notify", "after", "recorded", "removed", "last", "done"} =>
            s.started /\ s.total = 0 /\ w.run = job.iters + s.leftover

Right(p, s, m, w, c, phase) == Stage(p, s, m) /\ Phase(p, s, c, phase) /\ Books(p, s, m, w)

ThreadRight(t) == Right(at[t], state[t], timer[t], work[t], copy[t], barrier.phase)

Present == {t \in Thread : at[t] \notin Gone}
Waiters == {t \in Thread : at[t] \in Waiting /\ copy[t] = barrier.phase}

\* The barrier counts the threads that have not left, and of those the ones
\* that wait for the phase in progress.
CountersRight ==
  /\ barrier.running = Cardinality(Present)
  /\ barrier.entered = Cardinality(Waiters)

\* The caller creates the threads in order, itself last, and waits for them.
CallerRight ==
  /\ main = "spawn" => \E k \in 0 .. job.threads - 1 :
       \A t \in Thread : at[t] = "unborn" <=> t = 0 \/ t > k
  /\ main \in {"asleep", "join", "done"} => at[0] = "done"
  /\ main = "done" => \A t \in Thread : at[t] = "done"

IInv ==
  /\ TypeOK
  /\ \A t \in Thread : ThreadRight(t)
  /\ CountersRight
  /\ CallerRight

-----------------------------------------------------------------------------
(* Facts about threads and about those at the barrier.                     *)

LEMMA ThreadsAre ==
  ASSUME TypeOK
  PROVE  /\ job.threads \in Nat \ {0} /\ job.iters \in Nat \ {0} /\ job.batch \in Nat \ {0}
         /\ job.loop \in {"range", "while"} /\ (job.loop = "range" => job.batch = 1)
         /\ 0 \in Thread /\ IsFiniteSet(Thread) /\ Cardinality(Thread) = job.threads
<1>1. job \in Jobs
  BY DEF TypeOK
<1>2. /\ {job.threads, job.iters, job.batch} \subseteq Nat \ {0}
      /\ job.loop \in {"range", "while"} /\ (job.loop = "range" => job.batch = 1)
  BY <1>1
<1>3. job.threads \in Nat \ {0} /\ job.iters \in Nat \ {0} /\ job.batch \in Nat \ {0}
  BY <1>2
<1>4. 0 \in Thread
  BY <1>3 DEF Thread
<1>5. IsFiniteSet(Thread) /\ Cardinality(Thread) = job.threads
  <2>1. 0 \in Int /\ job.threads - 1 \in Int /\ ~(0 > job.threads - 1)
    BY <1>3
  <2>2. job.threads - 1 - 0 + 1 = job.threads
    BY <1>3
  <2> QED
    BY <2>1, <2>2, FS_Interval DEF Thread
<1> QED
  BY <1>2, <1>3, <1>4, <1>5

LEMMA BarrierSetsFinite ==
  ASSUME TypeOK
  PROVE  IsFiniteSet(Present) /\ IsFiniteSet(Waiters) /\ Waiters \subseteq Present
<1>1. Present \in SUBSET Thread /\ Waiters \in SUBSET Thread
  BY DEF Present, Waiters
<1>2. Waiters \subseteq Present
  BY DEF Present, Waiters, Gone, Waiting
<1> QED
  BY <1>1, <1>2, ThreadsAre, FS_Subset

\* A thread that comes last finds all that have not left waiting for its phase.
LEMMA LastFindsAll ==
  ASSUME IInv, NEW t \in Present, t \notin Waiters,
         ~(barrier.entered + 1 < barrier.running)
  PROVE  Present = Waiters \cup {t}
<1>1. IsFiniteSet(Present) /\ IsFiniteSet(Waiters) /\ Waiters \subseteq Present
  BY BarrierSetsFinite DEF IInv
<1>2. IsFiniteSet(Waiters \cup {t}) /\ Cardinality(Waiters \cup {t}) = Cardinality(Waiters) + 1
  BY <1>1, FS_AddElement
<1>3. Waiters \cup {t} \in SUBSET Present
  BY <1>1
<1>4. Cardinality(Waiters \cup {t}) <= Cardinality(Present)
  BY <1>1, <1>3, FS_Subset
<1>5. Cardinality(Waiters \cup {t}) >= Cardinality(Present)
  <2>1. Cardinality(Waiters) \in Nat /\ Cardinality(Present) \in Nat
    BY <1>1, FS_CardinalityType
  <2> QED
    BY <1>2, <2>1 DEF IInv, CountersRight
<1>6. Cardinality(Waiters \cup {t}) = Cardinality(Present)
  BY <1>1, <1>2, <1>4, <1>5, FS_CardinalityType
<1> QED
  BY <1>1, <1>3, <1>6, FS_Subset

\* When as many have entered as there are, all that have not left wait.
LEMMA FullMeansAll ==
  ASSUME IInv, barrier.entered = barrier.running
  PROVE  Present = Waiters
<1>1. IsFiniteSet(Present) /\ Waiters \subseteq Present
  BY BarrierSetsFinite DEF IInv
<1> QED
  BY <1>1, FS_Subset DEF IInv, CountersRight

\* The invariant of a thread that a step does not touch.
LEMMA Untouched ==
  ASSUME NEW u, ThreadRight(u), UNCHANGED job, barrier'.phase = barrier.phase,
         at'[u] = at[u], state'[u] = state[u], timer'[u] = timer[u], work'[u] = work[u],
         copy'[u] = copy[u]
  PROVE  ThreadRight(u)'
BY DEF ThreadRight, Right, Stage, Phase, Books

\* A step of a thread that does not have to do with the barrier.
LEMMA SameBarrier ==
  ASSUME IInv, UNCHANGED <<job, barrier, copy>>,
         \A u \in Thread : /\ at'[u] \in Waiting /\ copy[u] = barrier.phase <=> u \in Waiters
                           /\ at'[u] \in Gone <=> at[u] \in Gone
  PROVE  CountersRight'
<1>1. Thread' = Thread
  BY DEF Thread
<1>2. Present' = Present
  BY <1>1 DEF Present, Gone
<1>3. Waiters' = Waiters
  BY <1>1 DEF Waiters, Waiting
<1> QED
  BY <1>2, <1>3 DEF IInv, CountersRight

LEMMA SameCaller ==
  ASSUME IInv, UNCHANGED <<job, main>>, NEW t \in Thread,
         at[t] \notin {"done", "unborn"}, at'[t] # "unborn",
         \A u \in Thread \ {t} : at'[u] = at[u]
  PROVE  CallerRight'
<1>1. Thread' = Thread /\ 0 \in Thread
  BY ThreadsAre DEF Thread, IInv
<1> QED
  BY <1>1 DEF IInv, CallerRight

\* What a step of t may rely on.
LEMMA StepFacts ==
  ASSUME IInv, NEW t \in Thread
  PROVE  /\ at \in [Thread -> Places] /\ at[t] \in Places
         /\ state \in [Thread -> States] /\ state[t] \in States
         /\ timer \in [Thread -> Timers] /\ timer[t] \in Timers
         /\ work \in [Thread -> Works] /\ work[t] \in Works
         /\ copy \in [Thread -> Nat] /\ copy[t] \in Nat /\ barrier.phase \in Nat
         /\ Right(at[t], state[t], timer[t], work[t], copy[t], barrier.phase)
         /\ job.iters \in Nat \ {0} /\ job.batch \in Nat \ {0}
         /\ job.loop \in {"range", "while"} /\ (job.loop = "range" => job.batch = 1)
BY ThreadsAre DEF IInv, TypeOK, ThreadRight, Barriers

\* A step of t that leaves the barrier alone and takes it to p, with s, m and w.
LocalStep(t, p, s, m, w) ==
  /\ UNCHANGED <<job, main, barrier, copy>>
  /\ at' = [at EXCEPT ![t] = p] /\ state' = [state EXCEPT ![t] = s]
  /\ timer' = [timer EXCEPT ![t] = m] /\ work' = [work EXCEPT ![t] = w]
  /\ at[t] \notin {"done", "unborn"} /\ p # "unborn"
  /\ p \notin Waiting /\ t \notin Waiters /\ (p \in Gone <=> at[t] \in Gone)
  /\ Right(p, s, m, w, copy[t], barrier.phase)

LEMMA LocalStepInv ==
  ASSUME IInv, NEW t \in Thread, NEW p \in Places, NEW s \in States, NEW m \in Timers,
         NEW w \in Works, LocalStep(t, p, s, m, w)
  PROVE  IInv'
<1>1. Thread' = Thread
  BY DEF Thread, LocalStep
<1>2. /\ at'[t] = p /\ state'[t] = s /\ timer'[t] = m /\ work'[t] = w
      /\ \A u \in Thread \ {t} : /\ at'[u] = at[u] /\ state'[u] = state[u]
                                 /\ timer'[u] = timer[u] /\ work'[u] = work[u]
  BY StepFacts DEF LocalStep
<1>3. TypeOK'
  BY <1>1, StepFacts DEF IInv, TypeOK, LocalStep
<1>4. ThreadRight(t)'
  <2>1. Right(p, s, m, w, copy[t], barrier.phase)'
    BY DEF Right, Stage, Phase, Books, LocalStep
  <2> QED
    BY <1>2, <2>1 DEF ThreadRight, LocalStep
<1>5. \A u \in Thread \ {t} : ThreadRight(u)'
  BY <1>2, Untouched DEF IInv, LocalStep
<1>6. CountersRight'
  <2>1. \A u \in Thread : /\ at'[u] \in Waiting /\ copy[u] = barrier.phase <=> u \in Waiters
                          /\ at'[u] \in Gone <=> at[u] \in Gone
    BY <1>2 DEF LocalStep, Waiters
  <2> QED
    BY <2>1, SameBarrier DEF LocalStep
<1>7. CallerRight'
  BY <1>2, SameCaller DEF LocalStep
<1> QED
  BY <1>1, <1>3, <1>4, <1>5, <1>6, <1>7 DEF IInv

-----------------------------------------------------------------------------
(* The steps.                                                              *)

LEMMA InitInv == JobInit => IInv
<1> SUFFICES ASSUME JobInit PROVE IInv
  OBVIOUS
<1> DEFINE s0 == [total |-> 0, leftover |-> 0, started |-> FALSE, finished |-> FALSE,
                  skipped |-> FALSE, cached |-> 0]
           m0 == [running |-> FALSE, slice |-> 0, used |-> 0]
           w0 == [run |-> 0, timed |-> 0]
<1>1. s0 \in States /\ m0 \in Timers /\ w0 \in Works
  BY DEF States, Timers, Works
<1>2. /\ at = [t \in Thread |-> "unborn"] /\ state = [t \in Thread |-> s0]
      /\ timer = [t \in Thread |-> m0] /\ work = [t \in Thread |-> w0]
      /\ copy = [t \in Thread |-> 0]
      /\ barrier = [running |-> job.threads, entered |-> 0, phase |-> 0]
  BY DEF JobInit
<1>3. TypeOK
  <2>1. job \in Jobs /\ main = "spawn"
    BY DEF JobInit
  <2>2. job.threads \in Nat
    BY <2>1
  <2>3. barrier \in Barriers
    BY <1>2, <2>2 DEF Barriers
  <2>4. state \in [Thread -> States] /\ timer \in [Thread -> Timers] /\ work \in [Thread -> Works]
    <3> HIDE DEF s0, m0, w0
    <3> QED
      BY <1>1, <1>2
  <2>5. at \in [Thread -> Places] /\ copy \in [Thread -> Nat]
    BY <1>2 DEF Places
  <2> QED
    BY <2>1, <2>3, <2>4, <2>5 DEF TypeOK
<1>4. \A t \in Thread : ThreadRight(t)
  <2>1. Right("unborn", s0, m0, w0, 0, 0)
    BY <1>3, ThreadsAre DEF Right, Stage, Phase, Books, Waiting
  <2>2. \A t \in Thread : /\ at[t] = "unborn" /\ state[t] = s0 /\ timer[t] = m0 /\ work[t] = w0
                          /\ copy[t] = 0 /\ barrier.phase = 0
    BY <1>2
  <2> HIDE DEF s0, m0, w0
  <2> QED
    BY <2>1, <2>2 DEF ThreadRight
<1>5. CountersRight
  <2>1. Present = Thread /\ Waiters = {}
    BY <1>2 DEF Present, Waiters, Gone, Waiting
  <2> QED
    BY <1>2, <1>3, <2>1, ThreadsAre, FS_EmptySet DEF CountersRight
<1>6. CallerRight
  <2>1. main = "spawn" /\ \A t \in Thread : at[t] = "unborn"
    BY <1>2 DEF JobInit
  <2>2. 0 \in 0 .. job.threads - 1 /\ \A t \in Thread : t = 0 \/ t > 0
    BY <1>3, ThreadsAre DEF Thread
  <2> QED
    BY <2>1, <2>2 DEF CallerRight
<1> QED
  BY <1>3, <1>4, <1>5, <1>6 DEF IInv

\* The next thread to be created has not been, and starts from scratch.
LEMMA SpawnInv == ASSUME IInv, Spawn PROVE IInv'
<1> DEFINE born == {t \in Thread : at[t] # "unborn"}
<1>1. PICK k \in 0 .. job.threads - 1 : \A t \in Thread : at[t] = "unborn" <=> t = 0 \/ t > k
  BY DEF IInv, CallerRight, Spawn
<1>2. job.threads \in Nat \ {0} /\ 0 \in Thread /\ Thread' = Thread
  BY ThreadsAre DEF IInv, Spawn, Thread
<1>3. Cardinality(born) = k
  <2>1. born = 1 .. k
    BY <1>1, <1>2 DEF Thread
  <2>2. Cardinality(1 .. k) = k
    <3>1. Cardinality(1 .. k) = IF 1 > k THEN 0 ELSE k - 1 + 1
      BY <1>1, <1>2, FS_Interval
    <3> QED
      BY <1>1, <1>2, <3>1
  <2> QED
    BY <2>1, <2>2
<1>4. PICK n \in Thread : n = IF k = job.threads - 1 THEN 0 ELSE k + 1
  BY <1>1, <1>2 DEF Thread
<1>5. at[n] = "unborn"
  BY <1>1, <1>2, <1>4 DEF Thread
<1>6. /\ at' = [at EXCEPT ![n] = "body"] /\ main' = (IF n = 0 THEN "own" ELSE "spawn")
      /\ UNCHANGED <<job, state, timer, work, barrier, copy>> /\ main = "spawn"
  <2>1. IF k = job.threads - 1 THEN Go(0, "body") /\ main' = "own"
                               ELSE Go(k + 1, "body") /\ main' = main
    BY <1>3 DEF Spawn
  <2>2. /\ UNCHANGED <<job, state, timer, work, barrier, copy>> /\ main = "spawn"
    BY DEF Spawn
  <2> QED
    BY <1>1, <1>2, <1>4, <2>1, <2>2 DEF Go
<1> HIDE DEF born
<1>7. /\ at'[n] = "body"
      /\ \A u \in Thread \ {n} : at'[u] = at[u]
  BY <1>4, <1>6, StepFacts
<1>8. TypeOK'
  BY <1>2, <1>4, <1>6, StepFacts DEF IInv, TypeOK, Places
<1>9. ThreadRight(n)'
  <2>1. Right("body", state[n], timer[n], work[n], copy[n], barrier.phase)
    BY <1>4, <1>5, StepFacts DEF Right, Stage, Phase, Books, Waiting, Gone
  <2>2. Right("body", state[n], timer[n], work[n], copy[n], barrier.phase)'
    BY <1>6, <2>1 DEF Right, Stage, Phase, Books
  <2> QED
    BY <1>6, <1>7, <2>2 DEF ThreadRight
<1>10. \A u \in Thread \ {n} : ThreadRight(u)'
  BY <1>6, <1>7, Untouched DEF IInv
<1>11. CountersRight'
  <2>1. \A u \in Thread : /\ at'[u] \in Waiting /\ copy[u] = barrier.phase <=> u \in Waiters
                          /\ at'[u] \in Gone <=> at[u] \in Gone
    BY <1>5, <1>7 DEF Waiters, Waiting, Gone
  <2> QED
    BY <1>6, <2>1, SameBarrier
<1>12. CallerRight'
  <2>1. CASE n = 0
    BY <1>6, <2>1 DEF CallerRight
  <2>2. CASE n # 0
    <3>1. n = k + 1 /\ n \in 0 .. job.threads - 1
      BY <1>1, <1>2, <1>4, <2>2 DEF Thread
    <3>2. \A t \in Thread : at'[t] = "unborn" <=> t = 0 \/ t > n
      BY <1>1, <1>2, <1>7, <2>2, <3>1 DEF Thread
    <3> QED
      BY <1>2, <1>6, <2>2, <3>1, <3>2 DEF CallerRight
  <2> QED
    BY <2>1, <2>2
<1> QED
  BY <1>2, <1>8, <1>9, <1>10, <1>11, <1>12 DEF IInv

\* Nothing of what a thread keeps changes, but what a step says.
LEMMA Kept ==
  ASSUME IInv, NEW t \in Thread
  PROVE  /\ at = [at EXCEPT ![t] = at[t]] /\ state = [state EXCEPT ![t] = state[t]]
         /\ timer = [timer EXCEPT ![t] = timer[t]] /\ work = [work EXCEPT ![t] = work[t]]
BY StepFacts

LEMMA FieldFacts ==
  ASSUME IInv, NEW t \in Thread
  PROVE  /\ state[t].total \in Nat /\ state[t].leftover \in Nat /\ state[t].cached \in Int
         /\ timer[t].slice \in Nat /\ timer[t].used \in Nat
         /\ work[t].run \in Nat /\ work[t].timed \in Nat
         /\ job.iters \in Nat /\ job.batch \in Nat
BY StepFacts DEF States, Timers, Works

LEMMA SkipFacts ==
  ASSUME IInv, NEW t \in Thread, Skip(t)
  PROVE  \E s \in States, m \in Timers :
           /\ state' = [state EXCEPT ![t] = s] /\ timer' = [timer EXCEPT ![t] = m]
           /\ s.skipped /\ s.started = state[t].started /\ s.finished = state[t].finished
           /\ s.leftover = state[t].leftover /\ ~m.running
<1> DEFINE s == [state[t] EXCEPT !.skipped = TRUE, !.total = 0]
           m == StopTimer(timer[t])
<1>1. s \in States /\ m \in Timers
  <2>1. s \in States
    BY StepFacts DEF States
  <2>2. m \in Timers
    BY FieldFacts DEF Timers, StopTimer
  <2> QED
    BY <2>1, <2>2
<1>2. state' = [state EXCEPT ![t] = s] /\ timer' = [timer EXCEPT ![t] = m]
  BY StepFacts DEF Skip, States
<1>3. /\ s.skipped /\ s.started = state[t].started /\ s.finished = state[t].finished
      /\ s.leftover = state[t].leftover /\ ~m.running
  BY StepFacts DEF States, StopTimer
<1> QED
  BY <1>1, <1>2, <1>3

LEMMA SkipOutsideInv == ASSUME IInv, NEW t \in Thread, SkipOutside(t) PROVE IInv'
<1>1. Skip(t) /\ at[t] \in {"body", "after"} /\ UNCHANGED <<job, main, at, work, barrier, copy>>
  BY DEF SkipOutside
<1>2. PICK s \in States, m \in Timers :
        /\ state' = [state EXCEPT ![t] = s] /\ timer' = [timer EXCEPT ![t] = m]
        /\ s.skipped /\ s.started = state[t].started /\ s.finished = state[t].finished
        /\ s.leftover = state[t].leftover /\ ~m.running
  BY <1>1, SkipFacts
<1>3. Right(at[t], s, m, work[t], copy[t], barrier.phase)
  BY <1>1, <1>2, StepFacts DEF Right, Stage, Phase, Books, Waiting, Gone
<1>4. at' = [at EXCEPT ![t] = at[t]] /\ work' = [work EXCEPT ![t] = work[t]]
  BY <1>1, Kept
<1>5. LocalStep(t, at[t], s, m, work[t])
  BY <1>1, <1>2, <1>3, <1>4, Kept DEF LocalStep, Waiters, Waiting, Gone
<1> QED
  BY <1>5, StepFacts, LocalStepInv

LEMMA IterateSkipsInv == ASSUME IInv, NEW t \in Thread, IterateSkips(t) PROVE IInv'
<1>1. /\ Skip(t) /\ at[t] = "iterate" /\ UNCHANGED <<job, main, work, barrier, copy>>
      /\ at' = [at EXCEPT ![t] = "skipped"]
  BY DEF IterateSkips, Go
<1>2. PICK s \in States, m \in Timers :
        /\ state' = [state EXCEPT ![t] = s] /\ timer' = [timer EXCEPT ![t] = m]
        /\ s.skipped /\ s.started = state[t].started /\ s.finished = state[t].finished
        /\ s.leftover = state[t].leftover /\ ~m.running
  BY <1>1, SkipFacts
<1>3. Right("skipped", s, m, work[t], copy[t], barrier.phase)
  BY <1>1, <1>2, StepFacts DEF Right, Stage, Phase, Books, Waiting, Gone
<1>4. "skipped" \in Places
  BY DEF Places
<1>5. LocalStep(t, "skipped", s, m, work[t])
  BY <1>1, <1>2, <1>3, Kept DEF LocalStep, Waiters, Waiting, Gone
<1> QED
  BY <1>5, <1>4, StepFacts, LocalStepInv

LEMMA KeepsRunningInv == ASSUME IInv, NEW t \in Thread, KeepsRunning(t) PROVE IInv'
<1>1. /\ at[t] = "loop" /\ UNCHANGED <<job, main, timer, work, barrier, copy>>
      /\ at' = [at EXCEPT ![t] = "iterate"]
  BY DEF KeepsRunning, Go
<1>2. "iterate" \in Places
  BY DEF Places
<1>3. PICK s \in States :
        /\ state' = [state EXCEPT ![t] = s]
        /\ Right("iterate", s, timer[t], work[t], copy[t], barrier.phase)
  <2>1. CASE job.loop = "range"
    <3>1. state' = [state EXCEPT ![t] = state[t]]
      BY <2>1, Kept DEF KeepsRunning
    <3>2. Right("iterate", state[t], timer[t], work[t], copy[t], barrier.phase)
      BY <1>1, <2>1, StepFacts DEF Right, Stage, Phase, Books, Waiting, Gone
    <3> QED
      BY <3>1, <3>2, StepFacts
  <2>2. CASE job.loop = "while" /\ state[t].total >= job.batch
    <3> DEFINE s == [state[t] EXCEPT !.total = state[t].total - job.batch]
    <3>1. s \in States
      BY <2>2, StepFacts DEF States
    <3>2. state' = [state EXCEPT ![t] = s]
      BY <2>2, StepFacts DEF KeepsRunning, States
    <3>3. /\ s.total = state[t].total - job.batch /\ s.leftover = state[t].leftover
          /\ s.started = state[t].started /\ s.finished = state[t].finished
          /\ s.skipped = state[t].skipped
      BY StepFacts DEF States
    <3> HIDE DEF s
    <3>4. Stage("iterate", s, timer[t]) /\ Phase("iterate", s, copy[t], barrier.phase)
      BY <1>1, <3>3, StepFacts DEF Right, Stage, Phase, Waiting, Gone
    <3>5. Books("iterate", s, timer[t], work[t])
      <4>1. Books("loop", state[t], timer[t], work[t])
        BY <1>1, StepFacts DEF Right
      <4> QED
        BY <2>2, <3>3, <4>1, FieldFacts DEF Books
    <3> QED
      BY <3>1, <3>2, <3>4, <3>5 DEF Right
  <2>3. CASE job.loop = "while" /\ ~(state[t].total >= job.batch)
    <3> DEFINE s == [state[t] EXCEPT !.total = 0, !.leftover = job.batch - state[t].total]
    <3>1. s \in States
      <4>1. job.batch - state[t].total \in Nat
        BY <2>3, FieldFacts
      <4> QED
        BY <4>1, StepFacts DEF States
    <3>2. state' = [state EXCEPT ![t] = s]
      BY <2>3, StepFacts DEF KeepsRunning, States
    <3>3. state[t].total # 0
      BY <2>3 DEF KeepsRunning
    <3>4. /\ s.total = 0 /\ s.leftover = job.batch - state[t].total
          /\ s.started = state[t].started /\ s.finished = state[t].finished
          /\ s.skipped = state[t].skipped
      BY StepFacts DEF States
    <3> HIDE DEF s
    <3>5. Stage("iterate", s, timer[t]) /\ Phase("iterate", s, copy[t], barrier.phase)
      BY <1>1, <3>4, StepFacts DEF Right, Stage, Phase, Waiting, Gone
    <3>6. Books("iterate", s, timer[t], work[t])
      <4>1. Books("loop", state[t], timer[t], work[t])
        BY <1>1, StepFacts DEF Right
      <4> QED
        BY <2>3, <3>3, <3>4, <4>1, FieldFacts DEF Books
    <3> QED
      BY <3>1, <3>2, <3>5, <3>6 DEF Right
  <2> QED
    BY <2>1, <2>2, <2>3, StepFacts
<1>4. LocalStep(t, "iterate", s, timer[t], work[t])
  BY <1>1, <1>3, Kept DEF LocalStep, Waiters, Waiting, Gone
<1> QED
  BY <1>4, <1>2, <1>3, StepFacts, LocalStepInv

LEMMA IterateInv == ASSUME IInv, NEW t \in Thread, Iterate(t) PROVE IInv'
<1> DEFINE s == [state[t] EXCEPT !.cached = IF job.loop = "range" THEN state[t].cached - 1 ELSE 0]
<1>1. /\ at[t] = "iterate" /\ UNCHANGED <<job, main, barrier, copy>>
      /\ at' = [at EXCEPT ![t] = "loop"] /\ "loop" \in Places
  BY DEF Iterate, Go, Places
<1>2. s \in States /\ state' = [state EXCEPT ![t] = s]
  BY StepFacts DEF Iterate, States
<1>3. /\ s.total = state[t].total /\ s.leftover = state[t].leftover
      /\ s.started = state[t].started /\ s.finished = state[t].finished
      /\ s.skipped = state[t].skipped
      /\ job.loop = "range" => s.cached = state[t].cached - 1
  BY StepFacts DEF States
<1> HIDE DEF s
<1>4. PICK paused \in BOOLEAN :
       /\ paused => ~state[t].skipped
       /\ timer' = IF paused THEN [timer EXCEPT ![t] = Untimed(@)]
                   ELSE IF timer[t].running THEN [timer EXCEPT ![t].slice = @ + job.batch]
                   ELSE timer
       /\ work' = [work EXCEPT ![t].run = @ + job.batch,
                               ![t].timed = IF paused THEN @ ELSE @ + job.batch]
  BY DEF Iterate
<1> DEFINE n == IF paused THEN work[t].timed ELSE work[t].timed + job.batch
           w == [work[t] EXCEPT !.run = work[t].run + job.batch, !.timed = n]
<1>5. w \in Works
  <2>1. n \in Nat /\ work[t].run + job.batch \in Nat
    BY FieldFacts
  <2> HIDE DEF n
  <2> QED
    BY <2>1, StepFacts DEF Works
<1>6. work' = [work EXCEPT ![t] = w]
  BY <1>4, StepFacts DEF Works
<1> DEFINE Fits(m) ==
             /\ timer' = [timer EXCEPT ![t] = m]
             /\ (m.running <=> timer[t].running \/ paused) /\ (~m.running => m = timer[t])
             /\ m.running => m.used + m.slice = IF paused THEN timer[t].used + timer[t].slice
                                                ELSE timer[t].used + timer[t].slice + job.batch
<1>7. PICK m \in Timers : Fits(m)
  <2>1. CASE paused
    <3> DEFINE stopped == StopTimer(timer[t])
               m == Untimed(timer[t])
    <3>0. stopped \in Timers /\ stopped.used = timer[t].used + timer[t].slice
      BY FieldFacts DEF Timers, StopTimer
    <3>1. /\ m \in Timers /\ m.running /\ m.slice = 0
          /\ m.used = timer[t].used + timer[t].slice
      <4>1. m = [stopped EXCEPT !.running = TRUE, !.slice = 0]
        BY DEF Untimed, StartTimer
      <4> HIDE DEF m, stopped
      <4> QED
        BY <3>0, <4>1 DEF Timers
    <3>2. timer' = [timer EXCEPT ![t] = m]
      BY <1>4, <2>1
    <3> HIDE DEF m
    <3>3. Fits(m)
      BY <2>1, <3>1, <3>2, FieldFacts
    <3> HIDE DEF Fits
    <3> QED
      BY <3>1, <3>3
  <2>2. CASE ~paused /\ timer[t].running
    <3> DEFINE m == [timer[t] EXCEPT !.slice = timer[t].slice + job.batch]
    <3>1. m \in Timers /\ m.running = timer[t].running /\ m.used = timer[t].used
          /\ m.slice = timer[t].slice + job.batch
      BY StepFacts, FieldFacts DEF Timers
    <3>2. timer' = [timer EXCEPT ![t] = m]
      BY <1>4, <2>2, StepFacts DEF Timers
    <3> HIDE DEF m
    <3>3. Fits(m)
      BY <2>2, <3>1, <3>2, FieldFacts
    <3> HIDE DEF Fits
    <3> QED
      BY <3>1, <3>3
  <2>3. CASE ~paused /\ ~timer[t].running
    <3>1. Fits(timer[t])
      BY <1>4, <2>3, Kept
    <3> HIDE DEF Fits
    <3> QED
      BY <3>1, StepFacts
  <2> QED
    BY <2>1, <2>2, <2>3
<1>8. Right("loop", s, m, w, copy[t], barrier.phase)
  <2>1. w.run = work[t].run + job.batch
        /\ w.timed = IF paused THEN work[t].timed ELSE work[t].timed + job.batch
    BY StepFacts DEF Works
  <2>2. m.slice \in Nat /\ m.used \in Nat
    BY DEF Timers
  <2> HIDE DEF w
  <2>3. Stage("loop", s, m) /\ Phase("loop", s, copy[t], barrier.phase)
    BY <1>1, <1>3, <1>4, <1>7, StepFacts DEF Right, Stage, Phase, Waiting, Gone
  <2>4. Books("loop", s, m, w)
    <3>1. Books("iterate", state[t], timer[t], work[t])
      BY <1>1, StepFacts DEF Right
    <3>2. job.loop \in {"range", "while"} /\ (job.loop = "range" => job.batch = 1)
      BY StepFacts
    <3> QED
      BY <1>3, <1>4, <1>7, <2>1, <2>2, <3>1, <3>2, FieldFacts DEF Books
  <2> QED
    BY <2>3, <2>4 DEF Right
<1> HIDE DEF w
<1>9. LocalStep(t, "loop", s, m, w)
  BY <1>1, <1>2, <1>6, <1>7, <1>8, Kept DEF LocalStep, Waiters, Waiting, Gone
<1> QED
  BY <1>9, <1>1, <1>2, <1>5, StepFacts, LocalStepInv

LEMMA AfterSkipInv == ASSUME IInv, NEW t \in Thread, AfterSkip(t) PROVE IInv'
<1>1. /\ at[t] = "skipped" /\ UNCHANGED <<job, main, timer, work, barrier, copy>>
  BY DEF AfterSkip
<1>2. "after" \in Places /\ "loop" \in Places
  BY DEF Places
<1>3. CASE at' = [at EXCEPT ![t] = "after"] /\ state' = state
  <2>1. Right("after", state[t], timer[t], work[t], copy[t], barrier.phase)
    BY <1>1, StepFacts DEF Right, Stage, Phase, Books, Waiting, Gone
  <2>2. LocalStep(t, "after", state[t], timer[t], work[t])
    BY <1>1, <1>3, <2>1, Kept DEF LocalStep, Waiters, Waiting, Gone
  <2> QED
    BY <2>2, <1>2, StepFacts, LocalStepInv
<1>4. CASE ~(at' = [at EXCEPT ![t] = "after"] /\ state' = state)
  <2> DEFINE s == [state[t] EXCEPT !.cached = IF job.loop = "range" THEN state[t].cached - 1
                                              ELSE 0]
  <2>1. s \in States /\ state' = [state EXCEPT ![t] = s] /\ at' = [at EXCEPT ![t] = "loop"]
    BY <1>4, StepFacts DEF AfterSkip, Go, States
  <2>2. /\ s.leftover = state[t].leftover /\ s.skipped = state[t].skipped
        /\ s.started = state[t].started /\ s.finished = state[t].finished
    BY StepFacts DEF States
  <2> HIDE DEF s
  <2>3. Right("loop", s, timer[t], work[t], copy[t], barrier.phase)
    BY <1>1, <2>2, StepFacts DEF Right, Stage, Phase, Books, Waiting, Gone
  <2>4. LocalStep(t, "loop", s, timer[t], work[t])
    BY <1>1, <2>1, <2>3, Kept DEF LocalStep, Waiters, Waiting, Gone
  <2> QED
    BY <2>4, <1>2, <2>1, StepFacts, LocalStepInv
<1> QED
  BY <1>3, <1>4

LEMMA ReturnInv == ASSUME IInv, NEW t \in Thread, Return(t) PROVE IInv'
<1>1. /\ at[t] = "after" \/ (at[t] = "body" /\ state[t].skipped)
      /\ UNCHANGED <<job, main, state, timer, work, barrier, copy>>
      /\ at' = [at EXCEPT ![t] = "recorded"] /\ "recorded" \in Places
  BY DEF Return, Go, Places
<1>2. Right("recorded", state[t], timer[t], work[t], copy[t], barrier.phase)
  BY <1>1, StepFacts DEF Right, Stage, Phase, Books, Waiting, Gone
<1>3. LocalStep(t, "recorded", state[t], timer[t], work[t])
  BY <1>1, <1>2, Kept DEF LocalStep, Waiters, Waiting, Gone
<1> QED
  BY <1>3, <1>1, StepFacts, LocalStepInv

LEMMA CountDownInv == ASSUME IInv, NEW t \in Thread, CountDown(t) PROVE IInv'
<1>1. PICK p \in {"last", "done"} : at' = [at EXCEPT ![t] = p]
  BY DEF CountDown, Go
<1>2. /\ at[t] = "removed" /\ p \in Places
      /\ UNCHANGED <<job, main, state, timer, work, barrier, copy>>
  BY DEF CountDown, Places
<1>3. Right(p, state[t], timer[t], work[t], copy[t], barrier.phase)
  BY <1>2, StepFacts DEF Right, Stage, Phase, Books, Waiting, Gone
<1>4. LocalStep(t, p, state[t], timer[t], work[t])
  BY <1>1, <1>2, <1>3, Kept DEF LocalStep, Waiters, Waiting, Gone
<1> QED
  BY <1>4, <1>2, StepFacts, LocalStepInv

LEMMA NotifyEndInv == ASSUME IInv, NEW t \in Thread, NotifyEnd(t) PROVE IInv'
<1>1. /\ at[t] = "last" /\ at' = [at EXCEPT ![t] = "done"] /\ "done" \in Places
      /\ UNCHANGED <<job, main, state, timer, work, barrier, copy>>
  BY DEF NotifyEnd, Go, Places
<1>2. Right("done", state[t], timer[t], work[t], copy[t], barrier.phase)
  BY <1>1, StepFacts DEF Right, Stage, Phase, Books, Waiting, Gone
<1>3. LocalStep(t, "done", state[t], timer[t], work[t])
  BY <1>1, <1>2, Kept DEF LocalStep, Waiters, Waiting, Gone
<1> QED
  BY <1>3, <1>1, StepFacts, LocalStepInv

-----------------------------------------------------------------------------
(* The barrier.                                                            *)

\* The thread enters, and waits at p.
WaitStep(t, p, s, m) ==
  /\ UNCHANGED <<job, main, work>>
  /\ at' = [at EXCEPT ![t] = p] /\ state' = [state EXCEPT ![t] = s]
  /\ timer' = [timer EXCEPT ![t] = m] /\ copy' = [copy EXCEPT ![t] = barrier.phase]
  /\ barrier' = [barrier EXCEPT !.entered = @ + 1]
  /\ at[t] \notin Gone \cup Waiting \cup {"unborn"} /\ p \in Waiting
  /\ Right(p, s, m, work[t], barrier.phase, barrier.phase)

\* The thread finds that all the others wait, and ends the phase.
LastStep(t, p, s, m) ==
  /\ UNCHANGED <<job, main, work, copy>>
  /\ at' = [at EXCEPT ![t] = p] /\ state' = [state EXCEPT ![t] = s]
  /\ timer' = [timer EXCEPT ![t] = m]
  /\ barrier' = [barrier EXCEPT !.entered = 0, !.phase = @ + 1]
  /\ at[t] \notin Gone \cup {"unborn"} /\ Present \subseteq Waiters \cup {t}
  /\ p \notin Gone \cup Waiting \cup {"unborn"}
  /\ Right(p, s, m, work[t], copy[t], barrier.phase + 1)

LEMMA WaitStepInv ==
  ASSUME IInv, NEW t \in Thread, NEW p \in Places, NEW s \in States, NEW m \in Timers,
         WaitStep(t, p, s, m)
  PROVE  IInv'
<1>1. Thread' = Thread /\ UNCHANGED <<job, main, work>>
  BY DEF Thread, WaitStep
<1>2. /\ at'[t] = p /\ state'[t] = s /\ timer'[t] = m /\ copy'[t] = barrier.phase
      /\ \A u \in Thread \ {t} : /\ at'[u] = at[u] /\ state'[u] = state[u]
                                 /\ timer'[u] = timer[u] /\ copy'[u] = copy[u]
  BY StepFacts DEF WaitStep
<1>3. /\ barrier' \in Barriers /\ barrier'.phase = barrier.phase
      /\ barrier'.running = barrier.running /\ barrier'.entered = barrier.entered + 1
  BY DEF WaitStep, IInv, TypeOK, Barriers
<1>4. TypeOK'
  <2>1. at' \in [Thread -> Places] /\ state' \in [Thread -> States]
        /\ timer' \in [Thread -> Timers] /\ copy' \in [Thread -> Nat]
    BY StepFacts DEF WaitStep
  <2> QED
    BY <1>1, <1>3, <2>1 DEF IInv, TypeOK
<1>5. ThreadRight(t)'
  <2>1. Right(p, s, m, work[t], barrier.phase, barrier.phase)
    BY DEF WaitStep
  <2> QED
    BY <1>1, <1>2, <1>3, <2>1 DEF ThreadRight, Right, Stage, Phase, Books
<1>6. \A u \in Thread \ {t} : ThreadRight(u)'
  BY <1>1, <1>2, <1>3, Untouched DEF IInv
<1>7. CountersRight'
  <2>1. Present' = Present
    BY <1>1, <1>2 DEF Present, WaitStep, Waiting, Gone
  <2>2. Waiters' = Waiters \cup {t} /\ t \notin Waiters
    BY <1>1, <1>2, <1>3 DEF Waiters, WaitStep
  <2>3. Cardinality(Waiters \cup {t}) = Cardinality(Waiters) + 1
    BY <2>2, BarrierSetsFinite, FS_AddElement DEF IInv
  <2> QED
    BY <1>3, <2>1, <2>2, <2>3 DEF IInv, CountersRight
<1>8. CallerRight'
  BY <1>1, <1>2, SameCaller DEF WaitStep, Waiting, Gone
<1> QED
  BY <1>1, <1>4, <1>5, <1>6, <1>7, <1>8 DEF IInv

\* The end of a phase, for a thread that waits for it or has left.
LEMMA NextPhase ==
  ASSUME NEW p \in Places, NEW s \in States, NEW m, NEW c \in Nat, NEW k \in Nat,
         Stage(p, s, m), Phase(p, s, c, k),
         p \in Gone \/ (p \in Waiting /\ k <= c)
  PROVE  Phase(p, s, c, k + 1)
<1>1. CASE p \in Gone
  <2>1. s.finished => k >= 2
    BY <1>1 DEF Phase, Gone
  <2> QED
    BY <1>1, <2>1 DEF Phase, Gone, Waiting
<1>2. CASE p = "start_wait" /\ k <= c
  <2>1. k = 0 /\ c = 0 /\ s.started /\ ~s.finished
    BY <1>2 DEF Stage, Phase, Waiting
  <2> QED
    BY <1>2, <2>1 DEF Phase, Waiting
<1>3. CASE p = "stop_wait" /\ k <= c
  <2>1. k >= 1 /\ c >= 1 /\ c <= k /\ s.started /\ s.finished
    BY <1>3 DEF Stage, Phase, Waiting
  <2> QED
    BY <1>3, <2>1 DEF Phase, Waiting
<1> QED
  BY <1>1, <1>2, <1>3 DEF Waiting

LEMMA LastStepInv ==
  ASSUME IInv, NEW t \in Thread, NEW p \in Places, NEW s \in States, NEW m \in Timers,
         LastStep(t, p, s, m)
  PROVE  IInv'
<1>1. Thread' = Thread /\ UNCHANGED <<job, main, work, copy>>
  BY DEF Thread, LastStep
<1>2. /\ at'[t] = p /\ state'[t] = s /\ timer'[t] = m
      /\ \A u \in Thread \ {t} : /\ at'[u] = at[u] /\ state'[u] = state[u]
                                 /\ timer'[u] = timer[u]
  BY StepFacts DEF LastStep
<1>3. /\ barrier' \in Barriers /\ barrier'.phase = barrier.phase + 1 /\ barrier.phase \in Nat
      /\ barrier'.running = barrier.running /\ barrier'.entered = 0
  <2>1. barrier \in Barriers
    BY DEF IInv, TypeOK
  <2>2. barrier' = [barrier EXCEPT !.entered = 0, !.phase = barrier.phase + 1]
    BY DEF LastStep
  <2>3. barrier.phase \in Nat /\ barrier.phase + 1 \in Nat
    BY <2>1 DEF Barriers
  <2>4. barrier' \in Barriers
    <3> DEFINE r == [barrier EXCEPT !.entered = 0]
    <3>1. r \in Barriers
      BY <2>1 DEF Barriers
    <3>2. barrier' = [r EXCEPT !.phase = barrier.phase + 1]
      BY <2>2
    <3> HIDE DEF r
    <3> QED
      BY <2>3, <3>1, <3>2 DEF Barriers
  <2>5. barrier'.phase = barrier.phase + 1
    BY <2>1, <2>2 DEF Barriers
  <2>6. barrier'.running = barrier.running /\ barrier'.entered = 0
    BY <2>1, <2>2 DEF Barriers
  <2> QED
    BY <2>3, <2>4, <2>5, <2>6
<1>4. TypeOK'
  <2>1. at' \in [Thread -> Places] /\ state' \in [Thread -> States]
        /\ timer' \in [Thread -> Timers]
    BY StepFacts DEF LastStep
  <2> QED
    BY <1>1, <1>3, <2>1 DEF IInv, TypeOK
<1>5. ThreadRight(t)'
  <2>1. Right(p, s, m, work[t], copy[t], barrier.phase + 1)
    BY DEF LastStep
  <2> QED
    BY <1>1, <1>2, <1>3, <2>1 DEF ThreadRight, Right, Stage, Phase, Books
<1>6. ASSUME NEW u \in Thread \ {t} PROVE ThreadRight(u)'
  <2>1. at[u] \in Gone \/ (at[u] \in Waiting /\ copy[u] = barrier.phase)
    BY DEF LastStep, Present, Waiters
  <2>2. Right(at[u], state[u], timer[u], work[u], copy[u], barrier.phase) /\ copy[u] \in Nat
    BY StepFacts
  <2>3. Phase(at[u], state[u], copy[u], barrier.phase + 1)
    <3>1. at[u] \in Gone \/ (at[u] \in Waiting /\ barrier.phase <= copy[u])
      BY <1>3, <2>1
    <3>2. Stage(at[u], state[u], timer[u]) /\ Phase(at[u], state[u], copy[u], barrier.phase)
      BY <2>2 DEF Right
    <3>3. at[u] \in Places /\ state[u] \in States
      BY StepFacts
    <3> QED
      BY <1>3, <2>2, <3>1, <3>2, <3>3, NextPhase
  <2>4. Right(at[u], state[u], timer[u], work[u], copy[u], barrier.phase + 1)
    BY <2>2, <2>3 DEF Right
  <2> QED
    BY <1>1, <1>2, <1>3, <2>4 DEF ThreadRight, Right, Stage, Phase, Books
<1>7. CountersRight'
  <2>1. Present' = Present
    BY <1>1, <1>2 DEF Present, LastStep
  <2>2. Waiters' = {}
    <3>1. \A u \in Thread : u \notin Waiters'
      <4>1. t \notin Waiters'
        BY <1>2 DEF Waiters, LastStep
      <4>2. \A u \in Thread \ {t} : at[u] \in Waiting => copy[u] = barrier.phase
        BY DEF Waiters, Present, LastStep, Waiting, Gone
      <4> QED
        BY <1>1, <1>2, <1>3, <4>1, <4>2 DEF Waiters
    <3> QED
      BY <1>1, <3>1 DEF Waiters
  <2> QED
    BY <1>3, <2>1, <2>2, FS_EmptySet DEF IInv, CountersRight
<1>8. CallerRight'
  BY <1>1, <1>2, SameCaller DEF LastStep, Gone
<1> QED
  BY <1>1, <1>4, <1>5, <1>6, <1>7, <1>8 DEF IInv

\* The thread enters, and waits at wait or ends the phase and goes to notify.
EnterStep(t, wait, notify, s, m) ==
  /\ EnterBarrier(t, wait, notify) /\ UNCHANGED <<job, main, work>>
  /\ state' = [state EXCEPT ![t] = s] /\ timer' = [timer EXCEPT ![t] = m]
  /\ at[t] \notin Gone \cup Waiting \cup {"unborn"}
  /\ Right(wait, s, m, work[t], barrier.phase, barrier.phase)
  /\ Right(notify, s, m, work[t], copy[t], barrier.phase + 1)

LEMMA EnterStepInv ==
  ASSUME IInv, NEW t \in Thread, NEW wait \in Waiting,
         NEW notify \in {"start_notify", "stop_notify"}, NEW s \in States, NEW m \in Timers,
         EnterStep(t, wait, notify, s, m)
  PROVE  IInv'
<1>1. wait \in Places /\ notify \in Places
  BY DEF Places, Waiting
<1>2. CASE barrier.entered + 1 < barrier.running
  <2>1. WaitStep(t, wait, s, m)
    BY <1>2 DEF WaitStep, EnterStep, EnterBarrier, Go
  <2> QED
    BY <1>1, <2>1, WaitStepInv
<1>3. CASE ~(barrier.entered + 1 < barrier.running)
  <2>1. t \in Present /\ t \notin Waiters
    BY DEF EnterStep, Present, Waiters
  <2>2. Present = Waiters \cup {t}
    BY <1>3, <2>1, LastFindsAll
  <2>3. LastStep(t, notify, s, m)
    BY <1>3, <2>2 DEF LastStep, EnterStep, EnterBarrier, Go, Gone, Waiting
  <2> QED
    BY <1>1, <2>3, LastStepInv
<1> QED
  BY <1>2, <1>3

LEMMA StartKeepRunningInv == ASSUME IInv, NEW t \in Thread, StartKeepRunning(t) PROVE IInv'
<1> DEFINE n == IF state[t].skipped THEN 0 ELSE job.iters
           c == IF job.loop = "range" THEN n ELSE 0
           s == [state[t] EXCEPT !.started = TRUE, !.total = n, !.cached = c]
<1>1. /\ at[t] = "body" /\ UNCHANGED <<job, main, timer, work>>
      /\ EnterBarrier(t, "start_wait", "start_notify")
      /\ state' = [state EXCEPT ![t].started = TRUE, ![t].total = n, ![t].cached = c]
  BY DEF StartKeepRunning
<1>2. n \in Nat /\ c \in Int
  BY FieldFacts
<1>3. s \in States /\ state' = [state EXCEPT ![t] = s]
  <2> HIDE DEF n, c
  <2> QED
    BY <1>1, <1>2, StepFacts DEF States
<1>4. /\ s.started /\ s.finished = state[t].finished /\ s.skipped = state[t].skipped
      /\ s.leftover = state[t].leftover /\ s.total = n /\ s.cached = c
  BY StepFacts DEF States
<1> HIDE DEF s
<1>5. Stage("body", state[t], timer[t]) /\ Books("body", state[t], timer[t], work[t])
      /\ Phase("body", state[t], copy[t], barrier.phase) /\ barrier.phase \in Nat
  BY <1>1, StepFacts DEF Right
<1>6. barrier.phase = 0 /\ ~s.finished
  BY <1>4, <1>5 DEF Stage, Phase, Gone
<1>7. Books("start_wait", s, timer[t], work[t]) /\ Books("start_notify", s, timer[t], work[t])
  BY <1>4, <1>5, FieldFacts DEF Books
<1>8. /\ Stage("start_wait", s, timer[t]) /\ Stage("start_notify", s, timer[t])
      /\ Phase("start_wait", s, barrier.phase, barrier.phase)
      /\ Phase("start_notify", s, copy[t], barrier.phase + 1)
  BY <1>4, <1>5, <1>6 DEF Stage, Phase, Waiting, Gone
<1>9. EnterStep(t, "start_wait", "start_notify", s, timer[t])
  BY <1>1, <1>3, <1>7, <1>8, Kept DEF EnterStep, Right, Gone, Waiting
<1> QED
  BY <1>3, <1>9, StepFacts, EnterStepInv DEF Waiting

LEMMA FinishKeepRunningInv == ASSUME IInv, NEW t \in Thread, FinishKeepRunning(t) PROVE IInv'
<1> DEFINE m == IF state[t].skipped THEN timer[t] ELSE StopTimer(timer[t])
           s == [state[t] EXCEPT !.total = 0, !.finished = TRUE]
<1>1. /\ at[t] = "loop" /\ UNCHANGED <<job, main, work>>
      /\ EnterBarrier(t, "stop_wait", "stop_notify")
      /\ IF job.loop = "range" THEN state[t].cached = 0 ELSE state[t].total = 0
      /\ timer' = IF state[t].skipped THEN timer ELSE [timer EXCEPT ![t] = StopTimer(@)]
  BY DEF FinishKeepRunning
<1>2. s \in States /\ state' = [state EXCEPT ![t] = s]
  BY StepFacts DEF FinishKeepRunning, States
<1>3. /\ s.started = state[t].started /\ s.finished /\ s.skipped = state[t].skipped
      /\ s.leftover = state[t].leftover /\ s.total = 0
  BY StepFacts DEF States
<1> HIDE DEF s
<1>4. m \in Timers /\ timer' = [timer EXCEPT ![t] = m]
  <2>1. StopTimer(timer[t]) \in Timers
    BY FieldFacts DEF StopTimer, Timers
  <2> QED
    BY <1>1, <2>1, StepFacts, Kept
<1>5. Stage("loop", state[t], timer[t]) /\ Books("loop", state[t], timer[t], work[t])
      /\ Phase("loop", state[t], copy[t], barrier.phase) /\ barrier.phase \in Nat
  BY <1>1, StepFacts DEF Right
<1>6. /\ ~m.running
      /\ ~state[t].skipped => m.slice = 0 /\ m.used = timer[t].used + timer[t].slice
  BY <1>5 DEF StopTimer, Stage
<1> HIDE DEF m
<1>7. /\ s.started /\ barrier.phase >= 1 /\ job.loop \in {"range", "while"}
      /\ s.skipped \/ work[t].run = job.iters + state[t].leftover
  BY <1>1, <1>3, <1>5, StepFacts, FieldFacts DEF Stage, Phase, Books
<1>8. Books("stop_wait", s, m, work[t]) /\ Books("stop_notify", s, m, work[t])
  BY <1>3, <1>5, <1>6, <1>7, FieldFacts DEF Books
<1>9. /\ Stage("stop_wait", s, m) /\ Stage("stop_notify", s, m)
      /\ Phase("stop_wait", s, barrier.phase, barrier.phase)
      /\ Phase("stop_notify", s, copy[t], barrier.phase + 1)
  BY <1>3, <1>5, <1>6, <1>7 DEF Stage, Phase, Waiting, Gone
<1>10. EnterStep(t, "stop_wait", "stop_notify", s, m)
  BY <1>1, <1>2, <1>4, <1>8, <1>9 DEF EnterStep, Right, Gone, Waiting
<1> QED
  BY <1>2, <1>4, <1>10, EnterStepInv DEF Waiting

\* The way out of the barrier.
LEMMA PassInv ==
  ASSUME IInv, NEW t \in Thread, Pass(t), at[t] \in Waiting \cup {"start_notify", "stop_notify"},
         t \notin Waiters, UNCHANGED <<job, main, state, work, barrier, copy>>
  PROVE  IInv'
<1> DEFINE starts == at[t] \in {"start_wait", "start_notify"}
           p == IF starts THEN "loop" ELSE "after"
           m == IF starts /\ ~state[t].skipped THEN StartTimer(timer[t]) ELSE timer[t]
<1>1. p \in Places /\ at' = [at EXCEPT ![t] = p]
  BY DEF Pass, Go, Places
<1>2. m \in Timers /\ timer' = [timer EXCEPT ![t] = m]
  <2>1. StartTimer(timer[t]) \in Timers
    BY StepFacts DEF StartTimer, Timers
  <2> QED
    BY <2>1, StepFacts, Kept DEF Pass
<1>3. Stage(at[t], state[t], timer[t]) /\ Books(at[t], state[t], timer[t], work[t])
      /\ Phase(at[t], state[t], copy[t], barrier.phase)
      /\ barrier.phase \in Nat /\ copy[t] \in Nat
  BY StepFacts DEF Right
<1>4. /\ m.used = timer[t].used
      /\ starts /\ ~state[t].skipped => m.running /\ m.slice = 0
      /\ ~(starts /\ ~state[t].skipped) => ~m.running /\ m = timer[t]
  <2>1. StartTimer(timer[t]).used = timer[t].used
        /\ StartTimer(timer[t]).running /\ StartTimer(timer[t]).slice = 0
    BY StepFacts DEF StartTimer, Timers
  <2>2. ~timer[t].running
    BY <1>3 DEF Stage, Waiting
  <2> QED
    BY <2>1, <2>2
<1>5. at[t] \in Waiting => barrier.phase > copy[t]
  BY <1>3 DEF Waiters, Phase
<1> HIDE DEF m
<1>6. Right(p, state[t], m, work[t], copy[t], barrier.phase)
  <2>1. CASE starts
    <3>1. barrier.phase >= 1
      BY <1>3, <1>5, <2>1 DEF Phase, Waiting
    <3>2. Stage("loop", state[t], m) /\ Phase("loop", state[t], copy[t], barrier.phase)
      BY <1>3, <1>4, <2>1, <3>1 DEF Stage, Phase, Waiting, Gone
    <3>3. Books("loop", state[t], m, work[t])
      BY <1>3, <1>4, <2>1, FieldFacts DEF Books
    <3> QED
      BY <2>1, <3>2, <3>3 DEF Right
  <2>2. CASE ~starts
    <3>1. barrier.phase >= 2
      BY <1>3, <1>5, <2>2 DEF Phase, Waiting
    <3>2. Stage("after", state[t], m) /\ Phase("after", state[t], copy[t], barrier.phase)
      BY <1>3, <1>4, <2>2, <3>1 DEF Stage, Phase, Waiting, Gone
    <3>3. Books("after", state[t], m, work[t])
      BY <1>3, <1>4, <2>2, FieldFacts DEF Books, Waiting
    <3> QED
      BY <2>2, <3>2, <3>3 DEF Right
  <2> QED
    BY <2>1, <2>2
<1>7. LocalStep(t, p, state[t], m, work[t])
  BY <1>1, <1>2, <1>6, Kept DEF LocalStep, Waiting, Gone
<1> QED
  BY <1>1, <1>2, <1>7, StepFacts, LocalStepInv

LEMMA WakePassesInv == ASSUME IInv, NEW t \in Thread, WakePasses(t) PROVE IInv'
<1>1. /\ at[t] \in Waiting /\ MayPass(t) /\ UNCHANGED <<job, main, state, work, copy>>
  BY DEF WakePasses
<1>2. barrier.phase \in Nat /\ copy[t] \in Nat
  BY StepFacts
<1>3. CASE barrier.phase > copy[t] \/ barrier.entered # barrier.running
  <2>1. t \notin Waiters
    BY <1>1, <1>2, <1>3 DEF MayPass, Waiters
  <2>2. Pass(t) /\ UNCHANGED barrier
    BY <1>3 DEF WakePasses
  <2> QED
    BY <1>1, <2>1, <2>2, PassInv
<1>4. CASE ~(barrier.phase > copy[t] \/ barrier.entered # barrier.running)
  <2> DEFINE p == IF at[t] = "start_wait" THEN "start_notify" ELSE "stop_notify"
  <2>1. /\ barrier' = [barrier EXCEPT !.entered = 0, !.phase = @ + 1]
        /\ at' = [at EXCEPT ![t] = p] /\ timer' = timer
    BY <1>4 DEF WakePasses, Go
  <2>2. Present \subseteq Waiters \cup {t}
    BY <1>4, FullMeansAll
  <2>3. Stage(at[t], state[t], timer[t]) /\ Books(at[t], state[t], timer[t], work[t])
        /\ Phase(at[t], state[t], copy[t], barrier.phase)
    BY StepFacts DEF Right
  <2>4. Right(p, state[t], timer[t], work[t], copy[t], barrier.phase + 1)
    <3>1. CASE at[t] = "start_wait"
      <4>1. /\ Stage("start_notify", state[t], timer[t])
            /\ Phase("start_notify", state[t], copy[t], barrier.phase + 1)
        BY <1>2, <1>4, <2>3, <3>1 DEF Stage, Phase, Waiting, Gone
      <4>2. Books("start_notify", state[t], timer[t], work[t])
        BY <2>3, <3>1 DEF Books
      <4> QED
        BY <3>1, <4>1, <4>2 DEF Right
    <3>2. CASE at[t] = "stop_wait"
      <4>1. /\ Stage("stop_notify", state[t], timer[t])
            /\ Phase("stop_notify", state[t], copy[t], barrier.phase + 1)
        BY <1>2, <1>4, <2>3, <3>2 DEF Stage, Phase, Waiting, Gone
      <4>2. Books("stop_notify", state[t], timer[t], work[t])
        BY <2>3, <3>2 DEF Books
      <4> QED
        BY <3>2, <4>1, <4>2 DEF Right
    <3> QED
      BY <1>1, <3>1, <3>2 DEF Waiting
  <2>5. LastStep(t, p, state[t], timer[t])
    BY <1>1, <2>1, <2>2, <2>4, Kept DEF LastStep, Waiting, Gone
  <2>6. p \in Places
    BY DEF Places
  <2> QED
    BY <2>5, <2>6, StepFacts, LastStepInv
<1> QED
  BY <1>3, <1>4

LEMMA NotifyPhaseInv == ASSUME IInv, NEW t \in Thread, NotifyPhase(t) PROVE IInv'
<1>1. /\ at[t] \in {"start_notify", "stop_notify"} /\ Pass(t)
      /\ UNCHANGED <<job, main, state, work, barrier, copy>>
  BY DEF NotifyPhase
<1>2. t \notin Waiters
  BY <1>1 DEF Waiters, Waiting
<1> QED
  BY <1>1, <1>2, PassInv

\* A thread that leaves is not counted any more; it was not waiting.
LEMMA RemoveThreadInv == ASSUME IInv, NEW t \in Thread, RemoveThread(t) PROVE IInv'
<1>1. /\ at[t] = "recorded" /\ at' = [at EXCEPT ![t] = "removed"]
      /\ barrier' = [barrier EXCEPT !.running = @ - 1]
      /\ UNCHANGED <<job, main, state, timer, work, copy>> /\ Thread' = Thread
  BY DEF RemoveThread, Go, Thread
<1>2. at'[t] = "removed" /\ \A u \in Thread \ {t} : at'[u] = at[u]
  BY <1>1, StepFacts
<1>3. /\ barrier' \in Barriers /\ barrier'.phase = barrier.phase
      /\ barrier'.running = barrier.running - 1 /\ barrier'.entered = barrier.entered
  BY <1>1 DEF IInv, TypeOK, Barriers
<1>4. TypeOK'
  <2>1. at' \in [Thread -> Places]
    BY <1>1, StepFacts DEF Places
  <2> QED
    BY <1>1, <1>3, <2>1 DEF IInv, TypeOK
<1>5. ThreadRight(t)'
  <2>1. Right("removed", state[t], timer[t], work[t], copy[t], barrier.phase)
    BY <1>1, StepFacts DEF Right, Stage, Phase, Books, Waiting, Gone
  <2> QED
    BY <1>1, <1>2, <1>3, <2>1 DEF ThreadRight, Right, Stage, Phase, Books
<1>6. \A u \in Thread \ {t} : ThreadRight(u)'
  BY <1>1, <1>2, <1>3, Untouched DEF IInv
<1>7. CountersRight'
  <2>1. Present' = Present \ {t} /\ t \in Present
    BY <1>1, <1>2 DEF Present, Gone
  <2>2. Waiters' = Waiters
    BY <1>1, <1>2, <1>3 DEF Waiters, Waiting
  <2>3. Cardinality(Present \ {t}) = Cardinality(Present) - 1
    BY <2>1, BarrierSetsFinite, FS_RemoveElement DEF IInv
  <2> QED
    BY <1>3, <2>1, <2>2, <2>3 DEF IInv, CountersRight
<1>8. CallerRight'
  BY <1>1, <1>2, SameCaller
<1> QED
  BY <1>1, <1>4, <1>5, <1>6, <1>7, <1>8 DEF IInv

-----------------------------------------------------------------------------
(* The caller, and the theorems.                                           *)

\* Steps that change nothing but where the caller is, and who is woken.
LEMMA CallerInv ==
  ASSUME IInv, UNCHANGED <<job, at, state, timer, work, barrier, copy>>,
         main' \in {"asleep", "join", "done"}, at[0] = "done",
         main' = "done" => \A t \in Thread : at[t] = "done"
  PROVE  IInv'
<1>1. Thread' = Thread
  BY DEF Thread
<1>2. TypeOK'
  BY <1>1 DEF IInv, TypeOK
<1>3. \A t \in Thread : ThreadRight(t)'
  BY Untouched DEF IInv
<1>4. Present' = Present /\ Waiters' = Waiters
  BY <1>1 DEF Present, Waiters
<1>5. CountersRight'
  BY <1>4 DEF IInv, CountersRight
<1>6. CallerRight'
  BY <1>1 DEF CallerRight
<1> QED
  BY <1>1, <1>2, <1>3, <1>5, <1>6 DEF IInv

LEMMA Stutter == ASSUME IInv, UNCHANGED <<job, main, at, state, timer, work, barrier, copy>>
                 PROVE  IInv'
<1>1. Thread' = Thread
  BY DEF Thread
<1>2. TypeOK'
  BY <1>1 DEF IInv, TypeOK
<1>3. \A t \in Thread : ThreadRight(t)'
  BY Untouched DEF IInv
<1>4. Present' = Present /\ Waiters' = Waiters
  BY <1>1 DEF Present, Waiters
<1>5. CountersRight' /\ CallerRight'
  BY <1>1, <1>4 DEF IInv, CountersRight, CallerRight
<1> QED
  BY <1>1, <1>2, <1>3, <1>5 DEF IInv

LEMMA NextInv == IInv /\ [JobNext]_jobVars => IInv'
<1> SUFFICES ASSUME IInv, [JobNext]_jobVars PROVE IInv'
  OBVIOUS
<1>1. CASE Spawn
  BY <1>1, SpawnInv
<1>2. CASE WaitForAllThreads
  BY <1>2, CallerInv DEF WaitForAllThreads
<1>3. CASE Join
  <2>1. \A t \in Thread : at[t] = "done"
    BY <1>3 DEF Join, IInv, CallerRight
  <2> QED
    BY <1>3, <2>1, CallerInv, ThreadsAre DEF Join, IInv
<1>4. CASE CallerWakes
  BY <1>4, CallerInv DEF CallerWakes, IInv, CallerRight
<1>5. ASSUME NEW t \in Thread, ThreadStep(t) PROVE IInv'
  BY <1>5, StartKeepRunningInv, NotifyPhaseInv, KeepsRunningInv, FinishKeepRunningInv,
     IterateInv, IterateSkipsInv, AfterSkipInv, ReturnInv, RemoveThreadInv, CountDownInv,
     NotifyEndInv DEF ThreadStep
<1>6. ASSUME NEW t \in Thread, SkipOutside(t) \/ WakePasses(t) PROVE IInv'
  BY <1>6, SkipOutsideInv, WakePassesInv
<1>7. ASSUME NEW t \in Thread, WakeWaits(t) PROVE IInv'
  BY <1>7, Stutter DEF WakeWaits
<1>8. CASE UNCHANGED jobVars
  BY <1>8, Stutter DEF jobVars
<1> QED
  BY <1>1, <1>2, <1>3, <1>4, <1>5, <1>6, <1>7, <1>8 DEF JobNext, CallerStep, Returned

LEMMA Invariance == JobSpec => []IInv
<1>1. JobInit => IInv
  BY InitInv
<1>2. IInv /\ [JobNext]_jobVars => IInv'
  BY NextInv
<1> QED
  BY <1>1, <1>2, PTL DEF JobSpec

\* Every variable keeps to its type, for any number of threads and iterations.
THEOREM TypeCorrect == JobSpec => []TypeOK
<1>1. IInv => TypeOK
  BY DEF IInv
<1> QED
  BY <1>1, Invariance, PTL

\* Nothing is timed before all threads have started and none leaves the loop's
\* barrier before all have finished, however many there are: a phase of the
\* barrier ends only when the threads that wait for it are all that are left.
THEOREM TimedTogether == JobSpec => []Together
<1>1. IInv => Together
  <2> SUFFICES ASSUME IInv, NEW t \in Thread, NEW u \in Thread
               PROVE  /\ timer[t].running => state[u].started \/ at[u] \in Gone
                      /\ state[t].finished /\ at[t] \in Gone \cup {"after", "recorded"} =>
                           state[u].finished \/ at[u] \in Gone
    BY DEF Together
  <2>1. Right(at[t], state[t], timer[t], work[t], copy[t], barrier.phase)
        /\ Right(at[u], state[u], timer[u], work[u], copy[u], barrier.phase)
        /\ barrier.phase \in Nat
    BY StepFacts
  <2>2. timer[t].running => barrier.phase >= 1
    BY <2>1 DEF Right, Stage, Phase
  <2>3. state[t].finished /\ at[t] \in Gone \cup {"after", "recorded"} => barrier.phase >= 2
    BY <2>1 DEF Right, Phase, Gone
  <2> QED
    BY <2>1, <2>2, <2>3 DEF Right, Phase
<1> QED
  BY <1>1, Invariance, PTL

\* What every thread that has not skipped hands over is what it has done: its
\* State and its timer agree with the iterations it ran, which are those it was
\* asked for, rounded up to whole batches.
THEOREM ThreadCounts == JobSpec => []CountsRight
<1>1. IInv => CountsRight
  <2> SUFFICES ASSUME IInv, NEW t \in Thread, at[t] \in Gone \cup {"recorded"},
                      ~state[t].skipped
               PROVE  /\ work[t].run = Iterations(state[t]) /\ work[t].timed = timer[t].used
                      /\ work[t].run \in job.iters .. job.iters + job.batch - 1
    BY DEF CountsRight
  <2>1. Books(at[t], state[t], timer[t], work[t])
    BY StepFacts DEF Right
  <2>2. /\ work[t].timed = timer[t].used + timer[t].slice /\ timer[t].slice = 0
        /\ state[t].started /\ state[t].total = 0 /\ state[t].leftover < job.batch
        /\ work[t].run = job.iters + state[t].leftover
    BY <2>1 DEF Books, Gone
  <2> QED
    BY <2>2, FieldFacts DEF Iterations
<1> QED
  BY <1>1, Invariance, PTL

\* The caller does not destroy what its threads still use.
THEOREM ManagerOutlives == JobSpec => []Outlives
<1>1. IInv => Outlives
  BY DEF IInv, CallerRight, Outlives
<1> QED
  BY <1>1, Invariance, PTL

-----------------------------------------------------------------------------
(* What the caller reads.                                                  *)

\* What a State is left with: a skip clears it; what the last batch ran beyond
\* the iterations asked for completes it, or nothing is beyond them.
Left(s) ==
  /\ s.skipped => s.total = 0
  /\ ~s.started => s.total = 0 /\ s.leftover = 0
  /\ s.leftover \in {0, Rounded(job.iters, job.batch) - job.iters}
  /\ s.started /\ ~s.skipped =>
       \E k \in Nat : s.total + k * job.batch = job.iters + s.leftover

LeftRight == \A t \in Thread : Left(state[t])

Handed == Gone \cup {"recorded"}

\* The sums are over those that have handed over.
Iterated == [t \in Thread |-> IF at[t] \in Handed THEN Iterations(state[t]) ELSE 0]
Used     == [t \in Thread |-> IF at[t] \in Handed THEN timer[t].used ELSE 0]

SumsRight ==
  /\ manager.iterations = SumFunctionOnSet(Iterated, Thread)
  /\ manager.time = SumFunctionOnSet(Used, Thread)

Managers == [alive : Int, iterations : Int, time : Int, skipped : BOOLEAN, message : SUBSET Int]

SkipsRight ==
  /\ manager \in Managers /\ skips \in Seq(Int)
  /\ manager.skipped <=> skips # <<>>
  /\ manager.skipped => manager.message = {skips[1]}
  /\ \A t \in Thread : state[t].skipped => manager.skipped

ReadInv == IInv /\ LeftRight /\ SumsRight /\ SkipsRight

\* What SkipsRight says of the manager stays, whatever a step adds up.
LEMMA ReadInit == JobInit => LeftRight /\ SumsRight /\ SkipsRight
<1> SUFFICES ASSUME JobInit PROVE LeftRight /\ SumsRight /\ SkipsRight
  OBVIOUS
<1>1. TypeOK
  BY InitInv DEF IInv
<1>2. \A t \in Thread : /\ state[t].total = 0 /\ state[t].leftover = 0 /\ ~state[t].started
                        /\ ~state[t].skipped /\ at[t] = "unborn"
  BY DEF JobInit
<1>3. LeftRight
  BY <1>2 DEF LeftRight, Left
<1>4. manager = [alive |-> job.threads, iterations |-> 0, time |-> 0, skipped |-> FALSE,
                 message |-> {}] /\ skips = <<>>
  BY DEF JobInit
<1>5. SumsRight
  <2>1. IsFiniteSet(Thread) /\ Cardinality(Thread) \in Nat
    BY <1>1, ThreadsAre, FS_CardinalityType
  <2>2. \A t \in Thread : Iterated[t] = 0 /\ Used[t] = 0
    BY <1>2 DEF Iterated, Used, Handed, Gone
  <2>3. /\ SumFunctionOnSet(Iterated, Thread) = Cardinality(Thread) * 0
        /\ SumFunctionOnSet(Used, Thread) = Cardinality(Thread) * 0
    BY <2>1, <2>2, SumConstant
  <2>4. Cardinality(Thread) * 0 = 0
    BY <2>1
  <2> QED
    BY <1>4, <2>3, <2>4 DEF SumsRight
<1>6. SkipsRight
  <2>1. job.threads \in Int
    BY <1>1, ThreadsAre
  <2> QED
    BY <1>2, <1>4, <2>1 DEF SkipsRight, Managers
<1> QED
  BY <1>3, <1>5, <1>6

\* A skip changes a State and a timer, and nothing else of a thread's.
LEMMA SkipChanges ==
  ASSUME IInv, NEW t \in Thread, Skip(t)
  PROVE  /\ state' = [state EXCEPT ![t] = [state[t] EXCEPT !.skipped = TRUE, !.total = 0]]
         /\ \A u \in Thread \ {t} : state'[u] = state[u] /\ timer'[u] = timer[u]
         /\ state'[t].skipped /\ state'[t].total = 0
         /\ state'[t].started = state[t].started /\ state'[t].leftover = state[t].leftover
BY StepFacts DEF Skip, States

\* Left, when nothing has been added or when t alone has changed.
LEMMA LeftKept ==
  ASSUME LeftRight, UNCHANGED job, NEW t \in Thread, Left(state[t])',
         \A u \in Thread \ {t} : state'[u] = state[u]
  PROVE  LeftRight'
<1>1. ASSUME NEW u \in Thread \ {t} PROVE Left(state[u])'
  BY DEF LeftRight, Left
<1> QED
  BY <1>1 DEF LeftRight, Thread

LEMMA LeftSame ==
  ASSUME LeftRight, UNCHANGED job,
         \A u \in Thread : /\ state'[u].skipped = state[u].skipped
                           /\ state'[u].started = state[u].started
                           /\ state'[u].total = state[u].total
                           /\ state'[u].leftover = state[u].leftover
  PROVE  LeftRight'
BY DEF LeftRight, Left, Thread

\* How many whole batches there are: as many as reach the iterations.
LEMMA RoundedIs ==
  ASSUME NEW n \in Nat \ {0}, NEW b \in Nat \ {0}, NEW k \in Nat, NEW l \in Nat,
         l < b, k * b = n + l
  PROVE  Rounded(n, b) = n + l
<1> DEFINE r == (n + b - 1) \div b
<1>1. r \in Nat /\ r * b <= n + b - 1 /\ n + b - 1 < r * b + b
  <2>1. n + b - 1 \in Nat
    OBVIOUS
  <2>2. n + b - 1 = r * b + ((n + b - 1) % b) /\ (n + b - 1) % b \in 0 .. b - 1
    BY <2>1
  <2>3. r \in Nat
    BY <2>1
  <2> HIDE DEF r
  <2>4. r * b \in Nat
    BY <2>3
  <2> QED
    BY <2>2, <2>3, <2>4
<1> HIDE DEF r
<1>2. ~(r < k)
  <2>1. ASSUME r + 1 <= k PROVE FALSE
    <3>1. (k - r - 1) * b >= 0
      BY <1>1, <2>1
    <3>2. (k - r - 1) * b = k * b - r * b - b
      BY <1>1
    <3> QED
      BY <1>1, <3>1, <3>2
  <2> QED
    BY <1>1, <2>1
<1>3. ~(k < r)
  <2>1. ASSUME k + 1 <= r PROVE FALSE
    <3>1. (r - k - 1) * b >= 0
      BY <1>1, <2>1
    <3>2. (r - k - 1) * b = r * b - k * b - b
      BY <1>1
    <3> QED
      BY <1>1, <3>1, <3>2
  <2> QED
    BY <1>1, <2>1
<1>4. r = k
  BY <1>1, <1>2, <1>3
<1> QED
  BY <1>4 DEF r, Rounded

LEMMA LeftNext == ASSUME IInv, LeftRight, [JobNext]_jobVars PROVE LeftRight'
<1>1. ASSUME NEW t \in Thread, Skip(t), UNCHANGED job PROVE LeftRight'
  <2>1. Left(state[t])
    BY DEF LeftRight
  <2>2. Left(state[t])'
    BY <1>1, <2>1, SkipChanges DEF Left
  <2> QED
    BY <1>1, <2>2, SkipChanges, LeftKept
<1>2. ASSUME NEW t \in Thread, StartKeepRunning(t) PROVE LeftRight'
  <2> DEFINE n == IF state[t].skipped THEN 0 ELSE job.iters
  <2>1. /\ ~state[t].started /\ Left(state[t]) /\ job.iters \in Nat /\ job.batch \in Nat
        /\ UNCHANGED job
    BY <1>2, StepFacts DEF StartKeepRunning, Right, Stage, LeftRight
  <2>2. /\ state'[t].total = n /\ state'[t].leftover = state[t].leftover /\ state'[t].started
        /\ state'[t].skipped = state[t].skipped
        /\ \A u \in Thread \ {t} : state'[u] = state[u]
    BY <1>2, StepFacts DEF StartKeepRunning, States
  <2>3. ~state[t].skipped => state'[t].total + 0 * job.batch = job.iters + state'[t].leftover
    BY <2>1, <2>2 DEF Left
  <2>4. Left(state[t])'
    BY <2>1, <2>2, <2>3 DEF Left
  <2> QED
    BY <2>1, <2>2, <2>4, LeftKept
<1>3. ASSUME NEW t \in Thread, KeepsRunning(t) PROVE LeftRight'
  <2>1. /\ Left(state[t]) /\ job.iters \in Nat \ {0} /\ job.batch \in Nat \ {0} /\ UNCHANGED job
        /\ state[t].total \in Nat /\ state[t].leftover \in Nat /\ state[t].started
    BY <1>3, StepFacts, FieldFacts DEF KeepsRunning, Right, Stage, LeftRight
  <2>2. CASE state' = state
    BY <2>1, <2>2, LeftSame
  <2>3. CASE job.loop # "range" /\ state[t].total >= job.batch
    <3>1. /\ state[t].total # 0 /\ state'[t].total = state[t].total - job.batch
          /\ state'[t].leftover = state[t].leftover /\ state'[t].started
          /\ state'[t].skipped = state[t].skipped
          /\ \A u \in Thread \ {t} : state'[u] = state[u]
      BY <1>3, <2>1, <2>3, StepFacts DEF KeepsRunning, States
    <3>2. PICK k \in Nat : state[t].total + k * job.batch = job.iters + state[t].leftover
      BY <2>1, <3>1 DEF Left
    <3>3. state'[t].total + (k + 1) * job.batch = job.iters + state'[t].leftover
      <4>1. (k + 1) * job.batch = k * job.batch + job.batch /\ k * job.batch \in Nat
        BY <2>1
      <4> QED
        BY <2>1, <3>1, <3>2, <4>1
    <3>4. Left(state[t])'
      BY <2>1, <3>1, <3>3 DEF Left
    <3> QED
      BY <2>1, <3>1, <3>4, LeftKept
  <2>4. CASE job.loop # "range" /\ ~(state[t].total >= job.batch)
    <3>1. /\ state[t].total # 0 /\ state'[t].total = 0
          /\ state'[t].leftover = job.batch - state[t].total /\ state'[t].started
          /\ state'[t].skipped = state[t].skipped
          /\ \A u \in Thread \ {t} : state'[u] = state[u]
      BY <1>3, <2>1, <2>4, StepFacts DEF KeepsRunning, States
    <3>2. ~state[t].skipped /\ state[t].leftover = 0
      BY <2>1, <3>1, StepFacts DEF Left, Right, Books
    <3>3. PICK k \in Nat : state[t].total + k * job.batch = job.iters + state[t].leftover
      BY <2>1, <3>2 DEF Left
    <3> DEFINE l == state'[t].leftover
    <3>4. (k + 1) * job.batch = job.iters + l
      <4>1. (k + 1) * job.batch = k * job.batch + job.batch /\ k * job.batch \in Nat
        BY <2>1
      <4> QED
        BY <2>1, <3>1, <3>2, <3>3, <4>1
    <3>5. l \in Nat /\ l < job.batch
      BY <2>1, <2>4, <3>1
    <3>6. Rounded(job.iters, job.batch) = job.iters + l
      <4> HIDE DEF l
      <4> QED
        BY <2>1, <3>4, <3>5, RoundedIs
    <3>7. l = Rounded(job.iters, job.batch) - job.iters
      BY <2>1, <3>5, <3>6
    <3>8. state'[t].total + (k + 1) * job.batch = job.iters + state'[t].leftover
      <4>1. (k + 1) * job.batch \in Nat
        BY <2>1
      <4> QED
        BY <3>1, <3>4, <4>1
    <3>9. Left(state[t])'
      BY <2>1, <3>1, <3>2, <3>7, <3>8 DEF Left
    <3> QED
      BY <2>1, <3>1, <3>9, LeftKept
  <2> QED
    BY <1>3, <2>2, <2>3, <2>4 DEF KeepsRunning
<1>4. ASSUME NEW t \in Thread, FinishKeepRunning(t) PROVE LeftRight'
  <2>1. /\ Left(state[t]) /\ job.iters \in Nat \ {0} /\ job.batch \in Nat \ {0} /\ UNCHANGED job
        /\ state[t].total \in Nat /\ state[t].leftover \in Nat /\ state[t].started
    BY <1>4, StepFacts, FieldFacts DEF FinishKeepRunning, Right, Stage, LeftRight
  <2>2. /\ state'[t].total = 0
        /\ state'[t].leftover = state[t].leftover /\ state'[t].started
        /\ state'[t].skipped = state[t].skipped
        /\ \A u \in Thread \ {t} : state'[u] = state[u]
    BY <1>4, <2>1, StepFacts DEF FinishKeepRunning, States
  <2>3. ASSUME ~state[t].skipped
        PROVE  \E k \in Nat : 0 + k * job.batch = job.iters + state[t].leftover
    <3>1. CASE job.loop = "range"
      <4>1. job.batch = 1 /\ job.iters + state[t].leftover \in Nat
        BY <2>1, <3>1, StepFacts
      <4>2. 0 + (job.iters + state[t].leftover) * job.batch = job.iters + state[t].leftover
        BY <4>1
      <4> QED
        BY <4>1, <4>2
    <3>2. CASE job.loop # "range"
      <4>1. state[t].total = 0
        BY <1>4, <3>2 DEF FinishKeepRunning
      <4> QED
        BY <2>1, <2>3, <4>1 DEF Left
    <3> QED
      BY <3>1, <3>2
  <2>4. Left(state[t])'
    BY <2>1, <2>2, <2>3 DEF Left
  <2> QED
    BY <2>1, <2>2, <2>4, LeftKept
<1>5. ASSUME NEW t \in Thread, Iterate(t) \/ AfterSkip(t) PROVE LeftRight'
  <2>1. UNCHANGED job /\ (state' = state \/ \E c : state' = [state EXCEPT ![t].cached = c])
    BY <1>5 DEF Iterate, AfterSkip
  <2>2. \A u \in Thread : /\ state'[u].skipped = state[u].skipped
                          /\ state'[u].started = state[u].started
                          /\ state'[u].total = state[u].total
                          /\ state'[u].leftover = state[u].leftover
    BY <2>1, StepFacts DEF States
  <2> QED
    BY <2>1, <2>2, LeftSame
<1>6. CASE UNCHANGED <<job, state>>
  BY <1>6, LeftSame
<1>7. CASE UNCHANGED jobVars
  BY <1>6, <1>7 DEF jobVars
<1>8. ASSUME NEW t \in Thread, ThreadStep(t) PROVE LeftRight'
  BY <1>1, <1>2, <1>3, <1>4, <1>5, <1>6, <1>8
     DEF ThreadStep, IterateSkips, NotifyPhase, Return, RemoveThread, CountDown, NotifyEnd
<1>9. ASSUME NEW t \in Thread, SkipOutside(t) \/ WakePasses(t) \/ WakeWaits(t) PROVE LeftRight'
  BY <1>1, <1>6, <1>9 DEF SkipOutside, WakePasses, WakeWaits
<1>10. CASE CallerStep \/ CallerWakes
  BY <1>6, <1>10 DEF CallerStep, Spawn, WaitForAllThreads, Join, CallerWakes
<1> QED
  BY <1>7, <1>8, <1>9, <1>10 DEF JobNext, Returned

\* A step on which no thread hands over.
LEMMA SumsKept ==
  ASSUME SumsRight, UNCHANGED job,
         manager'.iterations = manager.iterations, manager'.time = manager.time,
         \A u \in Thread : at'[u] \in Handed <=> at[u] \in Handed,
         \A u \in Thread : at[u] \in Handed =>
           Iterations(state'[u]) = Iterations(state[u]) /\ timer'[u].used = timer[u].used
  PROVE  SumsRight'
<1>1. Thread' = Thread
  BY DEF Thread
<1>2. Iterated' = Iterated /\ Used' = Used
  BY <1>1 DEF Iterated, Used, Iterations, Handed, Gone
<1> QED
  BY <1>1, <1>2 DEF SumsRight

LEMMA IterationsType ==
  ASSUME IInv, NEW t \in Thread
  PROVE  Iterations(state[t]) \in Int /\ timer[t].used \in Int
         /\ Iterated[t] \in Int /\ Used[t] \in Int
BY FieldFacts, StepFacts DEF Iterations, States, Iterated, Used

\* The thread that hands over is added to both sums.
LEMMA SumsReturn == ASSUME IInv, SumsRight, SkipsRight, NEW t \in Thread, Return(t) PROVE SumsRight'
<1>1. /\ Thread' = Thread /\ UNCHANGED <<job, state, timer>> /\ at[t] \notin Handed
      /\ at'[t] \in Handed /\ \A u \in Thread \ {t} : at'[u] = at[u]
  BY StepFacts DEF Return, Go, Thread, Handed, Gone
<1>2. /\ manager'.iterations = manager.iterations + Iterations(state[t])
      /\ manager'.time = manager.time + timer[t].used
  BY DEF Return, SkipsRight, Managers
<1>3. IsFiniteSet(Thread)
  BY ThreadsAre DEF IInv
<1>4. /\ Iterated[t] = 0 /\ Used[t] = 0
      /\ Iterated'[t] = Iterations(state[t]) /\ Used'[t] = timer[t].used
      /\ \A u \in Thread \ {t} : Iterated'[u] = Iterated[u] /\ Used'[u] = Used[u]
  BY <1>1 DEF Iterated, Used, Handed, Gone, Iterations
<1>5. \A u \in Thread : /\ Iterated[u] \in Int /\ Used[u] \in Int
                        /\ Iterated'[u] \in Int /\ Used'[u] \in Int
  BY <1>4, IterationsType
<1>6. ASSUME NEW f, NEW g, \A u \in Thread : f[u] \in Int /\ g[u] \in Int,
             \A u \in Thread \ {t} : g[u] = f[u]
      PROVE  SumFunctionOnSet(g, Thread) = SumFunctionOnSet(f, Thread) + (g[t] - f[t])
  BY <1>3, <1>6, SumChange
<1>7. /\ SumFunctionOnSet(Iterated', Thread)
           = SumFunctionOnSet(Iterated, Thread) + (Iterated'[t] - Iterated[t])
      /\ SumFunctionOnSet(Used', Thread) = SumFunctionOnSet(Used, Thread) + (Used'[t] - Used[t])
  BY <1>4, <1>5, <1>6
<1>8. Iterations(state[t]) \in Int /\ timer[t].used \in Int
  BY IterationsType
<1> QED
  BY <1>1, <1>2, <1>4, <1>7, <1>8 DEF SumsRight

LEMMA SumsNext == ASSUME IInv, SumsRight, SkipsRight, [JobNext]_jobVars PROVE SumsRight'
<1>1. ASSUME NEW t \in Thread, Skip(t), at[t] \in {"body", "after", "iterate"}, UNCHANGED job,
             at' = at \/ at' = [at EXCEPT ![t] = "skipped"]
      PROVE  SumsRight'
  <2>1. manager'.iterations = manager.iterations /\ manager'.time = manager.time
    BY <1>1 DEF Skip, SkipsRight, Managers
  <2>2. at[t] \notin Handed /\ at'[t] \notin Handed /\ \A u \in Thread \ {t} : at'[u] = at[u]
    BY <1>1, StepFacts DEF Handed, Gone
  <2>3. \A u \in Thread \ {t} : state'[u] = state[u] /\ timer'[u] = timer[u]
    BY <1>1, SkipChanges
  <2> QED
    BY <1>1, <2>1, <2>2, <2>3, SumsKept
<1>2. ASSUME NEW t \in Thread, UNCHANGED <<job, manager>>, at[t] \notin Handed,
             at'[t] \notin Handed, \A u \in Thread \ {t} : at'[u] = at[u],
             \A u \in Thread \ {t} : state'[u] = state[u] /\ timer'[u] = timer[u]
      PROVE  SumsRight'
  BY <1>2, SumsKept
<1>3. ASSUME NEW t \in Thread, StartKeepRunning(t) PROVE SumsRight'
  BY <1>2, <1>3, StepFacts DEF StartKeepRunning, EnterBarrier, Go, Handed, Gone
<1>4. ASSUME NEW t \in Thread, FinishKeepRunning(t) PROVE SumsRight'
  BY <1>2, <1>4, StepFacts DEF FinishKeepRunning, EnterBarrier, Go, Handed, Gone
<1>5. ASSUME NEW t \in Thread, KeepsRunning(t) \/ AfterSkip(t) PROVE SumsRight'
  BY <1>2, <1>5, StepFacts DEF KeepsRunning, AfterSkip, Go, Handed, Gone
<1>6. ASSUME NEW t \in Thread, Iterate(t) PROVE SumsRight'
  BY <1>2, <1>6, StepFacts DEF Iterate, Go, Handed, Gone
<1>7. ASSUME NEW t \in Thread, NotifyPhase(t) PROVE SumsRight'
  BY <1>2, <1>7, StepFacts DEF NotifyPhase, Pass, Go, Handed, Gone
<1>8. ASSUME NEW t \in Thread, WakePasses(t) PROVE SumsRight'
  BY <1>2, <1>8, StepFacts DEF WakePasses, Pass, Go, Handed, Gone, Waiting
<1>9. ASSUME UNCHANGED <<job, state, timer>>,
             manager'.iterations = manager.iterations, manager'.time = manager.time,
             \A u \in Thread : at'[u] \in Handed <=> at[u] \in Handed
      PROVE  SumsRight'
  BY <1>9, SumsKept
<1>10. ASSUME NEW t \in Thread, RemoveThread(t) \/ CountDown(t) \/ NotifyEnd(t) PROVE SumsRight'
  <2>1. manager'.iterations = manager.iterations /\ manager'.time = manager.time
    BY <1>10 DEF RemoveThread, CountDown, NotifyEnd, SkipsRight, Managers
  <2> QED
    BY <1>9, <1>10, <2>1, StepFacts DEF RemoveThread, CountDown, NotifyEnd, Go, Handed, Gone
<1>11. ASSUME NEW t \in Thread, ThreadStep(t) PROVE SumsRight'
  <2>1. CASE IterateSkips(t)
    BY <1>1, <2>1 DEF IterateSkips, Go
  <2> QED
    BY <1>3, <1>4, <1>5, <1>6, <1>7, <1>10, <1>11, <2>1, SumsReturn DEF ThreadStep
<1>12. ASSUME NEW t \in Thread, SkipOutside(t) PROVE SumsRight'
  BY <1>1, <1>12 DEF SkipOutside
<1>13. CASE UNCHANGED <<job, state, timer, manager, at>>
  BY <1>9, <1>13
<1>14. CASE Spawn
  <2>1. /\ UNCHANGED <<job, state, timer, manager>>
        /\ \E u : at' = [at EXCEPT ![u] = "body"] /\ (u \in Thread => at[u] = "unborn")
    <3> DEFINE born == {t \in Thread : at[t] # "unborn"}
    <3>1. PICK k \in 0 .. job.threads - 1 : \A t \in Thread : at[t] = "unborn" <=> t = 0 \/ t > k
      BY <1>14 DEF IInv, CallerRight, Spawn
    <3>2. job.threads \in Nat \ {0} /\ 0 \in Thread
      BY ThreadsAre DEF IInv
    <3>3. Cardinality(born) = k
      <4>1. born = 1 .. k
        BY <3>1, <3>2 DEF Thread
      <4>2. Cardinality(1 .. k) = IF 1 > k THEN 0 ELSE k - 1 + 1
        BY <3>1, <3>2, FS_Interval
      <4>3. Cardinality(1 .. k) = k
        BY <3>1, <3>2, <4>2
      <4> QED
        BY <4>1, <4>3
    <3> DEFINE u == IF Cardinality(born) = job.threads - 1 THEN 0 ELSE Cardinality(born) + 1
    <3>4. at' = [at EXCEPT ![u] = "body"]
      BY <1>14 DEF Spawn, Go
    <3>5. u = 0 \/ u > k
      BY <3>1, <3>2, <3>3
    <3>6. UNCHANGED <<job, state, timer, manager>>
      BY <1>14 DEF Spawn
    <3> HIDE DEF u
    <3> QED
      BY <3>1, <3>4, <3>5, <3>6
  <2>2. \A u \in Thread : at'[u] \in Handed <=> at[u] \in Handed
    BY <2>1, StepFacts DEF Handed, Gone
  <2> QED
    BY <1>9, <2>1, <2>2
<1>15. CASE CallerStep \/ CallerWakes \/ UNCHANGED jobVars
  BY <1>13, <1>14, <1>15 DEF CallerStep, WaitForAllThreads, Join, CallerWakes, jobVars
<1>16. ASSUME NEW t \in Thread, WakeWaits(t) PROVE SumsRight'
  BY <1>13, <1>16 DEF WakeWaits
<1> QED
  BY <1>8, <1>11, <1>12, <1>15, <1>16 DEF JobNext, Returned

LEMMA SkipsNext == ASSUME IInv, SkipsRight, [JobNext]_jobVars PROVE SkipsRight'
<1>1. ASSUME NEW t \in Thread, Skip(t), UNCHANGED job PROVE SkipsRight'
  <2>1. /\ skips' = Append(skips, t) /\ t \in Int /\ skips \in Seq(Int) /\ manager \in Managers
        /\ manager' = IF manager.skipped THEN manager
                      ELSE [manager EXCEPT !.skipped = TRUE, !.message = {t}]
    BY <1>1, ThreadsAre DEF Skip, SkipsRight, Thread, IInv
  <2>2. skips' \in Seq(Int) /\ skips' # <<>> /\ skips'[1] = IF skips = <<>> THEN t ELSE skips[1]
    BY <2>1
  <2>3. /\ manager' \in Managers /\ manager'.skipped
        /\ manager'.message = IF manager.skipped THEN manager.message ELSE {t}
    BY <2>1 DEF Managers
  <2> QED
    BY <2>2, <2>3 DEF SkipsRight
<1>2. ASSUME NEW t \in Thread, Return(t) PROVE SkipsRight'
  <2>1. /\ UNCHANGED <<job, skips, state>>
        /\ manager' = [manager EXCEPT !.iterations = @ + Iterations(state[t]),
                                      !.time = @ + timer[t].used]
    BY <1>2 DEF Return
  <2> DEFINE i == Iterations(state[t])
             u == timer[t].used
  <2>2. i \in Int /\ u \in Int
    BY IterationsType
  <2> HIDE DEF i, u
  <2>3. manager' = [manager EXCEPT !.iterations = @ + i, !.time = @ + u] /\ manager \in Managers
    BY <2>1 DEF i, u, SkipsRight
  <2>4. /\ manager' \in Managers /\ manager'.skipped = manager.skipped
        /\ manager'.message = manager.message
    <3>1. PICK m : m = [manager EXCEPT !.iterations = @ + i]
      OBVIOUS
    <3>2. m \in Managers /\ m.skipped = manager.skipped /\ m.message = manager.message
      BY <2>2, <2>3, <3>1 DEF Managers
    <3>3. manager' = [m EXCEPT !.time = @ + u]
      BY <2>3, <3>1 DEF Managers
    <3> QED
      BY <2>2, <3>2, <3>3 DEF Managers
  <2> QED
    BY <2>1, <2>4 DEF SkipsRight, Thread
<1>3. ASSUME NEW t \in Thread, CountDown(t) PROVE SkipsRight'
  <2>1. UNCHANGED <<job, skips, state>> /\ manager' = [manager EXCEPT !.alive = @ - 1]
    BY <1>3 DEF CountDown
  <2>2. /\ manager' \in Managers /\ manager'.skipped = manager.skipped
        /\ manager'.message = manager.message
    BY <2>1 DEF SkipsRight, Managers
  <2> QED
    BY <2>1, <2>2 DEF SkipsRight, Thread
<1>4. ASSUME UNCHANGED <<job, skips, manager>>,
             \A u \in Thread : state'[u].skipped = state[u].skipped
      PROVE  SkipsRight'
  BY <1>4 DEF SkipsRight, Thread
<1>5. ASSUME NEW t \in Thread,
             \/ StartKeepRunning(t) \/ KeepsRunning(t) \/ FinishKeepRunning(t)
             \/ Iterate(t) \/ AfterSkip(t)
      PROVE  SkipsRight'
  <2>1. UNCHANGED <<job, skips, manager>>
    BY <1>5 DEF StartKeepRunning, KeepsRunning, FinishKeepRunning, Iterate, AfterSkip
  <2>2. \A u \in Thread : state'[u].skipped = state[u].skipped
    BY <1>5, StepFacts
       DEF StartKeepRunning, KeepsRunning, FinishKeepRunning, Iterate, AfterSkip, States
  <2> QED
    BY <1>4, <2>1, <2>2
<1>6. CASE UNCHANGED <<job, skips, manager, state>>
  BY <1>4, <1>6
<1>7. ASSUME NEW t \in Thread, ThreadStep(t) PROVE SkipsRight'
  BY <1>1, <1>2, <1>3, <1>5, <1>6, <1>7
     DEF ThreadStep, IterateSkips, NotifyPhase, RemoveThread, NotifyEnd
<1>8. ASSUME NEW t \in Thread, SkipOutside(t) \/ WakePasses(t) \/ WakeWaits(t) PROVE SkipsRight'
  BY <1>1, <1>6, <1>8 DEF SkipOutside, WakePasses, WakeWaits
<1>9. CASE CallerStep \/ CallerWakes \/ UNCHANGED jobVars
  BY <1>6, <1>9 DEF CallerStep, Spawn, WaitForAllThreads, Join, CallerWakes, jobVars
<1> QED
  BY <1>7, <1>8, <1>9 DEF JobNext, Returned

\* What a thread that is done has counted, whether it has skipped or not.
LEMMA DoneCounts ==
  ASSUME IInv, LeftRight, NEW t \in Thread, at[t] = "done"
  PROVE  /\ Iterations(state[t]) \in SkippedCounts(job.iters, job.batch)
         /\ ~state[t].skipped => /\ Iterations(state[t]) = Rounded(job.iters, job.batch)
                                 /\ Iterations(state[t]) = work[t].run
                                 /\ timer[t].used = work[t].timed
<1>1. /\ job.iters \in Nat \ {0} /\ job.batch \in Nat \ {0}
      /\ state[t].total \in Nat /\ state[t].leftover \in Nat
      /\ timer[t].used \in Nat /\ timer[t].slice \in Nat /\ work[t].timed \in Nat
      /\ Left(state[t]) /\ Right("done", state[t], timer[t], work[t], copy[t], barrier.phase)
  BY StepFacts, FieldFacts DEF LeftRight
<1>2. CASE ~state[t].skipped
  <2>1. /\ state[t].started /\ state[t].total = 0 /\ timer[t].slice = 0
        /\ work[t].run = job.iters + state[t].leftover
        /\ work[t].timed = timer[t].used + timer[t].slice /\ state[t].leftover < job.batch
    BY <1>1, <1>2 DEF Right, Books
  <2>2. PICK k \in Nat : state[t].total + k * job.batch = job.iters + state[t].leftover
    BY <1>1, <1>2, <2>1 DEF Left
  <2>3. k * job.batch = job.iters + state[t].leftover
    BY <1>1, <2>1, <2>2
  <2>4. Rounded(job.iters, job.batch) = job.iters + state[t].leftover
    BY <1>1, <2>1, <2>3, RoundedIs
  <2>5. Iterations(state[t]) = job.iters + state[t].leftover
    BY <1>1, <2>1 DEF Iterations
  <2> QED
    BY <1>1, <2>1, <2>4, <2>5 DEF SkippedCounts
<1>3. CASE state[t].skipped
  <2>1. state[t].total = 0
    BY <1>1, <1>3 DEF Left
  <2>2. state[t].leftover = 0 \/ state[t].leftover = Rounded(job.iters, job.batch) - job.iters
    BY <1>1 DEF Left
  <2>3. Rounded(job.iters, job.batch) \in Int
    <3>1. (job.iters + job.batch - 1) \div job.batch \in Int
      BY <1>1
    <3> QED
      BY <1>1, <3>1 DEF Rounded
  <2> HIDE DEF Rounded
  <2> QED
    BY <1>1, <1>3, <2>1, <2>2, <2>3 DEF Iterations, SkippedCounts
<1> QED
  BY <1>2, <1>3

\* What the caller reads, once the threads are done, is the work of all of them,
\* or the reason of the first to skip and a count the runner reckons with, for
\* any number of threads and however they are scheduled (benchmark.cc:303-324,
\* benchmark_runner.cc:124-219).
THEOREM CallerReads == JobSpec => []ResultRight
<1>1. ReadInv => ResultRight
  <2> SUFFICES ASSUME IInv, LeftRight, SumsRight, SkipsRight, main = "done"
               PROVE  /\ [skipped |-> manager.skipped, iterations |-> manager.iterations]
                           \in Outcomes(job.iters, job.threads, job.batch)
                      /\ IF manager.skipped
                           THEN manager.message = {skips[1]}
                           ELSE /\ skips = <<>>
                                /\ manager.iterations = SumFunction([t \in Thread |-> work[t].run])
                                /\ manager.time = SumFunction([t \in Thread |-> work[t].timed])
    BY DEF ResultRight, ReadInv
  <2>1. /\ \A t \in Thread : at[t] = "done"
        /\ IsFiniteSet(Thread) /\ Cardinality(Thread) = job.threads /\ job.threads \in Nat \ {0}
    BY ThreadsAre DEF IInv, CallerRight
  <2>2. \A t \in Thread : /\ Iterated[t] = Iterations(state[t]) /\ Used[t] = timer[t].used
                          /\ Iterated[t] \in Int /\ Used[t] \in Int
    BY <2>1, IterationsType DEF Iterated, Used, Handed, Gone
  <2>3. CASE manager.skipped
    <3> DEFINE f == [i \in 1 .. job.threads |-> Iterations(state[i - 1])]
    <3>1. f \in [1 .. job.threads -> SkippedCounts(job.iters, job.batch)]
      <4>1. \A i \in 1 .. job.threads : i - 1 \in Thread
        BY <2>1 DEF Thread
      <4> QED
        BY <2>1, <4>1, DoneCounts
    <3>2. SumFunctionOnSet(f, 1 .. job.threads) = SumFunctionOnSet(Iterated, 0 .. job.threads - 1)
      <4>1. \A i \in 0 .. job.threads - 1 : Iterated[i] \in Int /\ f[i + 1] = Iterated[i]
        <5>1. \A i \in 0 .. job.threads - 1 : i + 1 \in 1 .. job.threads /\ (i + 1) - 1 = i
          BY <2>1
        <5> QED
          BY <2>2, <5>1 DEF Thread
      <4> HIDE DEF f
      <4> QED
        BY <2>1, <4>1, SumShift
    <3>3. manager.iterations = SumFunction(f)
      BY <3>2 DEF SumsRight, SumFunction, Thread
    <3> HIDE DEF f
    <3> QED
      BY <2>3, <3>1, <3>3 DEF SkipsRight, Outcomes
  <2>4. CASE ~manager.skipped
    <3> DEFINE run == [t \in Thread |-> work[t].run]
               timed == [t \in Thread |-> work[t].timed]
    <3>1. \A t \in Thread : ~state[t].skipped
      BY <2>4 DEF SkipsRight
    <3>2. \A t \in Thread : /\ Iterated[t] = Rounded(job.iters, job.batch)
                            /\ Iterated[t] = run[t] /\ Used[t] = timed[t]
      BY <2>1, <2>2, <3>1, DoneCounts
    <3>3. skips = <<>>
      BY <2>4 DEF SkipsRight
    <3> HIDE DEF run, timed
    <3>4. SumFunctionOnSet(run, Thread) = SumFunctionOnSet(Iterated, Thread)
      BY <2>1, <2>2, <3>2, SumEqual
    <3>5. SumFunctionOnSet(timed, Thread) = SumFunctionOnSet(Used, Thread)
      BY <2>1, <2>2, <3>2, SumEqual
    <3>6. SumFunctionOnSet(Iterated, Thread) = job.threads * Rounded(job.iters, job.batch)
      <4>1. Rounded(job.iters, job.batch) \in Int
        <5>1. 0 \in Thread
          BY ThreadsAre DEF IInv
        <5> QED
          BY <2>2, <3>2, <5>1
      <4> QED
        BY <2>1, <3>2, <4>1, SumConstant
    <3>7. manager.iterations = SumFunction(run) /\ manager.time = SumFunction(timed)
      BY <3>4, <3>5 DEF SumsRight, SumFunction, run, timed
    <3>8. manager.skipped = FALSE
      BY <2>4 DEF SkipsRight, Managers
    <3>9. manager.iterations = job.threads * Rounded(job.iters, job.batch)
      BY <3>6 DEF SumsRight
    <3>10. [skipped |-> manager.skipped, iterations |-> manager.iterations]
             \in Outcomes(job.iters, job.threads, job.batch)
      BY <3>8, <3>9 DEF Outcomes
    <3> QED
      BY <2>4, <3>3, <3>7, <3>10 DEF run, timed
  <2> QED
    BY <2>3, <2>4
<1>2. JobInit => ReadInv
  BY InitInv, ReadInit DEF ReadInv
<1>3. ReadInv /\ [JobNext]_jobVars => ReadInv'
  BY NextInv, LeftNext, SumsNext, SkipsNext DEF ReadInv
<1> QED
  BY <1>1, <1>2, <1>3, PTL DEF JobSpec

-----------------------------------------------------------------------------
(* The runner.  What each BenchmarkRunner was constructed with stays, and  *)
(* until its warm-up is over nothing has been added to it.                 *)

HIDE JobsAssumption

Runner(r, plan) ==
  /\ r = [i |-> r.i, warm |-> r.warm, repeats |-> r.repeats, iters |-> r.iters,
          runs |-> r.runs]
  /\ r.repeats = plan.repeats
  /\ r.warm \in BOOLEAN
  /\ ~r.warm => r.runs = <<>>

RunnersRight ==
  /\ pc \in {"register", "find"} => runners = <<>>
  /\ \A k \in DOMAIN runners : Runner(runners[k], NewRunner(runners[k].i))
  /\ pc \in {"measure", "record", "report"} /\ current \in DOMAIN runners =>
       runners[current].warm
  /\ pc = "warm" /\ current \in DOMAIN runners => ~runners[current].warm

\* How a step may change the current runner: it ends the warm-up as if nothing
\* had happened before, or does not end it.
Turned(old, new) ==
  /\ new.i = old.i
  /\ Runner(new, NewRunner(new.i))
  /\ new.warm # old.warm => new = [NewRunner(new.i) EXCEPT !.warm = TRUE]

\* The runners stay, and none but the current one changes.
Turn ==
  /\ DOMAIN runners' = DOMAIN runners
  /\ \A k \in DOMAIN runners :
       IF k # current THEN runners'[k] = runners[k]
       ELSE /\ Turned(runners[k], runners'[k])
            /\ pc' \in {"measure", "record", "report"} => runners'[k].warm
            /\ pc' = "warm" => ~runners'[k].warm

LEMMA RunnersInit == Init => RunnersRight
  BY DEF Init, RunnersRight

\* A plan depends on nothing but the session.
LEMMA SamePlan ==
  ASSUME UNCHANGED session, NEW i
  PROVE  NewRunner(i)' = NewRunner(i)
  BY DEF NewRunner, Options, MinWarmUpTime

\* Only Find creates runners, from the plans.
LEMMA FindInv == ASSUME RunnersRight, Find PROVE RunnersRight'
<1>1. UNCHANGED session /\ pc' \in {"done", "create"}
  BY DEF Find
<1>2. PICK found : runners' = [k \in DOMAIN found |-> NewRunner(found[k])]
  BY DEF Find
<1>3. ASSUME NEW k \in DOMAIN runners'
      PROVE  Runner(runners'[k], NewRunner(runners'[k].i))
  BY <1>2, <1>3 DEF NewRunner, Runner
<1> QED
  BY <1>1, <1>3, SamePlan DEF RunnersRight

LEMMA TurnInv ==
  ASSUME RunnersRight, UNCHANGED <<session, current>>, Turn,
         pc' \notin {"register", "find"}
  PROVE  RunnersRight'
<1>1. ASSUME NEW k \in DOMAIN runners
      PROVE  Runner(runners'[k], NewRunner(runners'[k].i))
  BY DEF RunnersRight, Turn, Turned
<1>2. pc' \in {"measure", "record", "report"} /\ current \in DOMAIN runners =>
        runners'[current].warm
  BY DEF Turn
<1>3. pc' = "warm" /\ current \in DOMAIN runners => ~runners'[current].warm
  BY DEF Turn
<1> QED
  BY <1>1, <1>2, <1>3, SamePlan DEF RunnersRight, Turn

\* A turn of the warm-up,
LEMMA WarmTurn == ASSUME RunnersRight, Warm PROVE Turn
<1> DEFINE old == runners[current]
           done == FinishWarmUp(old, NewRunner(old.i).iters)
<1>1. PICK x \in IterationResults(old) :
        LET next == PredictNumItersNeeded(x.iters, x.seconds, MinWarmUpTime(old.i))
        IN  IF ShouldReportIterationResults(old.i, x, MinWarmUpTime(old.i))
              THEN runners' = [runners EXCEPT ![current] = done] /\ pc' = "measure"
              ELSE /\ runners' = [runners EXCEPT ![current].iters = next]
                   /\ pc' \in {pc, "aborted"}
  BY DEF Warm, Checked
<1>2. /\ DOMAIN runners' = DOMAIN runners
      /\ \A k \in DOMAIN runners \ {current} : runners'[k] = runners[k]
  BY <1>1
<1>3. ASSUME current \in DOMAIN runners
      PROVE  /\ Turned(old, runners'[current])
             /\ pc' \in {"measure", "record", "report"} => runners'[current].warm
             /\ pc' = "warm" => ~runners'[current].warm
  <2>1. PICK i, n, t : old = [i |-> i, warm |-> FALSE, repeats |-> n, iters |-> t, runs |-> <<>>]
    BY <1>3 DEF RunnersRight, Runner, Warm
  <2>2. pc = "warm" /\ n = NewRunner(i).repeats /\ old.i = i
    BY <1>3, <2>1 DEF RunnersRight, Runner, Warm
  <2>3. CASE runners' = [runners EXCEPT ![current] = done] /\ pc' = "measure"
    <3>1. done = [i |-> i, warm |-> TRUE, repeats |-> NewRunner(i).repeats,
                  iters |-> NewRunner(i).iters, runs |-> <<>>]
      <4>1. done = [old EXCEPT !.warm = TRUE, !.iters = NewRunner(old.i).iters]
        BY DEF FinishWarmUp
      <4> HIDE DEF done, old
      <4> QED
        BY <2>1, <2>2, <4>1
    <3>2. done = [NewRunner(i) EXCEPT !.warm = TRUE]
      <4> DEFINE plan == NewRunner(i)
      <4>1. PICK w, m, c :
              plan = [i |-> i, warm |-> w, repeats |-> m, iters |-> c, runs |-> <<>>]
        BY DEF NewRunner
      <4>2. done = [i |-> i, warm |-> TRUE, repeats |-> plan.repeats,
                    iters |-> plan.iters, runs |-> <<>>]
        BY <3>1
      <4> HIDE DEF done, old, plan
      <4>3. plan.repeats = m /\ plan.iters = c
        BY <4>1
      <4>4. done = [i |-> i, warm |-> TRUE, repeats |-> m, iters |-> c, runs |-> <<>>]
        BY <4>2, <4>3
      <4>5. PICK ended : ended = [plan EXCEPT !.warm = TRUE]
        OBVIOUS
      <4>6. ended = [i |-> i, warm |-> TRUE, repeats |-> m, iters |-> c, runs |-> <<>>]
        BY <4>1, <4>5
      <4> QED
        BY <4>4, <4>5, <4>6 DEF plan
    <3> HIDE DEF done, old
    <3>3. Turned(old, done) /\ done.warm = TRUE
      <4> DEFINE m == NewRunner(i).repeats
                 c == NewRunner(i).iters
      <4>1. done = [i |-> i, warm |-> TRUE, repeats |-> m, iters |-> c, runs |-> <<>>]
        BY <3>1
      <4>2. done.i = i /\ done.warm = TRUE /\ done.repeats = m
        BY <4>1
      <4>3. Runner(done, NewRunner(i))
        BY <4>1, <4>2 DEF Runner
      <4> QED
        BY <2>2, <3>2, <4>2, <4>3 DEF Turned
    <3>4. runners'[current] = done
      BY <1>3, <2>3
    <3> QED
      BY <2>3, <3>3, <3>4
  <2>4. ASSUME NEW next, runners' = [runners EXCEPT ![current].iters = next],
               pc' \in {pc, "aborted"}
        PROVE  Turned(old, runners'[current]) /\ ~runners'[current].warm
    <3>1. runners'[current] = [i |-> i, warm |-> FALSE, repeats |-> n, iters |-> next, runs |-> <<>>]
      <4>1. runners'[current] = [old EXCEPT !.iters = next]
        BY <1>3, <2>4
      <4> DEFINE new == runners'[current]
      <4> HIDE DEF old, new
      <4> QED
        BY <2>1, <4>1 DEF new
    <3> QED
      BY <2>1, <2>2, <3>1 DEF Turned, Runner
  <2> QED
    BY <1>1, <2>2, <2>3, <2>4
<1> QED
  BY <1>2, <1>3 DEF Turn

\* of the measurement, and its end.
LEMMA MeasureTurn == ASSUME RunnersRight, Measure \/ Record PROVE Turn
<1> DEFINE old == runners[current]
<1>1. /\ pc \in {"measure", "record"} /\ pc' # "warm"
      /\ \/ runners' = runners
         \/ \E next : runners' = [runners EXCEPT ![current].iters = next]
         \/ \E run : runners' = [runners EXCEPT ![current].runs = Append(@, run)]
  BY DEF Measure, Record, Checked
<1>2. /\ DOMAIN runners' = DOMAIN runners
      /\ \A k \in DOMAIN runners \ {current} : runners'[k] = runners[k]
  BY <1>1
<1>3. ASSUME current \in DOMAIN runners
      PROVE  Turned(old, runners'[current]) /\ runners'[current].warm
  <2>1. PICK i, n, t, s :
          old = [i |-> i, warm |-> TRUE, repeats |-> n, iters |-> t, runs |-> s]
    BY <1>1, <1>3 DEF RunnersRight, Runner
  <2>2. n = NewRunner(i).repeats
    BY <1>3, <2>1 DEF RunnersRight, Runner
  <2>3. PICK new, more : runners'[current] =
          [i |-> i, warm |-> TRUE, repeats |-> n, iters |-> new, runs |-> more]
    <3>1. CASE runners' = runners
      BY <2>1, <3>1
    <3>2. ASSUME NEW next, runners' = [runners EXCEPT ![current].iters = next]
          PROVE  runners'[current] =
                   [i |-> i, warm |-> TRUE, repeats |-> n, iters |-> next, runs |-> s]
      <4>1. runners'[current] = [old EXCEPT !.iters = next]
        BY <1>3, <3>2
      <4> DEFINE new == runners'[current]
      <4> HIDE DEF old, new
      <4> QED
        BY <2>1, <4>1 DEF new
    <3>3. ASSUME NEW run, runners' = [runners EXCEPT ![current].runs = Append(@, run)]
          PROVE  runners'[current] =
                   [i |-> i, warm |-> TRUE, repeats |-> n, iters |-> t, runs |-> Append(s, run)]
      <4>1. runners'[current] = [old EXCEPT !.runs = Append(@, run)]
        BY <1>3, <3>3
      <4> DEFINE new == runners'[current]
      <4> HIDE DEF old, new
      <4> QED
        BY <2>1, <4>1 DEF new
    <3> QED
      BY <1>1, <3>1, <3>2, <3>3
  <2> QED
    BY <2>1, <2>2, <2>3 DEF Turned, Runner
<1> QED
  BY <1>1, <1>2, <1>3 DEF Turn

LEMMA RunnersNext ==
  ASSUME RunnersRight, [Next]_vars
  PROVE  RunnersRight'
<1>1. CASE Find
  BY <1>1, FindInv
<1>2. CASE Warm \/ Measure \/ Record
  <2>1. UNCHANGED <<session, current>> /\ pc' \notin {"register", "find"}
    BY <1>2 DEF Warm, Measure, Record, Checked
  <2> QED
    BY <1>2, <2>1, WarmTurn, MeasureTurn, TurnInv
<1>3. CASE Register
  BY <1>3 DEF Register, RunnersRight
<1>4. CASE Create
  BY <1>4, SamePlan DEF Create, RunnersRight
<1>5. CASE Begin
  BY <1>5, SamePlan DEF Begin, RunnersRight, Runner
<1>6. CASE Finish
  BY <1>6, SamePlan DEF Finish, RunnersRight, StatsEnd, BigOEnd, Checked
<1>7. CASE End
  BY <1>7, SamePlan DEF End, RunnersRight
<1>8. CASE UNCHANGED vars
  BY <1>8, SamePlan DEF vars, RunnersRight
<1> QED
  BY <1>1, <1>2, <1>3, <1>4, <1>5, <1>6, <1>7, <1>8 DEF Next

\* The warm-up of a benchmark leaves its runner as the constructor made it, but
\* for the flag that says it is over, whatever it has measured, and so do the
\* turns of all other runners (benchmark_runner.cc:387-448).
THEOREM WarmUpForgets == Spec => WarmUpLeavesNoTrace
<1>1. ASSUME RunnersRight, [Next]_vars, NEW k \in DOMAIN runners,
             ~runners[k].warm, runners'[k].warm
      PROVE  runners'[k] = [NewRunner(runners[k].i) EXCEPT !.warm = TRUE]
  <2>1. CASE Warm \/ Measure \/ Record
    BY <1>1, <2>1, WarmTurn, MeasureTurn DEF Turn, Turned
  <2>2. CASE Find
    BY <1>1, <2>2 DEF Find, RunnersRight
  <2>3. CASE UNCHANGED runners
    BY <1>1, <2>3
  <2> QED
    BY <1>1, <2>1, <2>2, <2>3 DEF Next, Register, Create, Begin, Finish, End, vars
<1>2. RunnersRight /\ [Next]_vars =>
        [\A r \in DOMAIN runners :
           ~runners[r].warm /\ runners'[r].warm =>
             runners'[r] = [NewRunner(runners[r].i) EXCEPT !.warm = TRUE]]_vars
  BY <1>1
<1>3. RunnersRight /\ [Next]_vars => RunnersRight'
  BY RunnersNext
<1> QED
  BY <1>2, <1>3, RunnersInit, PTL DEF Spec, WarmUpLeavesNoTrace

LEMMA SeqIs ==
  ASSUME NEW S, NEW s \in Seq(S)
  PROVE  s \in Seq(Range(s))
BY DEF Range

LEMMA SeqMade ==
  ASSUME NEW n \in Nat, NEW s, DOMAIN s = 1 .. n, s = [k \in 1 .. n |-> s[k]]
  PROVE  s \in Seq(Range(s)) /\ Len(s) = n
BY DEF Range

LEMMA SeqJoined ==
  ASSUME NEW s, NEW t, s \in Seq(Range(s)), t \in Seq(Range(t))
  PROVE  (s \o t) \in Seq(Range(s \o t))
<1>1. s \in Seq(Range(s) \cup Range(t)) /\ t \in Seq(Range(s) \cup Range(t))
  OBVIOUS
<1>2. (s \o t) \in Seq(Range(s) \cup Range(t))
  BY <1>1
<1> QED
  BY <1>2, SeqIs

LEMMA SeqMore ==
  ASSUME NEW s, NEW x, s \in Seq(Range(s))
  PROVE  Append(s, x) \in Seq(Range(Append(s, x)))
<1>1. s \in Seq(Range(s) \cup {x})
  OBVIOUS
<1>2. Append(s, x) \in Seq(Range(s) \cup {x})
  BY <1>1
<1> QED
  BY <1>2, SeqIs

-----------------------------------------------------------------------------
(* What a family is after its calls.                                       *)

LEMMA PairBounds ==
  ASSUME NEW a \in Int, NEW b \in Int
  PROVE  /\ Max({a, b}) \in {a, b} /\ Max({a, b}) >= a /\ Max({a, b}) >= b
         /\ Min({a, b}) \in {a, b} /\ Min({a, b}) <= a /\ Min({a, b}) <= b
<1>1. \E x \in {a, b} : \A y \in {a, b} : x >= y
  OBVIOUS
<1>2. \E x \in {a, b} : \A y \in {a, b} : x <= y
  OBVIOUS
<1>3. Max({a, b}) \in {a, b} /\ \A y \in {a, b} : Max({a, b}) >= y
  BY <1>1 DEF Max
<1>4. Min({a, b}) \in {a, b} /\ \A y \in {a, b} : Min({a, b}) <= y
  BY <1>2 DEF Min
<1> QED
  BY <1>3, <1>4

\* What AddPowers defines, before it is known to exist.
PowerFrom(g, lo, hi, mult, i) ==
  (IF i >= lo THEN <<i>> ELSE <<>>) \o
  (IF i > TMax \div mult \/ i * mult > hi THEN <<>> ELSE g[i * mult])
Powers(lo, hi, mult) ==
  CHOOSE from : from = [i \in 1 .. TMax |-> PowerFrom(from, lo, hi, mult, i)]

\* The next power is larger, and a value of the type.
LEMMA NextPower ==
  ASSUME NEW mult \in Nat \ {0, 1}, NEW i \in 1 .. TMax, ~(i > TMax \div mult)
  PROVE  i * mult \in 1 .. TMax /\ i * mult > i
<1>1. TMax \in Nat /\ mult \in Nat \ {0}
  BY RegisterAssumption
<1> DEFINE q == TMax \div mult
           r == TMax % mult
<1>2. q \in Int /\ r \in 0 .. mult - 1 /\ TMax = mult * q + r
  BY <1>1, Division
<1>3. i \in Nat \ {0} /\ i <= q
  BY <1>1, <1>2
<1> HIDE DEF q, r
<1>4. i * mult <= q * mult
  <2>1. q - i \in Nat
    BY <1>2, <1>3
  <2>2. (q - i) * mult >= 0
    BY <1>1, <2>1
  <2>3. (q - i) * mult = q * mult - i * mult
    BY <1>1, <1>2, <1>3
  <2> QED
    BY <1>1, <1>2, <1>3, <2>2, <2>3
<1>5. i * mult > i
  <2>1. mult - 2 \in Nat
    BY <1>1
  <2>2. i * (mult - 2) >= 0
    BY <1>3, <2>1
  <2>3. i * mult = i * (mult - 2) + 2 * i
    BY <1>1, <1>3
  <2> QED
    BY <1>3, <2>2, <2>3
<1> QED
  BY <1>1, <1>2, <1>3, <1>4, <1>5

LEMMA PowersRecur ==
  ASSUME NEW lo \in Int, NEW hi \in Int, NEW mult \in Nat \ {0, 1}
  PROVE  \E g : g = [i \in 1 .. TMax |-> PowerFrom(g, lo, hi, mult, i)]
<1>1. TMax \in Nat
  BY RegisterAssumption
<1> DEFINE P(g, n) == \A i \in 1 .. TMax : i > TMax - n => g[i] = PowerFrom(g, lo, hi, mult, i)
           I == {n \in Nat : \E g : g = [i \in 1 .. TMax |-> g[i]] /\ P(g, n)}
<1>2. 0 \in I
  <2> DEFINE g == [i \in 1 .. TMax |-> 0]
  <2>1. g = [i \in 1 .. TMax |-> g[i]] /\ P(g, 0)
    BY <1>1
  <2> HIDE DEF g
  <2> QED
    BY <2>1
<1>3. ASSUME NEW n \in I PROVE n + 1 \in I
  <2>1. PICK g : g = [i \in 1 .. TMax |-> g[i]] /\ P(g, n)
    OBVIOUS
  <2> DEFINE h == [i \in 1 .. TMax |-> IF i = TMax - n THEN PowerFrom(g, lo, hi, mult, i) ELSE g[i]]
  <2>2. ASSUME NEW i \in 1 .. TMax, i > TMax - (n + 1)
        PROVE  h[i] = PowerFrom(h, lo, hi, mult, i)
    <3>1. h[i] = PowerFrom(g, lo, hi, mult, i)
      <4>1. i = TMax - n \/ i > TMax - n
        BY <1>1, <2>2
      <4> QED
        BY <2>1, <2>2, <4>1
    <3>2. CASE i > TMax \div mult
      BY <3>1, <3>2 DEF PowerFrom
    <3>3. CASE ~(i > TMax \div mult)
      <4>1. i * mult \in 1 .. TMax /\ i * mult > i
        BY <3>3, NextPower
      <4>2. i * mult # TMax - n
        BY <1>1, <2>2, <4>1
      <4>3. h[i * mult] = g[i * mult]
        BY <4>1, <4>2
      <4> HIDE DEF h
      <4> QED
        BY <3>1, <4>3 DEF PowerFrom
    <3> QED
      BY <3>2, <3>3
  <2>3. h = [i \in 1 .. TMax |-> h[i]] /\ P(h, n + 1)
    BY <2>2
  <2>4. n + 1 \in Nat
    OBVIOUS
  <2> HIDE DEF h
  <2>5. \E f : f = [i \in 1 .. TMax |-> f[i]] /\ P(f, n + 1)
    BY <2>3
  <2> QED
    BY <2>4, <2>5
<1>4. I = Nat
  <2> HIDE DEF I
  <2> QED
    BY <1>2, <1>3, SetInduction DEF I
<1>5. PICK g : g = [i \in 1 .. TMax |-> g[i]] /\ P(g, TMax)
  BY <1>1, <1>4
<1>6. g = [i \in 1 .. TMax |-> PowerFrom(g, lo, hi, mult, i)]
  BY <1>1, <1>5
<1> QED
  BY <1>6

LEMMA PowersType ==
  ASSUME NEW lo \in Int, NEW hi \in Int, NEW mult \in Nat \ {0, 1}
  PROVE  AddPowers(lo, hi, mult) \in Seq(Nat \ {0})
<1>1. TMax \in Nat \ {0}
  BY RegisterAssumption
<1> DEFINE g == Powers(lo, hi, mult)
<1>2. g = [i \in 1 .. TMax |-> PowerFrom(g, lo, hi, mult, i)]
  BY PowersRecur DEF Powers
<1> HIDE DEF g
<1> DEFINE I == {n \in Nat : \A i \in 1 .. TMax : i > TMax - n => g[i] \in Seq(Nat \ {0})}
<1>3. 0 \in I
  BY <1>1
<1>4. ASSUME NEW n \in I PROVE n + 1 \in I
  <2>1. ASSUME NEW i \in 1 .. TMax, i > TMax - (n + 1)
        PROVE  g[i] \in Seq(Nat \ {0})
    <3> DEFINE first == IF i >= lo THEN <<i>> ELSE <<>>
               rest  == IF i > TMax \div mult \/ i * mult > hi THEN <<>> ELSE g[i * mult]
    <3>1. g[i] = first \o rest
      BY <1>2 DEF PowerFrom
    <3>2. first \in Seq(Nat \ {0})
      <4>1. i \in Nat \ {0}
        BY <1>1
      <4>2. <<i>> \in Seq(Nat \ {0}) /\ <<>> \in Seq(Nat \ {0})
        BY <4>1
      <4> QED
        BY <4>2
    <3>3. rest \in Seq(Nat \ {0})
      <4>1. CASE i > TMax \div mult \/ i * mult > hi
        BY <4>1
      <4>2. CASE ~(i > TMax \div mult)
        <5>1. i * mult \in 1 .. TMax /\ i * mult > i
          BY <4>2, NextPower
        <5>2. i * mult > TMax - n
          BY <1>1, <2>1, <5>1
        <5>3. g[i * mult] \in Seq(Nat \ {0})
          BY <5>1, <5>2
        <5> QED
          BY <5>3
      <4> QED
        BY <4>1, <4>2
    <3> QED
      BY <3>1, <3>2, <3>3
  <2> QED
    BY <2>1
<1>5. I = Nat
  <2> HIDE DEF I
  <2> QED
    BY <1>3, <1>4, SetInduction DEF I
<1>6. g[1] \in Seq(Nat \ {0})
  BY <1>1, <1>5
<1>7. AddPowers(lo, hi, mult) = IF hi < 1 THEN <<>> ELSE g[1]
  BY DEF AddPowers, g, Powers, PowerFrom
<1> QED
  BY <1>6, <1>7

LEMMA RangeType ==
  ASSUME NEW lo \in Int, NEW hi \in Int, lo <= hi, NEW mult \in Nat \ {0, 1},
         NEW S \in {Int, Nat \ {0}}, S = Int \/ lo > 0, NEW dst \in Seq(S)
  PROVE  AddRange(dst, lo, hi, mult) \in Seq(S)
<1>1. lo \in S /\ hi \in S /\ Nat \ {0} \in SUBSET S
  OBVIOUS
<1> DEFINE negative == IF lo + 1 < 0 THEN AddNegatedPowers(lo + 1, Min({hi - 1, -1}), mult)
                       ELSE <<>>
           zero     == IF lo < 0 /\ hi >= 0 THEN <<0>> ELSE <<>>
           positive == IF hi - 1 > 0 THEN AddPowers(Max({lo + 1, 1}), hi - 1, mult) ELSE <<>>
           inner    == IF lo + 1 = hi THEN <<>> ELSE negative \o zero \o positive
           most     == Append(dst, lo) \o inner
<1>2. negative \in Seq(S)
  <2>1. CASE lo + 1 < 0
    <3> DEFINE top == Min({hi - 1, -1})
               powers == AddPowers(-top, -(lo + 1), mult)
    <3>1. S = Int
      BY <2>1
    <3>2. top \in Int
      <4>1. hi - 1 \in Int /\ -1 \in Int
        OBVIOUS
      <4>2. top \in {hi - 1, -1}
        BY <4>1, PairBounds
      <4> QED
        BY <4>1, <4>2
    <3> HIDE DEF top
    <3>3. powers \in Seq(Nat \ {0})
      <4>1. -top \in Int /\ -(lo + 1) \in Int
        BY <3>2
      <4> QED
        BY <4>1, PowersType
    <3> HIDE DEF powers
    <3> DEFINE less == [k \in DOMAIN powers |-> -powers[k]]
    <3>4. less \in Seq(Int)
      BY <3>3
    <3>5. AddNegatedPowers(lo + 1, top, mult) = Reverse(less)
      BY DEF AddNegatedPowers, powers
    <3> HIDE DEF less
    <3>6. Reverse(less) \in Seq(Int)
      BY <3>4 DEF Reverse
    <3> QED
      BY <2>1, <3>1, <3>5, <3>6 DEF top
  <2>2. CASE ~(lo + 1 < 0)
    BY <2>2
  <2> QED
    BY <2>1, <2>2
<1>3. zero \in Seq(S)
  OBVIOUS
<1>4. positive \in Seq(S)
  <2>1. Max({lo + 1, 1}) \in Int
    <3>1. lo + 1 \in Int /\ 1 \in Int
      OBVIOUS
    <3>2. Max({lo + 1, 1}) \in {lo + 1, 1}
      BY <3>1, PairBounds
    <3> QED
      BY <3>1, <3>2
  <2>2. AddPowers(Max({lo + 1, 1}), hi - 1, mult) \in Seq(Nat \ {0})
    BY <2>1, PowersType
  <2> QED
    BY <2>2
<1> HIDE DEF negative, zero, positive
<1>5. inner \in Seq(S)
  BY <1>2, <1>3, <1>4
<1> HIDE DEF inner
<1>6. Append(dst, lo) \in Seq(S) /\ most \in Seq(S)
  BY <1>1, <1>5
<1>7. AddRange(dst, lo, hi, mult) =
        IF lo = hi THEN Append(dst, lo)
        ELSE IF Last(most) = hi THEN most ELSE Append(most, hi)
  BY DEF AddRange, most, inner, negative, zero, positive
<1> HIDE DEF most
<1> QED
  BY <1>1, <1>6, <1>7

\* The sizes of the products of the first lists.
Sizes(lists) ==
  CHOOSE size : size = [a \in 0 .. Len(lists) |-> IF a = 0 THEN 1 ELSE size[a - 1] * Len(lists[a])]

LEMMA SizesRecur ==
  ASSUME NEW m \in Nat, NEW lists
  PROVE  \E g : g = [a \in 0 .. m |-> IF a = 0 THEN 1 ELSE g[a - 1] * Len(lists[a])]
<1> DEFINE I == {n \in Nat : \E g : g = [a \in 0 .. n |-> IF a = 0 THEN 1 ELSE g[a - 1] * Len(lists[a])]}
<1>1. 0 \in I
  <2> DEFINE g == [a \in 0 .. 0 |-> 1]
  <2>1. g = [a \in 0 .. 0 |-> IF a = 0 THEN 1 ELSE g[a - 1] * Len(lists[a])]
    OBVIOUS
  <2> HIDE DEF g
  <2> QED
    BY <2>1
<1>2. ASSUME NEW n \in I PROVE n + 1 \in I
  <2>1. PICK g : g = [a \in 0 .. n |-> IF a = 0 THEN 1 ELSE g[a - 1] * Len(lists[a])]
    OBVIOUS
  <2> DEFINE h == [a \in 0 .. n + 1 |-> IF a = n + 1 THEN g[n] * Len(lists[n + 1]) ELSE g[a]]
  <2>2. ASSUME NEW a \in 0 .. n + 1
        PROVE  h[a] = IF a = 0 THEN 1 ELSE h[a - 1] * Len(lists[a])
    <3>1. CASE a = 0
      BY <2>1, <3>1
    <3>2. CASE a # 0
      <4>1. a - 1 \in 0 .. n /\ a - 1 # n + 1 /\ a - 1 \in 0 .. n + 1
        BY <3>2
      <4>2. h[a - 1] = g[a - 1]
        BY <4>1
      <4>3. h[a] = g[a - 1] * Len(lists[a])
        <5>1. CASE a = n + 1
          BY <5>1
        <5>2. CASE a # n + 1
          <6>1. a \in 0 .. n
            BY <5>2
          <6>2. h[a] = g[a]
            BY <5>2
          <6> QED
            BY <2>1, <3>2, <6>1, <6>2
        <5> QED
          BY <5>1, <5>2
      <4> QED
        BY <3>2, <4>2, <4>3
    <3> QED
      BY <3>1, <3>2
  <2>3. h = [a \in 0 .. n + 1 |-> IF a = 0 THEN 1 ELSE h[a - 1] * Len(lists[a])]
    <3>1. h = [a \in 0 .. n + 1 |-> h[a]]
      OBVIOUS
    <3> HIDE DEF h
    <3> QED
      BY <2>2, <3>1
  <2>4. n + 1 \in Nat
    OBVIOUS
  <2> HIDE DEF h
  <2> QED
    BY <2>3, <2>4
<1>3. I = Nat
  <2> HIDE DEF I
  <2> QED
    BY <1>1, <1>2, SetInduction DEF I
<1> QED
  BY <1>3

LEMMA ProductType ==
  ASSUME NEW lists, lists \in Seq(Range(lists)), \A a \in DOMAIN lists : Len(lists[a]) \in Nat
  PROVE  ArgsProduct(lists) \in Seq(Range(ArgsProduct(lists)))
<1> DEFINE m == Len(lists)
           g == Sizes(lists)
<1>1. m \in Nat /\ DOMAIN lists = 1 .. m
  OBVIOUS
<1>2. g = [a \in 0 .. m |-> IF a = 0 THEN 1 ELSE g[a - 1] * Len(lists[a])]
  BY <1>1, SizesRecur DEF Sizes
<1> HIDE DEF g
<1> DEFINE I == {n \in Nat : n <= m => g[n] \in Nat}
<1>3. 0 \in I
  BY <1>1, <1>2
<1>4. ASSUME NEW n \in I PROVE n + 1 \in I
  <2>1. ASSUME n + 1 <= m PROVE g[n + 1] \in Nat
    <3>1. n \in Nat /\ n <= m /\ n + 1 \in 0 .. m /\ n + 1 # 0 /\ n + 1 \in DOMAIN lists
      BY <1>1, <2>1
    <3>2. g[n + 1] = g[n + 1 - 1] * Len(lists[n + 1])
      BY <1>2, <3>1
    <3>3. n + 1 - 1 = n /\ g[n] \in Nat /\ Len(lists[n + 1]) \in Nat
      BY <3>1
    <3> QED
      BY <3>2, <3>3
  <2> QED
    BY <2>1
<1>5. I = Nat
  <2> HIDE DEF I
  <2> QED
    BY <1>3, <1>4, SetInduction DEF I
<1>6. g[m] \in Nat
  BY <1>1, <1>5
<1> DEFINE all == ArgsProduct(lists)
<1>7. all = [k \in 1 .. g[m] |-> all[k]]
  BY DEF ArgsProduct, g, Sizes
<1> HIDE DEF all
<1> QED
  BY <1>6, <1>7, SeqMade DEF all

\* A family that its instances can be made from.
IsBenchmark(f) ==
  /\ f = [args |-> f.args, argNames |-> f.argNames, threads |-> f.threads, mult |-> f.mult,
          disabled |-> f.disabled]
  /\ f.args \in Seq(Range(f.args))
  /\ f.threads \in Seq(Nat \ {0})
  /\ f.mult \in Nat \ {0, 1}

LEMMA NewType == IsBenchmark(NewBenchmark)
BY RegisterAssumption DEF IsBenchmark, NewBenchmark

LEMMA DenseType ==
  ASSUME NEW lo \in Int, NEW hi \in Int, NEW step \in Nat \ {0}, lo <= hi + 1
  PROVE  /\ Dense(lo, hi, step) \in Seq(Int)
         /\ lo > 0 => Dense(lo, hi, step) \in Seq(Nat \ {0})
<1> DEFINE n == (hi - lo) \div step + 1
<1>1. n \in Nat
  <2> DEFINE q == (hi - lo) \div step
             r == (hi - lo) % step
  <2>1. q \in Int /\ r \in 0 .. step - 1 /\ hi - lo = step * q + r
    BY Division
  <2> HIDE DEF q, r
  <2>2. ASSUME q < -1 PROVE FALSE
    <3>1. -2 - q \in Nat
      BY <2>1, <2>2
    <3>2. step * (-2 - q) >= 0
      BY <3>1
    <3>3. step * (-2 - q) = -2 * step - step * q
      BY <2>1
    <3> QED
      BY <2>1, <3>2, <3>3
  <2> QED
    BY <2>1, <2>2 DEF q
<1> HIDE DEF n
<1>2. ASSUME NEW k \in 1 .. n
      PROVE  /\ lo + (k - 1) * step \in Int
             /\ lo > 0 => lo + (k - 1) * step \in Nat \ {0}
  <2>1. k - 1 \in Nat
    BY <1>1
  <2>2. (k - 1) * step \in Nat
    BY <2>1
  <2> QED
    BY <2>2
<1>3. Dense(lo, hi, step) = [k \in 1 .. n |-> lo + (k - 1) * step]
  BY DEF Dense, n
<1> QED
  BY <1>1, <1>2, <1>3

LEMMA SinglesType ==
  ASSUME NEW S, NEW list \in Seq(S)
  PROVE  Singles(list) \in Seq(Range(Singles(list)))
<1> DEFINE s == Singles(list)
<1>1. s = [k \in 1 .. Len(list) |-> s[k]] /\ Len(list) \in Nat
  BY DEF Singles
<1> HIDE DEF s
<1> QED
  BY <1>1, SeqMade DEF s

LEMMA ChangeArgs ==
  ASSUME NEW f, IsBenchmark(f), NEW x, x \in Seq(Range(x))
  PROVE  IsBenchmark([f EXCEPT !.args = x])
BY DEF IsBenchmark

LEMMA ChangeThreads ==
  ASSUME NEW f, IsBenchmark(f), NEW x \in Seq(Nat \ {0})
  PROVE  IsBenchmark([f EXCEPT !.threads = x])
<1> DEFINE g == [f EXCEPT !.threads = x]
<1>1. g = [args |-> f.args, argNames |-> f.argNames, threads |-> x, mult |-> f.mult,
           disabled |-> f.disabled]
  <2>1. PICK a, b, t, m, d :
          f = [args |-> a, argNames |-> b, threads |-> t, mult |-> m, disabled |-> d]
    BY DEF IsBenchmark
  <2> QED
    BY <2>1
<1>2. f.args \in Seq(Range(f.args)) /\ f.mult \in Nat \ {0, 1}
  BY DEF IsBenchmark
<1> HIDE DEF g
<1>3. /\ g.args = f.args /\ g.argNames = f.argNames /\ g.threads = x /\ g.mult = f.mult
      /\ g.disabled = f.disabled
  BY <1>1
<1>4. IsBenchmark(g)
  BY <1>1, <1>2, <1>3 DEF IsBenchmark
<1> QED
  BY <1>4 DEF g

LEMMA ApplyType ==
  ASSUME NEW f, IsBenchmark(f), NEW c, NEW g, Legal(g, c)
  PROVE  IsBenchmark(Apply(f, c))
<1>1. /\ f.args \in Seq(Range(f.args)) /\ f.threads \in Seq(Nat \ {0}) /\ f.mult \in Nat \ {0, 1}
      /\ Bounded(c)
  BY DEF IsBenchmark, Legal
<1>2. CASE c.call = "Args"
  <2>1. Apply(f, c) = [f EXCEPT !.args = Append(f.args, c.args)]
    BY <1>2 DEF Apply
  <2> DEFINE more == Append(f.args, c.args)
  <2>8. more \in Seq(Range(more))
    BY <1>1, SeqMore
  <2> HIDE DEF more
  <2>9. Apply(f, c) = [f EXCEPT !.args = more]
    BY <2>1 DEF more
  <2> QED
    BY <2>8, <2>9, ChangeArgs
<1>3. CASE c.call = "ArgNames"
  <2>1. Apply(f, c) = [f EXCEPT !.argNames = c.names]
    BY <1>3 DEF Apply
  <2> QED
    BY <2>1 DEF IsBenchmark
<1>4. CASE c.call = "RangeMultiplier"
  <2>1. Apply(f, c) = [f EXCEPT !.mult = c.mult]
    BY <1>4 DEF Apply
  <2>2. c.mult \in Nat \ {0, 1}
    BY <1>1, <1>4 DEF Bounded
  <2> QED
    BY <2>1, <2>2 DEF IsBenchmark
<1>5. CASE c.call = "Range"
  <2> DEFINE list == AddRange(<<>>, c.lo, c.hi, f.mult)
  <2>1. Apply(f, c) = [f EXCEPT !.args = f.args \o Singles(list)]
    BY <1>5 DEF Apply
  <2>2. c.lo \in Int /\ c.hi \in Int /\ c.lo <= c.hi
    BY <1>1, <1>5 DEF Bounded
  <2>3. list \in Seq(Int)
    <3>1. <<>> \in Seq(Int) /\ Int \in {Int, Nat \ {0}}
      OBVIOUS
    <3> QED
      BY <1>1, <2>2, <3>1, RangeType
  <2> HIDE DEF list
  <2> DEFINE more == f.args \o Singles(list)
  <2>8. more \in Seq(Range(more))
    BY <1>1, <2>3, SinglesType, SeqJoined
  <2> HIDE DEF more
  <2>9. Apply(f, c) = [f EXCEPT !.args = more]
    BY <2>1 DEF more
  <2> QED
    BY <2>8, <2>9, ChangeArgs
<1>6. CASE c.call = "DenseRange"
  <2> DEFINE list == Dense(c.lo, c.hi, c.step)
  <2>1. Apply(f, c) = [f EXCEPT !.args = f.args \o Singles(list)]
    BY <1>6 DEF Apply
  <2>2. c.lo \in Int /\ c.hi \in Int /\ c.lo <= c.hi /\ c.step \in Nat \ {0}
    BY <1>1, <1>6 DEF Bounded
  <2>3. list \in Seq(Int)
    <3>1. c.lo <= c.hi + 1
      BY <2>2
    <3> QED
      BY <2>2, <3>1, DenseType
  <2> HIDE DEF list
  <2> DEFINE more == f.args \o Singles(list)
  <2>8. more \in Seq(Range(more))
    BY <1>1, <2>3, SinglesType, SeqJoined
  <2> HIDE DEF more
  <2>9. Apply(f, c) = [f EXCEPT !.args = more]
    BY <2>1 DEF more
  <2> QED
    BY <2>8, <2>9, ChangeArgs
<1>7. CASE c.call = "Ranges"
  <2> DEFINE lists == [k \in DOMAIN c.ranges |->
                         AddRange(<<>>, c.ranges[k][1], c.ranges[k][2], f.mult)]
  <2>1. Apply(f, c) = [f EXCEPT !.args = f.args \o ArgsProduct(lists)]
    BY <1>7 DEF Apply
  <2>2. /\ c.ranges \in Seq(Int \X Int)
        /\ \A k \in DOMAIN c.ranges : c.ranges[k][1] <= c.ranges[k][2]
    BY <1>1, <1>7 DEF Bounded
  <2>3. ASSUME NEW k \in DOMAIN c.ranges PROVE lists[k] \in Seq(Int)
    <3>1. c.ranges[k] \in Int \X Int
      BY <2>2
    <3>2. c.ranges[k][1] \in Int /\ c.ranges[k][2] \in Int /\ c.ranges[k][1] <= c.ranges[k][2]
      BY <2>2, <3>1
    <3>3. <<>> \in Seq(Int) /\ Int \in {Int, Nat \ {0}}
      OBVIOUS
    <3>4. AddRange(<<>>, c.ranges[k][1], c.ranges[k][2], f.mult) \in Seq(Int)
      BY <1>1, <3>2, <3>3, RangeType
    <3> QED
      BY <3>4
  <2>4. lists \in Seq(Range(lists))
    <3>1. DOMAIN c.ranges = 1 .. Len(c.ranges) /\ Len(c.ranges) \in Nat
      BY <2>2
    <3>2. lists = [k \in 1 .. Len(c.ranges) |-> lists[k]]
      BY <3>1
    <3> HIDE DEF lists
    <3> QED
      BY <3>1, <3>2, SeqMade
  <2>5. \A k \in DOMAIN lists : Len(lists[k]) \in Nat
    BY <2>3
  <2> HIDE DEF lists
  <2> DEFINE more == f.args \o ArgsProduct(lists)
  <2>8. more \in Seq(Range(more))
    BY <1>1, <2>4, <2>5, ProductType, SeqJoined
  <2> HIDE DEF more
  <2>9. Apply(f, c) = [f EXCEPT !.args = more]
    BY <2>1 DEF more
  <2> QED
    BY <2>8, <2>9, ChangeArgs
<1>8. CASE c.call = "ArgsProduct"
  <2>1. Apply(f, c) = [f EXCEPT !.args = f.args \o ArgsProduct(c.lists)]
    BY <1>8 DEF Apply
  <2>2. c.lists \in Seq(Seq(Int))
    BY <1>1, <1>8 DEF Bounded
  <2>3. c.lists \in Seq(Range(c.lists)) /\ \A k \in DOMAIN c.lists : Len(c.lists[k]) \in Nat
    <3>1. \A k \in DOMAIN c.lists : c.lists[k] \in Seq(Int)
      BY <2>2
    <3> QED
      BY <2>2, <3>1, SeqIs
  <2> DEFINE more == f.args \o ArgsProduct(c.lists)
  <2>8. more \in Seq(Range(more))
    BY <1>1, <2>3, ProductType, SeqJoined
  <2> HIDE DEF more
  <2>9. Apply(f, c) = [f EXCEPT !.args = more]
    BY <2>1 DEF more
  <2> QED
    BY <2>8, <2>9, ChangeArgs
<1>9. CASE c.call = "Threads"
  <2>1. Apply(f, c) = [f EXCEPT !.threads = Append(f.threads, c.lo)]
    BY <1>9 DEF Apply
  <2>2. c.lo \in Nat \ {0}
    BY <1>1, <1>9 DEF Bounded
  <2> DEFINE more == Append(f.threads, c.lo)
  <2>8. more \in Seq(Nat \ {0})
    BY <1>1, <2>2
  <2> HIDE DEF more
  <2>9. Apply(f, c) = [f EXCEPT !.threads = more]
    BY <2>1 DEF more
  <2> QED
    BY <2>8, <2>9, ChangeThreads
<1>10. CASE c.call = "ThreadRange"
  <2>1. Apply(f, c) = [f EXCEPT !.threads = AddRange(f.threads, c.lo, c.hi, 2)]
    BY <1>10 DEF Apply
  <2>2. c.lo \in Int /\ c.hi \in Int /\ c.lo <= c.hi /\ c.lo > 0
    BY <1>1, <1>10 DEF Bounded
  <2>3. AddRange(f.threads, c.lo, c.hi, 2) \in Seq(Nat \ {0})
    <3>1. 2 \in Nat \ {0, 1} /\ (Nat \ {0}) \in {Int, Nat \ {0}}
      OBVIOUS
    <3> QED
      BY <1>1, <2>2, <3>1, RangeType
  <2> QED
    BY <2>1, <2>3, ChangeThreads
<1>11. CASE c.call = "DenseThreadRange"
  <2> DEFINE most == IF c.lo < c.hi THEN Dense(c.lo, c.hi - 1, c.step) ELSE <<>>
  <2>1. Apply(f, c) = [f EXCEPT !.threads = f.threads \o most \o <<c.hi>>]
    BY <1>11 DEF Apply
  <2>2. c.lo \in Int /\ c.hi \in Int /\ c.lo <= c.hi /\ c.lo > 0 /\ c.step \in Nat \ {0}
    BY <1>1, <1>11 DEF Bounded
  <2>3. most \in Seq(Nat \ {0})
    <3>1. c.hi - 1 \in Int /\ c.lo <= c.hi - 1 + 1
      BY <2>2
    <3>2. Dense(c.lo, c.hi - 1, c.step) \in Seq(Nat \ {0})
      BY <2>2, <3>1, DenseType
    <3> QED
      BY <3>2
  <2>4. <<c.hi>> \in Seq(Nat \ {0})
    <3>1. c.hi \in Nat \ {0}
      BY <2>2
    <3> QED
      BY <3>1
  <2> HIDE DEF most
  <2> DEFINE more == f.threads \o most \o <<c.hi>>
  <2>8. more \in Seq(Nat \ {0})
    BY <1>1, <2>3, <2>4
  <2> HIDE DEF more
  <2>9. Apply(f, c) = [f EXCEPT !.threads = more]
    BY <2>1 DEF more
  <2> QED
    BY <2>8, <2>9, ChangeThreads
<1>12. CASE c.call = "ThreadPerCpu"
  <2>1. Apply(f, c) = [f EXCEPT !.threads = Append(f.threads, NumCpus)]
    BY <1>12 DEF Apply
  <2> DEFINE more == Append(f.threads, NumCpus)
  <2>8. more \in Seq(Nat \ {0})
    BY <1>1, RegisterAssumption
  <2> HIDE DEF more
  <2>9. Apply(f, c) = [f EXCEPT !.threads = more]
    BY <2>1 DEF more
  <2> QED
    BY <2>8, <2>9, ChangeThreads
<1> QED
  BY <1>2, <1>3, <1>4, <1>5, <1>6, <1>7, <1>8, <1>9, <1>10, <1>11, <1>12 DEF Legal

\* The family after its first calls.
BuiltSoFar(calls) ==
  CHOOSE built : built = [k \in 0 .. Len(calls) |->
                            IF k = 0 THEN NewBenchmark ELSE Apply(built[k - 1], calls[k])]

LEMMA BuildRecurs ==
  ASSUME NEW m \in Nat, NEW calls
  PROVE  \E g : g = [k \in 0 .. m |-> IF k = 0 THEN NewBenchmark ELSE Apply(g[k - 1], calls[k])]
<1> DEFINE I == {n \in Nat : \E g : g = [k \in 0 .. n |->
                   IF k = 0 THEN NewBenchmark ELSE Apply(g[k - 1], calls[k])]}
<1>1. 0 \in I
  <2> DEFINE g == [k \in 0 .. 0 |-> NewBenchmark]
  <2>1. g = [k \in 0 .. 0 |-> IF k = 0 THEN NewBenchmark ELSE Apply(g[k - 1], calls[k])]
    OBVIOUS
  <2> HIDE DEF g
  <2> QED
    BY <2>1
<1>2. ASSUME NEW n \in I PROVE n + 1 \in I
  <2>1. PICK g : g = [k \in 0 .. n |-> IF k = 0 THEN NewBenchmark ELSE Apply(g[k - 1], calls[k])]
    OBVIOUS
  <2> DEFINE h == [k \in 0 .. n + 1 |-> IF k = n + 1 THEN Apply(g[n], calls[n + 1]) ELSE g[k]]
  <2>2. ASSUME NEW k \in 0 .. n + 1
        PROVE  h[k] = IF k = 0 THEN NewBenchmark ELSE Apply(h[k - 1], calls[k])
    <3>1. CASE k = 0
      BY <2>1, <3>1
    <3>2. CASE k # 0
      <4>1. k - 1 \in 0 .. n /\ k - 1 # n + 1 /\ k - 1 \in 0 .. n + 1
        BY <3>2
      <4>2. h[k - 1] = g[k - 1]
        BY <4>1
      <4>3. h[k] = Apply(g[k - 1], calls[k])
        <5>1. CASE k = n + 1
          BY <5>1
        <5>2. CASE k # n + 1
          <6>1. k \in 0 .. n
            BY <5>2
          <6>2. h[k] = g[k]
            BY <5>2
          <6> QED
            BY <2>1, <3>2, <6>1, <6>2
        <5> QED
          BY <5>1, <5>2
      <4> QED
        BY <3>2, <4>2, <4>3
    <3> QED
      BY <3>1, <3>2
  <2>3. h = [k \in 0 .. n + 1 |-> IF k = 0 THEN NewBenchmark ELSE Apply(h[k - 1], calls[k])]
    <3>1. h = [k \in 0 .. n + 1 |-> h[k]]
      OBVIOUS
    <3> HIDE DEF h
    <3> QED
      BY <2>2, <3>1
  <2>4. n + 1 \in Nat
    OBVIOUS
  <2> HIDE DEF h
  <2> QED
    BY <2>3, <2>4
<1>3. I = Nat
  <2> HIDE DEF I
  <2> QED
    BY <1>1, <1>2, SetInduction DEF I
<1> QED
  BY <1>3

LEMMA BuildType ==
  ASSUME NEW calls, calls \in Seq(Range(calls)), LegalCalls(calls)
  PROVE  IsBenchmark(Build(calls))
<1> DEFINE m == Len(calls)
           g == BuiltSoFar(calls)
<1>1. m \in Nat /\ DOMAIN calls = 1 .. m
  OBVIOUS
<1>2. g = [k \in 0 .. m |-> IF k = 0 THEN NewBenchmark ELSE Apply(g[k - 1], calls[k])]
  BY <1>1, BuildRecurs DEF BuiltSoFar
<1>3. Build(calls) = g[m]
  BY DEF Build, BuiltSoFar
<1> HIDE DEF g
<1> DEFINE I == {n \in Nat : n <= m => IsBenchmark(g[n])}
<1>4. 0 \in I
  BY <1>1, <1>2, NewType
<1>5. ASSUME NEW n \in I PROVE n + 1 \in I
  <2>1. ASSUME n + 1 <= m PROVE IsBenchmark(g[n + 1])
    <3>1. n \in Nat /\ n <= m /\ n + 1 \in 0 .. m /\ n + 1 # 0 /\ n + 1 \in DOMAIN calls
      BY <1>1, <2>1
    <3>2. g[n + 1] = Apply(g[n + 1 - 1], calls[n + 1])
      BY <1>2, <3>1
    <3>3. n + 1 - 1 = n /\ IsBenchmark(g[n])
      BY <3>1
    <3>4. \E f : Legal(f, calls[n + 1])
      BY <3>1 DEF LegalCalls
    <3> QED
      BY <3>2, <3>3, <3>4, ApplyType
  <2> QED
    BY <2>1
<1>6. I = Nat
  <2> HIDE DEF I
  <2> QED
    BY <1>4, <1>5, SetInduction DEF I
<1> QED
  BY <1>1, <1>3, <1>6

-----------------------------------------------------------------------------
(* What FindBenchmarks finds.                                              *)

\* A family can be asked for its instances.
Whole(f) == f.args \in Seq(Range(f.args)) /\ f.threads \in Seq(Nat \ {0})

LEMMA InputsAndCounts ==
  ASSUME NEW f, Whole(f)
  PROVE  /\ \E n \in Nat : DOMAIN InputsOf(f) = 1 .. n
         /\ CountsOf(f) \in Seq(Nat \ {0})
<1>1. \E n \in Nat : DOMAIN InputsOf(f) = 1 .. n
  <2>1. CASE ArgsCnt(f) = -1
    <3>1. InputsOf(f) = <<<<>>>>
      BY <2>1 DEF InputsOf
    <3>2. DOMAIN InputsOf(f) = 1 .. 1
      BY <3>1
    <3> QED
      BY <3>2
  <2>2. CASE ArgsCnt(f) # -1
    <3>1. InputsOf(f) = f.args /\ Len(f.args) \in Nat /\ DOMAIN f.args = 1 .. Len(f.args)
      BY <2>2 DEF InputsOf, Whole
    <3> QED
      BY <3>1
  <2> QED
    BY <2>1, <2>2
<1>2. CountsOf(f) \in Seq(Nat \ {0})
  <2>1. f.threads \in Seq(Nat \ {0}) /\ <<1>> \in Seq(Nat \ {0})
    BY DEF Whole
  <2> QED
    BY <2>1 DEF CountsOf
<1> QED
  BY <1>1, <1>2

LEMMA MatchingFinite ==
  ASSUME NEW fs, fs \in Seq(Range(fs)), \A n \in DOMAIN fs : Whole(fs[n]), NEW filter
  PROVE  /\ IsFiniteSet(Matching(fs, filter))
         /\ \A x \in Matching(fs, filter) :
              /\ x[1] \in DOMAIN fs /\ x[2] \in Nat /\ x[3] \in Nat
              /\ x = <<x[1], x[2], x[3]>>
              /\ CountsOf(fs[x[1]])[x[3]] \in Nat \ {0}
<1> DEFINE P(n) == {n} \X (DOMAIN InputsOf(fs[n])) \X (DOMAIN CountsOf(fs[n]))
           D == DOMAIN fs
           U == UNION {P(n) : n \in D}
<1>1. D = 1 .. Len(fs) /\ Len(fs) \in Nat /\ IsFiniteSet(D)
  <2>1. D = 1 .. Len(fs) /\ Len(fs) \in Nat
    OBVIOUS
  <2> QED
    BY <2>1, FS_Interval
<1>2. ASSUME NEW n \in D
      PROVE  /\ IsFiniteSet(P(n))
             /\ \A x \in P(n) : /\ x[1] = n /\ x[2] \in Nat /\ x[3] \in Nat
                                /\ x = <<x[1], x[2], x[3]>>
                                /\ CountsOf(fs[n])[x[3]] \in Nat \ {0}
  <2> DEFINE A == DOMAIN InputsOf(fs[n])
             B == DOMAIN CountsOf(fs[n])
  <2>1. PICK a \in Nat : A = 1 .. a
    BY InputsAndCounts
  <2>2. PICK b \in Nat : B = 1 .. b /\ \A k \in B : CountsOf(fs[n])[k] \in Nat \ {0}
    <3>1. CountsOf(fs[n]) \in Seq(Nat \ {0})
      BY InputsAndCounts
    <3> QED
      BY <3>1
  <2>3. P(n) = {n} \X A \X B
    OBVIOUS
  <2> HIDE DEF A, B
  <2>4. IsFiniteSet(A) /\ IsFiniteSet(B)
    BY <2>1, <2>2, FS_Interval
  <2>5. IsFiniteSet(A \X B)
    BY <2>4, FS_Product
  <2> DEFINE f == [p \in A \X B |-> <<n, p[1], p[2]>>]
  <2>6. f \in Surjection(A \X B, {n} \X A \X B)
    <3>1. f \in [A \X B -> {n} \X A \X B]
      OBVIOUS
    <3>2. ASSUME NEW x \in {n} \X A \X B PROVE \E p \in A \X B : f[p] = x
      <4>1. <<x[2], x[3]>> \in A \X B /\ x = <<n, x[2], x[3]>>
        OBVIOUS
      <4> QED
        BY <4>1
    <3> QED
      BY <3>1, <3>2 DEF Surjection
  <2>7. IsFiniteSet({n} \X A \X B)
    <3> HIDE DEF f
    <3> QED
      BY <2>5, <2>6, FS_Surjection
  <2>8. ASSUME NEW x \in {n} \X A \X B
        PROVE  /\ x[1] = n /\ x[2] \in Nat /\ x[3] \in Nat
               /\ x = <<x[1], x[2], x[3]>>
               /\ CountsOf(fs[n])[x[3]] \in Nat \ {0}
    <3>1. x[1] = n /\ x[2] \in A /\ x[3] \in B /\ x = <<x[1], x[2], x[3]>>
      OBVIOUS
    <3> QED
      BY <2>1, <2>2, <3>1
  <2> QED
    BY <2>3, <2>7, <2>8
<1> HIDE DEF P
<1>3. IsFiniteSet(U)
  <2> DEFINE f == [n \in D |-> P(n)]
  <2>1. f \in Surjection(D, {P(n) : n \in D})
    BY DEF Surjection
  <2>2. IsFiniteSet({P(n) : n \in D})
    <3> HIDE DEF f, D
    <3> QED
      BY <1>1, <2>1, FS_Surjection
  <2> HIDE DEF D
  <2>3. \A T \in {P(n) : n \in D} : IsFiniteSet(T)
    BY <1>2
  <2> QED
    BY <2>2, <2>3, FS_UNION
<1>4. Matching(fs, filter) \in SUBSET U
  BY DEF Matching, P
<1>5. IsFiniteSet(Matching(fs, filter))
  <2> HIDE DEF U
  <2> QED
    BY <1>3, <1>4, FS_Subset
<1>6. ASSUME NEW x \in Matching(fs, filter)
      PROVE  /\ x[1] \in DOMAIN fs /\ x[2] \in Nat /\ x[3] \in Nat
             /\ x = <<x[1], x[2], x[3]>>
             /\ CountsOf(fs[x[1]])[x[3]] \in Nat \ {0}
  <2>1. PICK n \in D : x \in P(n)
    BY <1>4
  <2> QED
    BY <1>2, <2>1
<1> QED
  BY <1>5, <1>6

\* As many triples precede one as its place among them says.
LEMMA Ranks ==
  ASSUME NEW all, IsFiniteSet(all),
         \A x \in all : /\ x[1] \in Nat /\ x[2] \in Nat /\ x[3] \in Nat
                        /\ x = <<x[1], x[2], x[3]>>
  PROVE  /\ Cardinality(all) \in Nat
         /\ \A k \in 1 .. Cardinality(all) : \E x \in all :
              Cardinality({y \in all : Precedes(y, x)}) = k - 1
<1> DEFINE before(x) == {y \in all : Precedes(y, x)}
           N == Cardinality(all)
           f == [x \in all |-> Cardinality(before(x))]
<1>1. N \in Nat
  BY FS_CardinalityType
<1>2. ASSUME NEW x \in all
      PROVE  /\ IsFiniteSet(before(x)) /\ x \notin before(x)
             /\ Cardinality(before(x)) \in 0 .. N - 1
  <2>1. x \notin before(x)
    BY DEF Precedes
  <2>2. before(x) \in SUBSET (all \ {x})
    BY <2>1
  <2>3. IsFiniteSet(all \ {x}) /\ Cardinality(all \ {x}) = N - 1
    BY FS_RemoveElement
  <2> HIDE DEF before
  <2>4. IsFiniteSet(before(x)) /\ Cardinality(before(x)) <= N - 1
    BY <2>2, <2>3, FS_Subset
  <2>5. Cardinality(before(x)) \in Nat
    BY <2>4, FS_CardinalityType
  <2> HIDE DEF N
  <2> QED
    BY <1>1, <2>1, <2>4, <2>5
<1>3. ASSUME NEW x \in all, NEW y \in all, Precedes(x, y)
      PROVE  Cardinality(before(x)) < Cardinality(before(y))
  <2>1. before(x) \cup {x} \subseteq before(y)
    <3>1. ASSUME NEW z \in all, Precedes(z, x) PROVE Precedes(z, y)
      BY <1>3, <3>1 DEF Precedes
    <3> QED
      BY <1>3, <3>1
  <2>2. /\ IsFiniteSet(before(x)) /\ x \notin before(x) /\ IsFiniteSet(before(y))
        /\ Cardinality(before(x)) \in Nat /\ Cardinality(before(y)) \in Nat
    <3> HIDE DEF before, N
    <3> QED
      BY <1>1, <1>2
  <2> HIDE DEF before, N
  <2>3. Cardinality(before(x) \cup {x}) = Cardinality(before(x)) + 1
    BY <2>2, FS_AddElement
  <2>4. (before(x) \cup {x}) \in SUBSET before(y)
    BY <2>1
  <2>5. Cardinality(before(x) \cup {x}) <= Cardinality(before(y))
    BY <2>2, <2>4, FS_Subset
  <2> QED
    BY <2>2, <2>3, <2>5
<1>4. f \in Injection(all, 0 .. N - 1)
  <2>1. f \in [all -> 0 .. N - 1]
    BY <1>2
  <2>2. ASSUME NEW x \in all, NEW y \in all, x # y PROVE f[x] # f[y]
    <3>1. Precedes(x, y) \/ Precedes(y, x)
      BY <2>2 DEF Precedes
    <3>2. f[x] \in Int /\ f[y] \in Int /\ f[x] = Cardinality(before(x)) /\ f[y] = Cardinality(before(y))
      BY <2>1
    <3> HIDE DEF before, f
    <3> QED
      BY <1>3, <3>1, <3>2
  <2> HIDE DEF f
  <2> QED
    BY <2>1, <2>2 DEF Injection, IsInjective
<1>5. IsFiniteSet(0 .. N - 1) /\ Cardinality(0 .. N - 1) = N
  <2> HIDE DEF N
  <2>1. 0 \in Int /\ N - 1 \in Int
    BY <1>1
  <2>2. Cardinality(0 .. N - 1) = IF 0 > N - 1 THEN 0 ELSE N - 1 - 0 + 1
    BY <2>1, FS_Interval
  <2>3. IsFiniteSet(0 .. N - 1)
    BY <2>1, FS_Interval
  <2> QED
    BY <1>1, <2>2, <2>3
<1>6. f \in Surjection(all, 0 .. N - 1)
  <2> HIDE DEF f
  <2> QED
    BY <1>4, <1>5, FS_Injection
<1>7. ASSUME NEW k \in 1 .. N PROVE \E x \in all : Cardinality(before(x)) = k - 1
  <2>1. k - 1 \in 0 .. N - 1
    <3> HIDE DEF N
    <3> QED
      BY <1>1
  <2>2. PICK x \in all : f[x] = k - 1
    BY <1>6, <2>1 DEF Surjection
  <2> QED
    BY <2>2
<1> QED
  BY <1>1, <1>7

\* The number of the families before the nth that have an instance.
FamilyIndex(all, n) == Cardinality({y[1] : y \in {z \in all : z[1] < n}})

LEMMA IndexGrows ==
  ASSUME NEW N \in Nat, NEW all, \A x \in all : x[1] \in 1 .. N,
         NEW x \in all, NEW y \in all, x[1] < y[1]
  PROVE  FamilyIndex(all, x[1]) < FamilyIndex(all, y[1])
<1> DEFINE S(n) == {z[1] : z \in {w \in all : w[1] < n}}
<1>1. S(x[1]) \cup {x[1]} \subseteq S(y[1]) /\ x[1] \notin S(x[1])
  <2>1. x[1] \in S(y[1])
    OBVIOUS
  <2>2. S(x[1]) \subseteq S(y[1])
    OBVIOUS
  <2>3. x[1] \notin S(x[1])
    OBVIOUS
  <2> QED
    BY <2>1, <2>2, <2>3
<1>2. S(x[1]) \in SUBSET (1 .. N) /\ S(y[1]) \in SUBSET (1 .. N) /\ IsFiniteSet(1 .. N)
  <2>1. S(x[1]) \in SUBSET (1 .. N) /\ S(y[1]) \in SUBSET (1 .. N)
    OBVIOUS
  <2>2. IsFiniteSet(1 .. N)
    BY FS_Interval
  <2> QED
    BY <2>1, <2>2
<1> HIDE DEF S
<1>3. IsFiniteSet(S(x[1])) /\ IsFiniteSet(S(y[1]))
  BY <1>2, FS_Subset
<1>4. Cardinality(S(x[1])) \in Nat /\ Cardinality(S(y[1])) \in Nat
  BY <1>3, FS_CardinalityType
<1>5. Cardinality(S(x[1]) \cup {x[1]}) = Cardinality(S(x[1])) + 1
  BY <1>1, <1>3, FS_AddElement
<1>6. (S(x[1]) \cup {x[1]}) \in SUBSET S(y[1])
  BY <1>1
<1>7. Cardinality(S(x[1]) \cup {x[1]}) <= Cardinality(S(y[1]))
  BY <1>3, <1>6, FS_Subset
<1> QED
  BY <1>4, <1>5, <1>7 DEF FamilyIndex, S

LEMMA FoundInstances ==
  ASSUME NEW fs, fs \in Seq(Range(fs)), \A n \in DOMAIN fs : Whole(fs[n]), NEW filter
  PROVE  LET found == FindBenchmarks(fs, filter)
         IN  /\ found \in Seq(Range(found))
             /\ \A k \in DOMAIN found : /\ found[k].of \in DOMAIN fs
                                        /\ found[k].threads \in Nat \ {0}
             /\ \A j, k \in DOMAIN found :
                  found[j].family = found[k].family <=> found[j].of = found[k].of
<1> DEFINE all == Matching(fs, filter)
           before(x) == {y \in all : Precedes(y, x)}
           nth(k)    == CHOOSE x \in all : Cardinality(before(x)) = k - 1
           instance(x) ==
             Instance(x[1], FamilyIndex(all, x[1]), Cardinality({y \in before(x) : y[1] = x[1]}),
                      InputsOf(fs[x[1]])[x[2]], CountsOf(fs[x[1]])[x[3]])
           found == FindBenchmarks(fs, filter)
<1>1. found = [k \in 1 .. Cardinality(all) |-> instance(nth(k))]
  BY DEF FindBenchmarks, FamilyIndex
<1>2. /\ IsFiniteSet(all)
      /\ \A x \in all :
              /\ x[1] \in DOMAIN fs /\ x[2] \in Nat /\ x[3] \in Nat
              /\ x = <<x[1], x[2], x[3]>>
              /\ CountsOf(fs[x[1]])[x[3]] \in Nat \ {0}
  BY MatchingFinite
<1>3. DOMAIN fs = 1 .. Len(fs) /\ Len(fs) \in Nat
  OBVIOUS
<1> HIDE DEF all, found
<1>4. /\ Cardinality(all) \in Nat
      /\ \A k \in 1 .. Cardinality(all) : \E x \in all : Cardinality(before(x)) = k - 1
  <2>1. \A x \in all : /\ x[1] \in Nat /\ x[2] \in Nat /\ x[3] \in Nat
                       /\ x = <<x[1], x[2], x[3]>>
    BY <1>2, <1>3
  <2> QED
    BY <1>2, <2>1, Ranks
<1>5. ASSUME NEW k \in 1 .. Cardinality(all) PROVE nth(k) \in all
  BY <1>4
<1> HIDE DEF nth
<1>6. DOMAIN found = 1 .. Cardinality(all) /\ \A k \in DOMAIN found : found[k] = instance(nth(k))
  BY <1>1
<1>7. ASSUME NEW k \in DOMAIN found
      PROVE  /\ nth(k) \in all
             /\ found[k].of = nth(k)[1] /\ found[k].family = FamilyIndex(all, nth(k)[1])
             /\ found[k].threads = CountsOf(fs[nth(k)[1]])[nth(k)[3]]
  <2>1. \A x : /\ instance(x).of = x[1] /\ instance(x).family = FamilyIndex(all, x[1])
               /\ instance(x).threads = CountsOf(fs[x[1]])[x[3]]
    BY DEF Instance
  <2>2. k \in 1 .. Cardinality(all) /\ found[k] = instance(nth(k))
    BY <1>6
  <2> HIDE DEF instance
  <2> QED
    BY <1>5, <2>1, <2>2
<1>8. found \in Seq(Range(found))
  <2>1. found = [k \in 1 .. Cardinality(all) |-> found[k]]
    BY <1>1
  <2> QED
    BY <1>4, <1>6, <2>1, SeqMade
<1>9. ASSUME NEW k \in DOMAIN found
      PROVE  found[k].of \in DOMAIN fs /\ found[k].threads \in Nat \ {0}
  BY <1>2, <1>7
<1>10. ASSUME NEW j \in DOMAIN found, NEW k \in DOMAIN found
       PROVE  found[j].family = found[k].family <=> found[j].of = found[k].of
  <2> DEFINE x == nth(j)
             y == nth(k)
  <2>1. /\ x \in all /\ y \in all /\ x[1] \in 1 .. Len(fs) /\ y[1] \in 1 .. Len(fs)
        /\ \A z \in all : z[1] \in 1 .. Len(fs)
    BY <1>2, <1>3, <1>7
  <2>2. /\ found[j].of = x[1] /\ found[j].family = FamilyIndex(all, x[1])
        /\ found[k].of = y[1] /\ found[k].family = FamilyIndex(all, y[1])
    BY <1>7
  <2> HIDE DEF x, y
  <2>3. CASE x[1] = y[1]
    BY <2>2, <2>3
  <2>4. ASSUME x[1] < y[1] \/ y[1] < x[1]
        PROVE  FamilyIndex(all, x[1]) # FamilyIndex(all, y[1])
    <3>1. \A n \in 1 .. Len(fs) : FamilyIndex(all, n) \in Nat
      <4>1. ASSUME NEW n \in 1 .. Len(fs) PROVE FamilyIndex(all, n) \in Nat
        <5> DEFINE T == {z[1] : z \in {w \in all : w[1] < n}}
        <5>1. T \in SUBSET (1 .. Len(fs))
          BY <1>3, <2>1
        <5>2. IsFiniteSet(1 .. Len(fs))
          BY <1>3, FS_Interval
        <5> HIDE DEF T
        <5> QED
          BY <5>1, <5>2, FS_Subset, FS_CardinalityType DEF FamilyIndex, T
      <4> QED
        BY <4>1
    <3>2. CASE x[1] < y[1]
      <4>1. FamilyIndex(all, x[1]) < FamilyIndex(all, y[1])
        BY <1>3, <2>1, <3>2, IndexGrows
      <4> QED
        BY <2>1, <3>1, <4>1
    <3>3. CASE y[1] < x[1]
      <4>1. FamilyIndex(all, y[1]) < FamilyIndex(all, x[1])
        BY <1>3, <2>1, <3>3, IndexGrows
      <4> QED
        BY <2>1, <3>1, <4>1
    <3> QED
      BY <2>4, <3>2, <3>3
  <2> QED
    BY <2>1, <2>2, <2>3, <2>4
<1> QED
  BY <1>8, <1>9, <1>10 DEF found

-----------------------------------------------------------------------------
(* What the runners, the order of their repetitions, the reports of their  *)
(* families and what the reporters have been given owe each other.         *)

Looping == {"next", "warm", "measure", "record", "report"}

Batch(i) == Options(i).batch

InstancesRight ==
  /\ session \in Sessions
  /\ families \in Seq(Range(families))
  /\ \A n \in DOMAIN families : Whole(families[n])
  /\ IF pc = "register" THEN Len(families) < Len(session.families)
     ELSE Len(families) = Len(session.families)
  /\ runners \in Seq(Range(runners))
  /\ \A r \in DOMAIN runners :
       /\ runners[r].i.of \in DOMAIN session.families
       /\ runners[r].i.threads \in Nat \ {0}
  /\ \A q, r \in DOMAIN runners :
       runners[q].i.family = runners[r].i.family <=> runners[q].i.of = runners[r].i.of

\* The repetitions of a runner are ahead, under way or done.
TurnsOf(r, s) == Cardinality({k \in DOMAIN s : s[k] = r})
Ahead(r)    == TurnsOf(r, order)
Underway(r) == IF pc \in {"warm", "measure", "record"} /\ current = r THEN 1 ELSE 0
Done(r)     == Len(runners[r].runs)

TurnsRight ==
  /\ \A r \in DOMAIN runners : Done(r) <= runners[r].repeats
  /\ pc \in Looping =>
       /\ order \in Seq(DOMAIN runners)
       /\ pc # "next" => current \in DOMAIN runners
       /\ \A r \in DOMAIN runners : Ahead(r) + Underway(r) + Done(r) = runners[r].repeats
       /\ pc = "report" => Done(current) = runners[current].repeats /\ Done(current) > 0

\* The runs of a runner are numbered, and have run alike unless they skipped.
Reports(r) == [of : {r}, repetition : Nat, skipped : BOOLEAN, iterations : Nat,
               sized : BOOLEAN]
Alike(r)   == r.i.threads * Rounded(r.iters, Batch(r.i))

\* A result is an outcome of the threads, with a complexity_n or without.
Measured(x, iters, i) ==
  /\ x.sized \in BOOLEAN
  /\ [skipped |-> x.skipped, iterations |-> x.iterations] \in Outcomes(iters, i.threads, Batch(i))

RunsRight ==
  /\ pc = "create" => \A r \in DOMAIN runners : runners[r].runs = <<>>
  /\ \A r \in DOMAIN runners :
       /\ runners[r].iters \in Nat
       /\ runners[r].runs \in Seq(Reports(r))
       /\ \A k \in DOMAIN runners[r].runs :
            /\ runners[r].runs[k].repetition = k - 1
            /\ ~runners[r].runs[k].skipped =>
                 runners[r].runs[k].iterations = Alike(runners[r])
  /\ pc = "record" =>
       Measured(result, runners[current].iters, runners[current].i)

\* The reports of a family are those of its runners, until all are done.
Members(f)  == {r \in DOMAIN runners : runners[r].i.family = f}
Finished    == [r \in DOMAIN runners |-> Done(r)]
Through(f)  == UNION {Fine(runners[r].runs) : r \in Members(f)}
AllDone(f)  == \A r \in Members(f) : Finished[r] = Repeats[r]
Closing(f)  == pc = "report" /\ current \in Members(f)

FamilyRight(f) ==
  /\ \A r \in Members(f) : Complexity(runners[r].i)
  /\ perFamily[f] = [total |-> SumFunctionOnSet(Repeats, Members(f)),
                     done  |-> SumFunctionOnSet(Finished, Members(f)),
                     runs  |-> perFamily[f].runs]
  /\ perFamily[f].runs \in Seq(Through(f))
  /\ Range(perFamily[f].runs) = Through(f)
  /\ Len(perFamily[f].runs) = Cardinality(Through(f))
  /\ AllDone(f) => Closing(f) \/ \A r \in Members(f) : Repeats[r] = 0

FamiliesRight ==
  pc \in Looping =>
    /\ \A f \in DOMAIN perFamily : FamilyRight(f)
    /\ \A r \in DOMAIN runners :
         Complexity(runners[r].i) /\ runners[r].i.family \notin DOMAIN perFamily =>
           AllDone(runners[r].i.family) /\ ~Closing(runners[r].i.family)

\* A reporter has been given all of a runner that has been reported, and
\* nothing of the others; and the Big-O of the families that are done.
Reported(r) == Done(r) = runners[r].repeats /\ ~(pc = "report" /\ current = r)
Kinds       == {"run", "statistics", "BigO"}

LogRight ==
  /\ DOMAIN log = session.reporters
  /\ pc \in {"register", "find", "create"} => \A to \in session.reporters : log[to] = <<>>
  /\ pc \in Looping =>
       \A to \in session.reporters :
         /\ log[to] \in Seq(Range(log[to]))
         /\ \A k \in DOMAIN log[to] : log[to][k].of \in DOMAIN runners
         /\ \A r \in DOMAIN runners :
              /\ IF Reported(r) THEN Given(r, to) ELSE Entries(r, Kinds, to) = {}
              /\ IF Complexity(runners[r].i) /\ runners[r].i.family \notin DOMAIN perFamily
                   THEN Computed(runners[r].i.of, to) ELSE BigOs(runners[r].i.of, to) = {}

SessionInv ==
  /\ RunnersRight /\ InstancesRight /\ TurnsRight /\ RunsRight /\ FamiliesRight /\ LogRight
  /\ ReportsRight /\ FailsOnlyAsKnown

-----------------------------------------------------------------------------
(* What a turn of a runner returns, and how many iterations it asks for.   *)

LEMMA OutcomeTypes ==
  ASSUME NEW n \in Nat \ {0}, NEW iters \in Nat, NEW b \in Nat \ {0}, NEW o \in Outcomes(iters, n, b)
  PROVE  /\ o = [skipped |-> o.skipped, iterations |-> o.iterations]
         /\ o.skipped \in BOOLEAN /\ o.iterations \in Nat
         /\ ~o.skipped => o.iterations = n * Rounded(iters, b)
<1>1. Rounded(iters, b) \in Nat
  <2> DEFINE q == (iters + b - 1) \div b
             r == (iters + b - 1) % b
  <2>1. q \in Int /\ r \in 0 .. b - 1 /\ iters + b - 1 = b * q + r
    <3>1. iters + b - 1 \in Int
      OBVIOUS
    <3> QED
      BY <3>1, Division
  <2>2. Rounded(iters, b) = q * b
    BY DEF Rounded
  <2> HIDE DEF q, r
  <2>3. ~(q < 0)
    <3>1. ASSUME q < 0 PROVE FALSE
      <4>1. -1 - q \in Nat
        BY <2>1, <3>1
      <4>2. b * (-1 - q) >= 0
        BY <4>1
      <4>3. b * (-1 - q) = -b - b * q
        BY <2>1
      <4> QED
        BY <2>1, <4>2, <4>3
    <3> QED
      BY <3>1
  <2>4. q \in Nat
    BY <2>1, <2>3
  <2> QED
    BY <2>2, <2>4
<1>2. CASE o = [skipped |-> FALSE, iterations |-> n * Rounded(iters, b)]
  <2> DEFINE m == n * Rounded(iters, b)
  <2>1. m \in Nat
    BY <1>1
  <2> HIDE DEF m
  <2> QED
    BY <1>2, <2>1 DEF m
<1>3. ASSUME NEW f \in [1 .. n -> SkippedCounts(iters, b)],
             o = [skipped |-> TRUE, iterations |-> SumFunction(f)]
      PROVE  /\ o = [skipped |-> o.skipped, iterations |-> o.iterations]
             /\ o.skipped = TRUE /\ o.iterations \in Nat
  <2>1. \A t \in 1 .. n : f[t] \in Nat
    BY <1>1, <1>3 DEF SkippedCounts
  <2>2. IsFiniteSet(1 .. n)
    BY FS_Interval
  <2>3. SumFunctionOnSet(f, 1 .. n) \in Nat
    BY <2>1, <2>2, SumNat
  <2>4. SumFunction(f) \in Nat
    <3>1. DOMAIN f = 1 .. n
      BY <1>3
    <3> QED
      BY <2>3, <3>1 DEF SumFunction
  <2> QED
    BY <1>3, <2>4
<1> QED
  BY <1>2, <1>3 DEF Outcomes

\* The next estimate is more than what has been run.
LEMMA EstimateGrows ==
  ASSUME NEW iters \in Nat, NEW seconds \in Nat, NEW apply \in Nat, iters < kMaxIterations
  PROVE  /\ PredictNumItersNeeded(iters, seconds, apply) \in Nat
         /\ PredictNumItersNeeded(iters, seconds, apply) > iters
<1>1. kMaxIterations \in Nat
  BY RunnerAssumption
<1> DEFINE next == IF 10 * seconds > apply
                     THEN (28 * apply * iters + 10 * seconds) \div (20 * seconds) ELSE 10 * iters
<1>2. next \in Int
  <2>1. CASE 10 * seconds > apply
    <3>1. 20 * seconds \in Nat \ {0} /\ 28 * apply * iters + 10 * seconds \in Int
      <4>1. seconds # 0
        BY <2>1
      <4>2. 28 * apply * iters \in Int
        OBVIOUS
      <4> QED
        BY <4>1, <4>2
    <3> QED
      BY <2>1, <3>1, Division
  <2>2. CASE ~(10 * seconds > apply)
    BY <2>2
  <2> QED
    BY <2>1, <2>2
<1> DEFINE most == Max({next, iters + 1})
<1>3. PredictNumItersNeeded(iters, seconds, apply) = Min({most, kMaxIterations})
  BY DEF PredictNumItersNeeded
<1> HIDE DEF next
<1>4. iters + 1 \in Int
  OBVIOUS
<1>5. most \in {next, iters + 1} /\ most >= iters + 1
  BY <1>2, <1>4, PairBounds
<1> HIDE DEF most
<1>6. most \in Int
  BY <1>2, <1>4, <1>5
<1>7. Min({most, kMaxIterations}) \in {most, kMaxIterations}
  BY <1>1, <1>6, PairBounds
<1> QED
  BY <1>1, <1>3, <1>5, <1>6, <1>7

\* The options of a registered family.
LEMMA OptionTypes ==
  ASSUME InstancesRight, NEW i, i.of \in DOMAIN session.families
  PROVE  /\ MinTime(i) \in Nat /\ MinWarmUpTime(i) \in Nat /\ Batch(i) \in Nat \ {0}
         /\ NewRunner(i).iters \in Nat /\ NewRunner(i).repeats \in Nat
         /\ NewRunner(i).runs = <<>>
         /\ Complexity(i) \in BOOLEAN /\ Options(i).sizes \in SUBSET BOOLEAN
<1>1. LegalSession(session) /\ kDefaultMinTime \in Nat
  BY RunnerAssumption DEF InstancesRight
<1> DEFINE f == Options(i)
<1>2. f \in Range(session.families)
  BY DEF Options, Range
<1> HIDE DEF f
<1>3. /\ session.minTime \in Nat /\ session.warmUp \in Nat /\ session.iters \in Nat
      /\ session.repetitions \in Nat
  BY <1>1 DEF LegalSession
<1>4. /\ f.minTime \in Nat /\ f.iterations \in Nat /\ f.repetitions \in Nat
      /\ f.warmUp \in Int /\ f.batch \in Nat \ {0} /\ f.complexity \in BOOLEAN
      /\ f.sizes \in SUBSET BOOLEAN
  BY <1>1, <1>2 DEF LegalSession
<1> QED
  BY <1>1, <1>3, <1>4 DEF MinTime, MinWarmUpTime, Batch, NewRunner, Complexity, f

LEMMA RunnerTypes ==
  ASSUME RunnersRight, InstancesRight, RunsRight, NEW r \in DOMAIN runners
  PROVE  /\ runners[r].i.of \in DOMAIN session.families
         /\ runners[r].i.threads \in Nat \ {0} /\ runners[r].iters \in Nat
         /\ runners[r].repeats \in Nat /\ runners[r].runs \in Seq(Reports(r))
         /\ Batch(runners[r].i) \in Nat \ {0} /\ Complexity(runners[r].i) \in BOOLEAN
         /\ Done(r) \in Nat
         /\ runners[r] = [i |-> runners[r].i, warm |-> runners[r].warm,
                          repeats |-> runners[r].repeats, iters |-> runners[r].iters,
                          runs |-> runners[r].runs]
<1>1. Runner(runners[r], NewRunner(runners[r].i))
  BY DEF RunnersRight
<1>2. runners[r].i.of \in DOMAIN session.families
  BY DEF InstancesRight
<1>3. NewRunner(runners[r].i).repeats \in Nat
  BY <1>2, OptionTypes
<1>4. Batch(runners[r].i) \in Nat \ {0} /\ Complexity(runners[r].i) \in BOOLEAN
  BY <1>2, OptionTypes
<1>5. runners[r].iters \in Nat /\ runners[r].runs \in Seq(Reports(r))
  BY DEF RunsRight
<1>6. runners[r].i.threads \in Nat \ {0}
  BY DEF InstancesRight
<1>7. Done(r) \in Nat
  BY <1>5 DEF Done
<1> QED
  BY <1>1, <1>2, <1>3, <1>4, <1>5, <1>6, <1>7 DEF Runner

\* What a turn of the runner r comes to.
LEMMA ResultTypes ==
  ASSUME RunnersRight, InstancesRight, RunsRight, NEW r \in DOMAIN runners,
         NEW x \in IterationResults(runners[r])
  PROVE  /\ x.outcome \in Outcomes(runners[r].iters, runners[r].i.threads, Batch(runners[r].i))
         /\ x.iters \in Nat /\ x.seconds \in Nat
<1>1. PICK o \in Outcomes(runners[r].iters, runners[r].i.threads, Options(runners[r].i).batch),
           s \in Times, t \in Times :
        x = [outcome |-> o, iters |-> o.iterations \div runners[r].i.threads,
             seconds |-> s, real |-> t]
  BY DEF IterationResults
<1>2. s \in Nat
  BY RunnerAssumption
<1> DEFINE n == runners[r].i.threads
<1>3. n \in Nat \ {0} /\ o.iterations \in Nat
  BY <1>1, RunnerTypes, OutcomeTypes DEF Batch
<1> HIDE DEF n
<1>4. o.iterations \div n \in Nat
  <2> DEFINE total == o.iterations
             q == total \div n
             m == total % n
  <2>1. q \in Int /\ m \in 0 .. n - 1 /\ total = n * q + m
    <3>1. total \in Int
      BY <1>3
    <3> HIDE DEF total
    <3> QED
      BY <1>3, <3>1, Division
  <2> HIDE DEF q, m
  <2>2. ASSUME q < 0 PROVE FALSE
    <3>1. -1 - q \in Nat
      BY <2>1, <2>2
    <3>2. n * (-1 - q) >= 0
      BY <1>3, <3>1
    <3>3. n * (-1 - q) = -n - n * q
      BY <1>3, <2>1
    <3> QED
      BY <1>3, <2>1, <3>2, <3>3
  <2> QED
    BY <2>1, <2>2 DEF q
<1> QED
  BY <1>1, <1>2, <1>4 DEF n, Batch

-----------------------------------------------------------------------------
(* The turns of the warm-up and of the measurement.                        *)

\* They change nothing of a runner that the others know of, and never end in a
\* failed assertion.
Quiet ==
  /\ UNCHANGED <<session, families, order, current, perFamily, log>>
  /\ pc \in {"warm", "measure"} /\ pc' \in {"warm", "measure", "record"}
  /\ DOMAIN runners' = DOMAIN runners /\ runners' \in Seq(Range(runners'))
  /\ \A r \in DOMAIN runners :
       /\ runners'[r].i = runners[r].i /\ runners'[r].repeats = runners[r].repeats
       /\ runners'[r].runs = runners[r].runs
       /\ runners'[r].iters \in Nat
       /\ runners'[r].iters # runners[r].iters => runners[r].runs = <<>>
  /\ pc' = "record" =>
       /\ runners' = runners
       /\ Measured(result', runners[current].iters, runners[current].i)

LEMMA Sequel ==
  ASSUME RunnersRight, InstancesRight, RunsRight, NEW r \in DOMAIN runners,
         NEW x \in IterationResults(runners[r]), NEW apply \in Nat,
         ~ShouldReportIterationResults(runners[r].i, x, apply)
  PROVE  /\ PredictNumItersNeeded(x.iters, x.seconds, apply) \in Nat
         /\ PredictNumItersNeeded(x.iters, x.seconds, apply) > x.iters
<1>1. x.iters \in Nat /\ x.seconds \in Nat
  BY ResultTypes
<1>2. x.iters < kMaxIterations
  BY <1>1, RunnerAssumption DEF ShouldReportIterationResults
<1> QED
  BY <1>1, <1>2, EstimateGrows

\* A runner of which other fields than these change.
LEMMA OthersKept ==
  ASSUME NEW r, NEW next,
         r = [i |-> r.i, warm |-> r.warm, repeats |-> r.repeats, iters |-> r.iters, runs |-> r.runs]
  PROVE  /\ [r EXCEPT !.iters = next].i = r.i /\ [r EXCEPT !.iters = next].repeats = r.repeats
         /\ [r EXCEPT !.iters = next].runs = r.runs /\ [r EXCEPT !.iters = next].iters = next
         /\ FinishWarmUp(r, next).i = r.i /\ FinishWarmUp(r, next).repeats = r.repeats
         /\ FinishWarmUp(r, next).runs = r.runs /\ FinishWarmUp(r, next).iters = next
         /\ [r EXCEPT !.runs = next].i = r.i /\ [r EXCEPT !.runs = next].repeats = r.repeats
         /\ [r EXCEPT !.runs = next].runs = next /\ [r EXCEPT !.runs = next].iters = r.iters
<1>1. PICK a, b, c, d, e : r = [i |-> a, warm |-> b, repeats |-> c, iters |-> d, runs |-> e]
  OBVIOUS
<1> QED
  BY <1>1 DEF FinishWarmUp

LEMMA StillRunners ==
  ASSUME InstancesRight, NEW new, runners' = [runners EXCEPT ![current] = new]
  PROVE  DOMAIN runners' = DOMAIN runners /\ runners' \in Seq(Range(runners'))
<1>1. DOMAIN runners = 1 .. Len(runners) /\ Len(runners) \in Nat
  BY DEF InstancesRight
<1>2. runners' = [k \in 1 .. Len(runners) |-> runners'[k]]
  BY <1>1
<1> QED
  BY <1>1, <1>2, SeqMade

LEMMA WarmQuiet ==
  ASSUME RunnersRight, InstancesRight, TurnsRight, RunsRight, Warm
  PROVE  Quiet
<1> DEFINE r == runners[current]
           apply == MinWarmUpTime(r.i)
<1>1. current \in DOMAIN runners /\ pc = "warm"
  BY DEF TurnsRight, Warm, Looping
<1>2. /\ r.i.of \in DOMAIN session.families /\ r.iters \in Nat
      /\ r = [i |-> r.i, warm |-> r.warm, repeats |-> r.repeats, iters |-> r.iters, runs |-> r.runs]
  BY <1>1, RunnerTypes
<1>3. apply \in Nat /\ NewRunner(r.i).iters \in Nat
  BY <1>2, OptionTypes
<1>4. r.runs = <<>>
  BY <1>1 DEF RunnersRight, Runner
<1>5. PICK x \in IterationResults(r) :
        LET next == PredictNumItersNeeded(x.iters, x.seconds, apply)
        IN  IF ShouldReportIterationResults(r.i, x, apply)
              THEN /\ runners' = [runners EXCEPT ![current] = FinishWarmUp(r, NewRunner(r.i).iters)]
                   /\ pc' = "measure"
              ELSE /\ runners' = [runners EXCEPT ![current].iters = next]
                   /\ pc' = Checked(next > x.iters, pc)
  BY DEF Warm
<1>6. /\ UNCHANGED <<session, families, order, current, perFamily, log>>
      /\ UNCHANGED result
  BY DEF Warm
<1>7. PICK new : /\ runners' = [runners EXCEPT ![current] = new]
                 /\ new.i = r.i /\ new.repeats = r.repeats /\ new.runs = r.runs
                 /\ new.iters \in Nat /\ pc' \in {"warm", "measure"}
  <2>1. CASE ShouldReportIterationResults(r.i, x, apply)
    <3> DEFINE new == FinishWarmUp(r, NewRunner(r.i).iters)
    <3>1. new.i = r.i /\ new.repeats = r.repeats /\ new.runs = r.runs /\ new.iters \in Nat
      <4> HIDE DEF r
      <4> QED
        BY <1>2, <1>3, OthersKept
    <3>2. runners' = [runners EXCEPT ![current] = new] /\ pc' = "measure"
      BY <1>5, <2>1
    <3> QED
      BY <3>1, <3>2
  <2>2. CASE ~ShouldReportIterationResults(r.i, x, apply)
    <3> DEFINE next == PredictNumItersNeeded(x.iters, x.seconds, apply)
               new == [r EXCEPT !.iters = next]
    <3>1. next \in Nat /\ next > x.iters
      <4> HIDE DEF apply
      <4> QED
        BY <1>1, <1>3, <2>2, Sequel
    <3>2. runners' = [runners EXCEPT ![current] = new] /\ pc' = "warm"
      BY <1>1, <1>5, <2>2, <3>1 DEF Checked
    <3> HIDE DEF next
    <3>3. new.i = r.i /\ new.repeats = r.repeats /\ new.runs = r.runs /\ new.iters = next
      <4> HIDE DEF r
      <4> QED
        BY <1>2, OthersKept
    <3> QED
      BY <3>1, <3>2, <3>3
  <2> QED
    BY <2>1, <2>2
<1>8. DOMAIN runners' = DOMAIN runners /\ runners' \in Seq(Range(runners'))
  BY <1>7, StillRunners
<1>9. ASSUME NEW q \in DOMAIN runners
      PROVE  /\ runners'[q].i = runners[q].i /\ runners'[q].repeats = runners[q].repeats
             /\ runners'[q].runs = runners[q].runs /\ runners'[q].iters \in Nat
             /\ runners'[q].iters # runners[q].iters => runners[q].runs = <<>>
  <2>1. CASE q = current
    <3>1. runners'[q] = new
      BY <1>1, <1>7, <2>1
    <3> QED
      BY <1>4, <1>7, <2>1, <3>1
  <2>2. CASE q # current
    <3>1. runners'[q] = runners[q]
      BY <1>7, <2>2
    <3> QED
      BY <3>1, RunnerTypes
  <2> QED
    BY <2>1, <2>2
<1>10. pc' # "record" /\ pc' \in {"warm", "measure", "record"}
  BY <1>7
<1> HIDE DEF r
<1> QED
  BY <1>1, <1>6, <1>8, <1>9, <1>10 DEF Quiet

LEMMA MeasureQuiet ==
  ASSUME RunnersRight, InstancesRight, TurnsRight, RunsRight, Measure
  PROVE  Quiet
<1> DEFINE r == runners[current]
           apply == MinTime(r.i)
<1>1. current \in DOMAIN runners /\ pc = "measure"
  BY DEF TurnsRight, Measure, Looping
<1>2. /\ r.i.of \in DOMAIN session.families /\ r.iters \in Nat
      /\ r = [i |-> r.i, warm |-> r.warm, repeats |-> r.repeats, iters |-> r.iters, runs |-> r.runs]
  BY <1>1, RunnerTypes
<1>3. apply \in Nat
  BY <1>2, OptionTypes
<1>4. PICK x \in IterationResults(r) :
        LET next == PredictNumItersNeeded(x.iters, x.seconds, apply)
        IN  IF \/ r.runs # <<>> \/ Explicit(r.i)
               \/ ShouldReportIterationResults(r.i, x, apply)
              THEN /\ \E sized \in Options(r.i).sizes :
                        result' = [skipped |-> x.outcome.skipped,
                                   iterations |-> x.outcome.iterations, sized |-> sized]
                   /\ runners' = runners
                   /\ pc' = "record"
              ELSE /\ result' = result
                   /\ runners' = [runners EXCEPT ![current].iters = next]
                   /\ pc' = Checked(next > x.iters, pc)
  BY DEF Measure
<1>5. UNCHANGED <<session, families, order, current, perFamily, log>>
  BY DEF Measure
<1>6. CASE r.runs # <<>> \/ Explicit(r.i) \/ ShouldReportIterationResults(r.i, x, apply)
  <2>1. /\ runners' = runners /\ pc' = "record"
        /\ \E sized \in Options(r.i).sizes :
             result' = [skipped |-> x.outcome.skipped,
                        iterations |-> x.outcome.iterations, sized |-> sized]
    BY <1>4, <1>6
  <2>2. Measured(result', r.iters, r.i)
    <3>1. x.outcome \in Outcomes(r.iters, r.i.threads, Batch(r.i))
      BY <1>1, ResultTypes
    <3>2. /\ Batch(r.i) \in Nat \ {0} /\ Options(r.i).sizes \in SUBSET BOOLEAN
          /\ r.i.threads \in Nat \ {0} /\ r.iters \in Nat
      BY <1>1, <1>2, OptionTypes, RunnerTypes
    <3> HIDE DEF r
    <3>3. x.outcome = [skipped |-> x.outcome.skipped, iterations |-> x.outcome.iterations]
      BY <3>1, <3>2, OutcomeTypes
    <3>4. PICK sized \in Options(r.i).sizes :
            result' = [skipped |-> x.outcome.skipped,
                       iterations |-> x.outcome.iterations, sized |-> sized]
      BY <2>1
    <3>5. /\ result'.skipped = x.outcome.skipped /\ result'.iterations = x.outcome.iterations
          /\ result'.sized = sized
      BY <3>4
    <3> QED
      BY <3>1, <3>2, <3>3, <3>5 DEF Measured
  <2>3. /\ \A q \in DOMAIN runners : runners[q].iters \in Nat
        /\ runners \in Seq(Range(runners)) /\ Range(runners') = Range(runners)
    BY <2>1, RunnerTypes DEF InstancesRight
  <2> HIDE DEF apply
  <2> QED
    BY <1>1, <1>5, <2>1, <2>2, <2>3 DEF Quiet
<1>7. CASE ~(r.runs # <<>> \/ Explicit(r.i) \/ ShouldReportIterationResults(r.i, x, apply))
  <2> DEFINE next == PredictNumItersNeeded(x.iters, x.seconds, apply)
             new == [r EXCEPT !.iters = next]
  <2>1. next \in Nat /\ next > x.iters
    <3> HIDE DEF apply
    <3> QED
      BY <1>1, <1>3, <1>7, Sequel
  <2>2. runners' = [runners EXCEPT ![current] = new] /\ pc' = "measure"
    BY <1>1, <1>4, <1>7, <2>1 DEF Checked
  <2> HIDE DEF next
  <2>3. new.i = r.i /\ new.repeats = r.repeats /\ new.runs = r.runs /\ new.iters = next
    <3> HIDE DEF r
    <3> QED
      BY <1>2, OthersKept
  <2> HIDE DEF new
  <2>4. DOMAIN runners' = DOMAIN runners /\ runners' \in Seq(Range(runners'))
    BY <2>2, StillRunners
  <2>5. ASSUME NEW q \in DOMAIN runners
        PROVE  /\ runners'[q].i = runners[q].i /\ runners'[q].repeats = runners[q].repeats
               /\ runners'[q].runs = runners[q].runs /\ runners'[q].iters \in Nat
               /\ runners'[q].iters # runners[q].iters => runners[q].runs = <<>>
    <3>1. CASE q = current
      <4>1. runners'[q] = new
        BY <1>1, <2>2, <3>1
      <4> QED
        BY <1>7, <2>1, <2>3, <3>1, <4>1
    <3>2. CASE q # current
      <4>1. runners'[q] = runners[q]
        BY <2>2, <3>2
      <4> QED
        BY <4>1, RunnerTypes
    <3> QED
      BY <3>1, <3>2
  <2>6. pc' # "record" /\ pc' \in {"warm", "measure", "record"}
    BY <2>2
  <2> HIDE DEF r
  <2> QED
    BY <1>1, <1>5, <2>4, <2>5, <2>6 DEF Quiet
<1> QED
  BY <1>6, <1>7

\* What the end of a repetition changes.
LEMMA RecordFacts ==
  ASSUME RunnersRight, InstancesRight, TurnsRight, RunsRight, Record
  PROVE  /\ UNCHANGED <<session, families, order, current, log>>
         /\ pc = "record" /\ current \in DOMAIN runners
         /\ pc' = IF Done(current) + 1 # runners[current].repeats THEN "next" ELSE "report"
         /\ DOMAIN runners' = DOMAIN runners /\ runners' \in Seq(Range(runners'))
         /\ \A r \in DOMAIN runners :
              /\ runners'[r].i = runners[r].i /\ runners'[r].repeats = runners[r].repeats
              /\ runners'[r].iters = runners[r].iters
              /\ r # current => runners'[r].runs = runners[r].runs
         /\ runners'[current].runs = Append(runners[current].runs, CreateRunReport(runners[current]))
         /\ CreateRunReport(runners[current]) \in Reports(current)
         /\ CreateRunReport(runners[current]).repetition = Done(current)
         /\ ~CreateRunReport(runners[current]).skipped =>
              CreateRunReport(runners[current]).iterations = Alike(runners[current])
         /\ perFamily' = IF ~Complexity(runners[current].i) THEN perFamily
                         ELSE [perFamily EXCEPT ![runners[current].i.family] =
                                 Take(@, CreateRunReport(runners[current]))]
<1> DEFINE r == runners[current]
           run == CreateRunReport(r)
           more == Append(r.runs, run)
           new == [r EXCEPT !.runs = more]
<1>1. UNCHANGED <<session, families, order, current, log>> /\ pc = "record"
  BY DEF Record
<1>2. current \in DOMAIN runners
  BY <1>1 DEF TurnsRight, Looping
<1>3. /\ r.i.threads \in Nat \ {0} /\ r.iters \in Nat /\ Batch(r.i) \in Nat \ {0}
      /\ Done(current) \in Nat /\ r.runs \in Seq(Reports(current))
      /\ r = [i |-> r.i, warm |-> r.warm, repeats |-> r.repeats, iters |-> r.iters, runs |-> r.runs]
  BY <1>2, RunnerTypes
<1>4. Measured(result, r.iters, r.i)
  BY <1>1 DEF RunsRight
<1>5. /\ result.skipped \in BOOLEAN /\ result.iterations \in Nat /\ result.sized \in BOOLEAN
      /\ ~result.skipped => result.iterations = Alike(r)
  <2> DEFINE o == [skipped |-> result.skipped, iterations |-> result.iterations]
  <2> HIDE DEF r
  <2>1. o \in Outcomes(r.iters, r.i.threads, Batch(r.i)) /\ result.sized \in BOOLEAN
    BY <1>4 DEF Measured
  <2>2. o.skipped = result.skipped /\ o.iterations = result.iterations
    OBVIOUS
  <2> HIDE DEF o
  <2>3. /\ o.skipped \in BOOLEAN /\ o.iterations \in Nat
        /\ ~o.skipped => o.iterations = r.i.threads * Rounded(r.iters, Batch(r.i))
    BY <1>3, <2>1, OutcomeTypes
  <2> QED
    BY <2>1, <2>2, <2>3 DEF Alike
<1>6. run = [of |-> current, repetition |-> Done(current), skipped |-> result.skipped,
             iterations |-> result.iterations, sized |-> result.sized /\ ~result.skipped]
  BY DEF CreateRunReport, Done
<1>7. /\ run \in Reports(current) /\ run.repetition = Done(current)
      /\ ~run.skipped => run.iterations = Alike(r)
  <2> HIDE DEF run, r
  <2> QED
    BY <1>3, <1>5, <1>6 DEF Reports
<1>8. runners' = [runners EXCEPT ![current] = new]
  BY DEF Record
<1>9. new.i = r.i /\ new.repeats = r.repeats /\ new.runs = more /\ new.iters = r.iters
  <2> HIDE DEF r, more
  <2> QED
    BY <1>3, OthersKept
<1> HIDE DEF new
<1>10. DOMAIN runners' = DOMAIN runners /\ runners' \in Seq(Range(runners'))
  BY <1>8, StillRunners
<1>11. runners'[current].runs = more
  BY <1>2, <1>8, <1>9
<1>12. ASSUME NEW q \in DOMAIN runners
       PROVE  /\ runners'[q].i = runners[q].i /\ runners'[q].repeats = runners[q].repeats
              /\ runners'[q].iters = runners[q].iters
              /\ q # current => runners'[q].runs = runners[q].runs
  <2>1. CASE q = current
    <3>1. runners'[q] = new
      BY <1>2, <1>8, <2>1
    <3> QED
      BY <1>9, <2>1, <3>1
  <2>2. CASE q # current
    <3>1. runners'[q] = runners[q]
      BY <1>8, <2>2
    <3> QED
      BY <2>2, <3>1
  <2> QED
    BY <2>1, <2>2
<1>13. pc' = IF Done(current) + 1 # r.repeats THEN "next" ELSE "report"
  BY DEF Record, Done
<1>14. perFamily' = IF ~Complexity(r.i) THEN perFamily
                    ELSE [perFamily EXCEPT ![r.i.family] = Take(@, run)]
  BY DEF Record
<1> QED
  BY <1>1, <1>2, <1>7, <1>10, <1>11, <1>12, <1>13, <1>14

-----------------------------------------------------------------------------
(* Families, instances and turns.                                          *)

LEMMA RegisterInv == ASSUME RunnersRight, InstancesRight, Register PROVE InstancesRight'
<1> DEFINE f == session.families[Len(families) + 1]
           new == [Build(f.calls) EXCEPT !.disabled = f.disabled]
<1>1. /\ UNCHANGED <<session, runners>> /\ pc = "register" /\ runners = <<>>
      /\ families' = Append(families, new)
      /\ pc' = IF Len(families') = Len(session.families) THEN "find" ELSE pc
  BY DEF Register, RunnersRight
<1>2. /\ families \in Seq(Range(families)) /\ Len(families) \in Nat
      /\ Len(families) < Len(session.families) /\ session \in Sessions
      /\ \A n \in DOMAIN families : Whole(families[n])
  BY <1>1 DEF InstancesRight
<1>3. LegalSession(session)
  BY <1>2, RunnerAssumption
<1>4. session.families \in Seq(Range(session.families)) /\ Len(session.families) \in Nat
  BY <1>3 DEF LegalSession
<1>5. f \in Range(session.families)
  <2>1. Len(families) + 1 \in DOMAIN session.families
    BY <1>2, <1>4
  <2> QED
    BY <2>1 DEF Range
<1>6. f.calls \in Seq(Range(f.calls)) /\ LegalCalls(f.calls)
  BY <1>3, <1>5 DEF LegalSession
<1>7. Whole(new)
  <2> DEFINE b == Build(f.calls)
  <2>1. IsBenchmark(b)
    BY <1>6, BuildType
  <2> HIDE DEF f, b
  <2>2. PICK u, v, w, x, y : b = [args |-> u, argNames |-> v, threads |-> w, mult |-> x, disabled |-> y]
    BY <2>1 DEF IsBenchmark
  <2>3. new = [b EXCEPT !.disabled = f.disabled]
    BY DEF b
  <2> HIDE DEF new
  <2>4. new.args = b.args /\ new.threads = b.threads
    BY <2>2, <2>3
  <2> QED
    BY <2>1, <2>4 DEF IsBenchmark, Whole
<1> HIDE DEF new, f
<1>8. /\ families' \in Seq(Range(families')) /\ Len(families') = Len(families) + 1
  BY <1>1, <1>2, SeqMore
<1>9. ASSUME NEW n \in DOMAIN families' PROVE Whole(families'[n])
  <2>1. n \in 1 .. Len(families) + 1
    BY <1>8
  <2>2. families'[n] = IF n = Len(families) + 1 THEN new ELSE families[n]
    BY <1>1, <1>2, <2>1
  <2>3. n # Len(families) + 1 => n \in DOMAIN families
    BY <1>2, <2>1
  <2> QED
    BY <1>2, <1>7, <2>2, <2>3
<1>10. IF pc' = "register" THEN Len(families') < Len(session.families)
       ELSE Len(families') = Len(session.families)
  BY <1>1, <1>2, <1>4, <1>8
<1>11. runners' \in Seq(Range(runners')) /\ runners' = <<>>
  BY <1>1
<1> QED
  BY <1>1, <1>2, <1>8, <1>9, <1>10, <1>11 DEF InstancesRight

LEMMA FindInstances == ASSUME InstancesRight, Find PROVE InstancesRight'
<1> DEFINE found == FindBenchmarks(families, session.filter)
<1>1. /\ UNCHANGED <<session, families>> /\ pc = "find" /\ pc' \in {"done", "create"}
      /\ runners' = [k \in DOMAIN found |-> NewRunner(found[k])]
  BY DEF Find
<1>2. /\ families \in Seq(Range(families)) /\ \A n \in DOMAIN families : Whole(families[n])
      /\ Len(families) = Len(session.families) /\ session \in Sessions
  BY <1>1 DEF InstancesRight
<1>3. /\ found \in Seq(Range(found))
      /\ \A k \in DOMAIN found : /\ found[k].of \in DOMAIN families
                                 /\ found[k].threads \in Nat \ {0}
      /\ \A j, k \in DOMAIN found :
           found[j].family = found[k].family <=> found[j].of = found[k].of
  BY <1>2, FoundInstances
<1> HIDE DEF found
<1>4. DOMAIN families = DOMAIN session.families
  <2>1. session.families \in Seq(Range(session.families))
    BY <1>2, RunnerAssumption DEF LegalSession
  <2> QED
    BY <1>2, <2>1
<1>5. DOMAIN runners' = DOMAIN found /\ \A k \in DOMAIN found : runners'[k].i = found[k]
  BY <1>1 DEF NewRunner
<1>6. runners' \in Seq(Range(runners'))
  <2>1. DOMAIN found = 1 .. Len(found) /\ Len(found) \in Nat
    BY <1>3
  <2>2. runners' = [k \in 1 .. Len(found) |-> runners'[k]]
    BY <1>1, <2>1
  <2> QED
    BY <1>5, <2>1, <2>2, SeqMade
<1> QED
  BY <1>1, <1>2, <1>3, <1>4, <1>5, <1>6 DEF InstancesRight

LEMMA InstancesKept ==
  ASSUME InstancesRight, UNCHANGED <<session, families>>,
         DOMAIN runners' = DOMAIN runners, runners' \in Seq(Range(runners')),
         \A r \in DOMAIN runners : runners'[r].i = runners[r].i,
         pc # "register", pc' # "register"
  PROVE  InstancesRight'
<1>1. ASSUME NEW r \in DOMAIN runners'
      PROVE  /\ runners'[r].i.of \in DOMAIN session.families
             /\ runners'[r].i.threads \in Nat \ {0}
  BY <1>1 DEF InstancesRight
<1>2. ASSUME NEW q \in DOMAIN runners', NEW r \in DOMAIN runners'
      PROVE  runners'[q].i.family = runners'[r].i.family <=> runners'[q].i.of = runners'[r].i.of
  <2>1. runners'[q].i = runners[q].i /\ runners'[r].i = runners[r].i
    BY <1>2
  <2> QED
    BY <2>1 DEF InstancesRight
<1>3. /\ session' \in Sessions /\ families' \in Seq(Range(families'))
      /\ \A n \in DOMAIN families' : Whole(families'[n])
      /\ Len(families') = Len(session'.families)
  BY DEF InstancesRight
<1> QED
  BY <1>1, <1>2, <1>3 DEF InstancesRight

LEMMA InstancesNext ==
  ASSUME RunnersRight, InstancesRight, TurnsRight, RunsRight, [Next]_vars
  PROVE  InstancesRight'
<1>1. CASE Register
  BY <1>1, RegisterInv
<1>2. CASE Find
  BY <1>2, FindInstances
<1>3. CASE Warm \/ Measure
  BY <1>3, WarmQuiet, MeasureQuiet, InstancesKept DEF Quiet
<1>4. CASE Record
  BY <1>4, RecordFacts, InstancesKept
<1>5. CASE Create \/ Begin \/ Finish \/ End
  <2>1. UNCHANGED <<session, families, runners>> /\ pc # "register" /\ pc' # "register"
    BY <1>5 DEF Create, Begin, Finish, End, StatsEnd, BigOEnd, Checked
  <2>2. runners \in Seq(Range(runners))
    BY DEF InstancesRight
  <2> QED
    BY <2>1, <2>2, InstancesKept
<1>6. CASE UNCHANGED vars
  BY <1>6 DEF vars, InstancesRight
<1> QED
  BY <1>1, <1>2, <1>3, <1>4, <1>5, <1>6 DEF Next

-----------------------------------------------------------------------------
(* Whose turn it is.                                                       *)

LEMMA Counted ==
  ASSUME NEW S, NEW s \in Seq(S), NEW r
  PROVE  /\ IsFiniteSet({k \in DOMAIN s : s[k] = r})
         /\ Cardinality({k \in DOMAIN s : s[k] = r}) \in Nat
<1>1. IsFiniteSet(1 .. Len(s)) /\ DOMAIN s = 1 .. Len(s)
  <2>1. Len(s) \in Int /\ 1 \in Int /\ DOMAIN s = 1 .. Len(s)
    OBVIOUS
  <2> QED
    BY <2>1, FS_Interval
<1>2. {k \in DOMAIN s : s[k] = r} \in SUBSET (1 .. Len(s))
  BY <1>1
<1> QED
  BY <1>1, <1>2, FS_Subset, FS_CardinalityType

LEMMA CountedAfterHead ==
  ASSUME NEW S, NEW s \in Seq(S), s # <<>>, NEW r
  PROVE  TurnsOf(r, s) = TurnsOf(r, Tail(s)) + (IF Head(s) = r THEN 1 ELSE 0)
<1> DEFINE T == {k \in DOMAIN Tail(s) : Tail(s)[k] = r}
           U == {k \in DOMAIN s : k # 1 /\ s[k] = r}
           C == {k \in DOMAIN s : s[k] = r}
           f == [k \in T |-> k + 1]
<1>1. /\ Tail(s) \in Seq(S) /\ Len(Tail(s)) = Len(s) - 1 /\ Len(s) \in Nat \ {0}
      /\ DOMAIN s = 1 .. Len(s) /\ DOMAIN Tail(s) = 1 .. Len(s) - 1
      /\ \A k \in 1 .. Len(s) - 1 : Tail(s)[k] = s[k + 1]
      /\ Head(s) = s[1]
  BY HeadTailProperties
<1>2. f \in Bijection(T, U)
  <2>1. f \in [T -> U]
    BY <1>1
  <2>2. \A a, b \in T : f[a] = f[b] => a = b
    <3>1. T \subseteq Int
      BY <1>1
    <3> QED
      BY <3>1
  <2>3. ASSUME NEW u \in U PROVE \E t \in T : f[t] = u
    <3>1. u - 1 \in T /\ f[u - 1] = u
      BY <1>1
    <3> QED
      BY <3>1
  <2> HIDE DEF f, T, U
  <2> QED
    BY <2>1, <2>2, <2>3 DEF Bijection, Injection, Surjection, IsInjective
<1>3. IsFiniteSet(T)
  BY <1>1, Counted
<1>4. IsFiniteSet(U) /\ Cardinality(U) = Cardinality(T)
  <2>1. ExistsBijection(T, U)
    <3> HIDE DEF f, T, U
    <3> QED
      BY <1>2 DEF ExistsBijection
  <2> HIDE DEF T, U
  <2> QED
    BY <1>3, <2>1, FS_Bijection
<1>5. CASE s[1] = r
  <2>1. C = U \cup {1} /\ 1 \notin U
    BY <1>1, <1>5
  <2> HIDE DEF C, U, T
  <2>2. Cardinality(C) = Cardinality(T) + 1
    BY <1>4, <2>1, FS_AddElement
  <2> QED
    BY <1>1, <1>5, <2>2 DEF C, T, TurnsOf
<1>6. CASE s[1] # r
  <2>1. C = U
    BY <1>1, <1>6
  <2>2. Cardinality(T) \in Nat
    BY <1>3, FS_CardinalityType
  <2>3. Cardinality(C) = Cardinality(T) + 0
    <3> HIDE DEF C, U, T
    <3> QED
      BY <1>4, <2>1, <2>2
  <2> QED
    BY <1>1, <1>6, <2>3 DEF TurnsOf
<1> QED
  BY <1>5, <1>6

LEMMA TurnTypes ==
  ASSUME RunnersRight, InstancesRight, TurnsRight, RunsRight, pc \in Looping,
         NEW r \in DOMAIN runners
  PROVE  /\ Ahead(r) \in Nat /\ Underway(r) \in Nat /\ Done(r) \in Nat
         /\ runners[r].repeats \in Nat
         /\ Ahead(r) + Underway(r) + Done(r) = runners[r].repeats
<1>1. order \in Seq(DOMAIN runners)
  BY DEF TurnsRight
<1>2. Ahead(r) \in Nat
  BY <1>1, Counted DEF Ahead, TurnsOf
<1> QED
  BY <1>2, RunnerTypes DEF TurnsRight, Underway

LEMMA CreateTurns ==
  ASSUME RunnersRight, InstancesRight, TurnsRight, RunsRight, Create
  PROVE  TurnsRight'
<1>1. /\ UNCHANGED <<session, runners>> /\ pc = "create" /\ pc' = "next"
  BY DEF Create
<1>2. PICK indices \in [1 .. SumFunction(Repeats) -> DOMAIN runners] :
        /\ \A r \in DOMAIN runners :
             Cardinality({k \in DOMAIN indices : indices[k] = r}) = Repeats[r]
        /\ order' = indices
  BY DEF Create
<1>3. SumFunction(Repeats) \in Nat
  <2>1. DOMAIN Repeats = DOMAIN runners /\ \A r \in DOMAIN runners : Repeats[r] \in Nat
    BY RunnerTypes DEF Repeats
  <2>2. IsFiniteSet(DOMAIN runners)
    <3>1. DOMAIN runners = 1 .. Len(runners) /\ Len(runners) \in Int /\ 1 \in Int
      BY DEF InstancesRight
    <3> QED
      BY <3>1, FS_Interval
  <2> QED
    BY <2>1, <2>2, SumNat DEF SumFunction
<1>4. order' \in Seq(DOMAIN runners)
  BY <1>2, <1>3
<1>5. ASSUME NEW r \in DOMAIN runners
      PROVE  /\ Ahead(r)' + Underway(r)' + Done(r)' = runners[r].repeats
             /\ Done(r)' <= runners[r].repeats
  <2>1. Ahead(r)' = runners[r].repeats
    BY <1>2 DEF Ahead, TurnsOf, Repeats
  <2>2. Underway(r)' = 0
    BY <1>1 DEF Underway
  <2>3. Done(r)' = 0
    <3>1. runners[r].runs = <<>>
      BY <1>1 DEF RunsRight
    <3> QED
      BY <1>1, <3>1 DEF Done
  <2>4. runners[r].repeats \in Nat
    BY RunnerTypes
  <2> QED
    BY <2>1, <2>2, <2>3, <2>4
<1> QED
  BY <1>1, <1>4, <1>5 DEF TurnsRight

LEMMA BeginTurns ==
  ASSUME RunnersRight, InstancesRight, TurnsRight, RunsRight, Begin
  PROVE  TurnsRight'
<1>1. /\ UNCHANGED <<session, runners>> /\ pc = "next" /\ pc' \in {"warm", "measure"}
      /\ order # <<>> /\ current' = Head(order) /\ order' = Tail(order)
  BY DEF Begin
<1>2. order \in Seq(DOMAIN runners)
  BY <1>1 DEF TurnsRight, Looping
<1>3. order' \in Seq(DOMAIN runners) /\ current' \in DOMAIN runners
  BY <1>1, <1>2
<1>4. ASSUME NEW r \in DOMAIN runners
      PROVE  /\ Ahead(r)' + Underway(r)' + Done(r)' = runners[r].repeats
             /\ Done(r)' <= runners[r].repeats
  <2>1. Ahead(r) = Ahead(r)' + (IF current' = r THEN 1 ELSE 0)
    <3>1. TurnsOf(r, order) = TurnsOf(r, Tail(order)) + (IF Head(order) = r THEN 1 ELSE 0)
      BY <1>1, <1>2, CountedAfterHead
    <3> QED
      BY <1>1, <3>1 DEF Ahead
  <2>2. Underway(r) = 0 /\ Underway(r)' = IF current' = r THEN 1 ELSE 0
    BY <1>1 DEF Underway
  <2>3. Done(r)' = Done(r)
    BY <1>1 DEF Done
  <2>4. Ahead(r)' \in Nat
    BY <1>3, Counted DEF Ahead, TurnsOf
  <2>5. /\ Done(r) \in Nat /\ runners[r].repeats \in Nat
        /\ Ahead(r) + Underway(r) + Done(r) = runners[r].repeats
    BY <1>1, TurnTypes DEF Looping
  <2> QED
    BY <2>1, <2>2, <2>3, <2>4, <2>5
<1> QED
  BY <1>1, <1>3, <1>4 DEF TurnsRight

LEMMA QuietTurns ==
  ASSUME RunnersRight, InstancesRight, TurnsRight, RunsRight, Quiet
  PROVE  TurnsRight'
<1>1. /\ UNCHANGED <<order, current>> /\ DOMAIN runners' = DOMAIN runners
      /\ pc \in {"warm", "measure"} /\ pc' \in {"warm", "measure", "record"}
  BY DEF Quiet
<1>2. order \in Seq(DOMAIN runners) /\ current \in DOMAIN runners
  BY <1>1 DEF TurnsRight, Looping
<1>3. ASSUME NEW r \in DOMAIN runners
      PROVE  /\ Ahead(r)' + Underway(r)' + Done(r)' = runners'[r].repeats
             /\ Done(r)' <= runners'[r].repeats
  <2>1. /\ Ahead(r)' = Ahead(r) /\ Underway(r)' = Underway(r) /\ Done(r)' = Done(r)
        /\ runners'[r].repeats = runners[r].repeats
    BY <1>1 DEF Ahead, Underway, Done, Quiet
  <2> QED
    BY <1>1, <2>1 DEF TurnsRight, Looping
<1> QED
  BY <1>1, <1>2, <1>3 DEF TurnsRight

LEMMA RecordTurns ==
  ASSUME RunnersRight, InstancesRight, TurnsRight, RunsRight, Record
  PROVE  TurnsRight'
<1>1. /\ UNCHANGED <<order, current>> /\ pc = "record" /\ current \in DOMAIN runners
      /\ pc' = IF Done(current) + 1 # runners[current].repeats THEN "next" ELSE "report"
      /\ DOMAIN runners' = DOMAIN runners
      /\ \A r \in DOMAIN runners : /\ runners'[r].repeats = runners[r].repeats
                                   /\ r # current => runners'[r].runs = runners[r].runs
      /\ \E run : runners'[current].runs = Append(runners[current].runs, run)
  BY RecordFacts
<1>2. order \in Seq(DOMAIN runners)
  BY <1>1 DEF TurnsRight, Looping
<1>3. Done(current)' = Done(current) + 1
  <2>1. runners[current].runs \in Seq(Reports(current))
    BY <1>1, RunnerTypes
  <2>2. PICK run : runners'[current].runs = Append(runners[current].runs, run)
    BY <1>1
  <2>3. runners[current].runs \in Seq(Reports(current) \cup {run})
    BY <2>1
  <2>4. Len(runners'[current].runs) = Len(runners[current].runs) + 1
    BY <2>2, <2>3
  <2> QED
    BY <1>1, <2>4 DEF Done
<1>4. ASSUME NEW r \in DOMAIN runners
      PROVE  /\ Ahead(r)' + Underway(r)' + Done(r)' = runners'[r].repeats
             /\ Done(r)' <= runners'[r].repeats
  <2>1. Ahead(r)' = Ahead(r) /\ runners'[r].repeats = runners[r].repeats
    BY <1>1 DEF Ahead
  <2>2. Underway(r) = (IF r = current THEN 1 ELSE 0) /\ Underway(r)' = 0
    BY <1>1 DEF Underway
  <2>3. Done(r)' = Done(r) + (IF r = current THEN 1 ELSE 0)
    <3>1. CASE r = current
      BY <1>1, <1>3, <3>1 DEF Done
    <3>2. CASE r # current
      <4>1. Done(r)' = Done(r)
        BY <1>1, <3>2 DEF Done
      <4>2. Done(r) \in Nat
        BY RunnerTypes
      <4> QED
        BY <3>2, <4>1, <4>2
    <3> QED
      BY <3>1, <3>2
  <2>4. /\ Ahead(r) \in Nat /\ Done(r) \in Nat /\ runners[r].repeats \in Nat
        /\ Ahead(r) + Underway(r) + Done(r) = runners[r].repeats
    BY <1>1, TurnTypes DEF Looping
  <2> QED
    BY <2>1, <2>2, <2>3, <2>4
<1>5. pc' = "report" => Done(current)' = runners'[current].repeats /\ Done(current)' > 0
  BY <1>1, <1>3, RunnerTypes
<1> QED
  BY <1>1, <1>2, <1>4, <1>5 DEF TurnsRight

LEMMA TurnsNext ==
  ASSUME RunnersRight, InstancesRight, TurnsRight, RunsRight, InstancesRight', [Next]_vars
  PROVE  TurnsRight'
<1>1. CASE Register
  <2>1. runners' = <<>> /\ pc' \in {"register", "find"}
    BY <1>1 DEF Register, RunnersRight
  <2> QED
    BY <2>1 DEF TurnsRight, Looping
<1>2. CASE Find
  <2>1. /\ UNCHANGED session /\ pc' \in {"done", "create"}
        /\ \E found : runners' = [k \in DOMAIN found |-> NewRunner(found[k])]
    BY <1>2 DEF Find
  <2>2. ASSUME NEW r \in DOMAIN runners' PROVE Done(r)' <= runners'[r].repeats
    <3>1. PICK i : runners'[r] = NewRunner(i)
      BY <2>1, <2>2
    <3>2. runners'[r].i = i
      BY <3>1 DEF NewRunner
    <3>3. i.of \in DOMAIN session.families
      BY <2>1, <2>2, <3>2 DEF InstancesRight
    <3>4. runners'[r].repeats \in Nat /\ runners'[r].runs = <<>>
      BY <3>1, <3>3, OptionTypes
    <3> QED
      BY <3>4 DEF Done
  <2> QED
    BY <2>1, <2>2 DEF TurnsRight, Looping
<1>3. CASE Create
  BY <1>3, CreateTurns
<1>4. CASE Begin
  BY <1>4, BeginTurns
<1>5. CASE Warm \/ Measure
  BY <1>5, WarmQuiet, MeasureQuiet, QuietTurns
<1>6. CASE Record
  BY <1>6, RecordTurns
<1>7. CASE Finish \/ End
  <2>1. /\ UNCHANGED <<runners, order>> /\ pc \in {"next", "report"}
        /\ pc' \in {"next"} \cup Ended
    BY <1>7 DEF Finish, End, StatsEnd, BigOEnd, Checked, Ended
  <2>2. \A r \in DOMAIN runners : Done(r)' <= runners'[r].repeats
    BY <2>1 DEF TurnsRight, Done
  <2>3. ASSUME pc' = "next", NEW r \in DOMAIN runners
        PROVE  Ahead(r)' + Underway(r)' + Done(r)' = runners'[r].repeats
    <3>1. Ahead(r)' = Ahead(r) /\ Underway(r)' = Underway(r) /\ Done(r)' = Done(r)
      BY <2>1, <2>3 DEF Ahead, Underway, Done
    <3> QED
      BY <2>1, <3>1 DEF TurnsRight, Looping
  <2>4. order \in Seq(DOMAIN runners)
    BY <2>1 DEF TurnsRight, Looping
  <2> QED
    BY <2>1, <2>2, <2>3, <2>4 DEF TurnsRight, Looping, Ended
<1>8. CASE UNCHANGED vars
  BY <1>8 DEF vars, TurnsRight, Ahead, Underway, Done
<1> QED
  BY <1>1, <1>2, <1>3, <1>4, <1>5, <1>6, <1>7, <1>8 DEF Next

-----------------------------------------------------------------------------
(* The runs of a runner.                                                   *)

LEMMA SameAlike ==
  ASSUME UNCHANGED session, NEW r, NEW s, s.i = r.i, s.iters = r.iters
  PROVE  Alike(s)' = Alike(r)
BY DEF Alike, Batch, Options

LEMMA RunsNext ==
  ASSUME RunnersRight, InstancesRight, TurnsRight, RunsRight, InstancesRight', [Next]_vars
  PROVE  RunsRight'
<1>1. CASE Register
  <2>1. runners' = <<>> /\ pc' \in {"register", "find"}
    BY <1>1 DEF Register, RunnersRight
  <2> QED
    BY <2>1 DEF RunsRight
<1>2. CASE Find
  <2>1. /\ UNCHANGED session /\ pc' \in {"done", "create"}
        /\ \E found : runners' = [k \in DOMAIN found |-> NewRunner(found[k])]
    BY <1>2 DEF Find
  <2>2. ASSUME NEW r \in DOMAIN runners'
        PROVE  runners'[r].iters \in Nat /\ runners'[r].runs = <<>>
    <3>1. PICK i : runners'[r] = NewRunner(i)
      BY <2>1, <2>2
    <3>2. runners'[r].i = i
      BY <3>1 DEF NewRunner
    <3>3. i.of \in DOMAIN session.families
      BY <2>1, <2>2, <3>2 DEF InstancesRight
    <3> QED
      BY <3>1, <3>3, OptionTypes
  <2>3. ASSUME NEW r \in DOMAIN runners'
        PROVE  runners'[r].runs \in Seq(Reports(r)) /\ DOMAIN runners'[r].runs = {}
    <3>1. runners'[r].runs = <<>>
      BY <2>2, <2>3
    <3>2. <<>> \in Seq(Reports(r)) /\ DOMAIN <<>> = {}
      <4> DEFINE S == Reports(r)
      <4> HIDE DEF S
      <4> QED
        OBVIOUS
    <3> QED
      BY <3>1, <3>2
  <2> QED
    BY <2>1, <2>2, <2>3 DEF RunsRight, Reports
<1>3. CASE Warm \/ Measure
  <2>1. Quiet
    BY <1>3, WarmQuiet, MeasureQuiet
  <2>2. ASSUME NEW r \in DOMAIN runners
        PROVE  /\ runners'[r].iters \in Nat /\ runners'[r].runs = runners[r].runs
               /\ \A k \in DOMAIN runners'[r].runs :
                    ~runners'[r].runs[k].skipped =>
                      runners'[r].runs[k].iterations = Alike(runners[r])'
    <3>1. CASE runners[r].runs = <<>>
      BY <2>1, <3>1 DEF Quiet
    <3>2. CASE runners[r].runs # <<>>
      <4>1. Alike(runners[r])' = Alike(runners[r])
        BY <2>1, <3>2, SameAlike DEF Quiet
      <4> QED
        BY <2>1, <3>2, <4>1 DEF Quiet, RunsRight
    <3> QED
      BY <3>1, <3>2
  <2>3. /\ DOMAIN runners' = DOMAIN runners /\ pc' \in {"warm", "measure", "record"}
        /\ current' = current /\ session' = session
    BY <2>1 DEF Quiet
  <2>4. pc' = "record" =>
          Measured(result', runners'[current].iters, runners'[current].i)
    BY <2>1 DEF Quiet
  <2>5. \A i : Batch(i)' = Batch(i)
    BY <2>3 DEF Batch, Options
  <2> QED
    BY <2>2, <2>3, <2>4, <2>5 DEF RunsRight, Reports, Measured
<1>4. CASE Record
  <2> DEFINE run == CreateRunReport(runners[current])
             old == runners[current].runs
  <2>1. /\ UNCHANGED session /\ current \in DOMAIN runners /\ pc' \in {"next", "report"}
        /\ DOMAIN runners' = DOMAIN runners
        /\ \A r \in DOMAIN runners :
              /\ runners'[r].i = runners[r].i
              /\ runners'[r].iters = runners[r].iters
              /\ r # current => runners'[r].runs = runners[r].runs
        /\ runners'[current].runs = Append(old, run)
        /\ run \in Reports(current)
        /\ run.repetition = Len(old)
        /\ ~run.skipped => run.iterations = Alike(runners[current])
    BY <1>4, RecordFacts DEF Done
  <2> HIDE DEF run
  <2>2. ASSUME NEW r \in DOMAIN runners
        PROVE  /\ runners'[r].runs \in Seq(Reports(r))
               /\ \A k \in DOMAIN runners'[r].runs :
                    /\ runners'[r].runs[k].repetition = k - 1
                    /\ ~runners'[r].runs[k].skipped =>
                         runners'[r].runs[k].iterations = Alike(runners[r])
    <3>1. CASE r # current
      <4>1. runners'[r].runs = runners[r].runs
        BY <2>1, <3>1
      <4> QED
        BY <4>1 DEF RunsRight
    <3>2. CASE r = current
      <4>1. /\ old \in Seq(Reports(current))
            /\ \A k \in DOMAIN old :
                 /\ old[k].repetition = k - 1
                 /\ ~old[k].skipped => old[k].iterations = Alike(runners[current])
        BY <2>1 DEF RunsRight
      <4> DEFINE more == Append(old, run)
      <4> HIDE DEF old
      <4>2. /\ more \in Seq(Reports(current)) /\ DOMAIN more = 1 .. Len(old) + 1
            /\ Len(old) \in Nat /\ DOMAIN old = 1 .. Len(old)
            /\ \A k \in 1 .. Len(old) + 1 : more[k] = IF k = Len(old) + 1 THEN run ELSE old[k]
        BY <2>1, <4>1
      <4>3. runners'[current].runs = more
        BY <2>1
      <4> HIDE DEF more
      <4>4. ASSUME NEW k \in DOMAIN more
            PROVE  /\ more[k].repetition = k - 1
                   /\ ~more[k].skipped => more[k].iterations = Alike(runners[current])
        <5>1. CASE k = Len(old) + 1
          BY <2>1, <4>2, <5>1
        <5>2. CASE k # Len(old) + 1
          <6>1. k \in DOMAIN old /\ more[k] = old[k]
            BY <4>2, <5>2
          <6> QED
            BY <4>1, <6>1
        <5> QED
          BY <5>1, <5>2
      <4> QED
        BY <3>2, <4>2, <4>3, <4>4
    <3> QED
      BY <3>1, <3>2
  <2>3. ASSUME NEW r \in DOMAIN runners
        PROVE  Alike(runners[r])' = Alike(runners[r]) /\ runners'[r].iters \in Nat
    BY <2>1, SameAlike, RunnerTypes
  <2>4. \A r : Reports(r)' = Reports(r)
    BY DEF Reports
  <2> QED
    BY <2>1, <2>2, <2>3, <2>4 DEF RunsRight
<1>5. CASE Create \/ Begin \/ Finish \/ End
  <2>1. UNCHANGED <<session, runners>> /\ pc' \notin {"create", "record"}
    BY <1>5 DEF Create, Begin, Finish, End, StatsEnd, BigOEnd, Checked
  <2>2. \A r : Alike(r)' = Alike(r)
    BY <2>1 DEF Alike, Batch, Options
  <2> QED
    BY <2>1, <2>2 DEF RunsRight, Reports
<1>6. CASE UNCHANGED vars
  <2>1. UNCHANGED <<session, runners, pc, result, current>>
    BY <1>6 DEF vars
  <2>2. \A r : Alike(r)' = Alike(r)
    BY <2>1 DEF Alike, Batch, Options
  <2>3. \A i : Batch(i)' = Batch(i)
    BY <2>1 DEF Batch, Options
  <2> QED
    BY <2>1, <2>2, <2>3 DEF RunsRight, Reports, Measured
<1> QED
  BY <1>1, <1>2, <1>3, <1>4, <1>5, <1>6 DEF Next

-----------------------------------------------------------------------------
(* The reports of the families.                                            *)

\* Sums of which no term is larger than the other's are equal just when the
\* terms are.
LEMMA SumsMeet ==
  ASSUME NEW S, IsFiniteSet(S), NEW f, NEW g,
         \A x \in S : f[x] \in Nat /\ g[x] \in Nat /\ f[x] <= g[x]
  PROVE  /\ SumFunctionOnSet(f, S) = SumFunctionOnSet(g, S) <=> \A x \in S : f[x] = g[x]
         /\ SumFunctionOnSet(f, S) \in Nat
<1> DEFINE P == {T \in SUBSET S : /\ SumFunctionOnSet(f, T) <= SumFunctionOnSet(g, T)
                                  /\ SumFunctionOnSet(f, T) = SumFunctionOnSet(g, T) =>
                                       \A x \in T : f[x] = g[x]}
<1>1. {} \in P
  BY SumEmpty
<1>2. ASSUME NEW s \in P, NEW x \in S \ s PROVE s \cup {x} \in P
  <2>1. IsFiniteSet(s) /\ s \subseteq S
    BY FS_Subset
  <2>2. \A y \in s : f[y] \in Int /\ g[y] \in Int
    BY <2>1
  <2>3. /\ SumFunctionOnSet(f, s \cup {x}) = SumFunctionOnSet(f, s) + f[x]
        /\ SumFunctionOnSet(g, s \cup {x}) = SumFunctionOnSet(g, s) + g[x]
    BY <2>1, <2>2, SumAdd
  <2>4. SumFunctionOnSet(f, s) \in Int /\ SumFunctionOnSet(g, s) \in Int
    BY <2>1, <2>2, SumType
  <2>5. f[x] \in Nat /\ g[x] \in Nat /\ f[x] <= g[x]
    OBVIOUS
  <2>6. /\ SumFunctionOnSet(f, s) <= SumFunctionOnSet(g, s)
        /\ SumFunctionOnSet(f, s) = SumFunctionOnSet(g, s) => \A y \in s : f[y] = g[y]
    OBVIOUS
  <2>7. SumFunctionOnSet(f, s \cup {x}) <= SumFunctionOnSet(g, s \cup {x})
    BY <2>3, <2>4, <2>5, <2>6
  <2>8. ASSUME SumFunctionOnSet(f, s \cup {x}) = SumFunctionOnSet(g, s \cup {x})
        PROVE  \A y \in s \cup {x} : f[y] = g[y]
    BY <2>3, <2>4, <2>5, <2>6, <2>8
  <2> QED
    BY <2>1, <2>7, <2>8
<1>3. S \in P
  <2> HIDE DEF P
  <2>1. P \in SUBSET SUBSET S
    BY DEF P
  <2> QED
    BY <1>1, <1>2, <2>1, SubsetInduction
<1>4. ASSUME \A x \in S : f[x] = g[x]
      PROVE  SumFunctionOnSet(f, S) = SumFunctionOnSet(g, S)
  <2>1. \A x \in S : f[x] \in Int /\ g[x] = f[x]
    BY <1>4
  <2> QED
    BY <2>1, SumEqual
<1> QED
  BY <1>3, <1>4, SumNat

LEMMA MemberTypes ==
  ASSUME RunnersRight, InstancesRight, TurnsRight, RunsRight, NEW f
  PROVE  /\ IsFiniteSet(Members(f)) /\ Members(f) \subseteq DOMAIN runners
         /\ \A r \in Members(f) :
              Finished[r] \in Nat /\ Repeats[r] \in Nat /\ Finished[r] <= Repeats[r]
<1>1. IsFiniteSet(DOMAIN runners)
  <2>1. DOMAIN runners = 1 .. Len(runners) /\ Len(runners) \in Int /\ 1 \in Int
    BY DEF InstancesRight
  <2> QED
    BY <2>1, FS_Interval
<1>2. Members(f) \in SUBSET DOMAIN runners
  BY DEF Members
<1>3. IsFiniteSet(Members(f))
  BY <1>1, <1>2, FS_Subset
<1>4. ASSUME NEW r \in Members(f)
      PROVE  Finished[r] \in Nat /\ Repeats[r] \in Nat /\ Finished[r] <= Repeats[r]
  <2>1. r \in DOMAIN runners
    BY <1>2
  <2>2. Finished[r] = Done(r) /\ Repeats[r] = runners[r].repeats
    BY <2>1 DEF Finished, Repeats
  <2> QED
    BY <2>1, <2>2, RunnerTypes DEF TurnsRight
<1> QED
  BY <1>2, <1>3, <1>4

\* All runs of a family are done just when as many as there are have been
\* counted.
LEMMA CountedAll ==
  ASSUME RunnersRight, InstancesRight, TurnsRight, RunsRight, NEW f
  PROVE  SumFunctionOnSet(Finished, Members(f)) = SumFunctionOnSet(Repeats, Members(f))
           <=> AllDone(f)
<1>1. /\ IsFiniteSet(Members(f))
      /\ \A r \in Members(f) :
           Finished[r] \in Nat /\ Repeats[r] \in Nat /\ Finished[r] <= Repeats[r]
  BY MemberTypes
<1> QED
  BY <1>1, SumsMeet DEF AllDone

\* What a step leaves of a family.
SameFamily(f) ==
  /\ Members(f)' = Members(f)
  /\ \A r \in Members(f) :
       /\ runners'[r].i = runners[r].i /\ runners'[r].repeats = runners[r].repeats
       /\ runners'[r].runs = runners[r].runs

LEMMA FamilyKept ==
  ASSUME RunnersRight, InstancesRight, TurnsRight, RunsRight,
         UNCHANGED session, DOMAIN runners' = DOMAIN runners,
         NEW f, SameFamily(f)
  PROVE  /\ Through(f)' = Through(f) /\ (AllDone(f)' <=> AllDone(f))
         /\ SumFunctionOnSet(Repeats, Members(f))' = SumFunctionOnSet(Repeats, Members(f))
         /\ SumFunctionOnSet(Finished, Members(f))' = SumFunctionOnSet(Finished, Members(f))
         /\ (\A r \in Members(f) : Complexity(runners[r].i)) =>
               (\A r \in Members(f) : Complexity(runners[r].i))'
         /\ (\A r \in Members(f) : Repeats[r] = 0) => (\A r \in Members(f) : Repeats[r] = 0)'
<1>1. /\ IsFiniteSet(Members(f)) /\ Members(f) \subseteq DOMAIN runners
      /\ \A r \in Members(f) : Finished[r] \in Nat /\ Repeats[r] \in Nat
  BY MemberTypes
<1>2. Members(f)' = Members(f)
  BY DEF SameFamily
<1>3. ASSUME NEW r \in Members(f)
      PROVE  Repeats'[r] = Repeats[r] /\ Finished'[r] = Finished[r]
  BY <1>1 DEF Repeats, Finished, Done, SameFamily
<1>4. SumFunctionOnSet(Repeats', Members(f)) = SumFunctionOnSet(Repeats, Members(f))
  BY <1>1, <1>3, SumEqual
<1>5. SumFunctionOnSet(Finished', Members(f)) = SumFunctionOnSet(Finished, Members(f))
  BY <1>1, <1>3, SumEqual
<1>6. Through(f)' = Through(f)
  BY <1>2 DEF Through, SameFamily, Fine
<1>7. AllDone(f)' <=> AllDone(f)
  BY <1>2, <1>3 DEF AllDone
<1>8. (\A r \in Members(f) : Complexity(runners[r].i)) =>
        (\A r \in Members(f) : Complexity(runners[r].i))'
  BY <1>2 DEF SameFamily, Complexity, Options
<1>9. (\A r \in Members(f) : Repeats[r] = 0) => (\A r \in Members(f) : Repeats[r] = 0)'
  BY <1>2, <1>3
<1> QED
  BY <1>2, <1>4, <1>5, <1>6, <1>7, <1>8, <1>9

LEMMA CreateFamilies ==
  ASSUME RunnersRight, InstancesRight, TurnsRight, RunsRight, Create
  PROVE  FamiliesRight'
<1>1. /\ UNCHANGED <<session, runners>> /\ pc = "create" /\ pc' = "next"
  BY DEF Create
<1> DEFINE complex == {runners[r].i.family : r \in {q \in DOMAIN runners : Complexity(runners[q].i)}}
<1>2. perFamily' = [f \in complex |-> [total |-> SumFunctionOnSet(Repeats, Members(f)),
                                       done |-> 0, runs |-> <<>>]]
  BY DEF Create, Members
<1>3. \A r \in DOMAIN runners : runners[r].runs = <<>>
  BY <1>1 DEF RunsRight
<1>4. /\ Repeats' = Repeats /\ Finished' = Finished
      /\ \A f : Members(f)' = Members(f) /\ Through(f)' = Through(f)
      /\ \A r : Complexity(runners[r].i)' <=> Complexity(runners[r].i)
  BY <1>1 DEF Repeats, Finished, Members, Through, Done, Complexity, Options
<1>5. ASSUME NEW f \in DOMAIN perFamily' PROVE FamilyRight(f)'
  <2>1. PICK q \in DOMAIN runners : Complexity(runners[q].i) /\ f = runners[q].i.family
    BY <1>2
  <2>2. ASSUME NEW r \in Members(f) PROVE Complexity(runners[r].i)
    <3>1. r \in DOMAIN runners /\ runners[r].i.family = f
      BY DEF Members
    <3>2. runners[r].i.of = runners[q].i.of
      BY <2>1, <3>1 DEF InstancesRight
    <3> QED
      BY <2>1, <3>2 DEF Complexity, Options
  <2>3. /\ IsFiniteSet(Members(f)) /\ Members(f) \subseteq DOMAIN runners
    BY MemberTypes
  <2>4. \A r \in Members(f) : Finished[r] = 0
    BY <1>3, <2>3 DEF Finished, Done
  <2>5. SumFunctionOnSet(Finished, Members(f)) = 0
    <3>1. Cardinality(Members(f)) \in Nat
      BY <2>3, FS_CardinalityType
    <3>2. SumFunctionOnSet(Finished, Members(f)) = Cardinality(Members(f)) * 0
      <4>1. 0 \in Int
        OBVIOUS
      <4> QED
        BY <2>3, <2>4, <4>1, SumConstant
    <3> QED
      BY <3>1, <3>2
  <2>6. Through(f) = {}
    BY <1>3, <2>3 DEF Through, Fine, Range
  <2>7. /\ perFamily'[f] = [total |-> SumFunctionOnSet(Repeats, Members(f)),
                            done |-> SumFunctionOnSet(Finished, Members(f)),
                            runs |-> perFamily'[f].runs]
        /\ perFamily'[f].runs = <<>>
    BY <1>2, <2>5
  <2>8. AllDone(f)' => (\A r \in Members(f) : Repeats[r] = 0)'
    BY <1>4, <2>4 DEF AllDone
  <2>9. Cardinality({}) = 0 /\ <<>> \in Seq({}) /\ Range(<<>>) = {} /\ Len(<<>>) = 0
    BY FS_EmptySet DEF Range
  <2> QED
    BY <1>4, <2>2, <2>6, <2>7, <2>8, <2>9 DEF FamilyRight
<1>6. ASSUME NEW r \in DOMAIN runners', Complexity(runners[r].i)'
      PROVE  runners'[r].i.family \in DOMAIN perFamily'
  BY <1>1, <1>2, <1>4, <1>6
<1> QED
  BY <1>1, <1>5, <1>6 DEF FamiliesRight

\* A step that leaves the runs and the reports.
LEMMA FamiliesKept ==
  ASSUME RunnersRight, InstancesRight, TurnsRight, RunsRight, FamiliesRight,
         UNCHANGED <<session, perFamily>>, DOMAIN runners' = DOMAIN runners,
         \A r \in DOMAIN runners :
           /\ runners'[r].i = runners[r].i /\ runners'[r].repeats = runners[r].repeats
           /\ runners'[r].runs = runners[r].runs,
         pc \in Looping \ {"report"}, pc' # "report"
  PROVE  FamiliesRight'
<1>1. ASSUME NEW f PROVE SameFamily(f)
  BY DEF SameFamily, Members
<1>2. \A f : ~Closing(f) /\ ~Closing(f)'
  BY DEF Closing
<1>3. ASSUME NEW f \in DOMAIN perFamily PROVE FamilyRight(f)'
  <2>1. FamilyRight(f)
    BY DEF FamiliesRight
  <2>2. /\ Through(f)' = Through(f) /\ (AllDone(f)' <=> AllDone(f))
        /\ SumFunctionOnSet(Repeats, Members(f))' = SumFunctionOnSet(Repeats, Members(f))
        /\ SumFunctionOnSet(Finished, Members(f))' = SumFunctionOnSet(Finished, Members(f))
        /\ (\A r \in Members(f) : Complexity(runners[r].i)) =>
              (\A r \in Members(f) : Complexity(runners[r].i))'
        /\ (\A r \in Members(f) : Repeats[r] = 0) => (\A r \in Members(f) : Repeats[r] = 0)'
    BY <1>1, FamilyKept
  <2> QED
    BY <1>2, <2>1, <2>2 DEF FamilyRight
<1>4. ASSUME NEW r \in DOMAIN runners', Complexity(runners[r].i)',
             runners'[r].i.family \notin DOMAIN perFamily'
      PROVE  AllDone(runners[r].i.family)' /\ ~Closing(runners[r].i.family)'
  <2> DEFINE f == runners[r].i.family
  <2>1. Complexity(runners[r].i) /\ f \notin DOMAIN perFamily /\ runners'[r].i.family = f
    BY <1>4 DEF Complexity, Options
  <2>2. AllDone(f)
    BY <1>4, <2>1 DEF FamiliesRight
  <2> HIDE DEF f
  <2>3. \A g : AllDone(g) => AllDone(g)'
    BY <1>1, FamilyKept
  <2> QED
    BY <1>2, <2>1, <2>2, <2>3 DEF AllDone, Members, Finished, Repeats, Closing
<1> QED
  BY <1>3, <1>4 DEF FamiliesRight

\* The runner at work has runs to come.
LEMMA NotAllDone ==
  ASSUME RunnersRight, InstancesRight, TurnsRight, RunsRight, pc \in {"warm", "measure", "record"}
  PROVE  /\ current \in DOMAIN runners /\ current \in Members(runners[current].i.family)
         /\ Done(current) < runners[current].repeats
         /\ \A f : AllDone(f) => current \notin Members(f)
<1>1. current \in DOMAIN runners /\ pc \in Looping
  BY DEF TurnsRight, Looping
<1>2. Underway(current) = 1
  BY DEF Underway
<1>3. /\ Ahead(current) \in Nat /\ Done(current) \in Nat /\ runners[current].repeats \in Nat
      /\ Ahead(current) + Underway(current) + Done(current) = runners[current].repeats
  BY <1>1, TurnTypes
<1>4. Done(current) < runners[current].repeats
  BY <1>2, <1>3
<1>5. Finished[current] # Repeats[current]
  BY <1>1, <1>3, <1>4 DEF Finished, Repeats
<1> QED
  BY <1>1, <1>4, <1>5 DEF AllDone, Members

\* The reports that come through are reports, each of its runner.
LEMMA ThroughTypes ==
  ASSUME RunnersRight, InstancesRight, TurnsRight, RunsRight, NEW f
  PROVE  IsFiniteSet(Through(f))
<1> DEFINE fine == [r \in Members(f) |-> Fine(runners[r].runs)]
<1>1. IsFiniteSet(Members(f)) /\ Members(f) \subseteq DOMAIN runners
  BY MemberTypes
<1>2. ASSUME NEW r \in DOMAIN runners
      PROVE  IsFiniteSet(Fine(runners[r].runs)) /\ \A run \in Fine(runners[r].runs) : run.of = r
  <2>1. runners[r].runs \in Seq(Reports(r))
    BY RunnerTypes
  <2> DEFINE runs == runners[r].runs
  <2>2. runs \in Seq(Reports(r))
    BY <2>1
  <2> HIDE DEF runs
  <2>3. IsFiniteSet(Range(runs)) /\ Range(runs) \subseteq Reports(r)
    <3>1. DOMAIN runs = 1 .. Len(runs) /\ Len(runs) \in Int /\ 1 \in Int
      BY <2>2
    <3>2. IsFiniteSet(DOMAIN runs)
      BY <3>1, FS_Interval
    <3>3. runs \in Surjection(DOMAIN runs, Range(runs))
      <4>1. runs = [k \in DOMAIN runs |-> runs[k]]
        BY <2>2
      <4> QED
        BY <4>1 DEF Surjection, Range
    <3>4. IsFiniteSet(Range(runs))
      BY <3>2, <3>3, FS_Surjection
    <3>5. Range(runs) \subseteq Reports(r)
      BY <2>2 DEF Range
    <3> QED
      BY <3>4, <3>5
  <2>4. Fine(runs) \in SUBSET Range(runs)
    BY DEF Fine
  <2>5. IsFiniteSet(Fine(runs))
    BY <2>3, <2>4, FS_Subset
  <2>6. \A run \in Reports(r) : run.of = r
    BY DEF Reports
  <2> QED
    BY <2>3, <2>4, <2>5, <2>6 DEF runs
<1>3. Through(f) = UnionOf(fine, Members(f))
  BY DEF Through, UnionOf
<1>4. \A r \in Members(f) : IsFiniteSet(fine[r])
  BY <1>1, <1>2
<1>5. \A q \in Members(f) : \A r \in Members(f) : q # r => fine[q] \cap fine[r] = {}
  <2>1. \A r \in Members(f) : \A run \in fine[r] : run.of = r
    BY <1>1, <1>2
  <2> HIDE DEF fine
  <2> QED
    BY <2>1
<1>6. \A r \in Members(f) : [q \in Members(f) |-> Cardinality(fine[q])][r] = Cardinality(fine[r])
  OBVIOUS
<1>7. IsFiniteSet(UnionOf(fine, Members(f)))
  <2> DEFINE sizes == [q \in Members(f) |-> Cardinality(fine[q])]
             M == Members(f)
  <2>1. \A r \in M : sizes[r] = Cardinality(fine[r])
    OBVIOUS
  <2>2. IsFiniteSet(M) /\ \A r \in M : IsFiniteSet(fine[r])
    BY <1>1, <1>4
  <2>3. \A q \in M : \A r \in M : q # r => fine[q] \cap fine[r] = {}
    BY <1>5
  <2> HIDE DEF fine, sizes, M
  <2>4. IsFiniteSet(UnionOf(fine, M))
    BY <2>1, <2>2, <2>3, SumDisjoint
  <2> QED
    BY <2>4 DEF M
<1> QED
  BY <1>3, <1>7

\* A new run is not among those that have come through.
LEMMA NewRun ==
  ASSUME RunnersRight, InstancesRight, TurnsRight, RunsRight,
         NEW q \in DOMAIN runners, NEW run \in Reports(q), run.repetition = Done(q), NEW f
  PROVE  run \notin Through(f)
<1> SUFFICES ASSUME run \in Through(f) PROVE FALSE
  OBVIOUS
<1>1. PICK r \in Members(f) : run \in Fine(runners[r].runs)
  BY DEF Through
<1>2. r \in DOMAIN runners
  BY <1>1 DEF Members
<1>3. runners[r].runs \in Seq(Reports(r)) /\ Done(r) \in Nat
  BY <1>2, RunnerTypes
<1>4. PICK k \in DOMAIN runners[r].runs : run = runners[r].runs[k]
  BY <1>1 DEF Fine, Range
<1>5. run \in Reports(r) /\ k \in 1 .. Done(r)
  BY <1>3, <1>4 DEF Done
<1>6. run.of = r /\ run.of = q
  BY <1>5 DEF Reports
<1>7. run.repetition = k - 1
  BY <1>2, <1>4 DEF RunsRight
<1> QED
  BY <1>3, <1>5, <1>6, <1>7

\* A run that is kept in the reports of its family.
LEMMA KeptRuns ==
  ASSUME NEW T, IsFiniteSet(T), NEW runs \in Seq(T), Range(runs) = T, Len(runs) = Cardinality(T),
         NEW run, run \notin T
  PROVE  /\ Append(runs, run) \in Seq(T \cup {run}) /\ Range(Append(runs, run)) = T \cup {run}
         /\ Len(Append(runs, run)) = Cardinality(T \cup {run})
<1> DEFINE U == T \cup {run}
<1>1. runs \in Seq(U) /\ run \in U
  OBVIOUS
<1>2. /\ Append(runs, run) \in Seq(U) /\ Len(Append(runs, run)) = Len(runs) + 1
      /\ \A k \in 1 .. Len(runs) : Append(runs, run)[k] = runs[k]
      /\ Append(runs, run)[Len(runs) + 1] = run
      /\ Len(runs) \in Nat /\ DOMAIN runs = 1 .. Len(runs)
      /\ DOMAIN Append(runs, run) = 1 .. Len(runs) + 1
  <2> HIDE DEF U
  <2> QED
    BY <1>1
<1>3. Cardinality(U) = Cardinality(T) + 1
  BY FS_AddElement
<1>4. Range(Append(runs, run)) = U
  <2>1. ASSUME NEW x \in U PROVE x \in Range(Append(runs, run))
    <3>1. CASE x = run
      BY <1>2, <3>1 DEF Range
    <3>2. CASE x \in T
      <4>1. PICK k \in DOMAIN runs : x = runs[k]
        BY <3>2 DEF Range
      <4>2. k \in DOMAIN Append(runs, run) /\ Append(runs, run)[k] = x
        BY <1>2, <4>1
      <4> QED
        BY <4>2 DEF Range
    <3> QED
      BY <3>1, <3>2
  <2>2. Range(Append(runs, run)) \subseteq U
    <3> HIDE DEF U
    <3> QED
      BY <1>2 DEF Range
  <2> QED
    BY <2>1, <2>2
<1> QED
  BY <1>2, <1>3, <1>4

LEMMA Taken ==
  ASSUME NEW total, NEW done, NEW runs, NEW run
  PROVE  Take([total |-> total, done |-> done, runs |-> runs], run)
           = [total |-> total, done |-> done + 1,
              runs |-> IF run.skipped THEN runs ELSE Append(runs, run)]
<1>1. PICK kept : kept = IF run.skipped THEN runs ELSE Append(runs, run)
  OBVIOUS
<1>2. PICK old : old = [total |-> total, done |-> done, runs |-> runs]
  OBVIOUS
<1>3. old.done = done /\ old.runs = runs
  BY <1>2
<1>4. Take(old, run) = [old EXCEPT !.done = done + 1, !.runs = kept]
  <2>1. Take(old, run) = [old EXCEPT !.done = old.done + 1,
                                     !.runs = IF run.skipped THEN old.runs ELSE Append(old.runs, run)]
    BY DEF Take
  <2>2. kept = IF run.skipped THEN old.runs ELSE Append(old.runs, run)
    BY <1>1, <1>3
  <2> QED
    BY <1>3, <2>1, <2>2, Zenon
<1>5. Take(old, run) = [total |-> total, done |-> done + 1, runs |-> kept]
  BY <1>2, <1>4
<1> QED
  BY <1>1, <1>2, <1>5

LEMMA RecordFamilies ==
  ASSUME RunnersRight, InstancesRight, TurnsRight, RunsRight, FamiliesRight, Record
  PROVE  FamiliesRight'
<1> DEFINE f == runners[current].i.family
           run == CreateRunReport(runners[current])
<1>1. /\ UNCHANGED <<session, current>> /\ pc = "record" /\ pc \in Looping
      /\ pc' = IF Done(current) + 1 # runners[current].repeats THEN "next" ELSE "report"
      /\ DOMAIN runners' = DOMAIN runners
      /\ \A r \in DOMAIN runners :
           /\ runners'[r].i = runners[r].i /\ runners'[r].repeats = runners[r].repeats
           /\ r # current => runners'[r].runs = runners[r].runs
      /\ runners'[current].runs = Append(runners[current].runs, run)
      /\ run \in Reports(current) /\ run.repetition = Done(current)
      /\ perFamily' = IF ~Complexity(runners[current].i) THEN perFamily
                      ELSE [perFamily EXCEPT ![f] = Take(@, run)]
  BY RecordFacts DEF Looping
<1>2. /\ current \in DOMAIN runners /\ current \in Members(f)
      /\ Done(current) < runners[current].repeats
      /\ \A g : AllDone(g) => current \notin Members(g)
  BY <1>1, NotAllDone
<1>3. \A g : Members(g)' = Members(g)
  BY <1>1 DEF Members
<1>4. ASSUME NEW g, current \notin Members(g)
      PROVE  SameFamily(g)
  BY <1>1, <1>3, <1>4 DEF SameFamily, Members
<1>5. \A g : ~Closing(g)
  BY <1>1 DEF Closing
<1>6. ASSUME NEW g, current \notin Members(g)
      PROVE  ~Closing(g)'
  BY <1>1, <1>3, <1>6 DEF Closing
<1>7. DOMAIN perFamily' = DOMAIN perFamily
  BY <1>1
<1>8. ASSUME NEW g \in DOMAIN perFamily, current \notin Members(g) PROVE FamilyRight(g)'
  <2>1. FamilyRight(g)
    BY <1>1 DEF FamiliesRight
  <2>2. /\ Through(g)' = Through(g) /\ (AllDone(g)' <=> AllDone(g))
        /\ SumFunctionOnSet(Repeats, Members(g))' = SumFunctionOnSet(Repeats, Members(g))
        /\ SumFunctionOnSet(Finished, Members(g))' = SumFunctionOnSet(Finished, Members(g))
        /\ (\A r \in Members(g) : Complexity(runners[r].i)) =>
              (\A r \in Members(g) : Complexity(runners[r].i))'
        /\ (\A r \in Members(g) : Repeats[r] = 0) => (\A r \in Members(g) : Repeats[r] = 0)'
    BY <1>1, <1>4, <1>8, FamilyKept
  <2>3. perFamily'[g] = perFamily[g]
    BY <1>1, <1>2, <1>8
  <2> QED
    BY <1>5, <2>1, <2>2, <2>3 DEF FamilyRight
<1>9. ASSUME f \in DOMAIN perFamily PROVE FamilyRight(f)'
  <2>1. FamilyRight(f)
    BY <1>1, <1>9 DEF FamiliesRight
  <2>2. \A r \in Members(f) : Complexity(runners[r].i)
    BY <2>1 DEF FamilyRight
  <2>3. perFamily'[f] = Take(perFamily[f], run)
    BY <1>1, <1>2, <1>9, <2>2
  <2> DEFINE M == Members(f)
             total == SumFunctionOnSet(Repeats, M)
             done == SumFunctionOnSet(Finished, M)
             old == perFamily[f].runs
  <2>4. perFamily[f] = [total |-> total, done |-> done, runs |-> old]
    BY <2>1 DEF FamilyRight
  <2>5. perFamily'[f] = [total |-> total, done |-> done + 1,
                         runs |-> IF run.skipped THEN old ELSE Append(old, run)]
    <3> HIDE DEF total, done, old, f, run
    <3> QED
      BY <2>3, <2>4, Taken
  <2>6. /\ IsFiniteSet(M) /\ M \subseteq DOMAIN runners
        /\ \A r \in M : Finished[r] \in Nat /\ Repeats[r] \in Nat /\ Finished[r] <= Repeats[r]
    BY MemberTypes
  <2>7. Finished'[current] = Finished[current] + 1
    <3>1. runners[current].runs \in Seq(Reports(current))
      BY <1>2, RunnerTypes
    <3>2. Len(runners'[current].runs) = Len(runners[current].runs) + 1
      <4> HIDE DEF run
      <4> QED
        BY <1>1, <3>1
    <3> QED
      BY <1>1, <1>2, <3>2 DEF Finished, Done
  <2>8. ASSUME NEW r \in M PROVE /\ Repeats'[r] = Repeats[r]
                                 /\ r # current => Finished'[r] = Finished[r]
    BY <1>1, <2>6 DEF Repeats, Finished, Done
  <2>9. SumFunctionOnSet(Repeats', M) = total
    <3> HIDE DEF M
    <3> QED
      BY <2>6, <2>8, SumEqual DEF total
  <2>10. SumFunctionOnSet(Finished', M) = done + 1
    <3>1. current \in M /\ \A r \in M : Finished[r] \in Int /\ Finished'[r] \in Int
      BY <1>2, <2>6, <2>7, <2>8
    <3>2. Finished'[current] - Finished[current] = 1
      BY <2>7, <3>1
    <3> DEFINE was == Finished
               is  == Finished'
    <3>3. IsFiniteSet(M) /\ current \in M
      BY <2>6, <3>1
    <3>4. \A r \in M : was[r] \in Int /\ is[r] \in Int
      BY <3>1
    <3>5. \A r \in M : r # current => is[r] = was[r]
      BY <2>8
    <3>6. done = SumFunctionOnSet(was, M)
      OBVIOUS
    <3> HIDE DEF M, was, is, done
    <3>7. SumFunctionOnSet(is, M) = SumFunctionOnSet(was, M) + (is[current] - was[current])
      BY <3>3, <3>4, <3>5, SumChange
    <3>8. SumFunctionOnSet(Finished', M) = done + (Finished'[current] - Finished[current])
      BY <3>6, <3>7 DEF was, is
    <3> QED
      BY <3>2, <3>8
  <2>11. Members(f)' = M /\ f' = f
    BY <1>1, <1>2, <1>3
  <2>12. (\A r \in Members(f) : Complexity(runners[r].i))'
    BY <1>1, <2>2, <2>6, <2>11 DEF Complexity, Options
  <2>13. Through(f)' = IF run.skipped THEN Through(f) ELSE Through(f) \cup {run}
    <3>1. \A r \in M \ {current} : Fine(runners'[r].runs) = Fine(runners[r].runs)
      BY <1>1, <2>6
    <3>2. Fine(runners'[current].runs) = Fine(runners[current].runs)
                                           \cup (IF run.skipped THEN {} ELSE {run})
      <4> DEFINE runs == runners[current].runs
                 more == Append(runs, run)
      <4>1. runs \in Seq(Reports(current)) /\ runners'[current].runs = more
        BY <1>1, <1>2, RunnerTypes
      <4> HIDE DEF run, runs
      <4>2. /\ DOMAIN more = 1 .. Len(runs) + 1 /\ DOMAIN runs = 1 .. Len(runs)
            /\ Len(runs) \in Nat
            /\ \A k \in 1 .. Len(runs) : more[k] = runs[k]
            /\ more[Len(runs) + 1] = run
        BY <1>1, <4>1
      <4> HIDE DEF more
      <4>3. Range(more) = Range(runs) \cup {run}
        <5>1. ASSUME NEW x \in Range(more) PROVE x \in Range(runs) \cup {run}
          <6>1. PICK k \in DOMAIN more : x = more[k]
            BY DEF Range
          <6> QED
            BY <4>2, <6>1 DEF Range
        <5>2. ASSUME NEW x \in Range(runs) PROVE x \in Range(more)
          <6>1. PICK k \in DOMAIN runs : x = runs[k]
            BY DEF Range
          <6>2. k \in DOMAIN more /\ more[k] = x
            BY <4>2, <6>1
          <6> QED
            BY <6>2 DEF Range
        <5>3. run \in Range(more)
          <6>1. Len(runs) + 1 \in DOMAIN more
            BY <4>2
          <6> QED
            BY <4>2, <6>1 DEF Range
        <5> QED
          BY <5>1, <5>2, <5>3
      <4>4. Fine(more) = Fine(runs) \cup (IF run.skipped THEN {} ELSE {run})
        BY <4>3 DEF Fine
      <4> QED
        BY <4>1, <4>4 DEF runs
    <3>3. /\ Through(f)' = UNION {Fine(runners'[r].runs) : r \in M}
          /\ Through(f) = UNION {Fine(runners[r].runs) : r \in M}
          /\ current \in M
      BY <1>2, <2>11 DEF Through
    <3> HIDE DEF M, run, f
    <3> QED
      BY <3>1, <3>2, <3>3
  <2>14. IsFiniteSet(Through(f)) /\ run \notin Through(f)
    <3> HIDE DEF run, f
    <3> QED
      BY <1>1, <1>2, ThroughTypes, NewRun
  <2>15. /\ perFamily'[f].runs \in Seq(Through(f)')
         /\ Range(perFamily'[f].runs) = Through(f)'
         /\ Len(perFamily'[f].runs) = Cardinality(Through(f)')
    <3>1. /\ old \in Seq(Through(f)) /\ Range(old) = Through(f)
          /\ Len(old) = Cardinality(Through(f))
      BY <2>1 DEF FamilyRight
    <3>2. perFamily'[f].runs = IF run.skipped THEN old ELSE Append(old, run)
      BY <2>5
    <3> DEFINE T == Through(f)
               U == Through(f)'
    <3>3. U = IF run.skipped THEN T ELSE T \cup {run}
      BY <2>13
    <3> HIDE DEF T, U, run, old, f
    <3>4. CASE run.skipped
      BY <3>1, <3>2, <3>3, <3>4 DEF T, U
    <3>5. CASE ~run.skipped
      <4>1. /\ Append(old, run) \in Seq(T \cup {run}) /\ Range(Append(old, run)) = T \cup {run}
            /\ Len(Append(old, run)) = Cardinality(T \cup {run})
        <5>1. IsFiniteSet(T) /\ run \notin T
          BY <2>14 DEF T
        <5>2. old \in Seq(T) /\ Range(old) = T /\ Len(old) = Cardinality(T)
          BY <3>1 DEF T
        <5> QED
          BY <5>1, <5>2, KeptRuns
      <4> QED
        BY <3>2, <3>3, <3>5, <4>1 DEF U
    <3> QED
      BY <3>4, <3>5
  <2>16. AllDone(f)' => Closing(f)'
    <3> SUFFICES ASSUME AllDone(f)' PROVE Closing(f)'
      OBVIOUS
    <3>1. Finished'[current] = Repeats'[current]
      BY <1>2, <2>11 DEF AllDone
    <3>2. Finished[current] = Done(current) /\ Repeats[current] = runners[current].repeats
      BY <1>2 DEF Finished, Repeats
    <3>3. Done(current) + 1 = runners[current].repeats
      BY <1>2, <2>7, <2>8, <3>1, <3>2
    <3> QED
      BY <1>1, <1>2, <2>11, <3>3 DEF Closing
  <2>17. perFamily'[f].total = total /\ perFamily'[f].done = done + 1
    BY <2>5
  <2>18. perFamily'[f] = [total |-> SumFunctionOnSet(Repeats', M),
                          done |-> SumFunctionOnSet(Finished', M),
                          runs |-> perFamily'[f].runs]
    <3> DEFINE more == IF run.skipped THEN old ELSE Append(old, run)
    <3> HIDE DEF more, total, done, f
    <3>1. perFamily'[f] = [total |-> total, done |-> done + 1, runs |-> more]
      BY <2>5 DEF more
    <3> QED
      BY <2>9, <2>10, <3>1
  <2> HIDE DEF f, M, total, done, old, run
  <2> QED
    BY <2>11, <2>12, <2>15, <2>16, <2>18 DEF FamilyRight
<1>10. ASSUME NEW g \in DOMAIN perFamily' PROVE FamilyRight(g)'
  <2>1. CASE current \notin Members(g)
    BY <1>7, <1>8, <2>1
  <2>2. CASE current \in Members(g)
    <3>1. g = f
      BY <2>2 DEF Members
    <3>2. FamilyRight(f)'
      BY <1>7, <1>9, <1>10, <3>1
    <3> QED
      BY <1>1, <1>2, <3>1, <3>2
  <2> QED
    BY <2>1, <2>2
<1>11. ASSUME NEW r \in DOMAIN runners', Complexity(runners[r].i)',
              runners'[r].i.family \notin DOMAIN perFamily'
       PROVE  AllDone(runners[r].i.family)' /\ ~Closing(runners[r].i.family)'
  <2> DEFINE g == runners[r].i.family
  <2>1. Complexity(runners[r].i) /\ g \notin DOMAIN perFamily /\ runners'[r].i.family = g
    BY <1>1, <1>7, <1>11 DEF Complexity, Options
  <2>2. AllDone(g)
    BY <1>1, <1>11, <2>1 DEF FamiliesRight
  <2>3. \A h : AllDone(h) => AllDone(h)' /\ ~Closing(h)'
    BY <1>1, <1>2, <1>4, <1>6, FamilyKept
  <2>5. g' = g
    BY <1>1, <1>11, <2>1
  <2> HIDE DEF g
  <2>4. AllDone(g)' /\ ~Closing(g)'
    BY <2>2, <2>3, <2>5
  <2> QED
    BY <2>4 DEF g
<1> QED
  BY <1>10, <1>11 DEF FamiliesRight

\* The family of the runner that reports has reports until all its runs are
\* done, which they are when as many have been counted.
LEMMA CompletesWhenDone ==
  ASSUME RunnersRight, InstancesRight, TurnsRight, RunsRight, FamiliesRight, pc = "report"
  PROVE  /\ current \in DOMAIN runners /\ current \in Members(runners[current].i.family)
         /\ Complexity(runners[current].i) => runners[current].i.family \in DOMAIN perFamily
         /\ Completes(runners[current]) <=>
              Complexity(runners[current].i) /\ AllDone(runners[current].i.family)
<1> DEFINE f == runners[current].i.family
<1>1. pc \in Looping /\ current \in DOMAIN runners /\ current \in Members(f)
  BY DEF TurnsRight, Looping, Members
<1>2. Closing(f)
  BY <1>1 DEF Closing
<1>3. Complexity(runners[current].i) => f \in DOMAIN perFamily
  BY <1>1, <1>2 DEF FamiliesRight
<1>4. ASSUME Complexity(runners[current].i)
      PROVE  perFamily[f].done = perFamily[f].total <=> AllDone(f)
  <2>1. FamilyRight(f)
    BY <1>1, <1>3, <1>4 DEF FamiliesRight
  <2> HIDE DEF f
  <2>2. /\ perFamily[f].total = SumFunctionOnSet(Repeats, Members(f))
        /\ perFamily[f].done = SumFunctionOnSet(Finished, Members(f))
    <3> DEFINE total == SumFunctionOnSet(Repeats, Members(f))
               done == SumFunctionOnSet(Finished, Members(f))
               runs == perFamily[f].runs
    <3>1. perFamily[f] = [total |-> total, done |-> done, runs |-> runs]
      BY <2>1 DEF FamilyRight
    <3> HIDE DEF total, done, runs
    <3>2. perFamily[f].total = total /\ perFamily[f].done = done
      BY <3>1
    <3> QED
      BY <3>2 DEF total, done
  <2> QED
    BY <2>2, CountedAll
<1> QED
  BY <1>1, <1>3, <1>4 DEF Completes

LEMMA FinishFamilies ==
  ASSUME RunnersRight, InstancesRight, TurnsRight, RunsRight, FamiliesRight, Finish
  PROVE  FamiliesRight'
<1> DEFINE f == runners[current].i.family
<1>1. /\ UNCHANGED <<session, runners, current>> /\ pc = "report" /\ pc \in Looping
      /\ pc' \in {"next", "aborted", "undefined"}
      /\ perFamily' = IF Completes(runners[current])
                        THEN [g \in DOMAIN perFamily \ {f} |-> perFamily[g]] ELSE perFamily
  BY DEF Finish, StatsEnd, BigOEnd, Checked, Looping
<1>2. /\ current \in DOMAIN runners /\ current \in Members(f)
      /\ Complexity(runners[current].i) => f \in DOMAIN perFamily
      /\ Completes(runners[current]) <=> Complexity(runners[current].i) /\ AllDone(f)
  BY <1>1, CompletesWhenDone
<1>3. /\ Repeats' = Repeats /\ Finished' = Finished
      /\ \A g : Members(g)' = Members(g) /\ Through(g)' = Through(g)
      /\ \A g : AllDone(g)' <=> AllDone(g)
      /\ \A i : Complexity(i)' <=> Complexity(i)
  BY <1>1 DEF Repeats, Finished, Members, Through, Done, AllDone, Complexity, Options
<1>4. \A g : pc' = "next" => ~Closing(g)'
  BY DEF Closing
<1>5. ASSUME NEW g \in DOMAIN perFamily', pc' = "next" PROVE FamilyRight(g)'
  <2>1. g \in DOMAIN perFamily /\ perFamily'[g] = perFamily[g]
    BY <1>1, <1>5
  <2>2. FamilyRight(g)
    BY <1>1, <2>1 DEF FamiliesRight
  <2>3. AllDone(g) => \A r \in Members(g) : Repeats[r] = 0
    <3>1. CASE current \in Members(g)
      <4>1. g = f
        BY <3>1 DEF Members
      <4>2. ~Completes(runners[current])
        BY <1>1, <1>5, <4>1
      <4>3. Complexity(runners[current].i)
        BY <2>2, <3>1 DEF FamilyRight
      <4> QED
        BY <1>2, <4>1, <4>2, <4>3
    <3>2. CASE current \notin Members(g)
      BY <2>2, <3>2 DEF FamilyRight, Closing
    <3> QED
      BY <3>1, <3>2
  <2> HIDE DEF f
  <2> QED
    BY <1>1, <1>3, <2>1, <2>2, <2>3 DEF FamilyRight
<1>6. ASSUME NEW r \in DOMAIN runners', Complexity(runners[r].i)', pc' = "next",
             runners'[r].i.family \notin DOMAIN perFamily'
      PROVE  AllDone(runners[r].i.family)' /\ ~Closing(runners[r].i.family)'
  <2> DEFINE g == runners[r].i.family
  <2>1. r \in DOMAIN runners /\ Complexity(runners[r].i) /\ g' = g
    BY <1>1, <1>3, <1>6
  <2>2. AllDone(g)
    <3>1. CASE g \in DOMAIN perFamily
      <4>1. g = f /\ Completes(runners[current])
        BY <1>1, <1>6, <2>1, <3>1
      <4> QED
        BY <1>2, <4>1
    <3>2. CASE g \notin DOMAIN perFamily
      BY <1>1, <2>1, <3>2 DEF FamiliesRight
    <3> QED
      BY <3>1, <3>2
  <2> HIDE DEF g
  <2>3. AllDone(g)' /\ ~Closing(g)'
    BY <1>3, <1>4, <1>6, <2>1, <2>2
  <2> QED
    BY <2>3 DEF g
<1>7. pc' # "next" => pc' \notin Looping
  BY <1>1 DEF Looping
<1> QED
  BY <1>5, <1>6, <1>7 DEF FamiliesRight

LEMMA FamiliesNext ==
  ASSUME RunnersRight, InstancesRight, TurnsRight, RunsRight, FamiliesRight, [Next]_vars
  PROVE  FamiliesRight'
<1>1. CASE Register \/ Find \/ End
  <2>1. pc' \notin Looping
    BY <1>1 DEF Register, Find, End, Looping
  <2> QED
    BY <2>1 DEF FamiliesRight
<1>2. CASE Create
  BY <1>2, CreateFamilies
<1>3. CASE Begin
  BY <1>3, FamiliesKept DEF Begin, Looping
<1>4. CASE Warm \/ Measure
  <2>1. Quiet
    BY <1>4, WarmQuiet, MeasureQuiet
  <2> QED
    BY <2>1, FamiliesKept DEF Quiet, Looping
<1>5. CASE Record
  BY <1>5, RecordFamilies
<1>6. CASE Finish
  BY <1>6, FinishFamilies
<1>7. CASE UNCHANGED vars
  <2>1. UNCHANGED <<session, runners, perFamily, current, pc>>
    BY <1>7 DEF vars
  <2>2. /\ Repeats' = Repeats /\ Finished' = Finished
        /\ \A g : Members(g)' = Members(g) /\ Through(g)' = Through(g)
        /\ \A g : AllDone(g)' <=> AllDone(g)
        /\ \A g : Closing(g)' <=> Closing(g)
        /\ \A i : Complexity(i)' <=> Complexity(i)
    BY <2>1 DEF Repeats, Finished, Members, Through, Done, AllDone, Closing, Complexity, Options
  <2> SUFFICES ASSUME pc \in Looping PROVE FamiliesRight'
    BY <2>1 DEF FamiliesRight
  <2>3. ASSUME NEW g \in DOMAIN perFamily' PROVE FamilyRight(g)'
    <3>1. FamilyRight(g)
      BY <2>1, <2>3 DEF FamiliesRight
    <3> QED
      BY <2>1, <2>2, <3>1 DEF FamilyRight
  <2>4. ASSUME NEW r \in DOMAIN runners', Complexity(runners[r].i)',
               runners'[r].i.family \notin DOMAIN perFamily'
        PROVE  AllDone(runners[r].i.family)' /\ ~Closing(runners[r].i.family)'
    <3> DEFINE g == runners[r].i.family
    <3>1. AllDone(g) /\ ~Closing(g) /\ g' = g
      BY <2>1, <2>2, <2>4 DEF FamiliesRight
    <3> HIDE DEF g
    <3>2. AllDone(g)' /\ ~Closing(g)'
      BY <2>2, <3>1
    <3> QED
      BY <3>2 DEF g
  <2> QED
    BY <2>3, <2>4 DEF FamiliesRight
<1> QED
  BY <1>1, <1>2, <1>3, <1>4, <1>5, <1>6, <1>7 DEF Next

-----------------------------------------------------------------------------
(* What the reporters have been given.                                     *)

LEMMA Joined ==
  ASSUME NEW s, NEW t, s \in Seq(Range(s)), t \in Seq(Range(t))
  PROVE  /\ (s \o t) \in Seq(Range(s \o t)) /\ Len(s) \in Nat /\ Len(t) \in Nat
         /\ DOMAIN (s \o t) = 1 .. Len(s) + Len(t) /\ Len(s \o t) = Len(s) + Len(t)
         /\ \A k \in 1 .. Len(s) : (s \o t)[k] = s[k]
         /\ \A k \in Len(s) + 1 .. Len(s) + Len(t) : (s \o t)[k] = t[k - Len(s)]
<1> DEFINE S == Range(s) \cup Range(t)
<1>1. s \in Seq(S) /\ t \in Seq(S)
  OBVIOUS
<1>2. (s \o t) \in Seq(Range(s \o t))
  BY SeqJoined
<1> HIDE DEF S
<1>3. /\ Len(s \o t) = Len(s) + Len(t) /\ Len(s) \in Nat /\ Len(t) \in Nat
      /\ \A i \in 1 .. Len(s) + Len(t) :
           (s \o t)[i] = IF i <= Len(s) THEN s[i] ELSE t[i - Len(s)]
  BY <1>1, ConcatProperties, LenProperties
<1>4. DOMAIN (s \o t) = 1 .. Len(s) + Len(t)
  BY <1>2, <1>3
<1> QED
  BY <1>2, <1>3, <1>4

\* What a runner has to report beyond its runs, and to a reporter.
All(r) ==
  ComputeStats(r.runs) \o
    (IF Completes(r) THEN ComputeBigO(current, perFamily[r.i.family].runs) ELSE <<>>)

Big(r) == Completes(r) /\ Len(perFamily[r.i.family].runs) > 1

Spared(r, to) == AggregatesOnly(r.i, to) /\ All(r) # <<>>

LEMMA AllShape ==
  ASSUME RunnersRight, InstancesRight, TurnsRight, RunsRight, FamiliesRight, pc = "report"
  PROVE  LET r == runners[current]
         IN  /\ All(r) \in Seq(Range(All(r))) /\ Len(All(r)) \in Nat
             /\ DOMAIN All(r) = 1 .. Len(All(r))
             /\ \A k \in DOMAIN All(r) : All(r)[k].of = current
             /\ \A k \in DOMAIN All(r) :
                  All(r)[k].kind = IF Big(r) /\ k = Len(All(r)) THEN "BigO" ELSE "statistics"
             /\ Big(r) => /\ Len(All(r)) > 0
                          /\ All(r)[Len(All(r))].over = Range(perFamily[r.i.family].runs)
<1> DEFINE r == runners[current]
           f == r.i.family
           first == ComputeStats(r.runs)
           last == IF Completes(r) THEN ComputeBigO(current, perFamily[f].runs) ELSE <<>>
<1>1. current \in DOMAIN runners /\ pc \in Looping /\ Done(current) > 0
  BY DEF TurnsRight, Looping
<1>2. r.runs[1].of = current
  <2>1. r.runs \in Seq(Reports(current)) /\ Len(r.runs) > 0
    BY <1>1, RunnerTypes DEF Done
  <2> DEFINE runs == r.runs
  <2> HIDE DEF runs, r
  <2>2. runs[1] \in Reports(current)
    BY <2>1 DEF runs
  <2> QED
    BY <2>2 DEF Reports, runs
<1>3. first = <<>> \/ \E x : first = <<x>> /\ x.kind = "statistics" /\ x.of = current
  <2>1. CASE Cardinality(Fine(r.runs)) < 2
    BY <2>1 DEF ComputeStats
  <2>2. CASE ~(Cardinality(Fine(r.runs)) < 2)
    <3> DEFINE x == [kind |-> "statistics", of |-> r.runs[1].of, over |-> Fine(r.runs)]
    <3>1. first = <<x>>
      BY <2>2 DEF ComputeStats
    <3>2. x.kind = "statistics" /\ x.of = current
      BY <1>2
    <3> HIDE DEF first, x
    <3> QED
      BY <3>1, <3>2
  <2> QED
    BY <2>1, <2>2
<1>4. Completes(r) => Len(perFamily[f].runs) \in Nat
  <2> SUFFICES ASSUME Completes(r) PROVE Len(perFamily[f].runs) \in Nat
    OBVIOUS
  <2>1. f \in DOMAIN perFamily
    BY CompletesWhenDone
  <2>2. FamilyRight(f)
    BY <1>1, <2>1 DEF FamiliesRight
  <2>3. perFamily[f].runs \in Seq(Through(f))
    BY <2>2 DEF FamilyRight
  <2> HIDE DEF f
  <2> QED
    BY <2>3
<1>5. IF Big(r)
        THEN \E y : last = <<y>> /\ y.kind = "BigO" /\ y.of = current
                    /\ y.over = Range(perFamily[f].runs)
        ELSE last = <<>>
  <2>1. CASE Big(r)
    <3> DEFINE y == [kind |-> "BigO", of |-> current, over |-> Range(perFamily[f].runs)]
    <3>1. last = <<y>>
      BY <1>4, <2>1 DEF ComputeBigO, Big
    <3>2. y.kind = "BigO" /\ y.of = current /\ y.over = Range(perFamily[f].runs)
      OBVIOUS
    <3> HIDE DEF last, y
    <3> QED
      BY <2>1, <3>1, <3>2
  <2>2. CASE ~Big(r)
    BY <1>4, <2>2 DEF ComputeBigO, Big
  <2> QED
    BY <2>1, <2>2
<1>6. All(r) = first \o last
  BY DEF All
<1> DEFINE all == All(r)
           over == Range(perFamily[f].runs)
           big == Big(r)
<1> SUFFICES /\ all \in Seq(Range(all)) /\ Len(all) \in Nat
             /\ DOMAIN all = 1 .. Len(all)
             /\ \A k \in DOMAIN all : all[k].of = current
             /\ \A k \in DOMAIN all :
                  all[k].kind = IF big /\ k = Len(all) THEN "BigO" ELSE "statistics"
             /\ big => Len(all) > 0 /\ all[Len(all)].over = over
  BY DEF all
<1>7. all = first \o last
  BY <1>6
<1>8. /\ first = <<>> \/ \E x : first = <<x>> /\ x.kind = "statistics" /\ x.of = current
      /\ IF big THEN \E y : last = <<y>> /\ y.kind = "BigO" /\ y.of = current /\ y.over = over
         ELSE last = <<>>
  BY <1>3, <1>5
<1> HIDE DEF all, first, last, over, big, r, f
<1>9. first \in Seq(Range(first)) /\ last \in Seq(Range(last))
  <2>1. \A z : <<z>> \in Seq({z})
    OBVIOUS
  <2>2. <<>> \in Seq({})
    OBVIOUS
  <2>3. \A s, S : s \in Seq(S) => s \in Seq(Range(s))
    BY SeqIs
  <2> QED
    BY <1>8, <2>1, <2>2, <2>3
<1>10. /\ all \in Seq(Range(all)) /\ Len(all) = Len(first) + Len(last)
       /\ Len(first) \in Nat /\ Len(last) \in Nat
       /\ DOMAIN all = 1 .. Len(first) + Len(last)
       /\ \A k \in 1 .. Len(first) : all[k] = first[k]
       /\ \A k \in Len(first) + 1 .. Len(first) + Len(last) : all[k] = last[k - Len(first)]
  BY <1>7, <1>9, Joined
<1>11. \/ Len(first) = 0
       \/ Len(first) = 1 /\ first[1].kind = "statistics" /\ first[1].of = current
  BY <1>8
<1>12. IF big THEN /\ Len(last) = 1 /\ last[1].kind = "BigO" /\ last[1].of = current
                   /\ last[1].over = over
       ELSE Len(last) = 0
  BY <1>8
<1> HIDE DEF all
<1>13. ASSUME NEW k \in DOMAIN all
       PROVE  /\ all[k].of = current
              /\ all[k].kind = IF big /\ k = Len(all) THEN "BigO" ELSE "statistics"
  <2>1. CASE k \in 1 .. Len(first)
    <3>1. Len(first) = 1 /\ k = 1 /\ all[k] = first[1]
      BY <1>10, <1>11, <2>1
    <3>2. ~(big /\ k = Len(all))
      BY <1>10, <1>12, <3>1
    <3> QED
      BY <1>11, <3>1, <3>2
  <2>2. CASE k \notin 1 .. Len(first)
    <3>1. k \in Len(first) + 1 .. Len(first) + Len(last)
      BY <1>10, <2>2
    <3>2. big /\ Len(last) = 1
      BY <1>10, <1>12, <3>1
    <3>3. k = Len(all) /\ all[k] = last[1]
      BY <1>10, <3>1, <3>2
    <3> QED
      BY <1>12, <3>2, <3>3
  <2> QED
    BY <2>1, <2>2
<1>14. big => Len(all) > 0 /\ all[Len(all)].over = over
  <2> SUFFICES ASSUME big PROVE Len(all) > 0 /\ all[Len(all)].over = over
    OBVIOUS
  <2>1. Len(all) = Len(first) + 1 /\ all[Len(first) + 1] = last[1]
    <3> DEFINE n == Len(first)
    <3>1. Len(last) = 1 /\ n \in Nat
      BY <1>10, <1>12
    <3>2. n + 1 \in n + 1 .. n + 1 /\ (n + 1) - n = 1
      BY <3>1
    <3> QED
      BY <1>10, <3>1, <3>2
  <2> QED
    BY <1>10, <1>12, <2>1
<1> QED
  BY <1>10, <1>13, <1>14

LEMMA ReportShape ==
  ASSUME RunnersRight, InstancesRight, TurnsRight, RunsRight, FamiliesRight, pc = "report",
         NEW to
  PROVE  LET r == runners[current]
             R == Report(r, All(r), to)
             m == IF Spared(r, to) THEN 0 ELSE r.repeats
         IN  /\ R \in Seq(Range(R)) /\ m \in Nat /\ Len(All(r)) \in Nat
             /\ Len(R) = m + Len(All(r))
             /\ \A k \in 1 .. m : /\ R[k].kind = "run" /\ R[k].of = current
                                  /\ R[k].repetition = k - 1
             /\ \A k \in m + 1 .. m + Len(All(r)) : R[k] = All(r)[k - m]
<1> DEFINE r == runners[current]
           runs == [k \in DOMAIN r.runs |-> [kind |-> "run", of |-> r.runs[k].of,
                                             repetition |-> r.runs[k].repetition]]
           given == IF Spared(r, to) THEN <<>> ELSE runs
           m == IF Spared(r, to) THEN 0 ELSE r.repeats
           all == All(r)
<1>1. current \in DOMAIN runners /\ Done(current) = r.repeats
  BY DEF TurnsRight, Looping
<1>2. r.repeats \in Nat /\ r.runs \in Seq(Reports(current)) /\ DOMAIN r.runs = 1 .. r.repeats
  <2>1. r.repeats \in Nat /\ r.runs \in Seq(Reports(current)) /\ Len(r.runs) = r.repeats
    BY <1>1, RunnerTypes DEF Done
  <2> HIDE DEF r
  <2> QED
    BY <2>1
<1>3. ASSUME NEW k \in 1 .. r.repeats
      PROVE  runs[k].kind = "run" /\ runs[k].of = current /\ runs[k].repetition = k - 1
  <2>1. r.runs[k].repetition = k - 1
    BY <1>1, <1>2 DEF RunsRight
  <2>2. r.runs[k] \in Reports(current)
    <3> HIDE DEF r
    <3> QED
      BY <1>2
  <2>3. r.runs[k].of = current
    BY <2>2 DEF Reports
  <2> QED
    BY <1>2, <2>1, <2>3
<1>4. runs \in Seq(Range(runs)) /\ Len(runs) = r.repeats
  <2>1. DOMAIN runs = 1 .. r.repeats
    BY <1>2
  <2>2. runs = [k \in 1 .. r.repeats |-> runs[k]]
    BY <1>2
  <2> HIDE DEF runs, r
  <2> QED
    BY <1>2, <2>1, <2>2, SeqMade
<1>5. Report(r, all, to) = given \o all
  BY DEF Report, Spared
<1>6. all \in Seq(Range(all))
  BY AllShape
<1>7. given \in Seq(Range(given)) /\ Len(given) = m /\ m \in Nat
  <2>1. <<>> \in Seq(Range(<<>>)) /\ Len(<<>>) = 0
    BY DEF Range
  <2> DEFINE spared == Spared(r, to)
             n == r.repeats
  <2>2. n \in Nat /\ Len(runs) = n /\ runs \in Seq(Range(runs))
    BY <1>2, <1>4
  <2>3. given = (IF spared THEN <<>> ELSE runs) /\ m = (IF spared THEN 0 ELSE n)
    OBVIOUS
  <2> HIDE DEF runs, given, m, n, spared
  <2>4. CASE spared
    BY <2>1, <2>3, <2>4
  <2>5. CASE ~spared
    BY <2>2, <2>3, <2>5
  <2> QED
    BY <2>4, <2>5
<1>8. \A k \in 1 .. m : given[k].kind = "run" /\ given[k].of = current /\ given[k].repetition = k - 1
  <2> HIDE DEF runs
  <2> QED
    BY <1>3
<1> HIDE DEF given, all
<1>9. /\ (given \o all) \in Seq(Range(given \o all)) /\ Len(all) \in Nat
      /\ Len(given \o all) = Len(given) + Len(all)
      /\ \A k \in 1 .. Len(given) : (given \o all)[k] = given[k]
      /\ \A k \in Len(given) + 1 .. Len(given) + Len(all) : (given \o all)[k] = all[k - Len(given)]
  BY <1>6, <1>7, Joined
<1> DEFINE R == Report(r, all, to)
<1>10. R = given \o all
  BY <1>5
<1> HIDE DEF R, m, r
<1>11. /\ R \in Seq(Range(R)) /\ m \in Nat /\ Len(all) \in Nat
       /\ Len(R) = m + Len(all)
       /\ \A k \in 1 .. m : R[k].kind = "run" /\ R[k].of = current /\ R[k].repetition = k - 1
       /\ \A k \in m + 1 .. m + Len(all) : R[k] = all[k - m]
  BY <1>7, <1>8, <1>9, <1>10
<1> QED
  BY <1>11 DEF R, m, r, all

\* What has come through of a family is the same, by name or by index.
LEMMA SameThrough ==
  ASSUME InstancesRight, NEW r \in DOMAIN runners
  PROVE  CameThrough(runners[r].i.of) = Through(runners[r].i.family)
<1>1. {q \in DOMAIN runners : runners[q].i.of = runners[r].i.of} = Members(runners[r].i.family)
  BY DEF InstancesRight, Members
<1> QED
  BY <1>1 DEF CameThrough, Through

\* A step that gives the reporters nothing.
LEMMA LogKept ==
  ASSUME RunnersRight, InstancesRight, TurnsRight, RunsRight, LogRight,
         UNCHANGED <<session, log>>, pc \in Looping, pc' \in Looping,
         DOMAIN runners' = DOMAIN runners, DOMAIN perFamily' = DOMAIN perFamily,
         \A r \in DOMAIN runners :
           /\ runners'[r].i = runners[r].i /\ runners'[r].repeats = runners[r].repeats
           /\ (Reported(r) <=> Reported(r)'),
         \A r \in DOMAIN runners :
           Complexity(runners[r].i) /\ runners[r].i.family \notin DOMAIN perFamily =>
             \A q \in Members(runners[r].i.family) : runners'[q].runs = runners[q].runs
  PROVE  LogRight'
<1>1. DOMAIN log' = session'.reporters /\ pc' \notin {"register", "find", "create"}
  BY DEF LogRight, Looping
<1>2. ASSUME NEW to \in session'.reporters
      PROVE  /\ log'[to] \in Seq(Range(log'[to]))
             /\ \A k \in DOMAIN log'[to] : log'[to][k].of \in DOMAIN runners'
             /\ \A r \in DOMAIN runners' :
                  /\ IF Reported(r)' THEN Given(r, to)' ELSE Entries(r, Kinds, to)' = {}
                  /\ IF Complexity(runners[r].i)' /\ runners'[r].i.family \notin DOMAIN perFamily'
                       THEN Computed(runners[r].i.of, to)' ELSE BigOs(runners[r].i.of, to)' = {}
  <2>1. /\ log[to] \in Seq(Range(log[to]))
        /\ \A k \in DOMAIN log[to] : log[to][k].of \in DOMAIN runners
        /\ \A r \in DOMAIN runners :
             /\ IF Reported(r) THEN Given(r, to) ELSE Entries(r, Kinds, to) = {}
             /\ IF Complexity(runners[r].i) /\ runners[r].i.family \notin DOMAIN perFamily
                  THEN Computed(runners[r].i.of, to) ELSE BigOs(runners[r].i.of, to) = {}
    BY <1>2 DEF LogRight
  <2>2. \A r, kinds : Entries(r, kinds, to)' = Entries(r, kinds, to)
    BY DEF Entries
  <2>3. ASSUME NEW n PROVE BigOs(n, to)' = BigOs(n, to)
    BY <2>1 DEF BigOs
  <2>4. ASSUME NEW r \in DOMAIN runners, Given(r, to) PROVE Given(r, to)'
    <3>1. AggregatesOnly(runners[r].i, to)' <=> AggregatesOnly(runners[r].i, to)
      BY DEF AggregatesOnly, Options
    <3>2. runners'[r].repeats = runners[r].repeats
      OBVIOUS
    <3> QED
      BY <2>2, <2>4, <3>1, <3>2 DEF Given
  <2>5. ASSUME NEW r \in DOMAIN runners
        PROVE  /\ Complexity(runners[r].i)' <=> Complexity(runners[r].i)
               /\ runners'[r].i.family = runners[r].i.family
    BY DEF Complexity, Options
  <2>6. ASSUME NEW r \in DOMAIN runners, Complexity(runners[r].i),
               runners[r].i.family \notin DOMAIN perFamily
        PROVE  Computed(runners[r].i.of, to)'
    <3> DEFINE n == runners[r].i.of
    <3>1. n' = n
      OBVIOUS
    <3>2. {q \in DOMAIN runners : runners[q].i.of = n} = Members(runners[r].i.family)
      BY DEF InstancesRight, Members
    <3>3. Computed(n, to)
      BY <2>1, <2>6
    <3>4. \A q \in DOMAIN runners : runners[q].i.of = n => runners'[q].runs = runners[q].runs
      BY <2>6, <3>2
    <3> HIDE DEF n
    <3>5. CameThrough(n)' = CameThrough(n)
      BY <3>1, <3>4 DEF CameThrough
    <3>6. BigOs(n, to)' = BigOs(n, to)
      BY <2>3, <3>1
    <3>7. Computed(n, to)'
      BY <3>1, <3>3, <3>5, <3>6 DEF Computed
    <3> QED
      BY <3>7 DEF n
  <2>7. ASSUME NEW r \in DOMAIN runners
        PROVE  BigOs(runners[r].i.of, to)' = BigOs(runners[r].i.of, to)
    <3> DEFINE n == runners[r].i.of
    <3>1. n' = n
      OBVIOUS
    <3> HIDE DEF n
    <3>2. BigOs(n, to)' = BigOs(n, to)
      BY <2>3, <3>1
    <3> QED
      BY <3>2 DEF n
  <2> QED
    BY <2>1, <2>2, <2>4, <2>5, <2>6, <2>7 DEF Kinds
<1> QED
  BY <1>1, <1>2 DEF LogRight

LEMMA CreateLog ==
  ASSUME RunnersRight, InstancesRight, TurnsRight, RunsRight, LogRight, Create
  PROVE  LogRight'
<1>1. /\ UNCHANGED <<session, runners, log>> /\ pc = "create" /\ pc' = "next"
  BY DEF Create
<1>2. DOMAIN log' = session'.reporters /\ \A to \in session'.reporters : log'[to] = <<>>
  BY <1>1 DEF LogRight
<1>3. ASSUME NEW r \in DOMAIN runners', Complexity(runners[r].i)'
      PROVE  runners'[r].i.family \in DOMAIN perFamily'
  BY <1>1, <1>3 DEF Create, Complexity, Options
<1>4. ASSUME NEW to \in session'.reporters
      PROVE  /\ log'[to] \in Seq(Range(log'[to]))
             /\ \A k \in DOMAIN log'[to] : log'[to][k].of \in DOMAIN runners'
             /\ \A r \in DOMAIN runners' :
                  /\ IF Reported(r)' THEN Given(r, to)' ELSE Entries(r, Kinds, to)' = {}
                  /\ BigOs(runners[r].i.of, to)' = {}
  <2>1. log'[to] = <<>> /\ DOMAIN <<>> = {} /\ <<>> \in Seq(Range(<<>>)) /\ Len(<<>>) = 0
    BY <1>2, <1>4 DEF Range
  <2>2. \A r, kinds : Entries(r, kinds, to)' = {}
    BY <2>1 DEF Entries
  <2>3. \A n : BigOs(n, to)' = {}
    BY <2>1 DEF BigOs
  <2>4. ASSUME NEW r \in DOMAIN runners', Reported(r)' PROVE Given(r, to)'
    <3>1. runners'[r].repeats = 0
      <4>1. runners[r].runs = <<>>
        BY <1>1, <2>4 DEF RunsRight
      <4> QED
        BY <1>1, <2>4, <4>1 DEF Reported, Done
    <3>2. Entries(r, {"run"}, to)' = {} /\ Entries(r, {"statistics", "BigO"}, to)' = {}
      BY <2>2
    <3>3. 0 + 1 .. 0 + 0 = {} /\ 0 \in 0 .. Len(log'[to])
      BY <2>1
    <3> QED
      BY <3>1, <3>2, <3>3 DEF Given
  <2>5. ASSUME NEW r \in DOMAIN runners' PROVE BigOs(runners[r].i.of, to)' = {}
    <3>1. DOMAIN log'[to] = {}
      BY <2>1
    <3> QED
      BY <3>1 DEF BigOs
  <2> QED
    BY <2>1, <2>2, <2>4, <2>5 DEF Kinds
<1> QED
  BY <1>1, <1>2, <1>3, <1>4 DEF LogRight

LEMMA RecordLog ==
  ASSUME RunnersRight, InstancesRight, TurnsRight, RunsRight, FamiliesRight, LogRight, Record
  PROVE  LogRight'
<1> DEFINE run == CreateRunReport(runners[current])
<1>1. /\ UNCHANGED <<session, current, log>> /\ pc = "record" /\ pc \in Looping /\ pc' \in Looping
      /\ pc' = IF Done(current) + 1 # runners[current].repeats THEN "next" ELSE "report"
      /\ DOMAIN runners' = DOMAIN runners
      /\ \A r \in DOMAIN runners :
           /\ runners'[r].i = runners[r].i /\ runners'[r].repeats = runners[r].repeats
           /\ r # current => runners'[r].runs = runners[r].runs
      /\ runners'[current].runs = Append(runners[current].runs, run)
      /\ DOMAIN perFamily' = DOMAIN perFamily
  BY RecordFacts DEF Looping
<1>2. /\ current \in DOMAIN runners /\ Done(current) < runners[current].repeats
      /\ \A g : AllDone(g) => current \notin Members(g)
  BY <1>1, NotAllDone
<1>3. Done(current)' = Done(current) + 1 /\ Done(current) \in Nat /\ runners[current].repeats \in Nat
  <2>1. runners[current].runs \in Seq(Reports(current)) /\ Done(current) \in Nat
        /\ runners[current].repeats \in Nat
    BY <1>2, RunnerTypes
  <2>2. Len(runners'[current].runs) = Len(runners[current].runs) + 1
    <3> HIDE DEF run
    <3> QED
      BY <1>1, <2>1
  <2> QED
    BY <1>1, <2>1, <2>2 DEF Done
<1>4. ASSUME NEW r \in DOMAIN runners PROVE Reported(r) <=> Reported(r)'
  <2>1. CASE r = current
    <3>1. ~Reported(r)
      BY <1>2, <1>3, <2>1 DEF Reported
    <3>2. ASSUME Reported(r)' PROVE FALSE
      <4>1. Done(current) + 1 = runners[current].repeats
        BY <1>1, <1>2, <1>3, <2>1, <3>2 DEF Reported, Done
      <4>2. pc' = "report"
        BY <1>1, <4>1
      <4> QED
        BY <1>1, <2>1, <3>2, <4>2 DEF Reported
    <3> QED
      BY <3>1, <3>2
  <2>2. CASE r # current
    BY <1>1, <2>2 DEF Reported, Done
  <2> QED
    BY <2>1, <2>2
<1>5. ASSUME NEW r \in DOMAIN runners, Complexity(runners[r].i),
             runners[r].i.family \notin DOMAIN perFamily, NEW q \in Members(runners[r].i.family)
      PROVE  runners'[q].runs = runners[q].runs
  <2>1. AllDone(runners[r].i.family)
    BY <1>1, <1>5 DEF FamiliesRight
  <2>2. q # current /\ q \in DOMAIN runners
    BY <1>2, <1>5, <2>1 DEF Members
  <2> QED
    BY <1>1, <2>2
<1> QED
  BY <1>1, <1>4, <1>5, LogKept

\* What a reporter has been given with the report of the current runner: after
\* old, some runs and some aggregates.
Extended(old, new, runs, all) ==
  /\ old \in Seq(Range(old)) /\ new \in Seq(Range(new)) /\ runs \in Nat /\ all \in Nat
  /\ Len(new) = Len(old) + runs + all
  /\ \A k \in 1 .. Len(old) : new[k] = old[k]
  /\ \A k \in Len(old) + 1 .. Len(old) + runs :
       new[k].kind = "run" /\ new[k].of = current /\ new[k].repetition = k - Len(old) - 1
  /\ \A k \in Len(old) + runs + 1 .. Len(new) :
       /\ new[k].of = current
       /\ new[k].kind = IF Big(runners[current]) /\ k = Len(new) THEN "BigO" ELSE "statistics"
  /\ Big(runners[current]) =>
       all > 0 /\ new[Len(new)].over = Range(perFamily[runners[current].i.family].runs)

LEMMA NewLog ==
  ASSUME RunnersRight, InstancesRight, TurnsRight, RunsRight, FamiliesRight, LogRight, Finish,
         pc' = "next", NEW to \in session.reporters
  PROVE  \E runs, all :
           /\ Extended(log[to], log'[to], runs, all)
           /\ runs = IF AggregatesOnly(runners[current].i, to) /\ all # 0 THEN 0
                     ELSE runners[current].repeats
<1> DEFINE r == runners[current]
           old == log[to]
           R == Report(r, All(r), to)
           new == log'[to]
           m == IF Spared(r, to) THEN 0 ELSE r.repeats
           c == Len(All(r))
<1>1. pc = "report" /\ new = old \o R
  BY DEF Finish, All
<1>2. old \in Seq(Range(old))
  BY <1>1 DEF LogRight, Looping
<1>3. /\ R \in Seq(Range(R)) /\ m \in Nat /\ c \in Nat /\ Len(R) = m + c
      /\ \A k \in 1 .. m : R[k].kind = "run" /\ R[k].of = current /\ R[k].repetition = k - 1
      /\ \A k \in m + 1 .. m + c : R[k] = All(r)[k - m]
  BY <1>1, ReportShape
<1> DEFINE all == All(r)
           big == Big(r)
           over == Range(perFamily[r.i.family].runs)
<1>4. /\ DOMAIN all = 1 .. c
      /\ \A k \in 1 .. c : /\ all[k].of = current
                           /\ all[k].kind = IF big /\ k = c THEN "BigO" ELSE "statistics"
      /\ big => c > 0 /\ all[c].over = over
  BY <1>1, AllShape
<1>5. m = IF AggregatesOnly(r.i, to) /\ c # 0 THEN 0 ELSE r.repeats
  <2>1. all # <<>> <=> c # 0
    <3>1. all \in Seq(Range(all))
      BY <1>1, AllShape
    <3> HIDE DEF all
    <3> QED
      BY <3>1 DEF all
  <2> QED
    BY <2>1 DEF Spared
<1>6. \A k \in m + 1 .. m + c : R[k] = all[k - m]
  BY <1>3
<1>7. Extended(old, new, m, c) <=>
        /\ old \in Seq(Range(old)) /\ new \in Seq(Range(new)) /\ m \in Nat /\ c \in Nat
        /\ Len(new) = Len(old) + m + c
        /\ \A k \in 1 .. Len(old) : new[k] = old[k]
        /\ \A k \in Len(old) + 1 .. Len(old) + m :
             new[k].kind = "run" /\ new[k].of = current /\ new[k].repetition = k - Len(old) - 1
        /\ \A k \in Len(old) + m + 1 .. Len(new) :
             /\ new[k].of = current
             /\ new[k].kind = IF big /\ k = Len(new) THEN "BigO" ELSE "statistics"
        /\ big => c > 0 /\ new[Len(new)].over = over
  BY DEF Extended
<1> HIDE DEF r, old, new, R, m, c, all, big, over
<1>8. /\ new \in Seq(Range(new)) /\ Len(old) \in Nat
      /\ Len(new) = Len(old) + Len(R)
      /\ \A k \in 1 .. Len(old) : new[k] = old[k]
      /\ \A k \in Len(old) + 1 .. Len(old) + Len(R) : new[k] = R[k - Len(old)]
  BY <1>1, <1>2, <1>3, Joined
<1>9. Len(new) = Len(old) + m + c
  BY <1>3, <1>8
<1>10. ASSUME NEW k \in Len(old) + 1 .. Len(old) + m
       PROVE  /\ new[k].kind = "run" /\ new[k].of = current
              /\ new[k].repetition = k - Len(old) - 1
  <2>1. k \in Len(old) + 1 .. Len(old) + Len(R) /\ k - Len(old) \in 1 .. m
    BY <1>3, <1>8
  <2>2. new[k] = R[k - Len(old)]
    BY <1>8, <2>1
  <2> QED
    BY <1>3, <2>1, <2>2
<1>11. ASSUME NEW k \in Len(old) + m + 1 .. Len(new)
       PROVE  new[k] = all[k - Len(old) - m] /\ k - Len(old) - m \in 1 .. c
  <2>1. /\ k \in Len(old) + 1 .. Len(old) + Len(R) /\ k - Len(old) \in m + 1 .. m + c
        /\ k - Len(old) - m \in 1 .. c
    BY <1>3, <1>8, <1>9
  <2>2. new[k] = R[k - Len(old)]
    BY <1>8, <2>1
  <2>3. R[k - Len(old)] = all[(k - Len(old)) - m]
    BY <1>6, <2>1
  <2> QED
    BY <2>1, <2>2, <2>3
<1>12. ASSUME NEW k \in Len(old) + m + 1 .. Len(new)
       PROVE  /\ new[k].of = current
              /\ new[k].kind = IF big /\ k = Len(new) THEN "BigO" ELSE "statistics"
  <2>1. k = Len(new) <=> k - Len(old) - m = c
    BY <1>3, <1>8, <1>9
  <2> QED
    BY <1>4, <1>11, <2>1
<1>13. ASSUME big PROVE c > 0 /\ new[Len(new)].over = over
  <2>1. c > 0 /\ all[c].over = over
    BY <1>4, <1>13
  <2>2. Len(new) \in Len(old) + m + 1 .. Len(new) /\ Len(new) - Len(old) - m = c
    BY <1>3, <1>8, <1>9, <2>1
  <2> QED
    BY <1>11, <2>1, <2>2
<1>14. Extended(old, new, m, c)
  BY <1>2, <1>3, <1>7, <1>8, <1>9, <1>10, <1>12, <1>13
<1> QED
  BY <1>5, <1>14 DEF old, new, r

PlacesOf(s, kinds, r) == {k \in DOMAIN s : s[k].kind \in kinds /\ s[k].of = r}

\* Where the new entries are.
LEMMA NewEntries ==
  ASSUME NEW old, NEW new, NEW runs, NEW all, Extended(old, new, runs, all)
  PROVE  /\ \A r, kinds : r # current => PlacesOf(new, kinds, r) = PlacesOf(old, kinds, r)
         /\ PlacesOf(old, Kinds, current) = {} =>
              /\ PlacesOf(new, {"run"}, current) = Len(old) + 1 .. Len(old) + runs
              /\ PlacesOf(new, {"statistics", "BigO"}, current) = Len(old) + runs + 1 .. Len(new)
<1>1. /\ DOMAIN old = 1 .. Len(old) /\ DOMAIN new = 1 .. Len(new)
      /\ Len(old) \in Nat /\ runs \in Nat /\ all \in Nat
      /\ Len(new) = Len(old) + runs + all
  BY DEF Extended
<1>2. \A k \in 1 .. Len(old) : new[k] = old[k] /\ k \in 1 .. Len(new)
  BY <1>1 DEF Extended
<1>3. \A k \in Len(old) + 1 .. Len(old) + runs :
        new[k].kind = "run" /\ new[k].of = current /\ k \in 1 .. Len(new)
  BY <1>1 DEF Extended
<1>4. \A k \in Len(old) + runs + 1 .. Len(new) :
        /\ new[k].of = current /\ new[k].kind \in {"statistics", "BigO"}
        /\ k \in 1 .. Len(new)
  BY <1>1 DEF Extended
<1>5. ASSUME NEW k \in 1 .. Len(new)
      PROVE  \/ k \in 1 .. Len(old) \/ k \in Len(old) + 1 .. Len(old) + runs
             \/ k \in Len(old) + runs + 1 .. Len(new)
  BY <1>1
<1>6. \A k \in 1 .. Len(old) : /\ k \notin Len(old) + 1 .. Len(old) + runs
                               /\ k \notin Len(old) + runs + 1 .. Len(new)
  BY <1>1
<1>7. ASSUME NEW r, NEW kinds, r # current
      PROVE  {k \in DOMAIN new : new[k].kind \in kinds /\ new[k].of = r}
                = {k \in DOMAIN old : old[k].kind \in kinds /\ old[k].of = r}
  BY <1>1, <1>2, <1>3, <1>4, <1>5, <1>7
<1>8. ASSUME {k \in DOMAIN old : old[k].kind \in Kinds /\ old[k].of = current} = {}
      PROVE  /\ {k \in DOMAIN new : new[k].kind \in {"run"} /\ new[k].of = current}
                   = Len(old) + 1 .. Len(old) + runs
             /\ {k \in DOMAIN new : new[k].kind \in {"statistics", "BigO"} /\ new[k].of = current}
                   = Len(old) + runs + 1 .. Len(new)
  <2>1. \A k \in 1 .. Len(old) :
          new[k].of = current => new[k].kind \notin {"run", "statistics", "BigO"}
    BY <1>1, <1>2, <1>8 DEF Kinds
  <2>2. {k \in DOMAIN new : new[k].kind \in {"run"} /\ new[k].of = current}
           = Len(old) + 1 .. Len(old) + runs
    BY <1>1, <1>3, <1>4, <1>5, <2>1
  <2>3. {k \in DOMAIN new : new[k].kind \in {"statistics", "BigO"} /\ new[k].of = current}
           = Len(old) + runs + 1 .. Len(new)
    BY <1>1, <1>3, <1>4, <1>5, <2>1
  <2> QED
    BY <2>2, <2>3
<1> QED
  BY <1>7, <1>8 DEF PlacesOf

\* After the report a reporter has been given what it is to be given.
LEMMA GivenNext ==
  ASSUME RunnersRight, InstancesRight, TurnsRight, RunsRight, FamiliesRight, LogRight, Finish,
         pc' = "next", NEW to \in session.reporters, NEW r \in DOMAIN runners
  PROVE  IF Reported(r)' THEN Given(r, to)' ELSE Entries(r, Kinds, to)' = {}
<1> DEFINE old == log[to]
           new == log'[to]
<1>1. UNCHANGED <<session, runners, current>> /\ pc = "report"
  BY DEF Finish
<1>2. current \in DOMAIN runners /\ Done(current) = runners[current].repeats
  BY <1>1 DEF TurnsRight, Looping
<1>3. PICK runs, all : /\ Extended(old, new, runs, all)
                       /\ runs = IF AggregatesOnly(runners[current].i, to) /\ all # 0 THEN 0
                                 ELSE runners[current].repeats
  BY NewLog
<1>4. IF Reported(r) THEN Given(r, to) ELSE Entries(r, Kinds, to) = {}
  BY <1>1 DEF LogRight, Looping
<1>5. \A i : AggregatesOnly(i, to)' <=> AggregatesOnly(i, to)
  BY <1>1 DEF AggregatesOnly, Options
<1>6. /\ Len(old) \in Nat /\ runs \in Nat /\ all \in Nat /\ Len(new) = Len(old) + runs + all
      /\ DOMAIN new = 1 .. Len(new) /\ DOMAIN old = 1 .. Len(old)
      /\ \A k \in 1 .. Len(old) : new[k] = old[k]
      /\ \A k \in Len(old) + 1 .. Len(old) + runs : new[k].repetition = k - Len(old) - 1
  BY <1>3 DEF Extended
<1>7. CASE r # current
  <2>1. ASSUME NEW kinds PROVE Entries(r, kinds, to)' = Entries(r, kinds, to)
    <3>1. PlacesOf(new, kinds, r) = PlacesOf(old, kinds, r)
      <4> HIDE DEF new, old
      <4> QED
        BY <1>3, <1>7, NewEntries
    <3> QED
      BY <3>1 DEF Entries, PlacesOf
  <2>2. Reported(r)' <=> Reported(r)
    BY <1>1, <1>7 DEF Reported, Done
  <2>3. ASSUME Given(r, to) PROVE Given(r, to)'
    <3> DEFINE single == Entries(r, {"run"}, to)
               others == Entries(r, {"statistics", "BigO"}, to)
               only == AggregatesOnly(runners[r].i, to)
               n == runners[r].repeats
    <3>1. IF only /\ others # {} THEN single = {}
          ELSE \E before \in 0 .. Len(old) :
                 /\ single = before + 1 .. before + n
                 /\ \A k \in single : old[k].repetition = k - before - 1
      BY <2>3 DEF Given
    <3>2. single \subseteq 1 .. Len(old)
      BY <1>6 DEF Entries
    <3>3. IF only /\ others # {} THEN single = {}
          ELSE \E before \in 0 .. Len(new) :
                 /\ single = before + 1 .. before + n
                 /\ \A k \in single : new[k].repetition = k - before - 1
      <4> SUFFICES ASSUME ~(only /\ others # {})
                   PROVE  \E before \in 0 .. Len(new) :
                            /\ single = before + 1 .. before + n
                            /\ \A k \in single : new[k].repetition = k - before - 1
        BY <3>1
      <4>1. PICK before \in 0 .. Len(old) :
              /\ single = before + 1 .. before + n
              /\ \A k \in single : old[k].repetition = k - before - 1
        BY <3>1
      <4>2. before \in 0 .. Len(new)
        BY <1>6
      <4>3. \A k \in single : new[k].repetition = k - before - 1
        BY <1>6, <3>2, <4>1
      <4> QED
        BY <4>1, <4>2, <4>3
    <3>4. /\ Entries(r, {"run"}, to)' = single
          /\ Entries(r, {"statistics", "BigO"}, to)' = others
          /\ AggregatesOnly(runners[r].i, to)' <=> only
          /\ runners'[r].repeats = n
      BY <1>1, <1>5, <2>1
    <3> HIDE DEF single, others, only, n
    <3> QED
      BY <3>3, <3>4 DEF Given
  <2> QED
    BY <1>4, <2>1, <2>2, <2>3
<1>8. CASE r = current
  <2>1. ~Reported(current) /\ Reported(r)'
    BY <1>1, <1>2, <1>8 DEF Reported, Done
  <2>2. Entries(current, Kinds, to) = {}
    BY <1>4, <1>8, <2>1
  <2>9. PlacesOf(old, Kinds, current) = {}
    BY <2>2 DEF Entries, PlacesOf
  <2>10. /\ PlacesOf(new, {"run"}, r) = Len(old) + 1 .. Len(old) + runs
         /\ PlacesOf(new, {"statistics", "BigO"}, r) = Len(old) + runs + 1 .. Len(new)
    BY <1>3, <1>8, <2>9, NewEntries
  <2>3. /\ Entries(r, {"run"}, to)' = Len(old) + 1 .. Len(old) + runs
        /\ Entries(r, {"statistics", "BigO"}, to)' = Len(old) + runs + 1 .. Len(new)
    BY <2>2, <2>9, <2>10 DEF Entries, PlacesOf
  <2> DEFINE only == AggregatesOnly(runners[current].i, to)
             n == runners[current].repeats
  <2>4. runs = IF only /\ all # 0 THEN 0 ELSE n
    BY <1>3
  <2>5. /\ AggregatesOnly(runners[r].i, to)' <=> only
        /\ runners'[r].repeats = n
    BY <1>1, <1>5, <1>8
  <2> HIDE DEF only, n
  <2>6. (Len(old) + runs + 1 .. Len(new) # {}) <=> all # 0
    <3>1. all # 0 => Len(new) \in Len(old) + runs + 1 .. Len(new)
      BY <1>6
    <3>2. all = 0 => \A k \in Len(old) + runs + 1 .. Len(new) : FALSE
      BY <1>6
    <3> QED
      BY <3>1, <3>2
  <2>7. IF only /\ Len(old) + runs + 1 .. Len(new) # {} THEN Len(old) + 1 .. Len(old) + runs = {}
        ELSE \E before \in 0 .. Len(new) :
               /\ Len(old) + 1 .. Len(old) + runs = before + 1 .. before + n
               /\ \A k \in Len(old) + 1 .. Len(old) + runs : new[k].repetition = k - before - 1
    <3>1. CASE only /\ all # 0
      BY <1>6, <2>4, <2>6, <3>1
    <3>2. CASE ~(only /\ all # 0)
      <4>1. Len(old) \in 0 .. Len(new) /\ runs = n
        BY <1>6, <2>4, <3>2
      <4> QED
        BY <1>6, <2>6, <3>2, <4>1
    <3> QED
      BY <3>1, <3>2
  <2>8. Given(r, to)'
    BY <2>3, <2>5, <2>7 DEF Given
  <2> QED
    BY <2>1, <2>8
<1> QED
  BY <1>7, <1>8

\* The Big-O of a family is given with the last report of its runners.
LEMMA BigONext ==
  ASSUME RunnersRight, InstancesRight, TurnsRight, RunsRight, FamiliesRight, LogRight, Finish,
         pc' = "next", NEW to \in session.reporters, NEW r \in DOMAIN runners
  PROVE  IF Complexity(runners[r].i)' /\ runners'[r].i.family \notin DOMAIN perFamily'
           THEN Computed(runners[r].i.of, to)' ELSE BigOs(runners[r].i.of, to)' = {}
<1> DEFINE old == log[to]
           new == log'[to]
           n == runners[r].i.of
           f == runners[current].i.family
<1>1. /\ UNCHANGED <<session, runners, current>> /\ pc = "report" /\ pc \in Looping
      /\ perFamily' = IF Completes(runners[current])
                        THEN [g \in DOMAIN perFamily \ {f} |-> perFamily[g]] ELSE perFamily
  BY DEF Finish, Looping
<1>2. /\ current \in DOMAIN runners
      /\ Complexity(runners[current].i) => f \in DOMAIN perFamily
      /\ Completes(runners[current]) => Complexity(runners[current].i)
  BY <1>1, CompletesWhenDone
<1>3. PICK runs, all : Extended(old, new, runs, all)
  BY NewLog
<1>4. /\ Len(old) \in Nat /\ runs \in Nat /\ all \in Nat /\ Len(new) = Len(old) + runs + all
      /\ DOMAIN new = 1 .. Len(new) /\ DOMAIN old = 1 .. Len(old)
      /\ \A k \in 1 .. Len(old) : new[k] = old[k]
      /\ \A k \in Len(old) + 1 .. Len(old) + runs : new[k].kind = "run"
      /\ \A k \in Len(old) + runs + 1 .. Len(new) :
           /\ new[k].of = current
           /\ new[k].kind = IF Big(runners[current]) /\ k = Len(new) THEN "BigO" ELSE "statistics"
      /\ Big(runners[current]) => all > 0 /\ new[Len(new)].over = Range(perFamily[f].runs)
  BY <1>3 DEF Extended
<1>5. IF Complexity(runners[r].i) /\ runners[r].i.family \notin DOMAIN perFamily
        THEN Computed(n, to) ELSE BigOs(n, to) = {}
  BY <1>1 DEF LogRight
<1> DEFINE big == Big(runners[current]) /\ runners[current].i.of = n
<1>6. BigOs(n, to)' = BigOs(n, to) \cup (IF big THEN {Len(new)} ELSE {})
  <2>1. /\ BigOs(n, to)' = {k \in DOMAIN new : new[k].kind = "BigO" /\ runners[new[k].of].i.of = n}
        /\ BigOs(n, to) = {k \in DOMAIN old : old[k].kind = "BigO" /\ runners[old[k].of].i.of = n}
    BY <1>1 DEF BigOs
  <2>2. ASSUME NEW k \in 1 .. Len(new)
        PROVE  \/ k \in 1 .. Len(old) \/ k \in Len(old) + 1 .. Len(old) + runs
               \/ k \in Len(old) + runs + 1 .. Len(new)
    BY <1>4
  <2>3. Big(runners[current]) => Len(new) \in Len(old) + runs + 1 .. Len(new)
    BY <1>4
  <2>4. \A k \in 1 .. Len(old) : k \in 1 .. Len(new)
    BY <1>4
  <2>5. \A k \in Len(old) + runs + 1 .. Len(new) : k \in 1 .. Len(new)
    BY <1>4
  <2> DEFINE N == {k \in DOMAIN new : new[k].kind = "BigO" /\ runners[new[k].of].i.of = n}
             O == {k \in DOMAIN old : old[k].kind = "BigO" /\ runners[old[k].of].i.of = n}
  <2>6. N = O \cup (IF big THEN {Len(new)} ELSE {})
    <3>1. ASSUME NEW k \in N PROVE k \in O \cup (IF big THEN {Len(new)} ELSE {})
      <4>1. CASE k \in 1 .. Len(old)
        BY <1>4, <4>1
      <4>2. CASE k \in Len(old) + 1 .. Len(old) + runs
        BY <1>4, <4>2
      <4>3. CASE k \in Len(old) + runs + 1 .. Len(new)
        BY <1>4, <4>3
      <4> QED
        BY <1>4, <2>2, <4>1, <4>2, <4>3
    <3>2. ASSUME NEW k \in O PROVE k \in N
      BY <1>4, <2>4
    <3>3. big => Len(new) \in N
      BY <1>4, <2>3, <2>5
    <3> HIDE DEF N, O, big
    <3> QED
      BY <3>1, <3>2, <3>3
  <2> QED
    BY <2>1, <2>6
<1>7. CameThrough(n)' = CameThrough(n) /\ session' = session
  BY <1>1 DEF CameThrough
<1>8. /\ Complexity(runners[r].i)' <=> Complexity(runners[r].i)
      /\ runners'[r].i.family = runners[r].i.family /\ runners'[r].i.of = n
      /\ Complexity(runners[r].i) = session.families[n].complexity
  BY <1>1 DEF Complexity, Options
<1>9. runners[r].i.family = f <=> runners[current].i.of = n
  BY <1>2 DEF InstancesRight
<1>10. \A k \in BigOs(n, to) : k \in 1 .. Len(old) /\ new[k] = old[k]
  BY <1>4 DEF BigOs
<1>11. CASE ~(Completes(runners[current]) /\ runners[r].i.family = f)
  <2>1. ~big /\ BigOs(n, to)' = BigOs(n, to)
    BY <1>6, <1>9, <1>11 DEF Big
  <2>2. runners[r].i.family \in DOMAIN perFamily' <=> runners[r].i.family \in DOMAIN perFamily
    BY <1>1, <1>11
  <2>3. ASSUME Computed(n, to) PROVE Computed(n, to)'
    <3> DEFINE C == session.families[n].complexity /\ Cardinality(CameThrough(n)) > 1
               B == BigOs(n, to)
               T == CameThrough(n)
    <3>1. IF C THEN \E k \in DOMAIN old : B = {k} /\ old[k].over = T ELSE B = {}
      BY <2>3 DEF Computed
    <3>2. IF C THEN \E k \in DOMAIN new : B = {k} /\ new[k].over = T ELSE B = {}
      <4>1. \A k \in B : k \in DOMAIN new /\ new[k] = old[k]
        BY <1>4, <1>10
      <4> HIDE DEF B, C, T
      <4> QED
        BY <3>1, <4>1
    <3>3. /\ BigOs(n, to)' = B /\ CameThrough(n)' = T /\ n' = n
          /\ (session.families[n].complexity /\ Cardinality(CameThrough(n)) > 1)' <=> C
      <4>1. n' = n
        BY <1>1
      <4> QED
        BY <1>7, <2>1, <4>1
    <3> HIDE DEF B, C, T, n
    <3> QED
      BY <3>2, <3>3 DEF Computed
  <2>4. n' = n
    BY <1>1
  <2> QED
    BY <1>5, <1>8, <2>1, <2>2, <2>3, <2>4
<1>12. CASE Completes(runners[current]) /\ runners[r].i.family = f
  <2>1. /\ Complexity(runners[current].i) /\ f \in DOMAIN perFamily
        /\ runners[current].i.of = n
    BY <1>2, <1>9, <1>12
  <2>2. Complexity(runners[r].i) /\ session.families[n].complexity = TRUE
    <3>1. Complexity(runners[r].i)
      BY <2>1 DEF Complexity, Options
    <3>2. Complexity(runners[r].i) \in BOOLEAN
      BY RunnerTypes
    <3> QED
      BY <1>8, <3>1, <3>2
  <2>3. f \notin DOMAIN perFamily'
    BY <1>1, <1>12
  <2>4. BigOs(n, to) = {}
    BY <1>5, <1>12, <2>1
  <2>5. FamilyRight(f)
    BY <1>1, <2>1 DEF FamiliesRight
  <2>6. CameThrough(n) = Through(f)
    BY <1>12, SameThrough
  <2> DEFINE kept == perFamily[f].runs
             T == CameThrough(n)
  <2>7. /\ Len(kept) = Cardinality(T) /\ Range(kept) = T
    BY <2>5, <2>6 DEF FamilyRight
  <2>8. big <=> Len(kept) > 1
    BY <1>12, <2>1 DEF Big
  <2>9. IF Cardinality(T) > 1 THEN \E k \in DOMAIN new : BigOs(n, to)' = {k} /\ new[k].over = T
        ELSE BigOs(n, to)' = {}
    <3>1. CASE big
      <4>1. Len(new) \in DOMAIN new /\ new[Len(new)].over = T
        BY <1>4, <2>7, <3>1
      <4>2. BigOs(n, to)' = {Len(new)} /\ Cardinality(T) > 1
        BY <1>6, <2>4, <2>7, <2>8, <3>1
      <4> HIDE DEF new, T, big
      <4> QED
        BY <4>1, <4>2
    <3>2. CASE ~big
      BY <1>6, <2>4, <2>7, <2>8, <3>2
    <3> QED
      BY <3>1, <3>2
  <2>10. n' = n
    BY <1>1
  <2>11. Computed(n, to)'
    <3>1. CameThrough(n)' = T /\ session'.families[n].complexity = TRUE
      BY <1>7, <2>2
    <3> HIDE DEF n, T, kept
    <3> QED
      BY <2>9, <2>10, <3>1 DEF Computed
  <2> QED
    BY <1>8, <1>12, <2>2, <2>3, <2>10, <2>11
<1> QED
  BY <1>11, <1>12

LEMMA FinishLog ==
  ASSUME RunnersRight, InstancesRight, TurnsRight, RunsRight, FamiliesRight, LogRight, Finish
  PROVE  LogRight'
<1>1. /\ UNCHANGED <<session, runners, current>> /\ pc = "report"
      /\ pc' \in {"next", "aborted", "undefined"}
      /\ DOMAIN log' = session.reporters
  BY DEF Finish, LogRight, StatsEnd, BigOEnd, Checked
<1>2. pc' \notin {"register", "find", "create"} /\ (pc' \in Looping => pc' = "next")
  BY <1>1 DEF Looping
<1>3. ASSUME pc' = "next", NEW to \in session'.reporters
      PROVE  /\ log'[to] \in Seq(Range(log'[to]))
             /\ \A k \in DOMAIN log'[to] : log'[to][k].of \in DOMAIN runners'
  <2>1. PICK runs, all : Extended(log[to], log'[to], runs, all)
    BY <1>1, <1>3, NewLog
  <2>2. \A k \in DOMAIN log[to] : log[to][k].of \in DOMAIN runners
    BY <1>1, <1>3 DEF LogRight, Looping
  <2>3. current \in DOMAIN runners
    BY <1>1 DEF TurnsRight, Looping
  <2> DEFINE old == log[to]
             new == log'[to]
  <2>4. /\ new \in Seq(Range(new)) /\ DOMAIN new = 1 .. Len(new) /\ DOMAIN old = 1 .. Len(old)
        /\ Len(new) = Len(old) + runs + all /\ Len(old) \in Nat /\ runs \in Nat /\ all \in Nat
        /\ \A k \in 1 .. Len(old) : new[k] = old[k]
        /\ \A k \in Len(old) + 1 .. Len(old) + runs : new[k].of = current
        /\ \A k \in Len(old) + runs + 1 .. Len(new) : new[k].of = current
    BY <2>1 DEF Extended
  <2>5. ASSUME NEW k \in DOMAIN new PROVE new[k].of \in DOMAIN runners
    <3>1. \/ k \in 1 .. Len(old) \/ k \in Len(old) + 1 .. Len(old) + runs
          \/ k \in Len(old) + runs + 1 .. Len(new)
      BY <2>4
    <3> QED
      BY <2>2, <2>3, <2>4, <3>1
  <2> QED
    BY <1>1, <2>4, <2>5
<1>4. ASSUME pc' = "next", NEW to \in session'.reporters, NEW r \in DOMAIN runners'
      PROVE  /\ IF Reported(r)' THEN Given(r, to)' ELSE Entries(r, Kinds, to)' = {}
             /\ IF Complexity(runners[r].i)' /\ runners'[r].i.family \notin DOMAIN perFamily'
                  THEN Computed(runners[r].i.of, to)' ELSE BigOs(runners[r].i.of, to)' = {}
  BY <1>1, <1>4, GivenNext, BigONext
<1> QED
  BY <1>1, <1>2, <1>3, <1>4 DEF LogRight

LEMMA LogNext ==
  ASSUME RunnersRight, InstancesRight, TurnsRight, RunsRight, FamiliesRight, LogRight, [Next]_vars
  PROVE  LogRight'
<1>1. CASE Register \/ Find
  <2>1. UNCHANGED <<session, log>> /\ pc \in {"register", "find"} /\ pc' \notin Looping
    BY <1>1 DEF Register, Find, Looping
  <2> QED
    BY <2>1 DEF LogRight
<1>2. CASE End
  <2>1. UNCHANGED <<session, log>> /\ pc' = "done"
    BY <1>2 DEF End
  <2> QED
    BY <2>1 DEF LogRight, Looping
<1>3. CASE Create
  BY <1>3, CreateLog
<1>4. CASE Begin
  <2>1. /\ UNCHANGED <<session, families, runners, perFamily, log>>
        /\ pc = "next" /\ pc' \in {"warm", "measure"}
    BY <1>4 DEF Begin
  <2>2. ASSUME NEW r \in DOMAIN runners PROVE Reported(r) <=> Reported(r)'
    BY <2>1 DEF Reported, Done
  <2> QED
    BY <2>1, <2>2, LogKept DEF Looping
<1>5. CASE Warm \/ Measure
  <2>1. Quiet
    BY <1>5, WarmQuiet, MeasureQuiet
  <2>2. /\ UNCHANGED <<session, perFamily, log>> /\ DOMAIN runners' = DOMAIN runners
        /\ pc \in Looping \ {"report"} /\ pc' \in Looping \ {"report"}
        /\ \A r \in DOMAIN runners :
             /\ runners'[r].i = runners[r].i /\ runners'[r].repeats = runners[r].repeats
             /\ runners'[r].runs = runners[r].runs
    BY <2>1 DEF Quiet, Looping
  <2>3. ASSUME NEW r \in DOMAIN runners PROVE Reported(r) <=> Reported(r)'
    BY <2>2 DEF Reported, Done
  <2>4. \A f : Members(f) \subseteq DOMAIN runners
    BY DEF Members
  <2> QED
    BY <2>2, <2>3, <2>4, LogKept
<1>6. CASE Record
  BY <1>6, RecordLog
<1>7. CASE Finish
  BY <1>7, FinishLog
<1>8. CASE UNCHANGED vars
  <2>1. UNCHANGED <<session, runners, current, perFamily, log, pc>>
    BY <1>8 DEF vars
  <2>2. CASE pc \in Looping
    <3>1. ASSUME NEW r \in DOMAIN runners PROVE Reported(r) <=> Reported(r)'
      BY <2>1 DEF Reported, Done
    <3> QED
      BY <2>1, <2>2, <3>1, LogKept
  <2>3. CASE pc \notin Looping
    BY <2>1, <2>3 DEF LogRight
  <2> QED
    BY <2>2, <2>3
<1> QED
  BY <1>1, <1>2, <1>3, <1>4, <1>5, <1>6, <1>7, <1>8 DEF Next

-----------------------------------------------------------------------------
(* How a session ends.                                                     *)

LEMMA EndReports ==
  ASSUME RunnersRight, InstancesRight, TurnsRight, RunsRight, FamiliesRight, LogRight, End
  PROVE  ReportsRight'
<1>1. UNCHANGED <<session, families, runners, perFamily, log>> /\ pc = "next" /\ order = <<>>
  BY DEF End
<1>2. ASSUME NEW r \in DOMAIN runners
      PROVE  Done(r) = runners[r].repeats /\ Reported(r)
  <2>1. Ahead(r) = 0
    <3>1. {k \in DOMAIN order : order[k] = r} = {}
      BY <1>1
    <3> QED
      BY <3>1, FS_EmptySet DEF Ahead, TurnsOf
  <2>2. Underway(r) = 0
    BY <1>1 DEF Underway
  <2>3. /\ Done(r) \in Nat /\ runners[r].repeats \in Nat
        /\ Ahead(r) + Underway(r) + Done(r) = runners[r].repeats
    BY <1>1, TurnTypes DEF Looping
  <2> QED
    BY <1>1, <2>1, <2>2, <2>3 DEF Reported
<1>3. ASSUME NEW to \in session.reporters
      PROVE  /\ \A k \in DOMAIN log[to] : log[to][k].of \in DOMAIN runners
             /\ \A r \in DOMAIN runners :
                  /\ IF Reported(r) THEN Given(r, to) ELSE Entries(r, Kinds, to) = {}
                  /\ IF Complexity(runners[r].i) /\ runners[r].i.family \notin DOMAIN perFamily
                       THEN Computed(runners[r].i.of, to) ELSE BigOs(runners[r].i.of, to) = {}
  BY <1>1, <1>3 DEF LogRight, Looping
<1>4. ASSUME NEW r \in DOMAIN runners, NEW to \in session.reporters PROVE Given(r, to)
  BY <1>2, <1>3, <1>4
<1>5. ASSUME NEW n, NEW to \in session.reporters PROVE Computed(n, to)
  <2>1. CASE \A r \in DOMAIN runners : runners[r].i.of # n
    <3>1. CameThrough(n) = {}
      BY <2>1 DEF CameThrough
    <3>2. BigOs(n, to) = {}
      BY <1>3, <1>5, <2>1 DEF BigOs
    <3>3. ~(Cardinality({}) > 1)
      BY FS_EmptySet
    <3> QED
      BY <3>1, <3>2, <3>3 DEF Computed
  <2>2. ASSUME NEW r \in DOMAIN runners, runners[r].i.of = n PROVE Computed(n, to)
    <3> DEFINE f == runners[r].i.family
    <3>1. IF Complexity(runners[r].i) /\ f \notin DOMAIN perFamily
            THEN Computed(n, to) ELSE BigOs(n, to) = {}
      BY <1>3, <1>5, <2>2
    <3>2. Complexity(runners[r].i) <=> session.families[n].complexity
      BY <2>2 DEF Complexity, Options
    <3>3. CASE ~Complexity(runners[r].i)
      BY <3>1, <3>2, <3>3 DEF Computed
    <3>4. CASE Complexity(runners[r].i) /\ f \in DOMAIN perFamily
      <4>1. FamilyRight(f) /\ ~Closing(f)
        BY <1>1, <3>4 DEF FamiliesRight, Looping, Closing
      <4>2. AllDone(f)
        BY <1>2 DEF AllDone, Members, Finished, Repeats
      <4>3. \A q \in Members(f) : Repeats[q] = 0
        BY <4>1, <4>2 DEF FamilyRight
      <4>4. ASSUME NEW q \in Members(f) PROVE Fine(runners[q].runs) = {}
        <5>1. q \in DOMAIN runners /\ runners[q].repeats = 0
          BY <4>3, <4>4 DEF Members, Repeats
        <5>2. Len(runners[q].runs) = 0 /\ runners[q].runs \in Seq(Reports(q))
          BY <1>2, <5>1, RunnerTypes DEF Done
        <5>3. runners[q].runs = <<>>
          BY <5>2, EmptySeq
        <5> QED
          BY <5>3 DEF Fine, Range
      <4>5. Through(f) = {}
        BY <4>4 DEF Through
      <4>6. CameThrough(n) = {}
        BY <2>2, <4>5, SameThrough
      <4>7. ~(Cardinality({}) > 1)
        BY FS_EmptySet
      <4> QED
        BY <3>1, <3>4, <4>6, <4>7 DEF Computed
    <3>5. CASE Complexity(runners[r].i) /\ f \notin DOMAIN perFamily
      BY <3>1, <3>5
    <3> QED
      BY <3>3, <3>4, <3>5
  <2> QED
    BY <2>1, <2>2
<1>6. ASSUME NEW r \in DOMAIN runners', NEW to \in session'.reporters PROVE Given(r, to)'
  <2>1. Given(r, to)
    BY <1>1, <1>4, <1>6
  <2> QED
    BY <1>1, <2>1 DEF Given, Entries, AggregatesOnly, Options
<1>7. ASSUME NEW n, NEW to \in session'.reporters PROVE Computed(n, to)'
  <2>1. Computed(n, to)
    BY <1>1, <1>5, <1>7
  <2>2. BigOs(n, to)' = BigOs(n, to) /\ CameThrough(n)' = CameThrough(n)
    BY <1>1 DEF BigOs, CameThrough
  <2> QED
    BY <1>1, <2>1, <2>2 DEF Computed
<1> QED
  BY <1>6, <1>7 DEF ReportsRight, EveryRunReported, ComplexityOnce

LEMMA FindReports ==
  ASSUME RunnersRight, InstancesRight, LogRight, Find
  PROVE  ReportsRight'
<1> SUFFICES ASSUME pc' = "done", ~session'.list PROVE ReportsRight'
  BY DEF ReportsRight, EveryRunReported, ComplexityOnce
<1>1. UNCHANGED <<session, families, log>> /\ pc = "find" /\ DOMAIN runners' = {}
  BY DEF Find
<1>2. ASSUME NEW n, NEW to \in session'.reporters PROVE Computed(n, to)'
  <2>1. log'[to] = <<>> /\ DOMAIN log'[to] = {}
    BY <1>1, <1>2 DEF LogRight
  <2>2. BigOs(n, to)' = {}
    BY <2>1 DEF BigOs
  <2>3. CameThrough(n)' = {}
    BY <1>1 DEF CameThrough
  <2>4. ~(Cardinality({}) > 1)
    BY FS_EmptySet
  <2> QED
    BY <2>2, <2>3, <2>4 DEF Computed
<1> QED
  BY <1>1, <1>2 DEF ReportsRight, EveryRunReported, ComplexityOnce

LEMMA ReportsNext ==
  ASSUME RunnersRight, InstancesRight, TurnsRight, RunsRight, FamiliesRight, LogRight,
         ReportsRight, [Next]_vars
  PROVE  ReportsRight'
<1>1. CASE Find
  BY <1>1, FindReports
<1>2. CASE End
  BY <1>2, EndReports
<1>3. CASE Register \/ Create \/ Begin \/ Record \/ Finish
  <2>1. pc' # "done"
    BY <1>3 DEF Register, Create, Begin, Record, Finish, StatsEnd, BigOEnd, Checked
  <2> QED
    BY <2>1 DEF ReportsRight, EveryRunReported, ComplexityOnce
<1>4. CASE Warm \/ Measure
  <2>1. pc' # "done"
    BY <1>4, WarmQuiet, MeasureQuiet DEF Quiet
  <2> QED
    BY <2>1 DEF ReportsRight, EveryRunReported, ComplexityOnce
<1>5. CASE UNCHANGED vars
  <2>1. UNCHANGED <<session, families, runners, log, pc>>
    BY <1>5 DEF vars
  <2> SUFFICES ASSUME pc' = "done", ~session'.list PROVE ReportsRight'
    BY DEF ReportsRight, EveryRunReported, ComplexityOnce
  <2>2. ASSUME NEW r \in DOMAIN runners', NEW to \in session'.reporters PROVE Given(r, to)'
    <3>1. Given(r, to)
      BY <2>1, <2>2 DEF ReportsRight, EveryRunReported
    <3> QED
      BY <2>1, <3>1 DEF Given, Entries, AggregatesOnly, Options
  <2>3. ASSUME NEW n \in DOMAIN families', NEW to \in session'.reporters PROVE Computed(n, to)'
    <3>1. Computed(n, to)
      BY <2>1, <2>3 DEF ReportsRight, ComplexityOnce
    <3>2. BigOs(n, to)' = BigOs(n, to) /\ CameThrough(n)' = CameThrough(n)
      BY <2>1 DEF BigOs, CameThrough
    <3> QED
      BY <2>1, <3>1, <3>2 DEF Computed
  <2> QED
    BY <2>2, <2>3 DEF ReportsRight, EveryRunReported, ComplexityOnce
<1> QED
  BY <1>1, <1>2, <1>3, <1>4, <1>5 DEF Next

\* There are no more of the runs of a runner that came through than runs.
LEMMA FineCounted ==
  ASSUME NEW S, NEW runs \in Seq(S)
  PROVE  IsFiniteSet(Fine(runs)) /\ Cardinality(Fine(runs)) \in Nat
<1> DEFINE f == [k \in 1 .. Len(runs) |-> runs[k]]
<1>1. Len(runs) \in Nat /\ DOMAIN runs = 1 .. Len(runs)
  OBVIOUS
<1>2. IsFiniteSet(1 .. Len(runs))
  BY <1>1, FS_Interval
<1>3. IsFiniteSet({runs[k] : k \in 1 .. Len(runs)})
  <2> DEFINE T == {runs[k] : k \in 1 .. Len(runs)}
  <2>1. f \in Surjection(1 .. Len(runs), T)
    BY DEF Surjection
  <2> QED
    BY <1>2, <2>1, FS_Surjection
<1>4. Fine(runs) \in SUBSET {runs[k] : k \in 1 .. Len(runs)}
  BY <1>1 DEF Fine, Range
<1>5. IsFiniteSet(Fine(runs))
  BY <1>3, <1>4, FS_Subset
<1> QED
  BY <1>5, FS_CardinalityType

\* The three ways in which the end of a runner may fail.
LEMMA FinishWays ==
  ASSUME Finish, pc' # "next"
  PROVE  /\ pc = "report" /\ UNCHANGED <<session, runners, current>>
         /\ LET r == runners[current]
                P == perFamily[r.i.family].runs
            IN  \/ StatsEnd(r.runs) # "next" /\ pc' = StatsEnd(r.runs)
                \/ Completes(r) /\ BigOEnd(P) # "next" /\ pc' = BigOEnd(P)
                \/ ReadsMemory(r, All(r)) /\ pc' = "undefined"
BY DEF Finish, All

\* ComputeStats fails after a skip that was not like the other repetitions.
LEMMA StatsFail ==
  ASSUME RunnersRight, InstancesRight, TurnsRight, RunsRight, pc = "report",
         NEW end, end = StatsEnd(runners[current].runs), end # "next"
  PROVE  /\ end \in {"aborted", "undefined"}
         /\ end = "aborted" => ~session.ndebug /\ UnevenSkip(runners[current].runs)
         /\ end = "undefined" => FirstSkipped(runners[current].runs)
<1> DEFINE runs == runners[current].runs
           a == Alike(runners[current])
<1>1. current \in DOMAIN runners
  BY DEF TurnsRight, Looping
<1>2. runs \in Seq(Reports(current)) /\ \A k \in DOMAIN runs : ~runs[k].skipped => runs[k].iterations = a
  BY <1>1 DEF RunsRight
<1> HIDE DEF runs, a
<1>3. /\ ~(Cardinality(Fine(runs)) < 2)
      /\ end = Checked(\A k \in DOMAIN runs : runs[k].iterations = runs[1].iterations,
                       IF runs[1].skipped THEN "undefined" ELSE "next")
  BY DEF StatsEnd, runs
<1>4. Cardinality(Fine(runs)) > 1
  <2>1. Cardinality(Fine(runs)) \in Nat
    BY <1>2, FineCounted
  <2> QED
    BY <1>3, <2>1
<1>5. ASSUME end = "aborted" PROVE ~session.ndebug /\ UnevenSkip(runs)
  <2>1. /\ ~session.ndebug
        /\ ~(\A k \in DOMAIN runs : runs[k].iterations = runs[1].iterations)
    BY <1>3, <1>5 DEF Checked
  <2>2. PICK k \in DOMAIN runs : runs[k].iterations # a
    BY <1>2, <2>1
  <2>3. PICK run \in Fine(runs) : TRUE
    <3>1. Fine(runs) # {}
      BY <1>4, FS_EmptySet
    <3> QED
      BY <3>1
  <2>4. PICK m \in DOMAIN runs : ~runs[m].skipped
    BY <2>3 DEF Fine, Range
  <2>5. runs[k].skipped /\ runs[k].iterations # runs[m].iterations
    BY <1>2, <2>2, <2>4
  <2> QED
    BY <1>4, <2>1, <2>4, <2>5 DEF UnevenSkip
<1>6. end = "undefined" => FirstSkipped(runs)
  BY <1>3, <1>4 DEF Checked, FirstSkipped
<1>7. end \in {"aborted", "undefined"}
  BY <1>3 DEF Checked
<1> QED
  BY <1>5, <1>6, <1>7 DEF runs

\* A family is over when its last runner is.
LEMMA WholeFamily ==
  ASSUME RunnersRight, InstancesRight, TurnsRight, RunsRight, FamiliesRight, pc = "report",
         Completes(runners[current])
  PROVE  FamilyOver(runners[current].i.of)
<1> DEFINE f == runners[current].i.family
           n == runners[current].i.of
<1>1. current \in DOMAIN runners /\ Complexity(runners[current].i) /\ AllDone(f)
  BY CompletesWhenDone
<1>2. session.families[n].complexity
  BY <1>1 DEF Complexity, Options
<1>3. ASSUME NEW q \in DOMAIN runners, runners[q].i.of = n
      PROVE  Len(runners[q].runs) = runners[q].repeats
  <2>1. q \in Members(f)
    BY <1>1, <1>3 DEF Members, InstancesRight
  <2> QED
    BY <1>1, <1>3, <2>1 DEF AllDone, Finished, Repeats, Done
<1> QED
  BY <1>2, <1>3 DEF FamilyOver

\* ComputeBigO fails over a run without complexity_n, or over no run at all.
LEMMA BigOFails ==
  ASSUME RunnersRight, InstancesRight, TurnsRight, RunsRight, FamiliesRight, pc = "report",
         Completes(runners[current]), NEW end,
         end = BigOEnd(perFamily[runners[current].i.family].runs), end # "next"
  PROVE  /\ end \in {"aborted", "undefined"}
         /\ end = "aborted" => ~session.ndebug /\ Unsized(runners[current].i.of)
         /\ end = "undefined" => NoneCame(runners[current].i.of)
<1> DEFINE f == runners[current].i.family
           n == runners[current].i.of
           P == perFamily[f].runs
           T == CameThrough(n)
<1>1. current \in DOMAIN runners /\ f \in DOMAIN perFamily /\ pc \in Looping
  BY CompletesWhenDone DEF Looping
<1>2. FamilyRight(f) /\ T = Through(f)
  BY <1>1, SameThrough DEF FamiliesRight
<1>3. P \in Seq(T) /\ Range(P) = T /\ Len(P) = Cardinality(T)
  BY <1>2 DEF FamilyRight
<1>4. FamilyOver(n)
  BY WholeFamily
<1> HIDE DEF P, T
<1>5. end = BigOEnd(P)
  BY DEF P
<1>6. ASSUME end = "aborted" PROVE ~session.ndebug /\ Unsized(n)
  <2>1. /\ ~(Len(P) < 2) /\ ~session.ndebug
        /\ \E k \in DOMAIN P : ~P[k].sized
    BY <1>5, <1>6 DEF BigOEnd, Checked
  <2>2. Len(P) \in Nat
    BY <1>3
  <2>3. Cardinality(T) > 1
    BY <1>3, <2>1, <2>2
  <2>4. \E run \in T : ~run.sized
    BY <1>3, <2>1 DEF Range
  <2> QED
    BY <1>4, <2>1, <2>3, <2>4 DEF Unsized, T
<1>7. ASSUME end = "undefined" PROVE NoneCame(n)
  <2>1. P = <<>>
    BY <1>5, <1>7 DEF BigOEnd, Checked
  <2>2. T = {}
    BY <1>3, <2>1 DEF Range
  <2> QED
    BY <1>4, <2>2 DEF NoneCame, T
<1>8. end \in {"aborted", "undefined"}
  BY <1>5 DEF BigOEnd, Checked
<1> QED
  BY <1>6, <1>7, <1>8

\* A report fails only as FailsOnlyAsKnown says.
LEMMA FinishFails ==
  ASSUME RunnersRight, InstancesRight, TurnsRight, RunsRight, FamiliesRight, Finish, pc' # "next"
  PROVE  LET r == runners[current]
         IN  /\ pc' = "aborted" => ~session.ndebug /\ (UnevenSkip(r.runs) \/ Unsized(r.i.of))
             /\ pc' = "undefined" =>
                  FirstSkipped(r.runs) \/ NoneCame(r.i.of) \/ MemoryMoved(r.runs)
<1> DEFINE r == runners[current]
           P == perFamily[r.i.family].runs
<1>1. /\ pc = "report"
      /\ \/ StatsEnd(r.runs) # "next" /\ pc' = StatsEnd(r.runs)
         \/ Completes(r) /\ BigOEnd(P) # "next" /\ pc' = BigOEnd(P)
         \/ ReadsMemory(r, All(r)) /\ pc' = "undefined"
  BY FinishWays
<1>2. CASE StatsEnd(r.runs) # "next" /\ pc' = StatsEnd(r.runs)
  BY <1>1, <1>2, StatsFail
<1>3. CASE Completes(r) /\ BigOEnd(P) # "next" /\ pc' = BigOEnd(P)
  BY <1>1, <1>3, BigOFails
<1>4. CASE ReadsMemory(r, All(r)) /\ pc' = "undefined"
  <2>1. MemoryMoved(r.runs)
    BY <1>4 DEF ReadsMemory, MemoryMoved
  <2> QED
    BY <1>4, <2>1
<1> QED
  BY <1>1, <1>2, <1>3, <1>4

\* The causes of a failure are in the session and in the runners.
LEMMA CausesStay ==
  ASSUME UNCHANGED <<session, runners, current>>
  PROVE  LET r == runners[current]
         IN  /\ r' = r /\ session'.ndebug = session.ndebug
             /\ UnevenSkip(r.runs)' <=> UnevenSkip(r.runs)
             /\ FirstSkipped(r.runs)' <=> FirstSkipped(r.runs)
             /\ Unsized(r.i.of)' <=> Unsized(r.i.of)
             /\ NoneCame(r.i.of)' <=> NoneCame(r.i.of)
             /\ MemoryMoved(r.runs)' <=> MemoryMoved(r.runs)
<1> DEFINE r == runners[current]
           n == r.i.of
<1>1. r' = r /\ n' = n /\ session' = session /\ runners' = runners
  OBVIOUS
<1>2. CameThrough(n)' = CameThrough(n)
  BY DEF CameThrough
<1>3. FamilyOver(n)' <=> FamilyOver(n)
  BY DEF FamilyOver
<1> HIDE DEF r, n
<1>4. /\ UnevenSkip(r.runs)' <=> UnevenSkip(r.runs)
      /\ FirstSkipped(r.runs)' <=> FirstSkipped(r.runs)
      /\ MemoryMoved(r.runs)' <=> MemoryMoved(r.runs)
  BY <1>1 DEF UnevenSkip, FirstSkipped, MemoryMoved, Fine
<1>5. (Unsized(n)' <=> Unsized(n)) /\ (NoneCame(n)' <=> NoneCame(n))
  BY <1>1, <1>2, <1>3 DEF Unsized, NoneCame
<1> QED
  BY <1>1, <1>4, <1>5 DEF r, n

LEMMA FailsNext ==
  ASSUME RunnersRight, InstancesRight, TurnsRight, RunsRight, FamiliesRight, FailsOnlyAsKnown,
         [Next]_vars
  PROVE  FailsOnlyAsKnown'
<1> SUFFICES ASSUME pc' \in {"aborted", "undefined"} PROVE FailsOnlyAsKnown'
  BY DEF FailsOnlyAsKnown
<1>1. CASE Finish
  <2>1. UNCHANGED <<session, runners, current>>
    BY <1>1, FinishWays
  <2> QED
    BY <1>1, <2>1, FinishFails, CausesStay DEF FailsOnlyAsKnown
<1>2. CASE UNCHANGED vars
  <2>1. UNCHANGED <<session, runners, current, pc>>
    BY <1>2 DEF vars
  <2> QED
    BY <2>1, CausesStay DEF FailsOnlyAsKnown
<1>3. CASE Warm \/ Measure
  BY <1>3, WarmQuiet, MeasureQuiet DEF Quiet
<1>4. CASE Register \/ Find \/ Create \/ Begin \/ Record \/ End
  <2>1. pc' \notin {"aborted", "undefined"}
    BY <1>4 DEF Register, Find, Create, Begin, Record, End
  <2> QED
    BY <2>1
<1> QED
  BY <1>1, <1>2, <1>3, <1>4 DEF Next

LEMMA SessionInit == Init => SessionInv
<1> SUFFICES ASSUME Init PROVE SessionInv
  OBVIOUS
<1>1. /\ session \in Sessions /\ families = <<>> /\ runners = <<>> /\ pc = "register"
      /\ log = [to \in session.reporters |-> <<>>]
  BY DEF Init
<1>2. <<>> \in Seq(Range(<<>>)) /\ DOMAIN <<>> = {} /\ Len(<<>>) = 0
  BY DEF Range
<1>3. Len(session.families) > 0
  <2>1. session.families \in Seq(Range(session.families)) /\ session.families # <<>>
    BY <1>1, RunnerAssumption DEF LegalSession
  <2> DEFINE s == session.families
             S == Range(s)
  <2> HIDE DEF s, S
  <2>2. s \in Seq(S) /\ s # <<>>
    BY <2>1 DEF s, S
  <2>3. Len(s) \in Nat \ {0}
    BY <2>2, EmptySeq
  <2> QED
    BY <2>3 DEF s
<1>4. RunnersRight
  BY RunnersInit
<1>5. InstancesRight
  BY <1>1, <1>2, <1>3 DEF InstancesRight
<1>6. TurnsRight /\ RunsRight /\ FamiliesRight /\ LogRight
  BY <1>1, <1>2 DEF TurnsRight, RunsRight, FamiliesRight, LogRight, Looping
<1>7. ReportsRight /\ FailsOnlyAsKnown
  BY <1>1 DEF ReportsRight, EveryRunReported, ComplexityOnce, FailsOnlyAsKnown
<1> QED
  BY <1>4, <1>5, <1>6, <1>7 DEF SessionInv

LEMMA SessionNext == SessionInv /\ [Next]_vars => SessionInv'
<1> SUFFICES ASSUME SessionInv, [Next]_vars PROVE SessionInv'
  OBVIOUS
<1>1. /\ RunnersRight /\ InstancesRight /\ TurnsRight /\ RunsRight /\ FamiliesRight /\ LogRight
      /\ ReportsRight /\ FailsOnlyAsKnown
  BY DEF SessionInv
<1>2. RunnersRight'
  BY <1>1, RunnersNext
<1>3. InstancesRight'
  BY <1>1, InstancesNext
<1>4. TurnsRight' /\ RunsRight'
  BY <1>1, <1>3, TurnsNext, RunsNext
<1>5. FamiliesRight' /\ LogRight'
  BY <1>1, FamiliesNext, LogNext
<1>6. ReportsRight' /\ FailsOnlyAsKnown'
  BY <1>1, ReportsNext, FailsNext
<1> QED
  BY <1>2, <1>3, <1>4, <1>5, <1>6 DEF SessionInv

\* The reporters are told of every instance what they are to be told of it, and
\* of every family that wants it one Big-O, over the runs that came through,
\* however the repetitions of the instances were interleaved and shuffled.
THEOREM ReportsComplete == Spec => []ReportsRight
<1>1. SessionInv => ReportsRight
  BY DEF SessionInv
<1> QED
  BY <1>1, SessionInit, SessionNext, PTL DEF Spec

\* For any legal program and session, an assertion fails only after a repetition
\* that skipped unlike others that came through, or at a Big-O over runs of which
\* one has no complexity_n; and an undefined value is read only where the first
\* repetition skipped, no run of a family came through, or memory results moved:
\* every estimate asks for more iterations than have been run, the runs that come
\* through count alike, and the reports of a family are those that came through.
THEOREM FailuresExplained == Spec => []FailsOnlyAsKnown
<1>1. SessionInv => FailsOnlyAsKnown
  BY DEF SessionInv
<1> QED
  BY <1>1, SessionInit, SessionNext, PTL DEF Spec
=============================================================================
