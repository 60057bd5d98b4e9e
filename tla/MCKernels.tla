----------------------------- MODULE MCKernels -----------------------------
(***************************************************************************)
(* VecCore and two benchmarks that compute with it, for TLC: a backend's   *)
(* operations on two registers of VS lanes followed by an array; the       *)
(* reductions and conversions of a register of two lanes; the quadratic    *)
(* equations; and the images of the escape-time kernels.                   *)
(***************************************************************************)
EXTENDS Registers, EscapeTime, MCQuadSolve

VARIABLE part

MCRegister == {0, VS}

\* The signed integers are -3 .. 2, the unsigned ones 0 .. 5, 6 is infinity and
\* 7 not a number: infinities, NaN, the ends of each range, and values between.
MCInputs == [float    |-> {-6, -1, 2, 6, 7},
             signed   |-> {-3, 1, 2},
             unsigned |-> {0, 1, 5}]

ASSUME R!ReduceAssumption

Stays == [n \in Position |-> "in"]

\* Leaves at step q and is inside again at every other step.
LeavesAt(q) == [n \in Position |-> IF n = q THEN "out" ELSE "in"]

\* Leaves at step 1 and overflows.
Overflows == [n \in Position |-> IF n = 1 THEN "out" ELSE "nan"]

ThreeOrbits == {Stays, LeavesAt(2), Overflows}

reduceVars == <<mode, kind, acc, live, op, target, counter, result, out, ops>>

-----------------------------------------------------------------------------
\* One part is looked at.  The others do not begin, or are over: a program that
\* is over cannot be expected to go on.
NoBackend ==
  /\ backend = "generic" /\ mem = [a \in Addr |-> 0] /\ mem0 = mem /\ call = NoCall
  /\ phase = "idle" /\ lane = 0 /\ ret = [l \in Lane |-> 0]

NoReduce ==
  /\ mode = "Min" /\ kind = "float" /\ acc = <<>> /\ live = <<>>
  /\ op = "none" /\ target = kind /\ counter = 0 /\ result = 0 /\ out = <<>> /\ ops = 0

NoEquations ==
  /\ coef = [x \in Index |-> <<1, 0, 0>>] /\ x1 = [x \in Index |-> Zero] /\ x2 = x1
  /\ roots = [x \in Index |-> 1] /\ test = Len(Kernels) + 1 /\ run = 1 /\ eq = 0
  /\ half = "begin"

NoImage ==
  /\ kernel = "julia" /\ orbit = [p \in Point |-> Stays] /\ pc = "done" /\ i = NX /\ j = 0
  /\ k = 0 /\ pos = [l \in BlockLane |-> 0] /\ kv = pos
  /\ m = [l \in BlockLane |-> TRUE]
  /\ image = [c \in 0 .. NX * NY - 1 |-> LastIter % Bytes]

MCInit ==
  \/ part = "backend"   /\ Init /\ NoReduce /\ NoEquations /\ NoImage
  \/ part = "reduce"    /\ R!Init /\ NoBackend /\ NoEquations /\ NoImage
  \/ part = "equations" /\ QuadInit /\ NoBackend /\ NoReduce /\ NoImage
  \/ part = "image"     /\ EscapeInit /\ NoBackend /\ NoReduce /\ NoEquations

MCNext ==
  \/ part = "backend"   /\ Next /\ UNCHANGED <<part, reduceVars, quadVars, escapeVars>>
  \/ part = "reduce"    /\ R!Next /\ UNCHANGED <<part, vars, quadVars, escapeVars>>
  \/ part = "equations" /\ QuadNext /\ UNCHANGED <<part, vars, reduceVars, escapeVars>>
  \/ part = "image"     /\ EscapeNext /\ UNCHANGED <<part, vars, reduceVars, quadVars>>

MCSpec ==
  MCInit /\ [][MCNext]_<<part, vars, reduceVars, quadVars, escapeVars>> /\ WF_escapeVars(EscapeNext)
=============================================================================
