----------------------------- MODULE NBodyStep -----------------------------
(***************************************************************************)
(* A time step of bench/nbody.cc as one step: every velocity changes by    *)
(* the pulls of all bodies at their positions before the step, and every   *)
(* body then moves by its new velocity.                                    *)
(***************************************************************************)
EXTENDS Integers, Functions

CONSTANTS
  N,     \* kN, the number of bodies
  M,     \* numbers are 0 .. M - 1, with arithmetic modulo M
  Mass,  \* the mass of each body
  Pull   \* Pull[p, q, w]: what mass w at q adds to the velocity of a body at p

Body == 0 .. N - 1
Num  == 0 .. M - 1

NBodyAssumption ==
  /\ N \in Nat /\ M \in Nat \ {0}
  /\ Mass \in [Body -> Num]
  /\ Pull \in [Num \X Num \X Num -> Num]

VARIABLES pos, vel

\* The sum of the pulls of the first n bodies on a body at p.
Pulls(p, from, n) ==
  SumFunctionOnSet([b \in Body |-> Pull[p, from[b], Mass[b]]], 0 .. n - 1)

NewVel(b) == (vel[b] + Pulls(pos[b], pos, N)) % M

Init == pos \in [Body -> Num] /\ vel \in [Body -> Num]

TimeStep ==
  /\ vel' = [b \in Body |-> NewVel(b)]
  /\ pos' = [b \in Body |-> (pos[b] + NewVel(b)) % M]

Spec == Init /\ [][TimeStep]_<<pos, vel>>
=============================================================================
