------------------------------- MODULE NBody -------------------------------
(***************************************************************************)
(* bench/nbody.cc: the tests that advance the same bodies one after the    *)
(* other, with different vector sizes.                                     *)
(*                                                                         *)
(* A test goes through the bodies in blocks of its vector size: first it   *)
(* accumulates, in registers, the pulls of all bodies on the block and     *)
(* stores the block's velocities; when all blocks are done it moves the    *)
(* bodies, block by block.  One number stands for the three coordinates,   *)
(* which the code treats alike and never mixes but in the distance; Pull   *)
(* stands for the interaction.                                             *)
(***************************************************************************)
EXTENDS NBodyStep, Sequences

CONSTANTS
  Sizes,  \* the vector sizes of the tests, in main's order
  NRuns   \* kNruns

\* The arrays hold whole registers.
SizesAssumption ==
  /\ Sizes \in Seq(Nat \ {0}) /\ NRuns \in Nat \ {0}
  /\ \A t \in 1 .. Len(Sizes) : N % Sizes[t] = 0

VARIABLES
  test,    \* the test being run: an index of Sizes
  n,       \* the run
  phase,   \* "load", "pull", "move"
  i, j,    \* the first body of the block, and the pulling body
  pipos,   \* the block's positions, in a register
  pivel    \* the block's velocities, in a register

vars == <<pos, vel, test, n, phase, i, j, pipos, pivel>>

Width   == Sizes[test]
Lane == 0 .. Width - 1

Testing == test <= Len(Sizes)

Start ==
  /\ Init
  /\ test = 1 /\ n = 1 /\ phase = "load"
  /\ i = 0 /\ j = 0
  /\ pipos = <<>> /\ pivel = <<>>

\* The block's positions and velocities are loaded.
LoadBlock ==
  /\ Testing /\ phase = "load" /\ i < N
  /\ pipos' = [l \in Lane |-> pos[i + l]]
  /\ pivel' = [l \in Lane |-> vel[i + l]]
  /\ j' = 0
  /\ phase' = "pull"
  /\ UNCHANGED <<pos, vel, test, n, i>>

\* pPInteraction: the pull of body j on every lane.
Interact ==
  /\ phase = "pull" /\ j < N
  /\ pivel' = [l \in Lane |-> (pivel[l] + Pull[pipos[l], pos[j], Mass[j]]) % M]
  /\ j' = j + 1
  /\ UNCHANGED <<pos, vel, test, n, phase, i, pipos>>

\* Mutant: the block is moved as soon as its velocities are known.
StoreBlockMoves ==
  /\ phase = "pull" /\ j = N
  /\ vel' = [b \in Body |-> IF b - i \in Lane THEN pivel[b - i] ELSE vel[b]]
  /\ pos' = [b \in Body |-> IF b - i \in Lane THEN (pos[b] + vel'[b]) % M ELSE pos[b]]
  /\ i' = i + Width
  /\ phase' = "load"
  /\ UNCHANGED <<test, n, j, pipos, pivel>>

\* The block's velocities are stored.
StoreBlock ==
  /\ phase = "pull" /\ j = N
  /\ vel' = [b \in Body |-> IF b - i \in Lane THEN pivel[b - i] ELSE vel[b]]
  /\ i' = i + Width
  /\ phase' = "load"
  /\ UNCHANGED <<pos, test, n, j, pipos, pivel>>

\* The end of the loop over the velocities.
EndPull ==
  /\ Testing /\ phase = "load" /\ i >= N
  /\ i' = 0
  /\ phase' = "move"
  /\ UNCHANGED <<pos, vel, test, n, j, pipos, pivel>>

MoveBlock ==
  /\ phase = "move" /\ i < N
  /\ pos' = [b \in Body |-> IF b - i \in Lane THEN (pos[b] + vel[b]) % M ELSE pos[b]]
  /\ i' = i + Width
  /\ UNCHANGED <<vel, test, n, phase, j, pipos, pivel>>

\* The end of the loop over the positions: the next run, or the next test.
EndMove ==
  /\ phase = "move" /\ i >= N
  /\ IF n < NRuns THEN n' = n + 1 /\ test' = test ELSE n' = 1 /\ test' = test + 1
  /\ i' = 0
  /\ phase' = "load"
  /\ UNCHANGED <<pos, vel, j, pipos, pivel>>

Done == ~Testing /\ UNCHANGED vars

Next ==
  \/ LoadBlock
  \/ Interact
  \/ StoreBlock
  \/ EndPull
  \/ MoveBlock
  \/ EndMove
  \/ Done

BlockSpec == Start /\ [][Next]_vars

-----------------------------------------------------------------------------
(***************************************************************************)
(* Every test advances all bodies by whole time steps, whatever its vector *)
(* size: no pull is computed from a position of the step under way.  The   *)
(* time step takes place when the last velocity has been stored.  Until    *)
(* then the velocities already stored count without their pulls, and from  *)
(* then on the bodies not yet moved count as moved.                        *)
(***************************************************************************)
StepPos ==
  [b \in Body |-> IF phase = "move" /\ b >= i THEN (pos[b] + vel[b]) % M ELSE pos[b]]

StepVel ==
  [b \in Body |-> IF phase # "move" /\ b < i
                    THEN (vel[b] - Pulls(pos[b], pos, N)) % M ELSE vel[b]]

Step == INSTANCE NBodyStep WITH pos <- StepPos, vel <- StepVel
ImplementsTimeStep == Step!Spec

\* A register under way holds the velocities at the beginning of the step and
\* the pulls of the bodies before j, all at their positions at that time.
RegisterHolds ==
  phase = "pull" =>
    \A l \in Lane : /\ pipos[l] = pos[i + l]
                    /\ pivel[l] = (vel[i + l] + Pulls(pos[i + l], pos, j)) % M
=============================================================================
