----------------------------- MODULE MCDrivers -----------------------------
(***************************************************************************)
(* Benchmark programs with state of their own, for TLC: newton's kernels,  *)
(* nbody's main, whose tests share the bodies, or the main of an image     *)
(* benchmark, whose images share the buffer.                               *)
(***************************************************************************)
EXTENDS Drivers

VARIABLE part

\* Near root r from step q on.
Reaches(r, q) == [x \in 1 .. MaxIter |-> IF x >= q THEN r ELSE 0]

FourOrbits == {Reaches(1, 1), Reaches(3, 2), Reaches(2, MaxIter), Reaches(0, 1)}

\* Masses and pulls for numbers 0, 1 and 2.
MCMass == [x \in 0 .. 3 |-> 1 + (x % 2)]
MCPull == [x \in (0 .. 2) \X (0 .. 2) \X (0 .. 2) |-> ((x[1] - x[2]) * (x[1] - x[2]) * x[3]) % 3]

\* Tests of many blocks, of a few, and of one.
MCSizes == <<1, 2, 4>>

\* Pictures without symmetry, different for each of three benchmarks.
MCPicture ==
  [o \in {"uchar", "float", "Color"} |->
    [x \in 1 .. 3 |->
      [c \in 0 .. 5 |-> IF o = "float" /\ c = x THEN -1 ELSE (c + c \div 3 + x) % 4]]]

ASSUME NB!NBodyAssumption /\ NB!SizesAssumption /\ P!PngAssumption

newtonVars == vars
nbodyVars  == <<pos, vel, test, run, phase, body, puller, pipos, pivel>>
pngVars    == <<overload, bench, step, data, opened, images, colors, img, row, column, files>>

-----------------------------------------------------------------------------
\* The programs that are not run are over, or do not begin.
NoNewton ==
  /\ kernel = "newton" /\ orbit = [p \in Point |-> Reaches(1, 1)]
  /\ Init

NoBodies ==
  /\ pos = [x \in NB!Body |-> 0] /\ vel = [x \in NB!Body |-> 0]
  /\ NB!Start

NoImages ==
  /\ overload = "uchar" /\ bench = 4 /\ step = "done" /\ data = <<>>
  /\ opened = 0 /\ images = 0 /\ colors = <<>> /\ img = <<>>
  /\ row = 0 /\ column = 0 /\ files = <<>>

\* The points beyond the end of a row, which are computed but do not stay, keep
\* the others of their block waiting or not.
Beyond == \A r \in 0 .. NX - 1 : orbit[<<r, NY>>] \in {Reaches(3, 2), Reaches(0, 1)}

MCInit ==
  \/ part = "newton" /\ Init /\ Beyond /\ NoBodies /\ NoImages
  \/ part = "nbody" /\ NB!Start /\ NoNewton /\ NoImages
  \/ part = "images" /\ P!Init /\ NoNewton /\ NoBodies

MCNext ==
  \/ part = "newton" /\ Next /\ UNCHANGED <<part, nbodyVars, pngVars>>
  \/ part = "nbody" /\ NB!Next /\ UNCHANGED <<part, newtonVars, pngVars>>
  \/ part = "images" /\ P!Next /\ UNCHANGED <<part, newtonVars, nbodyVars>>

MCSpec == MCInit /\ [][MCNext]_<<part, newtonVars, nbodyVars, pngVars>> /\ P!Fairness
=============================================================================
