----------------------------- MODULE EscapeTime -----------------------------
(***************************************************************************)
(* The escape-time kernels of bench/mandelbrot.cc and bench/julia.cc: the  *)
(* image of NX x NY points, each point coloured by the iteration at which  *)
(* its orbit leaves the disc |z| < 2.                                      *)
(*                                                                         *)
(* The scalar kernels iterate one point at a time.  The vector kernels     *)
(* iterate VS neighbouring points at once: the loop goes on while any lane *)
(* is inside, and MaskedAssign keeps the lanes that have left from moving. *)
(* All of them must draw the same image.                                   *)
(*                                                                         *)
(* Only where z is on its orbit matters, not its value: z is represented   *)
(* by pos, the number of steps taken, and orbit[p][n] says what |z|^2 < 4  *)
(* evaluates to after n steps from point p: "in", "out", or "nan" when the *)
(* arithmetic has overflowed to a NaN, for which every comparison fails.   *)
(***************************************************************************)
EXTENDS Integers

CONSTANTS
  NX, NY,      \* rows (index i) and points of a row (index j)
  VectorSize,  \* VectorSize<T>()
  MaxIter,     \* max_iter
  CounterMax,  \* the last value that ++k can reach in a float: 2^24
  Horizon,     \* number of orbit steps told apart: the last one repeats
  Orbits,      \* the orbits considered
  Bytes        \* number of values of unsigned char

Position == 1 .. Horizon
LastIter == IF MaxIter = 0 THEN 1 ELSE MaxIter  \* do ... while runs once

\* A NaN follows an overflow, and |z| < 2 is followed by a finite z.
ASSUME EscapeAssumption ==
  /\ NX \in Nat /\ NY \in Nat /\ VectorSize \in Nat \ {0}
  /\ MaxIter \in Nat /\ CounterMax \in Nat \ {0}
  /\ Horizon \in Nat /\ LastIter <= Horizon
  /\ Bytes \in Nat \ {0}
  /\ Orbits \subseteq [Position -> {"in", "out", "nan"}]
  /\ \A o \in Orbits : \A n \in Position :
       o[n] = "nan" => \E q \in 1 .. n - 1 : o[q] = "out"

ScalarKernels == {"mandelbrot", "julia"}
\* The kernel template with std::experimental::simd, whose index register is a
\* vector of float: Scalar<Index<T>>, the type of k, is float.
FloatIndex    == {"mandelbrot_v_simd"}
VectorKernels == {"mandelbrot_v", "julia_v", "mandelbrot_avx2"} \cup FloatIndex
BlockLane == 0 .. VectorSize - 1
Point     == (0 .. NX - 1) \X (0 .. NY + VectorSize - 2)

VARIABLES
  kernel,   \* the kernel that draws the image
  orbit,    \* the orbit of every point, those beyond the end of a row included
  pc,       \* "block", "iterate", "store", "done"
  i, j,     \* the row, and the first point of the block in it
  k,        \* the loop's iteration counter
  pos,      \* zr, zi: where each lane's z is on its orbit
  kv,       \* the lanes' iteration counts
  m,        \* the lanes' mask
  image     \* the pixels written: a function on the indices written so far

escapeVars == <<kernel, orbit, pc, i, j, k, pos, kv, m, image>>

Scalar == kernel \in ScalarKernels
Width  == IF Scalar THEN 1 ELSE VectorSize
Active == 0 .. Width - 1
At(l)  == <<i, j + l>>

-----------------------------------------------------------------------------
\* The mask's comparison: |z|^2 < 4, or for AVX2 _CMP_NGE_UQ, not |z|^2 >= 4.
Inside(p, n) ==
  \/ orbit[p][n] = "in"
  \/ kernel = "mandelbrot_avx2" /\ orbit[p][n] = "nan"

\* What is stored for a point whose z has taken n steps when its count is c.
\* smooth_value: -1 inside the disc, else a function of z and of the count.
\* julia: the count, converted to unsigned char.
Pixel(p, n, c) ==
  IF kernel \in {"julia", "julia_v"} THEN c % Bytes
  ELSE IF orbit[p][n] = "in" THEN <<"inside">> ELSE <<n, c>>

Advance(n) == IF n = Horizon THEN n ELSE n + 1

\* Mutant: the counter is of a narrow integer type and wraps around.
IncrementWraps(c) == IF c = CounterMax THEN 0 ELSE c + 1

\* ++k: an integer, or a float, which stops growing at 2^24.
Increment(c) == IF kernel \in FloatIndex /\ c = CounterMax THEN c ELSE c + 1

EscapeInit ==
  /\ kernel \in ScalarKernels \cup VectorKernels
  /\ orbit \in [Point -> Orbits]
  /\ pc = "block" /\ i = 0 /\ j = 0
  /\ k = 0
  /\ pos = [l \in BlockLane |-> 0]
  /\ kv = [l \in BlockLane |-> 0]
  /\ m = [l \in BlockLane |-> TRUE]
  /\ image = [c \in {} |-> 0]

\* The body of the loop over j up to the do loop.
StartBlock ==
  /\ pc = "block" /\ i < NX /\ j < NY
  /\ pc' = "iterate"
  /\ k' = 0
  /\ pos' = [l \in BlockLane |-> 0]
  /\ kv' = [l \in BlockLane |-> 0]
  /\ m' = [l \in BlockLane |-> TRUE]
  /\ UNCHANGED <<kernel, orbit, i, j, image>>

NextRow ==
  /\ pc = "block" /\ i < NX /\ j >= NY
  /\ i' = i + 1 /\ j' = 0
  /\ UNCHANGED <<kernel, orbit, pc, k, pos, kv, m, image>>

EndImage ==
  /\ pc = "block" /\ i = NX
  /\ pc' = "done"
  /\ UNCHANGED <<kernel, orbit, i, j, k, pos, kv, m, image>>

\* One iteration of the scalar do loop.
ScalarIterate ==
  /\ pc = "iterate" /\ Scalar
  /\ LET n == Advance(pos[0]) IN
       /\ pos' = [pos EXCEPT ![0] = n]
       /\ pc' = IF k + 1 < MaxIter /\ orbit[At(0)][n] = "in" THEN "iterate"
                                                             ELSE "store"
  /\ k' = k + 1
  /\ UNCHANGED <<kernel, orbit, i, j, kv, m, image>>

\* Mutant: z is assigned without the mask.
VectorIterateMoving ==
  /\ pc = "iterate" /\ ~Scalar
  /\ k' = Increment(k)
  /\ pos' = [l \in BlockLane |-> Advance(pos[l])]
  /\ kv' = [l \in BlockLane |-> IF m[l] THEN k' ELSE kv[l]]
  /\ m' = [l \in BlockLane |-> Inside(At(l), pos'[l])]
  /\ pc' = IF k' < MaxIter /\ \E l \in BlockLane : m'[l] THEN "iterate" ELSE "store"
  /\ UNCHANGED <<kernel, orbit, i, j, image>>

\* Mutant: the counts are assigned after the mask has been updated.
VectorIterateCountLate ==
  /\ pc = "iterate" /\ ~Scalar
  /\ k' = Increment(k)
  /\ pos' = [l \in BlockLane |-> IF m[l] THEN Advance(pos[l]) ELSE pos[l]]
  /\ m' = [l \in BlockLane |-> Inside(At(l), pos'[l])]
  /\ kv' = [l \in BlockLane |-> IF m'[l] THEN k' ELSE kv[l]]
  /\ pc' = IF k' < MaxIter /\ \E l \in BlockLane : m'[l] THEN "iterate" ELSE "store"
  /\ UNCHANGED <<kernel, orbit, i, j, image>>

\* One iteration of the vector do loop.
VectorIterate ==
  /\ pc = "iterate" /\ ~Scalar
  /\ k' = Increment(k)
  /\ pos' = [l \in BlockLane |-> IF m[l] THEN Advance(pos[l]) ELSE pos[l]]
  /\ kv' = [l \in BlockLane |-> IF m[l] THEN k' ELSE kv[l]]
  /\ m' = [l \in BlockLane |-> Inside(At(l), pos'[l])]
  /\ pc' = IF k' < MaxIter /\ \E l \in BlockLane : m'[l] THEN "iterate" ELSE "store"
  /\ UNCHANGED <<kernel, orbit, i, j, image>>

\* Mutant: the pixels are stored one place further.
StoreShifted ==
  /\ pc = "store"
  /\ image' = [c \in DOMAIN image \cup {NY * i + j + l + 1 : l \in Active} |->
                 IF c - (NY * i + j + 1) \in Active
                   THEN LET l == c - (NY * i + j + 1) IN
                          Pixel(At(l), pos[l], IF Scalar THEN k ELSE kv[l])
                   ELSE image[c]]
  /\ j' = j + Width
  /\ pc' = "block"
  /\ UNCHANGED <<kernel, orbit, i, k, pos, kv, m>>

\* The stores, one per lane, and the step of the loop over j.
Store ==
  /\ pc = "store"
  /\ image' = [c \in DOMAIN image \cup {NY * i + j + l : l \in Active} |->
                 IF c - (NY * i + j) \in Active
                   THEN LET l == c - (NY * i + j) IN
                          Pixel(At(l), pos[l], IF Scalar THEN k ELSE kv[l])
                   ELSE image[c]]
  /\ j' = j + Width
  /\ pc' = "block"
  /\ UNCHANGED <<kernel, orbit, i, k, pos, kv, m>>

Terminated == pc = "done" /\ UNCHANGED escapeVars

EscapeNext ==
  \/ StartBlock
  \/ NextRow
  \/ EndImage
  \/ ScalarIterate
  \/ VectorIterate
  \/ Store
  \/ Terminated

EscapeSpec == EscapeInit /\ [][EscapeNext]_escapeVars
EscapeFairSpec == EscapeSpec /\ WF_escapeVars(EscapeNext)

-----------------------------------------------------------------------------
EscapeTypeOK ==
  /\ kernel \in ScalarKernels \cup VectorKernels
  /\ orbit \in [Point -> Orbits]
  /\ pc \in {"block", "iterate", "store", "done"}
  /\ i \in 0 .. NX
  /\ j \in 0 .. NY + VectorSize - 1
  /\ pc \in {"iterate", "store"} => i < NX /\ j < NY
  /\ k \in Nat
  /\ pos \in [BlockLane -> 0 .. Horizon]
  /\ kv \in [BlockLane -> Nat]
  /\ m \in [BlockLane -> BOOLEAN]
  /\ DOMAIN image \subseteq 0 .. NX * NY + VectorSize - 2

\* n is the iteration at which point p's orbit leaves the disc, or the last.
IsCount(p, n) ==
  /\ n \in 1 .. LastIter
  /\ \A q \in 1 .. n - 1 : orbit[p][q] = "in"
  /\ n = LastIter \/ orbit[p][n] # "in"

PixelRight(p, v) == \E n \in 1 .. LastIter : IsCount(p, n) /\ v = Pixel(p, n, n)

Countable == kernel \in FloatIndex => LastIter <= CounterMax

\* While a block is iterated, a lane still inside has counted every step and
\* has never been outside; a lane that left is where its orbit left the disc
\* and holds the count of that step, however long its neighbours go on.
LaneCounts ==
  pc \in {"iterate", "store"} /\ Countable /\ ~Scalar =>
    /\ pc = "iterate" => k < LastIter
    /\ \A l \in BlockLane :
         /\ \A q \in 1 .. pos[l] - 1 : orbit[At(l)][q] = "in"
         /\ kv[l] = pos[l] /\ pos[l] <= LastIter
         /\ m[l] => pos[l] = k
         /\ m[l] /\ pos[l] > 0 => orbit[At(l)][pos[l]] = "in"
         /\ ~m[l] => pos[l] > 0 /\ orbit[At(l)][pos[l]] # "in"
         /\ pc = "store" => ~m[l] \/ k = LastIter

\* The finished image is the scalar algorithm's, pixel by pixel, also when
\* the row length is not a multiple of the vector size and the last block of
\* each row spills into the next row before that row is drawn.
ImageRight ==
  pc = "done" /\ Countable =>
    \A r \in 0 .. NX - 1, c \in 0 .. NY - 1 :
      /\ NY * r + c \in DOMAIN image
      /\ PixelRight(<<r, c>>, image[NY * r + c])

\* The kernel writes outside the image only if the row length is not a
\* multiple of the number of points it draws at once.
NoOverrun == NY % Width = 0 => DOMAIN image \subseteq 0 .. NX * NY - 1

\* The finished image is right and, if its rows divide, nothing beside it is
\* written.
DrawnExactly == ImageRight /\ NoOverrun

LeftStays ==
  pc = "iterate" =>
    \A l \in BlockLane : ~m[l] => /\ ~m'[l]
                             /\ pos'[l] = pos[l]
                             /\ kv'[l] = kv[l]

\* A lane that has left never comes back: its z, its count and its mask stay
\* as they are for the rest of the block, even if its orbit re-enters.
LeftForGood == [][LeftStays]_escapeVars

\* The loop spins: the counter has stopped below max_iter with a lane inside.
Stalled == ~Countable /\ pc = "iterate" /\ k = CounterMax /\ \E l \in BlockLane : m[l]

\* Every image is finished, unless the counter stalls.
Terminates == <>(pc = "done") \/ <>[]Stalled
=============================================================================
