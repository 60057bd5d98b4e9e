------------------------------- MODULE Newton -------------------------------
(***************************************************************************)
(* bench/newton.cc: the image of NX x NY points, each coloured by the root *)
(* of z^4 - 1 to which Newton's iteration takes it, and the more opaque    *)
(* the fewer iterations that took.                                         *)
(*                                                                         *)
(* Unlike the escape-time kernels, newton_v does not mask z: the lanes     *)
(* that have converged go on moving while their neighbours iterate, the    *)
(* mask is recomputed from z, and colour, count and transparency are kept  *)
(* by masks that are updated in the middle of the iteration.               *)
(*                                                                         *)
(* As every lane takes the same steps, z is represented by k, the number   *)
(* of steps taken, and orbit[p][n] is the root within whose tolerance z is *)
(* after n steps from point p: 1 .. 4, or 0 for none (or a NaN).           *)
(***************************************************************************)
EXTENDS Integers

CONSTANTS
  NX, NY,    \* rows (index i) and points of a row (index j)
  VS,        \* VectorSize<T>()
  MaxIter,   \* max_iter
  AlphaCap,  \* iterations whose alpha is the largest: 10, for 10 units each
  Orbits     \* the orbits considered

Root == 0 .. 4
Lane == 0 .. VS - 1
Point == (0 .. NX - 1) \X (0 .. NY + VS - 2)

\* A step from within the tolerance of a root ends within it.
ASSUME NewtonAssumption ==
  /\ NX \in Nat /\ NY \in Nat /\ VS \in Nat \ {0}
  /\ MaxIter \in Nat /\ AlphaCap \in Nat
  /\ Orbits \subseteq [1 .. MaxIter -> Root]
  /\ \A o \in Orbits : \A n \in 1 .. MaxIter : \A q \in n .. MaxIter :
       o[n] # 0 => o[q] = o[n]

VARIABLES
  kernel,       \* "newton" or "newton_v"
  orbit,        \* the orbit of every point, those beyond the end of a row included
  pc,           \* "block", "iterate", "store", "done"
  i, j,         \* the row, and the first point of the block in it
  k,            \* the loop's iteration counter
  kv,           \* the lanes' iteration counts
  color_index,  \* the lanes' colours
  alphas,       \* the lanes' transparencies
  m,            \* the lanes' mask: has_converged
  image         \* the pixels written: a function on the indices written so far

vars == <<kernel, orbit, pc, i, j, k, kv, color_index, alphas, m, image>>

Scalar == kernel = "newton"
Width  == IF Scalar THEN 1 ELSE VS
Active == 0 .. Width - 1
At(l)  == <<i, j + l>>

\* min(iters * 10, 100), in units of 10
Alpha(iters) == IF iters > AlphaCap THEN AlphaCap ELSE iters

-----------------------------------------------------------------------------
Init ==
  /\ kernel \in {"newton", "newton_v"}
  /\ orbit \in [Point -> Orbits]
  /\ pc = "block" /\ i = 0 /\ j = 0
  /\ k = 0
  /\ kv = [l \in Lane |-> 0]
  /\ color_index = [l \in Lane |-> 0]
  /\ alphas = [l \in Lane |-> 0]
  /\ m = [l \in Lane |-> FALSE]
  /\ image = [c \in {} |-> 0]

\* Mutant: the colours of the last block are left in place.
StartBlockKeepsColor ==
  /\ pc = "block" /\ i < NX /\ j < NY
  /\ pc' = IF MaxIter > 0 THEN "iterate" ELSE "store"
  /\ k' = 0
  /\ kv' = [l \in Lane |-> 0]
  /\ alphas' = [l \in Lane |-> 0]
  /\ m' = [l \in Lane |-> FALSE]
  /\ UNCHANGED <<kernel, orbit, i, j, color_index, image>>

\* The body of the loop over j up to the loop over k.
StartBlock ==
  /\ pc = "block" /\ i < NX /\ j < NY
  /\ pc' = IF MaxIter > 0 THEN "iterate" ELSE "store"
  /\ k' = 0
  /\ kv' = [l \in Lane |-> 0]
  /\ color_index' = [l \in Lane |-> 0]
  /\ alphas' = [l \in Lane |-> 0]
  /\ m' = [l \in Lane |-> FALSE]
  /\ UNCHANGED <<kernel, orbit, i, j, image>>

NextRow ==
  /\ pc = "block" /\ i < NX /\ j >= NY
  /\ i' = i + 1 /\ j' = 0
  /\ UNCHANGED <<kernel, orbit, pc, k, kv, color_index, alphas, m, image>>

Finish ==
  /\ pc = "block" /\ i = NX
  /\ pc' = "done"
  /\ UNCHANGED <<kernel, orbit, i, j, k, kv, color_index, alphas, m, image>>

\* The root that lane l's z is near after this iteration.
Near(l) == orbit[At(l)][k + 1]

\* One iteration of newton, with the call of converged.
ScalarIterate ==
  /\ pc = "iterate" /\ Scalar
  /\ k' = k + 1
  /\ alphas' = [alphas EXCEPT ![0] = Alpha(k)]
  /\ color_index' = [color_index EXCEPT ![0] = IF Near(0) # 0 THEN Near(0) ELSE @]
  /\ m' = [m EXCEPT ![0] = Near(0) # 0]
  /\ pc' = IF m'[0] \/ k' >= MaxIter THEN "store" ELSE "iterate"
  /\ UNCHANGED <<kernel, orbit, i, j, kv, image>>

\* Mutant: the counts are assigned under the mask as it was before
\* converged_v returned.
VectorIterateOldMask ==
  /\ pc = "iterate" /\ ~Scalar
  /\ k' = k + 1
  /\ alphas' = [l \in Lane |-> Alpha(kv[l])]
  /\ color_index' = [l \in Lane |-> IF Near(l) # 0 THEN Near(l) ELSE color_index[l]]
  /\ m' = [l \in Lane |-> Near(l) # 0]
  /\ kv' = [l \in Lane |-> IF m[l] THEN kv[l] ELSE k']
  /\ pc' = IF (\A l \in Lane : m'[l]) \/ k' >= MaxIter THEN "store" ELSE "iterate"
  /\ UNCHANGED <<kernel, orbit, i, j, image>>

\* Mutant: the loop goes on only while no lane has converged.
VectorIterateStopsEarly ==
  /\ pc = "iterate" /\ ~Scalar
  /\ k' = k + 1
  /\ alphas' = [l \in Lane |-> Alpha(kv[l])]
  /\ color_index' = [l \in Lane |-> IF Near(l) # 0 THEN Near(l) ELSE color_index[l]]
  /\ m' = [l \in Lane |-> Near(l) # 0]
  /\ kv' = [l \in Lane |-> IF m'[l] THEN kv[l] ELSE k']
  /\ pc' = IF (\E l \in Lane : m'[l]) \/ k' >= MaxIter THEN "store" ELSE "iterate"
  /\ UNCHANGED <<kernel, orbit, i, j, image>>

\* One iteration of newton_v: converged_v reads the counts of the iteration
\* before, then the lanes it found not to have converged take the new count.
VectorIterate ==
  /\ pc = "iterate" /\ ~Scalar
  /\ k' = k + 1
  /\ alphas' = [l \in Lane |-> Alpha(kv[l])]
  /\ color_index' = [l \in Lane |-> IF Near(l) # 0 THEN Near(l) ELSE color_index[l]]
  /\ m' = [l \in Lane |-> Near(l) # 0]
  /\ kv' = [l \in Lane |-> IF m'[l] THEN kv[l] ELSE k']
  /\ pc' = IF (\A l \in Lane : m'[l]) \/ k' >= MaxIter THEN "store" ELSE "iterate"
  /\ UNCHANGED <<kernel, orbit, i, j, image>>

\* The stores, one per lane, and the step of the loop over j.
Store ==
  /\ pc = "store"
  /\ image' = [c \in DOMAIN image \cup {NY * i + j + l : l \in Active} |->
                 IF c - (NY * i + j) \in Active
                   THEN LET l == c - (NY * i + j) IN <<color_index[l], alphas[l]>>
                   ELSE image[c]]
  /\ j' = j + Width
  /\ pc' = "block"
  /\ UNCHANGED <<kernel, orbit, i, k, kv, color_index, alphas, m>>

Terminated == pc = "done" /\ UNCHANGED vars

Next ==
  \/ StartBlock
  \/ NextRow
  \/ Finish
  \/ ScalarIterate
  \/ VectorIterate
  \/ Store
  \/ Terminated

Spec == Init /\ [][Next]_vars

-----------------------------------------------------------------------------
TypeOK ==
  /\ kernel \in {"newton", "newton_v"}
  /\ orbit \in [Point -> Orbits]
  /\ pc \in {"block", "iterate", "store", "done"}
  /\ i \in 0 .. NX
  /\ j \in 0 .. NY + VS - 1
  /\ pc \in {"iterate", "store"} => i < NX /\ j < NY
  /\ k \in 0 .. MaxIter
  /\ kv \in [Lane -> 0 .. MaxIter]
  /\ color_index \in [Lane -> Root]
  /\ alphas \in [Lane -> 0 .. AlphaCap]
  /\ m \in [Lane -> BOOLEAN]
  /\ DOMAIN image \subseteq 0 .. NX * NY + VS - 2

\* Colour and transparency after n iterations of the scalar loop from p: those
\* of the iteration at which the orbit first comes near a root.
IsResult(p, n, v) ==
  \/ n = 0 /\ v = <<0, 0>>
  \/ n > 0 /\ orbit[p][n] = 0 /\ v = <<0, Alpha(n - 1)>>
  \/ \E q \in 1 .. n : /\ orbit[p][q] # 0
                       /\ \A x \in 1 .. q - 1 : orbit[p][x] = 0
                       /\ v = <<orbit[p][q], Alpha(q - 1)>>

\* After k iterations of a block every lane holds what k iterations of the
\* scalar loop give its point, however its neighbours move, and its count
\* stopped at the iteration before it converged.
LaneResults ==
  pc \in {"iterate", "store"} =>
    \A l \in Active :
      /\ IsResult(At(l), k, <<color_index[l], alphas[l]>>)
      /\ m[l] <=> k > 0 /\ orbit[At(l)][k] # 0
      /\ ~Scalar => /\ ~m[l] => kv[l] = k
                    /\ m[l] => kv[l] < k /\ alphas[l] = Alpha(kv[l])

\* The finished image is the scalar algorithm's, pixel by pixel, also when the
\* row length is not a multiple of the vector size.
ImageRight ==
  pc = "done" =>
    \A r \in 0 .. NX - 1, c \in 0 .. NY - 1 :
      /\ NY * r + c \in DOMAIN image
      /\ IsResult(<<r, c>>, MaxIter, image[NY * r + c])

ConvergedStays ==
  pc = "iterate" =>
    \A l \in Active : m[l] => /\ m'[l] /\ kv'[l] = kv[l]
                              /\ color_index'[l] = color_index[l]
                              /\ alphas'[l] = alphas[l]

\* A lane that has converged keeps its colour, its count and its transparency
\* for the rest of the block, although its z still moves.
Settled == [][ConvergedStays]_vars
=============================================================================
