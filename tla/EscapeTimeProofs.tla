-------------------------- MODULE EscapeTimeProofs --------------------------
(***************************************************************************)
(* Proofs about EscapeTime, for every image size, vector size, iteration   *)
(* limit and set of orbits.                                                *)
(***************************************************************************)
EXTENDS EscapeTime, TLAPS

-----------------------------------------------------------------------------
(* Pixels and rows: pixel c of row r of an image of R rows of C points is  *)
(* at C * r + c.                                                           *)

LEMMA RowBound ==
  ASSUME NEW R \in Nat, NEW C \in Nat, NEW r \in 0 .. R - 1
  PROVE  C * r \in Nat /\ C * r + C <= R * C
<1>1. R - 1 - r \in Nat /\ r \in Nat
  OBVIOUS
<1>2. C * (R - 1 - r) \in Nat /\ C * r \in Nat
  BY <1>1
<1>3. C * (R - 1 - r) = R * C - C - C * r
  BY <1>1
<1> QED
  BY <1>2, <1>3

LEMMA EarlierRow ==
  ASSUME NEW C \in Nat, NEW r \in Nat, NEW s \in Nat, r < s
  PROVE  C * r + C <= C * s
<1>1. s - r - 1 \in Nat /\ C * (s - r - 1) \in Nat
  OBVIOUS
<1>2. C * (s - r - 1) = C * s - C * r - C
  OBVIOUS
<1> QED
  BY <1>1, <1>2

\* When the vector size divides the row length, a block that begins in a row
\* ends in it.
LEMMA BlockInRow ==
  ASSUME NEW C \in Nat, NEW V \in Nat \ {0}, NEW b \in Nat, C % V = 0, b * V < C
  PROVE  b * V + V <= C
<1>1. PICK d \in Nat : C = d * V
  <2>1. C \div V \in Nat /\ C = V * (C \div V) + (C % V)
    OBVIOUS
  <2> QED
    BY <2>1
<1>2. d > b
  <2>1. ASSUME d <= b PROVE FALSE
    <3>1. (b - d) * V \in Nat
      BY <2>1
    <3>2. (b - d) * V = b * V - d * V
      OBVIOUS
    <3> QED
      BY <1>1, <3>1, <3>2
  <2> QED
    BY <2>1
<1>3. (d - b - 1) * V \in Nat
  BY <1>2
<1>4. (d - b - 1) * V = d * V - b * V - V
  OBVIOUS
<1> QED
  BY <1>1, <1>3, <1>4

USE EscapeAssumption

-----------------------------------------------------------------------------
(* The invariant.                                                          *)

\* The scalar loop: z has taken k steps, none of which but the last left.
ScalarCounts ==
  pc \in {"iterate", "store"} /\ Scalar =>
    /\ pos[0] = k /\ k <= LastIter
    /\ \A q \in 1 .. k - 1 : orbit[At(0)][q] = "in"
    /\ pc = "iterate" => k < LastIter /\ (k > 0 => orbit[At(0)][k] = "in")
    /\ pc = "store" => k > 0 /\ (k = LastIter \/ orbit[At(0)][k] # "in")

\* The pixels of the rows and blocks already drawn are right.
Drawn(r, c) == r < i \/ (r = i /\ c < j)

DrawnRight ==
  Countable => \A r \in 0 .. NX - 1, c \in 0 .. NY - 1 :
    Drawn(r, c) => /\ NY * r + c \in DOMAIN image
                   /\ PixelRight(<<r, c>>, image[NY * r + c])

\* A vector kernel's block begins at a multiple of the vector size.
BlockAligned == ~Scalar => \E b \in Nat : j = b * VectorSize

DoneInv == pc = "done" => i = NX

IInv ==
  /\ EscapeTypeOK
  /\ LaneCounts
  /\ ScalarCounts
  /\ DrawnRight
  /\ BlockAligned
  /\ DoneInv
  /\ NoOverrun

LEMMA InitInv == EscapeInit => IInv
<1> SUFFICES ASSUME EscapeInit PROVE IInv
  OBVIOUS
<1> USE DEF EscapeInit
<1>1. EscapeTypeOK
  BY DEF EscapeTypeOK, BlockLane
<1>2. LaneCounts /\ ScalarCounts /\ DoneInv
  BY DEF LaneCounts, ScalarCounts, DoneInv
<1>3. DrawnRight
  BY DEF DrawnRight, Drawn
<1>4. BlockAligned
  <2>1. 0 \in Nat /\ 0 = 0 * VectorSize
    OBVIOUS
  <2> QED
    BY <2>1 DEF BlockAligned
<1>5. NoOverrun
  BY DEF NoOverrun
<1> QED
  BY <1>1, <1>2, <1>3, <1>4, <1>5 DEF IInv

LEMMA SamePixels ==
  ASSUME UNCHANGED <<kernel, orbit, image>>, NEW r, NEW c
  PROVE  PixelRight(<<r, c>>, image[NY * r + c])'
           <=> PixelRight(<<r, c>>, image[NY * r + c])
BY DEF PixelRight, IsCount, Pixel

\* A step that neither draws nor moves past a point not yet drawn.
LEMMA SameDrawing ==
  ASSUME IInv, UNCHANGED <<kernel, orbit, image>>,
         \A r \in 0 .. NX - 1, c \in 0 .. NY - 1 : Drawn(r, c)' => Drawn(r, c)
  PROVE  DrawnRight' /\ NoOverrun'
<1>1. DrawnRight'
  <2> SUFFICES ASSUME Countable', NEW r \in 0 .. NX - 1, NEW c \in 0 .. NY - 1,
                      Drawn(r, c)'
               PROVE  /\ (NY * r + c \in DOMAIN image)'
                      /\ PixelRight(<<r, c>>, image[NY * r + c])'
    BY DEF DrawnRight
  <2>1. Countable /\ Drawn(r, c)
    BY DEF Countable
  <2>2. /\ NY * r + c \in DOMAIN image
        /\ PixelRight(<<r, c>>, image[NY * r + c])
    BY <2>1 DEF IInv, DrawnRight
  <2> QED
    BY <2>2, SamePixels
<1>2. NoOverrun'
  BY DEF IInv, NoOverrun, Width, Scalar
<1> QED
  BY <1>1, <1>2

\* Steps that leave the image and the block's place alone keep what is drawn.
LEMMA SamePlace ==
  ASSUME IInv, UNCHANGED <<kernel, orbit, i, j, image>>
  PROVE  DrawnRight' /\ BlockAligned' /\ NoOverrun'
<1>1. \A r \in 0 .. NX - 1, c \in 0 .. NY - 1 : Drawn(r, c)' => Drawn(r, c)
  BY DEF Drawn
<1>2. DrawnRight' /\ NoOverrun'
  BY <1>1, SameDrawing
<1>3. BlockAligned'
  BY DEF IInv, BlockAligned, Scalar
<1> QED
  BY <1>2, <1>3

LEMMA StartBlockInv ==
  ASSUME IInv, StartBlock
  PROVE  IInv'
<1> USE DEF StartBlock
<1>1. EscapeTypeOK'
  BY DEF IInv, EscapeTypeOK
<1>2. LaneCounts'
  BY DEF LaneCounts, LastIter, BlockLane
<1>3. ScalarCounts'
  BY DEF ScalarCounts, LastIter, BlockLane
<1>4. DoneInv'
  BY DEF DoneInv
<1> QED
  BY <1>1, <1>2, <1>3, <1>4, SamePlace DEF IInv

LEMMA NextRowInv ==
  ASSUME IInv, NextRow
  PROVE  IInv'
<1> USE DEF NextRow
<1>1. EscapeTypeOK'
  BY DEF IInv, EscapeTypeOK
<1>2. LaneCounts' /\ ScalarCounts' /\ DoneInv'
  BY DEF LaneCounts, ScalarCounts, DoneInv
<1>3. DrawnRight' /\ NoOverrun'
  <2>1. \A r \in 0 .. NX - 1, c \in 0 .. NY - 1 : Drawn(r, c)' => Drawn(r, c)
    BY DEF IInv, EscapeTypeOK, Drawn
  <2> QED
    BY <2>1, SameDrawing
<1>4. BlockAligned'
  <2>1. 0 \in Nat /\ 0 = 0 * VectorSize
    OBVIOUS
  <2> QED
    BY <2>1 DEF BlockAligned
<1> QED
  BY <1>1, <1>2, <1>3, <1>4 DEF IInv

LEMMA FinishInv ==
  ASSUME IInv, EndImage
  PROVE  IInv'
<1> USE DEF EndImage
<1>1. EscapeTypeOK' /\ LaneCounts' /\ ScalarCounts' /\ DoneInv'
  BY DEF IInv, EscapeTypeOK, LaneCounts, ScalarCounts, DoneInv
<1> QED
  BY <1>1, SamePlace DEF IInv

LEMMA ScalarIterateInv ==
  ASSUME IInv, ScalarIterate
  PROVE  IInv'
<1> USE DEF ScalarIterate
<1> DEFINE n == Advance(pos[0])
<1>1. /\ EscapeTypeOK /\ Scalar /\ pos[0] = k /\ k < LastIter /\ k \in Nat
      /\ LastIter \in Nat /\ 0 \in BlockLane /\ pos \in [BlockLane -> 0 .. Horizon]
      /\ i < NX /\ j < NY
  BY DEF IInv, ScalarCounts, EscapeTypeOK, BlockLane, LastIter
<1>2. n = k + 1 /\ n \in 1 .. Horizon
  BY <1>1 DEF Advance
<1>3. EscapeTypeOK'
  BY <1>1, <1>2 DEF EscapeTypeOK
<1>4. pos'[0] = k + 1
  BY <1>1, <1>2
<1>5. ScalarCounts'
  <2>1. \A q \in 1 .. k : orbit[At(0)][q] = "in"
    <3> SUFFICES ASSUME NEW q \in 1 .. k PROVE orbit[At(0)][q] = "in"
      OBVIOUS
    <3>1. q \in 1 .. k - 1 \/ q = k
      BY <1>1
    <3> QED
      BY <3>1, <1>1 DEF IInv, ScalarCounts
  <2>2. k' = k + 1 /\ k + 1 <= LastIter /\ k + 1 > 0 /\ (k + 1) - 1 = k
    BY <1>1
  <2>3. pc' = "iterate" => k + 1 < LastIter /\ orbit[At(0)][k + 1] = "in"
    BY <1>1, <1>2 DEF LastIter
  <2>4. pc' = "store" => k + 1 = LastIter \/ orbit[At(0)][k + 1] # "in"
    BY <1>1, <1>2 DEF LastIter
  <2> QED
    BY <1>4, <2>1, <2>2, <2>3, <2>4 DEF ScalarCounts, At
<1>6. LaneCounts' /\ DoneInv'
  BY <1>1 DEF LaneCounts, Scalar, DoneInv
<1> QED
  BY <1>3, <1>5, <1>6, SamePlace DEF IInv

LEMMA VectorIterateInv ==
  ASSUME IInv, VectorIterate
  PROVE  IInv'
<1> USE DEF VectorIterate
<1>1. /\ ~Scalar /\ pos \in [BlockLane -> 0 .. Horizon] /\ k \in Nat
      /\ kv \in [BlockLane -> Nat] /\ m \in [BlockLane -> BOOLEAN] /\ LastIter \in Nat \ {0}
      /\ kernel \in VectorKernels /\ orbit \in [Point -> Orbits]
      /\ i \in 0 .. NX - 1 /\ j \in 0 .. NY - 1
  BY DEF IInv, EscapeTypeOK, Scalar, LastIter
<1>2. k' \in Nat
  BY <1>1 DEF Increment
<1>3. \A n \in 0 .. Horizon : Advance(n) \in 0 .. Horizon
  BY DEF Advance
<1>4. /\ pos' \in [BlockLane -> 0 .. Horizon] /\ kv' \in [BlockLane -> Nat]
      /\ m' \in [BlockLane -> BOOLEAN]
  BY <1>1, <1>2, <1>3 DEF Inside
<1>5. EscapeTypeOK'
  BY <1>2, <1>4 DEF IInv, EscapeTypeOK
<1>6. LaneCounts'
  <2> SUFFICES ASSUME Countable PROVE LaneCounts'
    BY DEF LaneCounts, Countable
  <2>1. /\ k < LastIter
        /\ \A l \in BlockLane :
             /\ \A q \in 1 .. pos[l] - 1 : orbit[At(l)][q] = "in"
             /\ kv[l] = pos[l] /\ pos[l] <= LastIter
             /\ m[l] => pos[l] = k
             /\ m[l] /\ pos[l] > 0 => orbit[At(l)][pos[l]] = "in"
             /\ ~m[l] => pos[l] > 0 /\ orbit[At(l)][pos[l]] # "in"
    BY <1>1 DEF IInv, LaneCounts
  <2>2. k' = k + 1
    BY <1>1, <2>1 DEF Countable, Increment
  <2>3. pc' = "iterate" => k' < LastIter
    BY <1>1, <2>1, <2>2 DEF LastIter
  <2>4. pc' = "store" => k' = LastIter \/ \A l \in BlockLane : ~m'[l]
    BY <1>1, <2>1, <2>2 DEF LastIter
  <2>5. ASSUME NEW l \in BlockLane
        PROVE  /\ \A q \in 1 .. pos'[l] - 1 : orbit[At(l)][q] = "in"
               /\ kv'[l] = pos'[l] /\ pos'[l] <= LastIter
               /\ m'[l] => pos'[l] = k'
               /\ m'[l] /\ pos'[l] > 0 => orbit[At(l)][pos'[l]] = "in"
               /\ ~m'[l] => pos'[l] > 0 /\ orbit[At(l)][pos'[l]] # "in"
    <3>0. At(l) \in Point /\ orbit[At(l)] \in Orbits
      <4>1. j + l \in 0 .. NY + VectorSize - 2
        BY <1>1 DEF BlockLane
      <4>2. At(l) \in Point
        BY <1>1, <4>1 DEF At, Point
      <4> QED
        BY <1>1, <4>2
    <3>1. CASE m[l]
      <4>1. pos'[l] = k + 1 /\ kv'[l] = k + 1
        BY <1>1, <2>1, <2>2, <3>1 DEF Advance
      <4>2. \A q \in 1 .. k : orbit[At(l)][q] = "in"
        <5> SUFFICES ASSUME NEW q \in 1 .. k PROVE orbit[At(l)][q] = "in"
          OBVIOUS
        <5>1. q \in 1 .. k - 1 \/ q = k
          BY <1>1
        <5> QED
          BY <5>1, <2>1, <3>1
      <4>3. k + 1 \in Position /\ (k + 1) - 1 = k
        BY <1>1, <2>1 DEF Position
      <4>4. orbit[At(l)][k + 1] # "nan"
        <5> SUFFICES ASSUME orbit[At(l)][k + 1] = "nan" PROVE FALSE
          OBVIOUS
        <5>1. PICK q \in 1 .. (k + 1) - 1 : orbit[At(l)][q] = "out"
          BY <3>0, <4>3
        <5> QED
          BY <5>1, <4>2, <4>3
      <4>5. m'[l] <=> orbit[At(l)][k + 1] = "in"
        BY <1>1, <4>1, <4>4 DEF Inside
      <4> QED
        BY <1>1, <2>1, <2>2, <4>1, <4>2, <4>3, <4>5
    <3>2. CASE ~m[l]
      <4>1. pos'[l] = pos[l] /\ kv'[l] = kv[l]
        BY <1>1, <3>2
      <4>2. pos[l] \in Position /\ orbit[At(l)][pos[l]] # "in"
        BY <1>1, <2>1, <3>2 DEF Position
      <4>3. orbit[At(l)][pos[l]] # "nan"
        <5> SUFFICES ASSUME orbit[At(l)][pos[l]] = "nan" PROVE FALSE
          OBVIOUS
        <5>1. PICK q \in 1 .. pos[l] - 1 : orbit[At(l)][q] = "out"
          BY <3>0, <4>2
        <5> QED
          BY <5>1, <2>1
      <4>4. ~m'[l]
        BY <1>1, <4>1, <4>2, <4>3 DEF Inside
      <4> QED
        BY <2>1, <3>2, <4>1, <4>4
    <3> QED
      BY <3>1, <3>2
  <2> HIDE DEF VectorIterate
  <2>6. UNCHANGED <<orbit, i, j>>
    BY DEF VectorIterate
  <2> QED
    BY <2>3, <2>4, <2>5, <2>6 DEF LaneCounts, At
<1>7. ScalarCounts' /\ DoneInv'
  BY <1>1 DEF ScalarCounts, Scalar, DoneInv
<1> QED
  BY <1>5, <1>6, <1>7, SamePlace DEF IInv

LEMMA PixelKept ==
  ASSUME UNCHANGED <<kernel, orbit>>, NEW r, NEW c, NEW v,
         image'[NY * r + c] = v, PixelRight(<<r, c>>, v)
  PROVE  PixelRight(<<r, c>>, image[NY * r + c])'
BY DEF PixelRight, IsCount, Pixel

\* When a block is stored, each lane holds the count of its point.
LEMMA StoredRight ==
  ASSUME IInv, pc = "store", Countable, NEW l \in Active
  PROVE  PixelRight(At(l), Pixel(At(l), pos[l], IF Scalar THEN k ELSE kv[l]))
<1>1. LastIter \in Nat \ {0}
  BY DEF LastIter
<1>2. CASE Scalar
  <2>1. l = 0
    BY <1>2 DEF Active, Width
  <2>2. /\ pos[0] = k /\ k \in 1 .. LastIter
        /\ \A q \in 1 .. k - 1 : orbit[At(0)][q] = "in"
        /\ k = LastIter \/ orbit[At(0)][k] # "in"
    BY <1>1, <1>2 DEF IInv, ScalarCounts, EscapeTypeOK
  <2>3. IsCount(At(0), k)
    BY <2>2 DEF IsCount
  <2> QED
    BY <1>2, <2>1, <2>2, <2>3 DEF PixelRight
<1>3. CASE ~Scalar
  <2>1. l \in BlockLane
    BY <1>3 DEF Active, Width, BlockLane
  <2>2. /\ \A q \in 1 .. pos[l] - 1 : orbit[At(l)][q] = "in"
        /\ kv[l] = pos[l] /\ pos[l] <= LastIter
        /\ m[l] => pos[l] = k
        /\ ~m[l] => pos[l] > 0 /\ orbit[At(l)][pos[l]] # "in"
        /\ ~m[l] \/ k = LastIter
    BY <1>3, <2>1 DEF IInv, LaneCounts
  <2>3. pos[l] \in Nat
    BY <2>1 DEF IInv, EscapeTypeOK
  <2>4. pos[l] \in 1 .. LastIter
    BY <1>1, <2>2, <2>3
  <2>5. IsCount(At(l), pos[l])
    BY <2>2, <2>4 DEF IsCount
  <2> QED
    BY <1>3, <2>2, <2>4, <2>5 DEF PixelRight
<1> QED
  BY <1>2, <1>3

LEMMA StoreInv ==
  ASSUME IInv, Store
  PROVE  IInv'
<1> DEFINE base == NY * i + j
<1>1. /\ i \in 0 .. NX - 1 /\ j \in 0 .. NY - 1 /\ pc = "store"
      /\ DOMAIN image \subseteq 0 .. NX * NY + VectorSize - 2
  BY DEF Store, IInv, EscapeTypeOK
<1>2. NY * i \in Nat /\ NY * i + NY <= NX * NY
  BY <1>1, RowBound
<1>3. Width \in 1 .. VectorSize /\ Active = 0 .. Width - 1
  BY DEF Width, Active
<1>4. base \in Nat /\ base < NX * NY /\ NX * NY \in Nat
  BY <1>1, <1>2
<1>5. DOMAIN image' = DOMAIN image \cup {base + l : l \in Active}
  BY DEF Store
<1>6. UNCHANGED <<kernel, orbit, i, k, pos, kv, m>> /\ j' = j + Width /\ pc' = "block"
  BY DEF Store
<1>7. EscapeTypeOK'
  <2>1. \A l \in Active : base + l \in 0 .. NX * NY + VectorSize - 2
    BY <1>3, <1>4
  <2>2. DOMAIN image' \subseteq 0 .. NX * NY + VectorSize - 2
    BY <1>1, <1>5, <2>1
  <2>3. j' \in 0 .. NY + VectorSize - 1
    BY <1>1, <1>3, <1>6
  <2> QED
    BY <1>6, <2>2, <2>3 DEF IInv, EscapeTypeOK
<1>8. LaneCounts' /\ ScalarCounts' /\ DoneInv'
  BY <1>6 DEF LaneCounts, ScalarCounts, DoneInv
<1>9. DrawnRight'
  <2> SUFFICES ASSUME Countable', NEW r \in 0 .. NX - 1, NEW c \in 0 .. NY - 1,
                      Drawn(r, c)'
               PROVE  /\ (NY * r + c \in DOMAIN image)'
                      /\ PixelRight(<<r, c>>, image[NY * r + c])'
    BY DEF DrawnRight
  <2> DEFINE x == NY * r + c
  <2>1. Countable /\ (r < i \/ (r = i /\ c < j + Width))
    BY <1>6 DEF Countable, Drawn
  <2>2. NY * r \in Nat /\ NY * r + NY <= NX * NY
    BY RowBound
  <2>3. CASE Drawn(r, c)
    <3>1. x \in DOMAIN image /\ PixelRight(<<r, c>>, image[x])
      BY <2>1, <2>3 DEF IInv, DrawnRight
    <3>2. x < base
      <4>1. CASE r < i
        <5>1. NY * r + NY <= NY * i
          BY <1>1, <4>1, EarlierRow
        <5> QED
          BY <1>1, <1>2, <2>2, <5>1
      <4>2. CASE r = i /\ c < j
        BY <1>1, <1>2, <4>2
      <4> QED
        BY <2>3, <4>1, <4>2 DEF Drawn
    <3>3. x - base \notin Active
      BY <1>3, <1>4, <2>2, <3>2
    <3>4. x \in DOMAIN image' /\ image'[x] = image[x]
      BY <3>1, <3>3 DEF Store
    <3> QED
      BY <1>6, <3>1, <3>4, PixelKept
  <2>4. CASE ~Drawn(r, c)
    <3>1. r = i /\ c - j \in Active
      BY <1>1, <1>3, <2>1, <2>4 DEF Drawn
    <3> DEFINE l == c - j
    <3>2. At(l) = <<r, c>> /\ x = base + l /\ x - base = l
      BY <1>1, <1>2, <3>1 DEF At
    <3>3. x \in DOMAIN image'
      BY <1>5, <3>1, <3>2
    <3> DEFINE v == Pixel(At(l), pos[l], IF Scalar THEN k ELSE kv[l])
    <3>4. image'[x] = v
      BY <3>1, <3>2, <3>3 DEF Store
    <3>5. PixelRight(<<r, c>>, v)
      BY <1>1, <2>1, <3>1, <3>2, StoredRight
    <3> HIDE DEF v
    <3> QED
      BY <1>6, <3>3, <3>4, <3>5, PixelKept
  <2> QED
    BY <2>3, <2>4
<1>10. BlockAligned'
  <2> SUFFICES ASSUME ~Scalar PROVE \E b \in Nat : j' = b * VectorSize
    BY <1>6 DEF BlockAligned, Scalar
  <2>1. PICK b \in Nat : j = b * VectorSize
    BY DEF IInv, BlockAligned
  <2>2. b + 1 \in Nat /\ (b + 1) * VectorSize = b * VectorSize + VectorSize
    OBVIOUS
  <2> QED
    BY <1>6, <2>1, <2>2 DEF Width
<1>11. NoOverrun'
  <2> SUFFICES ASSUME NY % Width = 0 PROVE DOMAIN image' \subseteq 0 .. NX * NY - 1
    BY DEF NoOverrun, Width, Scalar, Store
  <2>1. j + Width <= NY
    <3>1. CASE Scalar
      BY <1>1, <3>1 DEF Width
    <3>2. CASE ~Scalar
      <4>1. PICK b \in Nat : j = b * VectorSize
        BY <3>2 DEF IInv, BlockAligned
      <4>2. b * VectorSize + VectorSize <= NY
        <5>1. NY \in Nat /\ VectorSize \in Nat \ {0} /\ NY % VectorSize = 0 /\ b * VectorSize < NY
          BY <1>1, <3>2, <4>1 DEF Width
        <5> QED
          BY ONLY <5>1, b \in Nat, BlockInRow, Zenon
      <4> QED
        BY <3>2, <4>1, <4>2 DEF Width
    <3> QED
      BY <3>1, <3>2
  <2>2. \A l \in Active : base + l \in 0 .. NX * NY - 1
    BY <1>1, <1>2, <1>3, <1>4, <2>1
  <2>3. DOMAIN image \subseteq 0 .. NX * NY - 1
    BY DEF IInv, NoOverrun, Width, Scalar
  <2> QED
    BY <1>5, <2>2, <2>3
<1> QED
  BY <1>7, <1>8, <1>9, <1>10, <1>11 DEF IInv

LEMMA StepInv == IInv /\ [EscapeNext]_escapeVars => IInv'
<1> SUFFICES ASSUME IInv, [EscapeNext]_escapeVars PROVE IInv'
  OBVIOUS
<1>1. ASSUME UNCHANGED escapeVars PROVE IInv'
  <2>1. EscapeTypeOK' /\ LaneCounts' /\ ScalarCounts' /\ DoneInv'
    BY <1>1 DEF escapeVars, IInv, EscapeTypeOK, LaneCounts, ScalarCounts, DoneInv, Scalar,
                Countable, At
  <2> QED
    BY <1>1, <2>1, SamePlace DEF escapeVars, IInv
<1> QED
  BY <1>1, StartBlockInv, NextRowInv, FinishInv, ScalarIterateInv,
     VectorIterateInv, StoreInv DEF EscapeNext, Terminated

\* The inductive invariant holds of every kernel, whatever the image's size,
\* the vector size, the iteration limit and the orbits.
THEOREM Invariant == EscapeSpec => []IInv
<1> QED
  BY InitInv, StepInv, PTL DEF EscapeSpec

\* The state is well typed; no kernel stores a pixel further than VS - 1 places
\* beyond the image, which is what the drivers must allocate for it.
THEOREM TypeCorrect == EscapeSpec => []EscapeTypeOK
<1>1. IInv => EscapeTypeOK
  BY DEF IInv
<1> QED
  BY <1>1, Invariant, PTL

\* The masked loop of the vector kernels counts, in every lane, what the scalar
\* loop counts, although all lanes iterate until the last one leaves.
THEOREM LanesCountRight == EscapeSpec => []LaneCounts
<1>1. IInv => LaneCounts
  BY DEF IInv
<1> QED
  BY <1>1, Invariant, PTL

\* The vector kernels draw the scalar kernels' image, for every row length:
\* what a row's last block spills into the next row is drawn over.
THEOREM ImageIsScalarImage == EscapeSpec => []ImageRight
<1>1. IInv => ImageRight
  <2> SUFFICES ASSUME IInv, pc = "done", Countable,
                      NEW r \in 0 .. NX - 1, NEW c \in 0 .. NY - 1
               PROVE  /\ NY * r + c \in DOMAIN image
                      /\ PixelRight(<<r, c>>, image[NY * r + c])
    BY DEF ImageRight
  <2>1. Drawn(r, c)
    BY DEF IInv, DoneInv, Drawn
  <2> QED
    BY <2>1 DEF IInv, DrawnRight
<1> QED
  BY <1>1, Invariant, PTL

\* No kernel writes outside the image when the vector size divides the length
\* of a row.
THEOREM StaysInImage == EscapeSpec => []NoOverrun
<1>1. IInv => NoOverrun
  BY DEF IInv
<1> QED
  BY <1>1, Invariant, PTL

\* What the drivers show: the scalar image and, if VS divides the length of a
\* row, no store beside it (mandelbrot.cc:105-150, julia.cc:60-110).
THEOREM DrawsTheImage == EscapeSpec => []DrawnExactly
BY ImageIsScalarImage, StaysInImage, PTL DEF DrawnExactly

\* The mask of a lane that has left is the comparison of the z it keeps.
MaskHolds ==
  pc = "iterate" => \A l \in BlockLane : ~m[l] => ~Scalar /\ ~Inside(At(l), pos[l])

LEMMA MaskHoldsInit == EscapeInit => MaskHolds
BY DEF EscapeInit, MaskHolds

LEMMA MaskHoldsStep ==
  ASSUME EscapeTypeOK, MaskHolds, [EscapeNext]_escapeVars
  PROVE  MaskHolds'
<1>1. CASE StartBlock
  BY <1>1 DEF StartBlock, MaskHolds
<1>2. CASE NextRow \/ EndImage \/ Store \/ Terminated
  BY <1>2 DEF NextRow, EndImage, Store, Terminated, escapeVars, MaskHolds
<1>3. CASE ScalarIterate
  BY <1>3 DEF ScalarIterate, MaskHolds
<1>4. CASE VectorIterate
  BY <1>4 DEF VectorIterate, MaskHolds, EscapeTypeOK, Scalar, Inside, At
<1>5. CASE UNCHANGED escapeVars
  BY <1>5 DEF escapeVars, MaskHolds, Scalar, Inside, At
<1> QED
  BY <1>1, <1>2, <1>3, <1>4, <1>5 DEF EscapeNext

\* In every kernel, also when the counter stalls, a lane that has left keeps its
\* z, its count and its mask: a masked assignment that leaves z alone makes the
\* next comparison come out as the last one did.
THEOREM LanesLeaveForGood == EscapeSpec => LeftForGood
<1>1. ASSUME EscapeTypeOK, MaskHolds, [EscapeNext]_escapeVars, pc = "iterate",
             NEW l \in BlockLane, ~m[l]
      PROVE  ~m'[l] /\ pos'[l] = pos[l] /\ kv'[l] = kv[l]
  <2>1. CASE VectorIterate
    BY <1>1, <2>1 DEF VectorIterate, MaskHolds, EscapeTypeOK, Inside, At
  <2>2. CASE ScalarIterate
    BY <1>1, <2>2 DEF ScalarIterate, MaskHolds
  <2>3. CASE UNCHANGED escapeVars
    BY <1>1, <2>3 DEF escapeVars
  <2> QED
    BY <1>1, <2>1, <2>2, <2>3
       DEF EscapeNext, StartBlock, NextRow, EndImage, Store, Terminated
<1>2. EscapeTypeOK /\ MaskHolds /\ [EscapeNext]_escapeVars => LeftStays
  BY <1>1 DEF LeftStays
<1>3. MaskHolds /\ EscapeTypeOK /\ [EscapeNext]_escapeVars => MaskHolds'
  BY MaskHoldsStep
<1> QED
  BY <1>2, <1>3, MaskHoldsInit, TypeCorrect, PTL DEF EscapeSpec, LeftForGood
=============================================================================
