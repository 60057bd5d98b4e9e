--------------------------- MODULE DriversProofs ---------------------------
(***************************************************************************)
(* Proofs about the benchmark programs with state of their own: Newton,    *)
(* for every image size, vector size, iteration limit and set of orbits    *)
(* that stay near a root once they have come near it; and, by instances    *)
(* with variables of their own, NBody and PngWriter, for every number of   *)
(* bodies and list of vector sizes, and all pictures.                      *)
(***************************************************************************)
EXTENDS Drivers, Sequences, Sums

-----------------------------------------------------------------------------
(* Pixels and rows: pixel c of row r of an image of R rows of C points is  *)
(* at C * r + c.                                                           *)

LEMMA RowBound ==
  ASSUME NEW R \in Nat, NEW C \in Nat, NEW r \in 0 .. R - 1
  PROVE  C * r \in Nat /\ C * r + C <= R * C
<1>1. R - 1 - r \in Nat /\ r \in Nat
  OBVIOUS
<1>2. C * (R - 1 - r) \in Nat /\ C * r \in Nat
  BY <1>1
<1>3. C * (R - 1 - r) = R * C - C - C * r
  BY <1>1
<1> QED
  BY <1>2, <1>3

LEMMA EarlierRow ==
  ASSUME NEW C \in Nat, NEW r \in Nat, NEW s \in Nat, r < s
  PROVE  C * r + C <= C * s
<1>1. s - r - 1 \in Nat /\ C * (s - r - 1) \in Nat
  OBVIOUS
<1>2. C * (s - r - 1) = C * s - C * r - C
  OBVIOUS
<1> QED
  BY <1>1, <1>2

USE NewtonAssumption

-----------------------------------------------------------------------------
(* Orbits and results.                                                     *)

\* An orbit that has come near a root stays near it.
LEMMA Captured ==
  ASSUME orbit \in [Point -> Orbits], NEW p \in Point,
         NEW n \in 1 .. MaxIter, NEW q \in n .. MaxIter, orbit[p][n] # 0
  PROVE  orbit[p][q] = orbit[p][n]
<1>1. orbit[p] \in Orbits
  OBVIOUS
<1> QED
  BY <1>1

\* The result after n iterations, if no root has been reached.
LEMMA NotYet ==
  ASSUME orbit \in [Point -> Orbits], NEW p \in Point, NEW n \in 0 .. MaxIter,
         n = 0 \/ orbit[p][n] = 0, NEW c, NEW a, IsResult(p, n, <<c, a>>)
  PROVE  /\ c = 0
         /\ \A x \in 1 .. n : orbit[p][x] = 0
<1>1. ASSUME NEW x \in 1 .. n, orbit[p][x] # 0 PROVE FALSE
  <2>1. x \in 1 .. MaxIter /\ n \in x .. MaxIter /\ n # 0
    BY <1>1
  <2>2. orbit[p][n] = orbit[p][x]
    BY <1>1, <2>1, Captured
  <2> QED
    BY <1>1, <2>1, <2>2
<1> QED
  BY <1>1 DEF IsResult

\* The result after n iterations, if a root has been reached.
LEMMA Reached ==
  ASSUME orbit \in [Point -> Orbits], NEW p \in Point, NEW n \in 1 .. MaxIter,
         orbit[p][n] # 0, NEW c, NEW a, IsResult(p, n, <<c, a>>)
  PROVE  \E q \in 1 .. n : /\ orbit[p][q] # 0
                           /\ \A x \in 1 .. q - 1 : orbit[p][x] = 0
                           /\ c = orbit[p][q] /\ a = Alpha(q - 1)
BY DEF IsResult

\* One more iteration: the colour is replaced if a root is near, and alpha
\* unless a root was near before.
LEMMA OneMore ==
  ASSUME orbit \in [Point -> Orbits], NEW p \in Point,
         NEW n \in 0 .. MaxIter - 1, NEW c, NEW a, IsResult(p, n, <<c, a>>),
         NEW c1, c1 = IF orbit[p][n + 1] # 0 THEN orbit[p][n + 1] ELSE c,
         NEW a1, a1 = IF n > 0 /\ orbit[p][n] # 0 THEN a ELSE Alpha(n)
  PROVE  IsResult(p, n + 1, <<c1, a1>>)
<1>1. CASE n > 0 /\ orbit[p][n] # 0
  <2>1. PICK q \in 1 .. n : /\ orbit[p][q] # 0
                            /\ \A x \in 1 .. q - 1 : orbit[p][x] = 0
                            /\ c = orbit[p][q] /\ a = Alpha(q - 1)
    BY <1>1, Reached
  <2>2. q \in 1 .. MaxIter /\ n + 1 \in q .. MaxIter /\ q \in 1 .. n + 1
    OBVIOUS
  <2>3. orbit[p][n + 1] = orbit[p][q]
    BY <2>1, <2>2, Captured
  <2>4. c1 = orbit[p][q] /\ a1 = Alpha(q - 1)
    BY <1>1, <2>1, <2>3
  <2> QED
    BY <2>1, <2>2, <2>4 DEF IsResult
<1>2. CASE n = 0 \/ orbit[p][n] = 0
  <2>1. c = 0 /\ \A x \in 1 .. n : orbit[p][x] = 0
    BY <1>2, NotYet
  <2>2. a1 = Alpha(n) /\ (n + 1) - 1 = n /\ n + 1 > 0 /\ n + 1 \in 1 .. n + 1
    BY <1>2
  <2>3. CASE orbit[p][n + 1] = 0
    BY <2>1, <2>2, <2>3 DEF IsResult
  <2>4. CASE orbit[p][n + 1] # 0
    <3>1. c1 = orbit[p][n + 1]
      BY <2>4
    <3> QED
      BY <2>1, <2>2, <2>4, <3>1 DEF IsResult
  <2> QED
    BY <2>3, <2>4
<1> QED
  BY <1>1, <1>2

\* The result once a root is near is that of all later iterations.
LEMMA ResultFinal ==
  ASSUME orbit \in [Point -> Orbits], NEW p \in Point,
         NEW n \in 1 .. MaxIter, orbit[p][n] # 0, NEW c, NEW a,
         IsResult(p, n, <<c, a>>)
  PROVE  IsResult(p, MaxIter, <<c, a>>)
<1>1. PICK q \in 1 .. n : /\ orbit[p][q] # 0
                          /\ \A x \in 1 .. q - 1 : orbit[p][x] = 0
                          /\ c = orbit[p][q] /\ a = Alpha(q - 1)
  BY Reached
<1>2. q \in 1 .. MaxIter
  OBVIOUS
<1> QED
  BY <1>1, <1>2 DEF IsResult

-----------------------------------------------------------------------------
(* The invariant.                                                          *)

\* Where the loop over k stands.
LoopState ==
  /\ pc = "iterate" => k < MaxIter /\ (Scalar => ~m[0])
  /\ pc = "store" => k = MaxIter \/ \A l \in Active : m[l]
  /\ pc = "done" => i = NX

\* The pixels of the rows and blocks already drawn are right.
Drawn(r, c) == r < i \/ (r = i /\ c < j)

DrawnRight ==
  \A r \in 0 .. NX - 1, c \in 0 .. NY - 1 :
    Drawn(r, c) => /\ NY * r + c \in DOMAIN image
                   /\ IsResult(<<r, c>>, MaxIter, image[NY * r + c])

IInv ==
  /\ TypeOK
  /\ LaneResults
  /\ LoopState
  /\ DrawnRight

LEMMA InitInv == Init => IInv
<1> SUFFICES ASSUME Init PROVE IInv
  OBVIOUS
<1> USE DEF Init
<1>1. TypeOK
  BY DEF TypeOK, Root
<1>2. LaneResults /\ LoopState
  BY DEF LaneResults, LoopState
<1>3. DrawnRight
  BY DEF DrawnRight, Drawn
<1> QED
  BY <1>1, <1>2, <1>3 DEF IInv

LEMMA SameResult ==
  ASSUME UNCHANGED <<orbit, image>>, NEW r, NEW c
  PROVE  IsResult(<<r, c>>, MaxIter, image[NY * r + c])'
           <=> IsResult(<<r, c>>, MaxIter, image[NY * r + c])
BY DEF IsResult

\* Steps that leave the image alone and move past no point not yet drawn keep
\* what is drawn.
LEMMA SameDrawing ==
  ASSUME IInv, UNCHANGED <<orbit, image>>,
         \A r \in 0 .. NX - 1, c \in 0 .. NY - 1 : Drawn(r, c)' => Drawn(r, c)
  PROVE  DrawnRight'
<1> SUFFICES ASSUME NEW r \in 0 .. NX - 1, NEW c \in 0 .. NY - 1, Drawn(r, c)'
             PROVE  /\ (NY * r + c \in DOMAIN image)'
                    /\ IsResult(<<r, c>>, MaxIter, image[NY * r + c])'
  BY DEF DrawnRight
<1>1. /\ NY * r + c \in DOMAIN image
      /\ IsResult(<<r, c>>, MaxIter, image[NY * r + c])
  BY DEF IInv, DrawnRight
<1> QED
  BY <1>1, SameResult

LEMMA SamePlace ==
  ASSUME IInv, UNCHANGED <<orbit, i, j, image>>
  PROVE  DrawnRight'
<1>1. \A r \in 0 .. NX - 1, c \in 0 .. NY - 1 : Drawn(r, c)' => Drawn(r, c)
  BY DEF Drawn
<1> QED
  BY <1>1, SameDrawing

\* A lane of the block in progress.
LEMMA ActiveLane ==
  ASSUME TypeOK, pc \in {"iterate", "store"}, NEW l \in Active
  PROVE  /\ l \in Lane /\ At(l) \in Point
         /\ Width \in 1 .. VS /\ (Scalar => l = 0)
<1>1. Width \in 1 .. VS /\ l \in 0 .. Width - 1 /\ (Scalar => Width = 1)
  BY DEF Active, Width
<1>2. l \in Lane /\ (Scalar => l = 0)
  BY <1>1 DEF Lane
<1>3. i \in 0 .. NX - 1 /\ j + l \in 0 .. NY + VS - 2
  BY <1>1 DEF TypeOK
<1> QED
  BY <1>1, <1>2, <1>3 DEF At, Point

LEMMA StartBlockInv ==
  ASSUME IInv, StartBlock
  PROVE  IInv'
<1> USE DEF StartBlock
<1>1. TypeOK'
  BY DEF IInv, TypeOK, Root
<1>2. \A l \in Active : l \in Lane
  BY DEF Active, Width, Lane
<1>3. LaneResults'
  BY <1>2 DEF LaneResults, IsResult, Active, Width, Scalar
<1>4. LoopState'
  <2>1. 0 \in Lane
    BY DEF Lane
  <2> QED
    BY <2>1 DEF LoopState
<1> QED
  BY <1>1, <1>3, <1>4, SamePlace DEF IInv

LEMMA NextRowInv ==
  ASSUME IInv, NextRow
  PROVE  IInv'
<1> USE DEF NextRow
<1>1. TypeOK'
  BY DEF IInv, TypeOK
<1>2. LaneResults' /\ LoopState'
  BY DEF LaneResults, LoopState
<1>3. \A r \in 0 .. NX - 1, c \in 0 .. NY - 1 : Drawn(r, c)' => Drawn(r, c)
  BY DEF IInv, TypeOK, Drawn
<1> QED
  BY <1>1, <1>2, <1>3, SameDrawing DEF IInv

LEMMA FinishInv ==
  ASSUME IInv, Finish
  PROVE  IInv'
<1> USE DEF Finish
<1>1. TypeOK' /\ LaneResults' /\ LoopState'
  BY DEF IInv, TypeOK, LaneResults, LoopState
<1> QED
  BY <1>1, SamePlace DEF IInv

\* What the two loop bodies have in common: an active lane's colour and
\* transparency after the iteration.
LEMMA IterateResult ==
  ASSUME IInv, pc = "iterate", NEW l \in Active, NEW c1, NEW a1,
         c1 = IF Near(l) # 0 THEN Near(l) ELSE color_index[l],
         a1 = IF m[l] THEN alphas[l] ELSE Alpha(k)
  PROVE  IsResult(At(l), k + 1, <<c1, a1>>)
<1>0. orbit \in [Point -> Orbits] /\ k \in 0 .. MaxIter - 1
  BY DEF IInv, TypeOK, LoopState
<1>1. /\ IsResult(At(l), k, <<color_index[l], alphas[l]>>)
      /\ m[l] <=> k > 0 /\ orbit[At(l)][k] # 0
  BY Zenon DEF IInv, LaneResults
<1>2. At(l) \in Point
  BY ActiveLane DEF IInv
<1>3. /\ c1 = IF orbit[At(l)][k + 1] # 0 THEN orbit[At(l)][k + 1] ELSE color_index[l]
      /\ a1 = IF k > 0 /\ orbit[At(l)][k] # 0 THEN alphas[l] ELSE Alpha(k)
  BY <1>1 DEF Near
<1> QED
  BY <1>0, <1>1, <1>2, <1>3, OneMore

LEMMA NewResult ==
  ASSUME UNCHANGED <<orbit, i, j>>, k' = k + 1, NEW l,
         IsResult(At(l), k + 1, <<color_index'[l], alphas'[l]>>)
  PROVE  IsResult(At(l), k, <<color_index[l], alphas[l]>>)'
<1>1. At(l)' = At(l)
  BY DEF At
<1> QED
  BY <1>1 DEF IsResult

LEMMA NearType ==
  ASSUME IInv, pc = "iterate", NEW l \in Lane
  PROVE  Near(l) \in Root
<1>1. k + 1 \in 1 .. MaxIter /\ i \in 0 .. NX - 1 /\ j + l \in 0 .. NY + VS - 2
  BY DEF IInv, TypeOK, LoopState, Lane
<1>2. At(l) \in Point
  BY <1>1 DEF At, Point
<1>3. orbit[At(l)] \in Orbits
  BY <1>2 DEF IInv, TypeOK
<1> QED
  BY <1>1, <1>3 DEF Near

LEMMA AlphaType ==
  ASSUME NEW n \in Nat
  PROVE  Alpha(n) \in 0 .. AlphaCap
BY DEF Alpha

LEMMA ScalarIterateInv ==
  ASSUME IInv, ScalarIterate
  PROVE  IInv'
<1> USE DEF ScalarIterate
<1>1. /\ Scalar /\ pc = "iterate" /\ k \in 0 .. MaxIter - 1 /\ ~m[0]
      /\ 0 \in Lane /\ Active = {0} /\ 0 \in Active /\ m \in [Lane -> BOOLEAN]
      /\ alphas \in [Lane -> 0 .. AlphaCap] /\ color_index \in [Lane -> Root]
  BY DEF IInv, TypeOK, LoopState, Lane, Active, Width
<1>2. Near(0) \in Root /\ Alpha(k) \in 0 .. AlphaCap
  BY <1>1, NearType, AlphaType
<1>3. /\ color_index'[0] = IF Near(0) # 0 THEN Near(0) ELSE color_index[0]
      /\ alphas'[0] = IF m[0] THEN alphas[0] ELSE Alpha(k)
      /\ m'[0] <=> Near(0) # 0
  BY <1>1
<1>4. TypeOK'
  BY <1>1, <1>2 DEF IInv, TypeOK
<1>5. LaneResults'
  <2>1. IsResult(At(0), k + 1, <<color_index'[0], alphas'[0]>>)
    BY <1>1, <1>3, IterateResult
  <2>2. IsResult(At(0), k, <<color_index[0], alphas[0]>>)'
    BY <2>1, NewResult
  <2>3. m'[0] <=> k' > 0 /\ orbit'[At(0)'][k'] # 0
    BY <1>1, <1>3 DEF Near, At
  <2>4. Scalar' /\ Active' = {0}
    BY <1>1 DEF Scalar, Active, Width
  <2> HIDE DEF ScalarIterate
  <2>5. ASSUME NEW l \in Active'
        PROVE  /\ IsResult(At(l), k, <<color_index[l], alphas[l]>>)'
               /\ (m[l] <=> k > 0 /\ orbit[At(l)][k] # 0)'
    BY <2>2, <2>3, <2>4
  <2> QED
    BY <2>4, <2>5, Zenon DEF LaneResults
<1>6. LoopState'
  BY <1>1 DEF LoopState, Active, Width, Scalar
<1> QED
  BY <1>4, <1>5, <1>6, SamePlace DEF IInv

LEMMA VectorIterateInv ==
  ASSUME IInv, VectorIterate
  PROVE  IInv'
<1> USE DEF VectorIterate
<1>1. /\ ~Scalar /\ pc = "iterate" /\ k \in 0 .. MaxIter - 1
      /\ Active = Lane /\ m \in [Lane -> BOOLEAN] /\ kv \in [Lane -> 0 .. MaxIter]
      /\ alphas \in [Lane -> 0 .. AlphaCap] /\ color_index \in [Lane -> Root]
  BY DEF IInv, TypeOK, LoopState, Lane, Active, Width
<1>2. \A l \in Lane : Near(l) \in Root /\ Alpha(kv[l]) \in 0 .. AlphaCap
  BY <1>1, NearType, AlphaType
<1>3. TypeOK'
  BY <1>1, <1>2 DEF IInv, TypeOK
<1>4. \A l \in Lane : /\ ~m[l] => kv[l] = k
                      /\ m[l] => kv[l] < k /\ alphas[l] = Alpha(kv[l])
                      /\ m[l] <=> k > 0 /\ orbit[At(l)][k] # 0
  BY <1>1, Zenon DEF IInv, LaneResults
<1>5. ASSUME NEW l \in Lane
      PROVE  /\ IsResult(At(l), k, <<color_index[l], alphas[l]>>)'
             /\ (m[l] <=> k > 0 /\ orbit[At(l)][k] # 0)'
             /\ (~m[l] => kv[l] = k)'
             /\ (m[l] => kv[l] < k /\ alphas[l] = Alpha(kv[l]))'
  <2>1. /\ color_index'[l] = IF Near(l) # 0 THEN Near(l) ELSE color_index[l]
        /\ alphas'[l] = IF m[l] THEN alphas[l] ELSE Alpha(k)
    BY <1>1, <1>4
  <2>2. IsResult(At(l), k + 1, <<color_index'[l], alphas'[l]>>)
    BY <1>1, <2>1, IterateResult
  <2>3. IsResult(At(l), k, <<color_index[l], alphas[l]>>)'
    BY <2>2, NewResult
  <2>4. m'[l] <=> Near(l) # 0
    OBVIOUS
  <2>5. (m[l] <=> k > 0 /\ orbit[At(l)][k] # 0)'
    BY <1>1, <2>4 DEF Near, At
  <2>6. (~m[l] => kv[l] = k)'
    BY <2>4
  <2>7. ASSUME m'[l] PROVE kv'[l] < k' /\ alphas'[l] = Alpha(kv'[l])
    <3>1. kv'[l] = kv[l] /\ alphas'[l] = Alpha(kv[l])
      BY <2>7
    <3>2. kv[l] = k \/ kv[l] < k
      BY <1>4, Zenon
    <3> QED
      BY <1>1, <3>1, <3>2
  <2>8. (m[l] => kv[l] < k /\ alphas[l] = Alpha(kv[l]))'
    BY <2>7 DEF Alpha
  <2> QED
    BY <2>3, <2>5, <2>6, <2>8
<1>6. Active' = Lane /\ ~Scalar'
  BY <1>1 DEF Active, Width, Scalar, Lane
<1>7. LaneResults'
  BY <1>5, <1>6, Zenon DEF LaneResults
<1>8. LoopState'
  BY <1>1, <1>6 DEF LoopState
<1> QED
  BY <1>3, <1>7, <1>8, SamePlace DEF IInv

LEMMA PixelKept ==
  ASSUME UNCHANGED orbit, NEW r, NEW c, NEW v,
         image'[NY * r + c] = v, IsResult(<<r, c>>, MaxIter, v)
  PROVE  IsResult(<<r, c>>, MaxIter, image[NY * r + c])'
BY DEF IsResult

\* When a block is stored, each lane holds the result of its point.
LEMMA StoredRight ==
  ASSUME IInv, pc = "store", NEW l \in Active
  PROVE  IsResult(At(l), MaxIter, <<color_index[l], alphas[l]>>)
<1>1. orbit \in [Point -> Orbits] /\ k \in 0 .. MaxIter /\ At(l) \in Point
  BY ActiveLane DEF IInv, TypeOK
<1>2. /\ IsResult(At(l), k, <<color_index[l], alphas[l]>>)
      /\ m[l] <=> k > 0 /\ orbit[At(l)][k] # 0
  BY Zenon DEF IInv, LaneResults
<1>3. CASE k = MaxIter
  BY <1>2, <1>3
<1>4. CASE m[l]
  <2>1. k \in 1 .. MaxIter /\ orbit[At(l)][k] # 0
    BY <1>1, <1>2, <1>4
  <2> QED
    BY <1>1, <1>2, <2>1, ResultFinal
<1> QED
  BY <1>3, <1>4 DEF IInv, LoopState

LEMMA StoreInv ==
  ASSUME IInv, Store
  PROVE  IInv'
<1> DEFINE base == NY * i + j
<1>1. /\ i \in 0 .. NX - 1 /\ j \in 0 .. NY - 1 /\ pc = "store"
      /\ DOMAIN image \subseteq 0 .. NX * NY + VS - 2
  BY DEF Store, IInv, TypeOK
<1>2. NY * i \in Nat /\ NY * i + NY <= NX * NY
  BY <1>1, RowBound
<1>3. Width \in 1 .. VS /\ Active = 0 .. Width - 1
  BY DEF Width, Active
<1>4. base \in Nat /\ base < NX * NY /\ NX * NY \in Nat
  BY <1>1, <1>2
<1>5. DOMAIN image' = DOMAIN image \cup {base + l : l \in Active}
  BY DEF Store
<1>6. /\ UNCHANGED <<kernel, orbit, i, k, kv, color_index, alphas, m>>
      /\ j' = j + Width /\ pc' = "block"
  BY DEF Store
<1>7. TypeOK'
  <2>1. \A l \in Active : base + l \in 0 .. NX * NY + VS - 2
    BY <1>3, <1>4
  <2>2. DOMAIN image' \subseteq 0 .. NX * NY + VS - 2
    BY <1>1, <1>5, <2>1
  <2>3. j' \in 0 .. NY + VS - 1
    BY <1>1, <1>3, <1>6
  <2> QED
    BY <1>6, <2>2, <2>3 DEF IInv, TypeOK
<1>8. LaneResults' /\ LoopState'
  BY <1>6 DEF LaneResults, LoopState
<1>9. DrawnRight'
  <2> SUFFICES ASSUME NEW r \in 0 .. NX - 1, NEW c \in 0 .. NY - 1, Drawn(r, c)'
               PROVE  /\ (NY * r + c \in DOMAIN image)'
                      /\ IsResult(<<r, c>>, MaxIter, image[NY * r + c])'
    BY DEF DrawnRight
  <2> DEFINE x == NY * r + c
  <2>1. r < i \/ (r = i /\ c < j + Width)
    BY <1>6 DEF Drawn
  <2>2. NY * r \in Nat /\ NY * r + NY <= NX * NY
    BY RowBound
  <2>3. CASE Drawn(r, c)
    <3>1. x \in DOMAIN image /\ IsResult(<<r, c>>, MaxIter, image[x])
      BY <2>3 DEF IInv, DrawnRight
    <3>2. x < base
      <4>1. CASE r < i
        <5>1. NY * r + NY <= NY * i
          BY <1>1, <4>1, EarlierRow
        <5> QED
          BY <1>1, <1>2, <2>2, <5>1
      <4>2. CASE r = i /\ c < j
        BY <1>1, <1>2, <4>2
      <4> QED
        BY <2>3, <4>1, <4>2 DEF Drawn
    <3>3. x - base \notin Active
      BY <1>3, <1>4, <2>2, <3>2
    <3>4. x \in DOMAIN image' /\ image'[x] = image[x]
      BY <3>1, <3>3 DEF Store
    <3> QED
      BY <1>6, <3>1, <3>4, PixelKept
  <2>4. CASE ~Drawn(r, c)
    <3>1. r = i /\ c - j \in Active
      BY <1>1, <1>3, <2>1, <2>4 DEF Drawn
    <3> DEFINE l == c - j
    <3>2. At(l) = <<r, c>> /\ x = base + l /\ x - base = l
      BY <1>1, <1>2, <3>1 DEF At
    <3>3. x \in DOMAIN image'
      BY <1>5, <3>1, <3>2
    <3> DEFINE v == <<color_index[l], alphas[l]>>
    <3>4. image'[x] = v
      BY <3>1, <3>2, <3>3 DEF Store
    <3>5. IsResult(<<r, c>>, MaxIter, v)
      BY <1>1, <3>1, <3>2, StoredRight
    <3> HIDE DEF v
    <3> QED
      BY <1>6, <3>3, <3>4, <3>5, PixelKept
  <2> QED
    BY <2>3, <2>4
<1> QED
  BY <1>7, <1>8, <1>9 DEF IInv

LEMMA StepInv == IInv /\ [Next]_vars => IInv'
<1> SUFFICES ASSUME IInv, [Next]_vars PROVE IInv'
  OBVIOUS
<1>1. ASSUME UNCHANGED vars PROVE IInv'
  <2>1. TypeOK' /\ LoopState'
    BY <1>1 DEF vars, IInv, TypeOK, LoopState, Active, Width, Scalar
  <2>2. LaneResults'
    <3>1. UNCHANGED <<kernel, orbit, pc, i, j, k, kv, color_index, alphas, m>>
      BY <1>1 DEF vars
    <3>2. LaneResults' <=> LaneResults
      BY <3>1 DEF LaneResults, IsResult, Active, Width, Scalar, At
    <3> QED
      BY <3>2 DEF IInv
  <2> QED
    BY <1>1, <2>1, <2>2, SamePlace DEF vars, IInv
<1> QED
  BY <1>1, StartBlockInv, NextRowInv, FinishInv, ScalarIterateInv,
     VectorIterateInv, StoreInv DEF Next, Terminated

\* The inductive invariant holds of both kernels, whatever the image's size, the
\* vector size, the iteration limit and the orbits.
THEOREM Invariant == Spec => []IInv
<1> QED
  BY InitInv, StepInv, PTL DEF Spec

\* The state is well typed: colours index the palette, alpha fits the byte it
\* is stored in, and no pixel is stored further than VS - 1 places beyond the
\* image.
THEOREM TypeCorrect == Spec => []TypeOK
<1>1. IInv => TypeOK
  BY DEF IInv
<1> QED
  BY <1>1, Invariant, PTL

\* After every iteration of newton_v each lane holds what the scalar loop
\* computes for its point, although converged lanes go on moving.
THEOREM LanesMatchScalar == Spec => []LaneResults
<1>1. IInv => LaneResults
  BY DEF IInv
<1> QED
  BY <1>1, Invariant, PTL

\* newton_v draws newton's image, for every image and vector size.
THEOREM ImageIsScalarImage == Spec => []ImageRight
<1>1. IInv => ImageRight
  <2> SUFFICES ASSUME IInv, pc = "done",
                      NEW r \in 0 .. NX - 1, NEW c \in 0 .. NY - 1
               PROVE  /\ NY * r + c \in DOMAIN image
                      /\ IsResult(<<r, c>>, MaxIter, image[NY * r + c])
    BY DEF ImageRight
  <2>1. Drawn(r, c)
    BY DEF IInv, LoopState, Drawn
  <2> QED
    BY <2>1 DEF IInv, DrawnRight
<1> QED
  BY <1>1, Invariant, PTL

\* A lane that has converged keeps its colour, count and transparency for the
\* rest of the block: a step from near a root ends near it, so the recomputed
\* mask still excludes the lane.
THEOREM ConvergedSettles == Spec => Settled
<1>1. ASSUME IInv, IInv', [Next]_vars, pc = "iterate", NEW l \in Active, m[l]
      PROVE  /\ m'[l] /\ kv'[l] = kv[l] /\ color_index'[l] = color_index[l]
             /\ alphas'[l] = alphas[l]
  <2>1. CASE VectorIterate
    <3>1. /\ orbit \in [Point -> Orbits] /\ At(l) \in Point /\ l \in Lane
          /\ k \in 1 .. MaxIter - 1 /\ orbit[At(l)][k] # 0
      <4>1. l \in Lane /\ At(l) \in Point
        BY <1>1, ActiveLane DEF IInv
      <4>2. k > 0 /\ orbit[At(l)][k] # 0
        BY <1>1, Zenon DEF IInv, LaneResults
      <4> QED
        BY <1>1, <4>1, <4>2 DEF IInv, TypeOK, LoopState
    <3>2. IsResult(At(l), k, <<color_index[l], alphas[l]>>)
      BY <1>1, Zenon DEF IInv, LaneResults
    <3>3. PICK q \in 1 .. k : /\ orbit[At(l)][q] # 0
                              /\ color_index[l] = orbit[At(l)][q]
      BY <3>1, <3>2, Reached
    <3>4. q \in 1 .. MaxIter /\ k + 1 \in q .. MaxIter
      BY <3>1
    <3>5. Near(l) = color_index[l] /\ Near(l) # 0
      BY <3>1, <3>3, <3>4, Captured DEF Near
    <3>6. ~Scalar /\ alphas[l] = Alpha(kv[l])
      BY <1>1, <2>1, Zenon DEF IInv, LaneResults, VectorIterate
    <3> QED
      BY <2>1, <3>1, <3>5, <3>6 DEF VectorIterate
  <2>2. CASE ScalarIterate
    <3>1. l = 0
      BY <1>1, <2>2, ActiveLane DEF ScalarIterate, IInv
    <3> QED
      BY <1>1, <2>2, <3>1 DEF ScalarIterate, IInv, LoopState
  <2>3. CASE UNCHANGED vars
    BY <1>1, <2>3 DEF vars
  <2> QED
    BY <1>1, <2>1, <2>2, <2>3
       DEF Next, StartBlock, NextRow, Finish, Store, Terminated
<1>2. IInv /\ IInv' /\ [Next]_vars => ConvergedStays
  BY <1>1 DEF ConvergedStays
<1> QED
  BY <1>2, Invariant, PTL DEF Spec, Settled

HIDE NewtonAssumption

-----------------------------------------------------------------------------
(* NBody.                                                                  *)

BodiesOK ==
  /\ pos \in [NB!Body -> NB!Num] /\ vel \in [NB!Body -> NB!Num]
  /\ test \in 1 .. Len(Sizes) + 1 /\ run \in 1 .. NRuns
  /\ phase \in {"load", "pull", "move"}
  /\ NB!Testing \/ (phase = "load" /\ body = 0)

\* The blocks are whole, and a register under way holds what it should.
BlockOK ==
  /\ NB!Testing => body <= N /\ \E w \in Nat : body = w * NB!Width
  /\ phase = "pull" => /\ body < N /\ puller \in 0 .. N
                       /\ pipos \in [NB!Lane -> NB!Num] /\ pivel \in [NB!Lane -> NB!Num]
  /\ NB!RegisterHolds

NBodyInv == BodiesOK /\ BlockOK

LEMMA PullType ==
  ASSUME NB!NBodyAssumption, NEW p \in NB!Num, NEW from \in [NB!Body -> NB!Num],
         NEW x \in NB!Body
  PROVE  Pull[p, from[x], Mass[x]] \in Int
<1>1. M \in Nat \ {0} /\ p \in NB!Num /\ from[x] \in NB!Num /\ Mass[x] \in NB!Num
      /\ Pull \in [NB!Num \X NB!Num \X NB!Num -> NB!Num]
  BY DEF NB!NBodyAssumption
<1>2. Pull[p, from[x], Mass[x]] \in NB!Num
  BY <1>1
<1> DEFINE q == Pull[p, from[x], Mass[x]]
<1>3. q \in 0 .. M - 1
  BY <1>2 DEF NB!Num
<1> HIDE DEF q
<1>4. q \in Int
  BY <1>1, <1>3
<1> QED
  BY <1>4 DEF q

LEMMA PullsAre ==
  ASSUME NB!NBodyAssumption, NEW p \in NB!Num, NEW from \in [NB!Body -> NB!Num]
  PROVE  /\ NB!Pulls(p, from, 0) = 0
         /\ \A w \in 0 .. N : NB!Pulls(p, from, w) \in Int
         /\ \A w \in 0 .. N - 1 :
              NB!Pulls(p, from, w + 1) = NB!Pulls(p, from, w) + Pull[p, from[w], Mass[w]]
<1> DEFINE f == [x \in NB!Body |-> Pull[p, from[x], Mass[x]]]
<1>1. N \in Nat /\ NB!Body = 0 .. N - 1
  BY DEF NB!NBodyAssumption, NB!Body
<1>6. \A x \in NB!Body : f[x] = Pull[p, from[x], Mass[x]] /\ f[x] \in Int
  BY PullType
<1>2. \A w : NB!Pulls(p, from, w) = SumFunctionOnSet(f, 0 .. w - 1)
  BY DEF NB!Pulls, NB!SumFunctionOnSet, NB!FoldFunctionOnSet, NB!MapThenFoldSet,
         SumFunctionOnSet, FoldFunctionOnSet, MapThenFoldSet
<1> HIDE DEF f
<1>3. NB!Pulls(p, from, 0) = 0
  <2>1. 0 .. 0 - 1 = {}
    OBVIOUS
  <2> QED
    BY <1>2, <2>1, SumEmpty
<1>4. ASSUME NEW w \in 0 .. N PROVE NB!Pulls(p, from, w) \in Int
  <2>1. IsFiniteSet(0 .. w - 1)
    BY <1>1, FS_Interval
  <2>2. \A x \in 0 .. w - 1 : x \in NB!Body
    BY <1>1
  <2> QED
    BY <1>2, <1>6, <2>1, <2>2, SumType
<1>5. ASSUME NEW w \in 0 .. N - 1
      PROVE  NB!Pulls(p, from, w + 1) = NB!Pulls(p, from, w) + Pull[p, from[w], Mass[w]]
  <2>0. w \in Nat /\ w \in NB!Body /\ (\A x \in 0 .. w : x \in NB!Body) /\ (w + 1) - 1 = w
    BY <1>1
  <2>1. w \in Nat /\ (\A x \in 0 .. w : f[x] \in Int) /\ f[w] = Pull[p, from[w], Mass[w]]
    BY <1>6, <2>0
  <2>2. SumFunctionOnSet(f, 0 .. w) = SumFunctionOnSet(f, 0 .. w - 1) + f[w]
    BY <2>1, SumUpTo
  <2> QED
    BY <1>2, <2>0, <2>1, <2>2
<1> QED
  BY <1>3, <1>4, <1>5

\* A register fits between body and the next block.
LEMMA BlockFits ==
  ASSUME NB!NBodyAssumption, NB!SizesAssumption, NBodyInv, NB!Testing, body < N
  PROVE  /\ N \in Nat /\ NB!Width \in Nat \ {0} /\ body \in Nat /\ body + NB!Width <= N
         /\ \E w \in Nat : body + NB!Width = w * NB!Width
         /\ \A l \in NB!Lane : body + l \in NB!Body
         /\ \A b \in NB!Body : b - body \in NB!Lane <=> b >= body /\ b < body + NB!Width
<1> DEFINE W == NB!Width
<1>1. N \in Nat /\ W \in Nat \ {0} /\ N % W = 0
  BY DEF NB!NBodyAssumption, NB!SizesAssumption, NB!Width, NB!Testing, NBodyInv, BodiesOK
<1>2. PICK w \in Nat : body = w * W
  BY DEF NBodyInv, BlockOK
<1> HIDE DEF W
<1>3. PICK d \in Int : N = W * d
  <2>1. N = W * (N \div W) + (N % W) /\ N \div W \in Int
    BY <1>1, Division
  <2> DEFINE d == N \div W
  <2>2. N = W * d + 0 /\ d \in Int
    BY <1>1, <2>1
  <2> HIDE DEF d
  <2> QED
    BY <1>1, <2>2
<1>4. w < d
  <2>1. ASSUME w >= d PROVE FALSE
    <3>1. W * (w - d) >= 0
      BY <1>1, <1>3, <2>1
    <3>2. W * (w - d) = w * W - W * d
      BY <1>1, <1>3
    <3> QED
      BY <1>1, <1>2, <1>3, <3>1, <3>2
  <2> QED
    BY <1>3, <2>1
<1>5. W * (d - w - 1) >= 0
  BY <1>1, <1>3, <1>4
<1>6. W * (d - w - 1) = W * d - w * W - W
  BY <1>1, <1>3
<1>7. (w + 1) * W = w * W + W /\ w * W \in Nat
  BY <1>1
<1>8. body \in Nat /\ body + W <= N /\ body + W = (w + 1) * W
  BY <1>1, <1>2, <1>3, <1>5, <1>6, <1>7
<1>9. /\ \A l \in NB!Lane : body + l \in NB!Body
      /\ \A b \in NB!Body : b - body \in NB!Lane <=> b >= body /\ b < body + W
  BY <1>1, <1>8 DEF NB!Lane, NB!Body, W
<1>10. \E c \in Nat : body + W = c * W
  <2>1. w + 1 \in Nat
    OBVIOUS
  <2> QED
    BY <1>8, <2>1
<1> QED
  BY <1>1, <1>8, <1>9, <1>10 DEF W

LEMMA StartInv ==
  ASSUME NB!NBodyAssumption, NB!SizesAssumption, NB!Start
  PROVE  NBodyInv
<1>1. Len(Sizes) \in Nat /\ NRuns \in Nat \ {0} /\ N \in Nat
  BY DEF NB!SizesAssumption, NB!NBodyAssumption
<1>2. NB!Testing => NB!Width \in Nat /\ 0 = 0 * NB!Width
  BY DEF NB!SizesAssumption, NB!Width, NB!Testing, NB!Start
<1> QED
  BY <1>1, <1>2
     DEF NBodyInv, BodiesOK, BlockOK, NB!RegisterHolds, NB!Start, NB!Init

LEMMA LoadInv ==
  ASSUME NB!NBodyAssumption, NB!SizesAssumption, NBodyInv, NB!LoadBlock
  PROVE  NBodyInv'
<1>1. NB!Lane' = NB!Lane /\ NB!Width' = NB!Width /\ (NB!Testing)' = NB!Testing /\ NB!Testing
      /\ UNCHANGED <<pos, vel, test, run, body>> /\ body < N
  BY DEF NB!LoadBlock, NB!Lane, NB!Width, NB!Testing
<1>2. \A l \in NB!Lane : body + l \in NB!Body
  BY <1>1, BlockFits
<1>3. pipos' = [l \in NB!Lane |-> pos[body + l]] /\ pivel' = [l \in NB!Lane |-> vel[body + l]]
      /\ puller' = 0 /\ phase' = "pull"
  BY DEF NB!LoadBlock
<1>4. BodiesOK'
  BY <1>1, <1>3 DEF NBodyInv, BodiesOK
<1>5. pipos' \in [NB!Lane -> NB!Num] /\ pivel' \in [NB!Lane -> NB!Num] /\ 0 \in 0 .. N
  BY <1>2, <1>3 DEF NBodyInv, BodiesOK, NB!NBodyAssumption
<1>6. (NB!RegisterHolds)'
  <2>1. ASSUME NEW l \in NB!Lane
        PROVE  pivel'[l] = (vel[body + l] + NB!Pulls(pos[body + l], pos, 0)) % M
    <3>1. NB!Pulls(pos[body + l], pos, 0) = 0 /\ vel[body + l] \in 0 .. M - 1
      BY <1>2, PullsAre DEF NBodyInv, BodiesOK, NB!Num
    <3>2. vel[body + l] % M = vel[body + l] /\ vel[body + l] + 0 = vel[body + l]
      BY <3>1, SmallRemainder DEF NB!NBodyAssumption
    <3> QED
      BY <1>3, <3>1, <3>2
  <2> QED
    BY <1>1, <1>3, <2>1 DEF NB!RegisterHolds, NB!Pulls
<1> QED
  BY <1>1, <1>3, <1>4, <1>5, <1>6 DEF NBodyInv, BlockOK

LEMMA InteractInv ==
  ASSUME NB!NBodyAssumption, NB!SizesAssumption, NBodyInv, NB!Interact
  PROVE  NBodyInv'
<1>0. UNCHANGED <<pos, vel, test, run, body, phase, pipos>> /\ phase = "pull"
      /\ body < N /\ puller \in 0 .. N /\ puller < N /\ N \in Nat /\ NB!Testing
  BY DEF NB!Interact, NBodyInv, BodiesOK, BlockOK, NB!NBodyAssumption
<1>1. NB!Lane' = NB!Lane /\ NB!Width' = NB!Width /\ (NB!Testing)' = NB!Testing /\ NB!Testing
      /\ UNCHANGED <<pos, vel, test, run, body, phase, pipos>> /\ phase = "pull"
      /\ body < N /\ puller \in 0 .. N - 1 /\ puller + 1 \in 0 .. N
  BY <1>0 DEF NB!Lane, NB!Width, NB!Testing
<1>2. \A l \in NB!Lane : body + l \in NB!Body
  BY <1>1, BlockFits
<1>3. /\ pivel' = [l \in NB!Lane |-> (pivel[l] + Pull[pipos[l], pos[puller], Mass[puller]]) % M]
      /\ puller' = puller + 1
  BY DEF NB!Interact
<1>4. BodiesOK'
  BY <1>1 DEF NBodyInv, BodiesOK
<1>5. ASSUME NEW l \in NB!Lane
      PROVE  /\ pivel'[l] = (vel[body + l] + NB!Pulls(pos[body + l], pos, puller + 1)) % M
             /\ pivel'[l] \in NB!Num /\ pipos[l] = pos[body + l]
  <2> DEFINE p == NB!Pulls(pos[body + l], pos, puller)
             q == Pull[pos[body + l], pos[puller], Mass[puller]]
             v == vel[body + l]
  <2>1. pipos[l] = pos[body + l] /\ pivel[l] = (v + p) % M
    BY <1>1 DEF NBodyInv, BlockOK, NB!RegisterHolds
  <2>2. pos[body + l] \in NB!Num /\ pos \in [NB!Body -> NB!Num] /\ v \in Int
    BY <1>2 DEF NBodyInv, BodiesOK, NB!Num
  <2>3. NB!Pulls(pos[body + l], pos, puller + 1) = p + q /\ p \in Int
    <3>1. puller \in 0 .. N
      BY <1>0
    <3> HIDE DEF v
    <3> QED
      BY <1>1, <2>2, <3>1, PullsAre
  <2>4. q \in Int /\ M \in Nat \ {0}
    <3>1. puller \in NB!Body
      BY <1>1 DEF NB!Body
    <3> QED
      BY <2>2, <3>1, PullType DEF NB!NBodyAssumption
  <2>5. pivel'[l] = (((v + p) % M) + q) % M
    BY <1>3, <2>1
  <2> HIDE DEF p, q, v
  <2>6. (((v + p) % M) + q) % M = (v + (p + q)) % M
    <3> DEFINE u == v + p
    <3>1. u \in Int /\ u + q = v + (p + q)
      BY <2>2, <2>3, <2>4
    <3>2. ((u % M) + q) % M = (u + q) % M
      <4> HIDE DEF u
      <4> QED
        BY <2>4, <3>1, ReduceFirst
    <3> QED
      BY <3>1, <3>2
  <2>7. (v + (p + q)) % M \in 0 .. M - 1
    BY <2>2, <2>3, <2>4, Division
  <2> QED
    BY <2>1, <2>3, <2>5, <2>6, <2>7 DEF NB!Num, v
<1>6. pivel' \in [NB!Lane -> NB!Num]
  BY <1>3, <1>5
<1>7. (NB!RegisterHolds)'
  BY <1>1, <1>3, <1>5 DEF NB!RegisterHolds, NB!Pulls
<1> QED
  BY <1>1, <1>3, <1>4, <1>6, <1>7 DEF NBodyInv, BlockOK

\* The block of new values, at the place of the old ones.
LEMMA StoreBlockInv ==
  ASSUME NB!NBodyAssumption, NB!SizesAssumption, NBodyInv, NB!StoreBlock \/ NB!MoveBlock
  PROVE  NBodyInv'
<1>1. NB!Width' = NB!Width /\ (NB!Testing)' = NB!Testing /\ NB!Testing
      /\ UNCHANGED <<test, run>> /\ body < N /\ body' = body + NB!Width
      /\ phase' \in {"load", "move"}
  BY DEF NB!StoreBlock, NB!MoveBlock, NB!Width, NB!Testing, NBodyInv, BodiesOK, BlockOK
<1>2. /\ body + NB!Width <= N /\ \E w \in Nat : body + NB!Width = w * NB!Width
  BY <1>1, BlockFits
<1>3. pos' \in [NB!Body -> NB!Num] /\ vel' \in [NB!Body -> NB!Num]
  <2>1. CASE NB!StoreBlock
    BY <2>1 DEF NB!StoreBlock, NBodyInv, BodiesOK, BlockOK
  <2>2. CASE NB!MoveBlock
    <3>1. ASSUME NEW x \in NB!Body PROVE (pos[x] + vel[x]) % M \in NB!Num
      <4>1. pos[x] + vel[x] \in Int /\ M \in Nat \ {0}
        BY DEF NBodyInv, BodiesOK, NB!Num, NB!NBodyAssumption
      <4> QED
        BY <4>1, Division DEF NB!Num
    <3> QED
      BY <2>2, <3>1 DEF NB!MoveBlock, NBodyInv, BodiesOK
  <2> QED
    BY <2>1, <2>2
<1> QED
  BY <1>1, <1>2, <1>3 DEF NBodyInv, BodiesOK, BlockOK, NB!RegisterHolds

LEMMA EndsInv ==
  ASSUME NB!NBodyAssumption, NB!SizesAssumption, NBodyInv, NB!EndPull \/ NB!EndMove
  PROVE  NBodyInv'
<1>1. UNCHANGED <<pos, vel>> /\ body' = 0 /\ phase' \in {"load", "move"} /\ NB!Testing
      /\ N \in Nat /\ Len(Sizes) \in Nat /\ NRuns \in Nat
  BY DEF NB!EndPull, NB!EndMove, NBodyInv, BodiesOK, NB!NBodyAssumption, NB!SizesAssumption
<1>2. /\ test' \in 1 .. Len(Sizes) + 1 /\ run' \in 1 .. NRuns
      /\ phase' = "move" => (NB!Testing)'
  BY <1>1 DEF NB!EndPull, NB!EndMove, NBodyInv, BodiesOK, NB!Testing
<1>3. (NB!Testing)' => NB!Width' \in Nat /\ 0 = 0 * NB!Width'
  BY <1>2 DEF NB!Testing, NB!Width, NB!SizesAssumption
<1> QED
  BY <1>1, <1>2, <1>3 DEF NBodyInv, BodiesOK, BlockOK, NB!RegisterHolds

LEMMA NBodyNext ==
  ASSUME NB!NBodyAssumption, NB!SizesAssumption, NBodyInv, [NB!Next]_(NB!vars)
  PROVE  NBodyInv'
<1>1. CASE UNCHANGED NB!vars
  BY <1>1 DEF NB!vars, NBodyInv, BodiesOK, BlockOK, NB!RegisterHolds, NB!Pulls, NB!Testing,
              NB!Width, NB!Lane
<1> QED
  BY <1>1, LoadInv, InteractInv, StoreBlockInv, EndsInv DEF NB!Next, NB!Done

\* The old value comes back when what was added is taken away.
LEMMA TakeBack ==
  ASSUME NEW v \in NB!Num, NEW p \in Int, NB!NBodyAssumption
  PROVE  /\ (((v + p) % M) - p) % M = v
         /\ (((v - p) % M) + p) % M = v
<1>1. M \in Nat \ {0} /\ v \in 0 .. M - 1 /\ v + p \in Int /\ v - p \in Int /\ -p \in Int
  BY DEF NB!NBodyAssumption, NB!Num
<1>2. ASSUME NEW x \in Int, NEW y \in Int, x + y = v PROVE ((x % M) + y) % M = v
  <2>1. ((x % M) + y) % M = (x + y) % M
    BY <1>1, ReduceFirst
  <2> QED
    BY <1>1, <1>2, <2>1, SmallRemainder
<1>3. (((v + p) % M) + (-p)) % M = v
  <2> DEFINE x == v + p
             y == -p
  <2>1. x \in Int /\ y \in Int /\ x + y = v
    BY <1>1
  <2> HIDE DEF x, y
  <2>2. ((x % M) + y) % M = v
    BY <1>2, <2>1
  <2> QED
    BY <2>2 DEF x, y
<1>4. (((v - p) % M) + p) % M = v
  <2> DEFINE x == v - p
  <2>1. x \in Int /\ x + p = v
    BY <1>1
  <2> HIDE DEF x
  <2>2. ((x % M) + p) % M = v
    BY <1>2, <2>1
  <2> QED
    BY <2>2 DEF x
<1>5. ((v + p) % M) + (-p) = ((v + p) % M) - p
  <2> DEFINE r == (v + p) % M
  <2>1. r \in 0 .. M - 1
    BY <1>1, Division
  <2> HIDE DEF r
  <2> QED
    BY <1>1, <2>1 DEF r
<1> QED
  BY <1>3, <1>4, <1>5

LEMMA StepStores ==
  ASSUME NB!NBodyAssumption, NB!SizesAssumption, NBodyInv, NB!StoreBlock
  PROVE  UNCHANGED <<NB!StepPos, NB!StepVel>>
<1>1. /\ phase = "pull" /\ puller = N /\ phase' = "load" /\ UNCHANGED pos
      /\ body' = body + NB!Width /\ NB!Testing /\ body < N
      /\ vel' = [b \in NB!Body |-> IF b - body \in NB!Lane THEN pivel[b - body] ELSE vel[b]]
  BY DEF NB!StoreBlock, NBodyInv, BodiesOK, BlockOK
<1>2. UNCHANGED NB!StepPos
  BY <1>1 DEF NB!StepPos
<1>3. ASSUME NEW x \in NB!Body PROVE NB!StepVel'[x] = NB!StepVel[x]
  <2> DEFINE p == NB!Pulls(pos[x], pos, N)
  <2>1. /\ NB!StepVel[x] = IF x < body THEN (vel[x] - p) % M ELSE vel[x]
        /\ NB!StepVel'[x] = IF x < body + NB!Width THEN (vel'[x] - p) % M ELSE vel'[x]
    BY <1>1 DEF NB!StepVel, NB!Pulls
  <2>2. /\ NB!Width \in Nat \ {0} /\ body \in Nat /\ x \in Int
        /\ x - body \in NB!Lane <=> x >= body /\ x < body + NB!Width
    BY <1>1, BlockFits DEF NB!Body
  <2>3. CASE x < body \/ x >= body + NB!Width
    <3>1. vel'[x] = vel[x]
      BY <1>1, <2>2, <2>3
    <3> QED
      BY <2>1, <2>2, <2>3, <3>1
  <2>4. CASE x >= body /\ x < body + NB!Width
    <3>1. vel'[x] = pivel[x - body] /\ x - body \in NB!Lane
      BY <1>1, <2>2, <2>4
    <3>2. body + (x - body) = x
      BY <2>2
    <3>3. vel'[x] = (vel[x] + p) % M
      <4>1. pivel[x - body] = (vel[body + (x - body)]
                                 + NB!Pulls(pos[body + (x - body)], pos, puller)) % M
        BY <1>1, <3>1 DEF NBodyInv, BlockOK, NB!RegisterHolds
      <4> QED
        BY <1>1, <3>1, <3>2, <4>1
    <3>4. p \in Int /\ vel[x] \in NB!Num
      <4>1. N \in 0 .. N
        BY DEF NB!NBodyAssumption
      <4> QED
        BY <4>1, PullsAre DEF NBodyInv, BodiesOK
    <3> HIDE DEF p
    <3> QED
      BY <2>1, <2>2, <2>4, <3>3, <3>4, TakeBack
  <2> QED
    BY <2>2, <2>3, <2>4
<1>4. UNCHANGED NB!StepVel
  <2>1. NB!Body' = NB!Body
    BY DEF NB!Body
  <2> QED
    BY <1>3, <2>1 DEF NB!StepVel
<1> QED
  BY <1>2, <1>4

\* The time step: when the last velocity has been stored, positions count as moved.
LEMMA StepEnds ==
  ASSUME NB!NBodyAssumption, NB!SizesAssumption, NBodyInv, NB!EndPull
  PROVE  NB!Step!TimeStep
<1>1. /\ phase = "load" /\ phase' = "move" /\ body' = 0 /\ body >= N /\ UNCHANGED <<pos, vel>>
      /\ pos \in [NB!Body -> NB!Num] /\ vel \in [NB!Body -> NB!Num] /\ N \in Nat
      /\ NB!Testing /\ body <= N
  BY DEF NB!EndPull, NBodyInv, BodiesOK, BlockOK, NB!NBodyAssumption
<1>2. body = N
  <2>1. body \in Int
    BY <1>1 DEF NBodyInv, BlockOK, NB!SizesAssumption, NB!Width, NB!Testing, BodiesOK
  <2> QED
    BY <1>1, <2>1
<1>3. NB!StepPos = pos
  BY <1>1 DEF NB!StepPos
<1>4. \A x \in NB!Body : NB!StepVel[x] = (vel[x] - NB!Pulls(pos[x], pos, N)) % M
  BY <1>1, <1>2 DEF NB!StepVel, NB!Body
<1>5. ASSUME NEW x \in NB!Body PROVE NB!Step!NewVel(x) = vel[x]
  <2> DEFINE p == NB!Pulls(pos[x], pos, N)
  <2>1. NB!Step!NewVel(x) = (NB!StepVel[x] + p) % M
    BY <1>3 DEF NB!Step!NewVel, NB!Step!Pulls, NB!Pulls, NB!Step!Body, NB!Body,
                NB!Step!SumFunctionOnSet, NB!Step!FoldFunctionOnSet, NB!Step!MapThenFoldSet,
                NB!SumFunctionOnSet, NB!FoldFunctionOnSet, NB!MapThenFoldSet
  <2>2. p \in Int /\ vel[x] \in NB!Num
    <3>1. N \in 0 .. N
      BY <1>1
    <3> QED
      BY <1>1, <3>1, PullsAre
  <2>3. NB!StepVel[x] = (vel[x] - p) % M
    BY <1>4
  <2> HIDE DEF p
  <2> QED
    BY <2>1, <2>2, <2>3, TakeBack
<1>6. NB!StepVel' = [x \in NB!Body |-> NB!Step!NewVel(x)]
  <2>1. NB!StepVel' = [x \in NB!Body |-> vel[x]]
    BY <1>1 DEF NB!StepVel, NB!Body
  <2> QED
    BY <1>5, <2>1
<1>7. NB!StepPos' = [x \in NB!Body |-> (NB!StepPos[x] + NB!Step!NewVel(x)) % M]
  <2>1. NB!StepPos' = [x \in NB!Body |-> (pos[x] + vel[x]) % M]
    BY <1>1 DEF NB!StepPos, NB!Body
  <2> QED
    BY <1>3, <1>5, <2>1
<1> QED
  BY <1>6, <1>7 DEF NB!Step!TimeStep, NB!Step!Body, NB!Body

LEMMA StepMoves ==
  ASSUME NB!NBodyAssumption, NB!SizesAssumption, NBodyInv, NB!MoveBlock
  PROVE  UNCHANGED <<NB!StepPos, NB!StepVel>>
<1>1. /\ phase = "move" /\ UNCHANGED <<phase, vel>>
      /\ body' = body + NB!Width /\ NB!Testing /\ body < N
      /\ pos' = [b \in NB!Body |->
                   IF b - body \in NB!Lane THEN (pos[b] + vel[b]) % M ELSE pos[b]]
  BY DEF NB!MoveBlock, NBodyInv, BodiesOK
<1>2. UNCHANGED NB!StepVel
  BY <1>1 DEF NB!StepVel, NB!Body
<1>3. ASSUME NEW x \in NB!Body PROVE NB!StepPos'[x] = NB!StepPos[x]
  <2>1. /\ NB!StepPos[x] = IF x >= body THEN (pos[x] + vel[x]) % M ELSE pos[x]
        /\ NB!StepPos'[x] = IF x >= body + NB!Width THEN (pos'[x] + vel[x]) % M ELSE pos'[x]
        /\ pos'[x] = IF x - body \in NB!Lane THEN (pos[x] + vel[x]) % M ELSE pos[x]
    BY <1>1 DEF NB!StepPos
  <2>2. /\ NB!Width \in Nat \ {0} /\ body \in Nat /\ x \in Int
        /\ x - body \in NB!Lane <=> x >= body /\ x < body + NB!Width
    BY <1>1, BlockFits DEF NB!Body
  <2> QED
    BY <2>1, <2>2
<1>4. UNCHANGED NB!StepPos
  <2>1. NB!Body' = NB!Body
    BY DEF NB!Body
  <2> QED
    BY <1>3, <2>1 DEF NB!StepPos
<1> QED
  BY <1>2, <1>4

LEMMA StepNext ==
  ASSUME NB!NBodyAssumption, NB!SizesAssumption, NBodyInv, NB!EndMove
  PROVE  UNCHANGED <<NB!StepPos, NB!StepVel>>
<1>1. /\ phase = "move" /\ phase' = "load" /\ body' = 0 /\ body >= N /\ UNCHANGED <<pos, vel>>
      /\ NB!Testing /\ body <= N /\ N \in Nat
  BY DEF NB!EndMove, NBodyInv, BodiesOK, BlockOK, NB!NBodyAssumption
<1>2. body = N
  <2>1. body \in Int
    BY <1>1 DEF NBodyInv, BlockOK, NB!SizesAssumption, NB!Width, NB!Testing, BodiesOK
  <2> QED
    BY <1>1, <2>1
<1>3. UNCHANGED NB!StepVel /\ UNCHANGED NB!StepPos
  BY <1>1, <1>2 DEF NB!StepVel, NB!StepPos, NB!Body
<1> QED
  BY <1>3

\* Every test of nbody advances all bodies by whole time steps, whatever vector
\* sizes the tests have, as long as they divide the number of bodies: no pull is
\* taken from a position of the step under way (bench/nbody.cc:114-219).
THEOREM WholeTimeSteps ==
  ASSUME NB!NBodyAssumption, NB!SizesAssumption
  PROVE  NB!BlockSpec => ImplementsTimeStep
<1>1. NB!Start => NBodyInv
  BY StartInv
<1>2. NBodyInv /\ [NB!Next]_(NB!vars) => NBodyInv'
  BY NBodyNext
<1>3. NB!Start => NB!Step!Init
  <2> SUFFICES ASSUME NB!Start PROVE NB!Step!Init
    OBVIOUS
  <2>1. /\ pos \in [NB!Body -> NB!Num] /\ vel \in [NB!Body -> NB!Num]
        /\ phase = "load" /\ body = 0 /\ N \in Nat
    BY DEF NB!Start, NB!Init, NB!NBodyAssumption
  <2>2. NB!StepPos = pos /\ NB!StepVel = vel
    BY <2>1 DEF NB!StepPos, NB!StepVel, NB!Body
  <2> QED
    BY <2>1, <2>2 DEF NB!Step!Init, NB!Step!Body, NB!Step!Num, NB!Body, NB!Num
<1>4. NBodyInv /\ [NB!Next]_(NB!vars) => [NB!Step!TimeStep]_<<NB!StepPos, NB!StepVel>>
  <2> SUFFICES ASSUME NBodyInv, [NB!Next]_(NB!vars)
               PROVE  NB!Step!TimeStep \/ UNCHANGED <<NB!StepPos, NB!StepVel>>
    OBVIOUS
  <2>1. CASE NB!LoadBlock \/ NB!Interact
    <3>1. UNCHANGED <<pos, vel, body>> /\ phase # "move" /\ phase' # "move"
      BY <2>1 DEF NB!LoadBlock, NB!Interact
    <3> QED
      BY <3>1 DEF NB!StepPos, NB!StepVel, NB!Body, NB!Pulls
  <2>2. CASE UNCHANGED NB!vars
    BY <2>2 DEF NB!vars, NB!StepPos, NB!StepVel, NB!Body, NB!Pulls
  <2> QED
    BY <2>1, <2>2, StepStores, StepEnds, StepMoves, StepNext DEF NB!Next, NB!Done
<1> QED
  BY <1>1, <1>2, <1>3, <1>4, PTL DEF NB!BlockSpec, ImplementsTimeStep, NB!ImplementsTimeStep,
                                     NB!Step!Spec

-----------------------------------------------------------------------------
(* PngWriter.                                                              *)

\* What pixel p of benchmark x shall show.
Wanted(x, p) ==
  LET c == IF overload = "Color" THEN p[1] ELSE NX - 1 - p[1]
      v == Picture[overload][x][NY * c + p[2]]
  IN  IF v < 0 THEN P!Black ELSE v

Written(x, rows) == [p \in (0 .. NX - 1) \X (0 .. rows - 1) |-> Wanted(x, p)]

FileRight(x) == \E rows \in 0 .. NY : files[x] = Written(x, rows)

Filling == {"palette", "pixels", "png", "close"}

\* The pixels before the loop counters.
Before(p) == p[1] < row \/ (p[1] = row /\ p[2] < column)

\* The palette entry of each value is the value itself, as far as allocated, and
\* what has been drawn so far is right.
PngInv ==
  /\ overload \in P!Overload /\ bench \in 1 .. Bench + 1
  /\ step \in {"draw", "open", "create", "done"} \cup Filling
  /\ step \notin {"draw", "done"} => bench <= Bench /\ data = Picture[overload][bench]
  /\ DOMAIN files \subseteq 1 .. Bench
  /\ step \in {"create"} \cup Filling => bench \in DOMAIN files
  /\ step = "create" => files[bench] = Written(bench, 0)
  /\ \A x \in DOMAIN files : /\ x <= bench /\ (step \in {"draw", "open"} => x < bench)
                             /\ x < bench => FileRight(x)
  /\ step = "palette" =>
       /\ overload = "uchar" /\ row \in 0 .. NColors - 1 /\ column = 0
       /\ DOMAIN colors = 0 .. row - 1 /\ \A c \in 0 .. row - 1 : colors[c] = c
  /\ step = "pixels" /\ overload = "uchar" => \A c \in 0 .. NColors - 1 : colors[c] = c
  /\ step = "pixels" => row \in 0 .. NX - 1 /\ column \in 0 .. NY - 1
  /\ step \in {"palette", "pixels", "png"} => DOMAIN img = P!Point
  /\ step = "pixels" => \A p \in P!Point : Before(p) => img[p] = Wanted(bench, p)
  /\ step = "png" => \A p \in P!Point : img[p] = Wanted(bench, p)
  /\ step = "close" => FileRight(bench)

LEMMA NoRows ==
  ASSUME P!PngAssumption, NEW x
  PROVE  Written(x, 0) = [p \in {} |-> 0] /\ 0 \in 0 .. NY
<1>1. (0 .. NX - 1) \X (0 .. 0 - 1) = {}
  OBVIOUS
<1>2. NY \in Nat
  BY DEF P!PngAssumption
<1> QED
  BY <1>1, <1>2 DEF Written

LEMMA SameFile ==
  ASSUME UNCHANGED <<overload, files>>, NEW x
  PROVE  FileRight(x)' <=> FileRight(x)
<1>1. \A rows : Written(x, rows)' = Written(x, rows)
  BY DEF Written, Wanted, P!Black
<1> QED
  BY <1>1 DEF FileRight

\* The steps that leave the files and the session as they are.
LEMMA FilesKept ==
  ASSUME PngInv, UNCHANGED <<overload, files>>, bench' = bench
  PROVE  /\ \A x \in DOMAIN files' : x <= bench' /\ (x < bench' => FileRight(x)')
         /\ DOMAIN files' \subseteq 1 .. Bench
BY SameFile DEF PngInv

\* The next benchmark begins, with the file of this one as it is.
LEMMA ReturnKeeps ==
  ASSUME P!PngAssumption, PngInv, UNCHANGED <<overload, files>>, P!Return, bench <= Bench,
         bench \in DOMAIN files => FileRight(bench)
  PROVE  PngInv'
<1>1. bench' = bench + 1 /\ step' = "draw" /\ bench \in 1 .. Bench + 1 /\ Bench \in Nat
  BY DEF P!Return, PngInv, P!PngAssumption
<1>2. ASSUME NEW x \in DOMAIN files, x < bench + 1 PROVE FileRight(x)'
  <2>1. x \in 1 .. Bench
    BY DEF PngInv
  <2>2. x < bench \/ x = bench
    BY <1>1, <1>2, <2>1
  <2>3. FileRight(x)
    BY <2>2 DEF PngInv
  <2> QED
    BY <2>3, SameFile
<1>3. \A x \in DOMAIN files : x < bench + 1
  <2>1. \A x \in DOMAIN files : x \in 1 .. Bench /\ x <= bench
    BY DEF PngInv
  <2> QED
    BY <1>1, <2>1
<1>4. \A x \in DOMAIN files' :
        /\ x <= bench' /\ (step' \in {"draw", "open"} => x < bench')
        /\ x < bench' => FileRight(x)'
  <2>1. \A x \in DOMAIN files : x \in 1 .. Bench
    BY DEF PngInv
  <2> QED
    BY <1>1, <1>2, <1>3, <2>1
<1> QED
  BY <1>1, <1>4 DEF PngInv, Filling

LEMMA OpenKeeps == ASSUME P!PngAssumption, PngInv, P!Open PROVE PngInv'
<1>1. /\ UNCHANGED <<overload, bench, data>> /\ step = "open" /\ step' = "create"
      /\ DOMAIN files' = DOMAIN files \cup {bench} /\ files'[bench] = [p \in {} |-> 0]
      /\ \A x \in DOMAIN files \ {bench} : files'[x] = files[x]
      /\ bench \in 1 .. Bench
  BY DEF P!Open, PngInv, P!PngAssumption
<1>2. files'[bench] = Written(bench, 0)'
  BY <1>1, NoRows DEF Written, Wanted, P!Black
<1>3. ASSUME NEW x \in DOMAIN files', x < bench PROVE FileRight(x)'
  <2>1. x \in DOMAIN files /\ x # bench
    BY <1>1, <1>3
  <2>2. FileRight(x) /\ files'[x] = files[x]
    BY <1>1, <1>3, <2>1 DEF PngInv
  <2> QED
    BY <1>1, <2>2 DEF FileRight, Written, Wanted, P!Black
<1>4. \A x \in DOMAIN files' : x <= bench
  BY <1>1 DEF PngInv
<1> QED
  BY <1>1, <1>2, <1>3, <1>4 DEF PngInv, Filling

LEMMA CreateFailsKeeps == ASSUME P!PngAssumption, PngInv, P!CreateFails PROVE PngInv'
<1>1. /\ UNCHANGED <<overload, files>> /\ P!Return /\ bench <= Bench
      /\ files[bench] = Written(bench, 0)
  BY DEF P!CreateFails, PngInv
<1>2. FileRight(bench)
  BY <1>1, NoRows DEF FileRight
<1> QED
  BY <1>1, <1>2, ReturnKeeps

LEMMA CreateKeeps == ASSUME P!PngAssumption, PngInv, P!Create PROVE PngInv'
<1>1. /\ UNCHANGED <<overload, bench, data, files>> /\ row' = 0 /\ column' = 0
      /\ DOMAIN img' = P!Point /\ DOMAIN colors' = {} /\ step = "create"
      /\ step' = IF overload = "uchar" THEN "palette" ELSE "pixels"
  BY DEF P!Create
<1>2. /\ NX \in Nat \ {0} /\ NY \in Nat \ {0} /\ NColors \in Nat \ {0}
      /\ 0 .. 0 - 1 = {}
  BY DEF P!PngAssumption
<1>3. ASSUME NEW p \in P!Point PROVE ~Before(p)'
  BY <1>1, <1>2 DEF Before, P!Point
<1> QED
  BY <1>1, <1>2, <1>3, FilesKept DEF PngInv, Filling, P!Point

LEMMA PaletteKeeps == ASSUME P!PngAssumption, PngInv, P!Palette PROVE PngInv'
<1>1. /\ UNCHANGED <<overload, bench, data, files, img, column>> /\ step = "palette"
      /\ colors' = [c \in 0 .. row |-> IF c = row THEN P!Allocate(row) ELSE colors[c]]
      /\ IF row + 1 < NColors THEN row' = row + 1 /\ step' = "palette"
                              ELSE row' = 0 /\ step' = "pixels"
  BY DEF P!Palette
<1>2. /\ NX \in Nat \ {0} /\ NY \in Nat \ {0} /\ NColors \in Nat \ {0}
      /\ row \in 0 .. NColors - 1 /\ column = 0 /\ overload = "uchar"
      /\ \A c \in 0 .. row - 1 : colors[c] = c
  BY <1>1 DEF P!PngAssumption, PngInv
<1>3. \A c \in 0 .. row : colors'[c] = c
  BY <1>1, <1>2 DEF P!Allocate
<1>4. CASE row + 1 < NColors
  <2>1. row' \in 0 .. NColors - 1 /\ 0 .. row' - 1 = 0 .. row /\ step' = "palette"
    BY <1>1, <1>2, <1>4
  <2> QED
    BY <1>1, <1>2, <1>3, <2>1, FilesKept DEF PngInv, Filling, P!Point
<1>5. CASE ~(row + 1 < NColors)
  <2>1. row' = 0 /\ 0 .. NColors - 1 = 0 .. row /\ step' = "pixels"
    BY <1>1, <1>2, <1>5
  <2>2. ASSUME NEW p \in P!Point PROVE ~Before(p)'
    BY <1>1, <1>2, <2>1 DEF Before, P!Point
  <2> QED
    BY <1>1, <1>2, <1>3, <2>1, <2>2, FilesKept DEF PngInv, Filling, P!Point
<1> QED
  BY <1>4, <1>5

\* The next pixel shows what it shall.
LEMMA PixelRight ==
  ASSUME P!PngAssumption, PngInv, P!SetPixel
  PROVE  /\ P!Shade(data[P!Source(row, column)]) = Wanted(bench, <<row, column>>)
         /\ <<row, column>> \in P!Point
<1>1. /\ NX \in Nat \ {0} /\ NY \in Nat \ {0} /\ NColors \in Nat \ {0}
      /\ row \in 0 .. NX - 1 /\ column \in 0 .. NY - 1 /\ overload \in P!Overload
      /\ bench \in 1 .. Bench /\ data = Picture[overload][bench] /\ step = "pixels"
  BY DEF P!PngAssumption, PngInv, P!SetPixel
<1> DEFINE c == IF overload = "Color" THEN row ELSE NX - 1 - row
           at == NY * c + column
           v == data[at]
<1>2. P!Source(row, column) = at
  BY <1>1 DEF P!Source
<1>3. c \in 0 .. NX - 1
  BY <1>1
<1>4. at \in P!Index
  <2> HIDE DEF c
  <2>1. NY * c \in Nat /\ NY * c + NY <= NX * NY
    BY <1>1, <1>3, RowBound
  <2>2. NX * NY \in Nat
    BY <1>1
  <2> QED
    BY <1>1, <2>1, <2>2 DEF P!Index
<1>5. v \in P!Value(overload)
  <2>1. Picture[overload] \in [1 .. Bench -> [P!Index -> P!Value(overload)]]
    BY <1>1 DEF P!PngAssumption
  <2> HIDE DEF at
  <2> QED
    BY <1>1, <1>4, <2>1
<1>6. Wanted(bench, <<row, column>>) = IF v < 0 THEN P!Black ELSE v
  BY <1>1 DEF Wanted
<1>7. P!Shade(v) = IF v < 0 THEN P!Black ELSE v
  <2> HIDE DEF v
  <2>1. CASE overload = "uchar"
    <3>1. v \in 0 .. NColors - 1 /\ ~(v < 0)
      BY <1>1, <1>5, <2>1 DEF P!Value
    <3>2. colors[v] = v
      BY <1>1, <2>1, <3>1 DEF PngInv
    <3> QED
      BY <2>1, <3>1, <3>2 DEF P!Shade
  <2>2. CASE overload = "float"
    BY <1>1, <2>2 DEF P!Shade
  <2>3. CASE overload = "Color"
    <3>1. ~(v < 0)
      BY <1>1, <1>5, <2>3 DEF P!Value
    <3> QED
      BY <2>3, <3>1 DEF P!Shade
  <2> QED
    BY <1>1, <2>1, <2>2, <2>3 DEF P!Overload
<1> QED
  BY <1>1, <1>2, <1>6, <1>7 DEF P!Point

LEMMA SetPixelKeeps == ASSUME P!PngAssumption, PngInv, P!SetPixel PROVE PngInv'
<1>1. /\ NX \in Nat \ {0} /\ NY \in Nat \ {0}
      /\ row \in 0 .. NX - 1 /\ column \in 0 .. NY - 1 /\ DOMAIN img = P!Point
      /\ step = "pixels" /\ UNCHANGED <<overload, bench, data, files, colors>>
      /\ IF column + 1 < NY THEN column' = column + 1 /\ row' = row
                               ELSE column' = 0 /\ row' = row + 1
      /\ step' = IF row' < NX THEN "pixels" ELSE "png"
      /\ img' = [img EXCEPT ![<<row, column>>] = P!Shade(data[P!Source(row, column)])]
  BY DEF P!PngAssumption, PngInv, P!SetPixel
<1>2. DOMAIN img' = P!Point
  BY <1>1
<1>3. ASSUME NEW p \in P!Point, Before(p) \/ p = <<row, column>> PROVE img'[p] = Wanted(bench, p)
  BY <1>1, <1>3, PixelRight DEF PngInv
<1>4. ASSUME NEW p \in P!Point
      PROVE  Before(p)' <=> Before(p) \/ p = <<row, column>>
  <2>1. p = <<p[1], p[2]>> /\ p[1] \in 0 .. NX - 1 /\ p[2] \in 0 .. NY - 1
    BY DEF P!Point
  <2>2. p = <<row, column>> <=> p[1] = row /\ p[2] = column
    BY <2>1
  <2>3. Before(p)' <=> p[1] < row' \/ (p[1] = row' /\ p[2] < column')
    BY DEF Before
  <2>4. Before(p) <=> p[1] < row \/ (p[1] = row /\ p[2] < column)
    BY DEF Before
  <2> QED
    BY <1>1, <2>1, <2>2, <2>3, <2>4
<1>5. ASSUME NEW p \in P!Point PROVE Wanted(bench, p)' = Wanted(bench, p)
  BY <1>1 DEF Wanted, P!Black
<1>6. row' < NX => row' \in 0 .. NX - 1 /\ column' \in 0 .. NY - 1
  BY <1>1
<1>7. ASSUME ~(row' < NX), NEW p \in P!Point PROVE Before(p)'
  BY <1>1, <1>7 DEF Before, P!Point
<1>8. \A p \in P!Point : Before(p)' => img'[p] = Wanted(bench, p)'
  BY <1>3, <1>4, <1>5
<1>9. P!Point' = P!Point
  BY DEF P!Point
<1>10. step' = "png" => \A p \in P!Point : img'[p] = Wanted(bench, p)'
  BY <1>1, <1>7, <1>8
<1> QED
  BY <1>1, <1>2, <1>6, <1>8, <1>9, <1>10, FilesKept DEF PngInv, Filling

LEMMA PngKeeps == ASSUME P!PngAssumption, PngInv, P!Png PROVE PngInv'
<1>1. /\ UNCHANGED <<overload, bench, data>> /\ step = "png" /\ step' = "close"
      /\ DOMAIN img = P!Point /\ \A p \in P!Point : img[p] = Wanted(bench, p)
      /\ bench \in DOMAIN files /\ NY \in Nat /\ NX \in Nat
  BY DEF P!Png, PngInv, Filling, P!PngAssumption
<1>2. PICK rows \in 0 .. NY :
        files' = [files EXCEPT ![bench] = P!Restrict(img, {p \in P!Point : p[2] < rows})]
  BY DEF P!Png
<1>3. P!Restrict(img, {p \in P!Point : p[2] < rows}) = Written(bench, rows)
  <2>1. {p \in P!Point : p[2] < rows} = (0 .. NX - 1) \X (0 .. rows - 1)
    BY <1>1 DEF P!Point
  <2> QED
    BY <1>1, <2>1 DEF P!Restrict, Written, P!Point
<1>4. FileRight(bench)'
  <2>1. files'[bench] = Written(bench, rows)
    BY <1>1, <1>2, <1>3
  <2>2. Written(bench, rows)' = Written(bench, rows)
    BY <1>1 DEF Written, Wanted, P!Black
  <2> QED
    BY <1>1, <2>1, <2>2 DEF FileRight, Written, Wanted, P!Black
<1>5. ASSUME NEW x \in DOMAIN files, x < bench PROVE FileRight(x)'
  <2>1. x # bench
    BY <1>5 DEF PngInv
  <2>2. FileRight(x) /\ files'[x] = files[x]
    BY <1>2, <1>5, <2>1 DEF PngInv
  <2> QED
    BY <1>1, <2>2 DEF FileRight, Written, Wanted, P!Black
<1>6. DOMAIN files' = DOMAIN files /\ \A x \in DOMAIN files : x <= bench
  BY <1>2 DEF PngInv
<1> QED
  BY <1>1, <1>4, <1>5, <1>6 DEF PngInv, Filling

LEMMA PngNext == ASSUME P!PngAssumption, PngInv, [P!Next]_(P!vars) PROVE PngInv'
<1>1. CASE P!Draw
  BY <1>1, FilesKept DEF P!Draw, PngInv, Filling
<1>2. CASE P!OpenFails
  <2>1. bench \notin DOMAIN files /\ bench <= Bench
    BY <1>2 DEF P!OpenFails, PngInv
  <2> QED
    BY <1>2, <2>1, ReturnKeeps DEF P!OpenFails
<1>3. CASE P!Close
  BY <1>3, ReturnKeeps DEF P!Close, PngInv
<1>4. CASE P!Finish
  BY <1>4, FilesKept DEF P!Finish, PngInv, Filling
<1>5. CASE UNCHANGED P!vars
  <2>1. UNCHANGED <<overload, bench, step, data, colors, img, row, column, files>>
    BY <1>5 DEF P!vars
  <2>2. \A x : FileRight(x)' <=> FileRight(x)
    BY <2>1, SameFile
  <2>3. \A x, p : Wanted(x, p)' = Wanted(x, p) /\ (Before(p)' <=> Before(p))
    BY <2>1 DEF Wanted, Before, P!Black
  <2>4. files'[bench'] = Written(bench, 0)' <=> files[bench] = Written(bench, 0)
    BY <2>1 DEF Written, Wanted, P!Black
  <2> QED
    BY <2>1, <2>2, <2>3, <2>4 DEF PngInv, P!Point
<1> QED
  BY <1>1, <1>2, <1>3, <1>4, <1>5, OpenKeeps, CreateFailsKeeps, CreateKeeps, PaletteKeeps,
     SetPixelKeeps, PngKeeps DEF P!Next, P!Terminated

\* Every file shows the picture of its own benchmark, each element at its place
\* and in its colour, with rows missing only at the bottom, for images of any
\* size, any pictures and whatever calls fail (bench/png.cc:66-177).
THEOREM FilesShowPictures ==
  ASSUME P!PngAssumption
  PROVE  P!Spec => []FilesRight
<1>1. P!Init => PngInv
  BY DEF P!PngAssumption, P!Init, PngInv, Filling
<1>2. PngInv /\ [P!Next]_(P!vars) => PngInv'
  BY PngNext
<1>3. PngInv => FilesRight
  BY DEF PngInv, FilesRight, P!FilesRight, FileRight, Written, Wanted
<1> QED
  BY <1>1, <1>2, <1>3, PTL DEF P!Spec
=============================================================================
