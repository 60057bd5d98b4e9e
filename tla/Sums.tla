-------------------------------- MODULE Sums --------------------------------
(***************************************************************************)
(* Facts about SumFunctionOnSet, by which the modules sum the values of a  *)
(* function over a finite set.  Induction goes over sets of numbers, so    *)
(* that no fact has an operator as its parameter.                          *)
(***************************************************************************)
EXTENDS Integers, Functions, FiniteSetTheorems, WellFoundedInduction, TLAPS

\* A set of numbers that has 0, and the next number of each of its own, has all.
LEMMA SetInduction ==
  ASSUME NEW I \in SUBSET Nat, 0 \in I, \A n \in I : n + 1 \in I
  PROVE  I = Nat
<1>1. IsWellFoundedOn(OpToRel(<, Nat), Nat)
  BY NatLessThanWellFounded
<1>2. ASSUME NEW z \in Nat, z \notin I PROVE FALSE
  <2>1. PICK x \in Nat \ I : \A y \in Nat \ I : <<y, x>> \notin OpToRel(<, Nat)
    <3>1. Nat \ I # {} /\ Nat \ I \subseteq Nat
      BY <1>2
    <3> QED
      BY ONLY <1>1, <3>1, WFMin
  <2>2. x \in Nat /\ x \notin I
    BY <2>1
  <2>3. x # 0 /\ x - 1 \in Nat /\ x - 1 < x /\ (x - 1) + 1 = x
    BY <2>2
  <2>4. <<x - 1, x>> \in OpToRel(<, Nat)
    BY <2>2, <2>3 DEF OpToRel
  <2> QED
    BY <2>1, <2>2, <2>3, <2>4
<1> QED
  BY <1>2

-----------------------------------------------------------------------------
(* The recursion over the subsets of S that the definition stands for.     *)

Chosen(s) == CHOOSE x \in s : TRUE

\* What iter is in the definition.
Iter(f, S) ==
  CHOOSE g : g = [s \in SUBSET S |-> IF s = {} THEN 0 ELSE f[Chosen(s)] + g[s \ {Chosen(s)}]]

Level(f, S, g, n) ==
  /\ g \in [SUBSET S -> Int]
  /\ \A s \in SUBSET S : Cardinality(s) <= n =>
       g[s] = IF s = {} THEN 0 ELSE f[Chosen(s)] + g[s \ {Chosen(s)}]

LEMMA ChosenFacts ==
  ASSUME NEW S, IsFiniteSet(S), NEW s \in SUBSET S
  PROVE  /\ IsFiniteSet(s) /\ Cardinality(s) \in Nat /\ Cardinality(s) <= Cardinality(S)
         /\ s # {} => /\ Chosen(s) \in s /\ Chosen(s) \in S /\ s \ {Chosen(s)} \in SUBSET S
                      /\ Cardinality(s \ {Chosen(s)}) = Cardinality(s) - 1
         /\ Cardinality(s) = 0 <=> s = {}
<1>1. IsFiniteSet(s) /\ Cardinality(s) <= Cardinality(S)
  BY FS_Subset
<1>2. Cardinality(s) \in Nat /\ (Cardinality(s) = 0 <=> s = {})
  BY <1>1, FS_CardinalityType, FS_EmptySet
<1>3. s # {} => Chosen(s) \in s
  BY DEF Chosen
<1>4. s # {} => Cardinality(s \ {Chosen(s)}) = Cardinality(s) - 1
  BY <1>1, <1>3, FS_RemoveElement
<1> QED
  BY <1>1, <1>2, <1>3, <1>4

LEMMA SubsetSizes ==
  ASSUME NEW S, IsFiniteSet(S)
  PROVE  \A s \in SUBSET S : Cardinality(s) \in Nat /\ (Cardinality(s) <= 0 => s = {})
<1>1. ASSUME NEW s \in SUBSET S
      PROVE  Cardinality(s) \in Nat /\ (Cardinality(s) <= 0 => s = {})
  <2>1. Cardinality(s) \in Nat /\ (Cardinality(s) = 0 <=> s = {})
    BY ChosenFacts
  <2> QED
    BY <2>1
<1> QED
  BY <1>1

LEMMA Levels ==
  ASSUME NEW S, IsFiniteSet(S), NEW f, \A x \in S : f[x] \in Int
  PROVE  \A n \in Nat : \E g : Level(f, S, g, n)
<1> DEFINE I == {n \in Nat : \E g : Level(f, S, g, n)}
<1>1. 0 \in I
  <2> DEFINE g == [s \in SUBSET S |-> 0]
  <2>1. \A s \in SUBSET S : Cardinality(s) <= 0 => s = {}
    BY SubsetSizes
  <2>2. Level(f, S, g, 0)
    BY <2>1 DEF Level
  <2> QED
    BY <2>2
<1>2. ASSUME NEW n \in I PROVE n + 1 \in I
  <2>1. n \in Nat
    OBVIOUS
  <2>2. PICK g : Level(f, S, g, n)
    BY <1>2
  <2> DEFINE h == [s \in SUBSET S |->
                     IF Cardinality(s) <= n THEN g[s] ELSE f[Chosen(s)] + g[s \ {Chosen(s)}]]
  <2>3. h \in [SUBSET S -> Int]
    <3>1. ASSUME NEW s \in SUBSET S, ~(Cardinality(s) <= n)
          PROVE  f[Chosen(s)] + g[s \ {Chosen(s)}] \in Int
      <4>1. s # {}
        BY <2>1, <3>1, FS_EmptySet
      <4>2. Chosen(s) \in S /\ s \ {Chosen(s)} \in SUBSET S
        BY <4>1, ChosenFacts
      <4>3. f[Chosen(s)] \in Int /\ g[s \ {Chosen(s)}] \in Int
        BY <2>2, <4>2 DEF Level
      <4> QED
        BY <4>3
    <3> QED
      BY <2>2, <3>1 DEF Level
  <2>4. ASSUME NEW s \in SUBSET S, Cardinality(s) <= n + 1
        PROVE  h[s] = IF s = {} THEN 0 ELSE f[Chosen(s)] + h[s \ {Chosen(s)}]
    <3>1. Cardinality(s) \in Nat /\ (Cardinality(s) = 0 <=> s = {})
          /\ (s # {} => s \ {Chosen(s)} \in SUBSET S
                        /\ Cardinality(s \ {Chosen(s)}) = Cardinality(s) - 1)
      BY ChosenFacts
    <3>2. s # {} => h[s \ {Chosen(s)}] = g[s \ {Chosen(s)}]
      BY <2>1, <2>4, <3>1
    <3>3. CASE Cardinality(s) <= n
      BY <2>2, <3>1, <3>2, <3>3 DEF Level
    <3>4. CASE ~(Cardinality(s) <= n)
      BY <2>1, <3>1, <3>2, <3>4
    <3> QED
      BY <3>3, <3>4
  <2>5. Level(f, S, h, n + 1)
    BY <2>3, <2>4 DEF Level
  <2> QED
    BY <2>1, <2>5
<1>3. I = Nat
  <2> HIDE DEF I
  <2>1. I \in SUBSET Nat
    BY DEF I
  <2> QED
    BY <1>1, <1>2, <2>1, SetInduction
<1> QED
  BY <1>3

LEMMA IterRecurs ==
  ASSUME NEW S, IsFiniteSet(S), NEW f, \A x \in S : f[x] \in Int
  PROVE  /\ Iter(f, S) \in [SUBSET S -> Int]
         /\ \A s \in SUBSET S :
              Iter(f, S)[s] = IF s = {} THEN 0 ELSE f[Chosen(s)] + Iter(f, S)[s \ {Chosen(s)}]
<1> DEFINE Rec(g) == [s \in SUBSET S |-> IF s = {} THEN 0 ELSE f[Chosen(s)] + g[s \ {Chosen(s)}]]
<1>1. Cardinality(S) \in Nat /\ \A s \in SUBSET S : Cardinality(s) <= Cardinality(S)
  BY ChosenFacts, FS_CardinalityType
<1>2. PICK g : Level(f, S, g, Cardinality(S))
  BY <1>1, Levels
<1>3. g = Rec(g)
  BY <1>1, <1>2 DEF Level
<1>4. Iter(f, S) = Rec(Iter(f, S))
  BY <1>3 DEF Iter
<1>5. \A s \in SUBSET S :
        Iter(f, S)[s] = IF s = {} THEN 0 ELSE f[Chosen(s)] + Iter(f, S)[s \ {Chosen(s)}]
  BY <1>4
<1> DEFINE I == {n \in Nat : \A s \in SUBSET S : Cardinality(s) <= n => Iter(f, S)[s] \in Int}
<1>6. 0 \in I
  <2>1. \A s \in SUBSET S : Cardinality(s) <= 0 => s = {}
    BY SubsetSizes
  <2>2. Iter(f, S)[{}] = 0
    BY <1>5
  <2> QED
    BY <2>1, <2>2
<1>7. ASSUME NEW n \in I PROVE n + 1 \in I
  <2>1. ASSUME NEW s \in SUBSET S, Cardinality(s) <= n + 1 PROVE Iter(f, S)[s] \in Int
    <3>1. CASE s = {}
      <4>1. Iter(f, S)[s] = 0
        BY <1>5, <3>1
      <4> QED
        BY <4>1
    <3>2. CASE s # {}
      <4>1. /\ Chosen(s) \in S /\ s \ {Chosen(s)} \in SUBSET S
            /\ Cardinality(s \ {Chosen(s)}) = Cardinality(s) - 1 /\ Cardinality(s) \in Nat
        BY <3>2, ChosenFacts
      <4>2. Iter(f, S)[s \ {Chosen(s)}] \in Int
        BY <1>7, <2>1, <4>1
      <4>3. Iter(f, S)[s] = f[Chosen(s)] + Iter(f, S)[s \ {Chosen(s)}]
        BY <1>5, <3>2
      <4> QED
        BY <4>1, <4>2, <4>3
    <3> QED
      BY <3>1, <3>2
  <2> QED
    BY <2>1
<1>8. I = Nat
  <2> HIDE DEF I
  <2>1. I \in SUBSET Nat
    BY DEF I
  <2> QED
    BY <1>6, <1>7, <2>1, SetInduction
<1>9. \A s \in SUBSET S : Iter(f, S)[s] \in Int
  BY <1>1, <1>8
<1>10. Iter(f, S) \in [SUBSET S -> Int]
  BY <1>4, <1>9
<1> QED
  BY <1>5, <1>10

LEMMA SumIsIter ==
  ASSUME NEW f, NEW S
  PROVE  SumFunctionOnSet(f, S) = Iter(f, S)[S]
BY DEF SumFunctionOnSet, FoldFunctionOnSet, MapThenFoldSet, Iter, Chosen

\* What iter is for a set does not depend on the set it was defined for.
LEMMA IterAgrees ==
  ASSUME NEW S, IsFiniteSet(S), NEW f, \A x \in S : f[x] \in Int, NEW T \in SUBSET S
  PROVE  \A s \in SUBSET T : Iter(f, T)[s] = Iter(f, S)[s]
<1>1. IsFiniteSet(T) /\ \A x \in T : f[x] \in Int
  BY ChosenFacts
<1>2. \A s \in SUBSET T : Iter(f, T)[s] = IF s = {} THEN 0 ELSE f[Chosen(s)] + Iter(f, T)[s \ {Chosen(s)}]
  BY <1>1, IterRecurs
<1>3. \A s \in SUBSET S : Iter(f, S)[s] = IF s = {} THEN 0 ELSE f[Chosen(s)] + Iter(f, S)[s \ {Chosen(s)}]
  BY IterRecurs
<1> DEFINE I == {n \in Nat : \A s \in SUBSET T : Cardinality(s) <= n => Iter(f, T)[s] = Iter(f, S)[s]}
<1>4. 0 \in I
  <2>1. \A s \in SUBSET T : Cardinality(s) <= 0 => s = {}
    BY <1>1, SubsetSizes
  <2> QED
    BY <1>2, <1>3, <2>1
<1>5. ASSUME NEW n \in I PROVE n + 1 \in I
  <2>1. ASSUME NEW s \in SUBSET T, Cardinality(s) <= n + 1 PROVE Iter(f, T)[s] = Iter(f, S)[s]
    <3>1. CASE s = {}
      BY <1>2, <1>3, <3>1
    <3>2. CASE s # {}
      <4>1. /\ s \ {Chosen(s)} \in SUBSET T
            /\ Cardinality(s \ {Chosen(s)}) = Cardinality(s) - 1 /\ Cardinality(s) \in Nat
        BY <1>1, <3>2, ChosenFacts
      <4>2. Iter(f, T)[s \ {Chosen(s)}] = Iter(f, S)[s \ {Chosen(s)}]
        BY <1>5, <2>1, <4>1
      <4>3. s \in SUBSET S
        OBVIOUS
      <4>4. Iter(f, T)[s] = f[Chosen(s)] + Iter(f, T)[s \ {Chosen(s)}]
        BY <1>2, <3>2
      <4>5. Iter(f, S)[s] = f[Chosen(s)] + Iter(f, S)[s \ {Chosen(s)}]
        BY <1>3, <3>2, <4>3
      <4> QED
        BY <4>2, <4>4, <4>5
    <3> QED
      BY <3>1, <3>2
  <2> QED
    BY <2>1
<1>6. I = Nat
  <2> HIDE DEF I
  <2>1. I \in SUBSET Nat
    BY DEF I
  <2> QED
    BY <1>4, <1>5, <2>1, SetInduction
<1>7. \A s \in SUBSET T : Cardinality(s) \in Nat
  BY <1>1, ChosenFacts
<1> QED
  BY <1>6, <1>7

-----------------------------------------------------------------------------
(* The sum, by itself.                                                     *)

LEMMA SumStep ==
  ASSUME NEW S, IsFiniteSet(S), NEW f, \A x \in S : f[x] \in Int
  PROVE  /\ SumFunctionOnSet(f, S) \in Int
         /\ S = {} => SumFunctionOnSet(f, S) = 0
         /\ S # {} => SumFunctionOnSet(f, S)
                        = f[Chosen(S)] + SumFunctionOnSet(f, S \ {Chosen(S)})
<1>1. Iter(f, S)[S] \in Int
  BY IterRecurs
<1>2. Iter(f, S)[S] = IF S = {} THEN 0 ELSE f[Chosen(S)] + Iter(f, S)[S \ {Chosen(S)}]
  BY IterRecurs
<1>3. Iter(f, S \ {Chosen(S)})[S \ {Chosen(S)}] = Iter(f, S)[S \ {Chosen(S)}]
  BY IterAgrees
<1> QED
  BY <1>1, <1>2, <1>3, SumIsIter

LEMMA SumEmpty ==
  ASSUME NEW f
  PROVE  SumFunctionOnSet(f, {}) = 0
BY SumStep, FS_EmptySet

\* A set of subsets that has {}, and with one each that is larger by one, has S.
LEMMA SubsetInduction ==
  ASSUME NEW S, IsFiniteSet(S), NEW P \in SUBSET SUBSET S, {} \in P,
         \A s \in P : \A x \in S \ s : s \cup {x} \in P
  PROVE  S \in P
<1> DEFINE I == {n \in Nat : \A s \in SUBSET S : Cardinality(s) <= n => s \in P}
<1>1. 0 \in I
  BY SubsetSizes
<1>2. ASSUME NEW n \in I PROVE n + 1 \in I
  <2>1. ASSUME NEW s \in SUBSET S, Cardinality(s) <= n + 1, s # {} PROVE s \in P
    <3> DEFINE c == Chosen(s)
    <3>1. /\ c \in s /\ s \ {c} \in SUBSET S /\ Cardinality(s) \in Nat
          /\ Cardinality(s \ {c}) = Cardinality(s) - 1
      BY <2>1, ChosenFacts
    <3> HIDE DEF c
    <3>2. s \ {c} \in P
      BY <1>2, <2>1, <3>1
    <3>3. s = (s \ {c}) \cup {c} /\ c \in S \ (s \ {c})
      BY <3>1
    <3> QED
      BY <3>2, <3>3
  <2> QED
    BY <2>1
<1>3. I = Nat
  <2> HIDE DEF I
  <2>1. I \in SUBSET Nat
    BY DEF I
  <2> QED
    BY <1>1, <1>2, <2>1, SetInduction
<1> QED
  BY <1>3, FS_CardinalityType

\* The order in which a sum is taken does not matter.
LEMMA SumRemove ==
  ASSUME NEW S, IsFiniteSet(S), NEW f, \A x \in S : f[x] \in Int, NEW x \in S
  PROVE  SumFunctionOnSet(f, S) = f[x] + SumFunctionOnSet(f, S \ {x})
<1> DEFINE I == {n \in Nat : \A s \in SUBSET S : Cardinality(s) <= n => \A y \in s :
                   SumFunctionOnSet(f, s) = f[y] + SumFunctionOnSet(f, s \ {y})}
<1>1. 0 \in I
  BY SubsetSizes
<1>2. ASSUME NEW n \in I PROVE n + 1 \in I
  <2>1. ASSUME NEW s \in SUBSET S, Cardinality(s) <= n + 1, NEW y \in s
        PROVE  SumFunctionOnSet(f, s) = f[y] + SumFunctionOnSet(f, s \ {y})
    <3> DEFINE c == Chosen(s)
    <3>1. IsFiniteSet(s) /\ c \in s /\ \A x1 \in s : f[x1] \in Int
      BY ChosenFacts
    <3>2. SumFunctionOnSet(f, s) = f[c] + SumFunctionOnSet(f, s \ {c})
      BY <3>1, SumStep
    <3> HIDE DEF c
    <3>3. CASE y = c
      BY <3>2, <3>3
    <3>4. CASE y # c
      <4>1. /\ s \ {c} \in SUBSET S /\ Cardinality(s \ {c}) <= n /\ y \in s \ {c}
            /\ s \ {y} \in SUBSET S /\ Cardinality(s \ {y}) <= n /\ c \in s \ {y}
        <5>1. Cardinality(s \ {c}) = Cardinality(s) - 1 /\ Cardinality(s \ {y}) = Cardinality(s) - 1
              /\ Cardinality(s) \in Nat
          BY <3>1, FS_RemoveElement, FS_CardinalityType
        <5>2. n \in Nat
          OBVIOUS
        <5> QED
          BY <2>1, <3>1, <3>4, <5>1, <5>2
      <4>2. SumFunctionOnSet(f, s \ {c}) = f[y] + SumFunctionOnSet(f, (s \ {c}) \ {y})
        BY <1>2, <4>1
      <4>3. SumFunctionOnSet(f, s \ {y}) = f[c] + SumFunctionOnSet(f, (s \ {y}) \ {c})
        BY <1>2, <4>1
      <4>4. (s \ {c}) \ {y} = (s \ {y}) \ {c}
        OBVIOUS
      <4>5. IsFiniteSet((s \ {y}) \ {c})
        BY <3>1, FS_Subset
      <4>6. SumFunctionOnSet(f, (s \ {y}) \ {c}) \in Int /\ f[y] \in Int /\ f[c] \in Int
        BY <3>1, <4>5, SumStep
      <4> DEFINE rest == SumFunctionOnSet(f, (s \ {y}) \ {c})
      <4>7. SumFunctionOnSet(f, s) = f[c] + (f[y] + rest)
        BY <3>2, <4>2, <4>4
      <4>8. SumFunctionOnSet(f, s \ {y}) = f[c] + rest
        BY <4>3
      <4> HIDE DEF rest
      <4>9. rest \in Int
        BY <4>6 DEF rest
      <4> QED
        BY <4>6, <4>7, <4>8, <4>9
    <3> QED
      BY <3>3, <3>4
  <2>2. n + 1 \in Nat
    OBVIOUS
  <2> QED
    BY <2>1, <2>2
<1>3. I = Nat
  <2> HIDE DEF I
  <2>1. I \in SUBSET Nat
    BY DEF I
  <2> QED
    BY <1>1, <1>2, <2>1, SetInduction
<1> QED
  BY <1>3, FS_CardinalityType

LEMMA SumType ==
  ASSUME NEW S, IsFiniteSet(S), NEW f, \A x \in S : f[x] \in Int
  PROVE  SumFunctionOnSet(f, S) \in Int
BY SumStep

LEMMA SumAdd ==
  ASSUME NEW S, IsFiniteSet(S), NEW f, \A y \in S : f[y] \in Int,
         NEW x, x \notin S, f[x] \in Int
  PROVE  SumFunctionOnSet(f, S \cup {x}) = SumFunctionOnSet(f, S) + f[x]
<1>1. IsFiniteSet(S \cup {x}) /\ (S \cup {x}) \ {x} = S
  BY FS_AddElement
<1>2. SumFunctionOnSet(f, S \cup {x}) = f[x] + SumFunctionOnSet(f, S)
  BY <1>1, SumRemove
<1> QED
  BY <1>2, SumType

-----------------------------------------------------------------------------
(* Sums of functions that are alike.                                       *)

LEMMA SumEqual ==
  ASSUME NEW S, IsFiniteSet(S), NEW f, NEW g,
         \A x \in S : f[x] \in Int /\ g[x] = f[x]
  PROVE  SumFunctionOnSet(g, S) = SumFunctionOnSet(f, S)
<1> DEFINE P == {s \in SUBSET S : SumFunctionOnSet(g, s) = SumFunctionOnSet(f, s)}
<1>1. {} \in P
  BY SumEmpty
<1>2. ASSUME NEW s \in P, NEW x \in S \ s PROVE s \cup {x} \in P
  <2>1. IsFiniteSet(s) /\ s \cup {x} \in SUBSET S /\ x \notin s /\ f[x] = g[x]
    BY FS_Subset
  <2>2. SumFunctionOnSet(f, s \cup {x}) = SumFunctionOnSet(f, s) + f[x]
    BY <2>1, SumAdd
  <2>3. SumFunctionOnSet(g, s \cup {x}) = SumFunctionOnSet(g, s) + g[x]
    BY <2>1, SumAdd
  <2> QED
    BY <2>1, <2>2, <2>3
<1>3. S \in P
  <2> HIDE DEF P
  <2>1. P \in SUBSET SUBSET S
    BY DEF P
  <2> QED
    BY <1>1, <1>2, <2>1, SubsetInduction
<1> QED
  BY <1>3

\* The sums of two functions that differ in one place differ as they do there.
LEMMA SumChange ==
  ASSUME NEW S, IsFiniteSet(S), NEW f, NEW g, NEW x \in S,
         \A y \in S : f[y] \in Int /\ g[y] \in Int,
         \A y \in S : y # x => g[y] = f[y]
  PROVE  SumFunctionOnSet(g, S) = SumFunctionOnSet(f, S) + (g[x] - f[x])
<1> DEFINE rest == SumFunctionOnSet(f, S \ {x})
<1>1. IsFiniteSet(S \ {x})
  BY FS_Subset
<1>2. rest \in Int
  BY <1>1, SumType
<1>3. SumFunctionOnSet(g, S \ {x}) = rest
  BY <1>1, SumEqual
<1>4. SumFunctionOnSet(f, S) = f[x] + rest
  BY SumRemove
<1>5. SumFunctionOnSet(g, S) = g[x] + rest
  BY <1>3, SumRemove
<1> HIDE DEF rest
<1> QED
  BY <1>2, <1>4, <1>5

LEMMA SumConstant ==
  ASSUME NEW S, IsFiniteSet(S), NEW c \in Int, NEW f, \A x \in S : f[x] = c
  PROVE  SumFunctionOnSet(f, S) = Cardinality(S) * c
<1> DEFINE P == {s \in SUBSET S : SumFunctionOnSet(f, s) = Cardinality(s) * c}
<1>1. {} \in P
  <2>1. Cardinality({}) = 0 /\ 0 * c = 0
    BY FS_EmptySet
  <2> QED
    BY <2>1, SumEmpty
<1>2. ASSUME NEW s \in P, NEW x \in S \ s PROVE s \cup {x} \in P
  <2>1. IsFiniteSet(s) /\ s \cup {x} \in SUBSET S /\ x \notin s /\ f[x] = c
    BY FS_Subset
  <2>2. SumFunctionOnSet(f, s \cup {x}) = SumFunctionOnSet(f, s) + c
    BY <2>1, SumAdd
  <2>3. Cardinality(s) \in Nat /\ Cardinality(s \cup {x}) = Cardinality(s) + 1
    BY <2>1, FS_AddElement, FS_CardinalityType
  <2>4. (Cardinality(s) + 1) * c = Cardinality(s) * c + c
    BY <2>3
  <2> QED
    BY <2>1, <2>2, <2>3, <2>4
<1>3. S \in P
  <2> HIDE DEF P
  <2>1. P \in SUBSET SUBSET S
    BY DEF P
  <2> QED
    BY <1>1, <1>2, <2>1, SubsetInduction
<1> QED
  BY <1>3

\* A sum of numbers >= 0 is one, and no less than any of them.
LEMMA SumNat ==
  ASSUME NEW S, IsFiniteSet(S), NEW f, \A x \in S : f[x] \in Nat
  PROVE  /\ SumFunctionOnSet(f, S) \in Nat
         /\ \A x \in S : f[x] <= SumFunctionOnSet(f, S)
<1>1. ASSUME NEW T \in SUBSET S PROVE SumFunctionOnSet(f, T) \in Nat
  <2> DEFINE P == {s \in SUBSET T : SumFunctionOnSet(f, s) \in Nat}
  <2>1. {} \in P
    BY SumEmpty
  <2>2. ASSUME NEW s \in P, NEW x \in T \ s PROVE s \cup {x} \in P
    <3>1. IsFiniteSet(s) /\ s \cup {x} \in SUBSET T /\ x \notin s /\ \A y \in s : f[y] \in Int
      BY FS_Subset
    <3>2. SumFunctionOnSet(f, s \cup {x}) = SumFunctionOnSet(f, s) + f[x]
      BY <3>1, SumAdd
    <3> QED
      BY <3>1, <3>2
  <2>3. T \in P
    <3> HIDE DEF P
    <3>1. P \in SUBSET SUBSET T /\ IsFiniteSet(T)
      BY FS_Subset DEF P
    <3> QED
      BY <2>1, <2>2, <3>1, SubsetInduction
  <2> QED
    BY <2>3
<1>2. ASSUME NEW x \in S PROVE f[x] <= SumFunctionOnSet(f, S)
  <2>1. SumFunctionOnSet(f, S) = f[x] + SumFunctionOnSet(f, S \ {x})
    BY SumRemove
  <2>2. SumFunctionOnSet(f, S \ {x}) \in Nat
    BY <1>1
  <2> QED
    BY <2>1, <2>2
<1> QED
  BY <1>1, <1>2

-----------------------------------------------------------------------------
(* Sums over the first numbers.                                            *)

LEMMA SumUpTo ==
  ASSUME NEW n \in Nat, NEW f, \A i \in 0 .. n : f[i] \in Int
  PROVE  SumFunctionOnSet(f, 0 .. n) = SumFunctionOnSet(f, 0 .. n - 1) + f[n]
<1> DEFINE T == 0 .. n - 1
<1>1. IsFiniteSet(T)
  BY FS_Interval
<1>2. n \notin T /\ 0 .. n = T \cup {n} /\ (\A i \in T : f[i] \in Int) /\ f[n] \in Int
  OBVIOUS
<1> HIDE DEF T
<1>3. SumFunctionOnSet(f, T \cup {n}) = SumFunctionOnSet(f, T) + f[n]
  BY ONLY <1>1, <1>2, SumAdd
<1> QED
  BY <1>2, <1>3 DEF T

\* It does not matter whether the numbers begin with 0 or with 1.
LEMMA SumShift ==
  ASSUME NEW n \in Nat, NEW f, NEW g,
         \A i \in 0 .. n - 1 : f[i] \in Int /\ g[i + 1] = f[i]
  PROVE  SumFunctionOnSet(g, 1 .. n) = SumFunctionOnSet(f, 0 .. n - 1)
<1> DEFINE I == {k \in Nat : k <= n => SumFunctionOnSet(g, 1 .. k) = SumFunctionOnSet(f, 0 .. k - 1)}
<1>1. 0 \in I
  <2>1. 1 .. 0 = {} /\ 0 .. 0 - 1 = {}
    OBVIOUS
  <2> QED
    BY <2>1, SumEmpty
<1>2. ASSUME NEW k \in I PROVE k + 1 \in I
  <2>1. k \in Nat /\ k + 1 \in Nat
    OBVIOUS
  <2>2. ASSUME k + 1 <= n
        PROVE  SumFunctionOnSet(g, 1 .. k + 1) = SumFunctionOnSet(f, 0 .. (k + 1) - 1)
    <3>1. SumFunctionOnSet(g, 1 .. k) = SumFunctionOnSet(f, 0 .. k - 1)
      BY <2>1, <2>2
    <3>2. SumFunctionOnSet(f, 0 .. k) = SumFunctionOnSet(f, 0 .. k - 1) + f[k]
      <4>1. \A i \in 0 .. k : f[i] \in Int
        BY <2>1, <2>2
      <4> QED
        BY <2>1, <4>1, SumUpTo
    <3>3. SumFunctionOnSet(g, (1 .. k) \cup {k + 1}) = SumFunctionOnSet(g, 1 .. k) + g[k + 1]
      <4>1. IsFiniteSet(1 .. k) /\ k + 1 \notin 1 .. k
        BY <2>1, FS_Interval
      <4>2. ASSUME NEW y \in 1 .. k + 1 PROVE g[y] \in Int
        <5>1. y - 1 \in 0 .. n - 1 /\ (y - 1) + 1 = y
          BY <2>1, <2>2
        <5> QED
          BY <5>1
      <4>3. (\A y \in 1 .. k : g[y] \in Int) /\ g[k + 1] \in Int
        BY <2>1, <4>2
      <4> DEFINE T == 1 .. k
                 x == k + 1
      <4> HIDE DEF T, x
      <4>4. IsFiniteSet(T) /\ x \notin T /\ (\A y \in T : g[y] \in Int) /\ g[x] \in Int
        BY <4>1, <4>3 DEF T, x
      <4>5. SumFunctionOnSet(g, T \cup {x}) = SumFunctionOnSet(g, T) + g[x]
        BY ONLY <4>4, SumAdd
      <4> QED
        BY <4>5 DEF T, x
    <3>4. (1 .. k) \cup {k + 1} = 1 .. k + 1 /\ (k + 1) - 1 = k
      BY <2>1
    <3>5. g[k + 1] = f[k]
      BY <2>1, <2>2
    <3> QED
      BY <3>1, <3>2, <3>3, <3>4, <3>5
  <2> QED
    BY <2>1, <2>2
<1>3. I = Nat
  <2> HIDE DEF I
  <2>1. I \in SUBSET Nat
    BY DEF I
  <2> QED
    BY <1>1, <1>2, <2>1, SetInduction
<1> QED
  BY <1>3

-----------------------------------------------------------------------------
(* Remainders.                                                             *)

LEMMA Division ==
  ASSUME NEW a \in Int, NEW m \in Nat \ {0}
  PROVE  /\ a \div m \in Int /\ a % m \in 0 .. m - 1
         /\ a = m * (a \div m) + (a % m)
OBVIOUS

\* The remainder is the only number below m from which a differs by whole ms.
LEMMA Remainder ==
  ASSUME NEW a \in Int, NEW m \in Nat \ {0}, NEW q \in Int, NEW r \in 0 .. m - 1,
         a = m * q + r
  PROVE  a % m = r
<1> DEFINE p == a \div m
           s == a % m
<1>1. p \in Int /\ s \in 0 .. m - 1 /\ m * p + s = m * q + r
  BY Division
<1> HIDE DEF p, s
<1>2. m * (p - q) = r - s
  BY <1>1
<1>3. ~(p - q >= 1)
  <2>1. ASSUME p - q >= 1 PROVE FALSE
    <3>1. m * (p - q - 1) >= 0
      BY <1>1, <2>1
    <3>2. m * (p - q - 1) = m * (p - q) - m
      BY <1>1
    <3> QED
      BY <1>1, <1>2, <3>1, <3>2
  <2> QED
    BY <2>1
<1>4. ~(q - p >= 1)
  <2>1. ASSUME q - p >= 1 PROVE FALSE
    <3>1. m * (q - p - 1) >= 0
      BY <1>1, <2>1
    <3>2. m * (q - p - 1) = - (m * (p - q)) - m
      BY <1>1
    <3> QED
      BY <1>1, <1>2, <3>1, <3>2
  <2> QED
    BY <2>1
<1>5. p = q
  BY <1>1, <1>3, <1>4
<1> QED
  BY <1>1, <1>5 DEF s

\* It does not matter whether the terms of a sum are reduced before the sum is.
LEMMA ReduceFirst ==
  ASSUME NEW a \in Int, NEW b \in Int, NEW m \in Nat \ {0}
  PROVE  ((a % m) + b) % m = (a + b) % m
<1> DEFINE p == a \div m
           r == a % m
           q == (r + b) \div m
           s == (r + b) % m
<1>1. p \in Int /\ r \in 0 .. m - 1 /\ a = m * p + r
  BY Division
<1>2. q \in Int /\ s \in 0 .. m - 1 /\ r + b = m * q + s
  BY <1>1, Division
<1>3. (a + b) % m = s
  <2> HIDE DEF p, r, q, s
  <2> DEFINE c == a + b
             t == p + q
  <2>1. c \in Int /\ t \in Int /\ c = m * t + s
    BY <1>1, <1>2
  <2>2. c % m = s
    <3> HIDE DEF c, t
    <3> QED
      BY ONLY <1>2, <2>1, Remainder, m \in Nat \ {0}
  <2> QED
    BY <2>2
<1> QED
  BY <1>3

LEMMA SmallRemainder ==
  ASSUME NEW m \in Nat \ {0}, NEW r \in 0 .. m - 1
  PROVE  r % m = r
<1>1. r = m * 0 + r
  OBVIOUS
<1> QED
  BY <1>1, Remainder

\* A function defined by recursion on its argument as the sum of the values
\* of another one below it.
Partial(f, n) ==
  CHOOSE g : g = [k \in 0 .. n |-> IF k = 0 THEN 0 ELSE g[k - 1] + f[k - 1]]

LEMMA PartialSums ==
  ASSUME NEW n \in Nat, NEW f, \A i \in 0 .. n - 1 : f[i] \in Int
  PROVE  /\ \A k \in 0 .. n : Partial(f, n)[k] \in Int
         /\ Partial(f, n)[0] = 0
         /\ \A k \in 0 .. n - 1 : Partial(f, n)[k + 1] = Partial(f, n)[k] + f[k]
<1> DEFINE S == Partial(f, n)
           sum == [k \in 0 .. n |-> SumFunctionOnSet(f, 0 .. k - 1)]
           Rec(g) == [k \in 0 .. n |-> IF k = 0 THEN 0 ELSE g[k - 1] + f[k - 1]]
<1>1. ASSUME NEW k \in 0 .. n PROVE sum[k] = IF k = 0 THEN 0 ELSE sum[k - 1] + f[k - 1]
  <2>1. CASE k = 0
    <3>1. 0 .. 0 - 1 = {}
      OBVIOUS
    <3> QED
      BY <2>1, <3>1, SumEmpty
  <2>2. CASE k # 0
    <3> DEFINE j == k - 1
    <3>1. j \in Nat /\ j \in 0 .. n /\ \A i \in 0 .. j : f[i] \in Int
      BY <2>2
    <3>2. SumFunctionOnSet(f, 0 .. j) = SumFunctionOnSet(f, 0 .. j - 1) + f[j]
      <4> HIDE DEF j
      <4> QED
        BY <3>1, SumUpTo
    <3> QED
      BY <2>2, <3>1, <3>2
  <2> QED
    BY <2>1, <2>2
<1>2. sum = Rec(sum)
  BY <1>1
<1>3. S = Rec(S)
  <2> HIDE DEF sum
  <2> QED
    BY <1>2 DEF Partial
<1> HIDE DEF S
<1>4. S[0] = 0 /\ \A k \in 0 .. n - 1 : S[k + 1] = S[k] + f[k]
  <2>1. ASSUME NEW k \in 0 .. n PROVE S[k] = IF k = 0 THEN 0 ELSE S[k - 1] + f[k - 1]
    BY <1>3
  <2>2. 0 \in 0 .. n
    OBVIOUS
  <2>3. ASSUME NEW k \in 0 .. n - 1 PROVE S[k + 1] = S[k] + f[k]
    <3>1. k + 1 \in 0 .. n /\ k + 1 # 0 /\ (k + 1) - 1 = k
      OBVIOUS
    <3> QED
      BY <2>1, <3>1
  <2> QED
    BY <2>1, <2>2, <2>3
<1>5. \A k \in 0 .. n : S[k] \in Int
  <2> DEFINE I == {k \in Nat : k <= n => S[k] \in Int}
  <2>1. 0 \in I
    BY <1>4
  <2>2. ASSUME NEW k \in I PROVE k + 1 \in I
    <3>1. k + 1 <= n => k \in 0 .. n - 1 /\ k <= n
      OBVIOUS
    <3> QED
      BY <1>4, <3>1
  <2>3. I = Nat
    <3> HIDE DEF I
    <3>1. I \subseteq Nat
      BY DEF I
    <3> QED
      BY <2>1, <2>2, <3>1, SetInduction
  <2> QED
    BY <2>3
<1> QED
  BY <1>4, <1>5 DEF S

\* The union of finitely many finite sets that are disjoint has as many
\* elements as they have together.
UnionOf(F, S) == UNION {F[x] : x \in S}

LEMMA SumDisjoint ==
  ASSUME NEW S, IsFiniteSet(S), NEW F, \A x \in S : IsFiniteSet(F[x]),
         \A x \in S : \A y \in S : x # y => F[x] \cap F[y] = {},
         NEW f, \A x \in S : f[x] = Cardinality(F[x])
  PROVE  /\ IsFiniteSet(UnionOf(F, S))
         /\ SumFunctionOnSet(f, S) = Cardinality(UnionOf(F, S))
<1> DEFINE U(s) == UNION {F[x] : x \in s}
           P == {s \in SUBSET S : IsFiniteSet(U(s)) /\ SumFunctionOnSet(f, s) = Cardinality(U(s))}
<1>1. {} \in P
  <2>1. U({}) = {}
    OBVIOUS
  <2>2. IsFiniteSet({}) /\ Cardinality({}) = 0
    BY FS_EmptySet
  <2> QED
    BY <2>1, <2>2, SumEmpty
<1>2. \A s \in P : \A x \in S \ s : s \cup {x} \in P
  <2> SUFFICES ASSUME NEW s \in P, NEW x \in S \ s PROVE s \cup {x} \in P
    OBVIOUS
  <2>1. s \in SUBSET S /\ IsFiniteSet(U(s)) /\ SumFunctionOnSet(f, s) = Cardinality(U(s))
    OBVIOUS
  <2>2. U(s \cup {x}) = U(s) \cup F[x]
    OBVIOUS
  <2>3. U(s) \cap F[x] = {}
    OBVIOUS
  <2> DEFINE A == U(s)
             B == F[x]
  <2>4. IsFiniteSet(A) /\ IsFiniteSet(B) /\ A \cap B = {}
    BY <2>1, <2>3
  <2>5. IsFiniteSet(A \cup B) /\ Cardinality(A \cup B) = Cardinality(A) + Cardinality(B)
    <3> HIDE DEF A, B
    <3>1. IsFiniteSet(A \cup B)
          /\ Cardinality(A \cup B) = Cardinality(A) + Cardinality(B) - Cardinality(A \cap B)
      BY <2>4, FS_Union
    <3>2. Cardinality(A \cap B) = 0 /\ Cardinality(A) \in Nat /\ Cardinality(B) \in Nat
      BY <2>4, FS_EmptySet, FS_CardinalityType
    <3> QED
      BY <3>1, <3>2
  <2>6. SumFunctionOnSet(f, s \cup {x}) = SumFunctionOnSet(f, s) + f[x]
    <3>1. \A y \in S : f[y] \in Int
      <4>1. ASSUME NEW y \in S PROVE f[y] \in Int
        <5>1. IsFiniteSet(F[y]) /\ f[y] = Cardinality(F[y])
          OBVIOUS
        <5> QED
          BY <5>1, FS_CardinalityType
      <4> QED
        BY <4>1
    <3>2. IsFiniteSet(s) /\ (\A y \in s : f[y] \in Int) /\ x \notin s /\ f[x] \in Int
      BY <2>1, <3>1, FS_Subset
    <3> HIDE DEF P
    <3> QED
      BY <3>2, SumAdd
  <2>7. s \cup {x} \in SUBSET S
    BY <2>1
  <2> QED
    BY <2>1, <2>2, <2>5, <2>6, <2>7
<1>3. S \in P
  <2> HIDE DEF P
  <2>1. P \in SUBSET SUBSET S
    BY DEF P
  <2> QED
    BY <1>1, <1>2, <2>1, SubsetInduction
<1> QED
  BY <1>3 DEF UnionOf
=============================================================================
