---------------------------- MODULE GTestParams ----------------------------
(***************************************************************************)
(* The parameters of value-parameterized tests: the generators of Range,   *)
(* ValuesIn, Combine and ConvertGenerator, and their iterators, which are  *)
(* copied, compared, advanced and read by the registration of the tests    *)
(* and by user code.                                                       *)
(*                                                                         *)
(* A generator is a tree, and so is its iterator.  A value is a number, or *)
(* the sequence of the values of a combination.                            *)
(***************************************************************************)
EXTENDS Integers, Sequences, SequencesExt

CONSTANTS
  Generators,
  Iter          \* the ParamIterator objects of the program

VARIABLES
  gen,          \* the generator
  it,           \* the iterators on it
  advances      \* history: how often each has been advanced from begin()

paramVars == <<gen, it, advances>>

Range_(begin, end, step) == [kind |-> "range", begin |-> begin, end |-> end, step |-> step]
ValuesIn(container)      == [kind |-> "values", container |-> container]
Combine(generators)      == [kind |-> "product", of |-> generators]
Convert(generator)       == [kind |-> "convert", of |-> generator]

\* The conversion of a value, any that tells the values apart.
Cast(value) == <<"cast", value>>

\* A value of a combination or a conversion that was never computed.  The copy of
\* an element that ValuesIn keeps is a sequence, which is empty without one.
NoValue == <<"none">>

RECURSIVE CalculateEndIndex(_, _, _)
CalculateEndIndex(i, end, step) ==
  IF i < end THEN 1 + CalculateEndIndex(i + step, end, step) ELSE 0

-----------------------------------------------------------------------------
(* Begin, End, Current, Equals and Advance of each kind.                   *)

\* ParamIterator::operator*; ValuesIn reads its element when it has no copy yet.
Current(g, i) ==
  IF g.kind = "values" THEN IF i.value = <<>> THEN g.container[i.position] ELSE i.value[1]
                       ELSE i.value

RECURSIVE Equals(_, _, _)
Equals(g, i, j) ==
  LET atEnd(k) == \E c \in DOMAIN g.of : Equals(g.of[c], k.current[c], k.end[c])
  IN  CASE g.kind = "range"   -> i.index = j.index
        [] g.kind = "values"  -> i.position = j.position
        [] g.kind = "product" -> \/ atEnd(i) /\ atEnd(j)
                                 \/ \A c \in DOMAIN g.of : Equals(g.of[c], i.current[c], j.current[c])
        [] g.kind = "convert" -> Equals(g.of, i.it, j.it)

\* CartesianProductGenerator: the value is computed anew unless at the end.
AtEnd(g, i) == \E c \in DOMAIN g.of : Equals(g.of[c], i.current[c], i.end[c])
ComputeCurrentValue(g, i) ==
  IF AtEnd(g, i) THEN i
  ELSE [i EXCEPT !.value = [c \in DOMAIN g.of |-> Current(g.of[c], i.current[c])]]

\* ParamGeneratorConverter: likewise.
ConvertCurrentValue(g, i) ==
  IF Equals(g.of, i.it, i.end) THEN i ELSE [i EXCEPT !.value = Cast(Current(g.of, i.it))]

RECURSIVE Begin(_), End(_)
Product(g, current) ==
  ComputeCurrentValue(g,
    [begin |-> [c \in DOMAIN g.of |-> Begin(g.of[c])], end |-> [c \in DOMAIN g.of |-> End(g.of[c])],
     current |-> current, value |-> NoValue])
Begin(g) ==
  CASE g.kind = "range"   -> [value |-> g.begin, index |-> 0]
    [] g.kind = "values"  -> [position |-> 1, value |-> <<>>]
    [] g.kind = "product" -> Product(g, [c \in DOMAIN g.of |-> Begin(g.of[c])])
    [] g.kind = "convert" ->
         ConvertCurrentValue(g, [it |-> Begin(g.of), end |-> End(g.of), value |-> NoValue])
End(g) ==
  CASE g.kind = "range"   -> [value |-> g.end, index |-> CalculateEndIndex(g.begin, g.end, g.step)]
    [] g.kind = "values"  -> [position |-> Len(g.container) + 1, value |-> <<>>]
    [] g.kind = "product" -> Product(g, [c \in DOMAIN g.of |-> End(g.of[c])])
    [] g.kind = "convert" -> [it |-> End(g.of), end |-> End(g.of), value |-> NoValue]

\* Clone: the copy reads its own element again.
Clone(g, i) == IF g.kind = "values" THEN [i EXCEPT !.value = <<>>] ELSE i

\* The value is kept from now on.
Read(g, i) == IF g.kind = "values" THEN [i EXCEPT !.value = <<Current(g, i)>>] ELSE i

\* Mutant: an element that was read is kept when the iterator advances.
Keep(i) == i

\* value_.reset()
Forget(i) == [i EXCEPT !.value = <<>>]

RECURSIVE Advanced(_, _), AdvanceIfEnd(_, _, _)
Advanced(g, i) ==
  CASE g.kind = "range"   -> [value |-> i.value + g.step, index |-> i.index + 1]
    [] g.kind = "values"  -> Forget([i EXCEPT !.position = @ + 1])
    [] g.kind = "product" ->
         LET last == Len(g.of)
         IN  ComputeCurrentValue(g,
               AdvanceIfEnd(g, [i EXCEPT !.current[last] = Advanced(g.of[last], @)], last))
    [] g.kind = "convert" -> ConvertCurrentValue(g, [i EXCEPT !.it = Advanced(g.of, @)])

\* A component at its end begins again, and the one before it advances.
AdvanceIfEnd(g, i, c) ==
  IF ~Equals(g.of[c], i.current[c], i.end[c]) \/ c = 1 THEN i
  ELSE AdvanceIfEnd(g,
         [i EXCEPT !.current = [@ EXCEPT ![c] = i.begin[c], ![c - 1] = Advanced(g.of[c - 1], @)]],
         c - 1)

-----------------------------------------------------------------------------
(* ParamIterator                                                           *)

MayAdvance(x) == ~Equals(gen, it[x], End(gen))

Assign(x, y) ==
  /\ it' = [it EXCEPT ![x] = IF x # y THEN Clone(gen, it[y]) ELSE @]
  /\ advances' = [advances EXCEPT ![x] = advances[y]]
  /\ UNCHANGED gen

Dereference(x) ==
  /\ MayAdvance(x)
  /\ it' = [it EXCEPT ![x] = Read(gen, @)]
  /\ UNCHANGED <<gen, advances>>

Increment(x) ==
  /\ MayAdvance(x)
  /\ it' = [it EXCEPT ![x] = Advanced(gen, @)]
  /\ advances' = [advances EXCEPT ![x] = @ + 1]
  /\ UNCHANGED gen

\* y = x++
PostIncrement(x, y) ==
  /\ x # y /\ MayAdvance(x)
  /\ it' = [it EXCEPT ![x] = Advanced(gen, @), ![y] = Clone(gen, it[x])]
  /\ advances' = [advances EXCEPT ![x] = @ + 1, ![y] = advances[x]]
  /\ UNCHANGED gen

ParamInit ==
  /\ gen \in Generators
  /\ it = [x \in Iter |-> Begin(gen)]
  /\ advances = [x \in Iter |-> 0]

ParamNext ==
  \E x, y \in Iter : Assign(x, y) \/ Dereference(x) \/ Increment(x) \/ PostIncrement(x, y)

-----------------------------------------------------------------------------
(* Properties                                                              *)

\* What a generator stands for: the numbers of a range, the elements in order, and
\* the combinations, the last component varying fastest.
RECURSIVE Elements(_)
Elements(g) ==
  CASE g.kind = "range" ->
         LET in == {n \in g.begin .. g.end - 1 : (n - g.begin) % g.step = 0}
         IN  SetToSortSeq(in, <)
    [] g.kind = "values"  -> g.container
    [] g.kind = "convert" -> [k \in DOMAIN Elements(g.of) |-> Cast(Elements(g.of)[k])]
    [] g.kind = "product" ->
         FoldLeft(LAMBDA tuples, component :
                    FlattenSeq([t \in DOMAIN tuples |->
                      [k \in DOMAIN component |-> Append(tuples[t], component[k])]]),
                  << <<>> >>, [c \in DOMAIN g.of |-> Elements(g.of[c])])

\* However iterators are copied and advanced, one that was advanced n times gives
\* the element n + 1, is at the end exactly after the last, and equals exactly the
\* iterators at the same place: no tests are instantiated twice, or never, or with
\* the parameter of another.
IteratorsRight ==
  LET elements == Elements(gen)
  IN  \A x \in Iter :
        /\ advances[x] \in 0 .. Len(elements)
        /\ MayAdvance(x) <=> advances[x] < Len(elements)
        /\ MayAdvance(x) => Current(gen, it[x]) = elements[advances[x] + 1]
        /\ \A y \in Iter : Equals(gen, it[x], it[y]) <=> advances[x] = advances[y]
=============================================================================
