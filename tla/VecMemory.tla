------------------------------ MODULE VecMemory ------------------------------
(***************************************************************************)
(* The memory on which VecCore's operations act, and what one lane of each *)
(* operation reads and writes.                                             *)
(*                                                                         *)
(* Begin(v) is a reinterpret_cast of the register's own storage, so a      *)
(* register is VS consecutive cells of the same memory that the caller's   *)
(* arrays live in: a pointer handed to Load, Store, Gather or Scatter may  *)
(* point into a register.  A cell's value stands for a scalar, for an      *)
(* index (the offset that Gather and Scatter add to their pointer) and for *)
(* a mask element (true iff it is not 0).                                  *)
(***************************************************************************)
EXTENDS Integers

CONSTANTS
  VS,        \* VectorSize<T>(): the number of lanes of a register
  MemSize,   \* number of cells
  MaxVal,    \* cells hold 0 .. MaxVal
  Register   \* the first cell of each register

Addr == 0 .. MemSize - 1
Val  == 0 .. MaxVal
Lane == 0 .. VS - 1

\* Two register objects are the same object or share no cell.
ASSUME MemoryAssumption ==
  /\ VS \in Nat \ {0}
  /\ MemSize \in Nat
  /\ MaxVal \in Nat \ {0}
  /\ Register \subseteq Addr
  /\ \A b \in Register : b + VS <= MemSize
  /\ \A a, b \in Register : a = b \/ a + VS <= b \/ b + VS <= a

Block == {p \in Addr : p + VS <= MemSize}     \* pointers to VS scalars
Table == {p \in Addr : p + MaxVal < MemSize}  \* pointers every index may offset

-----------------------------------------------------------------------------
(***************************************************************************)
(* Calls.  dst and src are what is written and read; sel is the index or   *)
(* mask register; alt is Blend's second source.  An argument the operation *)
(* does not have is 0.                                                     *)
(*   Load(v, p), LoadMask   dst = v    src = p                             *)
(*   v = Load<T>(p)         dst = v    src = p      ("LoadValue")          *)
(*   Store(v, p)            dst = p    src = v                             *)
(*   v = Gather(p, idx)     dst = v    src = p   sel = idx                 *)
(*   Scatter(v, p, idx)     dst = p    src = v   sel = idx                 *)
(*   MaskedAssign(d, m, s)  dst = d    src = s   sel = m                   *)
(*   v = Blend(m, s1, s2)   dst = v    src = s1  sel = m   alt = s2        *)
(***************************************************************************)
Call(op, dst, src, sel, alt) ==
  [op : {op}, dst : dst, src : src, sel : sel, alt : alt]

Calls ==
  UNION { Call("Load",         Register, Block,    {0},      {0}),
          Call("LoadMask",     Register, Block,    {0},      {0}),
          Call("LoadValue",    Register, Block,    {0},      {0}),
          Call("Store",        Block,    Register, {0},      {0}),
          Call("Gather",       Register, Table,    Register, {0}),
          Call("Scatter",      Table,    Register, Register, {0}),
          Call("MaskedAssign", Register, Register, Register, {0}),
          Call("Blend",        Register, Register, Register, Register) }

ValueOps  == {"LoadValue", "Gather", "Blend"}     \* return a fresh register
SelectOps == {"Gather", "Scatter", "MaskedAssign", "Blend"}   \* read sel

-----------------------------------------------------------------------------
(***************************************************************************)
(* What lane i of call c does in memory m.                                 *)
(***************************************************************************)
\* The value a mask element takes from the boolean x: v[i] = !!ptr[i].
Truth(x) == IF x # 0 THEN 1 ELSE 0

Source(c, m, i) ==
  CASE c.op = "Gather"                     -> c.src + m[c.sel + i]
    [] c.op = "Blend" /\ m[c.sel + i] = 0  -> c.alt + i
    [] OTHER                               -> c.src + i

Result(c, m, i) ==
  IF c.op = "LoadMask" THEN Truth(m[Source(c, m, i)]) ELSE m[Source(c, m, i)]

\* Mutant: Scatter counts the index from 1.
TargetFromOne(c, m, i) ==
  IF c.op = "Scatter" THEN c.dst + m[c.sel + i] + 1 ELSE c.dst + i

Target(c, m, i) ==
  IF c.op = "Scatter" THEN c.dst + m[c.sel + i] ELSE c.dst + i

Writes(c, m, i) == c.op = "MaskedAssign" => m[c.sel + i] # 0

Reads(c, m, i) ==
  {Source(c, m, i)} \cup (IF c.op \in SelectOps THEN {c.sel + i} ELSE {})

\* The cells that c may write, whatever its arguments alias.
Footprint(c) ==
  IF c.op = "Scatter" THEN c.dst .. c.dst + MaxVal ELSE c.dst .. c.dst + VS - 1

\* r is memory m after the first n lanes of c, all of them reading m: a cell
\* that several lanes write keeps what the last of them wrote.
AfterLanes(c, m, n, r) ==
  \A x \in Addr :
    \/ \E i \in 0 .. n - 1 :
         /\ Writes(c, m, i) /\ Target(c, m, i) = x
         /\ r[x] = Result(c, m, i)
         /\ \A j \in i + 1 .. n - 1 : Writes(c, m, j) => Target(c, m, j) # x
    \/ /\ \A i \in 0 .. n - 1 : Writes(c, m, i) => Target(c, m, i) # x
       /\ r[x] = m[x]

\* No lane writes what a later lane reads.  An operation that returns a fresh
\* register writes no cell before its last lane has been read.
LanesIndependent(c, m) ==
  c.op \in ValueOps \/
  \A j, k \in Lane :
    j < k /\ Writes(c, m, j) => Target(c, m, j) \notin Reads(c, m, k)
=============================================================================
