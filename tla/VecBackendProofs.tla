-------------------------- MODULE VecBackendProofs --------------------------
(***************************************************************************)
(* Proofs about VecBackend, for every number of lanes, every memory, every *)
(* placement of the registers and every backend; and about Reduce, for     *)
(* every number of lanes and all scalars.                                  *)
(***************************************************************************)
EXTENDS Registers, Sums, TLAPS

USE MemoryAssumption

-----------------------------------------------------------------------------
(* Lemmas about the operators of VecMemory.                                *)

\* A call is one of the eight kinds.
LEMMA CallKinds ==
  ASSUME NEW c \in Calls
  PROVE  \/ c.op \in {"Load", "LoadMask", "LoadValue"} /\ c.dst \in Register
            /\ c.src \in Block /\ c.sel = 0 /\ c.alt = 0
         \/ c.op = "Store" /\ c.dst \in Block /\ c.src \in Register
            /\ c.sel = 0 /\ c.alt = 0
         \/ c.op = "Gather" /\ c.dst \in Register /\ c.src \in Table
            /\ c.sel \in Register /\ c.alt = 0
         \/ c.op = "Scatter" /\ c.dst \in Table /\ c.src \in Register
            /\ c.sel \in Register /\ c.alt = 0
         \/ c.op = "MaskedAssign" /\ c.dst \in Register /\ c.src \in Register
            /\ c.sel \in Register /\ c.alt = 0
         \/ c.op = "Blend" /\ c.dst \in Register /\ c.src \in Register
            /\ c.sel \in Register /\ c.alt \in Register
BY DEF Calls, Call

\* Every cell that a lane reads is a cell of the memory, every cell it writes
\* one of the destination's, and what it writes a cell's value.
LEMMA LaneTypes ==
  ASSUME NEW c \in Calls, NEW m \in [Addr -> Val], NEW i \in Lane
  PROVE  /\ Source(c, m, i) \in Addr
         /\ c.op \in SelectOps => c.sel + i \in Addr /\ m[c.sel + i] \in Val
         /\ Result(c, m, i) \in Val
         /\ Target(c, m, i) \in Footprint(c)
         /\ Target(c, m, i) \in Addr
         /\ Footprint(c) \subseteq Addr
         /\ c.op # "Scatter" => Target(c, m, i) = c.dst + i
<1>a. /\ c.op \in SelectOps => c.sel \in Register
      /\ c.op = "Blend" => c.src \in Register /\ c.alt \in Register
      /\ c.op = "Gather" => c.src \in Table
      /\ c.op = "Scatter" => c.dst \in Table
      /\ c.op # "Gather" => c.src \in Register \/ c.src \in Block
      /\ c.op # "Scatter" => c.dst \in Register \/ c.dst \in Block
  BY CallKinds DEF SelectOps
<1>b. \A b : b \in Register \/ b \in Block
               => b \in Addr /\ b + VS <= MemSize /\ b + i \in Addr
                  /\ b .. b + VS - 1 \subseteq Addr /\ b + i \in b .. b + VS - 1
  <2> SUFFICES ASSUME NEW b, b \in Register \/ b \in Block
               PROVE  /\ b \in Addr /\ b + VS <= MemSize /\ b + i \in Addr
                      /\ b .. b + VS - 1 \subseteq Addr /\ b + i \in b .. b + VS - 1
    OBVIOUS
  <2>1. b \in Addr /\ b + VS <= MemSize
    BY DEF Block
  <2> QED
    BY <2>1 DEF Addr, Lane
<1>c. \A b, k : b \in Table /\ k \in Val
               => b + k \in Addr /\ b .. b + MaxVal \subseteq Addr
                  /\ b + k \in b .. b + MaxVal
  BY DEF Addr, Val, Table
<1>d. 0 \in Val /\ 1 \in Val
  BY DEF Val
<1>1. c.op \in SelectOps => c.sel + i \in Addr /\ m[c.sel + i] \in Val
  BY <1>a, <1>b
<1>2. Source(c, m, i) \in Addr
  <2>1. CASE c.op = "Gather"
    BY <2>1, <1>1, <1>a, <1>c DEF Source, SelectOps
  <2>2. CASE c.op = "Blend" /\ m[c.sel + i] = 0
    BY <2>2, <1>a, <1>b DEF Source
  <2>3. CASE c.op # "Gather" /\ ~(c.op = "Blend" /\ m[c.sel + i] = 0)
    BY <2>3, <1>a, <1>b DEF Source
  <2> QED
    BY <2>1, <2>2, <2>3
<1>3. m[Source(c, m, i)] \in Val
  BY <1>2
<1>4. Result(c, m, i) \in Val
  BY <1>3, <1>d DEF Result, Truth
<1>5. Footprint(c) \subseteq Addr
  BY <1>a, <1>b, <1>c, <1>d DEF Footprint
<1>6. Target(c, m, i) \in Footprint(c)
  <2>1. CASE c.op = "Scatter"
    BY <2>1, <1>1, <1>a, <1>c DEF Target, Footprint, SelectOps
  <2>2. CASE c.op # "Scatter"
    BY <2>2, <1>a, <1>b DEF Target, Footprint
  <2> QED
    BY <2>1, <2>2
<1>7. c.op # "Scatter" => Target(c, m, i) = c.dst + i
  BY DEF Target
<1> QED
  BY <1>1, <1>2, <1>4, <1>5, <1>6, <1>7

\* Two memories that agree on what a lane reads in one of them make the lane
\* do the same.
LEMMA SameReads ==
  ASSUME NEW c \in Calls, NEW m \in [Addr -> Val], NEW r \in [Addr -> Val],
         NEW i \in Lane, \A x \in Reads(c, m, i) : r[x] = m[x]
  PROVE  /\ Writes(c, r, i) = Writes(c, m, i)
         /\ Target(c, r, i) = Target(c, m, i)
         /\ Result(c, r, i) = Result(c, m, i)
<1>1. c.op \in SelectOps => r[c.sel + i] = m[c.sel + i]
  BY DEF Reads
<1>2. r[Source(c, m, i)] = m[Source(c, m, i)]
  BY DEF Reads
<1>3. Source(c, r, i) = Source(c, m, i)
  BY <1>1 DEF Source, SelectOps
<1> QED
  BY <1>1, <1>2, <1>3 DEF Writes, Target, Result, SelectOps

\* If no lane writes what a later one reads, lane n finds its operands as
\* they were at the call.
LEMMA ReadsUntouched ==
  ASSUME NEW c \in Calls, NEW m \in [Addr -> Val], NEW r \in [Addr -> Val],
         NEW n \in Lane, c.op \notin ValueOps, LanesIndependent(c, m),
         AfterLanes(c, m, n, r)
  PROVE  \A x \in Reads(c, m, n) : r[x] = m[x]
<1> SUFFICES ASSUME NEW x \in Reads(c, m, n) PROVE r[x] = m[x]
  OBVIOUS
<1>1. x \in Addr
  BY LaneTypes DEF Reads
<1>2. \A i \in 0 .. n - 1 : Writes(c, m, i) => Target(c, m, i) # x
  <2> SUFFICES ASSUME NEW i \in 0 .. n - 1, Writes(c, m, i)
               PROVE  Target(c, m, i) # x
    OBVIOUS
  <2>1. i \in Lane /\ i < n
    BY DEF Lane
  <2> QED
    BY <2>1 DEF LanesIndependent
<1> QED
  BY <1>1, <1>2 DEF AfterLanes

\* One more lane, executed on the operands as they were at the call.
LEMMA OneMoreLane ==
  ASSUME NEW c \in Calls, NEW m \in [Addr -> Val], NEW r \in [Addr -> Val],
         NEW n \in Lane, AfterLanes(c, m, n, r),
         NEW s, s = IF Writes(c, m, n)
                      THEN [r EXCEPT ![Target(c, m, n)] = Result(c, m, n)]
                      ELSE r
  PROVE  AfterLanes(c, m, n + 1, s)
<1> SUFFICES ASSUME NEW x \in Addr
             PROVE  \/ \E i \in 0 .. n :
                         /\ Writes(c, m, i) /\ Target(c, m, i) = x
                         /\ s[x] = Result(c, m, i)
                         /\ \A j \in i + 1 .. n :
                              Writes(c, m, j) => Target(c, m, j) # x
                    \/ /\ \A i \in 0 .. n : Writes(c, m, i) => Target(c, m, i) # x
                       /\ s[x] = m[x]
  BY DEF AfterLanes, Lane
<1>0. n \in Nat /\ n \in 0 .. n
  BY DEF Lane
<1>1. CASE Writes(c, m, n) /\ Target(c, m, n) = x
  <2>1. s[x] = Result(c, m, n)
    BY <1>1
  <2>2. \A j \in n + 1 .. n : Writes(c, m, j) => Target(c, m, j) # x
    BY <1>0
  <2> QED
    BY <1>0, <1>1, <2>1, <2>2
<1>2. CASE ~(Writes(c, m, n) /\ Target(c, m, n) = x)
  <2>1. s[x] = r[x]
    BY <1>2, LaneTypes
  <2>2. \A i \in 0 .. n : i \in 0 .. n - 1 \/ i = n
    BY <1>0
  <2>3. CASE \E i \in 0 .. n - 1 :
               /\ Writes(c, m, i) /\ Target(c, m, i) = x
               /\ r[x] = Result(c, m, i)
               /\ \A j \in i + 1 .. n - 1 : Writes(c, m, j) => Target(c, m, j) # x
    <3> PICK i \in 0 .. n - 1 :
               /\ Writes(c, m, i) /\ Target(c, m, i) = x
               /\ r[x] = Result(c, m, i)
               /\ \A j \in i + 1 .. n - 1 : Writes(c, m, j) => Target(c, m, j) # x
      BY <2>3
    <3>1. \A j \in i + 1 .. n : j \in i + 1 .. n - 1 \/ j = n
      BY <1>0
    <3>2. \A j \in i + 1 .. n : Writes(c, m, j) => Target(c, m, j) # x
      BY <1>2, <3>1
    <3>3. i \in 0 .. n
      BY <1>0
    <3> QED
      BY <2>1, <3>2, <3>3
  <2>4. CASE /\ \A i \in 0 .. n - 1 : Writes(c, m, i) => Target(c, m, i) # x
             /\ r[x] = m[x]
    BY <1>2, <2>1, <2>2, <2>4
  <2> QED
    BY <2>3, <2>4 DEF AfterLanes
<1> QED
  BY <1>1, <1>2

-----------------------------------------------------------------------------
(* Which calls have independent lanes.                                     *)

\* Load<T>(v, p) and Store(v, p) are vector operations unless the destination
\* begins inside the source, behind its first cell: the loops run upwards.
THEOREM ForwardOverlap ==
  ASSUME NEW c \in Calls, c.op \in {"Load", "LoadMask", "Store"}, NEW m
  PROVE  LanesIndependent(c, m) <=> ~(c.dst - c.src \in 1 .. VS - 1)
<1>1. c.dst \in Nat /\ c.src \in Nat
  <2>1. c.dst \in Addr /\ c.src \in Addr
    BY CallKinds DEF Block
  <2> QED
    BY <2>1 DEF Addr
<1>2. \A i : Target(c, m, i) = c.dst + i /\ Reads(c, m, i) = {c.src + i}
            /\ Writes(c, m, i)
  BY DEF Target, Reads, Writes, Source, SelectOps
<1>3. LanesIndependent(c, m) <=>
        \A j, k \in Lane : j < k => c.dst + j # c.src + k
  BY <1>2 DEF LanesIndependent, ValueOps
<1>4. ASSUME c.dst - c.src \in 1 .. VS - 1
      PROVE  \E j, k \in Lane : j < k /\ c.dst + j = c.src + k
  <2>1. /\ 0 \in Lane /\ c.dst - c.src \in Lane /\ 0 < c.dst - c.src
        /\ c.dst + 0 = c.src + (c.dst - c.src)
    BY <1>1, <1>4 DEF Lane
  <2> QED
    BY <2>1
<1>5. ASSUME NEW j \in Lane, NEW k \in Lane, j < k, c.dst + j = c.src + k
      PROVE  c.dst - c.src \in 1 .. VS - 1
  BY <1>1, <1>5 DEF Lane
<1> QED
  BY <1>3, <1>4, <1>5

\* Registers being the same object or disjoint, MaskedAssign is a vector
\* operation even when the destination is also the source or the mask.
THEOREM MaskedAssignIndependent ==
  ASSUME NEW c \in Calls, c.op = "MaskedAssign", NEW m
  PROVE  LanesIndependent(c, m)
<1> SUFFICES ASSUME NEW j \in Lane, NEW k \in Lane, j < k
             PROVE  Target(c, m, j) \notin Reads(c, m, k)
  BY DEF LanesIndependent
<1>1. c.dst \in Register /\ c.src \in Register /\ c.sel \in Register
  BY CallKinds
<1>2. Target(c, m, j) = c.dst + j /\ Reads(c, m, k) = {c.src + k, c.sel + k}
  BY DEF Target, Reads, Source, SelectOps
<1>3. ASSUME NEW b \in Register PROVE c.dst + j # b + k
  <2>1. b \in Nat /\ c.dst \in Nat
    <3>1. b \in Addr /\ c.dst \in Addr
      BY <1>1
    <3> QED
      BY <3>1 DEF Addr
  <2>2. c.dst = b \/ c.dst + VS <= b \/ b + VS <= c.dst
    BY <1>1
  <2> QED
    BY <2>1, <2>2 DEF Lane
<1> QED
  BY <1>1, <1>2, <1>3

-----------------------------------------------------------------------------
(* The invariant.                                                          *)

\* What each phase knows: the memory is the caller's except while a loop
\* writes through its destination, and only Blend has a second instruction.
PhaseInv ==
  /\ phase = "idle" => lane = 0
  /\ phase = "whole" => ~LaneLoop(backend, call.op)
  /\ phase = "idle" \/ phase # "lanes" \/ call.op \in ValueOps => mem = mem0
  /\ phase \in {"second", "return"} => call.op \in ValueOps
  /\ phase = "second" =>
       /\ backend \in VcLike \cup {"simd"} /\ call.op = "Blend"
       /\ \A i \in Lane : (Selected(i) <=> backend \notin VcLike)
                           => ret[i] = Result(call, mem0, i)

IInv == TypeOK /\ PhaseInv /\ DestinationOnly /\ LoopIsVector /\ ReturnedLanes

LEMMA InitInv == Init => IInv
BY DEF Init, IInv, TypeOK, PhaseInv, DestinationOnly, LoopIsVector,
       ReturnedLanes, Lane, Val

LEMMA StartInv ==
  ASSUME IInv, NEW c \in Calls, Start(c)
  PROVE  IInv'
<1> USE DEF Start
<1>1. mem = mem0 /\ lane = 0 /\ mem' = mem0 /\ mem0' = mem0 /\ lane' = 0
      /\ call' = c /\ phase' \in {"lanes", "whole"}
  BY DEF IInv, PhaseInv
<1>2. TypeOK'
  BY <1>1 DEF IInv, TypeOK
<1>3. PhaseInv'
  BY <1>1 DEF PhaseInv, LaneLoop
<1>4. DestinationOnly'
  BY <1>1 DEF DestinationOnly
<1>5. AfterLanes(c, mem0, 0, mem0)
  BY DEF AfterLanes
<1>6. LoopIsVector'
  BY <1>1, <1>5 DEF LoopIsVector
<1>7. ReturnedLanes'
  BY <1>1 DEF ReturnedLanes
<1> QED
  BY <1>2, <1>3, <1>4, <1>6, <1>7 DEF IInv

LEMMA SetLaneInv ==
  ASSUME IInv, SetLane
  PROVE  IInv'
<1> USE DEF SetLane
<1> DEFINE t == Target(call, IndexMemory, lane)
           v == Result(call, mem, lane)
<1>1. /\ call \in Calls /\ lane \in Lane /\ mem \in [Addr -> Val]
      /\ mem0 \in [Addr -> Val] /\ IndexMemory \in [Addr -> Val]
  BY DEF IInv, TypeOK, Lane, IndexMemory
<1>2. t \in Footprint(call) /\ t \in Addr /\ v \in Val
  BY <1>1, LaneTypes
<1>3. mem' \in [Addr -> Val]
      /\ \A x \in Addr : x \notin Footprint(call) => mem'[x] = mem[x]
  BY <1>1, <1>2
<1>4. TypeOK'
  BY <1>1, <1>3 DEF IInv, TypeOK, Lane
<1>5. PhaseInv'
  BY DEF PhaseInv
<1>6. DestinationOnly'
  BY <1>3 DEF IInv, DestinationOnly
<1>7. LoopIsVector'
  <2> SUFFICES ASSUME LanesIndependent(call, mem0)
               PROVE  AfterLanes(call, mem0, lane + 1, mem')
    BY DEF LoopIsVector
  <2>1. AfterLanes(call, mem0, lane, mem)
    BY DEF IInv, LoopIsVector
  <2>2. \A x \in Reads(call, mem0, lane) : mem[x] = mem0[x]
    BY <1>1, <2>1, ReadsUntouched
  <2>3. /\ Writes(call, mem, lane) = Writes(call, mem0, lane)
        /\ Target(call, mem, lane) = Target(call, mem0, lane)
        /\ Result(call, mem, lane) = Result(call, mem0, lane)
    BY <1>1, <2>2, SameReads
  <2>4. t = Target(call, mem0, lane)
    BY <2>3 DEF IndexMemory
  <2>5. mem' = IF Writes(call, mem0, lane)
                 THEN [mem EXCEPT ![Target(call, mem0, lane)] =
                                     Result(call, mem0, lane)]
                 ELSE mem
    BY <2>3, <2>4
  <2> HIDE DEF SetLane
  <2> QED
    BY <1>1, <2>1, <2>5, OneMoreLane
<1>8. ReturnedLanes'
  BY DEF ReturnedLanes
<1> QED
  BY <1>4, <1>5, <1>6, <1>7, <1>8 DEF IInv

LEMMA SetLocalLaneInv ==
  ASSUME IInv, SetLocalLane
  PROVE  IInv'
<1> USE DEF SetLocalLane
<1>1. /\ call \in Calls /\ lane \in Lane /\ mem \in [Addr -> Val]
      /\ mem0 = mem /\ ret \in [Lane -> Val]
  BY DEF IInv, TypeOK, PhaseInv, Lane
<1>2. Result(call, mem, lane) \in Val
  BY <1>1, LaneTypes
<1>3. TypeOK'
  BY <1>1, <1>2 DEF IInv, TypeOK, Lane
<1>4. PhaseInv' /\ DestinationOnly' /\ LoopIsVector'
  BY <1>1 DEF IInv, PhaseInv, DestinationOnly, LoopIsVector
<1>5. ReturnedLanes'
  <2>1. \A i \in 0 .. lane' - 1 : i = lane \/ i \in 0 .. lane - 1
    BY <1>1 DEF Lane
  <2>2. \A i \in 0 .. lane - 1 : ret[i] = Result(call, mem0, i) /\ i \in Lane /\ i # lane
    BY <1>1 DEF IInv, ReturnedLanes, Lane
  <2>3. \A i \in 0 .. lane' - 1 : ret'[i] = Result(call, mem0, i)
    BY <1>1, <2>1, <2>2
  <2> QED
    BY <2>3 DEF ReturnedLanes
<1> QED
  BY <1>3, <1>4, <1>5 DEF IInv

\* Whatever the memory becomes, a returning operation re-establishes the
\* invariant: the next call begins on the new memory.
LEMMA FinishInv ==
  ASSUME TypeOK, Finish, mem' \in [Addr -> Val]
  PROVE  IInv'
<1>1. TypeOK'
  BY DEF TypeOK, Finish, Lane, Val
<1> QED
  BY <1>1 DEF Finish, IInv, PhaseInv, DestinationOnly, LoopIsVector,
              ReturnedLanes, NoCall, ValueOps

LEMMA EndLoopInv ==
  ASSUME IInv, EndLoop
  PROVE  IInv'
BY FinishInv DEF IInv, TypeOK, EndLoop

LEMMA ReturnValueInv ==
  ASSUME IInv, ReturnValue
  PROVE  IInv'
<1>1. mem' \in [Addr -> Val]
  BY DEF ReturnValue, IInv, TypeOK
<1> QED
  BY <1>1, FinishInv DEF IInv, ReturnValue

LEMMA WholeRegisterInv ==
  ASSUME IInv, WholeRegister
  PROVE  IInv'
<1>1. \A i \in Lane : Result(call, mem, i) \in Val
  BY LaneTypes DEF IInv, TypeOK, WholeRegister
<1>2. mem' \in [Addr -> Val]
  BY <1>1 DEF WholeRegister, IInv, TypeOK
<1> QED
  BY <1>2, FinishInv DEF IInv, WholeRegister

LEMMA WholeLoadInv ==
  ASSUME IInv, WholeLoad
  PROVE  IInv'
<1> USE DEF WholeLoad
<1>1. call \in Calls /\ mem \in [Addr -> Val] /\ mem0 = mem
      /\ call.op \in ValueOps
  BY DEF IInv, TypeOK, PhaseInv, ValueOps
<1>2. \A i \in Lane : Result(call, mem, i) \in Val
  BY <1>1, LaneTypes
<1>3. TypeOK'
  BY <1>1, <1>2 DEF IInv, TypeOK
<1> QED
  BY <1>1, <1>3 DEF IInv, PhaseInv, DestinationOnly, LoopIsVector, ReturnedLanes

LEMMA BlendFirstInv ==
  ASSUME IInv, BlendFirst
  PROVE  IInv'
<1> USE DEF BlendFirst
<1>1. /\ call \in Calls /\ mem \in [Addr -> Val] /\ mem0 = mem
      /\ call.op \in ValueOps /\ ret \in [Lane -> Val]
  BY DEF IInv, TypeOK, PhaseInv, ValueOps
<1>2. \A i \in Lane : Result(call, mem, i) \in Val
  BY <1>1, LaneTypes
<1>3. \A i \in Lane : mem[call.alt + i] \in Val
                       /\ (~Selected(i) => Result(call, mem, i) = mem[call.alt + i])
  <2> TAKE i \in Lane
  <2>1. call.alt \in Register
    BY <1>1, CallKinds
  <2>2. call.alt + i \in Addr
    BY <2>1 DEF Addr, Lane
  <2> QED
    BY <1>1, <2>2 DEF Selected, Result, Source
<1>4. ret' \in [Lane -> Val]
  BY <1>1, <1>2, <1>3
<1>5. TypeOK'
  BY <1>4 DEF IInv, TypeOK
<1>6. PhaseInv'
  <2> SUFFICES ASSUME phase' = "second"
               PROVE  /\ backend \in VcLike \cup {"simd"} /\ call.op = "Blend"
                      /\ \A i \in Lane : (Selected(i) <=> backend \notin VcLike)
                                          => ret'[i] = Result(call, mem0, i)
    BY <1>1 DEF PhaseInv, Selected
  <2>1. backend \in VcLike \cup {"simd"}
    OBVIOUS
  <2>2. ASSUME NEW i \in Lane, backend \in VcLike, ~Selected(i)
        PROVE  ret'[i] = Result(call, mem0, i)
    BY <1>1, <1>3, <2>2 DEF VcLike
  <2>3. ASSUME NEW i \in Lane, backend \notin VcLike, Selected(i)
        PROVE  ret'[i] = Result(call, mem0, i)
    <3>1. backend = "simd"
      BY <2>1, <2>3
    <3> QED
      BY <1>1, <2>3, <3>1
  <2>4. call.op = "Blend"
    OBVIOUS
  <2> QED
    BY <1>1, <2>1, <2>2, <2>3, <2>4
<1>7. ReturnedLanes'
  BY <1>1 DEF IInv, TypeOK, ReturnedLanes, Backends
<1> QED
  BY <1>1, <1>5, <1>6, <1>7 DEF IInv, DestinationOnly, LoopIsVector

LEMMA BlendSecondInv ==
  ASSUME IInv, BlendSecond
  PROVE  IInv'
<1> USE DEF BlendSecond
<1>1. /\ call \in Calls /\ mem \in [Addr -> Val] /\ mem0 = mem
      /\ call.op \in ValueOps /\ ret \in [Lane -> Val]
      /\ \A i \in Lane : (Selected(i) <=> backend \notin VcLike)
                          => ret[i] = Result(call, mem0, i)
  BY DEF IInv, TypeOK, PhaseInv
<1>2. \A i \in Lane : Result(call, mem, i) \in Val
  BY <1>1, LaneTypes
<1>3. \A i \in Lane : ret'[i] = Result(call, mem0, i)
  BY <1>1
<1>4. TypeOK'
  BY <1>1, <1>2 DEF IInv, TypeOK
<1>5. ReturnedLanes'
  BY <1>3 DEF ReturnedLanes
<1> QED
  BY <1>1, <1>4, <1>5 DEF IInv, PhaseInv, DestinationOnly, LoopIsVector

LEMMA StepInv == IInv /\ [Next]_vars => IInv'
<1> SUFFICES ASSUME IInv, [Next]_vars PROVE IInv'
  OBVIOUS
<1>1. CASE UNCHANGED vars
  BY <1>1 DEF vars, IInv, TypeOK, PhaseInv, DestinationOnly, LoopIsVector,
              ReturnedLanes, Selected
<1>2. CASE \E c \in Calls : Start(c)
  BY <1>2, StartInv
<1> QED
  BY <1>1, <1>2, SetLaneInv, SetLocalLaneInv, EndLoopInv, ReturnValueInv,
     WholeRegisterInv, WholeLoadInv, BlendFirstInv, BlendSecondInv DEF Next

\* The invariant holds in every reachable state of every backend.
THEOREM Invariant == Spec => []IInv
BY InitInv, StepInv, PTL DEF Spec

\* Type correctness: every state of every call is well formed.
THEOREM TypeCorrect == Spec => []TypeOK
BY Invariant, PTL DEF IInv

\* A call changes no cell outside its destination, at any point of its
\* execution, a lane loop over independent lanes is the vector operation, and a
\* register returned by value holds the operation's result in every lane
\* (Implementation.h's loops, SIMD.h, VcVector.h, UMESimdCommon.h).
THEOREM CallsActOnVectors == Spec => []ActsOnVectors
BY Invariant, PTL DEF IInv, ActsOnVectors

-----------------------------------------------------------------------------
(* Every backend implements the interface.                                 *)

\* A memory in which every lane of a call that never scatters wrote its own
\* cell, and nothing else changed, is the memory after the vector operation.
LEMMA OwnCells ==
  ASSUME NEW c \in Calls, NEW m \in [Addr -> Val], c.op # "Scatter",
         NEW r,
         \A i \in Lane : r[c.dst + i] = IF Writes(c, m, i) THEN Result(c, m, i)
                                                          ELSE m[c.dst + i],
         \A x \in Addr \ Footprint(c) : r[x] = m[x]
  PROVE  AfterLanes(c, m, VS, r)
<1> SUFFICES ASSUME NEW x \in Addr
             PROVE  \/ \E i \in 0 .. VS - 1 :
                         /\ Writes(c, m, i) /\ Target(c, m, i) = x
                         /\ r[x] = Result(c, m, i)
                         /\ \A j \in i + 1 .. VS - 1 :
                              Writes(c, m, j) => Target(c, m, j) # x
                    \/ /\ \A i \in 0 .. VS - 1 :
                            Writes(c, m, i) => Target(c, m, i) # x
                       /\ r[x] = m[x]
  BY DEF AfterLanes
<1>1. c.dst \in Nat
  <2>1. c.dst \in Addr
    BY CallKinds DEF Block, Table
  <2> QED
    BY <2>1 DEF Addr
<1>2. \A i : Target(c, m, i) = c.dst + i
  BY DEF Target
<1>3. CASE x \in Footprint(c)
  <2>1. PICK i \in 0 .. VS - 1 : x = c.dst + i
    <3>1. x \in c.dst .. c.dst + VS - 1
      BY <1>3 DEF Footprint
    <3>2. x - c.dst \in 0 .. VS - 1 /\ x = c.dst + (x - c.dst)
      BY <3>1, <1>1
    <3> QED
      BY <3>2
  <2>2. \A j \in 0 .. VS - 1 : j # i => Target(c, m, j) # x
    BY <1>1, <1>2, <2>1
  <2>3. \A j \in i + 1 .. VS - 1 : j \in 0 .. VS - 1 /\ j # i
    OBVIOUS
  <2>4. r[x] = IF Writes(c, m, i) THEN Result(c, m, i) ELSE m[x]
    BY <2>1 DEF Lane
  <2>5. CASE Writes(c, m, i)
    BY <1>2, <2>1, <2>2, <2>3, <2>4, <2>5
  <2>6. CASE ~Writes(c, m, i)
    BY <2>2, <2>4, <2>6
  <2> QED
    BY <2>5, <2>6
<1>4. CASE x \notin Footprint(c)
  <2>1. \A i \in 0 .. VS - 1 : Target(c, m, i) # x
    BY <1>4, LaneTypes DEF Lane
  <2> QED
    BY <2>1, <1>4
<1> QED
  BY <1>3, <1>4

\* The two ways in which a whole register is written.
LEMMA RegisterCells ==
  ASSUME NEW c \in Calls, c.op # "Scatter"
  PROVE  /\ \A i \in Lane : c.dst + i \in Addr /\ (c.dst + i) - c.dst = i
         /\ \A x \in Addr \ Footprint(c) : x - c.dst \notin Lane
<1>1. c.dst \in Addr /\ c.dst + VS <= MemSize
  <2>1. c.dst \in Register \/ c.dst \in Block
    BY CallKinds
  <2> QED
    BY <2>1 DEF Block
<1>2. Footprint(c) = c.dst .. c.dst + VS - 1
  BY DEF Footprint
<1> QED
  BY <1>1, <1>2 DEF Lane, Addr

LEMMA WholeWrite ==
  ASSUME NEW c \in Calls, NEW m \in [Addr -> Val], c.op # "Scatter", NEW r,
         r = [x \in Addr |-> IF x - c.dst \in Lane /\ Writes(c, m, x - c.dst)
                               THEN Result(c, m, x - c.dst) ELSE m[x]]
  PROVE  AfterLanes(c, m, VS, r)
<1>1. \A x \in Addr \ Footprint(c) : r[x] = m[x]
  BY RegisterCells
<1>2. ASSUME NEW i \in Lane
      PROVE  r[c.dst + i] = IF Writes(c, m, i) THEN Result(c, m, i) ELSE m[c.dst + i]
  BY RegisterCells
<1> QED
  BY <1>1, <1>2, OwnCells

LEMMA ReturnWrite ==
  ASSUME NEW c \in Calls, NEW m \in [Addr -> Val], c.op \in ValueOps,
         NEW v, \A i \in Lane : v[i] = Result(c, m, i), NEW r,
         r = [x \in Addr |-> IF x - c.dst \in Lane THEN v[x - c.dst] ELSE m[x]]
  PROVE  AfterLanes(c, m, VS, r)
<1>0. c.op # "Scatter" /\ c.op # "MaskedAssign"
  BY DEF ValueOps
<1>1. \A x \in Addr \ Footprint(c) : r[x] = m[x]
  BY <1>0, RegisterCells
<1>2. ASSUME NEW i \in Lane
      PROVE  r[c.dst + i] = IF Writes(c, m, i) THEN Result(c, m, i) ELSE m[c.dst + i]
  BY <1>0, RegisterCells DEF Writes
<1> QED
  BY <1>0, <1>1, <1>2, OwnCells

\* A step that leaves the caller's memory alone is a stutter of the interface.
LEMMA InternalStep ==
  ASSUME UNCHANGED mem0
  PROVE  [Interface!Next]_mem0
OBVIOUS

\* The interface's instance of VecMemory is this module's own: the instance
\* substitutes nothing but the variable.
LEMMA SameMemory ==
  /\ Interface!Addr = Addr /\ Interface!Val = Val /\ Interface!Lane = Lane
  /\ Interface!Calls = Calls
  /\ \A c : Interface!Footprint(c) = Footprint(c)
<1>1. Interface!Addr = Addr /\ Interface!Val = Val /\ Interface!Lane = Lane
  BY DEF Interface!Addr, Addr, Interface!Val, Val, Interface!Lane, Lane
<1>2. Interface!Block = Block /\ Interface!Table = Table
  BY <1>1 DEF Interface!Block, Block, Interface!Table, Table
<1>3. Interface!Calls = Calls
  BY <1>2, Zenon DEF Interface!Calls, Calls, Interface!Call, Call
<1>4. \A c : Interface!Footprint(c) = Footprint(c)
  BY DEF Interface!Footprint, Footprint
<1> QED
  BY <1>1, <1>3, <1>4

LEMMA SameLanes ==
  ASSUME NEW c, NEW m, NEW r
  PROVE  /\ Interface!LanesIndependent(c, m) <=> LanesIndependent(c, m)
         /\ AfterLanes(c, m, VS, r) => Interface!AfterLanes(c, m, VS, r)
<1>1. \A i : Interface!Source(c, m, i) = Source(c, m, i)
  BY Zenon DEF Interface!Source, Source
<1>2. \A i : /\ Interface!Result(c, m, i) = Result(c, m, i)
             /\ Interface!Target(c, m, i) = Target(c, m, i)
             /\ Interface!Writes(c, m, i) <=> Writes(c, m, i)
             /\ Interface!Reads(c, m, i) = Reads(c, m, i)
  BY <1>1, Zenon DEF Interface!Result, Result, Interface!Target, Target,
     Interface!Writes, Writes, Interface!Reads, Reads, Interface!Truth, Truth,
     Interface!SelectOps, SelectOps
<1>3. Interface!LanesIndependent(c, m) <=> LanesIndependent(c, m)
  BY <1>2, SameMemory DEF Interface!LanesIndependent, LanesIndependent,
     Interface!ValueOps, ValueOps
<1>4. AfterLanes(c, m, VS, r) => Interface!AfterLanes(c, m, VS, r)
  BY <1>2, SameMemory DEF Interface!AfterLanes, AfterLanes
<1> QED
  BY <1>3, <1>4

\* A returning step is one step of the interface.
LEMMA ReturnStep ==
  ASSUME TypeOK, phase # "idle", Finish, mem' \in [Addr -> Val],
         \A x \in Addr \ Footprint(call) : mem'[x] = mem0[x],
         LanesIndependent(call, mem0) => AfterLanes(call, mem0, VS, mem')
  PROVE  Interface!Next
<1>1. call \in Calls /\ mem0' = mem'
  BY DEF TypeOK, Finish
<1>2. Interface!Perform(call)
  BY <1>1, SameMemory, SameLanes DEF Interface!Perform
<1> QED
  BY <1>1, <1>2, SameMemory DEF Interface!Next

LEMMA StepRefines == IInv /\ IInv' /\ [Next]_vars => [Interface!Next]_mem0
<1> SUFFICES ASSUME IInv, IInv', [Next]_vars
             PROVE  [Interface!Next]_mem0
  OBVIOUS
<1> USE DEF IInv
<1>0. TypeOK /\ mem' \in [Addr -> Val]
  BY DEF TypeOK
<1>1. CASE \/ UNCHANGED vars \/ (\E c \in Calls : Start(c)) \/ SetLane
           \/ SetLocalLane \/ WholeLoad \/ BlendFirst \/ BlendSecond
  BY <1>1, InternalStep DEF vars, Start, SetLane, SetLocalLane, WholeLoad,
                            BlendFirst, BlendSecond
<1>2. CASE EndLoop
  <2>1. \A x \in Addr \ Footprint(call) : mem'[x] = mem0[x]
    BY <1>2 DEF EndLoop, DestinationOnly
  <2>2. LanesIndependent(call, mem0) => AfterLanes(call, mem0, VS, mem')
    BY <1>2 DEF EndLoop, LoopIsVector
  <2> QED
    BY <1>0, <1>2, <2>1, <2>2, ReturnStep DEF EndLoop
<1>3. CASE ReturnValue
  <2>1. /\ call \in Calls /\ mem \in [Addr -> Val] /\ mem = mem0
        /\ call.op \in ValueOps /\ call.op # "Scatter"
    BY <1>3 DEF ReturnValue, TypeOK, PhaseInv, ValueOps
  <2>2. \A i \in Lane : ret[i] = Result(call, mem0, i)
    BY <1>3 DEF ReturnValue, ReturnedLanes, Lane
  <2>3. mem' = [x \in Addr |-> IF x - call.dst \in Lane THEN ret[x - call.dst]
                                                        ELSE mem0[x]]
    BY <1>3, <2>1 DEF ReturnValue
  <2>4. AfterLanes(call, mem0, VS, mem')
    BY <2>1, <2>2, <2>3, ReturnWrite
  <2>5. \A x \in Addr \ Footprint(call) : mem'[x] = mem0[x]
    BY <2>1, <2>3, RegisterCells
  <2> QED
    BY <1>0, <1>3, <2>4, <2>5, ReturnStep DEF ReturnValue
<1>4. CASE WholeRegister
  <2>1. /\ call \in Calls /\ mem \in [Addr -> Val] /\ mem = mem0
        /\ call.op # "Scatter"
    BY <1>4 DEF WholeRegister, TypeOK, PhaseInv, LaneLoop
  <2>2. mem' = [x \in Addr |->
                 IF x - call.dst \in Lane /\ Writes(call, mem0, x - call.dst)
                   THEN Result(call, mem0, x - call.dst) ELSE mem0[x]]
    BY <1>4, <2>1 DEF WholeRegister
  <2>3. AfterLanes(call, mem0, VS, mem')
    BY <2>1, <2>2, WholeWrite
  <2>4. \A x \in Addr \ Footprint(call) : mem'[x] = mem0[x]
    BY <2>1, <2>2, RegisterCells
  <2> QED
    BY <1>0, <1>4, <2>3, <2>4, ReturnStep DEF WholeRegister
<1>5. \/ UNCHANGED vars \/ (\E c \in Calls : Start(c)) \/ SetLane
      \/ SetLocalLane \/ WholeLoad \/ BlendFirst \/ BlendSecond
      \/ EndLoop \/ ReturnValue \/ WholeRegister
  BY DEF Next
<1> QED
  BY <1>1, <1>2, <1>3, <1>4, <1>5

\* Every backend implements the interface: seen by the client, each operation
\* of Implementation.h, SIMD.h, VcVector.h and UMESimdCommon.h is one step,
\* and that step is the vector operation whenever the lanes are independent.
THEOREM Refinement == Spec => ImplementsInterface
<1>1. Init => Interface!Init
  BY SameMemory DEF Init, Interface!Init
<1>2. IInv /\ IInv' /\ [Next]_vars => [Interface!Next]_mem0
  BY StepRefines
<1> QED
  BY <1>1, <1>2, Invariant, PTL DEF Spec, ImplementsInterface, Interface!Spec

-----------------------------------------------------------------------------
(* Reductions and conversions (module Reduce), for every number of lanes,  *)
(* every width and any scalars that registers are filled with.             *)

HIDE MemoryAssumption

ReduceTypes ==
  /\ mode \in {"Min", "Max"}
  /\ kind \in R!Kinds /\ target \in R!Kinds
  /\ acc \in [R!Lane -> R!Values(kind)]
  /\ live \in [R!Lane -> SUBSET (Int \ {R!NaN})]
  /\ op \in {"none", "Convert"} \cup R!Reductions
  /\ counter \in 0 .. Lanes

\* A lane of the accumulator is the extreme of what was folded into it.
LanesExtreme ==
  \A i \in R!Lane : IF live[i] = {} THEN acc[i] = R!NaN ELSE R!Extreme(acc[i], live[i])

\* The local result is beyond no lane looked at; it is the identity or a lane.
ExtremeSoFar ==
  op = "ReduceExtreme" =>
    /\ result \in Int \ {R!NaN}
    /\ \A i \in R!Lane : i < counter => ~R!Before(mode, acc[i], result)
    /\ \/ result = R!Identity(op, mode, kind)
       \/ \E i \in R!Lane : /\ result = acc[i]
                            /\ R!Before(mode, result, R!Identity(op, mode, kind))

SumSoFar ==
  op = "ReduceAdd" => result \in R!Values(kind) /\ R!SumRight

ConvertedSoFar ==
  op = "Convert" =>
    /\ out \in [R!Lane -> R!Values(target)]
    /\ \A i \in R!Lane : i < counter => out[i] \in R!Cast(kind, target, acc[i])

ReduceInv ==
  ReduceTypes /\ LanesExtreme /\ ExtremeSoFar /\ SumSoFar /\ ConvertedSoFar

\* Every scalar is an integer, infinity and NaN beyond the finite ones.
LEMMA Scalars ==
  ASSUME R!ReduceAssumption, NEW k \in R!Kinds
  PROVE  /\ k \in {"float", "signed", "unsigned"}
         /\ Lanes \in Nat \ {0} /\ R!Word \in Nat \ {0} /\ R!NaN = R!Word + 1 /\ R!Inf = R!Word
         /\ R!Finite(k) \subseteq Int /\ R!Values(k) \subseteq Int
         /\ R!Finite(k) \subseteq R!Values(k)
         /\ 0 \in R!Finite(k) /\ R!NaN \notin R!Finite(k)
         /\ R!Highest(k) \in R!Finite(k) /\ R!Lowest(k) \in R!Finite(k)
         /\ Inputs[k] \subseteq R!Values(k)
<1>1. k \in {"float", "signed", "unsigned"} /\ Inputs[k] \subseteq R!Values(k)
      /\ Lanes \in Nat \ {0} /\ Lim \in Nat \ {0}
  BY DEF R!ReduceAssumption
<1>2. R!Word \in Nat \ {0} /\ R!Word = 2 * Lim + 2 /\ R!NaN = R!Word + 1 /\ R!Inf = R!Word
  BY <1>1 DEF R!Word, R!NaN, R!Inf
<1>3. R!Finite(k) \subseteq Int /\ 0 \in R!Finite(k) /\ R!NaN \notin R!Finite(k)
      /\ R!Highest(k) \in R!Finite(k) /\ R!Lowest(k) \in R!Finite(k)
  <2>1. CASE k = "float"
    BY <1>1, <1>2, <2>1 DEF R!Finite, R!Highest, R!Lowest
  <2>2. CASE k = "signed"
    BY <1>1, <1>2, <2>2 DEF R!Finite, R!Highest, R!Lowest
  <2>3. CASE k = "unsigned"
    BY <1>1, <1>2, <2>3 DEF R!Finite, R!Highest, R!Lowest
  <2> QED
    BY <1>1, <2>1, <2>2, <2>3
<1>4. R!Values(k) \subseteq Int /\ R!Finite(k) \subseteq R!Values(k)
  BY <1>2, <1>3 DEF R!Values
<1> QED
  BY <1>1, <1>2, <1>3, <1>4

\* A conversion gives a value of the new type, and the same one if it can.
LEMMA CastTypes ==
  ASSUME R!ReduceAssumption, NEW from \in R!Kinds, NEW k \in R!Kinds,
         NEW x \in R!Values(from), NEW y \in R!Cast(from, k, x)
  PROVE  y \in R!Values(k) /\ (x \in R!Finite(k) => y = x)
<1>0. from \in {"float", "signed", "unsigned"} /\ k \in {"float", "signed", "unsigned"}
      /\ R!Finite(k) \subseteq R!Values(k) /\ Lim \in Nat \ {0}
  BY Scalars DEF R!ReduceAssumption
<1>1. CASE from = k \/ x \in R!Finite(k)
  BY <1>0, <1>1 DEF R!Cast
<1>2. CASE from # k /\ x \notin R!Finite(k) /\ from = "float"
  BY <1>0, <1>2 DEF R!Cast
<1>3. CASE from # k /\ x \notin R!Finite(k) /\ from # "float"
  <2>1. x \in R!Finite(from)
    BY <1>3 DEF R!Values
  <2>2. CASE k = "float"
    BY <1>0, <1>3, <2>1, <2>2 DEF R!Finite, R!Lowest, R!Highest, R!Word
  <2>3. CASE k = "unsigned"
    <3>1. y = x % R!Word /\ x \in Int /\ R!Word \in Nat \ {0} /\ R!Finite(k) = 0 .. R!Word - 1
      BY <1>0, <1>3, <2>1, <2>3, Scalars DEF R!Cast, R!Finite, R!Lowest, R!Highest
    <3>2. y \in 0 .. R!Word - 1
      <4> HIDE DEF R!Word
      <4> QED
        BY <3>1, Division
    <3> QED
      BY <1>0, <1>3, <3>1, <3>2
  <2>4. CASE k = "signed"
    <3>1. from = "unsigned"
      BY <1>0, <1>3, <2>4
    <3>2. y = x - R!Word
      BY <1>3, <2>4, <3>1 DEF R!Cast
    <3>3. y \in R!Finite(k)
      BY <1>0, <1>3, <2>1, <2>4, <3>1, <3>2 DEF R!Finite, R!Lowest, R!Highest, R!Word
    <3> QED
      BY <1>0, <1>3, <3>3
  <2> QED
    BY <1>0, <2>2, <2>3, <2>4
<1> QED
  BY <1>1, <1>2, <1>3

\* Min and Max keep the second operand if it is not a number, or if the first
\* is not one, and the extreme of two numbers.
LEMMA PickExtreme ==
  ASSUME R!NaN \in Int, mode \in {"Min", "Max"},
         NEW S \in SUBSET (Int \ {R!NaN}), NEW x \in Int, NEW y \in Int,
         IF S = {} THEN x = R!NaN ELSE R!Extreme(x, S)
  PROVE  IF y = R!NaN THEN R!Pick(mode, x, y) = R!NaN
         ELSE R!Extreme(R!Pick(mode, x, y), S \cup {y})
<1>1. CASE y = R!NaN
  BY <1>1 DEF R!Pick, R!Before, R!Less
<1>2. CASE y # R!NaN /\ S = {}
  BY <1>2 DEF R!Pick, R!Before, R!Less, R!Extreme
<1>3. CASE y # R!NaN /\ S # {}
  <2>1. x \in S /\ x # R!NaN /\ \A z \in S : z \in Int /\ z # R!NaN /\ ~R!Before(mode, z, x)
    BY <1>3 DEF R!Extreme
  <2>2. CASE mode = "Min"
    <3>1. \A z \in S : x <= z
      BY <2>1, <2>2 DEF R!Before, R!Less
    <3>2. R!Pick(mode, x, y) = IF x < y THEN x ELSE y
      BY <1>3, <2>1, <2>2 DEF R!Pick, R!Before, R!Less
    <3>3. \A u, v \in Int \ {R!NaN} : R!Before(mode, u, v) <=> u < v
      BY <2>2 DEF R!Before, R!Less
    <3> QED
      BY <1>3, <2>1, <3>1, <3>2, <3>3 DEF R!Extreme
  <2>3. CASE mode = "Max"
    <3>1. \A z \in S : z <= x
      BY <2>1, <2>3 DEF R!Before, R!Less
    <3>2. R!Pick(mode, x, y) = IF y < x THEN x ELSE y
      BY <1>3, <2>1, <2>3 DEF R!Pick, R!Before, R!Less
    <3>3. \A u, v \in Int \ {R!NaN} : R!Before(mode, u, v) <=> v < u
      BY <2>3 DEF R!Before, R!Less
    <3> QED
      BY <1>3, <2>1, <3>1, <3>2, <3>3 DEF R!Extreme
  <2> QED
    BY <2>2, <2>3
<1> QED
  BY <1>1, <1>2, <1>3

\* The partial sums of the accumulator's lanes.
LEMMA LaneSums ==
  ASSUME R!ReduceAssumption, ReduceTypes
  PROVE  /\ \A n \in 0 .. Lanes : R!LaneSum[n] \in Int
         /\ R!LaneSum[0] = 0
         /\ \A n \in 0 .. Lanes - 1 : R!LaneSum[n + 1] = R!LaneSum[n] + acc[n]
<1> DEFINE S == R!LaneSum
<1>1. Lanes \in Nat /\ \A i \in 0 .. Lanes - 1 : acc[i] \in Int
  BY Scalars DEF ReduceTypes, R!Lane
<1>2. S = Partial(acc, Lanes)
  BY DEF R!LaneSum, Partial
<1> HIDE DEF S
<1>3. /\ \A n \in 0 .. Lanes : S[n] \in Int
      /\ S[0] = 0
      /\ \A n \in 0 .. Lanes - 1 : S[n + 1] = S[n] + acc[n]
  BY <1>1, <1>2, PartialSums
<1> QED
  BY <1>3 DEF S

\* A sum of two values of a type: one of its values, the sum modulo the word of
\* unsigned ones, the sum of signed ones if it fits, and the sum of floats if
\* it is finite, which both are then too.
LEMMA SumFacts ==
  ASSUME R!ReduceAssumption, NEW k \in R!Kinds,
         NEW x \in R!Values(k), NEW y \in R!Values(k), NEW z \in R!Sum(k, x, y)
  PROVE  /\ z \in R!Values(k)
         /\ k = "unsigned" => z = (x + y) % R!Word
         /\ k = "signed" => (x + y \in R!Finite(k) => z = x + y)
         /\ k = "float" => (z \in R!Finite(k) => x \in R!Finite(k) /\ z = x + y)
<1>0. /\ k \in {"float", "signed", "unsigned"} /\ x \in Int /\ y \in Int
      /\ R!Word \in Nat \ {0} /\ R!NaN = R!Word + 1 /\ R!Inf = R!Word
      /\ R!Finite(k) \subseteq R!Values(k)
  BY Scalars
<1>1. CASE k = "unsigned"
  <2>1. z = (x + y) % R!Word
    BY <1>1 DEF R!Sum
  <2>2. z \in 0 .. R!Word - 1
    BY <1>0, <2>1, Division
  <2>3. z \in R!Finite(k)
    BY <1>1, <2>2 DEF R!Finite, R!Lowest, R!Highest
  <2> QED
    BY <1>0, <1>1, <2>1, <2>3
<1>2. CASE k = "signed"
  BY <1>0, <1>2 DEF R!Sum
<1>3. CASE k = "float"
  <2>1. R!Finite(k) = (1 - R!Word) .. (R!Word - 1)
    BY <1>3 DEF R!Finite, R!Lowest, R!Highest
  <2>2. R!Values(k) = R!Finite(k) \cup {-R!Inf, R!Inf, R!NaN}
    BY <1>3 DEF R!Values
  <2>3. z = IF R!NaN \in {x, y} \/ (x \in {-R!Inf, R!Inf} /\ y = -x) THEN R!NaN
            ELSE IF x \in {-R!Inf, R!Inf} THEN x
            ELSE IF y \in {-R!Inf, R!Inf} THEN y
            ELSE IF x + y >= R!Inf  THEN R!Inf
            ELSE IF x + y <= -R!Inf THEN -R!Inf ELSE x + y
    BY <1>3 DEF R!Sum
  <2> DEFINE W == R!Word
  <2>4. W \in Nat \ {0} /\ R!NaN = W + 1 /\ R!Inf = W /\ R!Finite(k) = (1 - W) .. (W - 1)
    BY <1>0, <2>1
  <2> HIDE DEF W
  <2>5. x \in (1 - W) .. (W - 1) \cup {-W, W, W + 1} /\ y \in (1 - W) .. (W - 1) \cup {-W, W, W + 1}
    BY <2>2, <2>4
  <2>6. z = IF x = W + 1 \/ y = W + 1 \/ ((x = -W \/ x = W) /\ y = -x) THEN W + 1
            ELSE IF x = -W \/ x = W THEN x
            ELSE IF y = -W \/ y = W THEN y
            ELSE IF x + y >= W THEN W
            ELSE IF x + y <= -W THEN -W ELSE x + y
    BY <2>3, <2>4
  <2>7. z \in (1 - W) .. (W - 1) \cup {-W, W, W + 1}
    BY <2>4, <2>5, <2>6
  <2>8. z \in (1 - W) .. (W - 1) => x \in (1 - W) .. (W - 1) /\ z = x + y
    BY <2>4, <2>5, <2>6
  <2> QED
    BY <1>3, <2>2, <2>4, <2>7, <2>8
<1> QED
  BY <1>0, <1>1, <1>2, <1>3

-----------------------------------------------------------------------------
(* Every action keeps the invariant.                                       *)

LEMMA ReduceInit ==
  ASSUME R!ReduceAssumption, R!Init
  PROVE  ReduceInv
<1>1. kind \in R!Kinds /\ mode \in {"Min", "Max"} /\ acc \in [R!Lane -> Inputs[kind]]
      /\ live = [i \in R!Lane |-> {acc[i]} \ {R!NaN}]
      /\ op = "none" /\ target = kind /\ counter = 0
  BY DEF R!Init, R!RegistersOf, R!Numbers
<1>2. R!Values(kind) \subseteq Int /\ Inputs[kind] \subseteq R!Values(kind) /\ Lanes \in Nat
  BY <1>1, Scalars
<1>3. ReduceTypes
  BY <1>1, <1>2 DEF ReduceTypes
<1>4. ASSUME NEW i \in R!Lane
      PROVE  IF live[i] = {} THEN acc[i] = R!NaN ELSE R!Extreme(acc[i], live[i])
  <2>1. acc[i] \in Int /\ live[i] = {acc[i]} \ {R!NaN}
    BY <1>1, <1>2
  <2> QED
    BY <1>1, <2>1 DEF R!Extreme, R!Before, R!Less
<1> QED
  BY <1>1, <1>3, <1>4 DEF ReduceInv, LanesExtreme, ExtremeSoFar, SumSoFar, ConvertedSoFar

LEMMA FoldStep ==
  ASSUME R!ReduceAssumption, ReduceInv, R!Fold
  PROVE  ReduceInv'
<1>1. PICK b \in R!RegistersOf(kind) :
        /\ acc' = [i \in R!Lane |-> R!Pick(mode, acc[i], b[i])]
        /\ live' = [i \in R!Lane |-> IF b[i] = R!NaN THEN {} ELSE live[i] \cup {b[i]}]
  BY DEF R!Fold
<1>2. op' = "none" /\ mode' = mode /\ kind' = kind /\ target' = target /\ counter' = counter
  BY DEF R!Fold
<1>3. /\ mode \in {"Min", "Max"} /\ kind \in R!Kinds
      /\ R!NaN \in Int /\ R!Values(kind) \subseteq Int /\ Inputs[kind] \subseteq R!Values(kind)
  BY Scalars DEF ReduceInv, ReduceTypes
<1>4. ASSUME NEW i \in R!Lane
      PROVE  /\ b[i] \in R!Values(kind) /\ acc[i] \in R!Values(kind)
             /\ live[i] \in SUBSET (Int \ {R!NaN})
             /\ IF live[i] = {} THEN acc[i] = R!NaN ELSE R!Extreme(acc[i], live[i])
  BY <1>3 DEF R!RegistersOf, ReduceInv, ReduceTypes, LanesExtreme
<1>5. ReduceTypes'
  <2>1. ASSUME NEW i \in R!Lane
        PROVE  /\ R!Pick(mode, acc[i], b[i]) \in R!Values(kind)
               /\ (IF b[i] = R!NaN THEN {} ELSE live[i] \cup {b[i]}) \in SUBSET (Int \ {R!NaN})
    BY <1>3, <1>4 DEF R!Pick
  <2> QED
    BY <1>1, <1>2, <2>1 DEF ReduceInv, ReduceTypes
<1>6. LanesExtreme'
  <2>1. ASSUME NEW i \in R!Lane
        PROVE  IF live'[i] = {} THEN acc'[i] = R!NaN ELSE R!Extreme(acc'[i], live'[i])
    <3>1. b[i] \in Int /\ acc[i] \in Int
      BY <1>3, <1>4
    <3>2. IF b[i] = R!NaN THEN R!Pick(mode, acc[i], b[i]) = R!NaN
          ELSE R!Extreme(R!Pick(mode, acc[i], b[i]), live[i] \cup {b[i]})
      BY <1>3, <1>4, <3>1, PickExtreme
    <3>3. acc'[i] = R!Pick(mode, acc[i], b[i])
          /\ live'[i] = IF b[i] = R!NaN THEN {} ELSE live[i] \cup {b[i]}
      BY <1>1
    <3> QED
      BY <3>2, <3>3
  <2> QED
    BY <1>2, <2>1 DEF LanesExtreme, R!Extreme
<1> QED
  BY <1>2, <1>5, <1>6 DEF ReduceInv, ExtremeSoFar, SumSoFar, ConvertedSoFar

\* The extreme of a set and of the extreme of another is that of both.
LEMMA ExtremeOfBoth ==
  ASSUME mode \in {"Min", "Max"}, NEW S \in SUBSET (Int \ {R!NaN}),
         NEW T \in SUBSET (Int \ {R!NaN}), NEW x, NEW y,
         R!Extreme(y, T), R!Extreme(x, S \cup {y})
  PROVE  R!Extreme(x, S \cup T)
<1>1. y \in T /\ x \in S \cup T /\ (\A z \in T : ~R!Before(mode, z, y))
      /\ \A z \in S \cup {y} : ~R!Before(mode, z, x)
  BY DEF R!Extreme
<1>2. CASE mode = "Min"
  <2>1. \A u, v \in Int \ {R!NaN} : R!Before(mode, u, v) <=> u < v
    BY <1>2 DEF R!Before, R!Less
  <2>2. x \in Int \ {R!NaN} /\ y \in Int \ {R!NaN} /\ x <= y
    BY <1>1, <2>1
  <2>3. ASSUME NEW z \in T PROVE ~R!Before(mode, z, x)
    BY <1>1, <2>1, <2>2
  <2> QED
    BY <1>1, <2>3 DEF R!Extreme
<1>3. CASE mode = "Max"
  <2>1. \A u, v \in Int \ {R!NaN} : R!Before(mode, u, v) <=> v < u
    BY <1>3 DEF R!Before, R!Less
  <2>2. x \in Int \ {R!NaN} /\ y \in Int \ {R!NaN} /\ y <= x
    BY <1>1, <2>1
  <2>3. ASSUME NEW z \in T PROVE ~R!Before(mode, z, x)
    BY <1>1, <2>1, <2>2
  <2> QED
    BY <1>1, <2>3 DEF R!Extreme
<1> QED
  BY <1>2, <1>3

LEMMA FoldTwoStep ==
  ASSUME R!ReduceAssumption, ReduceInv, R!FoldTwo
  PROVE  ReduceInv'
<1>1. PICK b \in R!RegistersOf(kind), c \in R!RegistersOf(kind) :
        /\ acc' = [i \in R!Lane |-> R!PickThree(mode, acc[i], b[i], c[i])]
        /\ live' = [i \in R!Lane |-> IF c[i] = R!NaN THEN {}
                                     ELSE live[i] \cup R!Numbers({b[i], c[i]})]
  BY DEF R!FoldTwo
<1>2. op' = "none" /\ mode' = mode /\ kind' = kind /\ target' = target /\ counter' = counter
  BY DEF R!FoldTwo
<1>3. /\ mode \in {"Min", "Max"} /\ kind \in R!Kinds
      /\ R!NaN \in Int /\ R!Values(kind) \subseteq Int /\ Inputs[kind] \subseteq R!Values(kind)
  BY Scalars DEF ReduceInv, ReduceTypes
<1>4. ASSUME NEW i \in R!Lane
      PROVE  /\ b[i] \in R!Values(kind) /\ c[i] \in R!Values(kind) /\ acc[i] \in R!Values(kind)
             /\ live[i] \in SUBSET (Int \ {R!NaN})
             /\ IF live[i] = {} THEN acc[i] = R!NaN ELSE R!Extreme(acc[i], live[i])
  BY <1>3 DEF R!RegistersOf, ReduceInv, ReduceTypes, LanesExtreme
<1>5. ReduceTypes'
  <2>1. ASSUME NEW i \in R!Lane
        PROVE  /\ R!PickThree(mode, acc[i], b[i], c[i]) \in R!Values(kind)
               /\ (IF c[i] = R!NaN THEN {} ELSE live[i] \cup R!Numbers({b[i], c[i]}))
                    \in SUBSET (Int \ {R!NaN})
    BY <1>3, <1>4 DEF R!Pick, R!PickThree, R!Numbers
  <2> QED
    BY <1>1, <1>2, <2>1 DEF ReduceInv, ReduceTypes
<1>6. LanesExtreme'
  <2>1. ASSUME NEW i \in R!Lane
        PROVE  IF live'[i] = {} THEN acc'[i] = R!NaN ELSE R!Extreme(acc'[i], live'[i])
    <3> DEFINE T == R!Numbers({b[i]})
               p == R!Pick(mode, b[i], c[i])
    <3>1. /\ b[i] \in Int /\ c[i] \in Int /\ acc[i] \in Int /\ p \in Int
          /\ T \in SUBSET (Int \ {R!NaN})
          /\ T = {} => b[i] = R!NaN
          /\ T # {} => R!Extreme(b[i], T)
      BY <1>3, <1>4 DEF R!Numbers, R!Pick, R!Extreme, R!Before, R!Less
    <3>2. IF c[i] = R!NaN THEN p = R!NaN ELSE R!Extreme(p, T \cup {c[i]})
      <4> HIDE DEF T
      <4> QED
        BY <1>3, <3>1, PickExtreme
    <3>3. acc'[i] = R!Pick(mode, acc[i], p)
          /\ live'[i] = IF c[i] = R!NaN THEN {} ELSE live[i] \cup R!Numbers({b[i], c[i]})
      BY <1>1 DEF R!PickThree
    <3>4. IF p = R!NaN THEN R!Pick(mode, acc[i], p) = R!NaN
          ELSE R!Extreme(R!Pick(mode, acc[i], p), live[i] \cup {p})
      <4> HIDE DEF p
      <4> QED
        BY <1>3, <1>4, <3>1, PickExtreme
    <3>5. CASE c[i] = R!NaN
      BY <3>2, <3>3, <3>4, <3>5
    <3>6. CASE c[i] # R!NaN
      <4>1. R!Numbers({b[i], c[i]}) = T \cup {c[i]} /\ T \cup {c[i]} \in SUBSET (Int \ {R!NaN})
        BY <3>1, <3>6 DEF R!Numbers
      <4>2. p \in T \cup {c[i]} /\ p # R!NaN
        BY <3>2, <3>6, <4>1 DEF R!Extreme
      <4>3. R!Extreme(acc'[i], live[i] \cup {p}) /\ R!Extreme(p, T \cup {c[i]})
        BY <3>2, <3>3, <3>4, <3>6, <4>2
      <4>4. R!Extreme(acc'[i], live[i] \cup (T \cup {c[i]}))
        <5> HIDE DEF T, p
        <5> QED
          BY <1>3, <1>4, <4>1, <4>3, ExtremeOfBoth
      <4> QED
        BY <3>3, <3>6, <4>1, <4>4
    <3> QED
      BY <3>5, <3>6
  <2> QED
    BY <1>2, <2>1 DEF LanesExtreme, R!Extreme
<1> QED
  BY <1>2, <1>5, <1>6 DEF ReduceInv, ExtremeSoFar, SumSoFar, ConvertedSoFar

LEMMA StartReduceStep ==
  ASSUME R!ReduceAssumption, ReduceInv, NEW o \in R!Reductions, R!StartReduce(o)
  PROVE  ReduceInv'
<1>1. /\ op' = o /\ counter' = 0 /\ result' = R!Identity(o, mode, kind)
      /\ mode' = mode /\ kind' = kind /\ acc' = acc /\ live' = live /\ target' = target
  BY DEF R!StartReduce
<1>2. /\ Lanes \in Nat /\ R!Word \in Nat \ {0} /\ R!NaN \in Int /\ kind \in R!Kinds
      /\ R!Finite(kind) \subseteq Int /\ R!Finite(kind) \subseteq R!Values(kind)
      /\ 0 \in R!Finite(kind) /\ R!NaN \notin R!Finite(kind)
      /\ R!Highest(kind) \in R!Finite(kind) /\ R!Lowest(kind) \in R!Finite(kind)
      /\ kind \in {"float", "signed", "unsigned"}
  BY Scalars DEF ReduceInv, ReduceTypes
<1>3. ReduceTypes' /\ LanesExtreme'
  BY <1>1, <1>2 DEF ReduceInv, ReduceTypes, LanesExtreme, R!Extreme
<1>4. ExtremeSoFar'
  <2>1. ASSUME NEW i \in R!Lane PROVE ~(i < 0)
    BY <1>2 DEF R!Lane
  <2> QED
    BY <1>1, <1>2, <2>1 DEF ExtremeSoFar, R!Identity
<1>5. SumSoFar'
  <2> SUFFICES ASSUME o = "ReduceAdd"
               PROVE  result' \in R!Values(kind') /\ R!SumRight'
    BY <1>1 DEF SumSoFar
  <2>1. result' = 0
    BY <1>1 DEF R!Identity
  <2>2. R!LaneSum' = R!LaneSum
    BY <1>1 DEF R!LaneSum
  <2>3. R!LaneSum[0] = 0
    BY LaneSums DEF ReduceInv
  <2>4. 0 % R!Word = 0
    <3>1. 0 \in 0 .. R!Word - 1
      BY <1>2
    <3> QED
      BY <1>2, <3>1, SmallRemainder
  <2> QED
    BY <1>1, <1>2, <2>1, <2>2, <2>3, <2>4 DEF R!SumRight
<1> QED
  BY <1>1, <1>3, <1>4, <1>5 DEF ReduceInv, ConvertedSoFar, R!Reductions

LEMMA AddLaneStep ==
  ASSUME R!ReduceAssumption, ReduceInv, R!AddLane
  PROVE  ReduceInv'
<1>1. /\ op = "ReduceAdd" /\ op' = op /\ counter < Lanes /\ counter' = counter + 1
      /\ result' \in R!Sum(kind, result, acc[counter])
      /\ mode' = mode /\ kind' = kind /\ acc' = acc /\ live' = live /\ target' = target
  BY DEF R!AddLane
<1>2. /\ Lanes \in Nat /\ kind \in R!Kinds /\ kind \in {"float", "signed", "unsigned"}
      /\ counter \in 0 .. Lanes - 1 /\ R!Word \in Nat \ {0}
      /\ acc[counter] \in R!Values(kind) /\ acc[counter] \in Int
      /\ result \in R!Values(kind) /\ result \in Int /\ R!SumRight
  <2>1. Lanes \in Nat /\ kind \in R!Kinds /\ counter \in 0 .. Lanes - 1 /\ counter \in R!Lane
    BY <1>1, Scalars DEF ReduceInv, ReduceTypes, R!Lane
  <2>2. R!Values(kind) \subseteq Int /\ kind \in {"float", "signed", "unsigned"} /\ R!Word \in Nat \ {0}
    BY <2>1, Scalars
  <2> QED
    BY <1>1, <2>1, <2>2 DEF ReduceInv, ReduceTypes, SumSoFar
<1>3. ReduceTypes' /\ LanesExtreme'
  BY <1>1, <1>2 DEF ReduceInv, ReduceTypes, LanesExtreme, R!Extreme
<1>4. SumSoFar'
  <2> DEFINE L == R!LaneSum
             x == acc[counter]
             r == result'
  <2>1. L' = L
    BY <1>1 DEF R!LaneSum
  <2>2. L[counter] \in Int /\ L[counter + 1] = L[counter] + x
    BY <1>2, LaneSums DEF ReduceInv
  <2>3. /\ r \in R!Values(kind)
        /\ kind = "unsigned" => r = (result + x) % R!Word
        /\ kind = "signed" => (result + x \in R!Finite(kind) => r = result + x)
        /\ kind = "float" => (r \in R!Finite(kind) => result \in R!Finite(kind) /\ r = result + x)
    <3> HIDE DEF x, r
    <3>1. r \in R!Sum(kind, result, x) /\ x \in R!Values(kind)
      BY <1>1, <1>2 DEF x, r
    <3> QED
      BY <1>2, <3>1, SumFacts
  <2>4. CASE kind = "unsigned"
    <3>1. result = L[counter] % R!Word
      BY <1>1, <1>2, <2>4 DEF R!SumRight
    <3>2. ((L[counter] % R!Word) + x) % R!Word = (L[counter] + x) % R!Word
      <4> HIDE DEF L, x
      <4>1. x \in Int
        BY <1>2 DEF x
      <4> DEFINE a == L[counter]
      <4>2. a \in Int
        BY <2>2
      <4> HIDE DEF a
      <4>3. ((a % R!Word) + x) % R!Word = (a + x) % R!Word
        BY <1>2, <4>1, <4>2, ReduceFirst
      <4> QED
        BY <4>3 DEF a
    <3>3. r = L[counter + 1] % R!Word
      BY <2>2, <2>3, <2>4, <3>1, <3>2
    <3> QED
      BY <1>1, <2>1, <2>3, <2>4, <3>3 DEF SumSoFar, R!SumRight
  <2>5. CASE kind = "signed"
    <3>1. ASSUME \A n \in 1 .. counter + 1 : L[n] \in R!Finite(kind)
          PROVE  r = L[counter + 1]
      <4>1. 1 .. counter \subseteq 1 .. counter + 1 /\ counter + 1 \in 1 .. counter + 1
        BY <1>2
      <4>2. result = L[counter]
        BY <1>1, <1>2, <2>5, <3>1, <4>1 DEF R!SumRight
      <4>3. result + x \in R!Finite(kind)
        BY <2>2, <3>1, <4>1, <4>2
      <4> QED
        BY <2>2, <2>3, <2>5, <4>2, <4>3
    <3> QED
      BY <1>1, <2>1, <2>3, <2>5, <3>1 DEF SumSoFar, R!SumRight
  <2>6. CASE kind = "float"
    <3>1. r \in R!Finite(kind) => r = L[counter + 1]
      BY <1>1, <1>2, <2>2, <2>3, <2>6 DEF R!SumRight
    <3> QED
      BY <1>1, <2>1, <2>3, <2>6, <3>1 DEF SumSoFar, R!SumRight
  <2> QED
    BY <1>2, <2>4, <2>5, <2>6
<1> QED
  BY <1>1, <1>3, <1>4 DEF ReduceInv, ExtremeSoFar, ConvertedSoFar

LEMMA ExtremeLaneStep ==
  ASSUME R!ReduceAssumption, ReduceInv, R!ExtremeLane
  PROVE  ReduceInv'
<1>1. /\ op = "ReduceExtreme" /\ op' = op /\ counter < Lanes /\ counter' = counter + 1
      /\ result' = IF R!Before(mode, acc[counter], result) THEN acc[counter] ELSE result
      /\ mode' = mode /\ kind' = kind /\ acc' = acc /\ live' = live /\ target' = target
  BY DEF R!ExtremeLane
<1>2. /\ Lanes \in Nat /\ kind \in R!Kinds /\ counter \in 0 .. Lanes - 1 /\ counter \in R!Lane
      /\ R!NaN \in Int /\ (\A i \in R!Lane : acc[i] \in Int) /\ mode \in {"Min", "Max"}
  <2>1. Lanes \in Nat /\ kind \in R!Kinds /\ counter \in 0 .. Lanes - 1 /\ counter \in R!Lane
    BY <1>1, Scalars DEF ReduceInv, ReduceTypes, R!Lane
  <2>2. R!Values(kind) \subseteq Int /\ R!NaN \in Int
    BY <2>1, Scalars
  <2> QED
    BY <2>1, <2>2 DEF ReduceInv, ReduceTypes
<1>3. ReduceTypes' /\ LanesExtreme'
  BY <1>1, <1>2 DEF ReduceInv, ReduceTypes, LanesExtreme, R!Extreme
<1> DEFINE last == R!Identity(op, mode, kind)
<1>4. /\ result \in Int \ {R!NaN} /\ last \in Int \ {R!NaN}
      /\ \A i \in R!Lane : i < counter => ~R!Before(mode, acc[i], result)
      /\ \/ result = last
         \/ \E i \in R!Lane : result = acc[i] /\ R!Before(mode, result, last)
  <2>1. last \in Int \ {R!NaN}
    BY <1>1, <1>2, Scalars DEF R!Identity
  <2> QED
    BY <1>1, <2>1 DEF ReduceInv, ExtremeSoFar
<1> HIDE DEF last
<1>5. ASSUME mode = "Min" PROVE ExtremeSoFar'
  <2>1. \A u, v \in Int : R!Before(mode, u, v) <=> u # R!NaN /\ v # R!NaN /\ u < v
    BY <1>5 DEF R!Before, R!Less
  <2>2. CASE R!Before(mode, acc[counter], result)
    <3>1. result' = acc[counter] /\ acc[counter] \in Int \ {R!NaN} /\ acc[counter] < result
      BY <1>1, <1>2, <1>4, <2>1, <2>2
    <3>2. ASSUME NEW i \in R!Lane, i < counter + 1 PROVE ~R!Before(mode, acc[i], result')
      <4>1. i < counter \/ i = counter
        BY <1>2, <3>2 DEF R!Lane
      <4> QED
        BY <1>2, <1>4, <2>1, <3>1, <4>1
    <3>3. R!Before(mode, result', last)
      BY <1>4, <1>2, <2>1, <3>1
    <3> QED
      BY <1>1, <1>2, <3>1, <3>2, <3>3 DEF ExtremeSoFar, last
  <2>3. CASE ~R!Before(mode, acc[counter], result)
    <3>1. ASSUME NEW i \in R!Lane, i < counter + 1 PROVE ~R!Before(mode, acc[i], result)
      <4>1. i < counter \/ i = counter
        BY <1>2, <3>1 DEF R!Lane
      <4> QED
        BY <1>4, <2>3, <4>1
    <3> QED
      BY <1>1, <1>4, <2>3, <3>1 DEF ExtremeSoFar, last
  <2> QED
    BY <2>2, <2>3
<1>6. ASSUME mode = "Max" PROVE ExtremeSoFar'
  <2>1. \A u, v \in Int : R!Before(mode, u, v) <=> u # R!NaN /\ v # R!NaN /\ v < u
    BY <1>6 DEF R!Before, R!Less
  <2>2. CASE R!Before(mode, acc[counter], result)
    <3>1. result' = acc[counter] /\ acc[counter] \in Int \ {R!NaN} /\ result < acc[counter]
      BY <1>1, <1>2, <1>4, <2>1, <2>2
    <3>2. ASSUME NEW i \in R!Lane, i < counter + 1 PROVE ~R!Before(mode, acc[i], result')
      <4>1. i < counter \/ i = counter
        BY <1>2, <3>2 DEF R!Lane
      <4> QED
        BY <1>2, <1>4, <2>1, <3>1, <4>1
    <3>3. R!Before(mode, result', last)
      BY <1>4, <1>2, <2>1, <3>1
    <3> QED
      BY <1>1, <1>2, <3>1, <3>2, <3>3 DEF ExtremeSoFar, last
  <2>3. CASE ~R!Before(mode, acc[counter], result)
    <3>1. ASSUME NEW i \in R!Lane, i < counter + 1 PROVE ~R!Before(mode, acc[i], result)
      <4>1. i < counter \/ i = counter
        BY <1>2, <3>1 DEF R!Lane
      <4> QED
        BY <1>4, <2>3, <4>1
    <3> QED
      BY <1>1, <1>4, <2>3, <3>1 DEF ExtremeSoFar, last
  <2> QED
    BY <2>2, <2>3
<1>7. ExtremeSoFar'
  BY <1>2, <1>5, <1>6
<1> QED
  BY <1>1, <1>3, <1>7 DEF ReduceInv, SumSoFar, ConvertedSoFar

LEMMA EndReduceStep ==
  ASSUME R!ReduceAssumption, ReduceInv, R!EndReduce
  PROVE  ReduceInv'
<1>1. /\ op' = "none" /\ counter' = 0
      /\ mode' = mode /\ kind' = kind /\ acc' = acc /\ live' = live /\ target' = target
  BY DEF R!EndReduce
<1>2. Lanes \in Nat
  BY DEF R!ReduceAssumption
<1>3. ReduceTypes' /\ LanesExtreme'
  BY <1>1, <1>2 DEF ReduceInv, ReduceTypes, LanesExtreme, R!Extreme
<1> QED
  BY <1>1, <1>3 DEF ReduceInv, ExtremeSoFar, SumSoFar, ConvertedSoFar

LEMMA StartConvertStep ==
  ASSUME R!ReduceAssumption, ReduceInv, NEW k \in R!Kinds, R!StartConvert(k)
  PROVE  ReduceInv'
<1>1. PICK x \in R!Finite(k) : out' = [i \in R!Lane |-> x]
  BY DEF R!StartConvert
<1>2. /\ op' = "Convert" /\ counter' = 0 /\ target' = k
      /\ mode' = mode /\ kind' = kind /\ acc' = acc /\ live' = live
  BY DEF R!StartConvert
<1>3. Lanes \in Nat /\ R!Finite(k) \subseteq R!Values(k)
  BY Scalars
<1>4. ReduceTypes' /\ LanesExtreme'
  BY <1>2, <1>3 DEF ReduceInv, ReduceTypes, LanesExtreme, R!Extreme
<1>5. ConvertedSoFar'
  <2>1. ASSUME NEW i \in R!Lane PROVE ~(i < 0)
    BY <1>3 DEF R!Lane
  <2>2. out' \in [R!Lane -> R!Values(k)]
    BY <1>1, <1>3
  <2> QED
    BY <1>2, <2>1, <2>2 DEF ConvertedSoFar
<1> QED
  BY <1>2, <1>4, <1>5 DEF ReduceInv, ExtremeSoFar, SumSoFar

LEMMA ConvertLaneStep ==
  ASSUME R!ReduceAssumption, ReduceInv, R!ConvertLane
  PROVE  ReduceInv'
<1>1. PICK x \in R!Cast(kind, target, acc[counter]) : out' = [out EXCEPT ![counter] = x]
  BY DEF R!ConvertLane
<1>2. /\ op = "Convert" /\ op' = op /\ counter < Lanes /\ counter' = counter + 1
      /\ mode' = mode /\ kind' = kind /\ acc' = acc /\ live' = live /\ target' = target
  BY DEF R!ConvertLane
<1>3. /\ Lanes \in Nat /\ kind \in R!Kinds /\ target \in R!Kinds
      /\ counter \in 0 .. Lanes - 1 /\ counter \in R!Lane /\ acc[counter] \in R!Values(kind)
      /\ out \in [R!Lane -> R!Values(target)]
      /\ \A i \in R!Lane : i < counter => out[i] \in R!Cast(kind, target, acc[i])
  BY <1>2, Scalars DEF ReduceInv, ReduceTypes, R!Lane, ConvertedSoFar
<1>4. ReduceTypes' /\ LanesExtreme'
  BY <1>2, <1>3 DEF ReduceInv, ReduceTypes, LanesExtreme, R!Extreme
<1>5. ConvertedSoFar'
  <2>1. x \in R!Values(target)
    BY <1>3, CastTypes
  <2>2. out' \in [R!Lane -> R!Values(target)]
    BY <1>1, <1>3, <2>1
  <2>3. ASSUME NEW i \in R!Lane, i < counter + 1
        PROVE  out'[i] \in R!Cast(kind, target, acc[i])
    <3>1. i < counter \/ i = counter
      BY <1>3, <2>3 DEF R!Lane
    <3>2. CASE i = counter
      BY <1>1, <1>3, <3>2
    <3>3. CASE i < counter
      BY <1>1, <1>3, <3>3
    <3> QED
      BY <3>1, <3>2, <3>3
  <2> QED
    BY <1>2, <2>2, <2>3 DEF ConvertedSoFar, R!Cast, R!Finite, R!Lowest, R!Highest
<1> QED
  BY <1>2, <1>4, <1>5 DEF ReduceInv, ExtremeSoFar, SumSoFar

LEMMA EndConvertStep ==
  ASSUME R!ReduceAssumption, ReduceInv, R!EndConvert
  PROVE  ReduceInv'
<1>1. /\ op = "Convert" /\ counter = Lanes /\ op' = "none" /\ counter' = 0
      /\ acc' = out /\ kind' = target /\ mode' = mode /\ target' = target
      /\ live' = [i \in R!Lane |->
                    R!Numbers(IF acc[i] \in R!Finite(target) THEN {acc[i]} ELSE {out[i]})]
  BY DEF R!EndConvert
<1>2. /\ Lanes \in Nat /\ kind \in R!Kinds /\ target \in R!Kinds
      /\ R!Values(target) \subseteq Int /\ mode \in {"Min", "Max"}
      /\ R!NaN \notin R!Finite(target)
      /\ out \in [R!Lane -> R!Values(target)]
  BY <1>1, Scalars DEF ReduceInv, ReduceTypes, ConvertedSoFar
<1>3. ASSUME NEW i \in R!Lane
      PROVE  acc[i] \in R!Finite(target) => out[i] = acc[i]
  <2>1. out[i] \in R!Cast(kind, target, acc[i]) /\ acc[i] \in R!Values(kind)
    BY <1>1, <1>2 DEF ReduceInv, ReduceTypes, ConvertedSoFar, R!Lane
  <2> QED
    BY <1>2, <2>1, CastTypes
<1>4. live' = [i \in R!Lane |-> {out[i]} \ {R!NaN}]
  BY <1>1, <1>3 DEF R!Numbers
<1>5. ReduceTypes'
  <2>1. \A i \in R!Lane : out[i] \in Int
    BY <1>2
  <2>2. live' \in [R!Lane -> SUBSET (Int \ {R!NaN})]
    BY <1>4, <2>1
  <2>3. acc' \in [R!Lane -> R!Values(kind')]
    BY <1>1, <1>2
  <2>4. /\ mode' \in {"Min", "Max"} /\ kind' \in R!Kinds /\ target' \in R!Kinds
        /\ op' = "none" /\ counter' \in 0 .. Lanes
    BY <1>1, <1>2
  <2> QED
    BY <2>2, <2>3, <2>4 DEF ReduceTypes
<1>6. LanesExtreme'
  <2>1. ASSUME NEW i \in R!Lane
        PROVE  IF live'[i] = {} THEN acc'[i] = R!NaN
               ELSE acc'[i] \in live'[i] /\ \A y \in live'[i] : ~R!Before(mode, y, acc'[i])
    <3>1. acc'[i] = out[i] /\ live'[i] = {out[i]} \ {R!NaN} /\ out[i] \in Int
      BY <1>1, <1>2, <1>4
    <3>2. ~R!Before(mode, out[i], out[i])
      BY <3>1 DEF R!Before, R!Less
    <3> QED
      BY <3>1, <3>2
  <2> QED
    BY <1>1, <2>1 DEF LanesExtreme, R!Extreme
<1> QED
  BY <1>1, <1>5, <1>6 DEF ReduceInv, ExtremeSoFar, SumSoFar, ConvertedSoFar

LEMMA ReduceStep ==
  ASSUME R!ReduceAssumption, ReduceInv, [R!Next]_R!vars
  PROVE  ReduceInv'
<1>1. CASE R!Fold
  BY <1>1, FoldStep
<1>2. CASE R!FoldTwo
  BY <1>2, FoldTwoStep
<1>3. ASSUME NEW o \in R!Reductions, R!StartReduce(o) PROVE ReduceInv'
  BY <1>3, StartReduceStep
<1>4. CASE R!AddLane
  BY <1>4, AddLaneStep
<1>5. CASE R!ExtremeLane
  BY <1>5, ExtremeLaneStep
<1>6. CASE R!EndReduce
  BY <1>6, EndReduceStep
<1>7. ASSUME NEW k \in R!Kinds, R!StartConvert(k) PROVE ReduceInv'
  BY <1>7, StartConvertStep
<1>8. CASE R!ConvertLane
  BY <1>8, ConvertLaneStep
<1>9. CASE R!EndConvert
  BY <1>9, EndConvertStep
<1>10. CASE UNCHANGED R!vars
  <2>1. /\ mode' = mode /\ kind' = kind /\ acc' = acc /\ live' = live /\ op' = op
        /\ target' = target /\ counter' = counter /\ result' = result /\ out' = out
    BY <1>10 DEF R!vars
  <2>2. ReduceTypes' /\ LanesExtreme'
    BY <2>1 DEF ReduceInv, ReduceTypes, LanesExtreme, R!Extreme
  <2>3. ExtremeSoFar'
    BY <2>1 DEF ReduceInv, ExtremeSoFar
  <2>4. R!LaneSum' = R!LaneSum
    BY <2>1 DEF R!LaneSum
  <2>5. SumSoFar'
    BY <2>1, <2>4 DEF ReduceInv, SumSoFar, R!SumRight
  <2>6. ConvertedSoFar'
    BY <2>1 DEF ReduceInv, ConvertedSoFar
  <2> QED
    BY <2>2, <2>3, <2>5, <2>6 DEF ReduceInv
<1> QED
  BY <1>1, <1>2, <1>3, <1>4, <1>5, <1>6, <1>7, <1>8, <1>9, <1>10 DEF R!Next

\* The extreme over the lanes is the extreme of everything that is left in any.
LEMMA ExtremeAtEnd ==
  ASSUME R!ReduceAssumption, ReduceInv
  PROVE  R!ExtremeOfAll
<1> SUFFICES ASSUME op = "ReduceExtreme", counter = Lanes
             PROVE  R!ExtremeOfAll
  BY DEF R!ExtremeOfAll
<1> DEFINE All  == UNION {live[i] : i \in R!Lane}
           last == R!Identity(op, mode, kind)
<1>1. /\ mode \in {"Min", "Max"} /\ last \in Int \ {R!NaN} /\ R!NaN \in Int
      /\ last = IF mode = "Min" THEN R!Highest(kind) ELSE R!Lowest(kind)
  BY Scalars DEF ReduceInv, ReduceTypes, R!Identity
<1>2. /\ result \in Int \ {R!NaN}
      /\ \A i \in R!Lane : ~R!Before(mode, acc[i], result)
      /\ \/ result = last
         \/ \E i \in R!Lane : result = acc[i] /\ R!Before(mode, result, last)
  <2>1. \A i \in R!Lane : i < counter
    BY Scalars DEF ReduceInv, ReduceTypes, R!Lane
  <2> QED
    BY <2>1 DEF ReduceInv, ExtremeSoFar
<1>3. ASSUME NEW i \in R!Lane
      PROVE  /\ live[i] \in SUBSET (Int \ {R!NaN})
             /\ live[i] = {} => acc[i] = R!NaN
             /\ live[i] # {} => acc[i] \in live[i]
             /\ \A x \in live[i] : ~R!Before(mode, x, acc[i])
  BY DEF ReduceInv, ReduceTypes, LanesExtreme, R!Extreme
<1>4. All \in SUBSET (Int \ {R!NaN}) /\ \A i \in R!Lane : live[i] \subseteq All
  BY <1>3
<1>5. ASSUME NEW x \in All PROVE ~R!Before(mode, x, result)
  <2>1. PICK i \in R!Lane : x \in live[i]
    OBVIOUS
  <2>2. /\ x \in Int \ {R!NaN} /\ acc[i] \in Int \ {R!NaN}
        /\ ~R!Before(mode, x, acc[i]) /\ ~R!Before(mode, acc[i], result)
    BY <1>2, <1>3, <2>1
  <2>3. CASE mode = "Min"
    BY <1>2, <2>2, <2>3 DEF R!Before, R!Less
  <2>4. CASE mode = "Max"
    BY <1>2, <2>2, <2>4 DEF R!Before, R!Less
  <2> QED
    BY <1>1, <2>3, <2>4
<1>6. ASSUME NEW x \in All, ~R!Before(mode, last, x)
      PROVE  result \in All
  <2>1. CASE result = last
    <3>1. ~R!Before(mode, x, last) /\ x \in Int \ {R!NaN}
      BY <1>4, <1>5, <2>1
    <3>2. x = last
      <4>1. CASE mode = "Min"
        BY <1>1, <1>6, <3>1, <4>1 DEF R!Before, R!Less
      <4>2. CASE mode = "Max"
        BY <1>1, <1>6, <3>1, <4>2 DEF R!Before, R!Less
      <4> QED
        BY <1>1, <4>1, <4>2
    <3> QED
      BY <2>1, <3>2
  <2>2. CASE \E i \in R!Lane : result = acc[i]
    <3>1. PICK i \in R!Lane : result = acc[i]
      BY <2>2
    <3>2. acc[i] \in live[i]
      BY <1>2, <1>3, <3>1
    <3> QED
      BY <1>4, <3>1, <3>2
  <2> QED
    BY <1>2, <2>1, <2>2
<1>7. ASSUME \A x \in All : R!Before(mode, last, x)
      PROVE  result = last
  <2> SUFFICES ASSUME NEW i \in R!Lane, result = acc[i], R!Before(mode, result, last)
               PROVE  FALSE
    BY <1>2
  <2>1. result \in All
    BY <1>2, <1>3, <1>4
  <2>2. R!Before(mode, last, result)
    BY <1>7, <2>1
  <2>3. CASE mode = "Min"
    BY <1>1, <1>2, <2>2, <2>3 DEF R!Before, R!Less
  <2>4. CASE mode = "Max"
    BY <1>1, <1>2, <2>2, <2>4 DEF R!Before, R!Less
  <2> QED
    BY <1>1, <2>3, <2>4
<1>8. IF \E x \in All : ~R!Before(mode, last, x) THEN R!Extreme(result, All) ELSE result = last
  <2> HIDE DEF All, last
  <2> QED
    BY <1>5, <1>6, <1>7 DEF R!Extreme
<1> QED
  BY <1>1, <1>8 DEF R!ExtremeOfAll

\* Whatever registers are folded and converted, a minimum or maximum over the
\* lanes is that of all that no later NaN has wiped out, or the identity when
\* nothing is left, and a sum over them is their sum as far as the type can
\* hold it (include/VecCore/VecMath.h:71-104,
\* include/VecCore/Backend/Implementation.h:294-337).
THEOREM ReduceRight ==
  ASSUME R!ReduceAssumption
  PROVE  R!Spec => []ReductionsRight
<1>1. R!Init => ReduceInv
  BY ReduceInit
<1>2. ReduceInv /\ [R!Next]_R!vars => ReduceInv'
  BY ReduceStep
<1>3. ReduceInv => ReductionsRight
  BY ExtremeAtEnd DEF ReductionsRight, R!ReductionsRight, R!SumRight, ReduceInv, SumSoFar
<1> QED
  BY <1>1, <1>2, <1>3, PTL DEF R!Spec
=============================================================================
