----------------------------- MODULE VecBackend -----------------------------
(***************************************************************************)
(* VecCore's backends (include/VecCore/Backend): how an operation of the   *)
(* interface is carried out on the memory, one lane or one register        *)
(* instruction at a time.                                                  *)
(*                                                                         *)
(*   generic   Implementation.h: every operation is a loop over the lanes  *)
(*   simd      SIMD.h (std::experimental::simd): loads, stores, gathers    *)
(*             and scatters are lane loops, the index register is          *)
(*             converted to integers before the loop; masking is where()   *)
(*   vc        VcVector.h, VcSimdArray.h: whole-register instructions,     *)
(*             except Gather and Scatter, which are the generic loops      *)
(*   ume       UMESimdCommon.h: likewise                                   *)
(* and, for registers of one lane,                                         *)
(*   scalar    Scalar.h: the generic loops, with masking by if and ?:      *)
(*   wrapper   ScalarWrapper.h: likewise                                   *)
(*   vcscalar  VcScalar.h: the generic loops, with masking as in vc        *)
(*                                                                         *)
(* The backend is chosen when the program is compiled.                     *)
(***************************************************************************)
EXTENDS VecMemory

VARIABLES
  backend,  \* the backend compiled in
  mem,      \* the memory
  mem0,     \* the memory when the current call began
  call,     \* the call in progress, or NoCall
  phase,    \* "idle", "lanes", "whole", "second", "return"
  lane,     \* the loop counter i
  ret       \* the local register v of an operation that returns a register

vars == <<backend, mem, mem0, call, phase, lane, ret>>

OneLane  == {"scalar", "wrapper", "vcscalar"}
Backends == {"generic", "simd", "vc", "ume"} \cup (IF VS = 1 THEN OneLane ELSE {})
VcLike   == {"vc", "vcscalar"}
NoCall   == [op |-> "none"]

\* The operations that a backend carries out lane by lane.
LaneLoop(b, op) ==
  \/ b = "generic"
  \/ b \in {"simd"} \cup OneLane /\ op \notin {"MaskedAssign", "Blend"}
  \/ op \in {"Gather", "Scatter"}

Init ==
  /\ backend \in Backends
  /\ mem \in [Addr -> Val]
  /\ mem0 = mem
  /\ call = NoCall
  /\ phase = "idle"
  /\ lane = 0
  /\ ret = [i \in Lane |-> 0]

\* A returned register starts as `T v{}', or as `T v' in FromPtr: its content
\* before the lanes are set is arbitrary.
Start(c) ==
  /\ phase = "idle"
  /\ call' = c
  /\ phase' = IF LaneLoop(backend, c.op) THEN "lanes" ELSE "whole"
  /\ IF c.op \in ValueOps THEN ret' \in [Lane -> Val] ELSE ret' = ret
  /\ UNCHANGED <<backend, mem, mem0, lane>>

\* The memory from which Scatter's index register is read in the loop: the
\* live register, or the integer copy that SIMD.h takes before the loop.
IndexMemory == IF backend = "simd" THEN mem0 ELSE mem

\* Mutant: the loop of MaskedAssign sets every lane.
SetLaneUnmasked ==
  /\ phase = "lanes" /\ lane < VS /\ call.op \notin ValueOps
  /\ mem' = [mem EXCEPT ![Target(call, IndexMemory, lane)] =
                           Result(call, mem, lane)]
  /\ lane' = lane + 1
  /\ UNCHANGED <<backend, mem0, call, phase, ret>>

\* One iteration of a loop that writes through its destination.
SetLane ==
  /\ phase = "lanes" /\ lane < VS /\ call.op \notin ValueOps
  /\ mem' = IF Writes(call, mem, lane)
              THEN [mem EXCEPT ![Target(call, IndexMemory, lane)] =
                                  Result(call, mem, lane)]
              ELSE mem
  /\ lane' = lane + 1
  /\ UNCHANGED <<backend, mem0, call, phase, ret>>

\* Mutant: the loop fills the register the result is assigned to, through a
\* reference, instead of a local.
SetLocalLaneInPlace ==
  /\ phase = "lanes" /\ lane < VS /\ call.op \in ValueOps
  /\ ret' = [ret EXCEPT ![lane] = Result(call, mem, lane)]
  /\ mem' = [mem EXCEPT ![call.dst + lane] = Result(call, mem, lane)]
  /\ lane' = lane + 1
  /\ UNCHANGED <<backend, mem0, call, phase>>

\* One iteration of a loop that fills the local register v.
SetLocalLane ==
  /\ phase = "lanes" /\ lane < VS /\ call.op \in ValueOps
  /\ ret' = [ret EXCEPT ![lane] = Result(call, mem, lane)]
  /\ lane' = lane + 1
  /\ UNCHANGED <<backend, mem, mem0, call, phase>>

Finish ==
  /\ mem0' = mem'
  /\ call' = NoCall
  /\ phase' = "idle"
  /\ lane' = 0
  /\ ret' = [i \in Lane |-> 0]
  /\ UNCHANGED backend

EndLoop ==
  /\ phase = "lanes" /\ lane = VS /\ call.op \notin ValueOps
  /\ UNCHANGED mem
  /\ Finish

\* The returned register is copied into the register it is assigned to.
ReturnValue ==
  /\ \/ phase = "lanes" /\ lane = VS /\ call.op \in ValueOps
     \/ phase = "return"
  /\ mem' = [x \in Addr |-> IF x - call.dst \in Lane THEN ret[x - call.dst]
                                                      ELSE mem[x]]
  /\ Finish

\* v.load(p), v.store(p), dst(mask) = src, dst.assign(mask, src),
\* where(mask, dst) = src: one register instruction.
WholeRegister ==
  /\ phase = "whole" /\ call.op \notin ValueOps
  /\ mem' = [x \in Addr |->
               IF x - call.dst \in Lane /\ Writes(call, mem, x - call.dst)
                 THEN Result(call, mem, x - call.dst) ELSE mem[x]]
  /\ Finish

WholeLoad ==
  /\ phase = "whole" /\ call.op = "LoadValue"
  /\ ret' = [i \in Lane |-> Result(call, mem, i)]
  /\ phase' = "return"
  /\ UNCHANGED <<backend, mem, mem0, call, lane>>

Selected(i) == mem[call.sel + i] # 0

\* Vc: dst = src2.  std::simd: where(mask, dst) = src1.
\* UME: dst = src2.blend(mask, src1).  One lane: dst = mask ? src1 : src2.
BlendFirst ==
  /\ phase = "whole" /\ call.op = "Blend"
  /\ ret' = [i \in Lane |->
               CASE backend \in VcLike                   -> mem[call.alt + i]
                 [] backend = "simd" /\ ~Selected(i)     -> ret[i]
                 [] OTHER                                -> Result(call, mem, i)]
  /\ phase' = IF backend \in VcLike \cup {"simd"} THEN "second" ELSE "return"
  /\ UNCHANGED <<backend, mem, mem0, call, lane>>

\* Mutant: std::simd's second assignment uses the mask, not its complement.
BlendSecondSameMask ==
  /\ phase = "second"
  /\ ret' = [i \in Lane |->
               CASE ~Selected(i)       -> ret[i]
                 [] backend \in VcLike -> Result(call, mem, i)
                 [] OTHER              -> mem[call.alt + i]]
  /\ phase' = "return"
  /\ UNCHANGED <<backend, mem, mem0, call, lane>>

\* Vc: dst(mask) = src1.  std::simd: where(!mask, dst) = src2.
BlendSecond ==
  /\ phase = "second"
  /\ ret' = [i \in Lane |->
               IF Selected(i) <=> backend \in VcLike THEN Result(call, mem, i)
                                                 ELSE ret[i]]
  /\ phase' = "return"
  /\ UNCHANGED <<backend, mem, mem0, call, lane>>

Next ==
  \/ \E c \in Calls : Start(c)
  \/ SetLane
  \/ SetLocalLane
  \/ EndLoop
  \/ ReturnValue
  \/ WholeRegister
  \/ WholeLoad
  \/ BlendFirst
  \/ BlendSecond

Spec == Init /\ [][Next]_vars

-----------------------------------------------------------------------------
TypeOK ==
  /\ backend \in Backends
  /\ mem \in [Addr -> Val]
  /\ mem0 \in [Addr -> Val]
  /\ phase \in {"idle", "lanes", "whole", "second", "return"}
  /\ IF phase = "idle" THEN call = NoCall ELSE call \in Calls
  /\ lane \in 0 .. VS
  /\ ret \in [Lane -> Val]

\* While a loop is under way the memory differs from the memory at the call
\* only in the destination: no operation disturbs another register or array,
\* even one whose index register is overwritten while it is being read.
DestinationOnly ==
  \A x \in Addr :
    phase = "idle" \/ x \notin Footprint(call) => mem[x] = mem0[x]

\* After i iterations the memory is what the first i lanes make of the memory
\* at the call: the lanes not yet executed still see their operands as they
\* were, so the loop cannot be told from one vector instruction.
LoopIsVector ==
  phase = "lanes" /\ call.op \notin ValueOps /\ LanesIndependent(call, mem0)
    => AfterLanes(call, mem0, lane, mem)

\* A register returned by value (Load<T>, Gather, Blend) holds, in every lane,
\* the operation's result on the memory at the call: nothing of the local's
\* earlier content, and no operand already overwritten by the assignment of
\* the result (idx = Gather(p, idx), v = Blend(m, a, v)).
ReturnedLanes ==
  /\ phase = "return" => \A i \in Lane : ret[i] = Result(call, mem0, i)
  /\ phase = "lanes" /\ call.op \in ValueOps
       => \A i \in 0 .. lane - 1 : ret[i] = Result(call, mem0, i)

\* Up to its last lane, and when it returns, an operation is one vector
\* instruction on the memory at the call, whatever its operands share.
ActsOnVectors == DestinationOnly /\ LoopIsVector /\ ReturnedLanes

\* Every backend implements the interface: the client sees mem0, which
\* changes only when an operation returns.
Interface == INSTANCE VecInterface WITH vmem <- mem0
ImplementsInterface == Interface!Spec
=============================================================================
