---------------------------- MODULE VecInterface ----------------------------
(***************************************************************************)
(* What VecCore's backend interface promises to kernels, whatever backend  *)
(* is selected: an operation is one step on the memory.  When no lane      *)
(* writes what a later lane reads, the step is the vector operation (all   *)
(* lanes read the memory as it was at the call); otherwise the cells of    *)
(* the destination are unspecified.  No other cell ever changes.           *)
(***************************************************************************)
EXTENDS VecMemory

VARIABLE vmem

Init == vmem \in [Addr -> Val]

Perform(c) ==
  /\ vmem' \in [Addr -> Val]
  /\ \A x \in Addr \ Footprint(c) : vmem'[x] = vmem[x]
  /\ LanesIndependent(c, vmem) => AfterLanes(c, vmem, VS, vmem')

Next == \E c \in Calls : Perform(c)

Spec == Init /\ [][Next]_vmem
=============================================================================
