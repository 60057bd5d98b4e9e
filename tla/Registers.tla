----------------------------- MODULE Registers -----------------------------
(***************************************************************************)
(* What VecCore does with registers: a backend's operations, and, with     *)
(* variables of their own, the reductions and conversions.  Neither uses   *)
(* anything of the other.                                                  *)
(***************************************************************************)
EXTENDS VecBackend

CONSTANTS
  Lanes,   \* the number of lanes of the registers that are reduced
  Lim,     \* the largest signed integer
  Inputs,  \* the scalars that these are filled with, of each type
  MaxOps   \* bound on the number of folds and conversions

VARIABLES mode, kind, acc, live, op, target, counter, result, out, ops

R == INSTANCE Reduce WITH VS <- Lanes, lane <- counter

\* A register reduced to a scalar gives its extreme or its sum; see Reduce
\* (Implementation.h:294-326).
ReductionsRight == R!ReductionsRight
=============================================================================
