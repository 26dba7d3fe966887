----------------------------- MODULE MCRAMixed -----------------------------
(***************************************************************************)
(* Both models and both managers under programs that mix access modes and  *)
(* fences.  In the code SEQ_CST accesses behave as RLX ones, and REL and   *)
(* ACQ accesses as the halves of REL_ACQ ones.  Values play no part in     *)
(* timestamps and views, so that every access writes 0 here; MCRAAcqRel    *)
(* has the compare-and-swaps that fail.                                    *)
(***************************************************************************)
EXTENDS RAStorage, TLC

CONSTANTS t1, t2

TimeBound == [l \in LogLocation |-> IF l = FenceLocation THEN 2 ELSE 4]

ThreadSymmetry == Permutations({t1, t2})
=============================================================================
