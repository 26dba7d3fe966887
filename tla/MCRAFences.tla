----------------------------- MODULE MCRAFences -----------------------------
(***************************************************************************)
(* Both models under programs of relaxed accesses that synchronise by      *)
(* fences: acquire, release and SC ones and those that are both an acquire *)
(* and a release.  There is room for two appended writes and one before    *)
(* each of them at the fence location, so that a fence of a thread can     *)
(* read what a fence of the other has written and write after it, and for  *)
(* one write of either kind at the program's location.  Increments leave   *)
(* values that a compare-and-swap does not expect.                         *)
(***************************************************************************)
EXTENDS RAOrder, TLC

CONSTANTS t1, t2

OneBitIncrement == {-1}

TimeBound == [l \in LogLocation |-> IF l = FenceLocation THEN 4 ELSE 2]

(* Nothing that is checked here depends on observed, nor does any step: it *)
(* records what NeverReadsBack is about.                                   *)
WithoutObserved == <<vars, updates, origins, fenced, failed>>

ThreadSymmetry == Permutations({t1, t2})
=============================================================================
