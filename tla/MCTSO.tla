------------------------------- MODULE MCTSO -------------------------------
(***************************************************************************)
(* Two threads over a memory of two locations; address 2 is out of range.  *)
(* The machine integers have one bit (MaxInt = 0), so every increment      *)
(* overflows.                                                              *)
(***************************************************************************)
EXTENDS TSOStorage, TLC

CONSTANTS t1, t2

OneBitValues == {-1, 0}
OneBitIncrement == {-1}

ThreadSymmetry == Permutations({t1, t2})
=============================================================================
