---------------------------- MODULE MCRAAcqRel ----------------------------
(***************************************************************************)
(* The RA model under programs that use REL_ACQ accesses only.  There is   *)
(* room for two appended writes and for one before each of them; a write   *)
(* before that one finds no timestamp.                                     *)
(***************************************************************************)
EXTENDS RAOrder, TLC

CONSTANTS t1, t2

OneBitIncrement == {-1}

TimeBound == [l \in LogLocation |-> 4]

ThreadSymmetry == Permutations({t1, t2})
=============================================================================
