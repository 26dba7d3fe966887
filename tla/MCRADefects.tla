---------------------------- MODULE MCRADefects ----------------------------
(***************************************************************************)
(* Small instances of RAOrder on which the code does not do what its       *)
(* documentation or its assertions say; each configuration is one of them. *)
(***************************************************************************)
EXTENDS RAOrder, TLC

CONSTANTS t1, t2

OneBitIncrement == {-1}
TimeBound == [l \in LogLocation |-> 12]

ThreadSymmetry == Permutations({t1, t2})

(***************************************************************************)
(* A thread always has a message its next store may go right after: the    *)
(* assert(false) that ends findPosOfNthMessageNotUsedInAtomicUpdates       *)
(* (ReleaseAcquireStorageManager.cpp:61) says that the message drawn from  *)
(* them is found.                                                          *)
(***************************************************************************)
StoresFindAMessage ==
    \A t \in Thread, a \in Address :
        Unused(Available(messages[a], threadViews[t], a)) # {}
=============================================================================
