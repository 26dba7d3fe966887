--------------------------- MODULE StorageManager ---------------------------
(***************************************************************************)
(* What the storage managers share: the parameters of the interface        *)
(* StorageManagerInterface and the flat memory of class Storage, a vector  *)
(* of StorageSize machine integers whose accesses are bounds-checked       *)
(* (std::vector::at).  An exception nobody catches ends the process, so    *)
(* every manager has a variable "crashed".                                 *)
(*                                                                         *)
(* Only load gives its caller something: an action Load(t, a, v) is a load *)
(* that returns v.                                                         *)
(***************************************************************************)
EXTENDS MachineInt

CONSTANTS
    Thread,       \* the ids of the simulated threads
    StorageSize,  \* how many locations the memory has (10 in main.cpp)
    Address,      \* the addresses the programs use, in range or not
    Value,        \* the values the programs store, compare with and swap in
    Increment     \* the increments of their fetch-and-increments

Location == 0 .. (StorageSize - 1)

ASSUME StorageAssumption ==
    /\ StorageSize \in Nat
    /\ Address \subseteq Nat
    /\ Location \subseteq Address
    /\ Value \subseteq Int32
    /\ Increment \subseteq Int32

Memory == [Location -> Int32]

ZeroedMemory == [l \in Location |-> 0]

(***************************************************************************)
(* The memory after compareAndSwap and fetchAndIncrement on address a.     *)
(***************************************************************************)
Swapped(mem, a, expected, new) ==
    IF mem[a] = expected THEN [mem EXCEPT ![a] = new] ELSE mem

Incremented(mem, a, increment) ==
    [mem EXCEPT ![a] = Plus32(@, increment)]
=============================================================================
