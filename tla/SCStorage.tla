------------------------------ MODULE SCStorage ------------------------------
(***************************************************************************)
(* SequentialConsistencyStorageManager: every operation works on the one   *)
(* memory at once, a fence does nothing and there is no internal update.   *)
(***************************************************************************)
EXTENDS StorageManager, Sequences

VARIABLES
    storage,   \* m_storage
    crashed    \* an uncaught exception has ended the process

vars == <<storage, crashed>>

TypeOK == storage \in Memory /\ crashed \in BOOLEAN

Init == storage = ZeroedMemory /\ crashed = FALSE
-----------------------------------------------------------------------------
Load(t, a, v) ==
    /\ ~crashed
    /\ a \in Location
    /\ v = storage[a]
    /\ UNCHANGED vars

Store(t, a, v) ==
    /\ ~crashed
    /\ a \in Location
    /\ storage' = [storage EXCEPT ![a] = v]
    /\ UNCHANGED crashed

CompareAndSwap(t, a, expected, new) ==
    /\ ~crashed
    /\ a \in Location
    /\ storage' = Swapped(storage, a, expected, new)
    /\ UNCHANGED crashed

FetchAndIncrement(t, a, increment) ==
    /\ ~crashed
    /\ a \in Location
    /\ storage' = Incremented(storage, a, increment)
    /\ UNCHANGED crashed

Fence(t) == ~crashed /\ UNCHANGED vars

(* Any access to an address out of range: m_storage.at(address) throws.    *)
BadAccess(t, a) ==
    /\ ~crashed
    /\ a \notin Location
    /\ crashed' = TRUE
    /\ UNCHANGED storage
-----------------------------------------------------------------------------
Next ==
    \/ \E t \in Thread, a \in Address :
          \/ \E v \in Int32 : Load(t, a, v)
          \/ \E v \in Value : Store(t, a, v)
          \/ \E expected, new \in Value : CompareAndSwap(t, a, expected, new)
          \/ \E increment \in Increment : FetchAndIncrement(t, a, increment)
          \/ BadAccess(t, a)
    \/ \E t \in Thread : Fence(t)

Spec == Init /\ [][Next]_vars
-----------------------------------------------------------------------------
(***************************************************************************)
(* The manager keeps the promises of StoreBuffers: no store ever waits.    *)
(***************************************************************************)
Promise == INSTANCE StoreBuffers WITH
    memory  <- storage,
    pending <- [t \in Thread |-> [a \in Address |-> <<>>]]

ImplementsStoreBuffers == Promise!Spec
=============================================================================
