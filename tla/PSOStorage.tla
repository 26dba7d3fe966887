----------------------------- MODULE PSOStorage -----------------------------
(***************************************************************************)
(* PartialStoreOrderStorageManager: one shared memory and, per thread and  *)
(* location, one FIFO store buffer.  An atomic update flushes the buffer   *)
(* of its own location only; a fence flushes every buffer of its thread.   *)
(* The buffers are a vector per thread, indexed by address with a bounds   *)
(* check, so that every operation on an address out of range throws.       *)
(***************************************************************************)
EXTENDS StorageManager, Sequences

CONSTANT MaxBuffer  \* bound: a buffer of the code grows without limit

ASSUME BufferAssumption == MaxBuffer \in Nat

VARIABLES
    storage,   \* m_storage
    buffers,   \* m_threadBuffers: per thread and location
    crashed    \* an uncaught exception has ended the process

vars == <<storage, buffers, crashed>>

TypeOK ==
    /\ storage \in Memory
    /\ buffers \in [Thread -> [Location -> Seq(Int32)]]
    /\ crashed \in BOOLEAN

Init ==
    /\ storage = ZeroedMemory
    /\ buffers = [t \in Thread |-> [l \in Location |-> <<>>]]
    /\ crashed = FALSE
-----------------------------------------------------------------------------
(***************************************************************************)
(* AddressBuffer::last, or the memory: what a thread reads at location l.  *)
(***************************************************************************)
Through(mem, buffer, l) ==
    IF buffer[l] # <<>> THEN buffer[l][Len(buffer[l])] ELSE mem[l]

(***************************************************************************)
(* The memory and the buffers of a thread once flushBuffer has propagated  *)
(* its stores to the locations ls, in closed form: the newest store to a   *)
(* location is the last to get there.                                      *)
(***************************************************************************)
Flushed(mem, buffer, ls) ==
    [l \in Location |-> IF l \in ls THEN Through(mem, buffer, l) ELSE mem[l]]

Emptied(buffer, ls) ==
    [l \in Location |-> IF l \in ls THEN <<>> ELSE buffer[l]]

(* An uncaught std::out_of_range.                                          *)
Abort == crashed' = TRUE /\ UNCHANGED <<storage, buffers>>
-----------------------------------------------------------------------------
Load(t, a, v) ==
    /\ ~crashed
    /\ a \in Location
    /\ v = Through(storage, buffers[t], a)
    /\ UNCHANGED vars

Store(t, a, v) ==
    /\ ~crashed
    /\ a \in Location
    /\ Len(buffers[t][a]) < MaxBuffer
    /\ buffers' = [buffers EXCEPT ![t][a] = Append(@, v)]
    /\ UNCHANGED <<storage, crashed>>

(* flushBuffer on the locations ls, which leaves the memory mem.           *)
FlushThen(t, ls, mem) ==
    /\ storage' = mem
    /\ buffers' = [buffers EXCEPT ![t] = Emptied(@, ls)]
    /\ UNCHANGED crashed

(* Mutant of CompareAndSwap: flushBuffer is forgotten.                     *)
CompareAndSwapUnflushed(t, a, expected, new) ==
    /\ ~crashed
    /\ a \in Location
    /\ storage' = Swapped(storage, a, expected, new)
    /\ UNCHANGED <<buffers, crashed>>

CompareAndSwap(t, a, expected, new) ==
    /\ ~crashed
    /\ a \in Location
    /\ FlushThen(t, {a},
                 Swapped(Flushed(storage, buffers[t], {a}), a, expected, new))

FetchAndIncrement(t, a, increment) ==
    /\ ~crashed
    /\ a \in Location
    /\ FlushThen(t, {a},
                 Incremented(Flushed(storage, buffers[t], {a}), a, increment))

Fence(t) ==
    /\ ~crashed
    /\ FlushThen(t, Location, Flushed(storage, buffers[t], Location))

(* Any operation on an address out of range: m_buffer.at(address) throws.  *)
BadAccess(t, a) == ~crashed /\ a \notin Location /\ Abort

(* Mutant of Propagate: the newest store goes first.                       *)
PropagateNewest(t, l) ==
    /\ ~crashed
    /\ buffers[t][l] # <<>>
    /\ storage' = [storage EXCEPT ![l] = buffers[t][l][Len(buffers[t][l])]]
    /\ buffers' = [buffers EXCEPT ![t][l] = SubSeq(@, 1, Len(@) - 1)]
    /\ UNCHANGED crashed

(* propagate: the oldest store of a non-empty buffer reaches the memory.   *)
Propagate(t, l) ==
    /\ ~crashed
    /\ buffers[t][l] # <<>>
    /\ storage' = [storage EXCEPT ![l] = Head(buffers[t][l])]
    /\ buffers' = [buffers EXCEPT ![t][l] = Tail(@)]
    /\ UNCHANGED crashed

(***************************************************************************)
(* internalUpdate tries the pairs of a thread and a location in a shuffled *)
(* order (or asks the user for a non-empty buffer) until one propagates.   *)
(***************************************************************************)
InternalUpdate == \E t \in Thread, l \in Location : Propagate(t, l)
-----------------------------------------------------------------------------
Next ==
    \/ \E t \in Thread, a \in Address :
          \/ \E v \in Int32 : Load(t, a, v)
          \/ \E v \in Value : Store(t, a, v)
          \/ \E expected, new \in Value : CompareAndSwap(t, a, expected, new)
          \/ \E increment \in Increment : FetchAndIncrement(t, a, increment)
          \/ BadAccess(t, a)
    \/ \E t \in Thread : Fence(t)
    \/ InternalUpdate

Spec == Init /\ [][Next]_vars
-----------------------------------------------------------------------------
View(t, l) == Through(storage, buffers[t], l)

Writes(t, l) ==
    \/ \E v \in Value : Store(t, l, v)
    \/ \E expected, new \in Value : CompareAndSwap(t, l, expected, new)
    \/ \E increment \in Increment : FetchAndIncrement(t, l, increment)

(***************************************************************************)
(* What a thread sees at a location changes only when the thread itself    *)
(* writes there, or when it has nothing buffered for that location and     *)
(* somebody else's write reaches the memory: no propagation, flush or      *)
(* fence makes a thread lose sight of its own newest store.                *)
(***************************************************************************)
ReadYourWrites ==
    [][\A t \in Thread, l \in Location :
          View(t, l)' # View(t, l) =>
             \/ Writes(t, l)
             \/ /\ buffers[t][l] = <<>>
                /\ buffers'[t] = buffers[t]
                /\ storage'[l] # storage[l]]_vars

(***************************************************************************)
(* The manager keeps the promises of StoreBuffers.                         *)
(***************************************************************************)
Queues(buffer) == [a \in Address |-> IF a \in Location THEN buffer[a] ELSE <<>>]

Promise == INSTANCE StoreBuffers WITH
    memory  <- storage,
    pending <- [t \in Thread |-> Queues(buffers[t])]

ImplementsStoreBuffers == Promise!Spec
=============================================================================
