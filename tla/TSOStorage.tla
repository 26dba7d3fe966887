----------------------------- MODULE TSOStorage -----------------------------
(***************************************************************************)
(* TotalStoreOrderStorageManager: one shared memory and one FIFO store     *)
(* buffer per thread.  A thread's loads see its own newest buffered store  *)
(* to the address, or the memory; an atomic update or a fence first        *)
(* flushes the whole buffer of its thread; internalUpdate moves the oldest *)
(* store of some buffer to the memory.                                     *)
(*                                                                         *)
(* The address of a store is checked only when the store reaches the       *)
(* memory: a bad one stays in the buffer, where loads find it, until an    *)
(* update or a flush throws.                                               *)
(***************************************************************************)
EXTENDS StorageManager, SequencesExt

CONSTANT MaxBuffer  \* bound: a buffer of the code grows without limit

ASSUME BufferAssumption == MaxBuffer \in Nat

VARIABLES
    storage,   \* m_storage
    buffers,   \* m_threadBuffers
    crashed    \* an uncaught exception has ended the process

vars == <<storage, buffers, crashed>>

StoreInstruction == [address : Address, value : Int32]

TypeOK ==
    /\ storage \in Memory
    /\ buffers \in [Thread -> Seq(StoreInstruction)]
    /\ crashed \in BOOLEAN

Init ==
    /\ storage = ZeroedMemory
    /\ buffers = [t \in Thread |-> <<>>]
    /\ crashed = FALSE
-----------------------------------------------------------------------------
(* Mutant of Find: the search starts at the oldest store.                  *)
FindOldest(buffer, a) == SelectInSeq(buffer, LAMBDA s : s.address = a)

(***************************************************************************)
(* Buffer::find: the position of the newest store to an address, 0 if none *)
(***************************************************************************)
Find(buffer, a) == SelectLastInSeq(buffer, LAMBDA s : s.address = a)

(***************************************************************************)
(* What a thread with this buffer reads at address a over this memory.     *)
(***************************************************************************)
Through(mem, buffer, a) ==
    IF Find(buffer, a) # 0 THEN buffer[Find(buffer, a)].value ELSE mem[a]

(***************************************************************************)
(* The memory once flushBuffer has propagated a whole buffer, in closed    *)
(* form; TSOStorage_proof shows that the loop computes it.                 *)
(***************************************************************************)
Flushed(mem, buffer) == [l \in Location |-> Through(mem, buffer, l)]

(* No store of the buffer makes m_storage.store throw.                     *)
InRange(buffer) == \A i \in DOMAIN buffer : buffer[i].address \in Location

(* An uncaught std::out_of_range: what the process held is gone with it.   *)
Abort ==
    /\ crashed' = TRUE
    /\ UNCHANGED <<storage, buffers>>
-----------------------------------------------------------------------------
(* A load looks into the buffer first: a bad address is found there.       *)
Readable(t, a) == Find(buffers[t], a) # 0 \/ a \in Location

Load(t, a, v) ==
    /\ ~crashed
    /\ Readable(t, a)
    /\ v = Through(storage, buffers[t], a)
    /\ UNCHANGED vars

BadLoad(t, a) == ~crashed /\ ~Readable(t, a) /\ Abort

Store(t, a, v) ==
    /\ ~crashed
    /\ Len(buffers[t]) < MaxBuffer
    /\ buffers' = [buffers EXCEPT ![t] = Append(@, [address |-> a, value |-> v])]
    /\ UNCHANGED <<storage, crashed>>

(* Mutant of FlushThen: the stores stay in the buffer.                     *)
FlushKeepingStores(t, mem) ==
    /\ storage' = mem
    /\ UNCHANGED <<buffers, crashed>>

(* flushBuffer, then mem is what the atomic update or the fence leaves.    *)
FlushThen(t, mem) ==
    /\ storage' = mem
    /\ buffers' = [buffers EXCEPT ![t] = <<>>]
    /\ UNCHANGED crashed

CompareAndSwap(t, a, expected, new) ==
    /\ ~crashed
    /\ \/ /\ InRange(buffers[t]) /\ a \in Location
          /\ FlushThen(t, Swapped(Flushed(storage, buffers[t]), a, expected, new))
       \/ ~(InRange(buffers[t]) /\ a \in Location) /\ Abort

(* Mutant of FetchAndIncrement: a load and a store through the buffer.     *)
FetchAndIncrementBuffered(t, a, increment) ==
    /\ ~crashed
    /\ \/ /\ InRange(buffers[t]) /\ a \in Location
          /\ buffers' = [buffers EXCEPT ![t] = Append(@,
                 [address |-> a,
                  value |-> Plus32(Through(storage, @, a), increment)])]
          /\ UNCHANGED <<storage, crashed>>
       \/ ~(InRange(buffers[t]) /\ a \in Location) /\ Abort

FetchAndIncrement(t, a, increment) ==
    /\ ~crashed
    /\ \/ /\ InRange(buffers[t]) /\ a \in Location
          /\ FlushThen(t, Incremented(Flushed(storage, buffers[t]), a, increment))
       \/ ~(InRange(buffers[t]) /\ a \in Location) /\ Abort

(* Mutant of Fence: it does nothing, as in SC.                             *)
FenceNothing(t) == ~crashed /\ UNCHANGED vars

Fence(t) ==
    /\ ~crashed
    /\ \/ InRange(buffers[t]) /\ FlushThen(t, Flushed(storage, buffers[t]))
       \/ ~InRange(buffers[t]) /\ Abort

(* Mutant of Propagate: the newest store goes first.                       *)
PropagateNewest(t) ==
    /\ ~crashed
    /\ buffers[t] # <<>>
    /\ Last(buffers[t]).address \in Location
    /\ storage' = [storage EXCEPT ![Last(buffers[t]).address] = Last(buffers[t]).value]
    /\ buffers' = [buffers EXCEPT ![t] = Front(@)]
    /\ UNCHANGED crashed

(***************************************************************************)
(* propagate: the oldest store of a non-empty buffer reaches the memory.   *)
(***************************************************************************)
Propagate(t) ==
    /\ ~crashed
    /\ buffers[t] # <<>>
    /\ LET oldest == Head(buffers[t])
       IN  \/ /\ oldest.address \in Location
              /\ storage' = [storage EXCEPT ![oldest.address] = oldest.value]
              /\ buffers' = [buffers EXCEPT ![t] = Tail(@)]
              /\ UNCHANGED crashed
           \/ oldest.address \notin Location /\ Abort

(***************************************************************************)
(* internalUpdate tries the threads in a shuffled order (or asks the user  *)
(* for a thread whose buffer is not empty) until one propagates, so it     *)
(* propagates for any thread that has something to propagate.              *)
(***************************************************************************)
InternalUpdate == \E t \in Thread : Propagate(t)
-----------------------------------------------------------------------------
Next ==
    \/ \E t \in Thread, a \in Address :
          \/ \E v \in Int32 : Load(t, a, v)
          \/ BadLoad(t, a)
          \/ \E v \in Value : Store(t, a, v)
          \/ \E expected, new \in Value : CompareAndSwap(t, a, expected, new)
          \/ \E increment \in Increment : FetchAndIncrement(t, a, increment)
    \/ \E t \in Thread : Fence(t)
    \/ InternalUpdate

Spec == Init /\ [][Next]_vars
-----------------------------------------------------------------------------
View(t, l) == Through(storage, buffers[t], l)

Writes(t, l) ==
    \/ \E v \in Value : Store(t, l, v)
    \/ \E expected, new \in Value : CompareAndSwap(t, l, expected, new)
    \/ \E increment \in Increment : FetchAndIncrement(t, l, increment)

(***************************************************************************)
(* What a thread sees at a location changes only when the thread itself    *)
(* writes there, or when it has nothing buffered for that location and     *)
(* somebody else's write reaches the memory.  So no propagation, flush,    *)
(* fence or update elsewhere, of any thread, makes a thread lose sight of  *)
(* its own newest store or see an older one again, in whatever order the   *)
(* buffers drain (flushBuffer, propagate and Buffer::find agree).          *)
(***************************************************************************)
ReadYourWrites ==
    [][\A t \in Thread, l \in Location :
          View(t, l)' # View(t, l) =>
             \/ Writes(t, l)
             \/ /\ Find(buffers[t], l) = 0
                /\ buffers'[t] = buffers[t]
                /\ storage'[l] # storage[l]]_vars

(***************************************************************************)
(* The manager keeps the promises of StoreBuffers: per address, a buffer   *)
(* is the queue of its stores to that address, the oldest first.           *)
(***************************************************************************)
Positions(buffer, a) == {i \in DOMAIN buffer : buffer[i].address = a}

(* The n-th of a set of positions.                                         *)
Nth(positions, n) ==
    CHOOSE i \in positions : Cardinality({j \in positions : j <= i}) = n

Queue(buffer, a) ==
    LET own == Positions(buffer, a)
    IN  [n \in 1 .. Cardinality(own) |-> buffer[Nth(own, n)].value]

Queues(buffer) == [a \in Address |-> Queue(buffer, a)]

Promise == INSTANCE StoreBuffers WITH
    memory  <- storage,
    pending <- [t \in Thread |-> Queues(buffers[t])]

ImplementsStoreBuffers == Promise!Spec

(***************************************************************************)
(* A load returns what StoreBuffers promises: the newest waiting store of  *)
(* the thread to that address, or else the memory, although the buffer     *)
(* mixes the stores to all addresses and holds bad ones as well.           *)
(***************************************************************************)
LoadsAgree ==
    \A t \in Thread, a \in Address : Readable(t, a) =>
        Through(storage, buffers[t], a)
            = Promise!Seen(storage, Queues(buffers[t]), a)
=============================================================================
