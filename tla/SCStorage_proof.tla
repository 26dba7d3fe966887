-------------------------- MODULE SCStorage_proof --------------------------
(***************************************************************************)
(* Proofs about SCStorage: type correctness, and that it keeps the         *)
(* promises of StoreBuffers.                                               *)
(***************************************************************************)
EXTENDS SCStorage, SequenceTheorems, TLAPS

LEMMA Plus32Type ==
    ASSUME NEW m \in Int32, NEW n \in Int32
    PROVE  Plus32(m, n) \in Int32
  BY IntAssumption DEF Plus32, Wrap, Int32, MinInt

LEMMA UpdateTypes ==
    ASSUME NEW mem \in Memory, NEW a \in Location
    PROVE  /\ \A expected, new \in Value : Swapped(mem, a, expected, new) \in Memory
           /\ \A increment \in Increment : Incremented(mem, a, increment) \in Memory
<1>1. \A expected, new \in Value : Swapped(mem, a, expected, new) \in Memory
  BY StorageAssumption DEF Swapped, Memory
<1>2. ASSUME NEW increment \in Increment
      PROVE  Incremented(mem, a, increment) \in Memory
  <2>1. Plus32(mem[a], increment) \in Int32
    BY StorageAssumption, Plus32Type DEF Memory
  <2> QED BY <2>1 DEF Incremented, Memory
<1> QED BY <1>1, <1>2

LEMMA TypeInit == Init => TypeOK
<1>1. 0 \in Int32
  BY IntAssumption DEF Int32, MinInt
<1> QED BY <1>1 DEF Init, TypeOK, ZeroedMemory, Memory

LEMMA TypeStep ==
    ASSUME TypeOK, [Next]_vars
    PROVE  TypeOK'
<1>1. CASE UNCHANGED vars
  BY <1>1 DEF TypeOK, vars
<1>2. ASSUME NEW t \in Thread, NEW a \in Address, NEW v \in Int32, Load(t, a, v)
      PROVE  TypeOK'
  BY <1>2 DEF TypeOK, Load, vars
<1>3. ASSUME NEW t \in Thread, NEW a \in Address, NEW v \in Value, Store(t, a, v)
      PROVE  TypeOK'
  BY <1>3, StorageAssumption DEF TypeOK, Store, Memory
<1>4. ASSUME NEW t \in Thread, NEW a \in Address, NEW expected \in Value,
             NEW new \in Value, CompareAndSwap(t, a, expected, new)
      PROVE  TypeOK'
  BY <1>4, UpdateTypes DEF TypeOK, CompareAndSwap
<1>5. ASSUME NEW t \in Thread, NEW a \in Address, NEW increment \in Increment,
             FetchAndIncrement(t, a, increment)
      PROVE  TypeOK'
  BY <1>5, UpdateTypes DEF TypeOK, FetchAndIncrement
<1>6. ASSUME NEW t \in Thread, NEW a \in Address, BadAccess(t, a)
      PROVE  TypeOK'
  BY <1>6 DEF TypeOK, BadAccess
<1>7. ASSUME NEW t \in Thread, Fence(t)
      PROVE  TypeOK'
  BY <1>7 DEF TypeOK, Fence, vars
<1> QED BY <1>1, <1>2, <1>3, <1>4, <1>5, <1>6, <1>7 DEF Next

(***************************************************************************)
(* Type correctness: the memory holds machine integers, and an increment   *)
(* that overflows wraps around.                                            *)
(***************************************************************************)
THEOREM TypeCorrect == Spec => []TypeOK
<1>1. TypeOK /\ [Next]_vars => TypeOK'
  BY TypeStep
<1> QED BY <1>1, TypeInit, PTL DEF Spec
-----------------------------------------------------------------------------
(* The queues of a thread, to which SC never adds anything.                *)
NoQueues == [a \in Address |-> <<>>]

(***************************************************************************)
(* StoreBuffers extends StorageManager as SCStorage does, so that what the *)
(* two call by the same name is the same.                                  *)
(***************************************************************************)
LEMMA SameNames ==
    /\ Promise!Location = Location
    /\ Promise!Int32 = Int32
    /\ Promise!ZeroedMemory = ZeroedMemory
    /\ \A mem, a, expected, new :
          Promise!Swapped(mem, a, expected, new) = Swapped(mem, a, expected, new)
    /\ \A mem, a, increment :
          Promise!Incremented(mem, a, increment) = Incremented(mem, a, increment)
  BY DEF Promise!Location, Location, Promise!Int32, Int32, Promise!MinInt, MinInt,
         Promise!ZeroedMemory, ZeroedMemory, Promise!Swapped, Swapped,
         Promise!Incremented, Incremented, Promise!Plus32, Plus32, Promise!Wrap, Wrap

LEMMA NothingWaits ==
    ASSUME NEW t \in Thread
    PROVE  /\ [u \in Thread |-> NoQueues][t] = NoQueues
           /\ [[u \in Thread |-> NoQueues] EXCEPT ![t] = NoQueues]
                 = [u \in Thread |-> NoQueues]
  OBVIOUS

(***************************************************************************)
(* With nothing waiting, taking nothing to the memory is all there is.     *)
(***************************************************************************)
LEMMA NothingIsTaken ==
    ASSUME storage \in Memory
    PROVE  /\ Promise!Drained(NoQueues, NoQueues)
           /\ Promise!MemoryAfter(NoQueues, NoQueues) = storage
<1>1. \A a \in Address : Promise!Taken(NoQueues, NoQueues, a) = 0
  BY DEF Promise!Taken, NoQueues
<1>2. SubSeq(<<>>, 1, 0) = <<>>
  BY EmptySeq, SubSeqProperties
<1>3. Promise!Drained(NoQueues, NoQueues)
  BY <1>1, <1>2 DEF Promise!Drained, NoQueues
<1>4. Promise!MemoryAfter(NoQueues, NoQueues) = storage
  BY <1>1, StorageAssumption, SameNames DEF Promise!MemoryAfter, Memory
<1> QED BY <1>3, <1>4

(***************************************************************************)
(* A store to a location waits and is taken in the same step.              *)
(***************************************************************************)
LEMMA StoreIsTaken ==
    ASSUME storage \in Memory, NEW a \in Location, NEW v \in Int32
    PROVE  LET queues == [NoQueues EXCEPT ![a] = Append(@, v)]
           IN  /\ Promise!Drained(queues, NoQueues)
               /\ Promise!MemoryAfter(queues, NoQueues) = [storage EXCEPT ![a] = v]
<1> DEFINE queues == [NoQueues EXCEPT ![a] = Append(@, v)]
<1>1. \A b \in Address : queues[b] = IF b = a THEN <<v>> ELSE <<>>
  <2>1. Append(<<>>, v) = <<v>>
    OBVIOUS
  <2> QED BY <2>1, StorageAssumption DEF NoQueues
<1>2. \A b \in Address : Promise!Taken(queues, NoQueues, b) = IF b = a THEN 1 ELSE 0
  BY <1>1 DEF Promise!Taken, NoQueues
<1>3. SubSeq(<<>>, 1, 0) = <<>> /\ SubSeq(<<v>>, 2, 1) = <<>>
  BY EmptySeq, SubSeqProperties
<1> HIDE DEF queues
<1>4. Promise!Drained(queues, NoQueues)
  <2> SUFFICES ASSUME NEW b \in Address
               PROVE  /\ Promise!Taken(queues, NoQueues, b) \in 0 .. Len(queues[b])
                      /\ <<>> = SubSeq(queues[b], Promise!Taken(queues, NoQueues, b) + 1,
                                       Len(queues[b]))
                      /\ b \notin Location => <<>> = queues[b]
    BY SameNames DEF Promise!Drained, NoQueues
  <2>1. CASE b = a
    <3>1. queues[b] = <<v>> /\ Len(<<v>>) = 1
      BY <1>1, <2>1
    <3> QED BY <1>2, <1>3, <2>1, <3>1
  <2>2. CASE b # a
    BY <1>1, <1>2, <1>3, <2>2
  <2> QED BY <2>1, <2>2
<1>5. Promise!MemoryAfter(queues, NoQueues) = [storage EXCEPT ![a] = v]
  <2>1. \A l \in Location : queues[l] = IF l = a THEN <<v>> ELSE <<>>
    BY <1>1, StorageAssumption
  <2>2. \A l \in Location : Promise!Taken(queues, NoQueues, l) = IF l = a THEN 1 ELSE 0
    BY <1>2, StorageAssumption
  <2>3. <<v>>[1] = v
    OBVIOUS
  <2>4. \A l \in Location : Promise!MemoryAfter(queues, NoQueues)[l]
                               = IF l = a THEN v ELSE storage[l]
    BY <2>1, <2>2, <2>3, SameNames DEF Promise!MemoryAfter
  <2>5. Promise!MemoryAfter(queues, NoQueues)
           = [l \in Location |-> Promise!MemoryAfter(queues, NoQueues)[l]]
    BY SameNames DEF Promise!MemoryAfter
  <2>6. [storage EXCEPT ![a] = v] = [l \in Location |-> IF l = a THEN v ELSE storage[l]]
    BY DEF Memory
  <2> QED BY <2>4, <2>5, <2>6
<1> QED BY <1>4, <1>5 DEF queues

(***************************************************************************)
(* The sequentially consistent manager implements StoreBuffers, by the     *)
(* mapping in which no queue ever holds a store.                           *)
(***************************************************************************)
THEOREM Implements == Spec => ImplementsStoreBuffers
<1> USE DEF NoQueues
<1>1. Init => Promise!Init
  BY SameNames DEF Init, Promise!Init
<1>2. ASSUME TypeOK, [Next]_vars
      PROVE  [Promise!Next]_Promise!vars
  <2> DEFINE pending == [u \in Thread |-> NoQueues]
  <2>0. storage \in Memory
    BY <1>2 DEF TypeOK
  <2>1. CASE UNCHANGED vars
    BY <2>1 DEF vars, Promise!vars
  <2>2. ASSUME NEW t \in Thread, NEW a \in Address, NEW v \in Int32, Load(t, a, v)
        PROVE  Promise!Next
    BY <2>2, SameNames DEF Load, vars, Promise!Next, Promise!Load, Promise!Seen, Promise!vars
  <2>3. ASSUME NEW t \in Thread, NEW a \in Address, NEW v \in Value, Store(t, a, v)
        PROVE  Promise!Next
    <3>1. a \in Location /\ v \in Int32
      BY <2>3, StorageAssumption DEF Store
    <3>2. Promise!Store(t, a, v)
      BY <2>0, <2>3, <3>1, StoreIsTaken, NothingWaits, SameNames
         DEF Store, Promise!Store, Promise!Drain
    <3> QED BY <3>2, SameNames DEF Promise!Next
  <2>4. ASSUME NEW t \in Thread, NEW a \in Address, NEW expected \in Value,
               NEW new \in Value, CompareAndSwap(t, a, expected, new)
        PROVE  Promise!Next
    <3>1. Promise!AtomicUpdate(t, a)
      BY <2>0, <2>4, NothingIsTaken, NothingWaits, SameNames
         DEF CompareAndSwap, Promise!AtomicUpdate, Promise!Drain
    <3> QED BY <3>1 DEF Promise!Next
  <2>5. ASSUME NEW t \in Thread, NEW a \in Address, NEW increment \in Increment,
               FetchAndIncrement(t, a, increment)
        PROVE  Promise!Next
    <3>1. Promise!AtomicUpdate(t, a)
      BY <2>0, <2>5, NothingIsTaken, NothingWaits, SameNames
         DEF FetchAndIncrement, Promise!AtomicUpdate, Promise!Drain
    <3> QED BY <3>1 DEF Promise!Next
  <2>6. ASSUME NEW t \in Thread, NEW a \in Address, BadAccess(t, a)
        PROVE  Promise!Next
    BY <2>6, SameNames DEF BadAccess, Promise!Next, Promise!Abort
  <2>7. ASSUME NEW t \in Thread, Fence(t)
        PROVE  UNCHANGED Promise!vars
    BY <2>7 DEF Fence, vars, Promise!vars
  <2> QED BY <1>2, <2>1, <2>2, <2>3, <2>4, <2>5, <2>6, <2>7 DEF Next
<1>3. Spec => []TypeOK
  BY TypeCorrect
<1> QED BY <1>1, <1>2, <1>3, PTL DEF Spec, ImplementsStoreBuffers, Promise!Spec
=============================================================================
