-------------------------- MODULE PSOStorage_proof --------------------------
(***************************************************************************)
(* Proofs about PSOStorage: type correctness, that a thread always sees    *)
(* its own writes, and that the manager keeps the promises of              *)
(* StoreBuffers.                                                           *)
(***************************************************************************)
EXTENDS PSOStorage, SequenceTheorems, TLAPS

Buffer == [Location -> Seq(Int32)]

LEMMA Plus32Type ==
    ASSUME NEW m \in Int32, NEW n \in Int32
    PROVE  Plus32(m, n) \in Int32
  BY IntAssumption DEF Plus32, Wrap, Int32, MinInt

LEMMA LastType ==
    ASSUME NEW s \in Seq(Int32), s # <<>>
    PROVE  Len(s) \in Nat \ {0} /\ s[Len(s)] \in Int32
<1>1. Len(s) \in Nat \ {0}
  BY EmptySeq, LenProperties
<1> QED BY <1>1, ElementOfSeq

LEMMA ThroughType ==
    ASSUME NEW mem \in Memory, NEW buffer \in Buffer, NEW l \in Location
    PROVE  Through(mem, buffer, l) \in Int32
  BY LastType DEF Through, Memory, Buffer

LEMMA UpdateTypes ==
    ASSUME NEW mem \in Memory, NEW a \in Location
    PROVE  /\ \A ls : \A buffer \in Buffer : Flushed(mem, buffer, ls) \in Memory
           /\ \A expected, new \in Value : Swapped(mem, a, expected, new) \in Memory
           /\ \A increment \in Increment : Incremented(mem, a, increment) \in Memory
<1>1. \A ls : \A buffer \in Buffer : Flushed(mem, buffer, ls) \in Memory
  BY ThroughType DEF Flushed, Memory
<1>2. \A expected, new \in Value : Swapped(mem, a, expected, new) \in Memory
  BY StorageAssumption DEF Swapped, Memory
<1>3. ASSUME NEW increment \in Increment
      PROVE  Incremented(mem, a, increment) \in Memory
  <2>1. Plus32(mem[a], increment) \in Int32
    BY StorageAssumption, Plus32Type DEF Memory
  <2> QED BY <2>1 DEF Incremented, Memory
<1> QED BY <1>1, <1>2, <1>3

(***************************************************************************)
(* Next has one disjunct per operation; this names them, so that the       *)
(* proofs below have one step for each.                                    *)
(***************************************************************************)
LEMMA NextCases ==
    ASSUME Next
    PROVE  \/ \E t \in Thread, a \in Address, v \in Int32 : Load(t, a, v)
           \/ \E t \in Thread, a \in Address, v \in Value : Store(t, a, v)
           \/ \E t \in Thread, a \in Address, expected, new \in Value :
                 CompareAndSwap(t, a, expected, new)
           \/ \E t \in Thread, a \in Address, increment \in Increment :
                 FetchAndIncrement(t, a, increment)
           \/ \E t \in Thread, a \in Address : BadAccess(t, a)
           \/ \E t \in Thread : Fence(t)
           \/ \E t \in Thread, l \in Location : Propagate(t, l)
  BY DEF Next, InternalUpdate

LEMMA TypeInit == Init => TypeOK
<1>1. 0 \in Int32
  BY IntAssumption DEF Int32, MinInt
<1>2. Init => storage \in Memory
  BY <1>1 DEF Init, ZeroedMemory, Memory
<1>3. Init => buffers \in [Thread -> Buffer]
  BY EmptySeq DEF Init, Buffer
<1> QED BY <1>2, <1>3 DEF Init, TypeOK, Buffer

LEMMA FlushType ==
    ASSUME TypeOK, NEW t \in Thread, NEW ls, NEW mem \in Memory,
           FlushThen(t, ls, mem)
    PROVE  TypeOK'
<1>1. buffers[t] \in Buffer
  BY DEF TypeOK, Buffer
<1>2. Emptied(buffers[t], ls) \in Buffer
  BY <1>1, EmptySeq DEF Emptied, Buffer
<1> QED BY <1>2 DEF TypeOK, FlushThen, Buffer

LEMMA TypeStep ==
    ASSUME TypeOK, [Next]_vars
    PROVE  TypeOK'
<1>0. /\ storage \in Memory
      /\ \A t \in Thread : buffers[t] \in Buffer
  BY DEF TypeOK, Buffer
<1>1. CASE UNCHANGED vars
  BY <1>1 DEF TypeOK, vars
<1>2. ASSUME NEW t \in Thread, NEW a \in Address, NEW v \in Int32, Load(t, a, v)
      PROVE  TypeOK'
  BY <1>2 DEF TypeOK, Load, vars
<1>3. ASSUME NEW t \in Thread, NEW a \in Address, NEW v \in Value, Store(t, a, v)
      PROVE  TypeOK'
  <2>1. a \in Location /\ v \in Int32
    BY <1>3, StorageAssumption DEF Store
  <2>2. Append(buffers[t][a], v) \in Seq(Int32)
    BY <1>0, <2>1, AppendProperties DEF Buffer
  <2> QED BY <1>3, <2>1, <2>2 DEF TypeOK, Store
<1>4. ASSUME NEW t \in Thread, NEW a \in Address, NEW expected \in Value,
             NEW new \in Value, CompareAndSwap(t, a, expected, new)
      PROVE  TypeOK'
  BY <1>0, <1>4, UpdateTypes, FlushType DEF CompareAndSwap
<1>5. ASSUME NEW t \in Thread, NEW a \in Address, NEW increment \in Increment,
             FetchAndIncrement(t, a, increment)
      PROVE  TypeOK'
  BY <1>0, <1>5, UpdateTypes, FlushType DEF FetchAndIncrement
<1>6. ASSUME NEW t \in Thread, NEW a \in Address, BadAccess(t, a)
      PROVE  TypeOK'
  BY <1>6 DEF TypeOK, BadAccess, Abort
<1>7. ASSUME NEW t \in Thread, Fence(t)
      PROVE  TypeOK'
  <2>1. Flushed(storage, buffers[t], Location) \in Memory
    BY <1>0, ThroughType DEF Flushed, Memory
  <2> QED BY <1>7, <2>1, FlushType DEF Fence
<1>8. ASSUME NEW t \in Thread, NEW l \in Location, Propagate(t, l)
      PROVE  TypeOK'
  <2>1. Head(buffers[t][l]) \in Int32 /\ Tail(buffers[t][l]) \in Seq(Int32)
    BY <1>0, <1>8, HeadTailProperties DEF Propagate, Buffer
  <2> QED BY <1>8, <2>1 DEF TypeOK, Propagate, Memory
<1> QED BY <1>1, <1>2, <1>3, <1>4, <1>5, <1>6, <1>7, <1>8, NextCases

(***************************************************************************)
(* Type correctness: the memory and the buffers hold machine integers, and *)
(* an increment that overflows wraps around.                               *)
(***************************************************************************)
THEOREM TypeCorrect == Spec => []TypeOK
<1>1. Init => TypeOK
  BY TypeInit
<1>2. TypeOK /\ [Next]_vars => TypeOK'
  BY TypeStep
<1> QED BY <1>1, <1>2, PTL DEF Spec
-----------------------------------------------------------------------------
(***************************************************************************)
(* The newest store of a buffer is the last to leave it.                   *)
(***************************************************************************)
LEMMA NewestAfterTail ==
    ASSUME NEW s \in Seq(Int32), s # <<>>
    PROVE  /\ Tail(s) = <<>> => s[Len(s)] = Head(s)
           /\ Tail(s) # <<>> => Tail(s)[Len(Tail(s))] = s[Len(s)]
<1>1. /\ Head(s) = s[1]
      /\ Tail(s) \in Seq(Int32)
      /\ Len(Tail(s)) = Len(s) - 1
      /\ \A i \in 1 .. Len(Tail(s)) : Tail(s)[i] = s[i + 1]
  BY HeadTailProperties
<1>2. Len(s) \in Nat \ {0}
  BY LastType
<1>3. CASE Tail(s) = <<>>
  <2>1. Len(Tail(s)) = 0
    BY <1>3, EmptySeq
  <2>2. Len(Tail(s)) = Len(s) - 1
    BY <1>1
  <2>3. Len(s) = 1
    BY <1>2, <2>1, <2>2
  <2> QED BY <1>1, <1>3, <2>3
<1>4. CASE Tail(s) # <<>>
  <2>1. Len(Tail(s)) \in Nat \ {0}
    BY <1>1, <1>4, LastType
  <2> QED BY <1>1, <1>2, <1>4, <2>1
<1> QED BY <1>3, <1>4

(***************************************************************************)
(* propagate does not change what its thread sees at any location.         *)
(***************************************************************************)
LEMMA PropagateKeepsView ==
    ASSUME TypeOK, NEW t \in Thread, NEW k \in Location, NEW l \in Location,
           Propagate(t, k)
    PROVE  View(t, l)' = View(t, l)
<1>1. /\ buffers[t][k] \in Seq(Int32) /\ buffers[t][k] # <<>>
      /\ storage'[l] = IF l = k THEN Head(buffers[t][k]) ELSE storage[l]
      /\ buffers'[t][l] = IF l = k THEN Tail(buffers[t][k]) ELSE buffers[t][l]
  BY DEF TypeOK, Propagate, Memory
<1>2. CASE l # k
  BY <1>1, <1>2 DEF View, Through
<1>3. CASE l = k
  BY <1>1, <1>3, NewestAfterTail DEF View, Through
<1> QED BY <1>2, <1>3

(***************************************************************************)
(* A flush keeps what the thread sees wherever the operation that flushes  *)
(* has not changed the flushed memory.                                     *)
(***************************************************************************)
LEMMA FlushKeepsView ==
    ASSUME TypeOK, NEW t \in Thread, NEW ls, NEW mem, NEW l \in Location,
           FlushThen(t, ls, mem), mem[l] = Flushed(storage, buffers[t], ls)[l]
    PROVE  View(t, l)' = View(t, l)
<1>1. /\ storage'[l] = IF l \in ls THEN Through(storage, buffers[t], l) ELSE storage[l]
      /\ buffers'[t][l] = IF l \in ls THEN <<>> ELSE buffers[t][l]
  BY DEF TypeOK, FlushThen, Flushed, Emptied
<1> QED BY <1>1 DEF View, Through

(***************************************************************************)
(* One step, one thread and one location of ReadYourWrites.                *)
(***************************************************************************)
LEMMA ViewStep ==
    ASSUME TypeOK, [Next]_vars, NEW t \in Thread, NEW l \in Location,
           View(t, l)' # View(t, l)
    PROVE  \/ Writes(t, l)
           \/ /\ buffers[t][l] = <<>>
              /\ buffers'[t] = buffers[t]
              /\ storage'[l] # storage[l]
<1> DEFINE Goal == \/ Writes(t, l)
                   \/ /\ buffers[t][l] = <<>>
                      /\ buffers'[t] = buffers[t]
                      /\ storage'[l] # storage[l]
<1>0. buffers'[t] = buffers[t] => Goal
  BY DEF View, Through
<1>1. ASSUME Abort \/ UNCHANGED vars PROVE Goal
  BY <1>0, <1>1 DEF Abort, vars
<1>2. ASSUME NEW u \in Thread, NEW ls, NEW mem, FlushThen(u, ls, mem), u # t
      PROVE  Goal
  <2>1. buffers'[t] = buffers[t]
    BY <1>2 DEF FlushThen, TypeOK
  <2> QED BY <1>0, <2>1
<1>3. ASSUME NEW u \in Thread, NEW a \in Address, NEW v \in Value, Store(u, a, v)
      PROVE  Goal
  <2>1. CASE u # t
    BY <1>0, <1>3, <2>1 DEF Store, TypeOK
  <2>2. CASE u = t /\ a = l
    BY <1>3, <2>2 DEF Writes
  <2>3. CASE u = t /\ a # l
    <3>1. buffers'[t][l] = buffers[t][l] /\ storage' = storage
      BY <1>3, <2>3 DEF Store, TypeOK
    <3>2. View(t, l)' = View(t, l)
      BY <3>1 DEF View, Through
    <3> QED BY <3>2
  <2> QED BY <2>1, <2>2, <2>3
<1>4. ASSUME NEW u \in Thread, NEW a \in Address, NEW expected \in Value,
             NEW new \in Value, CompareAndSwap(u, a, expected, new)
      PROVE  Goal
  <2> DEFINE flushed == Flushed(storage, buffers[u], {a})
             mem == Swapped(flushed, a, expected, new)
  <2>1. FlushThen(u, {a}, mem)
    BY <1>4 DEF CompareAndSwap
  <2>2. CASE u = t /\ a = l
    BY <1>4, <2>2 DEF Writes
  <2>3. CASE u = t /\ a # l
    <3>1. mem[l] = flushed[l]
      BY <2>3 DEF Swapped, Flushed
    <3> HIDE DEF flushed, mem
    <3> QED BY <2>1, <2>3, <3>1, FlushKeepsView DEF flushed
  <2> HIDE DEF mem
  <2> QED BY <1>2, <2>1, <2>2, <2>3
<1>5. ASSUME NEW u \in Thread, NEW a \in Address, NEW increment \in Increment,
             FetchAndIncrement(u, a, increment)
      PROVE  Goal
  <2> DEFINE flushed == Flushed(storage, buffers[u], {a})
             mem == Incremented(flushed, a, increment)
  <2>1. FlushThen(u, {a}, mem)
    BY <1>5 DEF FetchAndIncrement
  <2>2. CASE u = t /\ a = l
    BY <1>5, <2>2 DEF Writes
  <2>3. CASE u = t /\ a # l
    <3>1. mem[l] = flushed[l]
      BY <2>3 DEF Incremented, Flushed
    <3> HIDE DEF flushed, mem
    <3> QED BY <2>1, <2>3, <3>1, FlushKeepsView DEF flushed
  <2> HIDE DEF mem
  <2> QED BY <1>2, <2>1, <2>2, <2>3
<1>6. ASSUME NEW u \in Thread, Fence(u) PROVE Goal
  <2>1. FlushThen(u, Location, Flushed(storage, buffers[u], Location))
    BY <1>6 DEF Fence
  <2> QED BY <1>2, <2>1, FlushKeepsView
<1>7. ASSUME NEW u \in Thread, NEW k \in Location, Propagate(u, k) PROVE Goal
  <2>1. CASE u = t
    BY <1>7, <2>1, PropagateKeepsView
  <2>2. CASE u # t
    BY <1>0, <1>7, <2>2 DEF Propagate, TypeOK
  <2> QED BY <2>1, <2>2
<1> HIDE DEF Goal
<1>8. Goal
  <2>1. CASE UNCHANGED vars
    BY <1>1, <2>1
  <2>2. CASE Next
    <3>1. \A u \in Thread, a \in Address, v \in Int32 : Load(u, a, v) => Goal
      BY <1>1 DEF Load
    <3>2. \A u \in Thread, a \in Address : BadAccess(u, a) => Goal
      BY <1>1 DEF BadAccess
    <3> QED BY <1>3, <1>4, <1>5, <1>6, <1>7, <2>2, <3>1, <3>2, NextCases
  <2> QED BY <2>1, <2>2
<1> QED BY <1>8 DEF Goal

(***************************************************************************)
(* A thread always sees its own writes: in every run of the manager, what  *)
(* a thread reads at a location changes only by its own writes there, or   *)
(* by somebody else's when it has nothing buffered for that location.      *)
(***************************************************************************)
THEOREM OwnWritesAreSeen == Spec => ReadYourWrites
<1> DEFINE Step ==
        \A t \in Thread, l \in Location :
           View(t, l)' # View(t, l) =>
              \/ Writes(t, l)
              \/ /\ buffers[t][l] = <<>>
                 /\ buffers'[t] = buffers[t]
                 /\ storage'[l] # storage[l]
<1>1. TypeOK /\ [Next]_vars => [Step]_vars
  BY ViewStep
<1>2. Spec => [][Step]_vars
  <2> HIDE DEF Step
  <2> QED BY <1>1, TypeCorrect, PTL DEF Spec
<1> QED BY <1>2 DEF ReadYourWrites
-----------------------------------------------------------------------------
(***************************************************************************)
(* StoreBuffers extends StorageManager as PSOStorage does, so that what    *)
(* the two call by the same name is the same.                              *)
(***************************************************************************)
LEMMA SameNames ==
    /\ Promise!Location = Location
    /\ Promise!Int32 = Int32
    /\ Promise!ZeroedMemory = ZeroedMemory
    /\ \A mem, a, expected, new :
          Promise!Swapped(mem, a, expected, new) = Swapped(mem, a, expected, new)
    /\ \A mem, a, increment :
          Promise!Incremented(mem, a, increment) = Incremented(mem, a, increment)
  BY DEF Promise!Location, Location, Promise!Int32, Int32, Promise!MinInt, MinInt,
         Promise!ZeroedMemory, ZeroedMemory, Promise!Swapped, Swapped,
         Promise!Incremented, Incremented, Promise!Plus32, Plus32, Promise!Wrap, Wrap

(* The queues of all threads, which stand for "pending" of StoreBuffers.   *)
Pending == [t \in Thread |-> Queues(buffers[t])]

(***************************************************************************)
(* What is left of a queue when nothing, all or the oldest store is taken. *)
(***************************************************************************)
LEMMA Rests ==
    ASSUME NEW q \in Seq(Int32)
    PROVE  /\ Len(q) \in Nat
           /\ SubSeq(q, 1, Len(q)) = q
           /\ SubSeq(q, Len(q) + 1, Len(q)) = <<>>
           /\ q # <<>> => /\ Len(q) # 0
                          /\ SubSeq(q, 2, Len(q)) = Tail(q)
                          /\ Len(Tail(q)) = Len(q) - 1
<1>1. Len(q) \in Nat
  BY LenProperties
<1>2. SubSeq(q, 1, Len(q)) = q
  BY SubSeqFull
<1>3. SubSeq(q, Len(q) + 1, Len(q)) = <<>>
  BY <1>1, SubSeqEmpty
<1>4. ASSUME q # <<>>
      PROVE  /\ Len(q) # 0
             /\ SubSeq(q, 2, Len(q)) = Tail(q)
             /\ Len(Tail(q)) = Len(q) - 1
  BY <1>4, EmptySeq, TailIsSubSeq, HeadTailProperties
<1> QED BY <1>1, <1>2, <1>3, <1>4

LEMMA QueueTypes ==
    ASSUME NEW buffer \in Buffer, NEW a \in Address
    PROVE  /\ Queues(buffer)[a] = IF a \in Location THEN buffer[a] ELSE <<>>
           /\ Queues(buffer)[a] \in Seq(Int32)
  BY EmptySeq DEF Queues, Buffer

(***************************************************************************)
(* A step that only changes the buffers of one thread only changes its     *)
(* queues.                                                                 *)
(***************************************************************************)
LEMMA PendingStep ==
    ASSUME TypeOK, NEW t \in Thread, NEW buffer \in Buffer,
           buffers' = [buffers EXCEPT ![t] = buffer]
    PROVE  /\ Pending[t] = Queues(buffers[t])
           /\ Pending'[t] = Queues(buffer)
           /\ Pending' = [Pending EXCEPT ![t] = Queues(buffer)]
  BY DEF TypeOK, Pending

(***************************************************************************)
(* flushBuffer on some locations takes all that waits there.               *)
(***************************************************************************)
LEMMA FlushTakes ==
    ASSUME TypeOK, NEW t \in Thread, NEW ls, ls \subseteq Location
    PROVE  LET queues == Queues(buffers[t])
               rest   == Queues(Emptied(buffers[t], ls))
           IN  /\ Emptied(buffers[t], ls) \in Buffer
               /\ Promise!Drained(queues, rest)
               /\ Promise!MemoryAfter(queues, rest) = Flushed(storage, buffers[t], ls)
<1> DEFINE queues == Queues(buffers[t])
           rest == Queues(Emptied(buffers[t], ls))
<1>1. buffers[t] \in Buffer
  BY DEF TypeOK, Buffer
<1>2. Emptied(buffers[t], ls) \in Buffer
  BY <1>1, EmptySeq DEF Emptied, Buffer
<1>3. \A a \in Address : /\ queues[a] \in Seq(Int32)
                         /\ rest[a] = IF a \in ls THEN <<>> ELSE queues[a]
                         /\ a \in Location => queues[a] = buffers[t][a]
  BY <1>1, <1>2, QueueTypes DEF Emptied
<1> HIDE DEF queues, rest
<1>4. \A a \in Address :
         Promise!Taken(queues, rest, a) = IF a \in ls THEN Len(queues[a]) ELSE 0
  <2> SUFFICES ASSUME NEW a \in Address
               PROVE  Len(queues[a]) - Len(rest[a]) = IF a \in ls THEN Len(queues[a]) ELSE 0
    BY DEF Promise!Taken
  <2>1. Len(queues[a]) \in Nat /\ Len(<<>>) = 0
    BY <1>3, Rests, EmptySeq
  <2>2. rest[a] = IF a \in ls THEN <<>> ELSE queues[a]
    BY <1>3
  <2> QED BY <2>1, <2>2
<1>5. Promise!Drained(queues, rest)
  <2> SUFFICES ASSUME NEW a \in Address
               PROVE  /\ Promise!Taken(queues, rest, a) \in 0 .. Len(queues[a])
                      /\ rest[a] = SubSeq(queues[a], Promise!Taken(queues, rest, a) + 1,
                                          Len(queues[a]))
                      /\ a \notin Location => rest[a] = queues[a]
    BY SameNames DEF Promise!Drained
  <2>1. queues[a] \in Seq(Int32)
    BY <1>3
  <2>2. CASE a \in ls
    <3>1. Len(queues[a]) \in Nat /\ SubSeq(queues[a], Len(queues[a]) + 1, Len(queues[a])) = <<>>
      BY <2>1, Rests
    <3>2. rest[a] = <<>> /\ Promise!Taken(queues, rest, a) = Len(queues[a])
      BY <1>3, <1>4, <2>2
    <3>3. a \in Location
      BY <2>2
    <3>4. Promise!Taken(queues, rest, a) \in 0 .. Len(queues[a])
      BY <3>1, <3>2
    <3>5. rest[a] = SubSeq(queues[a], Promise!Taken(queues, rest, a) + 1, Len(queues[a]))
      BY <3>1, <3>2, Zenon
    <3> QED BY <3>3, <3>4, <3>5
  <2>3. CASE a \notin ls
    BY <1>3, <1>4, <2>1, <2>3, Rests
  <2> QED BY <2>2, <2>3
<1>6. \A l \in Location : Promise!MemoryAfter(queues, rest)[l]
                             = Flushed(storage, buffers[t], ls)[l]
  <2> SUFFICES ASSUME NEW l \in Location
               PROVE  (IF Promise!Taken(queues, rest, l) = 0
                       THEN storage[l]
                       ELSE queues[l][Promise!Taken(queues, rest, l)])
                         = IF l \in ls THEN Through(storage, buffers[t], l)
                                        ELSE storage[l]
    BY SameNames DEF Promise!MemoryAfter, Flushed
  <2>1. l \in Address
    BY StorageAssumption
  <2>2. CASE l \notin ls
    BY <1>4, <2>1, <2>2
  <2>3. CASE l \in ls /\ queues[l] = <<>>
    BY <1>3, <1>4, <2>1, <2>3 DEF Through
  <2>4. CASE l \in ls /\ queues[l] # <<>>
    BY <1>3, <1>4, <2>1, <2>4, Rests DEF Through
  <2> QED BY <2>2, <2>3, <2>4
<1>7. Promise!MemoryAfter(queues, rest) = Flushed(storage, buffers[t], ls)
  BY <1>6, SameNames DEF Promise!MemoryAfter, Flushed
<1> QED BY <1>2, <1>5, <1>7 DEF queues, rest

(***************************************************************************)
(* propagate takes the oldest store that waits at its location.            *)
(***************************************************************************)
LEMMA PropagateTakes ==
    ASSUME TypeOK, NEW t \in Thread, NEW k \in Location, Propagate(t, k)
    PROVE  LET queues == Pending[t]
               rest   == Pending'[t]
           IN  /\ Promise!Drained(queues, rest)
               /\ Pending' = [Pending EXCEPT ![t] = rest]
               /\ Promise!MemoryAfter(queues, rest) = storage'
<1> DEFINE queues == Pending[t]
           rest == Pending'[t]
           buffer == [buffers[t] EXCEPT ![k] = Tail(@)]
<1>1. buffers[t] \in Buffer /\ buffers[t][k] \in Seq(Int32) /\ buffers[t][k] # <<>>
  BY DEF TypeOK, Buffer, Propagate
<1>2. buffer \in Buffer
  BY <1>1, HeadTailProperties DEF Buffer
<1>3. buffers' = [buffers EXCEPT ![t] = buffer]
  BY DEF Propagate, TypeOK
<1>4. /\ queues = Queues(buffers[t])
      /\ rest = Queues(buffer)
      /\ Pending' = [Pending EXCEPT ![t] = rest]
  BY <1>2, <1>3, PendingStep
<1>5. \A a \in Address : /\ queues[a] \in Seq(Int32)
                         /\ rest[a] = IF a = k THEN Tail(queues[a]) ELSE queues[a]
                         /\ a = k => queues[a] = buffers[t][k]
  <2>1. \A l \in Location :
           buffer[l] = IF l = k THEN Tail(buffers[t][k]) ELSE buffers[t][l]
    BY <1>1 DEF Buffer
  <2> HIDE DEF buffer, queues, rest
  <2> QED BY <1>1, <1>2, <1>4, <2>1, QueueTypes
<1> HIDE DEF queues, rest, buffer
<1>6. \A a \in Address : Promise!Taken(queues, rest, a) = IF a = k THEN 1 ELSE 0
  <2> SUFFICES ASSUME NEW a \in Address
               PROVE  Len(queues[a]) - Len(rest[a]) = IF a = k THEN 1 ELSE 0
    BY DEF Promise!Taken
  <2>1. CASE a = k
    <3>1. queues[a] = buffers[t][k] /\ rest[a] = Tail(queues[a])
      BY <1>5, <2>1
    <3>2. Len(queues[a]) \in Nat /\ Len(rest[a]) = Len(queues[a]) - 1
      BY <1>1, <3>1, Rests
    <3> QED BY <2>1, <3>2
  <2>2. CASE a # k
    BY <1>5, <2>2, Rests
  <2> QED BY <2>1, <2>2
<1>7. Promise!Drained(queues, rest)
  <2> SUFFICES ASSUME NEW a \in Address
               PROVE  /\ Promise!Taken(queues, rest, a) \in 0 .. Len(queues[a])
                      /\ rest[a] = SubSeq(queues[a], Promise!Taken(queues, rest, a) + 1,
                                          Len(queues[a]))
                      /\ a \notin Location => rest[a] = queues[a]
    BY SameNames DEF Promise!Drained
  <2>1. queues[a] \in Seq(Int32)
    BY <1>5
  <2>2. CASE a = k
    <3>1. queues[a] # <<>> /\ rest[a] = Tail(queues[a])
      BY <1>1, <1>5, <2>2
    <3>2. Len(queues[a]) \in Nat \ {0} /\ SubSeq(queues[a], 2, Len(queues[a])) = rest[a]
      BY <2>1, <3>1, Rests
    <3> QED BY <1>6, <2>2, <3>2
  <2>3. CASE a # k
    BY <1>5, <1>6, <2>1, <2>3, Rests
  <2> QED BY <2>2, <2>3
<1>8. \A l \in Location : Promise!MemoryAfter(queues, rest)[l] = storage'[l]
  <2> SUFFICES ASSUME NEW l \in Location
               PROVE  (IF Promise!Taken(queues, rest, l) = 0
                       THEN storage[l]
                       ELSE queues[l][Promise!Taken(queues, rest, l)]) = storage'[l]
    BY SameNames DEF Promise!MemoryAfter
  <2>1. l \in Address
    BY StorageAssumption
  <2>2. storage'[l] = IF l = k THEN Head(buffers[t][k]) ELSE storage[l]
    BY DEF Propagate, TypeOK, Memory
  <2>3. Head(buffers[t][k]) = buffers[t][k][1]
    BY <1>1
  <2> QED BY <1>5, <1>6, <2>1, <2>2, <2>3
<1>9. Promise!MemoryAfter(queues, rest) = storage'
  BY <1>8, SameNames DEF Promise!MemoryAfter, Propagate, TypeOK, Memory
<1> QED BY <1>4, <1>7, <1>9 DEF queues, rest

(***************************************************************************)
(* A store waits, and nothing is taken.                                    *)
(***************************************************************************)
LEMMA StoreWaits ==
    ASSUME TypeOK, NEW t \in Thread, NEW a \in Location, NEW v \in Int32,
           Store(t, a, v)
    PROVE  LET queues == [Pending[t] EXCEPT ![a] = Append(@, v)]
           IN  /\ Pending'[t] = queues
               /\ Pending' = [Pending EXCEPT ![t] = queues]
               /\ Promise!Drained(queues, queues)
               /\ Promise!MemoryAfter(queues, queues) = storage
<1> DEFINE queues == [Pending[t] EXCEPT ![a] = Append(@, v)]
           buffer == [buffers[t] EXCEPT ![a] = Append(@, v)]
<1>1. buffers[t] \in Buffer /\ buffers[t][a] \in Seq(Int32)
  BY DEF TypeOK, Buffer
<1>2. buffer \in Buffer
  BY <1>1, AppendProperties DEF Buffer
<1>3. buffers' = [buffers EXCEPT ![t] = buffer]
  BY DEF Store, TypeOK
<1>4. /\ Pending[t] = Queues(buffers[t])
      /\ Pending'[t] = Queues(buffer)
      /\ Pending' = [Pending EXCEPT ![t] = Queues(buffer)]
  BY <1>2, <1>3, PendingStep
<1>5. Queues(buffer) = queues
  BY <1>1, <1>4, StorageAssumption DEF Queues, Buffer
<1>6. \A b \in Address : queues[b] \in Seq(Int32)
  BY <1>2, <1>5, QueueTypes
<1> HIDE DEF queues, buffer
<1>7. \A b \in Address : Promise!Taken(queues, queues, b) = 0
  BY <1>6, Rests DEF Promise!Taken
<1>8. Promise!Drained(queues, queues)
  BY <1>6, <1>7, Rests DEF Promise!Drained
<1>9. Promise!MemoryAfter(queues, queues) = storage
  BY <1>7, StorageAssumption, SameNames DEF Promise!MemoryAfter, TypeOK, Memory
<1> QED BY <1>4, <1>5, <1>8, <1>9 DEF queues

(***************************************************************************)
(* One step of the manager is a step of StoreBuffers, or none.             *)
(***************************************************************************)
LEMMA PromiseStep ==
    ASSUME TypeOK, [Next]_vars
    PROVE  [Promise!Next]_Promise!vars
<1>1. CASE UNCHANGED vars
  BY <1>1 DEF vars, Promise!vars
<1>2. ASSUME NEW t \in Thread, NEW a \in Address, NEW v \in Int32, Load(t, a, v)
      PROVE  Promise!Next
  <2>1. buffers[t] \in Buffer
    BY DEF TypeOK, Buffer
  <2>2. Pending[t][a] = buffers[t][a]
    BY <1>2, <2>1, QueueTypes DEF Pending, Load
  <2>3. Promise!Load(t, a, v)
    BY <1>2, <2>2, SameNames
       DEF Load, vars, Through, Promise!Load, Promise!Seen, Promise!vars, Pending
  <2> QED BY <2>3, SameNames DEF Promise!Next
<1>3. ASSUME NEW t \in Thread, NEW a \in Address, NEW v \in Value, Store(t, a, v)
      PROVE  Promise!Next
  <2>1. a \in Location /\ v \in Int32
    BY <1>3, StorageAssumption DEF Store
  <2>2. Promise!Store(t, a, v)
    <3> DEFINE queues == [Pending[t] EXCEPT ![a] = Append(@, v)]
    <3>1. /\ Pending'[t] = queues
          /\ Pending' = [Pending EXCEPT ![t] = queues]
          /\ Promise!Drained(queues, queues)
          /\ Promise!MemoryAfter(queues, queues) = storage
      BY <1>3, <2>1, StoreWaits
    <3>2. Promise!Drain(t, queues, queues)
      BY <1>3, <3>1 DEF Store, Promise!Drain, Pending
    <3>3. storage' = Promise!MemoryAfter(queues, queues)
      BY <1>3, <3>1 DEF Store
    <3> QED BY <3>1, <3>2, <3>3 DEF Promise!Store, Pending
  <2> QED BY <2>2 DEF Promise!Next
<1>4. ASSUME NEW t \in Thread, NEW ls, ls \subseteq Location, NEW mem,
             ~crashed, FlushThen(t, ls, mem)
      PROVE  LET rest == Pending'[t]
             IN  /\ Promise!Drain(t, Pending[t], rest)
                 /\ \A a \in ls : rest[a] = <<>>
                 /\ Promise!MemoryAfter(Pending[t], rest)
                       = Flushed(storage, buffers[t], ls)
  <2>1. Emptied(buffers[t], ls) \in Buffer
    BY <1>4, FlushTakes
  <2>2. /\ Pending[t] = Queues(buffers[t])
        /\ Pending'[t] = Queues(Emptied(buffers[t], ls))
        /\ Pending' = [Pending EXCEPT ![t] = Queues(Emptied(buffers[t], ls))]
    BY <1>4, <2>1, PendingStep DEF FlushThen
  <2>3. Promise!Drain(t, Pending[t], Pending'[t])
    BY <1>4, <2>2, FlushTakes DEF FlushThen, Promise!Drain, Pending
  <2>4. \A a \in ls : Pending'[t][a] = <<>>
    BY <1>4, <2>1, <2>2, QueueTypes, StorageAssumption DEF Emptied
  <2> QED BY <1>4, <2>2, <2>3, <2>4, FlushTakes
<1>5. ASSUME NEW t \in Thread, NEW a \in Address, NEW expected \in Value,
             NEW new \in Value, CompareAndSwap(t, a, expected, new)
      PROVE  Promise!Next
  <2>1. /\ ~crashed /\ a \in Location
        /\ FlushThen(t, {a}, Swapped(Flushed(storage, buffers[t], {a}), a, expected, new))
    BY <1>5 DEF CompareAndSwap
  <2>2. Promise!AtomicUpdate(t, a)
    BY <1>4, <2>1, SameNames DEF FlushThen, Promise!AtomicUpdate, Pending
  <2> QED BY <2>2 DEF Promise!Next
<1>6. ASSUME NEW t \in Thread, NEW a \in Address, NEW increment \in Increment,
             FetchAndIncrement(t, a, increment)
      PROVE  Promise!Next
  <2>1. /\ ~crashed /\ a \in Location
        /\ FlushThen(t, {a}, Incremented(Flushed(storage, buffers[t], {a}), a, increment))
    BY <1>6 DEF FetchAndIncrement
  <2>2. Promise!AtomicUpdate(t, a)
    BY <1>4, <2>1, SameNames DEF FlushThen, Promise!AtomicUpdate, Pending
  <2> QED BY <2>2 DEF Promise!Next
<1>7. ASSUME NEW t \in Thread, NEW a \in Address, BadAccess(t, a)
      PROVE  Promise!Next
  <2>1. Promise!Abort /\ ~crashed
    BY <1>7, SameNames DEF BadAccess, Abort, Promise!Abort
  <2> QED BY <2>1 DEF Promise!Next
<1>8. ASSUME NEW t \in Thread, Fence(t)
      PROVE  Promise!Next
  <2>1. ~crashed /\ FlushThen(t, Location, Flushed(storage, buffers[t], Location))
    BY <1>8 DEF Fence
  <2>2. \A a \in Address \ Location : Pending'[t][a] = <<>>
    BY DEF Pending, Queues
  <2>3. Promise!Fence(t)
    BY <1>4, <2>1, <2>2 DEF FlushThen, Promise!Fence, Pending
  <2> QED BY <2>3 DEF Promise!Next
<1>9. ASSUME NEW t \in Thread, NEW k \in Location, Propagate(t, k)
      PROVE  Promise!Next
  <2>1. Promise!InternalUpdate
    BY <1>9, PropagateTakes
       DEF Propagate, Promise!InternalUpdate, Promise!Drain, Pending
  <2> QED BY <2>1 DEF Promise!Next
<1> QED BY <1>1, <1>2, <1>3, <1>5, <1>6, <1>7, <1>8, <1>9, NextCases

(***************************************************************************)
(* The partial store order manager implements StoreBuffers, its buffer for *)
(* a location being the queue for that address.                            *)
(***************************************************************************)
THEOREM Implements == Spec => ImplementsStoreBuffers
<1>1. Init => Promise!Init
  BY SameNames DEF Init, Promise!Init, Queues
<1>2. TypeOK /\ [Next]_vars => [Promise!Next]_Promise!vars
  BY PromiseStep
<1> QED BY <1>1, <1>2, TypeCorrect, PTL DEF Spec, ImplementsStoreBuffers, Promise!Spec
=============================================================================
