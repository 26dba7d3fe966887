-------------------------- MODULE TSOStorage_proof --------------------------
(***************************************************************************)
(* Proofs about TSOStorage: type correctness, the loop of flushBuffer,     *)
(* that a thread always sees its own writes, that its loads return the     *)
(* newest waiting store, and that the manager keeps the promises of        *)
(* StoreBuffers.                                                           *)
(***************************************************************************)
EXTENDS TSOStorage, SequenceTheorems, FunctionTheorems, FiniteSetTheorems,
        WellFoundedInduction, TLAPS

(***************************************************************************)
(* A set of positions up to a bound has a greatest element: what           *)
(* Buffer::find looks for from the back exists.                            *)
(***************************************************************************)
LEMMA GreatestPosition ==
    ASSUME NEW n \in Nat, NEW I, I \subseteq 1 .. n, I # {}
    PROVE  \E i \in I : \A j \in I : i >= j
<1> DEFINE D == {d \in 0 .. n : n - d \in I}
<1>1. PICK k \in I : TRUE
  OBVIOUS
<1>2. k \in 1 .. n
  BY <1>1
<1>3. n - k \in 0 .. n /\ n - (n - k) = k
  BY <1>2
<1>4. n - k \in D
  BY <1>1, <1>3
<1>5. D \subseteq Nat /\ D # {}
  <2>1. D \subseteq Nat
    OBVIOUS
  <2> HIDE DEF D
  <2> QED BY <1>4, <2>1
<1> DEFINE R == {p \in Nat \X Nat : p[1] < p[2]}
<1>r. IsWellFoundedOn(R, Nat)
  BY NatLessThanWellFounded DEF OpToRel
<1>6. PICK d \in D : \A e \in D : ~(<<e, d>> \in R)
  <2> HIDE DEF D, R
  <2> QED BY <1>5, <1>r, WFMin
<1>7. \A e \in D : ~(e < d)
  BY <1>5, <1>6
<1>8. ASSUME NEW j \in I PROVE n - d >= j
  <2>1. j \in 1 .. n
    OBVIOUS
  <2>2. n - j \in 0 .. n /\ n - (n - j) = j
    BY <2>1
  <2>3. n - j \in D
    BY <2>2
  <2> HIDE DEF D
  <2>4. d \in Nat
    BY <1>5
  <2> QED BY <2>1, <2>3, <2>4, <1>7
<1>9. n - d \in I
  OBVIOUS
<1> QED BY <1>8, <1>9

(***************************************************************************)
(* What Find returns: 0 if no store of the buffer is to this address, or   *)
(* else the position of the last one.                                      *)
(***************************************************************************)
LEMMA FindProperties ==
    ASSUME NEW buffer \in Seq(StoreInstruction), NEW a
    PROVE  /\ Find(buffer, a) \in 0 .. Len(buffer)
           /\ Find(buffer, a) = 0 =>
                \A i \in 1 .. Len(buffer) : buffer[i].address # a
           /\ Find(buffer, a) # 0 =>
                /\ buffer[Find(buffer, a)].address = a
                /\ \A i \in 1 .. Len(buffer) :
                      Find(buffer, a) < i => buffer[i].address # a
<1> DEFINE I == {i \in 1 .. Len(buffer) : buffer[i].address = a}
<1>1. Len(buffer) \in Nat
  BY LenProperties
<1>2. Find(buffer, a) = IF I # {} THEN Max(I) ELSE 0
  BY DEF Find, SelectLastInSeq
<1>3. CASE I = {}
  BY <1>1, <1>2, <1>3
<1>4. CASE I # {}
  <2>1. \E i \in I : \A j \in I : i >= j
    BY <1>1, <1>4, GreatestPosition
  <2>2. Max(I) \in I /\ \A j \in I : Max(I) >= j
    BY <2>1 DEF Max
  <2>3. Find(buffer, a) = Max(I)
    BY <1>2, <1>4
  <2>4. /\ Max(I) \in 1 .. Len(buffer)
        /\ buffer[Max(I)].address = a
    BY <2>2
  <2>5. \A i \in 1 .. Len(buffer) : Max(I) < i => buffer[i].address # a
    <3> SUFFICES ASSUME NEW i \in 1 .. Len(buffer), Max(I) < i,
                        buffer[i].address = a
                 PROVE  FALSE
      OBVIOUS
    <3>1. i \in I
      OBVIOUS
    <3> HIDE DEF I
    <3> QED BY <1>1, <2>2, <2>4, <3>1
  <2> HIDE DEF I
  <2> QED BY <1>1, <2>3, <2>4, <2>5
<1> QED BY <1>3, <1>4

(***************************************************************************)
(* FindProperties determines Find, which is how the lemmas below compute   *)
(* it for a buffer that another one has become.                            *)
(***************************************************************************)
LEMMA FindIs ==
    ASSUME NEW buffer \in Seq(StoreInstruction), NEW a,
           NEW p \in 0 .. Len(buffer),
           p # 0 => buffer[p].address = a,
           \A i \in 1 .. Len(buffer) : p < i => buffer[i].address # a
    PROVE  Find(buffer, a) = p
<1>1. Len(buffer) \in Nat
  BY LenProperties
<1>2. ~(Find(buffer, a) < p)
  BY <1>1, FindProperties
<1>3. ~(p < Find(buffer, a))
  BY <1>1, FindProperties
<1> QED BY <1>1, <1>2, <1>3, FindProperties

LEMMA FindEmpty ==
    ASSUME NEW a
    PROVE  Find(<<>>, a) = 0
<1>1. <<>> \in Seq(StoreInstruction) /\ Len(<<>>) = 0
  BY EmptySeq
<1>2. Find(<<>>, a) \in 0 .. Len(<<>>)
  BY <1>1, FindProperties
<1> QED BY <1>1, <1>2

LEMMA FindAppend ==
    ASSUME NEW buffer \in Seq(StoreInstruction), NEW s \in StoreInstruction, NEW a
    PROVE  Find(Append(buffer, s), a) =
              IF s.address = a THEN Len(buffer) + 1 ELSE Find(buffer, a)
<1>1. /\ Append(buffer, s) \in Seq(StoreInstruction)
      /\ Len(Append(buffer, s)) = Len(buffer) + 1
      /\ \A i \in 1 .. Len(buffer) : Append(buffer, s)[i] = buffer[i]
      /\ Append(buffer, s)[Len(buffer) + 1] = s
  BY AppendProperties
<1>2. Len(buffer) \in Nat
  BY LenProperties
<1> DEFINE longer == Append(buffer, s)
           p == IF s.address = a THEN Len(buffer) + 1 ELSE Find(buffer, a)
<1>3. p \in 0 .. Len(longer) /\ (p # 0 => longer[p].address = a)
  BY <1>1, <1>2, FindProperties
<1>4. ASSUME NEW i \in 1 .. Len(longer), p < i PROVE longer[i].address # a
  <2>1. CASE i = Len(buffer) + 1
    BY <1>1, <1>2, <1>4, <2>1
  <2>2. CASE i \in 1 .. Len(buffer)
    BY <1>1, <1>2, <1>4, <2>2, FindProperties
  <2> QED BY <1>1, <1>2, <2>1, <2>2
<1> HIDE DEF p, longer
<1>5. Find(longer, a) = p
  BY <1>1, <1>3, <1>4, FindIs DEF longer
<1> QED BY <1>5 DEF longer, p

LEMMA FindTail ==
    ASSUME NEW buffer \in Seq(StoreInstruction), buffer # <<>>, NEW a
    PROVE  Find(Tail(buffer), a) =
              IF Find(buffer, a) = 0 THEN 0 ELSE Find(buffer, a) - 1
<1>1. /\ Tail(buffer) \in Seq(StoreInstruction)
      /\ Len(Tail(buffer)) = Len(buffer) - 1
      /\ \A i \in 1 .. Len(Tail(buffer)) : Tail(buffer)[i] = buffer[i + 1]
  BY HeadTailProperties
<1>2. Len(buffer) \in Nat \ {0}
  BY EmptySeq
<1> DEFINE p == IF Find(buffer, a) = 0 THEN 0 ELSE Find(buffer, a) - 1
<1>3. /\ p \in 0 .. Len(Tail(buffer))
      /\ p # 0 => Tail(buffer)[p].address = a
  BY <1>1, <1>2, FindProperties
<1>4. \A i \in 1 .. Len(Tail(buffer)) : p < i => Tail(buffer)[i].address # a
  BY <1>1, <1>2, FindProperties
<1> QED BY <1>1, <1>3, <1>4, FindIs

-----------------------------------------------------------------------------
(***************************************************************************)
(* One iteration of the loop of flushBuffer, or one internal update, does  *)
(* not change what the thread sees at any location.                        *)
(***************************************************************************)
LEMMA PropagateKeepsThrough ==
    ASSUME NEW mem \in Memory, NEW buffer \in Seq(StoreInstruction),
           buffer # <<>>, Head(buffer).address \in Location, NEW l \in Location
    PROVE  Through([mem EXCEPT ![Head(buffer).address] = Head(buffer).value],
                   Tail(buffer), l)
              = Through(mem, buffer, l)
<1> DEFINE oldest == Head(buffer)
           next == [mem EXCEPT ![oldest.address] = oldest.value]
<1>1. Len(buffer) \in Nat \ {0} /\ oldest = buffer[1]
  BY EmptySeq
<1>2. next[l] = IF oldest.address = l THEN oldest.value ELSE mem[l]
  BY DEF Memory
<1>3. /\ Len(Tail(buffer)) = Len(buffer) - 1
      /\ \A i \in 1 .. Len(Tail(buffer)) : Tail(buffer)[i] = buffer[i + 1]
  BY HeadTailProperties
<1>4. Find(buffer, l) \in 0 .. Len(buffer)
  BY FindProperties
<1> HIDE DEF next
<1>5. CASE Find(buffer, l) = 0
  <2>1. oldest.address # l
    BY <1>1, <1>5, FindProperties
  <2> QED BY <1>2, <1>5, <2>1, FindTail DEF Through, next
<1>6. CASE Find(buffer, l) = 1
  <2>1. oldest.address = l
    BY <1>1, <1>6, FindProperties
  <2> QED BY <1>1, <1>2, <1>6, <2>1, FindTail DEF Through, next
<1>7. CASE Find(buffer, l) > 1
  <2>1. Find(Tail(buffer), l) = Find(buffer, l) - 1
    BY <1>4, <1>7, FindTail
  <2>2. Tail(buffer)[Find(buffer, l) - 1] = buffer[Find(buffer, l)]
    BY <1>1, <1>3, <1>4, <1>7
  <2> QED BY <1>4, <1>7, <2>1, <2>2 DEF Through
<1> QED BY <1>4, <1>5, <1>6, <1>7

(***************************************************************************)
(* flushBuffer is "while (propagate(threadId)) {}": each iteration leaves  *)
(* Flushed as it is, and with an empty buffer Flushed is the memory, so    *)
(* the loop ends with the memory Flushed gives.                            *)
(***************************************************************************)
THEOREM FlushLoop ==
    ASSUME NEW mem \in Memory, NEW buffer \in Seq(StoreInstruction)
    PROVE  /\ buffer = <<>> => Flushed(mem, buffer) = mem
           /\ buffer # <<>> /\ Head(buffer).address \in Location =>
                Flushed([mem EXCEPT ![Head(buffer).address] = Head(buffer).value],
                        Tail(buffer))
                   = Flushed(mem, buffer)
<1>1. CASE buffer = <<>>
  <2>1. \A l \in Location : Through(mem, buffer, l) = mem[l]
    BY <1>1, FindEmpty DEF Through
  <2> QED BY <1>1, <2>1 DEF Flushed, Memory
<1>2. CASE buffer # <<>> /\ Head(buffer).address \in Location
  BY <1>2, PropagateKeepsThrough DEF Flushed
<1> QED BY <1>1, <1>2
-----------------------------------------------------------------------------
LEMMA Plus32Type ==
    ASSUME NEW m \in Int32, NEW n \in Int32
    PROVE  Plus32(m, n) \in Int32
  BY IntAssumption DEF Plus32, Wrap, Int32, MinInt

LEMMA ThroughType ==
    ASSUME NEW mem \in Memory, NEW buffer \in Seq(StoreInstruction),
           NEW l \in Location
    PROVE  Through(mem, buffer, l) \in Int32
<1>1. CASE Find(buffer, l) = 0
  BY <1>1 DEF Through, Memory
<1>2. CASE Find(buffer, l) # 0
  <2>1. Find(buffer, l) \in 1 .. Len(buffer)
    BY <1>2, FindProperties, LenProperties
  <2>2. buffer[Find(buffer, l)] \in StoreInstruction
    BY <2>1, ElementOfSeq
  <2> QED BY <1>2, <2>2 DEF Through, StoreInstruction
<1> QED BY <1>1, <1>2

LEMMA UpdateTypes ==
    ASSUME NEW mem \in Memory, NEW buffer \in Seq(StoreInstruction),
           NEW a \in Location
    PROVE  /\ Flushed(mem, buffer) \in Memory
           /\ \A expected, new \in Value : Swapped(mem, a, expected, new) \in Memory
           /\ \A increment \in Increment : Incremented(mem, a, increment) \in Memory
<1>1. Flushed(mem, buffer) \in Memory
  BY ThroughType DEF Flushed, Memory
<1>2. \A expected, new \in Value : Swapped(mem, a, expected, new) \in Memory
  BY StorageAssumption DEF Swapped, Memory
<1>3. ASSUME NEW increment \in Increment
      PROVE  Incremented(mem, a, increment) \in Memory
  <2>1. Plus32(mem[a], increment) \in Int32
    BY StorageAssumption, Plus32Type DEF Memory
  <2> QED BY <2>1 DEF Incremented, Memory
<1> QED BY <1>1, <1>2, <1>3

(***************************************************************************)
(* Next has one disjunct per operation; this names them, so that the       *)
(* proofs below have one step for each.                                    *)
(***************************************************************************)
LEMMA NextCases ==
    ASSUME Next
    PROVE  \/ \E t \in Thread, a \in Address, v \in Int32 : Load(t, a, v)
           \/ \E t \in Thread, a \in Address : BadLoad(t, a)
           \/ \E t \in Thread, a \in Address, v \in Value : Store(t, a, v)
           \/ \E t \in Thread, a \in Address, expected, new \in Value :
                 CompareAndSwap(t, a, expected, new)
           \/ \E t \in Thread, a \in Address, increment \in Increment :
                 FetchAndIncrement(t, a, increment)
           \/ \E t \in Thread : Fence(t)
           \/ \E t \in Thread : Propagate(t)
  BY DEF Next, InternalUpdate

LEMMA TypeInit == Init => TypeOK
<1> SUFFICES ASSUME Init PROVE TypeOK
  OBVIOUS
<1>1. 0 \in Int32
  BY IntAssumption DEF Int32, MinInt
<1>2. storage \in Memory
  BY <1>1 DEF Init, ZeroedMemory, Memory
<1>3. buffers \in [Thread -> Seq(StoreInstruction)]
  BY EmptySeq DEF Init
<1> QED BY <1>2, <1>3 DEF Init, TypeOK

LEMMA TypeStep ==
    ASSUME TypeOK, [Next]_vars
    PROVE  TypeOK'
<1>1. CASE UNCHANGED vars
  BY <1>1 DEF TypeOK, vars
<1>2. ASSUME NEW t \in Thread, NEW a \in Address, NEW v \in Int32, Load(t, a, v)
      PROVE  TypeOK'
  BY <1>2 DEF TypeOK, Load, vars
<1>3. ASSUME NEW t \in Thread, NEW a \in Address, BadLoad(t, a)
      PROVE  TypeOK'
  BY <1>3 DEF TypeOK, BadLoad, Abort
<1>4. ASSUME NEW t \in Thread, NEW a \in Address, NEW v \in Value, Store(t, a, v)
      PROVE  TypeOK'
  <2>1. [address |-> a, value |-> v] \in StoreInstruction
    BY StorageAssumption DEF StoreInstruction
  <2>2. Append(buffers[t], [address |-> a, value |-> v]) \in Seq(StoreInstruction)
    BY <2>1, AppendProperties DEF TypeOK
  <2> QED BY <1>4, <2>2 DEF TypeOK, Store
<1>5. ASSUME NEW t \in Thread, NEW mem \in Memory, FlushThen(t, mem)
      PROVE  TypeOK'
  BY <1>5, EmptySeq DEF TypeOK, FlushThen
<1>6. ASSUME NEW t \in Thread, NEW a \in Address, NEW expected \in Value,
             NEW new \in Value, CompareAndSwap(t, a, expected, new)
      PROVE  TypeOK'
  <2>1. CASE Abort
    BY <2>1 DEF TypeOK, Abort
  <2>2. CASE a \in Location /\ ~Abort
    <3>1. Swapped(Flushed(storage, buffers[t]), a, expected, new) \in Memory
      BY <2>2, UpdateTypes DEF TypeOK
    <3> QED BY <1>5, <1>6, <2>2, <3>1 DEF CompareAndSwap
  <2> QED BY <1>6, <2>1, <2>2 DEF CompareAndSwap
<1>7. ASSUME NEW t \in Thread, NEW a \in Address, NEW increment \in Increment,
             FetchAndIncrement(t, a, increment)
      PROVE  TypeOK'
  <2>1. CASE Abort
    BY <2>1 DEF TypeOK, Abort
  <2>2. CASE a \in Location /\ ~Abort
    <3>1. Incremented(Flushed(storage, buffers[t]), a, increment) \in Memory
      BY <2>2, UpdateTypes DEF TypeOK
    <3> QED BY <1>5, <1>7, <2>2, <3>1 DEF FetchAndIncrement
  <2> QED BY <1>7, <2>1, <2>2 DEF FetchAndIncrement
<1>8. ASSUME NEW t \in Thread, Fence(t)
      PROVE  TypeOK'
  <2>1. CASE Abort
    BY <2>1 DEF TypeOK, Abort
  <2>2. CASE FlushThen(t, Flushed(storage, buffers[t]))
    <3>1. Flushed(storage, buffers[t]) \in Memory
      BY ThroughType DEF Flushed, Memory, TypeOK
    <3> QED BY <1>5, <2>2, <3>1
  <2> QED BY <1>8, <2>1, <2>2 DEF Fence
<1>9. ASSUME NEW t \in Thread, Propagate(t)
      PROVE  TypeOK'
  <2> DEFINE oldest == Head(buffers[t])
  <2>1. CASE Abort
    BY <2>1 DEF TypeOK, Abort
  <2>2. oldest \in StoreInstruction /\ Tail(buffers[t]) \in Seq(StoreInstruction)
    BY <1>9, HeadTailProperties DEF TypeOK, Propagate
  <2>3. oldest.value \in Int32
    BY <2>2 DEF StoreInstruction
  <2>4. CASE ~Abort
    BY <1>9, <2>2, <2>3, <2>4 DEF TypeOK, Propagate, Memory
  <2> QED BY <2>1, <2>4
<1> QED BY <1>1, <1>2, <1>3, <1>4, <1>6, <1>7, <1>8, <1>9, NextCases

(***************************************************************************)
(* Type correctness: the memory and the buffers hold machine integers, and *)
(* an increment that overflows wraps around.                               *)
(***************************************************************************)
THEOREM TypeCorrect == Spec => []TypeOK
<1>1. Init => TypeOK
  BY TypeInit
<1>2. TypeOK /\ [Next]_vars => TypeOK'
  BY TypeStep
<1> QED BY <1>1, <1>2, PTL DEF Spec
-----------------------------------------------------------------------------
(***************************************************************************)
(* A step that leaves the buffer of t alone changes what t sees only where *)
(* t has nothing buffered.                                                 *)
(***************************************************************************)
LEMMA BufferKept ==
    ASSUME NEW t \in Thread, NEW l \in Location,
           buffers'[t] = buffers[t], View(t, l)' # View(t, l)
    PROVE  Find(buffers[t], l) = 0 /\ storage'[l] # storage[l]
  BY DEF View, Through

(***************************************************************************)
(* A flush keeps what the thread sees wherever the operation that flushes  *)
(* has not changed the flushed memory.                                     *)
(***************************************************************************)
LEMMA FlushKeepsView ==
    ASSUME TypeOK, NEW t \in Thread, NEW mem, NEW l \in Location,
           FlushThen(t, mem), mem[l] = Flushed(storage, buffers[t])[l]
    PROVE  View(t, l)' = View(t, l)
<1>1. storage'[l] = Through(storage, buffers[t], l)
  BY DEF FlushThen, Flushed
<1>2. buffers'[t] = <<>>
  BY DEF FlushThen, TypeOK
<1>3. View(t, l)' = storage'[l]
  BY <1>2, FindEmpty DEF View, Through
<1> QED BY <1>1, <1>3 DEF View

(***************************************************************************)
(* One step, one thread and one location of ReadYourWrites.                *)
(***************************************************************************)
LEMMA ViewStep ==
    ASSUME TypeOK, [Next]_vars, NEW t \in Thread, NEW l \in Location,
           View(t, l)' # View(t, l)
    PROVE  \/ Writes(t, l)
           \/ /\ Find(buffers[t], l) = 0
              /\ buffers'[t] = buffers[t]
              /\ storage'[l] # storage[l]
<1> DEFINE Goal == \/ Writes(t, l)
                   \/ /\ Find(buffers[t], l) = 0
                      /\ buffers'[t] = buffers[t]
                      /\ storage'[l] # storage[l]
<1>0. buffers'[t] = buffers[t] => Goal
  BY BufferKept
<1>1. ASSUME Abort \/ UNCHANGED vars PROVE Goal
  BY <1>0, <1>1 DEF Abort, vars
<1>2. ASSUME NEW u \in Thread, NEW mem, FlushThen(u, mem), u # t PROVE Goal
  <2>1. buffers'[t] = buffers[t]
    BY <1>2 DEF FlushThen, TypeOK
  <2> QED BY <1>0, <2>1
<1>3. ASSUME NEW u \in Thread, NEW a \in Address, NEW v \in Value, Store(u, a, v)
      PROVE  Goal
  <2>1. CASE u # t
    BY <1>0, <1>3, <2>1 DEF Store, TypeOK
  <2>2. CASE u = t /\ a = l
    BY <1>3, <2>2 DEF Writes
  <2>3. CASE u = t /\ a # l
    <3> DEFINE s == [address |-> a, value |-> v]
    <3>1. s \in StoreInstruction
      BY StorageAssumption DEF StoreInstruction
    <3>2. buffers[t] \in Seq(StoreInstruction)
      BY DEF TypeOK
    <3>3. /\ buffers'[t] = Append(buffers[t], s)
          /\ storage' = storage
      BY <1>3, <2>3 DEF Store, TypeOK
    <3>4. s.address # l
      BY <2>3
    <3> HIDE DEF s
    <3>5. Find(buffers'[t], l) = Find(buffers[t], l)
      BY <3>1, <3>2, <3>3, <3>4, FindAppend
    <3>6. Find(buffers[t], l) # 0 =>
             buffers'[t][Find(buffers[t], l)] = buffers[t][Find(buffers[t], l)]
      <4>1. Find(buffers[t], l) \in 0 .. Len(buffers[t])
        BY <3>2, FindProperties
      <4>2. \A i \in 1 .. Len(buffers[t]) : buffers'[t][i] = buffers[t][i]
        BY <3>1, <3>2, <3>3, AppendProperties
      <4>3. Len(buffers[t]) \in Nat
        BY <3>2, LenProperties
      <4> QED BY <4>1, <4>2, <4>3
    <3>7. View(t, l)' = View(t, l)
      BY <3>3, <3>5, <3>6 DEF View, Through
    <3> QED BY <3>7
  <2> QED BY <2>1, <2>2, <2>3
<1>4. ASSUME NEW u \in Thread, NEW a \in Address, NEW expected \in Value,
             NEW new \in Value, CompareAndSwap(u, a, expected, new)
      PROVE  Goal
  <2> DEFINE flushed == Flushed(storage, buffers[u])
  <2>1. CASE u = t /\ a = l
    BY <1>4, <2>1 DEF Writes
  <2>2. CASE a \in Location /\ FlushThen(u, Swapped(flushed, a, expected, new))
    <3>1. flushed \in Memory
      BY <2>2, UpdateTypes DEF TypeOK
    <3>2. a # l => Swapped(flushed, a, expected, new)[l] = flushed[l]
      BY <3>1 DEF Swapped, Memory
    <3> HIDE DEF flushed
    <3>3. CASE u = t /\ a # l
      BY <2>2, <3>2, <3>3, FlushKeepsView DEF flushed
    <3> QED BY <1>2, <2>1, <2>2, <3>3
  <2> QED BY <1>1, <1>4, <2>2 DEF CompareAndSwap
<1>5. ASSUME NEW u \in Thread, NEW a \in Address, NEW increment \in Increment,
             FetchAndIncrement(u, a, increment)
      PROVE  Goal
  <2> DEFINE flushed == Flushed(storage, buffers[u])
  <2>1. CASE u = t /\ a = l
    BY <1>5, <2>1 DEF Writes
  <2>2. CASE a \in Location /\ FlushThen(u, Incremented(flushed, a, increment))
    <3>1. flushed \in Memory
      BY <2>2, UpdateTypes DEF TypeOK
    <3>2. a # l => Incremented(flushed, a, increment)[l] = flushed[l]
      BY <3>1 DEF Incremented, Memory
    <3> HIDE DEF flushed
    <3>3. CASE u = t /\ a # l
      BY <2>2, <3>2, <3>3, FlushKeepsView DEF flushed
    <3> QED BY <1>2, <2>1, <2>2, <3>3
  <2> QED BY <1>1, <1>5, <2>2 DEF FetchAndIncrement
<1>6. ASSUME NEW u \in Thread, Fence(u) PROVE Goal
  <2>1. CASE FlushThen(u, Flushed(storage, buffers[u])) /\ u = t
    BY <2>1, FlushKeepsView
  <2> QED BY <1>1, <1>2, <1>6, <2>1 DEF Fence
<1>7. ASSUME NEW u \in Thread, Propagate(u) PROVE Goal
  <2> DEFINE oldest == Head(buffers[u])
  <2>1. CASE ~Abort /\ u = t
    <3>1. /\ oldest.address \in Location
          /\ storage' = [storage EXCEPT ![oldest.address] = oldest.value]
          /\ buffers'[t] = Tail(buffers[t])
      BY <1>7, <2>1 DEF Propagate, TypeOK
    <3>2. storage \in Memory /\ buffers[t] \in Seq(StoreInstruction)
          /\ buffers[t] # <<>>
      BY <1>7, <2>1 DEF TypeOK, Propagate
    <3>3. oldest = Head(buffers[t])
      BY <2>1
    <3> HIDE DEF oldest
    <3>4. Through([storage EXCEPT ![oldest.address] = oldest.value],
                  Tail(buffers[t]), l)
             = Through(storage, buffers[t], l)
      BY <3>1, <3>2, <3>3, PropagateKeepsThrough
    <3>5. View(t, l)' = View(t, l)
      BY <3>1, <3>4 DEF View
    <3> QED BY <3>5
  <2>2. CASE ~Abort /\ u # t
    BY <1>0, <1>7, <2>2 DEF Propagate, TypeOK
  <2> QED BY <1>1, <2>1, <2>2
<1> HIDE DEF Goal
<1>8. Goal
  <2>1. CASE UNCHANGED vars
    BY <1>1, <2>1
  <2>2. CASE Next
    <3>1. \A u \in Thread, a \in Address, v \in Int32 : Load(u, a, v) => Goal
      BY <1>1 DEF Load
    <3>2. \A u \in Thread, a \in Address : BadLoad(u, a) => Goal
      BY <1>1 DEF BadLoad
    <3> QED BY <1>3, <1>4, <1>5, <1>6, <1>7, <2>2, <3>1, <3>2, NextCases
  <2> QED BY <2>1, <2>2
<1> QED BY <1>8 DEF Goal

(***************************************************************************)
(* A thread always sees its own writes: in every run of the manager, what  *)
(* a thread reads at a location changes only by its own writes there, or   *)
(* by somebody else's when it has nothing buffered for that location.      *)
(***************************************************************************)
THEOREM OwnWritesAreSeen == Spec => ReadYourWrites
<1> DEFINE Step ==
        \A t \in Thread, l \in Location :
           View(t, l)' # View(t, l) =>
              \/ Writes(t, l)
              \/ /\ Find(buffers[t], l) = 0
                 /\ buffers'[t] = buffers[t]
                 /\ storage'[l] # storage[l]
<1>1. TypeOK /\ [Next]_vars => [Step]_vars
  BY ViewStep
<1>2. Spec => [][Step]_vars
  <2> HIDE DEF Step
  <2> QED BY <1>1, TypeCorrect, PTL DEF Spec
<1> QED BY <1>2 DEF ReadYourWrites
-----------------------------------------------------------------------------
(***************************************************************************)
(* The queue of an address in a buffer, by the positions of its stores: s  *)
(* gives the n positions of the set "own" in their order.                  *)
(***************************************************************************)
Enumerates(s, n, own) ==
    /\ n \in Nat
    /\ s \in [1 .. n -> own]
    /\ \A i \in own : \E k \in 1 .. n : s[k] = i
    /\ \A j, k \in 1 .. n : j < k => s[j] < s[k]

(***************************************************************************)
(* A set of positions up to a bound has such an enumeration.               *)
(***************************************************************************)
LEMMA EnumerationExists ==
    ASSUME NEW N \in Nat, NEW own, own \subseteq 1 .. N
    PROVE  \E n : \E s : Enumerates(s, n, own)
<1> DEFINE Has(I) == \E n : \E s : Enumerates(s, n, I)
           Bad == {b \in Nat : \E I \in SUBSET (1 .. b) : ~Has(I)}
           R == {p \in Nat \X Nat : p[1] < p[2]}
<1>1. SUFFICES ASSUME Bad # {} PROVE FALSE
  <2>1. Bad = {} => Has(own)
    <3> HIDE DEF Has
    <3> QED OBVIOUS
  <2> QED BY <2>1
<1>2. IsWellFoundedOn(R, Nat)
  BY NatLessThanWellFounded DEF OpToRel
<1>3. PICK b \in Bad : \A c \in Bad : ~(<<c, b>> \in R)
  <2>1. Bad \subseteq Nat
    OBVIOUS
  <2> HIDE DEF Bad, R
  <2> QED BY <1>1, <1>2, <2>1, WFMin
<1>4. b \in Nat /\ \A c \in Bad : ~(c < b)
  BY <1>3
<1>5. PICK I \in SUBSET (1 .. b) : ~Has(I)
  <2> HIDE DEF Has
  <2> QED OBVIOUS
<1>6. b # 0
  <2> SUFFICES ASSUME b = 0 PROVE FALSE
    OBVIOUS
  <2>1. I = {} /\ 1 .. 0 = {}
    OBVIOUS
  <2>2. Enumerates([k \in 1 .. 0 |-> 0], 0, I)
    BY <2>1 DEF Enumerates
  <2> QED BY <1>5, <2>2
<1>7. PICK n, s : Enumerates(s, n, I \ {b})
  <2>1. b - 1 \in Nat /\ b - 1 < b /\ I \ {b} \in SUBSET (1 .. (b - 1))
    BY <1>4, <1>6
  <2>2. b - 1 \notin Bad
    BY <1>4, <2>1
  <2>3. Has(I \ {b})
    <3> HIDE DEF Has
    <3> QED BY <2>1, <2>2
  <2> QED BY <2>3
<1> HIDE DEF Bad
<1>8. CASE b \notin I
  <2>1. I \ {b} = I
    BY <1>8
  <2> QED BY <1>5, <1>7, <2>1
<1>9. CASE b \in I
  <2> DEFINE longer == [k \in 1 .. (n + 1) |-> IF k = n + 1 THEN b ELSE s[k]]
  <2>1. /\ n \in Nat
        /\ \A k \in 1 .. n : s[k] \in I /\ s[k] \in Nat /\ s[k] < b
        /\ \A i \in I \ {b} : \E k \in 1 .. n : s[k] = i
        /\ \A j, k \in 1 .. n : j < k => s[j] < s[k]
    <3>1. /\ n \in Nat
          /\ \A k \in 1 .. n : s[k] \in I \ {b}
          /\ \A i \in I \ {b} : \E k \in 1 .. n : s[k] = i
          /\ \A j, k \in 1 .. n : j < k => s[j] < s[k]
      BY <1>7 DEF Enumerates
    <3>2. \A i \in I \ {b} : i \in I /\ i \in Nat /\ i < b
      BY <1>4
    <3> QED BY <3>1, <3>2
  <2>2. /\ longer \in [1 .. (n + 1) -> I]
        /\ longer[n + 1] = b
        /\ \A k \in 1 .. n : longer[k] = s[k]
    BY <1>9, <2>1
  <2> HIDE DEF longer
  <2>3. ASSUME NEW i \in I PROVE \E k \in 1 .. (n + 1) : longer[k] = i
    <3>1. CASE i = b
      BY <2>1, <2>2, <3>1
    <3>2. CASE i # b
      <4>1. PICK k \in 1 .. n : s[k] = i
        BY <2>1, <3>2
      <4>2. k \in 1 .. (n + 1) /\ longer[k] = i
        BY <2>1, <2>2, <4>1
      <4> QED BY <4>2
    <3> QED BY <3>1, <3>2
  <2>4. ASSUME NEW j \in 1 .. (n + 1), NEW k \in 1 .. (n + 1), j < k
        PROVE  longer[j] < longer[k]
    <3>1. j \in 1 .. n
      BY <2>1, <2>4
    <3>2. CASE k = n + 1
      BY <2>1, <2>2, <3>1, <3>2
    <3>3. CASE k \in 1 .. n
      BY <2>1, <2>2, <2>4, <3>1, <3>3
    <3> QED BY <2>1, <3>2, <3>3
  <2>5. Enumerates(longer, n + 1, I)
    BY <2>1, <2>2, <2>3, <2>4 DEF Enumerates
  <2> QED BY <1>5, <2>5
<1> QED BY <1>8, <1>9

(***************************************************************************)
(* An enumeration has as many elements as the set, and its n-th is Nth.    *)
(***************************************************************************)
LEMMA NthOfEnumeration ==
    ASSUME NEW own, own \subseteq Nat, NEW s, NEW n, Enumerates(s, n, own)
    PROVE  /\ Cardinality(own) = n
           /\ \A k \in 1 .. n : Nth(own, k) = s[k]
<1>1. /\ n \in Nat
      /\ s \in [1 .. n -> own]
      /\ \A i \in own : \E k \in 1 .. n : s[k] = i
      /\ \A j, k \in 1 .. n : j < k => s[j] < s[k]
  BY DEF Enumerates
<1>2. \A k \in 1 .. n : s[k] \in Nat /\ s[k] \in own
  BY <1>1
<1>3. \A j, k \in 1 .. n : s[j] <= s[k] <=> j <= k
  <2> SUFFICES ASSUME NEW j \in 1 .. n, NEW k \in 1 .. n
               PROVE  s[j] <= s[k] <=> j <= k
    OBVIOUS
  <2>1. CASE j < k
    BY <1>1, <1>2, <2>1
  <2>2. CASE k < j
    BY <1>1, <1>2, <2>2
  <2>3. CASE j = k
    BY <1>2, <2>3
  <2> QED BY <1>1, <2>1, <2>2, <2>3
<1>4. ASSUME NEW m \in 0 .. n, NEW I, I \subseteq own,
             \A k \in 1 .. n : s[k] \in I <=> k <= m
      PROVE  Cardinality(I) = m
  <2> DEFINE f == [k \in 1 .. m |-> s[k]]
  <2>1. m \in Nat /\ \A k \in 1 .. m : k \in 1 .. n /\ k <= m
    BY <1>1
  <2>2. f \in [1 .. m -> I] /\ \A k \in 1 .. m : f[k] = s[k]
    BY <1>4, <2>1
  <2> HIDE DEF f
  <2>3. ASSUME NEW i \in I PROVE \E k \in 1 .. m : f[k] = i
    <3>1. PICK k \in 1 .. n : s[k] = i
      BY <1>1, <1>4
    <3>2. k \in 1 .. m
      BY <1>1, <1>4, <2>1, <3>1
    <3> QED BY <2>2, <3>1, <3>2
  <2>4. ASSUME NEW j \in 1 .. m, NEW k \in 1 .. m, f[j] = f[k] PROVE j = k
    <3>1. j \in 1 .. n /\ k \in 1 .. n /\ s[j] = s[k]
      BY <2>1, <2>2, <2>4
    <3>2. s[j] <= s[k] /\ s[k] <= s[j]
      BY <1>2, <3>1
    <3>3. j <= k /\ k <= j
      BY <1>3, <3>1, <3>2
    <3> QED BY <3>1, <3>3
  <2>5. f \in Bijection(1 .. m, I)
    BY <2>2, <2>3, <2>4, Fun_IsBij
  <2>6. ExistsBijection(1 .. m, I)
    BY <2>5 DEF ExistsBijection
  <2> QED BY <2>1, <2>6, FS_CountingElements
<1>5. Cardinality(own) = n
  BY <1>1, <1>4
<1>6. ASSUME NEW k \in 1 .. n
      PROVE  Cardinality({j \in own : j <= s[k]}) = k
  <2> DEFINE I == {j \in own : j <= s[k]}
  <2>1. \A j \in 1 .. n : s[j] \in I <=> j <= k
    BY <1>2, <1>3
  <2>2. I \subseteq own /\ k \in 0 .. n
    BY <1>1
  <2> HIDE DEF I
  <2>3. Cardinality(I) = k
    BY <1>4, <2>1, <2>2
  <2> QED BY <2>3 DEF I
<1>7. ASSUME NEW k \in 1 .. n PROVE Nth(own, k) = s[k]
  <2>1. s[k] \in own
    BY <1>2
  <2>2. \A i \in own : Cardinality({j \in own : j <= i}) = k => i = s[k]
    BY <1>1, <1>6
  <2>3. Nth(own, k) \in own
        /\ Cardinality({j \in own : j <= Nth(own, k)}) = k
    BY <1>6, <2>1 DEF Nth
  <2> QED BY <2>2, <2>3
<1> QED BY <1>5, <1>7

LEMMA QueueIs ==
    ASSUME NEW buffer \in Seq(StoreInstruction), NEW a, NEW s, NEW n,
           Enumerates(s, n, Positions(buffer, a))
    PROVE  /\ Queue(buffer, a) = [k \in 1 .. n |-> buffer[s[k]].value]
           /\ Queue(buffer, a) \in Seq(Int32)
           /\ Len(Queue(buffer, a)) = n
<1> DEFINE own == Positions(buffer, a)
<1>1. /\ own \subseteq 1 .. Len(buffer)
      /\ own \subseteq Nat
      /\ \A i \in own : buffer[i].value \in Int32
  <2>1. own \subseteq 1 .. Len(buffer) /\ Len(buffer) \in Nat
    BY LenProperties DEF Positions
  <2>2. \A i \in 1 .. Len(buffer) : buffer[i] \in StoreInstruction
    BY ElementOfSeq
  <2> QED BY <2>1, <2>2 DEF StoreInstruction
<1> HIDE DEF own
<1>2. /\ n \in Nat /\ \A k \in 1 .. n : s[k] \in own
      /\ Cardinality(own) = n
      /\ \A k \in 1 .. n : Nth(own, k) = s[k]
  <2>1. Enumerates(s, n, own)
    BY DEF own
  <2>2. n \in Nat /\ \A k \in 1 .. n : s[k] \in own
    BY <2>1 DEF Enumerates
  <2>3. own \subseteq Nat
    BY <1>1
  <2>4. Cardinality(own) = n /\ \A k \in 1 .. n : Nth(own, k) = s[k]
    BY <2>1, <2>3, NthOfEnumeration, Zenon
  <2> QED BY <2>2, <2>4
<1>3. Queue(buffer, a) = [k \in 1 .. n |-> buffer[s[k]].value]
  BY <1>2 DEF Queue, own
<1>4. Queue(buffer, a) \in [1 .. n -> Int32]
  BY <1>1, <1>2, <1>3
<1>5. Queue(buffer, a) \in Seq(Int32)
  BY <1>2, <1>4, SeqDef
<1>6. Len(Queue(buffer, a)) = n
  BY <1>2, <1>4, <1>5, LenProperties
<1> QED BY <1>3, <1>5, <1>6

LEMMA QueueType ==
    ASSUME NEW buffer \in Seq(StoreInstruction), NEW a
    PROVE  /\ \E n : \E s : Enumerates(s, n, Positions(buffer, a))
           /\ Queue(buffer, a) \in Seq(Int32)
<1>1. Positions(buffer, a) \subseteq 1 .. Len(buffer) /\ Len(buffer) \in Nat
  BY LenProperties DEF Positions
<1>2. PICK n, s : Enumerates(s, n, Positions(buffer, a))
  BY <1>1, EnumerationExists
<1> QED BY <1>2, QueueIs

(***************************************************************************)
(* The operations on a buffer are those on its queues: what becomes of the *)
(* queue of an address when the buffer is empty, gets a store, loses its   *)
(* oldest one, or is searched from the back.                               *)
(***************************************************************************)
LEMMA QueueEmpty ==
    ASSUME NEW buffer \in Seq(StoreInstruction), NEW a, Positions(buffer, a) = {}
    PROVE  Queue(buffer, a) = <<>>
<1>1. Enumerates([k \in 1 .. 0 |-> 0], 0, Positions(buffer, a))
  BY DEF Enumerates
<1>2. Queue(buffer, a) \in Seq(Int32) /\ Len(Queue(buffer, a)) = 0
  BY <1>1, QueueIs
<1> QED BY <1>2, EmptySeq

LEMMA QueueAppend ==
    ASSUME NEW buffer \in Seq(StoreInstruction), NEW x \in StoreInstruction, NEW a
    PROVE  Queue(Append(buffer, x), a) =
              IF x.address = a THEN Append(Queue(buffer, a), x.value)
                               ELSE Queue(buffer, a)
<1> DEFINE longer == Append(buffer, x)
           own == Positions(buffer, a)
           L == Len(buffer) + 1
<1>1. /\ Len(buffer) \in Nat
      /\ own = {i \in 1 .. Len(buffer) : buffer[i].address = a}
  BY LenProperties DEF Positions
<1>2. /\ longer \in Seq(StoreInstruction)
      /\ Len(longer) = L
      /\ \A i \in 1 .. Len(buffer) : longer[i] = buffer[i]
      /\ longer[L] = x
  BY AppendProperties
<1>3. Positions(longer, a) = {i \in 1 .. L : longer[i].address = a}
  <2>1. DOMAIN longer = 1 .. L
    BY <1>2, LenProperties
  <2> QED BY <2>1 DEF Positions
<1>4. PICK n, s : Enumerates(s, n, own)
  BY QueueType
<1>5. /\ n \in Nat
      /\ s \in [1 .. n -> own]
      /\ \A i \in own : \E k \in 1 .. n : s[k] = i
      /\ \A j, k \in 1 .. n : j < k => s[j] < s[k]
  BY <1>4 DEF Enumerates
<1>6. /\ Queue(buffer, a) = [k \in 1 .. n |-> buffer[s[k]].value]
      /\ Queue(buffer, a) \in Seq(Int32)
      /\ Len(Queue(buffer, a)) = n
  BY <1>4, QueueIs
<1>7. /\ L \in Nat /\ L = Len(buffer) + 1
      /\ \A k \in 1 .. n : s[k] \in own /\ s[k] \in 1 .. Len(buffer) /\ s[k] < L
  BY <1>1, <1>5
<1> HIDE DEF longer, own, L
<1>8. CASE x.address # a
  <2>1. Positions(longer, a) = own
    BY <1>1, <1>2, <1>3, <1>7, <1>8
  <2>2. Queue(longer, a) = [k \in 1 .. n |-> longer[s[k]].value]
    BY <1>2, <1>4, <2>1, QueueIs
  <2>3. \A k \in 1 .. n : longer[s[k]] = buffer[s[k]]
    BY <1>2, <1>7
  <2> QED BY <1>6, <1>8, <2>2, <2>3 DEF longer
<1>9. CASE x.address = a
  <2> DEFINE r == [k \in 1 .. (n + 1) |-> IF k = n + 1 THEN L ELSE s[k]]
  <2>1. Positions(longer, a) = own \cup {L}
    BY <1>1, <1>2, <1>3, <1>7, <1>9
  <2>2. /\ r \in [1 .. (n + 1) -> own \cup {L}]
        /\ r[n + 1] = L
        /\ \A k \in 1 .. n : r[k] = s[k]
    BY <1>5, <1>7
  <2> HIDE DEF r
  <2>3. ASSUME NEW i \in own \cup {L} PROVE \E k \in 1 .. (n + 1) : r[k] = i
    <3>1. CASE i = L
      BY <1>5, <2>2, <3>1
    <3>2. CASE i \in own
      <4>1. PICK k \in 1 .. n : s[k] = i
        BY <1>5, <3>2
      <4>2. k \in 1 .. (n + 1) /\ r[k] = i
        BY <1>5, <2>2, <4>1
      <4> QED BY <4>2
    <3> QED BY <3>1, <3>2
  <2>4. ASSUME NEW j \in 1 .. (n + 1), NEW k \in 1 .. (n + 1), j < k
        PROVE  r[j] < r[k]
    <3>1. j \in 1 .. n
      BY <1>5, <2>4
    <3>2. CASE k = n + 1
      BY <1>7, <2>2, <3>1, <3>2
    <3>3. CASE k \in 1 .. n
      BY <1>5, <2>2, <2>4, <3>1, <3>3
    <3> QED BY <1>5, <3>2, <3>3
  <2>5. Enumerates(r, n + 1, Positions(longer, a))
    BY <1>5, <2>1, <2>2, <2>3, <2>4 DEF Enumerates
  <2>6. /\ Queue(longer, a) = [k \in 1 .. (n + 1) |-> longer[r[k]].value]
        /\ Queue(longer, a) \in Seq(Int32)
        /\ Len(Queue(longer, a)) = n + 1
    BY <1>2, <2>5, QueueIs
  <2>7. x.value \in Int32
    BY DEF StoreInstruction
  <2> DEFINE q == Queue(buffer, a)
             v == x.value
  <2>71. q \in Seq(Int32) /\ Len(q) = n /\ v \in Int32
    BY <1>6, <2>7
  <2>72. \A k \in 1 .. n : q[k] = buffer[s[k]].value
    BY <1>6
  <2>8. /\ Append(q, v) \in Seq(Int32)
        /\ Len(Append(q, v)) = n + 1
        /\ \A k \in 1 .. n : Append(q, v)[k] = q[k]
        /\ Append(q, v)[n + 1] = v
    <3> HIDE DEF q, v
    <3> QED BY <2>71, AppendProperties
  <2>9. \A k \in 1 .. (n + 1) : Queue(longer, a)[k] = Append(q, v)[k]
    <3> SUFFICES ASSUME NEW k \in 1 .. (n + 1)
                 PROVE  Queue(longer, a)[k] = Append(q, v)[k]
      OBVIOUS
    <3>1. Queue(longer, a)[k] = longer[r[k]].value
      BY <2>6
    <3>2. CASE k = n + 1
      BY <1>2, <2>2, <2>8, <3>1, <3>2
    <3>3. CASE k \in 1 .. n
      <4>1. r[k] = s[k] /\ longer[s[k]] = buffer[s[k]]
        BY <1>2, <1>7, <2>2, <3>3
      <4> QED BY <2>8, <2>72, <3>1, <3>3, <4>1
    <3>4. n \in Nat
      BY <1>5
    <3>5. k = n + 1 \/ k \in 1 .. n
      BY <3>4
    <3> QED BY <3>2, <3>3, <3>5
  <2>10. Queue(longer, a) = Append(q, v)
    <3> HIDE DEF q, v
    <3> QED BY <2>6, <2>8, <2>9, SeqEqual
  <2> QED BY <1>9, <2>10 DEF longer
<1> QED BY <1>8, <1>9

LEMMA QueueTail ==
    ASSUME NEW buffer \in Seq(StoreInstruction), buffer # <<>>, NEW a
    PROVE  IF Head(buffer).address = a
           THEN /\ Queue(buffer, a) # <<>>
                /\ Queue(buffer, a)[1] = Head(buffer).value
                /\ Queue(Tail(buffer), a) = Tail(Queue(buffer, a))
           ELSE Queue(Tail(buffer), a) = Queue(buffer, a)
<1> DEFINE rest == Tail(buffer)
           own == Positions(buffer, a)
           L == Len(buffer)
<1>1. L \in Nat \ {0} /\ own = {i \in 1 .. L : buffer[i].address = a}
  BY EmptySeq, LenProperties DEF Positions
<1>2. /\ rest \in Seq(StoreInstruction)
      /\ Len(rest) = L - 1
      /\ \A i \in 1 .. L - 1 : rest[i] = buffer[i + 1]
      /\ Head(buffer) = buffer[1]
  BY HeadTailProperties
<1>3. Positions(rest, a) = {i \in 1 .. L - 1 : buffer[i + 1].address = a}
  <2>1. DOMAIN rest = 1 .. L - 1
    BY <1>2, LenProperties
  <2> QED BY <1>2, <2>1 DEF Positions
<1>4. PICK n, s : Enumerates(s, n, own)
  BY QueueType
<1>5. /\ n \in Nat
      /\ s \in [1 .. n -> own]
      /\ \A i \in own : \E k \in 1 .. n : s[k] = i
      /\ \A j, k \in 1 .. n : j < k => s[j] < s[k]
  BY <1>4 DEF Enumerates
<1>6. /\ Queue(buffer, a) = [k \in 1 .. n |-> buffer[s[k]].value]
      /\ Queue(buffer, a) \in Seq(Int32)
      /\ Len(Queue(buffer, a)) = n
  BY <1>4, QueueIs
<1>7. \A k \in 1 .. n : s[k] \in own /\ s[k] \in 1 .. L
  BY <1>1, <1>5
<1>8. \A i \in own : i \in 1 .. L /\ (i # 1 => i - 1 \in Positions(rest, a))
  BY <1>1, <1>3
<1>9. \A i \in Positions(rest, a) : i \in 1 .. L - 1 /\ i + 1 \in own
  BY <1>1, <1>3
<1> HIDE DEF rest, own, L
<1>10. CASE Head(buffer).address # a
  <2> DEFINE r == [k \in 1 .. n |-> s[k] - 1]
  <2>1. 1 \notin own
    BY <1>1, <1>2, <1>10
  <2>2. /\ r \in [1 .. n -> Positions(rest, a)]
        /\ \A k \in 1 .. n : r[k] = s[k] - 1
    BY <1>7, <1>8, <2>1
  <2> HIDE DEF r
  <2>3. ASSUME NEW i \in Positions(rest, a) PROVE \E k \in 1 .. n : r[k] = i
    <3>1. PICK k \in 1 .. n : s[k] = i + 1
      BY <1>5, <1>9
    <3>2. r[k] = i
      BY <1>1, <1>9, <2>2, <3>1
    <3> QED BY <3>2
  <2>4. \A j, k \in 1 .. n : j < k => r[j] < r[k]
    BY <1>1, <1>5, <1>7, <2>2
  <2>5. Enumerates(r, n, Positions(rest, a))
    BY <1>5, <2>2, <2>3, <2>4 DEF Enumerates
  <2>6. Queue(rest, a) = [k \in 1 .. n |-> rest[r[k]].value]
    BY <1>2, <2>5, QueueIs
  <2>7. \A k \in 1 .. n : rest[r[k]] = buffer[s[k]]
    <3> SUFFICES ASSUME NEW k \in 1 .. n PROVE rest[r[k]] = buffer[s[k]]
      OBVIOUS
    <3>1. s[k] \in 1 .. L /\ s[k] # 1 /\ r[k] = s[k] - 1
      BY <1>7, <2>1, <2>2
    <3>2. r[k] \in 1 .. L - 1 /\ r[k] + 1 = s[k]
      BY <1>1, <3>1
    <3> QED BY <1>2, <3>2
  <2>8. Queue(rest, a) = Queue(buffer, a)
    BY <1>6, <2>6, <2>7
  <2> QED BY <1>10, <2>8 DEF rest
<1>11. CASE Head(buffer).address = a
  <2> DEFINE r == [k \in 1 .. n - 1 |-> s[k + 1] - 1]
  <2>1. 1 \in own
    BY <1>1, <1>2, <1>11
  <2>2. PICK one \in 1 .. n : s[one] = 1
    BY <1>5, <2>1
  <2>3. n \in Nat \ {0} /\ 1 \in 1 .. n
    BY <1>5, <2>2
  <2>4. one = 1
    <3>1. ~(1 < one)
      BY <1>1, <1>5, <1>7, <2>2, <2>3
    <3> QED BY <2>3, <3>1
  <2>5. ASSUME NEW k \in 1 .. n - 1
        PROVE  k + 1 \in 1 .. n /\ s[k + 1] # 1 /\ s[k + 1] \in 1 .. L
    <3>1. k + 1 \in 1 .. n /\ 1 < k + 1
      BY <2>3
    <3>2. s[1] < s[k + 1]
      BY <1>5, <2>3, <3>1
    <3> QED BY <1>7, <2>2, <2>4, <3>1, <3>2
  <2>6. /\ r \in [1 .. n - 1 -> Positions(rest, a)]
        /\ \A k \in 1 .. n - 1 : r[k] = s[k + 1] - 1
    BY <1>7, <1>8, <2>5
  <2> HIDE DEF r
  <2>7. ASSUME NEW i \in Positions(rest, a) PROVE \E k \in 1 .. n - 1 : r[k] = i
    <3>1. PICK k \in 1 .. n : s[k] = i + 1
      BY <1>5, <1>9
    <3>2. k # 1
      BY <1>1, <1>9, <2>2, <2>4, <3>1
    <3>3. k - 1 \in 1 .. n - 1 /\ (k - 1) + 1 = k
      BY <2>3, <3>2
    <3>4. r[k - 1] = i
      BY <1>1, <1>9, <2>6, <3>1, <3>3
    <3> QED BY <3>3, <3>4
  <2>8. ASSUME NEW j \in 1 .. n - 1, NEW k \in 1 .. n - 1, j < k
        PROVE  r[j] < r[k]
    <3>1. s[j + 1] < s[k + 1]
      BY <1>5, <2>3, <2>5, <2>8
    <3> QED BY <1>1, <2>5, <2>6, <3>1
  <2>9. Enumerates(r, n - 1, Positions(rest, a))
    BY <2>3, <2>6, <2>7, <2>8 DEF Enumerates
  <2>10. /\ Queue(rest, a) = [k \in 1 .. n - 1 |-> rest[r[k]].value]
         /\ Queue(rest, a) \in Seq(Int32)
         /\ Len(Queue(rest, a)) = n - 1
    BY <1>2, <2>9, QueueIs
  <2>11. Queue(buffer, a) # <<>> /\ Queue(buffer, a)[1] = Head(buffer).value
    <3>1. Queue(buffer, a)[1] = buffer[s[1]].value
      BY <1>6, <2>3
    <3>2. Len(Queue(buffer, a)) # 0
      BY <1>6, <2>3
    <3> QED BY <1>2, <2>2, <2>4, <3>1, <3>2, EmptySeq
  <2>12. /\ Tail(Queue(buffer, a)) \in Seq(Int32)
         /\ Len(Tail(Queue(buffer, a))) = n - 1
         /\ \A k \in 1 .. n - 1 : Tail(Queue(buffer, a))[k] = Queue(buffer, a)[k + 1]
    BY <1>6, <2>11, HeadTailProperties
  <2>13. \A k \in 1 .. n - 1 : Queue(rest, a)[k] = Tail(Queue(buffer, a))[k]
    <3> SUFFICES ASSUME NEW k \in 1 .. n - 1
                 PROVE  Queue(rest, a)[k] = Tail(Queue(buffer, a))[k]
      OBVIOUS
    <3>1. Queue(rest, a)[k] = rest[r[k]].value
      BY <2>10
    <3>2. Tail(Queue(buffer, a))[k] = buffer[s[k + 1]].value
      BY <1>6, <2>5, <2>12
    <3>3. r[k] \in 1 .. L - 1 /\ r[k] + 1 = s[k + 1]
      BY <1>1, <2>5, <2>6
    <3> QED BY <1>2, <3>1, <3>2, <3>3
  <2>14. Queue(rest, a) = Tail(Queue(buffer, a))
    BY <2>10, <2>12, <2>13, SeqEqual
  <2> QED BY <1>11, <2>11, <2>14 DEF rest
<1> QED BY <1>10, <1>11

LEMMA QueueLast ==
    ASSUME NEW buffer \in Seq(StoreInstruction), NEW a
    PROVE  /\ Find(buffer, a) = 0 <=> Queue(buffer, a) = <<>>
           /\ Find(buffer, a) # 0 =>
                Queue(buffer, a)[Len(Queue(buffer, a))]
                   = buffer[Find(buffer, a)].value
<1> DEFINE own == Positions(buffer, a)
           p == Find(buffer, a)
<1>1. Len(buffer) \in Nat /\ own = {i \in 1 .. Len(buffer) : buffer[i].address = a}
  BY LenProperties DEF Positions
<1>2. /\ p \in 0 .. Len(buffer)
      /\ p = 0 => own = {}
      /\ p # 0 => p \in own /\ \A i \in own : i <= p
  BY <1>1, FindProperties
<1>3. own \subseteq Nat
  BY <1>1
<1> HIDE DEF own, p
<1>4. CASE p = 0
  <2>1. Queue(buffer, a) = <<>>
    BY <1>2, <1>4, QueueEmpty DEF own
  <2> QED BY <1>4, <2>1 DEF p
<1>5. CASE p # 0
  <2>1. PICK n, s : Enumerates(s, n, own)
    BY QueueType DEF own
  <2>2. /\ n \in Nat
        /\ s \in [1 .. n -> own]
        /\ \A i \in own : \E k \in 1 .. n : s[k] = i
        /\ \A j, k \in 1 .. n : j < k => s[j] < s[k]
    BY <2>1 DEF Enumerates
  <2>3. /\ Queue(buffer, a) = [k \in 1 .. n |-> buffer[s[k]].value]
        /\ Queue(buffer, a) \in Seq(Int32)
        /\ Len(Queue(buffer, a)) = n
    BY <2>1, QueueIs DEF own
  <2>4. PICK k \in 1 .. n : s[k] = p
    BY <1>2, <1>5, <2>2
  <2>5. n \in Nat \ {0} /\ n \in 1 .. n
    BY <2>2, <2>4
  <2>6. s[n] \in own /\ s[n] \in Nat /\ s[n] <= p /\ p \in Nat
    BY <1>2, <1>3, <1>5, <2>2, <2>5
  <2>7. k = n
    <3>1. ~(k < n)
      BY <2>2, <2>4, <2>5, <2>6
    <3> QED BY <2>4, <2>5, <3>1
  <2>8. Queue(buffer, a)[n] = buffer[p].value
    BY <2>3, <2>4, <2>5, <2>7
  <2>9. Queue(buffer, a) # <<>>
    BY <2>3, <2>5, EmptySeq
  <2> QED BY <1>5, <2>3, <2>8, <2>9 DEF p
<1> QED BY <1>4, <1>5
-----------------------------------------------------------------------------
(***************************************************************************)
(* StoreBuffers extends StorageManager as TSOStorage does, so that what    *)
(* the two call by the same name is the same.                              *)
(***************************************************************************)
LEMMA SameNames ==
    /\ Promise!Location = Location
    /\ Promise!Int32 = Int32
    /\ Promise!ZeroedMemory = ZeroedMemory
    /\ \A mem, a, expected, new :
          Promise!Swapped(mem, a, expected, new) = Swapped(mem, a, expected, new)
    /\ \A mem, a, increment :
          Promise!Incremented(mem, a, increment) = Incremented(mem, a, increment)
  BY DEF Promise!Location, Location, Promise!Int32, Int32, Promise!MinInt, MinInt,
         Promise!ZeroedMemory, ZeroedMemory, Promise!Swapped, Swapped,
         Promise!Incremented, Incremented, Promise!Plus32, Plus32, Promise!Wrap, Wrap

(* The queues of all threads, which stand for "pending" of StoreBuffers.   *)
Pending == [t \in Thread |-> Queues(buffers[t])]

LEMMA QueuesAt ==
    ASSUME NEW buffer \in Seq(StoreInstruction), NEW a \in Address
    PROVE  /\ Queues(buffer)[a] = Queue(buffer, a)
           /\ Queues(buffer)[a] \in Seq(Int32)
  BY QueueType DEF Queues

(***************************************************************************)
(* Buffer::find over the mixed buffer and the newest entry of the queue of *)
(* the address agree.                                                      *)
(***************************************************************************)
LEMMA ThroughIsSeen ==
    ASSUME NEW mem, NEW buffer \in Seq(StoreInstruction), NEW a \in Address
    PROVE  /\ Through(mem, buffer, a) = Promise!Seen(mem, Queues(buffer), a)
           /\ Find(buffer, a) # 0 <=> Queues(buffer)[a] # <<>>
  BY QueueLast, QueuesAt DEF Through, Promise!Seen

(***************************************************************************)
(* In every run, a load returns the newest waiting store of the thread to  *)
(* that address, or else the memory.                                       *)
(***************************************************************************)
THEOREM LoadsAreRight == Spec => []LoadsAgree
<1>1. TypeOK => LoadsAgree
  BY ThroughIsSeen DEF TypeOK, LoadsAgree
<1> QED BY <1>1, TypeCorrect, PTL

(***************************************************************************)
(* What is left of a queue when nothing, all or the oldest store is taken. *)
(***************************************************************************)
LEMMA Rests ==
    ASSUME NEW q \in Seq(Int32)
    PROVE  /\ Len(q) \in Nat
           /\ SubSeq(q, 1, Len(q)) = q
           /\ SubSeq(q, Len(q) + 1, Len(q)) = <<>>
           /\ q # <<>> => /\ Len(q) # 0
                          /\ SubSeq(q, 2, Len(q)) = Tail(q)
                          /\ Len(Tail(q)) = Len(q) - 1
<1>1. Len(q) \in Nat
  BY LenProperties
<1>2. SubSeq(q, 1, Len(q)) = q
  BY SubSeqFull
<1>3. SubSeq(q, Len(q) + 1, Len(q)) = <<>>
  BY <1>1, SubSeqEmpty
<1>4. ASSUME q # <<>>
      PROVE  /\ Len(q) # 0
             /\ SubSeq(q, 2, Len(q)) = Tail(q)
             /\ Len(Tail(q)) = Len(q) - 1
  BY <1>4, EmptySeq, TailIsSubSeq, HeadTailProperties
<1> QED BY <1>1, <1>2, <1>3, <1>4

(***************************************************************************)
(* A step that only changes the buffer of one thread only changes its      *)
(* queues.                                                                 *)
(***************************************************************************)
LEMMA PendingStep ==
    ASSUME TypeOK, NEW t \in Thread, NEW buffer,
           buffers' = [buffers EXCEPT ![t] = buffer]
    PROVE  /\ Pending[t] = Queues(buffers[t])
           /\ Pending'[t] = Queues(buffer)
           /\ Pending' = [Pending EXCEPT ![t] = Queues(buffer)]
  BY DEF TypeOK, Pending

(***************************************************************************)
(* flushBuffer, when no store of the buffer is to an address out of range, *)
(* takes all that waits.                                                   *)
(***************************************************************************)
LEMMA FlushTakes ==
    ASSUME TypeOK, NEW t \in Thread, InRange(buffers[t])
    PROVE  LET queues == Queues(buffers[t])
               rest   == Queues(<<>>)
           IN  /\ Promise!Drained(queues, rest)
               /\ \A a \in Address : rest[a] = <<>>
               /\ Promise!MemoryAfter(queues, rest) = Flushed(storage, buffers[t])
<1> DEFINE queues == Queues(buffers[t])
           rest == Queues(<<>>)
<1>1. buffers[t] \in Seq(StoreInstruction)
  BY DEF TypeOK
<1>2. \A a \in Address : rest[a] = <<>>
  <2> SUFFICES ASSUME NEW a \in Address PROVE rest[a] = <<>>
    OBVIOUS
  <2>1. <<>> \in Seq(StoreInstruction)
    BY EmptySeq
  <2>2. Positions(<<>>, a) = {}
    BY DEF Positions
  <2> QED BY <2>1, <2>2, QueueEmpty, QueuesAt
<1>3. \A a \in Address : /\ queues[a] \in Seq(Int32)
                         /\ Len(queues[a]) \in Nat
                         /\ queues[a] # <<>> => Len(queues[a]) # 0
                         /\ SubSeq(queues[a], Len(queues[a]) + 1, Len(queues[a])) = <<>>
  <2> SUFFICES ASSUME NEW a \in Address
               PROVE  /\ queues[a] \in Seq(Int32)
                      /\ Len(queues[a]) \in Nat
                      /\ queues[a] # <<>> => Len(queues[a]) # 0
                      /\ SubSeq(queues[a], Len(queues[a]) + 1, Len(queues[a])) = <<>>
    OBVIOUS
  <2>1. queues[a] \in Seq(Int32)
    BY <1>1, QueuesAt
  <2> HIDE DEF queues
  <2> QED BY <2>1, Rests
<1>4. \A a \in Address \ Location : queues[a] = <<>>
  <2> SUFFICES ASSUME NEW a \in Address, a \notin Location PROVE queues[a] = <<>>
    OBVIOUS
  <2>1. Positions(buffers[t], a) = {}
    BY DEF Positions, InRange
  <2> QED BY <1>1, <2>1, QueueEmpty, QueuesAt
<1>5. \A l \in Location : /\ l \in Address
                          /\ Through(storage, buffers[t], l)
                                = IF queues[l] # <<>> THEN queues[l][Len(queues[l])]
                                                      ELSE storage[l]
  BY <1>1, ThroughIsSeen, StorageAssumption DEF Promise!Seen
<1> HIDE DEF queues, rest
<1>6. \A a \in Address : Promise!Taken(queues, rest, a) = Len(queues[a])
  <2> SUFFICES ASSUME NEW a \in Address
               PROVE  Len(queues[a]) - Len(rest[a]) = Len(queues[a])
    BY DEF Promise!Taken
  <2>1. Len(rest[a]) = 0
    BY <1>2, EmptySeq
  <2> QED BY <1>3, <2>1
<1>7. Promise!Drained(queues, rest)
  <2> SUFFICES ASSUME NEW a \in Address
               PROVE  /\ Promise!Taken(queues, rest, a) \in 0 .. Len(queues[a])
                      /\ rest[a] = SubSeq(queues[a], Promise!Taken(queues, rest, a) + 1,
                                          Len(queues[a]))
                      /\ a \notin Location => rest[a] = queues[a]
    BY SameNames DEF Promise!Drained
  <2>1. Promise!Taken(queues, rest, a) = Len(queues[a])
    BY <1>6
  <2>2. Len(queues[a]) \in 0 .. Len(queues[a])
    BY <1>3
  <2>3. rest[a] = SubSeq(queues[a], Len(queues[a]) + 1, Len(queues[a]))
    BY <1>2, <1>3
  <2>4. a \notin Location => rest[a] = queues[a]
    BY <1>2, <1>4
  <2> QED BY <2>1, <2>2, <2>3, <2>4
<1>8. \A l \in Location : Promise!MemoryAfter(queues, rest)[l]
                             = Flushed(storage, buffers[t])[l]
  <2> SUFFICES ASSUME NEW l \in Location
               PROVE  (IF Promise!Taken(queues, rest, l) = 0
                       THEN storage[l]
                       ELSE queues[l][Promise!Taken(queues, rest, l)])
                         = Through(storage, buffers[t], l)
    BY SameNames DEF Promise!MemoryAfter, Flushed
  <2>1. Promise!Taken(queues, rest, l) = Len(queues[l])
    BY <1>5, <1>6
  <2>2. queues[l] # <<>> <=> Len(queues[l]) # 0
    BY <1>3, <1>5, EmptySeq
  <2> QED BY <1>5, <2>1, <2>2
<1>9. Promise!MemoryAfter(queues, rest) = Flushed(storage, buffers[t])
  BY <1>8, SameNames DEF Promise!MemoryAfter, Flushed
<1> QED BY <1>2, <1>7, <1>9 DEF queues, rest

(***************************************************************************)
(* propagate takes the oldest store of the buffer, which is the oldest     *)
(* that waits at its address.                                              *)
(***************************************************************************)
LEMMA PropagateTakes ==
    ASSUME TypeOK, NEW t \in Thread, Propagate(t), ~Abort
    PROVE  LET queues == Pending[t]
               rest   == Pending'[t]
           IN  /\ Promise!Drained(queues, rest)
               /\ Pending' = [Pending EXCEPT ![t] = rest]
               /\ Promise!MemoryAfter(queues, rest) = storage'
<1> DEFINE queues == Pending[t]
           rest == Pending'[t]
           oldest == Head(buffers[t])
           k == oldest.address
<1>1. buffers[t] \in Seq(StoreInstruction) /\ buffers[t] # <<>>
  BY DEF TypeOK, Propagate
<1>2. /\ k \in Location /\ k \in Address
      /\ storage' = [storage EXCEPT ![k] = oldest.value]
      /\ buffers' = [buffers EXCEPT ![t] = Tail(@)]
  BY StorageAssumption DEF Propagate
<1>3. /\ queues = Queues(buffers[t])
      /\ rest = Queues(Tail(buffers[t]))
      /\ Pending' = [Pending EXCEPT ![t] = rest]
  <2>1. buffers' = [buffers EXCEPT ![t] = Tail(buffers[t])]
    BY <1>2
  <2> QED BY <2>1, PendingStep
<1>4. \A a \in Address :
         /\ queues[a] \in Seq(Int32)
         /\ a = k => /\ queues[a] # <<>> /\ queues[a][1] = oldest.value
                     /\ rest[a] = Tail(queues[a])
         /\ a # k => rest[a] = queues[a]
  <2> SUFFICES ASSUME NEW a \in Address
               PROVE  /\ queues[a] \in Seq(Int32)
                      /\ a = k => /\ queues[a] # <<>> /\ queues[a][1] = oldest.value
                                  /\ rest[a] = Tail(queues[a])
                      /\ a # k => rest[a] = queues[a]
    OBVIOUS
  <2>1. Tail(buffers[t]) \in Seq(StoreInstruction)
    BY <1>1, HeadTailProperties
  <2>2. /\ queues[a] = Queue(buffers[t], a) /\ queues[a] \in Seq(Int32)
        /\ rest[a] = Queue(Tail(buffers[t]), a)
    BY <1>1, <1>3, <2>1, QueuesAt
  <2> HIDE DEF queues, rest
  <2> QED BY <1>1, <2>2, QueueTail
<1> HIDE DEF queues, rest, k, oldest
<1>5. \A a \in Address : /\ Len(queues[a]) \in Nat
                         /\ a = k => Len(queues[a]) # 0
                         /\ Promise!Taken(queues, rest, a) = IF a = k THEN 1 ELSE 0
  <2> SUFFICES ASSUME NEW a \in Address
               PROVE  /\ Len(queues[a]) \in Nat
                      /\ a = k => Len(queues[a]) # 0
                      /\ Len(queues[a]) - Len(rest[a]) = IF a = k THEN 1 ELSE 0
    BY DEF Promise!Taken
  <2>1. CASE a = k
    <3>1. /\ queues[a] \in Seq(Int32) /\ queues[a] # <<>>
          /\ rest[a] = Tail(queues[a])
      BY <1>4, <2>1
    <3>2. Len(queues[a]) \in Nat \ {0} /\ Len(rest[a]) = Len(queues[a]) - 1
      BY <3>1, Rests
    <3> QED BY <2>1, <3>2
  <2>2. CASE a # k
    BY <1>4, <2>2, Rests
  <2> QED BY <2>1, <2>2
<1>6. Promise!Drained(queues, rest)
  <2> SUFFICES ASSUME NEW a \in Address
               PROVE  /\ Promise!Taken(queues, rest, a) \in 0 .. Len(queues[a])
                      /\ rest[a] = SubSeq(queues[a], Promise!Taken(queues, rest, a) + 1,
                                          Len(queues[a]))
                      /\ a \notin Location => rest[a] = queues[a]
    BY SameNames DEF Promise!Drained
  <2>1. CASE a = k
    <3>1. /\ queues[a] \in Seq(Int32) /\ queues[a] # <<>>
          /\ rest[a] = Tail(queues[a])
      BY <1>4, <2>1
    <3>2. SubSeq(queues[a], 2, Len(queues[a])) = rest[a]
      BY <3>1, Rests
    <3>3. Promise!Taken(queues, rest, a) = 1 /\ Len(queues[a]) \in Nat \ {0}
      BY <1>5, <2>1
    <3> QED BY <1>2, <2>1, <3>2, <3>3
  <2>2. CASE a # k
    BY <1>4, <1>5, <2>2, Rests
  <2> QED BY <2>1, <2>2
<1>7. \A l \in Location : Promise!MemoryAfter(queues, rest)[l] = storage'[l]
  <2> SUFFICES ASSUME NEW l \in Location
               PROVE  (IF Promise!Taken(queues, rest, l) = 0
                       THEN storage[l]
                       ELSE queues[l][Promise!Taken(queues, rest, l)]) = storage'[l]
    BY SameNames DEF Promise!MemoryAfter
  <2>1. l \in Address
    BY StorageAssumption
  <2>2. storage'[l] = IF l = k THEN oldest.value ELSE storage[l]
    BY <1>2 DEF TypeOK, Memory
  <2> QED BY <1>4, <1>5, <2>1, <2>2
<1>8. Promise!MemoryAfter(queues, rest) = storage'
  BY <1>2, <1>7, SameNames DEF Promise!MemoryAfter, TypeOK, Memory
<1> QED BY <1>3, <1>6, <1>8 DEF queues, rest

(***************************************************************************)
(* A store waits, whatever its address, and nothing is taken.              *)
(***************************************************************************)
LEMMA StoreWaits ==
    ASSUME TypeOK, NEW t \in Thread, NEW a \in Address, NEW v \in Int32,
           Store(t, a, v)
    PROVE  LET queues == [Pending[t] EXCEPT ![a] = Append(@, v)]
           IN  /\ Pending'[t] = queues
               /\ Pending' = [Pending EXCEPT ![t] = queues]
               /\ Promise!Drained(queues, queues)
               /\ Promise!MemoryAfter(queues, queues) = storage
<1> DEFINE x == [address |-> a, value |-> v]
           longer == Append(buffers[t], x)
           queues == [Pending[t] EXCEPT ![a] = Append(@, v)]
<1>1. /\ buffers[t] \in Seq(StoreInstruction) /\ x \in StoreInstruction
      /\ x.address = a /\ x.value = v
  BY DEF TypeOK, StoreInstruction
<1>2. buffers' = [buffers EXCEPT ![t] = longer]
  BY DEF Store
<1> HIDE DEF x
<1>3. longer \in Seq(StoreInstruction)
  BY <1>1, AppendProperties
<1>4. /\ Pending[t] = Queues(buffers[t])
      /\ Pending'[t] = Queues(longer)
      /\ Pending' = [Pending EXCEPT ![t] = Queues(longer)]
  <2> HIDE DEF longer
  <2> QED BY <1>2, PendingStep
<1>5. \A b \in Address :
         Queue(longer, b) = IF b = a THEN Append(Queue(buffers[t], b), v)
                                     ELSE Queue(buffers[t], b)
  BY <1>1, QueueAppend
<1>6. Queues(longer) = queues
  <2> HIDE DEF longer
  <2> QED BY <1>4, <1>5 DEF Queues
<1>7. \A b \in Address : queues[b] \in Seq(Int32)
  <2> HIDE DEF longer, queues
  <2> QED BY <1>3, <1>6, QueuesAt
<1> HIDE DEF queues, longer
<1>8. \A b \in Address : Promise!Taken(queues, queues, b) = 0
  BY <1>7, Rests DEF Promise!Taken
<1>9. Promise!Drained(queues, queues)
  BY <1>7, <1>8, Rests DEF Promise!Drained
<1>10. Promise!MemoryAfter(queues, queues) = storage
  BY <1>8, StorageAssumption, SameNames DEF Promise!MemoryAfter, TypeOK, Memory
<1> QED BY <1>4, <1>6, <1>9, <1>10 DEF queues

(***************************************************************************)
(* One step of the manager is a step of StoreBuffers, or none.             *)
(***************************************************************************)
LEMMA PromiseStep ==
    ASSUME TypeOK, [Next]_vars
    PROVE  [Promise!Next]_Promise!vars
<1>1. CASE UNCHANGED vars
  BY <1>1 DEF vars, Promise!vars
<1>2. ASSUME ~crashed, Abort, NEW a \in Address, a \notin Location
      PROVE  Promise!Next
  <2>1. Promise!Abort
    BY <1>2, SameNames DEF Abort, Promise!Abort
  <2> QED BY <1>2, <2>1 DEF Promise!Next
<1>3. ASSUME NEW t \in Thread, ~InRange(buffers[t]), ~crashed, Abort
      PROVE  Promise!Next
  <2>1. PICK i \in DOMAIN buffers[t] : buffers[t][i].address \notin Location
    BY <1>3 DEF InRange
  <2>2. buffers[t][i] \in StoreInstruction
    BY LenProperties, ElementOfSeq DEF TypeOK
  <2>3. buffers[t][i].address \in Address
    BY <2>2 DEF StoreInstruction
  <2> QED BY <1>2, <1>3, <2>1, <2>3
<1>4. ASSUME NEW t \in Thread, NEW a \in Address, NEW v \in Int32, Load(t, a, v)
      PROVE  Promise!Next
  <2>1. buffers[t] \in Seq(StoreInstruction) /\ Pending[t] = Queues(buffers[t])
    BY DEF TypeOK, Pending
  <2>2. /\ Through(storage, buffers[t], a) = Promise!Seen(storage, Pending[t], a)
        /\ Find(buffers[t], a) # 0 <=> Pending[t][a] # <<>>
    BY <2>1, ThroughIsSeen
  <2>3. Promise!Load(t, a, v)
    BY <1>4, <2>2, SameNames
       DEF Load, Readable, vars, Promise!Load, Promise!vars, Pending
  <2> QED BY <2>3, SameNames DEF Promise!Next
<1>5. ASSUME NEW t \in Thread, NEW a \in Address, BadLoad(t, a)
      PROVE  Promise!Next
  BY <1>2, <1>5 DEF BadLoad, Readable
<1>6. ASSUME NEW t \in Thread, NEW a \in Address, NEW v \in Value, Store(t, a, v)
      PROVE  Promise!Next
  <2>1. v \in Int32
    BY StorageAssumption
  <2>2. Promise!Store(t, a, v)
    <3> DEFINE queues == [Pending[t] EXCEPT ![a] = Append(@, v)]
    <3>1. /\ Pending'[t] = queues
          /\ Pending' = [Pending EXCEPT ![t] = queues]
          /\ Promise!Drained(queues, queues)
          /\ Promise!MemoryAfter(queues, queues) = storage
      BY <1>6, <2>1, StoreWaits
    <3>2. Promise!Drain(t, queues, queues)
      BY <1>6, <3>1 DEF Store, Promise!Drain, Pending
    <3>3. storage' = Promise!MemoryAfter(queues, queues)
      BY <1>6, <3>1 DEF Store
    <3> QED BY <3>1, <3>2, <3>3 DEF Promise!Store, Pending
  <2> QED BY <2>2 DEF Promise!Next
<1>7. ASSUME NEW t \in Thread, NEW mem, ~crashed, InRange(buffers[t]),
             FlushThen(t, mem)
      PROVE  LET rest == Pending'[t]
             IN  /\ Promise!Drain(t, Pending[t], rest)
                 /\ \A a \in Address : rest[a] = <<>>
                 /\ Promise!MemoryAfter(Pending[t], rest)
                       = Flushed(storage, buffers[t])
  <2>1. /\ Pending[t] = Queues(buffers[t])
        /\ Pending'[t] = Queues(<<>>)
        /\ Pending' = [Pending EXCEPT ![t] = Queues(<<>>)]
    BY <1>7, PendingStep DEF FlushThen
  <2>2. Promise!Drain(t, Pending[t], Pending'[t])
    BY <1>7, <2>1, FlushTakes DEF FlushThen, Promise!Drain, Pending
  <2> QED BY <1>7, <2>1, <2>2, FlushTakes
<1>8. ASSUME NEW t \in Thread, NEW a \in Address, NEW expected \in Value,
             NEW new \in Value, CompareAndSwap(t, a, expected, new)
      PROVE  Promise!Next
  <2>1. CASE /\ InRange(buffers[t]) /\ a \in Location
             /\ FlushThen(t, Swapped(Flushed(storage, buffers[t]), a, expected, new))
    <3>1. Promise!AtomicUpdate(t, a)
      BY <1>7, <1>8, <2>1, SameNames
         DEF CompareAndSwap, FlushThen, Promise!AtomicUpdate, Pending
    <3> QED BY <3>1 DEF Promise!Next
  <2>2. CASE ~(InRange(buffers[t]) /\ a \in Location) /\ Abort
    BY <1>2, <1>3, <1>8, <2>2 DEF CompareAndSwap
  <2> QED BY <1>8, <2>1, <2>2 DEF CompareAndSwap
<1>9. ASSUME NEW t \in Thread, NEW a \in Address, NEW increment \in Increment,
             FetchAndIncrement(t, a, increment)
      PROVE  Promise!Next
  <2>1. CASE /\ InRange(buffers[t]) /\ a \in Location
             /\ FlushThen(t, Incremented(Flushed(storage, buffers[t]), a, increment))
    <3>1. Promise!AtomicUpdate(t, a)
      BY <1>7, <1>9, <2>1, SameNames
         DEF FetchAndIncrement, FlushThen, Promise!AtomicUpdate, Pending
    <3> QED BY <3>1 DEF Promise!Next
  <2>2. CASE ~(InRange(buffers[t]) /\ a \in Location) /\ Abort
    BY <1>2, <1>3, <1>9, <2>2 DEF FetchAndIncrement
  <2> QED BY <1>9, <2>1, <2>2 DEF FetchAndIncrement
<1>10. ASSUME NEW t \in Thread, Fence(t)
       PROVE  Promise!Next
  <2>1. CASE InRange(buffers[t]) /\ FlushThen(t, Flushed(storage, buffers[t]))
    <3>1. Promise!Fence(t)
      BY <1>7, <1>10, <2>1 DEF Fence, FlushThen, Promise!Fence, Pending
    <3> QED BY <3>1 DEF Promise!Next
  <2>2. CASE ~InRange(buffers[t]) /\ Abort
    BY <1>3, <1>10, <2>2 DEF Fence
  <2> QED BY <1>10, <2>1, <2>2 DEF Fence
<1>11. ASSUME NEW t \in Thread, Propagate(t)
       PROVE  Promise!Next
  <2>1. CASE Abort
    <3>1. buffers[t] \in Seq(StoreInstruction) /\ buffers[t] # <<>>
      BY <1>11 DEF TypeOK, Propagate
    <3>2. Head(buffers[t]) \in StoreInstruction
      BY <3>1, HeadTailProperties
    <3>3. Head(buffers[t]).address \in Address
      BY <3>2 DEF StoreInstruction
    <3>4. ~crashed /\ crashed' = TRUE
      BY <1>11, <2>1 DEF Propagate, Abort
    <3>5. Head(buffers[t]).address \notin Location
      BY <1>11, <3>4 DEF Propagate
    <3> QED BY <1>2, <2>1, <3>3, <3>4, <3>5
  <2>2. CASE ~Abort
    <3>1. UNCHANGED crashed /\ ~crashed
      BY <1>11, <2>2 DEF Propagate
    <3>2. Promise!InternalUpdate
      BY <1>11, <2>2, <3>1, PropagateTakes
         DEF Promise!InternalUpdate, Promise!Drain, Pending
    <3> QED BY <3>2 DEF Promise!Next
  <2> QED BY <2>1, <2>2
<1> QED BY <1>1, <1>4, <1>5, <1>6, <1>8, <1>9, <1>10, <1>11, NextCases

(***************************************************************************)
(* The total store order manager implements StoreBuffers: although one     *)
(* buffer mixes the stores to all addresses, it behaves as a queue per     *)
(* address that drains in order.                                           *)
(***************************************************************************)
THEOREM Implements == Spec => ImplementsStoreBuffers
<1>1. Init => Promise!Init
  <2> SUFFICES ASSUME Init PROVE Promise!Init
    OBVIOUS
  <2>1. \A a \in Address : Queue(<<>>, a) = <<>>
    <3>1. <<>> \in Seq(StoreInstruction)
      BY EmptySeq
    <3>2. \A a \in Address : Positions(<<>>, a) = {}
      BY DEF Positions
    <3> QED BY <3>1, <3>2, QueueEmpty
  <2> QED BY <2>1, SameNames DEF Init, Promise!Init, Queues
<1>2. TypeOK /\ [Next]_vars => [Promise!Next]_Promise!vars
  BY PromiseStep
<1> QED BY <1>1, <1>2, TypeCorrect, PTL DEF Spec, ImplementsStoreBuffers, Promise!Spec
=============================================================================
