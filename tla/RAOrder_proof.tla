--------------------------- MODULE RAOrder_proof ---------------------------
(***************************************************************************)
(* Proofs about RAOrder: no effect is seen without its cause, SC fences    *)
(* order writes, no two atomic updates read the same message, and what may *)
(* end the process.                                                        *)
(***************************************************************************)
EXTENDS RAOrder, RAStorage_proof

(***************************************************************************)
(* The message with this timestamp has been used by an atomic update, or   *)
(* all threads have passed it: no update will read it.                     *)
(***************************************************************************)
Taken(l, timestamp, views, logs) ==
    \/ \E m \in logs[l] : m.timestamp = timestamp /\ m.isUsedByAtomicUpdate
    \/ \A t \in Thread : timestamp < views[t][l]

(* A message of this timestamp has been used before this step.             *)
WasUsed(l, timestamp) ==
    \E m \in messages[l] : m.timestamp = timestamp /\ m.isUsedByAtomicUpdate

(* The step marks at most messages at one of these timestamps of location l. *)
MarksAt(l, timestamps) ==
    \A k \in LogLocation : \A n \in messages'[k] :
        n.isUsedByAtomicUpdate =>
            WasUsed(k, n.timestamp) \/ (k = l /\ n.timestamp \in timestamps)

(* Of these timestamps, those that the write of thread t can leave used.   *)
Behind(t, l, from) ==
    {f \in from : f < threadViews'[t][l] \/ (model = "RA" /\ threadViews'[t][l] < f)}

MarksBehind(t, l, from) ==
    /\ MarksAt(l, Behind(t, l, from))
    /\ \E m \in messages'[l] : m.timestamp = threadViews'[t][l]

(***************************************************************************)
(* The history of a step in which thread t adds a message: from is empty,  *)
(* or holds the timestamp of the message which the step has read for its   *)
(* update, and which the random manager has marked.  That message is gone, *)
(* or the new one is later; in RA it may also be earlier.                  *)
(***************************************************************************)
Records(t, l, mode, from) ==
    /\ updates' = [updates EXCEPT ![l] = @ \cup {<<f, threadViews'[t][l]>> : f \in from}]
    /\ origins' = IF isRelease(mode)
                  THEN [origins EXCEPT ![l] = @ \cup {<<threadViews'[t][l], threadViews'[t]>>}]
                  ELSE origins
    /\ UNCHANGED <<fenced, failed>>
    /\ \/ from = {}
       \/ \E m \in messages[l] :
             /\ from = {m.timestamp}
             /\ ~m.isUsedByAtomicUpdate /\ threadViews[t][l] <= m.timestamp
             /\ manager = "random" => Taken(l, m.timestamp, threadViews', messages')
    /\ MarksBehind(t, l, from)

(* A failed compare-and-swap marks what it reads, other reads nothing.     *)
RecordsRead ==
    /\ UNCHANGED <<updates, origins, fenced>>
    /\ \/ UNCHANGED failed /\ \A l \in LogLocation : MarksAt(l, {})
       \/ \E l \in LogLocation, time \in Nat :
             /\ failed' = [failed EXCEPT ![l] = @ \cup {time}]
             /\ MarksAt(l, {time})

(***************************************************************************)
(* Nothing is left in a log to update or to store after, or there is no    *)
(* timestamp left between two messages.                                    *)
(***************************************************************************)
Stuck ==
    \E l \in LogLocation :
        \/ \A m \in messages[l] :
              m.isUsedByAtomicUpdate \/ \E n \in messages[l] : m.timestamp < n.timestamp
        \/ /\ model = "RA"
           /\ \E m, n \in messages[l] : n.timestamp = m.timestamp + 1

OrderAbort == Abort /\ UNCHANGED history
OrderReads == OnlyReads /\ RecordsRead
OrderAdds(t, l, mode, from) == Adds(t, l, isRelease(mode)) /\ Records(t, l, mode, from)

(***************************************************************************)
(* What an operation that ends the process has met.                        *)
(***************************************************************************)
LEMMA UsedUpIsStuck ==
    ASSUME RAInv, NEW t \in Thread, NEW l \in LogLocation,
           Unused(Available(messages[l], threadViews[t], l)) = {}
    PROVE  Stuck
<1>1. /\ threadViews[t][l] \in Nat
      /\ \A m \in messages[l] : m.timestamp \in Nat
  BY DEF RAInv, Sound, Views, View, Logs, Message
<1>2. PICK m \in messages[l] : m.timestamp = threadViews[t][l]
  BY <1>1 DEF RAInv, Sound, Reached
<1>3. ASSUME NEW n \in messages[l]
      PROVE  n.isUsedByAtomicUpdate \/ \E k \in messages[l] : n.timestamp < k.timestamp
  <2>1. CASE threadViews[t][l] <= n.timestamp
    BY <2>1 DEF Unused, Available
  <2>2. CASE n.timestamp < threadViews[t][l]
    BY <1>2, <2>2
  <2> QED BY <1>1, <2>1, <2>2
<1> QED BY <1>3 DEF Stuck

LEMMA AbortIsStuck ==
    ASSUME RAInv, NEW V, NEW t \in Thread, NEW l \in LogLocation, NEW log,
           Reading(threadViews, messages, V, [messages EXCEPT ![l] = log]),
           NEW v, NEW useMinTimestamp, NEW release,
           Write(t, l, v, useMinTimestamp, release, log, V), Abort,
           useMinTimestamp \/ (log = messages[l] /\ V = threadViews)
    PROVE  Stuck
<1> DEFINE ms == Available(log, V[t], l)
           bases == Bases(ms, useMinTimestamp)
<1>1. /\ log \in SUBSET Message /\ V \in Views /\ ms \in SUBSET log
      /\ \A m \in ms : V[t][l] <= m.timestamp /\ m.timestamp <= MaxTime[l]
      /\ Earliest(ms) \in ms /\ Latest(ms) \in ms
      /\ \A m \in ms : m.timestamp <= Latest(ms).timestamp
  BY AvailableIs DEF Offers
<1>2. messages \in Logs
  BY DEF RAInv, Sound
<1>3. ASSUME NEW b \in ms, Exhausted(ms, b)
      PROVE  Stuck
  <2>1. PICK n \in ms : n.timestamp = b.timestamp + 1
    <3>1. ms \in SUBSET Message
      BY <1>1
    <3> HIDE DEF ms
    <3> QED BY <1>3, <3>1, ExhaustedIs
  <2>2. \A k \in log : \E m \in messages[l] : m.timestamp = k.timestamp
    BY <1>2 DEF Reading, Thinned, Logs
  <2>3. PICK m \in messages[l], k \in messages[l] :
           m.timestamp = b.timestamp /\ k.timestamp = n.timestamp
    BY <1>1, <2>2
  <2>4. k.timestamp = m.timestamp + 1
    BY <2>1, <2>3
  <2>5. m.timestamp \in Nat
    BY <1>2 DEF Logs, Message
  <2>6. model # "SRA"
    <3> SUFFICES ASSUME model = "SRA" PROVE FALSE
      OBVIOUS
    <3>1. m.timestamp + Scale <= k.timestamp
      BY <2>4, <2>5 DEF RAInv, Spaced
    <3> QED BY <2>4, <2>5, <3>1, RAAssumption
  <2> QED BY <2>4, <2>6, RAAssumption DEF RAInv, Stuck
<1>4. ASSUME bases = {}
      PROVE  Stuck
  <2>1. Unused(ms) = {} /\ ~useMinTimestamp
    BY <1>4 DEF Bases
  <2> QED BY <2>1, UsedUpIsStuck
<1>5. \A b \in bases : b \in ms
  BY <1>1 DEF Bases, Unused
<1>6. \/ Exhausted(ms, Earliest(ms))
      \/ bases = {}
      \/ \E b \in bases : Exhausted(ms, b)
  <2> HIDE DEF bases
  <2> QED BY DEF Write, Push, Abort, ms, bases
<1> HIDE DEF ms, bases
<1> QED BY <1>1, <1>3, <1>4, <1>5, <1>6

(***************************************************************************)
(* Reading marks at most what is read, and writing marks nothing.          *)
(***************************************************************************)
LEMMA ReadMarks ==
    ASSUME RAInv, NEW t \in Thread, NEW l \in LogLocation, NEW m \in messages[l],
           NEW acquire, NEW marks, NEW n \in LogAfterRead(t, l, m, acquire, marks)
    PROVE  n \in messages[l] \/ (marks /\ n.timestamp = m.timestamp)
<1>1. [m EXCEPT !.isUsedByAtomicUpdate = TRUE].timestamp = m.timestamp
  BY DEF RAInv, Sound, Logs, Message
<1> QED BY <1>1 DEF LogAfterRead, CleanedUp, Marked

LEMMA WriteMarks ==
    ASSUME RAInv, NEW V, NEW t \in Thread, NEW l \in LogLocation, NEW log,
           Reading(threadViews, messages, V, [messages EXCEPT ![l] = log]),
           NEW v \in Int32, NEW useMinTimestamp \in BOOLEAN, NEW release,
           Write(t, l, v, useMinTimestamp, release, log, V), ~crashed',
           NEW from, \A n \in log : n \in messages[l] \/ n.timestamp \in from
    PROVE  MarksBehind(t, l, from)
<1>1. /\ log \in SUBSET Message /\ V \in Views /\ messages \in Logs
  <2>1. Sound(V, baseViews, [messages EXCEPT ![l] = log])
    BY ReadingKeepsSound DEF RAInv
  <2> QED BY <2>1 DEF RAInv, Sound, Logs
<1>2. Puts(t, l, release, V, log)
  BY WriteIs DEF Abort
<1>when. PICK time \in Nat : \E message : IsPut(t, l, V, log, time, message)
  BY <1>1, <1>2, PutsIs
<1>3. PICK message : IsPut(t, l, V, log, time, message)
  BY <1>when
<1>4. threadViews'[t][l] = time /\ message \in messages'[l]
  BY <1>3 DEF IsPut
<1>5. ASSUME NEW k \in LogLocation, NEW n \in messages'[k], n.isUsedByAtomicUpdate,
             ~WasUsed(k, n.timestamp)
      PROVE  /\ k = l /\ n.timestamp \in from
             /\ n.timestamp < time \/ (model = "RA" /\ time < n.timestamp)
  <2>1. k = l /\ n \in log /\ n \notin messages[l]
    BY <1>3, <1>5 DEF WasUsed, IsPut
  <2>2. n.timestamp \in Nat /\ n.timestamp # time
    BY <1>1, <1>3, <2>1 DEF Message, IsPut
  <2>3. model = "SRA" => n.timestamp < time
    BY <1>3, <2>1, <2>2, RAAssumption DEF IsPut
  <2>4. model \in {"RA", "SRA"}
    BY RAAssumption DEF RAInv
  <2> QED BY <2>1, <2>2, <2>3, <2>4
<1>6. MarksAt(l, Behind(t, l, from))
  <2> SUFFICES ASSUME NEW k \in LogLocation, NEW n \in messages'[k],
                      n.isUsedByAtomicUpdate, ~WasUsed(k, n.timestamp)
               PROVE  k = l /\ n.timestamp \in Behind(t, l, from)
    BY DEF MarksAt
  <2> QED BY <1>4, <1>5 DEF Behind
<1> QED BY <1>3, <1>4, <1>6 DEF IsPut, MarksBehind

(***************************************************************************)
(* The random manager marks what an update reads, and the mark stays when  *)
(* the update writes.                                                      *)
(***************************************************************************)
LEMMA UpdateTakes ==
    ASSUME RAInv, NEW t \in Thread, NEW l \in LogLocation, NEW m \in messages[l],
           NEW mode, NEW v \in Int32,
           Update(t, l, v, mode, m, TRUE), ~crashed', manager = "random"
    PROVE  Taken(l, m.timestamp, threadViews', messages')
<1> DEFINE acquire == isAcquire(mode)
           views == ViewsAfterRead(t, m, acquire)
           log   == LogAfterRead(t, l, m, acquire, TRUE)
           used  == [m EXCEPT !.isUsedByAtomicUpdate = TRUE]
<1>1. acquire \in BOOLEAN
  BY DEF isAcquire
<1>2. /\ messages \in Logs /\ m \in Message /\ messages[l] \in SUBSET Message
  BY DEF RAInv, Sound, Logs
<1>3. /\ used \in Message /\ used.timestamp = m.timestamp
      /\ used.isUsedByAtomicUpdate = TRUE
  BY <1>2 DEF Message
<1>4. Reading(threadViews, messages, views, [messages EXCEPT ![l] = log])
  BY <1>1, ReadIs
<1>5. views \in Views
  BY <1>4 DEF Reading
<1>6. log = CleanedUp((messages[l] \ {m}) \cup {used}, views, l)
  BY DEF LogAfterRead, Marked
<1> HIDE DEF views, log, used, acquire
<1>7. used \in log \/ \A u \in Thread : used.timestamp < views[u][l]
  BY <1>2, <1>3, <1>5, <1>6, CleanedUpIs
<1>8. ~Abort
  BY DEF Abort
<1>9. Write(t, l, v, TRUE, isRelease(mode), log, views)
  BY DEF Update, views, log, acquire
<1>10. PICK time \in Nat : /\ views[t][l] < time
                           /\ \E w : Push(t, l, w, time, isRelease(mode), log, views)
  BY <1>4, <1>8, <1>9, WriteIs DEF Puts
<1>11. /\ threadViews' = [views EXCEPT ![t] = [views[t] EXCEPT ![l] = time]]
       /\ \A n \in log : n \in messages'[l]
  BY <1>2, <1>10 DEF Push, BaseViewAfter, ReleaseView, Logs
<1>12. CASE used \in log
  BY <1>3, <1>11, <1>12 DEF Taken
<1>13. CASE \A u \in Thread : used.timestamp < views[u][l]
  <2>1. ASSUME NEW u \in Thread PROVE m.timestamp < threadViews'[u][l]
    <3>1. m.timestamp \in Nat /\ views[u][l] \in Nat
      BY <1>2, <1>5 DEF Message, Views, View
    <3>2. threadViews'[u][l] = IF u = t THEN time ELSE views[u][l]
      BY <1>5, <1>11 DEF Views, View
    <3> QED BY <1>3, <1>10, <1>13, <3>1, <3>2
  <2> QED BY <2>1 DEF Taken
<1> QED BY <1>7, <1>12, <1>13

(***************************************************************************)
(* Every step of OrderNext ends the process, only reads, is an SC fence,   *)
(* or adds and records a message.                                          *)
(***************************************************************************)
LEMMA WritesRecords ==
    ASSUME NEW t \in Thread, NEW l \in LogLocation, NEW mode, NEW from,
           Writes(t, l, mode, from), ~crashed, Abort \/ Adds(t, l, isRelease(mode)),
           Abort => Stuck,
           ~crashed' =>
              /\ \/ from = {}
                 \/ \E m \in messages[l] :
                       /\ from = {m.timestamp}
                       /\ ~m.isUsedByAtomicUpdate /\ threadViews[t][l] <= m.timestamp
                       /\ manager = "random" => Taken(l, m.timestamp, threadViews', messages')
              /\ MarksBehind(t, l, from)
    PROVE  (OrderAbort /\ Stuck) \/ OrderAdds(t, l, mode, from)
<1>1. CASE Abort
  BY <1>1 DEF Abort, Writes, OrderAbort
<1>2. CASE Adds(t, l, isRelease(mode))
  <2>1. ~crashed'
    BY <1>2 DEF Adds, Puts, Push, BaseViewAfter, ReleaseView
  <2> QED BY <1>2, <2>1 DEF Writes, Records, OrderAdds
<1> QED BY <1>1, <1>2

LEMMA ReadableIs ==
    ASSUME NEW t \in Thread, NEW l \in LogLocation, NEW m \in Readable(t, l, TRUE)
    PROVE  m \in messages[l] /\ ~m.isUsedByAtomicUpdate /\ threadViews[t][l] <= m.timestamp
  BY DEF Readable, Available, Unused

LEMMA UpdateRecords ==
    ASSUME RAInv, NEW t \in Thread, NEW l \in LogLocation, NEW mode, NEW v \in Int32,
           NEW m \in messages[l], NEW marks \in BOOLEAN, m \in Readable(t, l, marks),
           ~crashed, Update(t, l, v, mode, m, marks),
           NEW from, from = IF marks THEN {m.timestamp} ELSE {}, Writes(t, l, mode, from)
    PROVE  (OrderAbort /\ Stuck) \/ OrderAdds(t, l, mode, from)
<1> DEFINE V   == ViewsAfterRead(t, m, isAcquire(mode))
           log == LogAfterRead(t, l, m, isAcquire(mode), marks)
<1>1. marks => /\ m \in Readable(t, l, TRUE)
               /\ ~m.isUsedByAtomicUpdate /\ threadViews[t][l] <= m.timestamp
               /\ Update(t, l, v, mode, m, TRUE)
  <2> SUFFICES ASSUME marks = TRUE
               PROVE  /\ m \in Readable(t, l, TRUE)
                      /\ ~m.isUsedByAtomicUpdate /\ threadViews[t][l] <= m.timestamp
                      /\ Update(t, l, v, mode, m, TRUE)
    OBVIOUS
  <2> QED BY ReadableIs
<1>2. Abort \/ Adds(t, l, isRelease(mode))
  BY UpdateStep
<1>3. marks /\ ~crashed' /\ manager = "random"
         => Taken(l, m.timestamp, threadViews', messages')
  BY <1>1, UpdateTakes
<1>4. Reading(threadViews, messages, V, [messages EXCEPT ![l] = log])
  <2>1. isAcquire(mode) \in BOOLEAN
    BY DEF isAcquire
  <2> QED BY <2>1, ReadIs
<1>5. Write(t, l, v, TRUE, isRelease(mode), log, V)
  BY DEF Update
<1>6. \A n \in log : n \in messages[l] \/ n.timestamp \in from
  BY ReadMarks
<1> HIDE DEF V, log
<1>7. Abort => Stuck
  <2> SUFFICES ASSUME Abort PROVE Stuck
    OBVIOUS
  <2> QED BY <1>4, <1>5, AbortIsStuck
<1>8. ~crashed' => MarksBehind(t, l, from)
  <2> SUFFICES ASSUME ~crashed' PROVE MarksBehind(t, l, from)
    OBVIOUS
  <2> QED BY <1>4, <1>5, <1>6, WriteMarks
<1> QED BY <1>1, <1>2, <1>3, <1>7, <1>8, WritesRecords

LEMMA WriteRecords ==
    ASSUME RAInv, NEW t \in Thread, NEW l \in LogLocation, NEW mode, NEW v \in Int32,
           NEW useMinTimestamp \in BOOLEAN, ~crashed,
           Write(t, l, v, useMinTimestamp, isRelease(mode), messages[l], threadViews),
           Writes(t, l, mode, {})
    PROVE  (OrderAbort /\ Stuck) \/ OrderAdds(t, l, mode, {})
<1>1. Reading(threadViews, messages, threadViews, [messages EXCEPT ![l] = messages[l]])
  <2>1. [messages EXCEPT ![l] = messages[l]] = messages
    BY DEF RAInv, Sound, Logs
  <2> QED BY <2>1, NoReadIs
<1>2. Abort \/ Adds(t, l, isRelease(mode))
  BY WriteStep
<1>3. Abort => Stuck
  <2> SUFFICES ASSUME Abort PROVE Stuck
    OBVIOUS
  <2>1. useMinTimestamp \/ (messages[l] = messages[l] /\ threadViews = threadViews)
    OBVIOUS
  <2> QED BY <1>1, <2>1, AbortIsStuck
<1>4. ~crashed' => MarksBehind(t, l, {})
  <2> SUFFICES ASSUME ~crashed' PROVE MarksBehind(t, l, {})
    OBVIOUS
  <2> QED BY <1>1, WriteMarks
<1> QED BY <1>2, <1>3, <1>4, WritesRecords

LEMMA ReadMarksAt ==
    ASSUME RAInv, NEW t \in Thread, NEW l \in LogLocation, NEW m \in messages[l],
           NEW acquire, NEW marks \in BOOLEAN, Read(t, l, m, acquire, marks)
    PROVE  \A k \in LogLocation :
              IF marks THEN MarksAt(l, {m.timestamp}) ELSE MarksAt(k, {})
<1>1. messages' = [messages EXCEPT ![l] = LogAfterRead(t, l, m, acquire, marks)]
  BY DEF Read
<1>2. \A k \in LogLocation : \A n \in messages'[k] :
         n \in messages[k] \/ (marks /\ k = l /\ n.timestamp = m.timestamp)
  BY <1>1, ReadMarks DEF RAInv, Sound, Logs
<1> QED BY <1>2 DEF MarksAt, WasUsed

LEMMA OrderNextIs ==
    ASSUME RAInv, OrderNext
    PROVE  \/ OrderAbort /\ Stuck
           \/ OrderReads
           \/ \E t \in Thread : OrderSCFence(t)
           \/ \E t \in Thread, l \in LogLocation : \E mode, from : OrderAdds(t, l, mode, from)
<1> DEFINE Goal == \/ OrderAbort /\ Stuck
                   \/ OrderReads
                   \/ \E t \in Thread : OrderSCFence(t)
                   \/ \E t \in Thread, l \in LogLocation : \E mode, from :
                         OrderAdds(t, l, mode, from)
<1>1. \A t \in Thread, l \in LogLocation : \A mode, from :
         (OrderAbort /\ Stuck) \/ OrderAdds(t, l, mode, from) => Goal
  OBVIOUS
<1>2. OrderReads => Goal
  OBVIOUS
<1>3. ASSUME NEW t \in Thread, OrderSCFence(t)
      PROVE  Goal
  BY <1>3
<1> HIDE DEF Goal
<1>4. ASSUME NEW t \in Thread, NEW a \in Address, NEW mode, NEW m \in messages[a],
             OrderLoad(t, a, mode, m)
      PROVE  Goal
  <2>1. OnlyReads
    BY <1>4, LoadStep DEF OrderLoad
  <2>2. Read(t, a, m, isAcquire(mode), FALSE) /\ Reads(t, a, m) /\ UNCHANGED failed
    BY <1>4 DEF OrderLoad, Load
  <2>3. ASSUME NEW l \in LogLocation PROVE MarksAt(l, {})
    BY <2>2, Constants, ReadMarksAt
  <2> QED BY <1>2, <2>1, <2>2, <2>3 DEF Reads, RecordsRead, OrderReads
<1>5. ASSUME NEW t \in Thread, NEW a \in Address, NEW mode, NEW m \in messages[a],
             NEW expected \in Value, NEW new \in Value,
             OrderCompareAndSwap(t, a, expected, new, mode, m)
      PROVE  Goal
  <2>1. /\ ~crashed /\ m \in Readable(t, a, TRUE)
        /\ CompareAndSwap(t, a, expected, new, mode, m)
        /\ a \in LogLocation /\ new \in Int32
    BY <1>5, Constants DEF OrderCompareAndSwap, CompareAndSwap
  <2>2. CASE m.value = expected
    <3>1. Update(t, a, new, mode, m, TRUE) /\ Writes(t, a, mode, {m.timestamp})
      BY <1>5, <2>2 DEF OrderCompareAndSwap, CompareAndSwap
    <3>2. (OrderAbort /\ Stuck) \/ OrderAdds(t, a, mode, {m.timestamp})
      BY <2>1, <3>1, UpdateRecords
    <3> QED BY <1>1, <2>1, <3>2
  <2>3. CASE m.value # expected
    <3>1. OnlyReads
      BY <2>1, <2>3, CompareAndSwapStep
    <3>2. /\ Reads(t, a, m)
          /\ failed' = [failed EXCEPT ![a] = @ \cup {m.timestamp}]
          /\ Read(t, a, m, isAcquire(mode), TRUE)
      BY <1>5, <2>3 DEF OrderCompareAndSwap, CompareAndSwap
    <3>3. MarksAt(a, {m.timestamp})
      BY <2>1, <3>2, ReadMarksAt
    <3>4. m.timestamp \in Nat
      BY <2>1 DEF RAInv, Sound, Logs, Message
    <3> QED BY <1>2, <2>1, <3>1, <3>2, <3>3, <3>4 DEF Reads, RecordsRead, OrderReads
  <2> QED BY <2>2, <2>3
<1>6. ASSUME NEW t \in Thread, NEW a \in Address, NEW mode, NEW m \in messages[a],
             NEW increment \in Increment, OrderFetchAndIncrement(t, a, increment, mode, m)
      PROVE  Goal
  <2>1. /\ ~crashed /\ m \in Readable(t, a, TRUE)
        /\ Update(t, a, Plus32(m.value, increment), mode, m, TRUE)
        /\ Writes(t, a, mode, {m.timestamp})
        /\ a \in LogLocation
    BY <1>6, Constants DEF OrderFetchAndIncrement, FetchAndIncrement
  <2>2. Plus32(m.value, increment) \in Int32
    BY <2>1, SumType
  <2>3. (OrderAbort /\ Stuck) \/ OrderAdds(t, a, mode, {m.timestamp})
    BY <2>1, <2>2, UpdateRecords
  <2> QED BY <1>1, <2>1, <2>3
<1>7. ASSUME NEW t \in Thread, NEW a \in Address, NEW mode, NEW v \in Value,
             OrderStore(t, a, v, mode)
      PROVE  Goal
  <2>1. /\ ~crashed /\ Store(t, a, v, mode) /\ Writes(t, a, mode, {})
        /\ a \in LogLocation
    BY <1>7, Constants DEF OrderStore, Store
  <2>2. (OrderAbort /\ Stuck) \/ OrderAdds(t, a, mode, {})
    BY <2>1, Constants, WriteRecords DEF Store
  <2> QED BY <1>1, <2>1, <2>2
<1>8. ASSUME NEW t \in Thread, NEW l \in LogLocation, NothingToUpdate(t, l), UNCHANGED history
      PROVE  Goal
  <2>1. Stuck
    BY <1>8, UsedUpIsStuck DEF NothingToUpdate, Readable
  <2> QED BY <1>1, <1>8, <2>1 DEF NothingToUpdate, OrderAbort
<1>9. ASSUME NEW t \in Thread, NEW mode, NEW m \in messages[FenceLocation],
             OrderAcquireFence(t, mode, m)
      PROVE  Goal
  <2>1. /\ ~crashed /\ m \in Readable(t, FenceLocation, isRelease(mode))
        /\ Update(t, FenceLocation, 0, mode, m, isRelease(mode))
        /\ Writes(t, FenceLocation, mode, IF isRelease(mode) THEN {m.timestamp} ELSE {})
        /\ AcquireFence(t, mode, m)
        /\ FenceLocation \in LogLocation /\ 0 \in Int32
    BY <1>9, Constants DEF OrderAcquireFence, AcquireFence
  <2>2. isRelease(mode) \in BOOLEAN
    BY DEF isRelease
  <2> DEFINE from == IF isRelease(mode) THEN {m.timestamp} ELSE {}
  <2>3. (OrderAbort /\ Stuck) \/ OrderAdds(t, FenceLocation, mode, from)
    BY <2>1, <2>2, UpdateRecords
  <2> QED BY <1>1, <2>1, <2>3
<1>10. ASSUME NEW t \in Thread, NEW mode, OrderReleaseFence(t, mode)
       PROVE  Goal
  <2>1. /\ ~crashed /\ ReleaseFence(t, mode) /\ Writes(t, FenceLocation, mode, {})
        /\ FenceLocation \in LogLocation
    BY <1>10, Constants DEF OrderReleaseFence, ReleaseFence
  <2>2. (OrderAbort /\ Stuck) \/ OrderAdds(t, FenceLocation, mode, {})
    BY <2>1, Constants, WriteRecords DEF ReleaseFence
  <2> QED BY <1>1, <2>1, <2>2
<1>11. Goal
  BY <1>3, <1>4, <1>5, <1>6, <1>7, <1>8, <1>9, <1>10, Constants DEF OrderNext
<1> QED BY <1>11 DEF Goal
-----------------------------------------------------------------------------
(***************************************************************************)
(* The views of all threads, and those they may still take, have the view  *)
(* of the writer of every release write they have come to, and have all    *)
(* that the SC fences so far have shared.                                  *)
(***************************************************************************)
OrderInv ==
    /\ RAInv
    /\ Causal(threadViews, baseViews, messages, origins)
    /\ fenced \in View
    /\ \A t \in Thread : Below(fenced, threadViews[t])

LEMMA OrderInvInit == OrderInit => OrderInv
<1> SUFFICES ASSUME OrderInit PROVE OrderInv
  OBVIOUS
<1>1. RAInv
  BY RAInit DEF OrderInit
<1>2. origins \in Effects /\ \A l \in LogLocation : origins[l] = {}
  BY DEF OrderInit, Effects
<1>3. \A view : Closed(view, origins)
  BY <1>2 DEF Closed
<1>4. fenced = ZeroView /\ ZeroView \in View /\ Below(ZeroView, ZeroView)
  BY DEF OrderInit, ZeroView, View, Below
<1>5. \A t \in Thread : threadViews[t] = ZeroView /\ baseViews[t] = ZeroView
  BY DEF OrderInit, Init
<1> HIDE DEF OrderInit
<1> QED BY <1>1, <1>2, <1>3, <1>4, <1>5 DEF OrderInv, Causal

(***************************************************************************)
(* Every step keeps the invariant, and adds no message from before a view  *)
(* that an SC fence has shared.                                            *)
(***************************************************************************)
LEMMA FencedStays ==
    ASSUME OrderInv, RAInv', UNCHANGED fenced,
           \A t \in Thread : Below(threadViews[t], threadViews'[t])
    PROVE  fenced' \in View /\ \A t \in Thread : Below(fenced', threadViews'[t])
<1>1. fenced \in View
  BY DEF OrderInv
<1>2. ASSUME NEW t \in Thread PROVE Below(fenced, threadViews'[t])
  <2>1. threadViews[t] \in View /\ threadViews'[t] \in View
    BY DEF OrderInv, RAInv, Sound, Views
  <2>2. Below(fenced, threadViews[t])
    BY DEF OrderInv
  <2> QED BY <1>1, <2>1, <2>2, BelowTransitive
<1> QED BY <1>1, <1>2

LEMMA OrderReadingStep ==
    ASSUME OrderInv, OnlyReads, UNCHANGED origins
    PROVE  /\ RAInv'
           /\ Causal(threadViews', baseViews', messages', origins')
           /\ \A t \in Thread : Below(threadViews[t], threadViews'[t])
           /\ \A l \in LogLocation : \A m \in messages'[l] :
                 \E n \in messages[l] : n.timestamp = m.timestamp
<1>1. RAInv' /\ \A t \in Thread : Below(threadViews[t], threadViews'[t])
  BY ReadingStep DEF OrderInv
<1>2. Causal(threadViews', baseViews, messages', origins)
  <2>1. origins \in Effects
    BY DEF OrderInv, Causal
  <2> QED BY <2>1, ReadingKeepsCausal DEF OnlyReads, RAInv, OrderInv
<1>3. baseViews' = baseViews
  BY DEF OnlyReads
<1>4. \A l \in LogLocation : \A m \in messages'[l] :
         \E n \in messages[l] : n.timestamp = m.timestamp
  BY DEF OnlyReads, Reading, Thinned
<1> QED BY <1>1, <1>2, <1>3, <1>4

LEMMA OrderAddingStep ==
    ASSUME OrderInv, NEW t \in Thread, NEW l \in LogLocation, NEW mode, NEW from,
           OrderAdds(t, l, mode, from)
    PROVE  /\ OrderInv'
           /\ \A k \in LogLocation : \A m \in messages'[k] :
                 \/ \E n \in messages[k] : n.timestamp = m.timestamp
                 \/ fenced[k] < m.timestamp
<1>1. isRelease(mode) \in BOOLEAN /\ Adds(t, l, isRelease(mode))
  BY DEF isRelease, OrderAdds
<1>2. RAInv' /\ \A u \in Thread : Below(threadViews[u], threadViews'[u])
  BY <1>1, AddingStep DEF OrderInv
<1>3. /\ threadViews'[t] \in View
      /\ threadViews'[t][l] \in Nat
  BY <1>2 DEF RAInv, Sound, Views, View
<1>4. origins \in Effects
  BY DEF OrderInv, Causal
<1>5. \A k \in LogLocation : \A effect \in origins'[k] :
         \/ effect \in origins[k]
         \/ k = l /\ effect = <<threadViews'[t][l], threadViews'[t]>>
  BY <1>4 DEF OrderAdds, Records, Effects
<1>6. origins' \in Effects
  <2>1. <<threadViews'[t][l], threadViews'[t]>> \in Nat \X View
    BY <1>3
  <2>2. DOMAIN origins' = LogLocation /\ origins' = [k \in LogLocation |-> origins'[k]]
    BY <1>4 DEF OrderAdds, Records, Effects
  <2>3. \A k \in LogLocation : origins'[k] \in SUBSET (Nat \X View)
    BY <1>4, <1>5, <2>1 DEF Effects
  <2> QED BY <2>2, <2>3 DEF Effects
<1>7. Causal(threadViews', baseViews', messages', origins')
  BY <1>1, <1>5, <1>6, AddsKeepsCausal DEF OrderInv
<1>8. fenced' = fenced
  BY DEF OrderAdds, Records
<1>9. OrderInv'
  BY <1>2, <1>7, <1>8, FencedStays DEF OrderInv
<1>10. PICK V \in Views, log \in SUBSET Message, time \in Nat, v \in Int32 :
          /\ Reading(threadViews, messages, V, [messages EXCEPT ![l] = log])
          /\ V[t][l] < time
          /\ Push(t, l, v, time, isRelease(mode), log, V)
  BY <1>1 DEF Adds, Puts
<1>11. fenced[l] < time
  <2>1. threadViews[t][l] <= V[t][l]
    BY <1>10, ReadingKeepsSound DEF OrderInv, RAInv, Below
  <2>2. fenced[l] <= threadViews[t][l]
    BY DEF OrderInv, Below
  <2>3. /\ fenced[l] \in Nat /\ threadViews[t][l] \in Nat /\ V[t][l] \in Nat
    BY DEF OrderInv, RAInv, Sound, Views, View
  <2> QED BY <1>10, <2>1, <2>2, <2>3
<1>12. ASSUME NEW k \in LogLocation, NEW m \in messages'[k]
       PROVE  \/ \E n \in messages[k] : n.timestamp = m.timestamp
              \/ fenced[k] < m.timestamp
  <2>1. messages \in Logs
    BY DEF OrderInv, RAInv, Sound
  <2>2. \/ m \in [messages EXCEPT ![l] = log][k]
        \/ k = l /\ m.timestamp = time
    BY <1>10, <2>1 DEF Push, BaseViewAfter, ReleaseView, Logs
  <2>3. CASE m \in [messages EXCEPT ![l] = log][k]
    BY <1>10, <2>3 DEF Reading, Thinned
  <2> QED BY <1>11, <2>2, <2>3
<1> QED BY <1>9, <1>12

LEMMA OrderStep ==
    ASSUME OrderInv, [OrderNext]_<<vars, history>>
    PROVE  /\ OrderInv'
           /\ \A l \in LogLocation : \A m \in messages'[l] :
                 (\A n \in messages[l] : n.timestamp # m.timestamp)
                    => fenced[l] < m.timestamp
<1> DEFINE Goal == /\ OrderInv'
                   /\ \A l \in LogLocation : \A m \in messages'[l] :
                         (\A n \in messages[l] : n.timestamp # m.timestamp)
                            => fenced[l] < m.timestamp
<1>1. CASE UNCHANGED <<vars, history>> \/ OrderAbort
  <2>1. UNCHANGED <<messages, threadViews, baseViews, origins, fenced>>
    BY <1>1 DEF vars, history, OrderAbort, Abort
  <2>2. RAInv'
    BY <1>1, IdleStep DEF OrderInv, OrderAbort
  <2>3. OrderInv'
    BY <2>1, <2>2 DEF OrderInv
  <2> QED BY <2>1, <2>3
<1>2. CASE OrderReads
  <2>1. OnlyReads /\ UNCHANGED origins /\ UNCHANGED fenced
    BY <1>2 DEF OrderReads, RecordsRead
  <2>2. OrderInv'
    BY <2>1, OrderReadingStep, FencedStays DEF OrderInv
  <2> QED BY <2>1, <2>2, OrderReadingStep
<1>3. ASSUME NEW t \in Thread, OrderSCFence(t)
      PROVE  Goal
  <2>1. /\ SCFence(t) /\ UNCHANGED origins
        /\ fenced' = Join(fenced, threadViews[t])
    BY <1>3 DEF OrderSCFence
  <2>2. OnlyReads
    BY <2>1, SCFenceIs DEF OrderInv
  <2>3. /\ RAInv'
        /\ Causal(threadViews', baseViews', messages', origins')
        /\ \A l \in LogLocation : \A m \in messages'[l] :
              \E n \in messages[l] : n.timestamp = m.timestamp
    BY <2>1, <2>2, OrderReadingStep
  <2>4. fenced \in View /\ \A u \in Thread : threadViews[u] \in View
    BY DEF OrderInv, RAInv, Sound, Views
  <2>5. fenced' \in View
    BY <2>1, <2>4, JoinIs
  <2>6. ASSUME NEW u \in Thread PROVE Below(fenced', threadViews'[u])
    <3>1. threadViews'[u] = Join(threadViews[u], threadViews[t])
      BY <2>1 DEF SCFence
    <3>2. ASSUME NEW l \in LogLocation
          PROVE  Join(fenced, threadViews[t])[l] <= Join(threadViews[u], threadViews[t])[l]
      <4>1. fenced[l] <= threadViews[u][l]
        BY DEF OrderInv, Below
      <4>2. /\ fenced[l] \in Nat /\ threadViews[u][l] \in Nat /\ threadViews[t][l] \in Nat
        BY <2>4 DEF View
      <4> QED BY <4>1, <4>2 DEF Join
    <3> QED BY <2>1, <3>1, <3>2 DEF Below
  <2>7. OrderInv'
    BY <2>3, <2>5, <2>6 DEF OrderInv
  <2> QED BY <2>3, <2>7
<1>4. ASSUME NEW t \in Thread, NEW l \in LogLocation, NEW mode, NEW from,
             OrderAdds(t, l, mode, from)
      PROVE  Goal
  BY <1>4, OrderAddingStep
<1>5. OrderNext => Goal
  <2> HIDE DEF Goal
  <2> QED BY <1>1, <1>2, <1>3, <1>4, OrderNextIs DEF OrderInv, Goal
<1> QED BY <1>1, <1>5

THEOREM OrderCorrect == OrderSpec => []OrderInv
<1>1. OrderInv /\ [OrderNext]_<<vars, history>> => OrderInv'
  BY OrderStep
<1> QED BY <1>1, OrderInvInit, PTL DEF OrderSpec

(***************************************************************************)
(* Who sees an effect sees its cause: in both models, with both managers,  *)
(* for any number of threads and locations and whatever modes and fences   *)
(* they mix.                                                               *)
(***************************************************************************)
THEOREM EffectsHaveCauses == OrderSpec => []Causality
<1>1. OrderInv => Causality
  BY DEF OrderInv, Causal, Closed, Causality
<1> QED BY <1>1, OrderCorrect, PTL

(***************************************************************************)
(* After an SC fence no thread writes before what the fencing thread had   *)
(* in view.                                                                *)
(***************************************************************************)
THEOREM FencesOrder == OrderSpec => SCFencesOrderWrites
<1> DEFINE Step == \A l \in LogLocation : \A m \in messages'[l] :
                      (\A n \in messages[l] : n.timestamp # m.timestamp)
                         => fenced[l] < m.timestamp
<1>1. OrderInv /\ [OrderNext]_<<vars, history>> => [Step]_<<vars, history>>
  BY OrderStep
<1>2. OrderSpec => [][Step]_<<vars, history>>
  <2> HIDE DEF Step
  <2> QED BY <1>1, OrderCorrect, PTL DEF OrderSpec
<1> QED BY <1>2 DEF SCFencesOrderWrites
-----------------------------------------------------------------------------
(***************************************************************************)
(* What an update has read stays marked until all threads have passed it,  *)
(* and its timestamp stays its own.                                        *)
(***************************************************************************)
ExclusiveInv ==
    /\ RAInv
    /\ updates \in [LogLocation -> SUBSET (Nat \X Nat)]
    /\ \A l \in LogLocation : Distinct(messages[l])
    /\ \A l \in LogLocation : \A p \in updates[l] :
          Taken(l, p[1], threadViews, messages)
    /\ UpdatesAreExclusive

LEMMA TakenStays ==
    ASSUME NEW V \in Views, NEW W \in Views, NEW M, NEW N,
           NEW l \in LogLocation, NEW time \in Nat,
           \A t \in Thread : V[t][l] <= W[t][l],
           \A m \in M[l] :
              \/ \E n \in N[l] : /\ n.timestamp = m.timestamp
                                 /\ m.isUsedByAtomicUpdate => n.isUsedByAtomicUpdate
              \/ \A t \in Thread : m.timestamp < W[t][l],
           Taken(l, time, V, M)
    PROVE  Taken(l, time, W, N)
<1>1. CASE \A t \in Thread : time < V[t][l]
  <2>1. \A t \in Thread : V[t][l] \in Nat /\ W[t][l] \in Nat
    BY DEF Views, View
  <2>2. \A t \in Thread : time < W[t][l]
    BY <1>1, <2>1
  <2> QED BY <2>2 DEF Taken
<1>2. CASE \E m \in M[l] : m.timestamp = time /\ m.isUsedByAtomicUpdate
  BY <1>2 DEF Taken
<1> QED BY <1>1, <1>2 DEF Taken

(***************************************************************************)
(* What thinning, and a message at a new timestamp, do to the invariant.   *)
(***************************************************************************)
LEMMA ReadingKeepsTaken ==
    ASSUME NEW V, NEW B, NEW M, NEW W, NEW N, Sound(V, B, M), Reading(V, M, W, N),
           NEW l \in LogLocation, NEW time \in Nat, Taken(l, time, V, M)
    PROVE  Taken(l, time, W, N)
<1>1. V \in Views /\ W \in Views
  BY DEF Sound, Reading
<1>2. \A t \in Thread : V[t][l] <= W[t][l]
  BY ReadingKeepsSound DEF Below
<1>3. \A m \in M[l] :
         \/ \E n \in N[l] : /\ n.timestamp = m.timestamp
                            /\ m.isUsedByAtomicUpdate => n.isUsedByAtomicUpdate
         \/ \A t \in Thread : m.timestamp < W[t][l]
  BY DEF Reading, Thinned
<1> QED BY <1>1, <1>2, <1>3, TakenStays

LEMMA AddsKeepsTaken ==
    ASSUME RAInv, NEW t \in Thread, NEW l \in LogLocation, NEW release \in BOOLEAN,
           Adds(t, l, release), \A k \in LogLocation : Distinct(messages[k])
    PROVE  /\ \A k \in LogLocation : Distinct(messages'[k])
           /\ \A k \in LogLocation, time \in Nat :
                 Taken(k, time, threadViews, messages)
                    => Taken(k, time, threadViews', messages')
<1>1. PICK V \in Views, log \in SUBSET Message, time \in Nat, v \in Int32 :
         /\ Reading(threadViews, messages, V, [messages EXCEPT ![l] = log])
         /\ V[t][l] < time
         /\ \A m \in log : m.timestamp # time
         /\ Push(t, l, v, time, release, log, V)
  BY DEF Adds, Puts
<1> DEFINE M == [messages EXCEPT ![l] = log]
<1>2. messages \in Logs /\ Sound(threadViews, baseViews, messages)
  BY DEF RAInv, Sound
<1>3. M[l] = log /\ \A k \in LogLocation : Distinct(M[k])
  BY <1>1, <1>2 DEF Reading, Thinned, Logs
<1>4. \E message : /\ message.timestamp = time
                   /\ \A k \in LogLocation :
                         messages'[k] = IF k = l THEN M[k] \cup {message} ELSE M[k]
  <2> DEFINE view == [V[t] EXCEPT ![l] = time]
             base == IF release /\ l = FenceLocation THEN view ELSE baseViews[t]
             message == [timestamp |-> time, value |-> v, baseView |-> base,
                         releaseView |-> IF release THEN view ELSE base,
                         isUsedByAtomicUpdate |-> FALSE]
  <2>1. messages' = [messages EXCEPT ![l] = log \cup {message}]
    BY <1>1 DEF Push, BaseViewAfter, ReleaseView
  <2>2. message.timestamp = time
    OBVIOUS
  <2> HIDE DEF view, base, message
  <2>3. \A k \in LogLocation :
           messages'[k] = IF k = l THEN M[k] \cup {message} ELSE M[k]
    BY <1>2, <1>3, <2>1 DEF Logs
  <2> QED BY <2>2, <2>3
<1>5. PICK message : /\ message.timestamp = time
                     /\ \A k \in LogLocation :
                           messages'[k] = IF k = l THEN M[k] \cup {message} ELSE M[k]
  BY <1>4
<1>6. threadViews' \in Views
  BY AddingStep DEF RAInv, Sound
<1>7. \A u \in Thread, k \in LogLocation : V[u][k] <= threadViews'[u][k]
  <2> SUFFICES ASSUME NEW u \in Thread, NEW k \in LogLocation
               PROVE  V[u][k] <= threadViews'[u][k]
    OBVIOUS
  <2>1. V[u][k] \in Nat /\ V[t][l] \in Nat
    BY DEF Views, View
  <2>2. threadViews'[u][k] = IF u = t /\ k = l THEN time ELSE V[u][k]
    <3>1. threadViews' = [V EXCEPT ![t] = [V[t] EXCEPT ![l] = time]]
      BY <1>1 DEF Push, BaseViewAfter, ReleaseView
    <3> QED BY <3>1 DEF Views, View
  <2> QED BY <1>1, <2>1, <2>2
<1> HIDE DEF M
<1>8. \A k \in LogLocation : Distinct(messages'[k])
  BY <1>1, <1>3, <1>5 DEF Distinct
<1>9. ASSUME NEW k \in LogLocation, NEW then \in Nat,
             Taken(k, then, threadViews, messages)
      PROVE  Taken(k, then, threadViews', messages')
  <2>1. Taken(k, then, V, M)
    BY <1>1, <1>2, <1>9, ReadingKeepsTaken DEF M
  <2>2. \A m \in M[k] : m \in messages'[k]
    BY <1>5
  <2> QED BY <1>6, <1>7, <2>1, <2>2, TakenStays
<1> QED BY <1>8, <1>9

LEMMA ExclusiveInit == OrderInit => ExclusiveInv
<1> SUFFICES ASSUME OrderInit PROVE ExclusiveInv
  OBVIOUS
<1>1. RAInv
  BY RAInit DEF OrderInit
<1>2. \A l \in LogLocation : Distinct(messages[l])
  BY DEF OrderInit, Init, Distinct
<1>3. updates = [l \in LogLocation |-> {}]
  BY DEF OrderInit
<1> QED BY <1>1, <1>2, <1>3 DEF ExclusiveInv, UpdatesAreExclusive

LEMMA ExclusiveStep ==
    ASSUME ExclusiveInv, Managers = {"random"}, [OrderNext]_<<vars, history>>
    PROVE  ExclusiveInv'
<1>1. CASE UNCHANGED <<vars, history>> \/ OrderAbort
  <2>1. UNCHANGED <<messages, threadViews, updates>>
    BY <1>1 DEF vars, history, OrderAbort, Abort
  <2>2. RAInv'
    BY <1>1, IdleStep DEF ExclusiveInv, OrderAbort
  <2> QED BY <2>1, <2>2 DEF ExclusiveInv, UpdatesAreExclusive
<1>2. CASE OnlyReads /\ UNCHANGED updates
  <2>1. RAInv'
    BY <1>2, ReadingStep DEF ExclusiveInv
  <2>2. \A l \in LogLocation : Distinct(messages'[l])
    BY <1>2 DEF OnlyReads, Reading, Thinned, ExclusiveInv
  <2>3. ASSUME NEW l \in LogLocation, NEW p \in updates[l]
        PROVE  Taken(l, p[1], threadViews', messages')
    <3>1. p[1] \in Nat /\ Taken(l, p[1], threadViews, messages)
      BY DEF ExclusiveInv
    <3> QED BY <1>2, <3>1, ReadingKeepsTaken DEF OnlyReads, ExclusiveInv, RAInv
  <2> QED BY <1>2, <2>1, <2>2, <2>3 DEF ExclusiveInv, UpdatesAreExclusive
<1>3. ASSUME NEW t \in Thread, NEW l \in LogLocation, NEW mode, NEW from,
             OrderAdds(t, l, mode, from)
      PROVE  ExclusiveInv'
  <2>1. isRelease(mode) \in BOOLEAN /\ Adds(t, l, isRelease(mode))
    BY <1>3 DEF isRelease, OrderAdds
  <2>2. RAInv /\ RAInv' /\ manager = "random"
    BY <2>1, AddingStep DEF ExclusiveInv, RAInv
  <2>3. /\ \A k \in LogLocation : Distinct(messages'[k])
        /\ \A k \in LogLocation, time \in Nat :
              Taken(k, time, threadViews, messages)
                 => Taken(k, time, threadViews', messages')
    BY <2>1, AddsKeepsTaken DEF ExclusiveInv
  <2>4. \/ from = {}
        \/ \E m \in messages[l] :
              /\ from = {m.timestamp}
              /\ ~m.isUsedByAtomicUpdate /\ threadViews[t][l] <= m.timestamp
              /\ Taken(l, m.timestamp, threadViews', messages')
    BY <1>3, <2>2 DEF OrderAdds, Records
  <2>5. updates' = [updates EXCEPT ![l] = @ \cup {<<f, threadViews'[t][l]>> : f \in from}]
    BY <1>3 DEF OrderAdds, Records
  <2>6. threadViews'[t][l] \in Nat /\ threadViews[t][l] \in Nat
    BY <2>2 DEF RAInv, Sound, Views, View
  <2>7. ASSUME NEW m \in messages[l]
        PROVE  m.timestamp \in Nat
    BY <2>2 DEF RAInv, Sound, Logs, Message
  <2>8. CASE from = {}
    <3>1. updates' = updates
      BY <2>5, <2>8 DEF ExclusiveInv
    <3> QED BY <2>2, <2>3, <3>1 DEF ExclusiveInv, UpdatesAreExclusive
  <2>9. ASSUME NEW m \in messages[l],
               from = {m.timestamp}, ~m.isUsedByAtomicUpdate,
               threadViews[t][l] <= m.timestamp,
               Taken(l, m.timestamp, threadViews', messages')
        PROVE  ExclusiveInv'
    <3> DEFINE new == <<m.timestamp, threadViews'[t][l]>>
    <3>1. updates \in [LogLocation -> SUBSET (Nat \X Nat)]
      BY DEF ExclusiveInv
    <3>2. new \in Nat \X Nat /\ new[1] = m.timestamp
      BY <2>6, <2>7
    <3>3. updates' = [updates EXCEPT ![l] = @ \cup {new}]
      BY <2>5, <2>9
    <3> HIDE DEF new
    <3>4. /\ updates' \in [LogLocation -> SUBSET (Nat \X Nat)]
          /\ \A k \in LogLocation :
                updates'[k] = IF k = l THEN updates[k] \cup {new} ELSE updates[k]
      BY <3>1, <3>2, <3>3
    <3>5. \A k \in LogLocation : \A p \in updates[k] :
             p[1] \in Nat /\ Taken(k, p[1], threadViews, messages)
      BY <3>1 DEF ExclusiveInv
    <3>6. ASSUME NEW p \in updates[l] PROVE p[1] # m.timestamp
      <4>1. CASE \E n \in messages[l] : n.timestamp = p[1] /\ n.isUsedByAtomicUpdate
        BY <2>9, <4>1 DEF ExclusiveInv, Distinct
      <4>2. CASE \A u \in Thread : p[1] < threadViews[u][l]
        BY <2>6, <2>7, <2>9, <3>5, <4>2
      <4> QED BY <3>5, <4>1, <4>2 DEF Taken
    <3>7. UpdatesAreExclusive'
      <4> SUFFICES ASSUME NEW k \in LogLocation, NEW p \in updates'[k],
                          NEW q \in updates'[k], p[1] = q[1]
                   PROVE  p = q
        BY DEF UpdatesAreExclusive
      <4>1. CASE p \in updates[k] /\ q \in updates[k]
        BY <4>1 DEF ExclusiveInv, UpdatesAreExclusive
      <4>2. CASE k = l /\ (p = new \/ q = new)
        BY <3>2, <3>4, <3>6, <4>2
      <4> QED BY <3>4, <4>1, <4>2
    <3>8. \A k \in LogLocation : \A p \in updates'[k] :
             Taken(k, p[1], threadViews', messages')
      BY <2>3, <2>9, <3>2, <3>4, <3>5
    <3> QED BY <2>2, <2>3, <3>4, <3>7, <3>8 DEF ExclusiveInv
  <2> QED BY <2>4, <2>8, <2>9
<1>4. OrderNext => ExclusiveInv'
  <2>1. ASSUME NEW t \in Thread, OrderSCFence(t)
        PROVE  OnlyReads /\ UNCHANGED updates
    BY <2>1, SCFenceIs DEF OrderSCFence, ExclusiveInv
  <2>2. OrderReads => OnlyReads /\ UNCHANGED updates
    BY DEF OrderReads, RecordsRead
  <2>3. RAInv
    BY DEF ExclusiveInv
  <2> QED BY <1>1, <1>2, <1>3, <2>1, <2>2, <2>3, OrderNextIs
<1> QED BY <1>1, <1>4

(***************************************************************************)
(* With the random manager no two atomic updates have ever read the same   *)
(* message, whatever is read, written and cleaned up in between.           *)
(***************************************************************************)
THEOREM UpdatesExclude ==
    ASSUME Managers = {"random"}
    PROVE  OrderSpec => []UpdatesAreExclusive
<1>1. ExclusiveInv /\ [OrderNext]_<<vars, history>> => ExclusiveInv'
  BY ExclusiveStep
<1>2. ExclusiveInv => UpdatesAreExclusive
  BY DEF ExclusiveInv
<1> QED BY <1>1, <1>2, ExclusiveInit, PTL DEF OrderSpec
-----------------------------------------------------------------------------
(***************************************************************************)
(* Why a message may be used: a compare-and-swap that has failed has read  *)
(* it, or an update that wrote before it, in RA only, or a later message   *)
(* has come.                                                               *)
(***************************************************************************)
Explained(l, time) ==
    \/ time \in failed[l]
    \/ model = "RA" /\ \E p \in updates[l] : p[1] = time /\ p[2] < p[1]
    \/ \E n \in messages[l] : time < n.timestamp

EndsInv ==
    /\ RAInv
    /\ updates \in [LogLocation -> SUBSET (Nat \X Nat)]
    /\ failed \in [LogLocation -> SUBSET Nat]
    /\ \A l \in LogLocation : \A m \in messages[l] :
          m.isUsedByAtomicUpdate => Explained(l, m.timestamp)
    /\ EndsHaveACause

LEMMA EndsInit == OrderInit => EndsInv
<1> SUFFICES ASSUME OrderInit PROVE EndsInv
  OBVIOUS
<1>1. RAInv
  BY RAInit DEF OrderInit
<1>2. /\ updates \in [LogLocation -> SUBSET (Nat \X Nat)]
      /\ failed \in [LogLocation -> SUBSET Nat]
  BY DEF OrderInit
<1>3. ~crashed /\ \A l \in LogLocation : \A m \in messages[l] : ~m.isUsedByAtomicUpdate
  BY DEF OrderInit, Init, InitialMessage
<1> QED BY <1>1, <1>2, <1>3 DEF EndsInv, EndsHaveACause

(***************************************************************************)
(* Where an operation is stuck, what has used up the newest message is to  *)
(* blame.                                                                  *)
(***************************************************************************)
LEMMA StuckHasACause ==
    ASSUME EndsInv, Stuck
    PROVE  \E l \in LogLocation :
              LET newest == Latest(messages[l])
              IN  \/ newest.timestamp \in failed[l]
                  \/ /\ model = "RA"
                     /\ \/ \E p \in updates[l] : p[1] = newest.timestamp /\ p[2] < p[1]
                        \/ \E m, n \in messages[l] : n.timestamp = m.timestamp + 1
<1>1. CASE \E l \in LogLocation :
              model = "RA" /\ \E m, n \in messages[l] : n.timestamp = m.timestamp + 1
  BY <1>1
<1>2. ASSUME NEW l \in LogLocation,
             \A m \in messages[l] :
                m.isUsedByAtomicUpdate \/ \E n \in messages[l] : m.timestamp < n.timestamp
      PROVE  \/ Latest(messages[l]).timestamp \in failed[l]
             \/ /\ model = "RA"
                /\ \E p \in updates[l] : p[1] = Latest(messages[l]).timestamp /\ p[2] < p[1]
  <2> DEFINE newest == Latest(messages[l])
  <2>1. /\ messages[l] \in SUBSET Message /\ MaxTime[l] \in Nat
        /\ \A m \in messages[l] : m.timestamp <= MaxTime[l] /\ m.timestamp \in Nat
    BY RAAssumption DEF EndsInv, RAInv, Sound, Logs, Message
  <2>2. messages[l] # {}
    <3>1. PICK t \in Thread : TRUE
      BY RAAssumption
    <3>2. threadViews[t][l] \in Nat /\ Reached(threadViews[t], threadViews, messages)
      BY DEF EndsInv, RAInv, Sound, Views, View
    <3> QED BY <3>1, <3>2 DEF Reached
  <2>3. newest \in messages[l] /\ \A m \in messages[l] : m.timestamp <= newest.timestamp
    BY <2>1, <2>2, LatestIs
  <2> HIDE DEF newest
  <2>4. \A m \in messages[l] : ~(newest.timestamp < m.timestamp)
    BY <2>1, <2>3
  <2>5. newest.isUsedByAtomicUpdate
    BY <1>2, <2>3, <2>4
  <2>6. Explained(l, newest.timestamp)
    BY <2>3, <2>5 DEF EndsInv
  <2> QED BY <2>4, <2>6 DEF Explained, newest
<1> QED BY <1>1, <1>2 DEF Stuck

(***************************************************************************)
(* What has been explained stays so: a later message is gone only if every *)
(* thread has come to one that is later still.                             *)
(***************************************************************************)
LEMMA ExplainedStays ==
    ASSUME RAInv, RAInv', UNCHANGED model, NEW l \in LogLocation, NEW time \in Nat,
           failed[l] \subseteq failed'[l], updates[l] \subseteq updates'[l],
           \A m \in messages[l] : \/ \E n \in messages'[l] : n.timestamp = m.timestamp
                                  \/ \A t \in Thread : m.timestamp < threadViews'[t][l],
           Explained(l, time)
    PROVE  Explained(l, time)'
<1>1. CASE time \in failed[l]
  BY <1>1 DEF Explained
<1>2. CASE model = "RA" /\ \E p \in updates[l] : p[1] = time /\ p[2] < p[1]
  BY <1>2 DEF Explained
<1>3. ASSUME NEW m \in messages[l], time < m.timestamp
      PROVE  \E n \in messages'[l] : time < n.timestamp
  <2>1. CASE \E n \in messages'[l] : n.timestamp = m.timestamp
    BY <1>3, <2>1
  <2>2. CASE \A t \in Thread : m.timestamp < threadViews'[t][l]
    <3>1. PICK t \in Thread : TRUE
      BY RAAssumption
    <3>2. /\ threadViews'[t][l] \in Nat /\ Reached(threadViews'[t], threadViews', messages')
          /\ m.timestamp \in Nat
      BY DEF RAInv, Sound, Views, View, Logs, Message
    <3>3. PICK n \in messages'[l] : n.timestamp = threadViews'[t][l]
      BY <3>2 DEF Reached
    <3>4. time < n.timestamp
      BY <1>3, <2>2, <3>2, <3>3
    <3> QED BY <3>4
  <2> QED BY <2>1, <2>2
<1> QED BY <1>1, <1>2, <1>3 DEF Explained

LEMMA MessagesStay ==
    ASSUME RAInv,
           \/ OnlyReads
           \/ \E t \in Thread, l \in LogLocation, release \in BOOLEAN : Adds(t, l, release),
           NEW k \in LogLocation, NEW m \in messages[k]
    PROVE  \/ \E n \in messages'[k] : n.timestamp = m.timestamp
           \/ \A t \in Thread : m.timestamp < threadViews'[t][k]
<1>1. CASE OnlyReads
  BY <1>1 DEF OnlyReads, Reading, Thinned
<1>2. ASSUME NEW t \in Thread, NEW l \in LogLocation, NEW release \in BOOLEAN,
             Adds(t, l, release)
      PROVE  \/ \E n \in messages'[k] : n.timestamp = m.timestamp
             \/ \A u \in Thread : m.timestamp < threadViews'[u][k]
  <2>1. PICK V \in Views, log \in SUBSET Message :
           /\ Reading(threadViews, messages, V, [messages EXCEPT ![l] = log])
           /\ Puts(t, l, release, V, log)
    BY <1>2 DEF Adds
  <2>2. messages \in Logs
    BY DEF RAInv, Sound
  <2>when. PICK time \in Nat : \E message : IsPut(t, l, V, log, time, message)
    BY <2>1, <2>2, PutsIs
  <2>3. PICK message : IsPut(t, l, V, log, time, message)
    BY <2>when
  <2>4. \A n \in [messages EXCEPT ![l] = log][k] : n \in messages'[k]
    BY <2>2, <2>3 DEF IsPut, Logs
  <2>5. \/ \E n \in [messages EXCEPT ![l] = log][k] : n.timestamp = m.timestamp
        \/ \A u \in Thread : m.timestamp < V[u][k]
    BY <2>1 DEF Reading, Thinned
  <2>6. ASSUME NEW u \in Thread, m.timestamp < V[u][k]
        PROVE  m.timestamp < threadViews'[u][k]
    <3>1. /\ m.timestamp \in Nat /\ V[u][k] \in Nat
          /\ threadViews'[u][k] = IF u = t /\ k = l THEN time ELSE V[u][k]
          /\ V[t][l] < time
      BY <2>2, <2>3 DEF Logs, Message, Views, View, IsPut
    <3> QED BY <2>6, <3>1
  <2> QED BY <2>4, <2>5, <2>6
<1> QED BY <1>1, <1>2

(***************************************************************************)
(* Every step keeps the invariant: what it marks is explained at once.     *)
(***************************************************************************)
LEMMA EndsIdle ==
    ASSUME EndsInv, UNCHANGED <<vars, history>> \/ (OrderAbort /\ Stuck)
    PROVE  EndsInv'
<1>1. UNCHANGED <<model, messages, threadViews, updates, failed>>
  BY DEF vars, history, OrderAbort, Abort
<1>2. RAInv'
  BY IdleStep DEF EndsInv, OrderAbort
<1>3. \A l \in LogLocation : \A m \in messages'[l] :
         m.isUsedByAtomicUpdate => Explained(l, m.timestamp)'
  BY <1>1 DEF EndsInv, Explained
<1>4. EndsHaveACause'
  <2>1. CASE UNCHANGED <<vars, history>>
    BY <1>1, <2>1 DEF EndsInv, EndsHaveACause, vars
  <2>2. CASE OrderAbort /\ Stuck
    BY <1>1, <2>2, StuckHasACause DEF EndsHaveACause
  <2> QED BY <2>1, <2>2
<1> QED BY <1>1, <1>2, <1>3, <1>4 DEF EndsInv

LEMMA EndsWorking ==
    ASSUME EndsInv, ~crashed,
           \/ OnlyReads
           \/ \E t \in Thread, l \in LogLocation, release \in BOOLEAN : Adds(t, l, release),
           updates' \in [LogLocation -> SUBSET (Nat \X Nat)],
           failed' \in [LogLocation -> SUBSET Nat],
           \A k \in LogLocation :
              failed[k] \subseteq failed'[k] /\ updates[k] \subseteq updates'[k],
           \A k \in LogLocation : \A n \in messages'[k] :
              n.isUsedByAtomicUpdate =>
                  WasUsed(k, n.timestamp) \/ Explained(k, n.timestamp)'
    PROVE  EndsInv'
<1>1. RAInv'
  BY ReadingStep, AddingStep DEF EndsInv
<1>2. model' = model /\ ~crashed'
  <2>1. CASE OnlyReads
    BY <2>1 DEF OnlyReads
  <2>2. ASSUME NEW t \in Thread, NEW l \in LogLocation, NEW release \in BOOLEAN,
               Adds(t, l, release)
        PROVE  model' = model /\ ~crashed'
    BY <2>2 DEF Adds, Puts, Push
  <2> QED BY <2>1, <2>2
<1>3. ASSUME NEW k \in LogLocation, NEW n \in messages'[k], n.isUsedByAtomicUpdate,
             WasUsed(k, n.timestamp)
      PROVE  Explained(k, n.timestamp)'
  <2>1. n.timestamp \in Nat
    BY <1>1 DEF RAInv, Sound, Logs, Message
  <2>2. Explained(k, n.timestamp)
    BY <1>3 DEF WasUsed, EndsInv
  <2>3. \A m \in messages[k] : \/ \E o \in messages'[k] : o.timestamp = m.timestamp
                               \/ \A t \in Thread : m.timestamp < threadViews'[t][k]
    BY MessagesStay DEF EndsInv
  <2> SUFFICES ASSUME NEW time \in Nat, Explained(k, time)
               PROVE  Explained(k, time)'
    BY <2>1, <2>2
  <2> QED BY <1>1, <1>2, <2>3, ExplainedStays DEF EndsInv
<1> QED BY <1>1, <1>2, <1>3 DEF EndsInv, EndsHaveACause

LEMMA OrderNextRuns == OrderNext => ~crashed
<1>1. \A t, a, mode, m : OrderLoad(t, a, mode, m) => ~crashed
  BY DEF OrderLoad, Load
<1>2. \A t, a, e, n, mode, m : OrderCompareAndSwap(t, a, e, n, mode, m) => ~crashed
  BY DEF OrderCompareAndSwap, CompareAndSwap
<1>3. \A t, a, i, mode, m : OrderFetchAndIncrement(t, a, i, mode, m) => ~crashed
  BY DEF OrderFetchAndIncrement, FetchAndIncrement
<1>4. \A t, a, v, mode : OrderStore(t, a, v, mode) => ~crashed
  BY DEF OrderStore, Store
<1>5. \A t, l : NothingToUpdate(t, l) => ~crashed
  BY DEF NothingToUpdate, Abort
<1>6. \A t : OrderSCFence(t) => ~crashed
  BY DEF OrderSCFence, SCFence
<1>7. \A t, mode, m : OrderAcquireFence(t, mode, m) => ~crashed
  BY DEF OrderAcquireFence, AcquireFence
<1>8. \A t, mode : OrderReleaseFence(t, mode) => ~crashed
  BY DEF OrderReleaseFence, ReleaseFence
<1> QED BY <1>1, <1>2, <1>3, <1>4, <1>5, <1>6, <1>7, <1>8 DEF OrderNext

LEMMA EndsStep ==
    ASSUME EndsInv, [OrderNext]_<<vars, history>>
    PROVE  EndsInv'
<1>1. CASE UNCHANGED <<vars, history>>
  BY <1>1, EndsIdle
<1>2. CASE OrderAbort /\ Stuck
  BY <1>2, EndsIdle
<1>3. ASSUME ~crashed, OnlyReads, UNCHANGED updates,
             UNCHANGED failed /\ \A l \in LogLocation : MarksAt(l, {})
      PROVE  EndsInv'
  <2>1. PICK t \in Thread : TRUE
    BY RAAssumption
  <2>2. \A k \in LogLocation : \A n \in messages'[k] :
           n.isUsedByAtomicUpdate => WasUsed(k, n.timestamp)
    BY <1>3 DEF MarksAt
  <2> QED BY <1>3, <2>2, EndsWorking DEF EndsInv
<1>4. ASSUME ~crashed, OnlyReads, UNCHANGED updates,
             NEW l \in LogLocation, NEW time \in Nat,
             failed' = [failed EXCEPT ![l] = @ \cup {time}], MarksAt(l, {time})
      PROVE  EndsInv'
  <2>1. /\ updates \in [LogLocation -> SUBSET (Nat \X Nat)]
        /\ failed \in [LogLocation -> SUBSET Nat]
    BY DEF EndsInv
  <2>2. /\ failed' \in [LogLocation -> SUBSET Nat]
        /\ \A k \in LogLocation : failed[k] \subseteq failed'[k]
        /\ time \in failed'[l]
    BY <1>4, <2>1
  <2>3. \A k \in LogLocation : \A n \in messages'[k] :
           n.isUsedByAtomicUpdate =>
               WasUsed(k, n.timestamp) \/ Explained(k, n.timestamp)'
    BY <1>4, <2>2 DEF MarksAt, Explained
  <2> QED BY <1>4, <2>1, <2>2, <2>3, EndsWorking
<1>5. ASSUME ~crashed, NEW t \in Thread, NEW l \in LogLocation, NEW mode, NEW from,
             OrderAdds(t, l, mode, from)
      PROVE  EndsInv'
  <2> DEFINE new == {<<f, threadViews'[t][l]>> : f \in from}
  <2>1. /\ Adds(t, l, isRelease(mode)) /\ isRelease(mode) \in BOOLEAN
        /\ MarksBehind(t, l, from) /\ UNCHANGED failed
        /\ updates' = [updates EXCEPT ![l] = @ \cup new]
        /\ from \subseteq Nat
    <3>1. \A m \in messages[l] : m.timestamp \in Nat
      BY DEF EndsInv, RAInv, Sound, Logs, Message
    <3> QED BY <1>5, <3>1 DEF OrderAdds, Records, isRelease
  <2>2. RAInv' /\ model' = model
    <3>1. RAInv'
      BY <2>1, AddingStep DEF EndsInv
    <3>2. model' = model
      BY <2>1 DEF Adds, Puts, Push
    <3> QED BY <3>1, <3>2
  <2>3. threadViews'[t][l] \in Nat
    BY <2>2 DEF RAInv, Sound, Views, View
  <2>4. new \in SUBSET (Nat \X Nat)
    BY <2>1, <2>3
  <2>5. /\ updates \in [LogLocation -> SUBSET (Nat \X Nat)]
        /\ failed \in [LogLocation -> SUBSET Nat]
    BY DEF EndsInv
  <2>6. \A f \in from : <<f, threadViews'[t][l]>> \in new
    OBVIOUS
  <2> HIDE DEF new
  <2>7. /\ updates' \in [LogLocation -> SUBSET (Nat \X Nat)]
        /\ \A k \in LogLocation : updates[k] \subseteq updates'[k]
        /\ new \subseteq updates'[l]
    BY <2>1, <2>4, <2>5
  <2>8. ASSUME NEW k \in LogLocation, NEW n \in messages'[k], n.isUsedByAtomicUpdate,
               ~WasUsed(k, n.timestamp)
        PROVE  Explained(k, n.timestamp)'
    <3>1. k = l /\ n.timestamp \in Behind(t, l, from)
      BY <2>1, <2>8 DEF MarksBehind, MarksAt
    <3>2. CASE n.timestamp < threadViews'[t][l]
      <4>1. \E m \in messages'[l] : n.timestamp < m.timestamp
        BY <2>1, <3>2 DEF MarksBehind
      <4> QED BY <3>1, <4>1 DEF Explained
    <3>3. CASE n.timestamp \in from /\ model = "RA" /\ threadViews'[t][l] < n.timestamp
      <4>1. <<n.timestamp, threadViews'[t][l]>> \in updates'[l]
        BY <2>6, <2>7, <3>3
      <4> QED BY <2>2, <3>1, <3>3, <4>1 DEF Explained
    <3> QED BY <3>1, <3>2, <3>3 DEF Behind
  <2> QED BY <1>5, <2>1, <2>5, <2>7, <2>8, EndsWorking
<1>6. ASSUME ~crashed, NEW t \in Thread, OrderSCFence(t)
      PROVE  EndsInv'
  <2>1. OnlyReads /\ UNCHANGED <<updates, failed>>
    BY <1>6, SCFenceIs DEF OrderSCFence, EndsInv
  <2>2. \A l \in LogLocation : messages'[l] \subseteq messages[l]
    BY <1>6 DEF OrderSCFence, SCFence, CleanedUp
  <2>3. \A l \in LogLocation : MarksAt(l, {})
    BY <2>2 DEF MarksAt, WasUsed
  <2> QED BY <1>3, <1>6, <2>1, <2>3
<1>7. CASE OrderNext
  <2>1. OrderReads => EndsInv'
    BY <1>3, <1>4, <1>7, OrderNextRuns DEF OrderReads, RecordsRead
  <2> QED BY <1>2, <1>5, <1>6, <1>7, <2>1, OrderNextIs, OrderNextRuns DEF EndsInv
<1> QED BY <1>1, <1>7

(***************************************************************************)
(* Whatever the program, the modes and the manager, an operation of RA or  *)
(* SRA ends the process only when the newest message of a location has     *)
(* been used up by a failed compare-and-swap, or, in RA, by an update that *)
(* wrote before it, or when two messages of RA are one step apart.         *)
(***************************************************************************)
THEOREM EndsAreCaused == OrderSpec => []EndsHaveACause
<1>1. EndsInv /\ [OrderNext]_<<vars, history>> => EndsInv'
  BY EndsStep
<1>2. EndsInv => EndsHaveACause
  BY DEF EndsInv
<1> QED BY <1>1, <1>2, EndsInit, PTL DEF OrderSpec
=============================================================================
