-------------------------- MODULE RAAcqRel_proof --------------------------
(***************************************************************************)
(* Proofs about RAOrder for programs whose accesses and fences are all     *)
(* REL_ACQ, but for SC fences: no thread reads back, and the write of an   *)
(* atomic update stays next to the message the update has read.            *)
(***************************************************************************)
EXTENDS RAOrder_proof

ReleaseAcquireOnly ==
    AccessModes \subseteq {"REL_ACQ"} /\ FenceModes \subseteq {"REL_ACQ", "SEQ_CST"}

(***************************************************************************)
(* Every message has its own timestamp in its release view, so that a      *)
(* thread that reads it does not go back behind it.                        *)
(***************************************************************************)
ReleasedInv ==
    /\ RAInv
    /\ \A l \in LogLocation : \A m \in messages[l] : m.releaseView[l] = m.timestamp
    /\ observed \in [Thread -> View]
    /\ \A t \in Thread : Below(observed[t], threadViews[t])
-----------------------------------------------------------------------------
LEMMA ReleasedInit == OrderInit => ReleasedInv
<1> SUFFICES ASSUME OrderInit PROVE ReleasedInv
  OBVIOUS
<1>1. RAInv
  BY RAInit DEF OrderInit
<1>2. ZeroView \in View /\ Below(ZeroView, ZeroView)
  BY DEF ZeroView, View, Below
<1>3. \A l \in LogLocation : \A m \in messages[l] : m.releaseView[l] = m.timestamp
  BY DEF OrderInit, Init, InitialMessage, ZeroView
<1>4. observed = [t \in Thread |-> ZeroView] /\ threadViews = [t \in Thread |-> ZeroView]
  BY DEF OrderInit, Init
<1> QED BY <1>1, <1>2, <1>3, <1>4 DEF ReleasedInv

(***************************************************************************)
(* In such programs every read acquires: the thread's view moves exactly   *)
(* to the message it has read.                                             *)
(***************************************************************************)
LEMMA AcquireReadIs ==
    ASSUME ReleasedInv, NEW t \in Thread, NEW l \in LogLocation, NEW m \in messages[l],
           threadViews[t][l] <= m.timestamp
    PROVE  /\ ViewsAfterRead(t, m, TRUE)[t][l] = m.timestamp
           /\ m.timestamp \in Nat /\ threadViews[t][l] \in Nat
<1>1. /\ threadViews \in Views /\ threadViews[t] \in View
      /\ m.releaseView \in View /\ m.timestamp \in Nat
  BY DEF ReleasedInv, RAInv, Sound, Logs, Message, Views
<1>2. m.releaseView[l] = m.timestamp
  BY DEF ReleasedInv
<1>3. ViewsAfterRead(t, m, TRUE)[t] = Join(threadViews[t], m.releaseView)
  BY <1>1 DEF ViewsAfterRead, Views
<1>4. threadViews[t][l] \in Nat
  BY <1>1 DEF View
<1>5. Join(threadViews[t], m.releaseView)[l] = m.timestamp
  <2>1. Join(threadViews[t], m.releaseView)[l] =
           IF threadViews[t][l] < m.releaseView[l] THEN m.releaseView[l]
           ELSE threadViews[t][l]
    BY DEF Join
  <2> QED BY <1>1, <1>2, <1>4, <2>1
<1> QED BY <1>1, <1>3, <1>4, <1>5

(***************************************************************************)
(* What a step lets a thread observe lies between the thread's views       *)
(* before and after it.                                                    *)
(***************************************************************************)
ObservesInView ==
    \/ UNCHANGED observed
    \/ \E t \in Thread, l \in LogLocation, time \in Nat :
          /\ Observes(t, l, time)
          /\ threadViews[t][l] <= time /\ time <= threadViews'[t][l]

LEMMA ReadObserves ==
    ASSUME ReleasedInv, NEW t \in Thread, NEW l \in LogLocation, NEW m \in messages[l],
           NEW marks, Read(t, l, m, TRUE, marks), Observes(t, l, m.timestamp),
           threadViews[t][l] <= m.timestamp
    PROVE  ObservesInView
<1>1. /\ threadViews'[t][l] = m.timestamp
      /\ m.timestamp \in Nat
  BY AcquireReadIs DEF Read
<1> QED BY <1>1 DEF ObservesInView

LEMMA WriteObserves ==
    ASSUME ReleasedInv, RAInv', NEW t \in Thread, NEW l \in LogLocation, NEW mode, NEW from,
           Writes(t, l, mode, from),
           \A u \in Thread : Below(threadViews[u], threadViews'[u])
    PROVE  ObservesInView
<1>1. threadViews'[t][l] \in Nat /\ threadViews[t][l] <= threadViews'[t][l]
  BY DEF RAInv, Sound, Views, View, Below
<1>2. CASE crashed' /\ UNCHANGED history
  BY <1>2 DEF history, ObservesInView
<1>3. CASE Observes(t, l, threadViews'[t][l])
  BY <1>1, <1>3 DEF ObservesInView
<1> QED BY <1>2, <1>3 DEF Writes
-----------------------------------------------------------------------------
(***************************************************************************)
(* The steps of such programs, but for SC fences: a load or a failed       *)
(* compare-and-swap, a store, and an update, which a fence is too.         *)
(***************************************************************************)
Looks(t, l, m, marks) ==
    threadViews[t][l] <= m.timestamp /\ Read(t, l, m, TRUE, marks) /\ Reads(t, l, m)

Stores(t, l, v) ==
    /\ ~crashed
    /\ Write(t, l, v, FALSE, TRUE, messages[l], threadViews)
    /\ Writes(t, l, "REL_ACQ", {})

Updates(t, l, v, m) ==
    /\ ~crashed
    /\ m \in Readable(t, l, TRUE)
    /\ Update(t, l, v, "REL_ACQ", m, TRUE)
    /\ Writes(t, l, "REL_ACQ", {m.timestamp})

LEMMA ReleaseAcquireNextIs ==
    ASSUME RAInv, ReleaseAcquireOnly, OrderNext
    PROVE  \/ OrderAbort
           \/ \E t \in Thread : OrderSCFence(t)
           \/ \E t \in Thread, l \in LogLocation : \E m \in messages[l], marks \in BOOLEAN :
                 Looks(t, l, m, marks)
           \/ \E t \in Thread, l \in LogLocation, v \in Int32 : Stores(t, l, v)
           \/ \E t \in Thread, l \in LogLocation, v \in Int32 : \E m \in messages[l] :
                 Updates(t, l, v, m)
<1> DEFINE Goal ==
       \/ OrderAbort
       \/ \E t \in Thread : OrderSCFence(t)
       \/ \E t \in Thread, l \in LogLocation : \E m \in messages[l], marks \in BOOLEAN :
             Looks(t, l, m, marks)
       \/ \E t \in Thread, l \in LogLocation, v \in Int32 : Stores(t, l, v)
       \/ \E t \in Thread, l \in LogLocation, v \in Int32 : \E m \in messages[l] :
             Updates(t, l, v, m)
<1>1. /\ isAcquire("REL_ACQ") = TRUE /\ isRelease("REL_ACQ") = TRUE
      /\ \A mode \in AccessModes : mode = "REL_ACQ"
      /\ \A mode \in FenceModes : mode \in {"REL_ACQ", "SEQ_CST"}
  BY DEF ReleaseAcquireOnly, isAcquire, isRelease
<1>2. /\ OrderAbort => Goal
      /\ \A t \in Thread : OrderSCFence(t) => Goal
      /\ \A t \in Thread, l \in LogLocation : \A m \in messages[l], marks \in BOOLEAN :
            Looks(t, l, m, marks) => Goal
      /\ \A t \in Thread, l \in LogLocation, v \in Int32 : Stores(t, l, v) => Goal
      /\ \A t \in Thread, l \in LogLocation, v \in Int32 : \A m \in messages[l] :
            Updates(t, l, v, m) => Goal
  OBVIOUS
<1> HIDE DEF Goal
<1>3. ASSUME NEW t \in Thread, NEW a \in Address, NEW m \in messages[a],
             OrderLoad(t, a, "REL_ACQ", m)
      PROVE  Goal
  <2>1. Looks(t, a, m, FALSE)
    BY <1>1, <1>3 DEF OrderLoad, Load, Looks, Readable, Available
  <2> QED BY <1>2, <2>1, Constants
<1>4. ASSUME NEW t \in Thread, NEW a \in Address, NEW m \in messages[a],
             NEW expected \in Value, NEW new \in Value,
             OrderCompareAndSwap(t, a, expected, new, "REL_ACQ", m)
      PROVE  Goal
  <2>1. /\ ~crashed /\ m \in Readable(t, a, TRUE)
        /\ \/ m.value = expected /\ Update(t, a, new, "REL_ACQ", m, TRUE)
           \/ m.value # expected /\ Read(t, a, m, TRUE, TRUE)
        /\ m.value = expected => Writes(t, a, "REL_ACQ", {m.timestamp})
        /\ m.value # expected => Reads(t, a, m)
    BY <1>1, <1>4 DEF OrderCompareAndSwap, CompareAndSwap
  <2>2. CASE m.value = expected
    <3>1. Updates(t, a, new, m)
      BY <2>1, <2>2 DEF Updates
    <3> QED BY <1>2, <3>1, Constants
  <2>3. CASE m.value # expected
    <3>1. Looks(t, a, m, TRUE)
      BY <2>1, <2>3, ReadableIs, Constants DEF Looks
    <3> QED BY <1>2, <3>1, Constants
  <2> QED BY <2>2, <2>3
<1>5. ASSUME NEW t \in Thread, NEW a \in Address, NEW m \in messages[a],
             NEW increment \in Increment,
             OrderFetchAndIncrement(t, a, increment, "REL_ACQ", m)
      PROVE  Goal
  <2>1. Plus32(m.value, increment) \in Int32
    BY SumType, Constants
  <2>2. Updates(t, a, Plus32(m.value, increment), m)
    BY <1>5 DEF OrderFetchAndIncrement, FetchAndIncrement, Updates
  <2> QED BY <1>2, <2>1, <2>2, Constants
<1>6. ASSUME NEW t \in Thread, NEW a \in Address, NEW v \in Value,
             OrderStore(t, a, v, "REL_ACQ")
      PROVE  Goal
  <2>1. Stores(t, a, v)
    BY <1>1, <1>6 DEF OrderStore, Store, Stores
  <2> QED BY <1>2, <2>1, Constants
<1>7. ASSUME NEW t \in Thread, NEW l \in LogLocation, NothingToUpdate(t, l), UNCHANGED history
      PROVE  Goal
  BY <1>2, <1>7 DEF NothingToUpdate, OrderAbort
<1>8. ASSUME NEW t \in Thread, NEW m \in messages[FenceLocation],
             NEW mode \in FenceModes, OrderAcquireFence(t, mode, m)
      PROVE  Goal
  <2>1. mode = "REL_ACQ"
    BY <1>1, <1>8 DEF OrderAcquireFence, AcquireFence, isAcquire
  <2>2. Updates(t, FenceLocation, 0, m)
    BY <1>1, <1>8, <2>1 DEF OrderAcquireFence, AcquireFence, Updates
  <2> QED BY <1>2, <2>2, Constants
<1>9. ASSUME NEW t \in Thread, NEW mode \in FenceModes, OrderReleaseFence(t, mode)
      PROVE  Goal
  BY <1>1, <1>9 DEF OrderReleaseFence, ReleaseFence
<1>10. Goal
  BY <1>1, <1>2, <1>3, <1>4, <1>5, <1>6, <1>7, <1>8, <1>9, Constants DEF OrderNext
<1> QED BY <1>10 DEF Goal
-----------------------------------------------------------------------------
(***************************************************************************)
(* Such steps add release messages only, and observe what the thread's     *)
(* view has come to.                                                       *)
(***************************************************************************)
ReleasedMessages(logs) ==
    \A l \in LogLocation : \A m \in logs[l] : m.releaseView[l] = m.timestamp

LEMMA ReleasedWhenRead ==
    ASSUME ReleasedInv, NEW V, NEW N, Reading(threadViews, messages, V, N)
    PROVE  ReleasedMessages(N)
  BY DEF ReleasedInv, Reading, Thinned, ReleasedMessages

LEMMA ReleasedWhenAdded ==
    ASSUME ReleasedInv, NEW t \in Thread, NEW l \in LogLocation, Adds(t, l, TRUE)
    PROVE  ReleasedMessages(messages')
<1>1. PICK V \in Views, log \in SUBSET Message, time \in Nat, v \in Int32 :
         /\ Reading(threadViews, messages, V, [messages EXCEPT ![l] = log])
         /\ Push(t, l, v, time, TRUE, log, V)
  BY DEF Adds, Puts
<1> DEFINE view == [V[t] EXCEPT ![l] = time]
           base == IF l = FenceLocation THEN view ELSE baseViews[t]
           message == [timestamp |-> time, value |-> v, baseView |-> base,
                       releaseView |-> view, isUsedByAtomicUpdate |-> FALSE]
<1>2. messages' = [messages EXCEPT ![l] = log \cup {message}]
  BY <1>1 DEF Push, BaseViewAfter, ReleaseView
<1>3. message.timestamp = time /\ message.releaseView[l] = time
  BY DEF Views, View
<1>4. messages \in Logs
  BY DEF ReleasedInv, RAInv, Sound
<1>5. \A k \in LogLocation : \A m \in [messages EXCEPT ![l] = log][k] :
         m.releaseView[k] = m.timestamp
  BY <1>1, ReleasedWhenRead DEF ReleasedMessages
<1> HIDE DEF view, base, message
<1> QED BY <1>2, <1>3, <1>4, <1>5 DEF ReleasedMessages, Logs

LEMMA ObservingKeepsBelow ==
    ASSUME ReleasedInv, RAInv', ObservesInView,
           \A u \in Thread : Below(threadViews[u], threadViews'[u])
    PROVE  /\ observed' \in [Thread -> View]
           /\ \A u \in Thread : Below(observed'[u], threadViews'[u])
           /\ \A u \in Thread, k \in LogLocation : observed[u][k] <= observed'[u][k]
<1>1. /\ observed \in [Thread -> View]
      /\ \A u \in Thread, k \in LogLocation :
            /\ observed[u][k] \in Nat /\ threadViews[u][k] \in Nat
            /\ threadViews'[u][k] \in Nat
            /\ observed[u][k] <= threadViews[u][k]
            /\ threadViews[u][k] <= threadViews'[u][k]
  BY DEF ReleasedInv, RAInv, Sound, Views, View, Below
<1>2. CASE UNCHANGED observed
  <2>1. \A u \in Thread, k \in LogLocation : observed'[u][k] <= threadViews'[u][k]
    <3>1. ASSUME NEW u \in Thread, NEW k \in LogLocation
          PROVE  observed'[u][k] <= threadViews'[u][k]
      BY <1>1, <1>2
    <3> QED BY <3>1
  <2> QED BY <1>1, <1>2, <2>1 DEF Below
<1>3. ASSUME NEW t \in Thread, NEW l \in LogLocation, NEW time \in Nat,
             Observes(t, l, time), threadViews[t][l] <= time, time <= threadViews'[t][l]
      PROVE  /\ observed' \in [Thread -> View]
             /\ \A u \in Thread, k \in LogLocation :
                   observed'[u][k] <= threadViews'[u][k] /\ observed[u][k] <= observed'[u][k]
  <2>1. observed' = [observed EXCEPT ![t] = [observed[t] EXCEPT ![l] = time]]
    BY <1>3 DEF Observes
  <2>2. observed' \in [Thread -> View]
    BY <1>1, <2>1 DEF View
  <2>3. ASSUME NEW u \in Thread, NEW k \in LogLocation
        PROVE  observed'[u][k] = IF u = t /\ k = l THEN time ELSE observed[u][k]
    BY <1>1, <2>1 DEF View
  <2>4. ASSUME NEW u \in Thread, NEW k \in LogLocation
        PROVE  observed'[u][k] <= threadViews'[u][k] /\ observed[u][k] <= observed'[u][k]
    <3>1. CASE u = t /\ k = l
      BY <1>1, <1>3, <2>3, <3>1
    <3>2. CASE ~(u = t /\ k = l)
      BY <1>1, <2>3, <3>2
    <3> QED BY <3>1, <3>2
  <2> QED BY <2>2, <2>4
<1> QED BY <1>2, <1>3 DEF ObservesInView, Below

LEMMA ReleasedStep ==
    ASSUME ReleasedInv, ReleaseAcquireOnly, [OrderNext]_<<vars, history>>
    PROVE  /\ ReleasedInv'
           /\ \A u \in Thread, k \in LogLocation : observed[u][k] <= observed'[u][k]
<1> DEFINE Goal == /\ RAInv'
                   /\ \A u \in Thread : Below(threadViews[u], threadViews'[u])
                   /\ ReleasedMessages(messages')
                   /\ ObservesInView
<1>1. RAInv
  BY DEF ReleasedInv
<1>2. ASSUME UNCHANGED <<vars, history>> \/ OrderAbort
      PROVE  Goal
  <2>1. UNCHANGED <<messages, observed>>
    BY <1>2 DEF vars, history, OrderAbort, Abort
  <2>2. ReleasedMessages(messages')
    BY <2>1 DEF ReleasedInv, ReleasedMessages
  <2> QED BY <1>1, <1>2, <2>1, <2>2, IdleStep DEF OrderAbort, ObservesInView
<1>3. ASSUME OnlyReads, ObservesInView
      PROVE  Goal
  BY <1>1, <1>3, ReadingStep, ReleasedWhenRead DEF OnlyReads
<1>4. ASSUME NEW t \in Thread, NEW l \in LogLocation, NEW from,
             Adds(t, l, TRUE), Writes(t, l, "REL_ACQ", from)
      PROVE  Goal
  BY <1>1, <1>4, AddingStep, ReleasedWhenAdded, WriteObserves
<1>5. ASSUME NEW t \in Thread, NEW l \in LogLocation, NEW from,
             ~crashed, Abort, Writes(t, l, "REL_ACQ", from)
      PROVE  OrderAbort
  BY <1>5 DEF Abort, Writes, OrderAbort
<1>6. isRelease("REL_ACQ") = TRUE
  BY DEF isRelease
<1> HIDE DEF Goal
<1>7. ASSUME NEW t \in Thread, OrderSCFence(t)
      PROVE  Goal
  <2>1. OnlyReads /\ UNCHANGED observed
    BY <1>1, <1>7, SCFenceIs DEF OrderSCFence
  <2> QED BY <1>3, <2>1 DEF ObservesInView
<1>8. ASSUME NEW t \in Thread, NEW l \in LogLocation, NEW m \in messages[l],
             NEW marks \in BOOLEAN, Looks(t, l, m, marks)
      PROVE  Goal
  <2>1. OnlyReads
    BY <1>1, <1>8, ReadStep DEF Looks
  <2>2. ObservesInView
    BY <1>8, ReadObserves DEF Looks, Reads
  <2> QED BY <1>3, <2>1, <2>2
<1>9. ASSUME NEW t \in Thread, NEW l \in LogLocation, NEW v \in Int32, Stores(t, l, v)
      PROVE  Goal
  <2>1. Abort \/ Adds(t, l, TRUE)
    BY <1>1, <1>6, <1>9, WriteStep DEF Stores
  <2> QED BY <1>2, <1>4, <1>5, <1>9, <2>1 DEF Stores
<1>10. ASSUME NEW t \in Thread, NEW l \in LogLocation, NEW v \in Int32,
              NEW m \in messages[l], Updates(t, l, v, m)
       PROVE  Goal
  <2>1. Abort \/ Adds(t, l, TRUE)
    BY <1>1, <1>6, <1>10, UpdateStep DEF Updates
  <2> QED BY <1>2, <1>4, <1>5, <1>10, <2>1 DEF Updates
<1>11. Goal
  <2>1. OrderNext => Goal
    BY <1>1, <1>2, <1>7, <1>8, <1>9, <1>10, ReleaseAcquireNextIs
  <2> QED BY <1>2, <2>1
<1>12. /\ observed' \in [Thread -> View]
       /\ \A u \in Thread : Below(observed'[u], threadViews'[u])
       /\ \A u \in Thread, k \in LogLocation : observed[u][k] <= observed'[u][k]
  BY <1>11, ObservingKeepsBelow DEF Goal
<1> QED BY <1>11, <1>12 DEF Goal, ReleasedInv, ReleasedMessages

(***************************************************************************)
(* When every access and fence is REL_ACQ, but for SC fences, a thread     *)
(* never reads or writes behind what it has read or written.               *)
(***************************************************************************)
THEOREM NeverBack ==
    ASSUME ReleaseAcquireOnly
    PROVE  OrderSpec => NeverReadsBack
<1> DEFINE Step == \A t \in Thread, l \in LogLocation : observed[t][l] <= observed'[t][l]
<1>1. /\ ReleasedInv /\ [OrderNext]_<<vars, history>> => ReleasedInv'
      /\ ReleasedInv /\ [OrderNext]_<<vars, history>> => [Step]_<<vars, history>>
  BY ReleasedStep
<1>2. OrderSpec => [][Step]_<<vars, history>>
  <2> HIDE DEF Step
  <2> QED BY <1>1, ReleasedInit, PTL DEF OrderSpec
<1> QED BY <1>2 DEF NeverReadsBack
-----------------------------------------------------------------------------
(***************************************************************************)
(* In the RA model the random manager puts a message right after another   *)
(* one of the log: after one that no update has used, or, for an update,   *)
(* after the one that the thread's view is at.                             *)
(***************************************************************************)
PutsAfter(t, l, v, useMinTimestamp, V, log, b, time) ==
    /\ Push(t, l, v, time, TRUE, log, V)
    /\ V[t][l] <= b.timestamp /\ b.timestamp < time
    /\ \A m \in log : m.timestamp <= b.timestamp \/ time < m.timestamp
    /\ IF useMinTimestamp THEN b.timestamp = V[t][l] ELSE ~b.isUsedByAtomicUpdate

LEMMA RandomWriteIs ==
    ASSUME RAInv, Models = {"RA"}, Managers = {"random"},
           NEW V, NEW t \in Thread, NEW l \in LogLocation, NEW log,
           Reading(threadViews, messages, V, [messages EXCEPT ![l] = log]),
           NEW v, NEW useMinTimestamp \in BOOLEAN,
           Write(t, l, v, useMinTimestamp, TRUE, log, V), ~crashed'
    PROVE  \E b \in log, time \in Nat : PutsAfter(t, l, v, useMinTimestamp, V, log, b, time)
<1> DEFINE ms == Available(log, V[t], l)
<1>1. Sound(V, baseViews, [messages EXCEPT ![l] = log])
  BY ReadingKeepsSound DEF RAInv
<1>2. /\ messages \in Logs /\ V \in Views
      /\ [messages EXCEPT ![l] = log][l] = log
      /\ log \in SUBSET Message
  BY <1>1 DEF RAInv, Sound, Logs
<1>3. V[t][l] \in Nat /\ MaxTime[l] \in Nat
  BY <1>2, RAAssumption DEF Views, View
<1>4. /\ ms \in SUBSET Message /\ ms \subseteq log
      /\ \A m \in ms : V[t][l] <= m.timestamp /\ m.timestamp <= MaxTime[l]
      /\ \A m \in log : m \in ms \/ ~(V[t][l] <= m.timestamp)
  BY <1>1, <1>2 DEF Available, Sound
<1>5. \E m \in ms : m.timestamp = V[t][l]
  <2>1. \E m \in log : m.timestamp = V[t][l]
    BY <1>1, <1>2, <1>3 DEF Sound, Reached
  <2> QED BY <1>3, <2>1 DEF Available
<1>6. Earliest(ms) \in ms /\ Earliest(ms).timestamp = V[t][l]
  <2> HIDE DEF ms
  <2>1. Earliest(ms) \in ms /\ \A m \in ms : Earliest(ms).timestamp <= m.timestamp
    BY <1>3, <1>4, <1>5, EarliestIs
  <2>2. Earliest(ms).timestamp \in Nat
    BY <1>4, <2>1 DEF Message
  <2> QED BY <1>3, <1>4, <1>5, <2>1, <2>2
<1>7. model = "RA" /\ manager = "random"
  BY DEF RAInv
<1>8. ~Abort
  BY DEF Abort
<1>9. PICK b \in Bases(ms, useMinTimestamp) :
         /\ ~Exhausted(ms, b)
         /\ Push(t, l, v, TimestampAfter(ms, b), TRUE, log, V)
  BY <1>7, <1>8 DEF Write
<1>10. /\ b \in ms
       /\ IF useMinTimestamp THEN b = Earliest(ms) ELSE ~b.isUsedByAtomicUpdate
  BY <1>6, <1>7, <1>9 DEF Bases, Unused
<1> DEFINE time == TimestampAfter(ms, b)
<1>11. /\ time \in Nat /\ b.timestamp < time
       /\ \A m \in ms : m.timestamp <= b.timestamp \/ time < m.timestamp
  <2> HIDE DEF ms
  <2> QED BY <1>4, <1>9, <1>10, TimestampIsNew
<1>12. ASSUME NEW m \in log PROVE m.timestamp <= b.timestamp \/ time < m.timestamp
  <2>1. m.timestamp \in Nat /\ b.timestamp \in Nat /\ V[t][l] <= b.timestamp
    BY <1>2, <1>4, <1>10 DEF Message
  <2> HIDE DEF ms, time
  <2> QED BY <1>3, <1>4, <1>11, <2>1
<1>13. V[t][l] <= b.timestamp /\ b \in log
  BY <1>4, <1>10
<1>14. IF useMinTimestamp THEN b.timestamp = V[t][l] ELSE ~b.isUsedByAtomicUpdate
  BY <1>6, <1>10
<1> HIDE DEF ms
<1>15. PutsAfter(t, l, v, useMinTimestamp, V, log, b, time)
  BY <1>9, <1>11, <1>12, <1>13, <1>14 DEF PutsAfter
<1> HIDE DEF time
<1> QED BY <1>11, <1>13, <1>15

(***************************************************************************)
(* An update's write follows what it has read, and nothing is between.     *)
(***************************************************************************)
AdjacentInv == ReleasedInv /\ ExclusiveInv /\ UpdatesAreAdjacent

LEMMA AdjacentWhenRead ==
    ASSUME AdjacentInv, NEW V, NEW N, Reading(threadViews, messages, V, N),
           NEW l \in LogLocation, NEW p \in updates[l]
    PROVE  /\ p[1] < p[2]
           /\ \A m \in N[l] : ~(p[1] < m.timestamp /\ m.timestamp < p[2])
  BY DEF AdjacentInv, UpdatesAreAdjacent, Reading, Thinned

(* Updates from these timestamps have gone where t has just written.       *)
Recorded(t, l, from) ==
    updates' = [updates EXCEPT ![l] = @ \cup {<<f, threadViews'[t][l]>> : f \in from}]

(***************************************************************************)
(* A message that goes right after b, from which no update has gone yet,   *)
(* is not between what other updates have read and written.                *)
(***************************************************************************)
LEMMA AdjacentWhenPut ==
    ASSUME AdjacentInv, NEW V, NEW t \in Thread, NEW l \in LogLocation, NEW log,
           Reading(threadViews, messages, V, [messages EXCEPT ![l] = log]),
           NEW v, NEW useMinTimestamp, NEW b \in log, NEW time \in Nat,
           PutsAfter(t, l, v, useMinTimestamp, V, log, b, time),
           \A p \in updates[l] : p[1] # b.timestamp,
           NEW from \in SUBSET {b.timestamp},
           Recorded(t, l, from)
    PROVE  UpdatesAreAdjacent'
<1> DEFINE M == [messages EXCEPT ![l] = log]
<1>1. Sound(V, baseViews, M) /\ RAInv
  BY ReadingKeepsSound DEF RAInv, AdjacentInv, ReleasedInv
<1>2. /\ messages \in Logs /\ V \in Views /\ M \in Logs
      /\ M[l] = log /\ log \in SUBSET Message
  BY <1>1 DEF RAInv, Sound, Logs
<1>3. /\ V[t][l] \in Nat /\ b.timestamp \in Nat
      /\ \A m \in log : m.timestamp \in Nat
  BY <1>2 DEF Views, View, Message
<1>4. /\ V[t][l] <= b.timestamp /\ b.timestamp < time
      /\ \A m \in log : m.timestamp <= b.timestamp \/ time < m.timestamp
  BY DEF PutsAfter
<1>5. threadViews'[t][l] = time
  <2>1. threadViews' = [V EXCEPT ![t] = [V[t] EXCEPT ![l] = time]]
    BY DEF PutsAfter, Push, BaseViewAfter, ReleaseView
  <2>2. V[t] \in View
    BY <1>2 DEF Views
  <2> QED BY <1>2, <2>1, <2>2 DEF Views, View
<1>6. \E message : /\ message.timestamp = time
                   /\ messages' = [messages EXCEPT ![l] = log \cup {message}]
  <2> DEFINE view == [V[t] EXCEPT ![l] = time]
             base == IF l = FenceLocation THEN view ELSE baseViews[t]
             put == [timestamp |-> time, value |-> v, baseView |-> base,
                     releaseView |-> view, isUsedByAtomicUpdate |-> FALSE]
  <2>1. messages' = [messages EXCEPT ![l] = log \cup {put}]
    BY DEF PutsAfter, Push, BaseViewAfter, ReleaseView
  <2>2. put.timestamp = time
    OBVIOUS
  <2> HIDE DEF put
  <2> QED BY <2>1, <2>2
<1>7. PICK message : /\ message.timestamp = time
                      /\ messages' = [messages EXCEPT ![l] = log \cup {message}]
  BY <1>6
<1>8. \A k \in LogLocation : messages'[k] = IF k = l THEN M[k] \cup {message} ELSE M[k]
  BY <1>2, <1>7 DEF Logs
<1>9. /\ updates \in [LogLocation -> SUBSET (Nat \X Nat)]
      /\ \A p \in updates[l] : p[1] \in Nat /\ p[2] \in Nat
  BY DEF AdjacentInv, ExclusiveInv
<1>10. \A k \in LogLocation : \A p \in updates'[k] :
         p \in updates[k] \/ (k = l /\ p = <<b.timestamp, time>>)
  BY <1>5, <1>9 DEF Recorded
<1>11. \A k \in LogLocation : \A p \in updates[k] :
          /\ p[1] < p[2]
          /\ \A m \in M[k] : ~(p[1] < m.timestamp /\ m.timestamp < p[2])
  BY AdjacentWhenRead
<1> HIDE DEF M
<1>12. ASSUME NEW p \in updates[l] PROVE ~(p[1] < time /\ time < p[2])
  <2> SUFFICES ASSUME p[1] < time, time < p[2] PROVE FALSE
    OBVIOUS
  <2>1. p[1] \in Nat /\ p[2] \in Nat
    BY <1>9
  <2>2. ~(p[1] < b.timestamp /\ b.timestamp < p[2])
    BY <1>2, <1>11
  <2>3. b.timestamp <= p[1] /\ p[1] # b.timestamp
    BY <1>3, <1>4, <2>1, <2>2
  <2>4. Taken(l, p[1], V, M)
    BY <1>1, <2>1, ReadingKeepsTaken DEF M, AdjacentInv, ExclusiveInv, RAInv
  <2>5. CASE \A u \in Thread : p[1] < V[u][l]
    BY <1>3, <1>4, <2>1, <2>3, <2>5
  <2>6. CASE \E m \in log : m.timestamp = p[1]
    BY <1>3, <1>4, <2>1, <2>3, <2>6
  <2> QED BY <1>2, <2>4, <2>5, <2>6 DEF Taken
<1>13. ASSUME NEW m \in messages'[l]
       PROVE  ~(b.timestamp < m.timestamp /\ m.timestamp < time)
  <2>1. CASE m \in log
    BY <1>3, <1>4, <2>1
  <2>2. CASE m = message
    BY <1>7, <2>2
  <2> QED BY <1>2, <1>8, <2>1, <2>2
<1> SUFFICES ASSUME NEW k \in LogLocation, NEW p \in updates'[k]
             PROVE  /\ p[1] < p[2]
                    /\ \A m \in messages'[k] : ~(p[1] < m.timestamp /\ m.timestamp < p[2])
  BY DEF UpdatesAreAdjacent
<1>14. CASE k = l /\ p = <<b.timestamp, time>>
  BY <1>4, <1>13, <1>14
<1>15. CASE p \in updates[k]
  <2>1. /\ p[1] < p[2]
        /\ \A m \in M[k] : ~(p[1] < m.timestamp /\ m.timestamp < p[2])
    BY <1>11, <1>15
  <2>2. k = l => ~(p[1] < message.timestamp /\ message.timestamp < p[2])
    BY <1>7, <1>12, <1>15
  <2> QED BY <1>8, <2>1, <2>2
<1> QED BY <1>10, <1>14, <1>15

LEMMA AdjacentStep ==
    ASSUME AdjacentInv, ReleaseAcquireOnly, Models = {"RA"}, Managers = {"random"},
           [OrderNext]_<<vars, history>>
    PROVE  UpdatesAreAdjacent'
<1>1. /\ RAInv /\ ReleasedInv /\ ExclusiveInv
      /\ \A l \in LogLocation : Distinct(messages[l])
      /\ updates \in [LogLocation -> SUBSET (Nat \X Nat)]
      /\ \A l \in LogLocation : \A p \in updates[l] :
            p[1] \in Nat /\ Taken(l, p[1], threadViews, messages)
  BY DEF AdjacentInv, ReleasedInv, ExclusiveInv
<1>2. isAcquire("REL_ACQ") = TRUE /\ isRelease("REL_ACQ") = TRUE
  BY DEF isAcquire, isRelease
<1>3. ASSUME UNCHANGED <<vars, history>> \/ OrderAbort
      PROVE  UpdatesAreAdjacent'
  BY <1>3 DEF vars, history, OrderAbort, Abort, AdjacentInv, UpdatesAreAdjacent
<1>4. ASSUME OnlyReads, UNCHANGED updates
      PROVE  UpdatesAreAdjacent'
  BY <1>4, AdjacentWhenRead DEF OnlyReads, UpdatesAreAdjacent
<1>5. ASSUME NEW t \in Thread, OrderSCFence(t)
      PROVE  UpdatesAreAdjacent'
  BY <1>1, <1>4, <1>5, SCFenceIs DEF OrderSCFence
<1>6. ASSUME NEW t \in Thread, NEW l \in LogLocation, NEW m \in messages[l],
             NEW marks \in BOOLEAN, Looks(t, l, m, marks)
      PROVE  UpdatesAreAdjacent'
  BY <1>1, <1>4, <1>6, ReadStep DEF Looks, Reads
<1>7. ASSUME NEW t \in Thread, NEW l \in LogLocation, NEW from,
             ~crashed, crashed', Writes(t, l, "REL_ACQ", from),
             Abort \/ Adds(t, l, TRUE)
      PROVE  UpdatesAreAdjacent'
  <2>1. Abort
    BY <1>7 DEF Adds, Puts, Push, BaseViewAfter, ReleaseView
  <2> QED BY <1>3, <1>7, <2>1 DEF Writes, OrderAbort
<1>8. ASSUME NEW t \in Thread, NEW l \in LogLocation, NEW from,
             ~crashed', Writes(t, l, "REL_ACQ", from)
      PROVE  Recorded(t, l, from)
  BY <1>8 DEF Writes, Recorded
<1>9. ASSUME NEW t \in Thread, NEW l \in LogLocation, NEW v \in Int32, Stores(t, l, v)
      PROVE  UpdatesAreAdjacent'
  <2>1. Reading(threadViews, messages, threadViews, [messages EXCEPT ![l] = messages[l]])
    <3>1. [messages EXCEPT ![l] = messages[l]] = messages
      BY <1>1 DEF RAInv, Sound, Logs
    <3> QED BY <1>1, <3>1, NoReadIs
  <2>2. Abort \/ Adds(t, l, TRUE)
    BY <1>1, <1>2, <1>9, WriteStep DEF Stores
  <2>3. CASE crashed'
    BY <1>7, <1>9, <2>2, <2>3 DEF Stores
  <2>4. CASE ~crashed'
    <3>1. PICK b \in messages[l], time \in Nat :
             PutsAfter(t, l, v, FALSE, threadViews, messages[l], b, time)
      BY <1>1, <1>9, <2>1, <2>4, RandomWriteIs DEF Stores
    <3>2. ~b.isUsedByAtomicUpdate /\ threadViews[t][l] <= b.timestamp
      BY <3>1 DEF PutsAfter
    <3>3. threadViews[t][l] \in Nat /\ b.timestamp \in Nat
      BY <1>1 DEF RAInv, Sound, Views, View, Logs, Message
    <3>4. \A p \in updates[l] : p[1] # b.timestamp
      BY <1>1, <3>2, <3>3 DEF Taken, Distinct
    <3> DEFINE from == {}
    <3>5. /\ from \in SUBSET {b.timestamp}
          /\ Writes(t, l, "REL_ACQ", from)
      BY <1>9 DEF Stores
    <3> HIDE DEF from
    <3>6. Recorded(t, l, from)
      BY <1>8, <2>4, <3>5
    <3>7. AdjacentInv
      OBVIOUS
    <3> QED BY <2>1, <3>1, <3>4, <3>5, <3>6, <3>7, AdjacentWhenPut
  <2> QED BY <2>3, <2>4
<1>10. ASSUME NEW t \in Thread, NEW l \in LogLocation, NEW v \in Int32,
              NEW m \in messages[l], Updates(t, l, v, m)
       PROVE  UpdatesAreAdjacent'
  <2> DEFINE V == ViewsAfterRead(t, m, TRUE)
             log == LogAfterRead(t, l, m, TRUE, TRUE)
  <2>1. Reading(threadViews, messages, V, [messages EXCEPT ![l] = log])
    BY <1>1, ReadIs
  <2>2. Abort \/ Adds(t, l, TRUE)
    BY <1>1, <1>2, <1>10, UpdateStep DEF Updates
  <2>3. CASE crashed'
    BY <1>7, <1>10, <2>2, <2>3 DEF Updates
  <2>4. CASE ~crashed'
    <3>1. Write(t, l, v, TRUE, TRUE, log, V)
      BY <1>2, <1>10 DEF Updates, Update
    <3>2. ~m.isUsedByAtomicUpdate /\ threadViews[t][l] <= m.timestamp
      BY <1>10, ReadableIs DEF Updates
    <3>3. V[t][l] = m.timestamp /\ m.timestamp \in Nat /\ threadViews[t][l] \in Nat
      BY <1>1, <3>2, AcquireReadIs
    <3>4. \A p \in updates[l] : p[1] # m.timestamp
      BY <1>1, <3>2, <3>3 DEF Taken, Distinct
    <3> HIDE DEF V, log
    <3>5. PICK b \in log, time \in Nat : PutsAfter(t, l, v, TRUE, V, log, b, time)
      BY <1>1, <2>1, <2>4, <3>1, RandomWriteIs
    <3>6. b.timestamp = m.timestamp
      BY <3>3, <3>5 DEF PutsAfter
    <3> DEFINE from == {m.timestamp}
    <3>7. /\ from \in SUBSET {b.timestamp}
          /\ Writes(t, l, "REL_ACQ", from)
      BY <1>10, <3>6 DEF Updates
    <3> HIDE DEF from
    <3>8. Recorded(t, l, from)
      BY <1>8, <2>4, <3>7
    <3>9. \A p \in updates[l] : p[1] # b.timestamp
      BY <3>4, <3>6
    <3>10. AdjacentInv
      OBVIOUS
    <3> QED BY <2>1, <3>5, <3>7, <3>8, <3>9, <3>10, AdjacentWhenPut
  <2> QED BY <2>3, <2>4
<1>11. OrderNext => UpdatesAreAdjacent'
  BY <1>1, <1>3, <1>5, <1>6, <1>9, <1>10, ReleaseAcquireNextIs
<1> QED BY <1>3, <1>11

(***************************************************************************)
(* Of the RA model with the random manager: when every access and fence is *)
(* REL_ACQ, but for SC fences, no message ever comes between what an       *)
(* atomic update has read and what it has written.                         *)
(***************************************************************************)
THEOREM UpdatesAdjoin ==
    ASSUME ReleaseAcquireOnly, Models = {"RA"}, Managers = {"random"}
    PROVE  OrderSpec => []UpdatesAreAdjacent
<1>1. OrderInit => AdjacentInv
  <2>1. OrderInit => UpdatesAreAdjacent
    BY DEF OrderInit, UpdatesAreAdjacent
  <2> QED BY <2>1, ReleasedInit, ExclusiveInit DEF AdjacentInv
<1>2. AdjacentInv /\ [OrderNext]_<<vars, history>> => AdjacentInv'
  BY ReleasedStep, ExclusiveStep, AdjacentStep DEF AdjacentInv
<1>3. AdjacentInv => UpdatesAreAdjacent
  BY DEF AdjacentInv
<1> QED BY <1>1, <1>2, <1>3, PTL DEF OrderSpec
=============================================================================
