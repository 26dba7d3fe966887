-------------------------- MODULE RAStorage_proof --------------------------
(***************************************************************************)
(* Proofs about RAStorage: views always point at messages that are still   *)
(* in the logs, never lose a timestamp, and carry the base views of the    *)
(* messages they have come to.  RAOrder_proof builds on it.                *)
(***************************************************************************)
EXTENDS RAStorage, WellFoundedInduction, TLAPS

Views == [Thread -> View]
Logs  == [LogLocation -> SUBSET Message]

(***************************************************************************)
(* A view is reached by these threads' views and logs if it points at      *)
(* messages; except that clean-up may have taken a message which all       *)
(* threads have passed, and which to join with no longer matters.          *)
(***************************************************************************)
Reached(view, views, logs) ==
    \A l \in LogLocation :
        \/ \E m \in logs[l] : m.timestamp = view[l]
        \/ \A t \in Thread : view[l] < views[t][l]

(***************************************************************************)
(* What every operation keeps of the views, the base views and the logs:   *)
(* all views anybody may still take are reached.                           *)
(***************************************************************************)
Sound(views, bases, logs) ==
    /\ views \in Views
    /\ bases \in Views
    /\ logs \in Logs
    /\ \A l \in LogLocation : \A m \in logs[l] :
          /\ m.timestamp <= MaxTime[l]
          /\ Reached(m.baseView, views, logs)
          /\ Reached(m.releaseView, views, logs)
    /\ \A t \in Thread :
          /\ Reached(views[t], views, logs)
          /\ Reached(bases[t], views, logs)

(* Messages at different timestamps are a whole unit apart, or more.       *)
Spaced(logs) ==
    \A l \in LogLocation : \A m, n \in logs[l] :
        m.timestamp < n.timestamp => m.timestamp + Scale <= n.timestamp

RAInv ==
    /\ model \in Models
    /\ manager \in Managers
    /\ crashed \in BOOLEAN
    /\ Sound(threadViews, baseViews, messages)
    /\ model = "SRA" => Spaced(messages)

(* A view that a thread may take: another thread's, or one of a message.   *)
Known(view, views, logs) ==
    \/ \E t \in Thread : view = views[t]
    \/ \E l \in LogLocation : \E m \in logs[l] : view \in {m.baseView, m.releaseView}

Distinct(log) == \A m, n \in log : m.timestamp = n.timestamp => m = n

(***************************************************************************)
(* Logs from which messages have gone that all threads have passed, and in *)
(* which others may have been marked.                                      *)
(***************************************************************************)
Thinned(logs, thinner, views) ==
    \A l \in LogLocation :
        /\ \A m \in logs[l] :
              \/ \E n \in thinner[l] :
                    /\ n.timestamp = m.timestamp
                    /\ m.isUsedByAtomicUpdate => n.isUsedByAtomicUpdate
              \/ \A t \in Thread : m.timestamp < views[t][l]
        /\ \A n \in thinner[l] : \E m \in logs[l] :
              /\ n.timestamp = m.timestamp
              /\ n.baseView = m.baseView
              /\ n.releaseView = m.releaseView
        /\ Distinct(logs[l]) => Distinct(thinner[l])

(***************************************************************************)
(* What reading does to the views and the logs, by whichever operation,    *)
(* and an SC fence as well: threads join known views, and logs are thinned. *)
(***************************************************************************)
Reading(views, logs, newViews, newLogs) ==
    /\ newViews \in Views
    /\ newLogs \in Logs
    /\ \A t \in Thread :
          \/ newViews[t] = views[t]
          \/ \E view \in View : /\ Known(view, views, logs)
                               /\ newViews[t] = Join(views[t], view)
    /\ Thinned(logs, newLogs, newViews)

OnlyReads ==
    /\ Reading(threadViews, messages, threadViews', messages')
    /\ UNCHANGED <<model, manager, baseViews, crashed>>

(***************************************************************************)
(* Thread t puts a message into a log of l, at a timestamp its view has    *)
(* not reached and no message has, and in SRA after all of them.           *)
(***************************************************************************)
Puts(t, l, release, views, log) ==
    \E time \in Nat, v \in Int32 :
        /\ views[t][l] < time /\ time <= MaxTime[l]
        /\ \A m \in log : m.timestamp # time
        /\ model = "SRA" => \A m \in log : m.timestamp + Scale <= time
        /\ Push(t, l, v, time, release, log, views)

(* It does so after it may have read there.                                *)
Adds(t, l, release) ==
    \E views \in Views, log \in SUBSET Message :
        /\ Reading(threadViews, messages, views, [messages EXCEPT ![l] = log])
        /\ Puts(t, l, release, views, log)
-----------------------------------------------------------------------------
LEMMA LeastNumber ==
    ASSUME NEW S \in SUBSET Nat, S # {}
    PROVE  \E n \in S : \A m \in S : n <= m
<1> DEFINE R == {p \in Nat \X Nat : p[1] < p[2]}
<1>1. IsWellFoundedOn(R, Nat)
  BY NatLessThanWellFounded DEF OpToRel
<1>2. PICK n \in S : \A m \in S : ~(<<m, n>> \in R)
  <2> HIDE DEF R
  <2> QED BY <1>1, WFMin
<1>3. \A m \in S : ~(m < n)
  BY <1>2
<1> QED BY <1>3

(***************************************************************************)
(* Of a set of messages that is not empty one is the earliest, and if      *)
(* their timestamps are bounded one is the latest.                         *)
(***************************************************************************)
LEMMA EarliestIs ==
    ASSUME NEW ms \in SUBSET Message, ms # {}
    PROVE  /\ Earliest(ms) \in ms
           /\ \A n \in ms : Earliest(ms).timestamp <= n.timestamp
<1> DEFINE Times == {m.timestamp : m \in ms}
<1>1. Times \in SUBSET Nat /\ Times # {}
  BY DEF Message
<1>2. PICK least \in Times : \A time \in Times : least <= time
  <2> HIDE DEF Times
  <2> QED BY <1>1, LeastNumber
<1>3. PICK m \in ms : \A n \in ms : m.timestamp <= n.timestamp
  BY <1>2
<1> QED BY <1>3 DEF Earliest

LEMMA LatestIs ==
    ASSUME NEW ms \in SUBSET Message, ms # {},
           NEW bound \in Nat, \A m \in ms : m.timestamp <= bound
    PROVE  /\ Latest(ms) \in ms
           /\ \A n \in ms : n.timestamp <= Latest(ms).timestamp
<1> DEFINE Bounds == {n \in Nat : \A m \in ms : m.timestamp <= n}
<1>1. Bounds \in SUBSET Nat /\ bound \in Bounds
  OBVIOUS
<1>2. PICK least \in Bounds : \A n \in Bounds : least <= n
  <2> HIDE DEF Bounds
  <2>1. Bounds # {}
    BY <1>1
  <2> QED BY <1>1, <2>1, LeastNumber
<1>3. \E m \in ms : m.timestamp = least
  <2> SUFFICES ASSUME \A m \in ms : m.timestamp # least
               PROVE  FALSE
    OBVIOUS
  <2>1. \A m \in ms : m.timestamp \in Nat /\ m.timestamp <= least /\ m.timestamp # least
    BY <1>2 DEF Message
  <2>2. least \in Nat /\ least # 0
    BY <1>2, <2>1
  <2>3. least - 1 \in Bounds
    BY <2>1, <2>2
  <2> HIDE DEF Bounds
  <2> QED BY <1>2, <2>2, <2>3
<1>4. PICK m \in ms : \A n \in ms : n.timestamp <= m.timestamp
  BY <1>2, <1>3
<1> QED BY <1>4 DEF Latest

(***************************************************************************)
(* A write that goes right after a message of those that can be read gets  *)
(* a timestamp that is later, that none of them has, and that is earlier   *)
(* than that of the next one.                                              *)
(***************************************************************************)
LEMMA TimestampIsNew ==
    ASSUME NEW ms \in SUBSET Message, NEW b \in ms, ~Exhausted(ms, b)
    PROVE  /\ TimestampAfter(ms, b) \in Nat
           /\ b.timestamp < TimestampAfter(ms, b)
           /\ \A m \in ms : m.timestamp # TimestampAfter(ms, b)
           /\ \A m \in ms : \/ m.timestamp <= b.timestamp
                            \/ TimestampAfter(ms, b) < m.timestamp
<1> DEFINE next == Earliest(Later(ms, b))
<1>1. b.timestamp \in Nat /\ Scale \in Nat /\ Scale # 0
  BY RAAssumption DEF Message
<1>2. \A m \in ms : m.timestamp \in Nat
  BY DEF Message
<1>3. CASE Later(ms, b) = {}
  <2>1. \A m \in ms : m.timestamp <= b.timestamp
    BY <1>1, <1>2, <1>3 DEF Later
  <2> QED BY <1>1, <1>2, <1>3, <2>1 DEF TimestampAfter
<1>4. CASE Later(ms, b) # {}
  <2>1. /\ next \in Later(ms, b)
        /\ \A m \in Later(ms, b) : next.timestamp <= m.timestamp
    BY <1>4, EarliestIs DEF Later
  <2>2. next.timestamp \in Nat /\ b.timestamp < next.timestamp
    BY <1>2, <2>1 DEF Later
  <2>3. \A m \in ms : m.timestamp <= b.timestamp \/ next.timestamp <= m.timestamp
    BY <1>1, <1>2, <2>1 DEF Later
  <2>4. TimestampAfter(ms, b) = (b.timestamp + next.timestamp) \div 2
    BY <1>4 DEF TimestampAfter
  <2>5. TimestampAfter(ms, b) # b.timestamp
    BY DEF Exhausted
  <2> HIDE DEF next
  <2>6. /\ (b.timestamp + next.timestamp) \div 2 \in Nat
        /\ b.timestamp <= (b.timestamp + next.timestamp) \div 2
        /\ (b.timestamp + next.timestamp) \div 2 < next.timestamp
    BY <1>1, <2>2
  <2>7. TimestampAfter(ms, b) \in Nat /\ b.timestamp < TimestampAfter(ms, b)
    BY <1>1, <2>4, <2>5, <2>6
  <2> HIDE DEF Exhausted
  <2> QED BY <1>1, <1>2, <2>2, <2>3, <2>4, <2>6, <2>7
<1> QED BY <1>3, <1>4

(***************************************************************************)
(* There is none when the next message is one step away.                   *)
(***************************************************************************)
LEMMA ExhaustedIs ==
    ASSUME NEW ms \in SUBSET Message, NEW b \in ms, Exhausted(ms, b)
    PROVE  \E n \in ms : n.timestamp = b.timestamp + 1
<1> DEFINE next == Earliest(Later(ms, b))
<1>1. b.timestamp \in Nat /\ Scale \in Nat /\ Scale # 0
  BY RAAssumption DEF Message
<1>2. Later(ms, b) # {}
  BY <1>1 DEF Exhausted, TimestampAfter
<1>3. next \in Later(ms, b)
  BY <1>2, EarliestIs DEF Later
<1>4. next \in ms /\ next.timestamp \in Nat /\ b.timestamp < next.timestamp
  BY <1>3 DEF Later, Message
<1>5. (b.timestamp + next.timestamp) \div 2 = b.timestamp
  BY <1>2 DEF Exhausted, TimestampAfter
<1> HIDE DEF next
<1>6. \A x, y \in Nat : x < y /\ (x + y) \div 2 = x => y = x + 1
  OBVIOUS
<1>7. next.timestamp = b.timestamp + 1
  BY <1>1, <1>4, <1>5, <1>6
<1> QED BY <1>4, <1>7
-----------------------------------------------------------------------------
(***************************************************************************)
(* What a view reaches stays reached while views grow and clean-up takes   *)
(* only what all of them have passed.                                      *)
(***************************************************************************)
LEMMA ReachedStays ==
    ASSUME NEW V \in Views, NEW M \in Logs, NEW W \in Views, NEW N \in Logs,
           \A t \in Thread : Below(V[t], W[t]),
           \A l \in LogLocation : \A m \in M[l] :
              \/ \E n \in N[l] : n.timestamp = m.timestamp
              \/ \A t \in Thread : m.timestamp < W[t][l],
           NEW view \in View, Reached(view, V, M)
    PROVE  Reached(view, W, N)
<1> SUFFICES ASSUME NEW l \in LogLocation
             PROVE  \/ \E n \in N[l] : n.timestamp = view[l]
                    \/ \A t \in Thread : view[l] < W[t][l]
  BY DEF Reached
<1>1. CASE \E m \in M[l] : m.timestamp = view[l]
  BY <1>1
<1>2. CASE \A t \in Thread : view[l] < V[t][l]
  <2>1. ASSUME NEW t \in Thread PROVE view[l] < W[t][l]
    <3>1. view[l] \in Nat /\ V[t][l] \in Nat /\ W[t][l] \in Nat
      BY DEF View, Views
    <3>2. V[t][l] <= W[t][l]
      BY DEF Below
    <3> QED BY <1>2, <3>1, <3>2
  <2> QED BY <2>1
<1> QED BY <1>1, <1>2 DEF Reached

LEMMA JoinIs ==
    ASSUME NEW v \in View, NEW w \in View
    PROVE  /\ Join(v, w) \in View
           /\ Below(v, Join(v, w))
           /\ Below(w, Join(v, w))
           /\ \A l \in LogLocation : Join(v, w)[l] \in {v[l], w[l]}
  BY DEF Join, View, Below

LEMMA JoinReached ==
    ASSUME NEW V, NEW M, NEW v \in View, NEW w \in View,
           Reached(v, V, M), Reached(w, V, M)
    PROVE  Reached(Join(v, w), V, M)
  BY JoinIs DEF Reached

(***************************************************************************)
(* Threads take views that are reached.                                    *)
(***************************************************************************)
LEMMA GrowthKeepsSound ==
    ASSUME NEW V, NEW B, NEW M, Sound(V, B, M), NEW W \in Views,
           \A t \in Thread : Below(V[t], W[t]) /\ Reached(W[t], V, M)
    PROVE  Sound(W, B, M)
<1>1. V \in Views /\ B \in Views /\ M \in Logs
  BY DEF Sound
<1>2. \A view \in View : Reached(view, V, M) => Reached(view, W, M)
  BY <1>1, ReachedStays
<1>3. \A t \in Thread : W[t] \in View /\ B[t] \in View
  BY <1>1 DEF Views
<1>4. \A l \in LogLocation : \A m \in M[l] : m.baseView \in View /\ m.releaseView \in View
  BY <1>1 DEF Logs, Message
<1> QED BY <1>1, <1>2, <1>3, <1>4 DEF Sound

(***************************************************************************)
(* Messages are marked, and those all threads have passed are cleaned up.  *)
(***************************************************************************)
LEMMA CleanUpKeepsSound ==
    ASSUME NEW V, NEW B, NEW M, Sound(V, B, M), NEW N \in Logs,
           \A l \in LogLocation : \A m \in M[l] :
              \/ \E n \in N[l] : n.timestamp = m.timestamp
              \/ \A t \in Thread : m.timestamp < V[t][l],
           \A l \in LogLocation : \A n \in N[l] : \E m \in M[l] :
              /\ n.timestamp = m.timestamp
              /\ n.baseView = m.baseView
              /\ n.releaseView = m.releaseView
    PROVE  Sound(V, B, N)
<1>1. V \in Views /\ B \in Views /\ M \in Logs
  BY DEF Sound
<1>2. \A t \in Thread : V[t] \in View /\ B[t] \in View /\ Below(V[t], V[t])
  BY <1>1 DEF Views, View, Below
<1>3. \A view \in View : Reached(view, V, M) => Reached(view, V, N)
  BY <1>1, <1>2, ReachedStays
<1>4. \A l \in LogLocation : \A m \in M[l] : m.baseView \in View /\ m.releaseView \in View
  BY <1>1 DEF Logs, Message
<1>5. \A l \in LogLocation : \A n \in N[l] :
         /\ n.timestamp <= MaxTime[l]
         /\ Reached(n.baseView, V, N)
         /\ Reached(n.releaseView, V, N)
  BY <1>3, <1>4 DEF Sound
<1> QED BY <1>1, <1>2, <1>3, <1>5 DEF Sound

LEMMA KnownIsReached ==
    ASSUME NEW V, NEW B, NEW M, Sound(V, B, M), NEW view \in View, Known(view, V, M)
    PROVE  Reached(view, V, M)
  BY DEF Known, Sound

LEMMA ReadingKeepsSound ==
    ASSUME NEW V, NEW B, NEW M, NEW W, NEW N, Sound(V, B, M), Reading(V, M, W, N)
    PROVE  /\ Sound(W, B, N)
           /\ \A t \in Thread : Below(V[t], W[t])
<1>1. V \in Views /\ W \in Views /\ N \in Logs
  BY DEF Sound, Reading
<1>2. \A t \in Thread : V[t] \in View /\ Reached(V[t], V, M)
  BY <1>1 DEF Views, Sound
<1>3. ASSUME NEW t \in Thread
      PROVE  Below(V[t], W[t]) /\ Reached(W[t], V, M)
  <2>1. CASE W[t] = V[t]
    BY <1>2, <2>1 DEF Below, View
  <2>2. ASSUME NEW view \in View, Known(view, V, M), W[t] = Join(V[t], view)
        PROVE  Below(V[t], W[t]) /\ Reached(W[t], V, M)
    <3>1. Reached(view, V, M)
      BY <2>2, KnownIsReached
    <3>2. Below(V[t], Join(V[t], view))
      BY <1>2, JoinIs
    <3>3. Reached(Join(V[t], view), V, M)
      BY <1>2, <3>1, JoinReached
    <3> QED BY <2>2, <3>2, <3>3
  <2> QED BY <2>1, <2>2 DEF Reading
<1>4. Sound(W, B, M)
  BY <1>1, <1>3, GrowthKeepsSound
<1>5. Sound(W, B, N)
  BY <1>1, <1>4, CleanUpKeepsSound DEF Reading, Thinned
<1> QED BY <1>3, <1>5
-----------------------------------------------------------------------------
(***************************************************************************)
(* A log of which a message is marked and from which clean-up takes what   *)
(* no view reaches back to.                                                *)
(***************************************************************************)
LEMMA MarkedIs ==
    ASSUME NEW log \in SUBSET Message, NEW m \in log, NEW marks \in BOOLEAN
    PROVE  /\ Marked(log, m, marks) \in SUBSET Message
           /\ \A k \in log : \E n \in Marked(log, m, marks) :
                 /\ n.timestamp = k.timestamp
                 /\ k.isUsedByAtomicUpdate => n.isUsedByAtomicUpdate
           /\ \A n \in Marked(log, m, marks) : \E k \in log :
                 /\ n.timestamp = k.timestamp
                 /\ n.baseView = k.baseView
                 /\ n.releaseView = k.releaseView
           /\ Distinct(log) => Distinct(Marked(log, m, marks))
<1> DEFINE used == [m EXCEPT !.isUsedByAtomicUpdate = TRUE]
           marked == Marked(log, m, marks)
<1>1. /\ used \in Message /\ used.timestamp = m.timestamp
      /\ used.baseView = m.baseView /\ used.releaseView = m.releaseView
      /\ used.isUsedByAtomicUpdate = TRUE
  BY DEF Message
<1>2. marked = log \/ marked = (log \ {m}) \cup {used}
  BY DEF Marked
<1> HIDE DEF used, marked
<1>3. marked \in SUBSET Message
  BY <1>1, <1>2
<1>4. ASSUME NEW k \in log
      PROVE  \E n \in marked : /\ n.timestamp = k.timestamp
                               /\ k.isUsedByAtomicUpdate => n.isUsedByAtomicUpdate
  <2>1. CASE k = m
    BY <1>1, <1>2, <2>1
  <2>2. CASE k # m
    BY <1>2, <2>2
  <2> QED BY <2>1, <2>2
<1>5. \A n \in marked : \E k \in log :
         /\ n.timestamp = k.timestamp
         /\ n.baseView = k.baseView
         /\ n.releaseView = k.releaseView
  BY <1>1, <1>2
<1>6. Distinct(log) => Distinct(marked)
  BY <1>1, <1>2 DEF Distinct
<1> QED BY <1>3, <1>4, <1>5, <1>6 DEF marked

LEMMA CleanedUpIs ==
    ASSUME NEW views \in Views, NEW l \in LogLocation, NEW log \in SUBSET Message
    PROVE  /\ CleanedUp(log, views, l) \in SUBSET log
           /\ \A m \in log : \/ m \in CleanedUp(log, views, l)
                             \/ \A t \in Thread : m.timestamp < views[t][l]
<1>1. \A m \in log, t \in Thread : m.timestamp \in Nat /\ views[t][l] \in Nat
  BY DEF Message, Views, View
<1> QED BY <1>1 DEF CleanedUp

(***************************************************************************)
(* read: the thread joins a view of a message, the message is marked, and  *)
(* the log is cleaned up.                                                  *)
(***************************************************************************)
LEMMA ReadIs ==
    ASSUME RAInv, NEW t \in Thread, NEW l \in LogLocation, NEW m \in messages[l],
           NEW acquire \in BOOLEAN, NEW marks \in BOOLEAN
    PROVE  Reading(threadViews, messages, ViewsAfterRead(t, m, acquire),
                   [messages EXCEPT ![l] = LogAfterRead(t, l, m, acquire, marks)])
<1> DEFINE taken  == IF acquire THEN m.releaseView ELSE m.baseView
           views  == ViewsAfterRead(t, m, acquire)
           marked == Marked(messages[l], m, marks)
           log    == LogAfterRead(t, l, m, acquire, marks)
           logs   == [messages EXCEPT ![l] = log]
<1>1. threadViews \in Views /\ messages \in Logs
  BY DEF RAInv, Sound
<1>2. taken \in View /\ Known(taken, threadViews, messages)
  <2>1. m \in Message
    BY <1>1 DEF Logs
  <2> QED BY <2>1 DEF Known, Message
<1>3. views = [threadViews EXCEPT ![t] = Join(threadViews[t], taken)]
  BY DEF ViewsAfterRead
<1> HIDE DEF taken, views
<1>4. views \in Views
  <2>1. Join(threadViews[t], taken) \in View
    BY <1>1, <1>2, JoinIs DEF Views
  <2> QED BY <1>1, <1>3, <2>1 DEF Views
<1>5. \A u \in Thread : \/ views[u] = threadViews[u]
                        \/ views[u] = Join(threadViews[u], taken)
  BY <1>1, <1>3 DEF Views
<1>6. messages[l] \in SUBSET Message
  BY <1>1 DEF Logs
<1>7. /\ marked \in SUBSET Message
      /\ \A k \in messages[l] : \E n \in marked :
            /\ n.timestamp = k.timestamp
            /\ k.isUsedByAtomicUpdate => n.isUsedByAtomicUpdate
      /\ \A n \in marked : \E k \in messages[l] :
            /\ n.timestamp = k.timestamp
            /\ n.baseView = k.baseView
            /\ n.releaseView = k.releaseView
      /\ Distinct(messages[l]) => Distinct(marked)
  <2> HIDE DEF marked
  <2> QED BY <1>6, MarkedIs DEF marked
<1>8. log = CleanedUp(marked, views, l)
  BY DEF LogAfterRead, views
<1> HIDE DEF marked, log
<1>9. /\ log \in SUBSET marked
      /\ \A n \in marked : n \in log \/ \A u \in Thread : n.timestamp < views[u][l]
  BY <1>4, <1>7, <1>8, CleanedUpIs
<1>10. logs \in Logs
  BY <1>1, <1>7, <1>9 DEF Logs
<1>11. \A k \in LogLocation : logs[k] = IF k = l THEN log ELSE messages[k]
  BY <1>1 DEF Logs
<1> HIDE DEF logs
<1>12. Thinned(messages, logs, views)
  <2> SUFFICES ASSUME NEW k \in LogLocation
               PROVE  /\ \A n \in messages[k] :
                            \/ \E o \in logs[k] :
                                  /\ o.timestamp = n.timestamp
                                  /\ n.isUsedByAtomicUpdate => o.isUsedByAtomicUpdate
                            \/ \A u \in Thread : n.timestamp < views[u][k]
                      /\ \A o \in logs[k] : \E n \in messages[k] :
                            /\ o.timestamp = n.timestamp
                            /\ o.baseView = n.baseView
                            /\ o.releaseView = n.releaseView
                      /\ Distinct(messages[k]) => Distinct(logs[k])
    BY DEF Thinned
  <2>1. CASE k # l
    BY <1>11, <2>1
  <2>2. ASSUME k = l, NEW n \in messages[l]
        PROVE  \/ \E o \in log : /\ o.timestamp = n.timestamp
                                 /\ n.isUsedByAtomicUpdate => o.isUsedByAtomicUpdate
               \/ \A u \in Thread : n.timestamp < views[u][l]
    <3>1. PICK o \in marked : /\ o.timestamp = n.timestamp
                              /\ n.isUsedByAtomicUpdate => o.isUsedByAtomicUpdate
      BY <1>7
    <3> QED BY <1>9, <3>1
  <2>3. \A o \in log : \E n \in messages[l] :
           /\ o.timestamp = n.timestamp
           /\ o.baseView = n.baseView
           /\ o.releaseView = n.releaseView
    BY <1>7, <1>9
  <2>4. Distinct(messages[l]) => Distinct(log)
    BY <1>7, <1>9 DEF Distinct
  <2> QED BY <1>11, <2>1, <2>2, <2>3, <2>4
<1>13. Reading(threadViews, messages, views, logs)
  BY <1>2, <1>4, <1>5, <1>10, <1>12 DEF Reading
<1> QED BY <1>13 DEF views, log, logs

(* A manager that reads nothing before it writes.                          *)
LEMMA NoReadIs ==
    ASSUME RAInv
    PROVE  Reading(threadViews, messages, threadViews, messages)
<1>1. threadViews \in Views /\ messages \in Logs
  BY DEF RAInv, Sound
<1> QED BY <1>1 DEF Reading, Thinned

(***************************************************************************)
(* An SC fence: every thread joins the view of one, and all logs are       *)
(* cleaned up.                                                             *)
(***************************************************************************)
LEMMA SCFenceIs ==
    ASSUME RAInv, NEW t \in Thread, SCFence(t)
    PROVE  OnlyReads
<1> DEFINE views == [u \in Thread |-> Join(threadViews[u], threadViews[t])]
           logs  == [l \in LogLocation |-> CleanedUp(messages[l], views, l)]
<1>1. /\ messages \in Logs
      /\ \A u \in Thread : threadViews[u] \in View
      /\ \A l \in LogLocation : messages[l] \in SUBSET Message
  BY DEF RAInv, Sound, Views, Logs
<1>2. \A u \in Thread : views[u] \in View
  BY <1>1, JoinIs
<1>3. views \in Views
  BY <1>2 DEF Views
<1>4. \A u \in Thread : \E view \in View :
         Known(view, threadViews, messages) /\ views[u] = Join(threadViews[u], view)
  BY <1>1 DEF Known
<1> HIDE DEF views
<1>5. \A l \in LogLocation :
         /\ logs[l] \in SUBSET messages[l]
         /\ \A m \in messages[l] :
               m \in logs[l] \/ \A u \in Thread : m.timestamp < views[u][l]
  BY <1>1, <1>3, CleanedUpIs
<1>6. logs \in Logs
  BY <1>1, <1>5 DEF Logs
<1> HIDE DEF logs
<1>7. Thinned(messages, logs, views)
  BY <1>5 DEF Thinned, Distinct
<1>8. Reading(threadViews, messages, views, logs)
  BY <1>3, <1>4, <1>6, <1>7 DEF Reading
<1>9. /\ threadViews' = views /\ messages' = logs
      /\ UNCHANGED <<model, manager, baseViews, crashed>>
  BY DEF SCFence, views, logs
<1> QED BY <1>8, <1>9 DEF OnlyReads

(* These messages of a log, between two timestamps, are not none.          *)
Offers(ms, log, first, last) ==
    /\ ms \in SUBSET log
    /\ \A m \in ms : first <= m.timestamp /\ m.timestamp <= last
    /\ Earliest(ms) \in ms /\ Latest(ms) \in ms
    /\ \A m \in ms : m.timestamp <= Latest(ms).timestamp

(***************************************************************************)
(* A thread has something to read or to write after in every log: what its *)
(* view points at, and what comes later.                                   *)
(***************************************************************************)
LEMMA AvailableIs ==
    ASSUME RAInv, NEW V, NEW t \in Thread, NEW l \in LogLocation, NEW log,
           Reading(threadViews, messages, V, [messages EXCEPT ![l] = log])
    PROVE  /\ log \in SUBSET Message /\ V \in Views
           /\ Offers(Available(log, V[t], l), log, V[t][l], MaxTime[l])
<1> DEFINE ms == Available(log, V[t], l)
<1>1. Sound(V, baseViews, [messages EXCEPT ![l] = log])
  BY ReadingKeepsSound DEF RAInv
<1>2. /\ messages \in Logs /\ V \in Views
      /\ [messages EXCEPT ![l] = log][l] = log
      /\ log \in SUBSET Message
  BY <1>1 DEF RAInv, Sound, Logs
<1>3. /\ ms \in SUBSET log
      /\ \A m \in ms : V[t][l] <= m.timestamp /\ m.timestamp <= MaxTime[l]
  BY <1>1, <1>2 DEF Available, Sound
<1>4. V[t][l] \in Nat /\ MaxTime[l] \in Nat
  BY <1>2, RAAssumption DEF Views, View
<1>5. ms # {}
  <2>1. \E m \in log : m.timestamp = V[t][l]
    BY <1>1, <1>2, <1>4 DEF Sound, Reached
  <2> QED BY <1>4, <2>1 DEF Available
<1> HIDE DEF ms
<1>6. Earliest(ms) \in ms
  BY <1>2, <1>3, <1>5, EarliestIs
<1>7. Latest(ms) \in ms /\ \A m \in ms : m.timestamp <= Latest(ms).timestamp
  BY <1>2, <1>3, <1>4, <1>5, LatestIs
<1> QED BY <1>2, <1>3, <1>6, <1>7 DEF ms, Offers

(***************************************************************************)
(* write: whichever timestamp it gets, its thread's view has not reached   *)
(* it, because the message it goes after can be read by the thread, and no *)
(* other message has it.                                                   *)
(***************************************************************************)
LEMMA WriteIs ==
    ASSUME RAInv, NEW V, NEW t \in Thread, NEW l \in LogLocation, NEW log,
           Reading(threadViews, messages, V, [messages EXCEPT ![l] = log]),
           NEW v \in Int32, NEW useMinTimestamp \in BOOLEAN, NEW release,
           Write(t, l, v, useMinTimestamp, release, log, V)
    PROVE  Abort \/ (Adds(t, l, release) /\ Puts(t, l, release, V, log))
<1> DEFINE ms == Available(log, V[t], l)
<1>1. /\ log \in SUBSET Message /\ V \in Views /\ ms \in SUBSET log
      /\ \A m \in ms : V[t][l] <= m.timestamp /\ m.timestamp <= MaxTime[l]
      /\ Earliest(ms) \in ms /\ Latest(ms) \in ms
      /\ \A m \in ms : m.timestamp <= Latest(ms).timestamp
  BY AvailableIs DEF Offers
<1>2. ms \in SUBSET Message
  BY <1>1
<1>3. V[t][l] \in Nat /\ MaxTime[l] \in Nat
  BY <1>1, RAAssumption DEF Views, View
<1>4. \A b \in Bases(ms, useMinTimestamp) : b \in ms
  BY <1>1 DEF Bases, Unused
<1> DEFINE New(time) == /\ time \in Nat /\ V[t][l] < time
                        /\ \A m \in ms : m.timestamp # time
                        /\ model = "SRA" => \A m \in ms : m.timestamp + Scale <= time
<1>5. \A b \in Bases(ms, useMinTimestamp) :
         ~Exhausted(ms, b) => New(TimestampAfter(ms, b))
  <2> SUFFICES ASSUME NEW b \in Bases(ms, useMinTimestamp), ~Exhausted(ms, b)
               PROVE  New(TimestampAfter(ms, b))
    OBVIOUS
  <2>1. b \in ms /\ b.timestamp \in Nat /\ V[t][l] <= b.timestamp
    BY <1>1, <1>2, <1>4 DEF Message
  <2>2. model = "SRA" => \A m \in ms : m.timestamp + Scale <= TimestampAfter(ms, b)
    <3> SUFFICES ASSUME model = "SRA", NEW m \in ms
                 PROVE  m.timestamp + Scale <= TimestampAfter(ms, b)
      OBVIOUS
    <3>1. \A n \in ms : n.timestamp \in Nat /\ n.timestamp <= b.timestamp
      BY <1>1, <1>2 DEF Bases, Message
    <3> HIDE DEF ms
    <3>2. Later(ms, b) = {}
      BY <2>1, <3>1 DEF Later
    <3>3. TimestampAfter(ms, b) = b.timestamp + Scale
      BY <3>2 DEF TimestampAfter
    <3> QED BY <2>1, <3>1, <3>3, RAAssumption
  <2> HIDE DEF ms
  <2>3. /\ TimestampAfter(ms, b) \in Nat
        /\ b.timestamp < TimestampAfter(ms, b)
        /\ \A m \in ms : m.timestamp # TimestampAfter(ms, b)
    BY <1>2, <2>1, TimestampIsNew
  <2> QED BY <1>3, <2>1, <2>2, <2>3
<1>6. ASSUME model = "RA", NEW time \in Enterable(ms, l)
      PROVE  New(time)
  <2>1. time \in Nat
    BY <1>3 DEF Enterable
  <2>2. PICK m \in ms : m.timestamp < time
    BY DEF Enterable
  <2>3. m.timestamp \in Nat /\ V[t][l] <= m.timestamp
    BY <1>1, <1>2 DEF Message
  <2>4. \A n \in ms : n.timestamp # time
    BY DEF Enterable
  <2> QED BY <1>3, <1>6, <2>1, <2>2, <2>3, <2>4
<1>7. ASSUME NEW time, New(time), time <= MaxTime[l],
              Push(t, l, v, time, release, log, V)
       PROVE  Adds(t, l, release) /\ Puts(t, l, release, V, log)
  <2>1. ASSUME NEW m \in log PROVE m.timestamp # time
    <3>1. m.timestamp \in Nat
      BY <1>1 DEF Message
    <3>2. CASE V[t][l] <= m.timestamp
      BY <1>7, <3>2 DEF Available
    <3>3. CASE ~(V[t][l] <= m.timestamp)
      BY <1>3, <1>7, <3>1, <3>3
    <3> QED BY <3>2, <3>3
  <2>2. ASSUME model = "SRA", NEW m \in log PROVE m.timestamp + Scale <= time
    <3>1. m.timestamp \in Nat
      BY <1>1 DEF Message
    <3>2. CASE V[t][l] <= m.timestamp
      BY <1>7, <2>2, <3>2 DEF Available
    <3>3. CASE ~(V[t][l] <= m.timestamp)
      <4>1. PICK n \in ms : TRUE
        BY <1>1
      <4>2. n.timestamp \in Nat /\ V[t][l] <= n.timestamp /\ n.timestamp + Scale <= time
        BY <1>1, <1>2, <1>7, <2>2 DEF Message
      <4> HIDE DEF ms
      <4> QED BY <1>3, <1>7, <3>1, <3>3, <4>2, RAAssumption
    <3> QED BY <3>2, <3>3
  <2> HIDE DEF ms
  <2>3. Puts(t, l, release, V, log)
    BY <1>7, <2>1, <2>2 DEF Puts
  <2> QED BY <1>1, <2>3 DEF Adds
<1> HIDE DEF New
<1> QED BY <1>5, <1>6, <1>7 DEF Write, ms
-----------------------------------------------------------------------------
(***************************************************************************)
(* read alone, and read followed by write.                                 *)
(***************************************************************************)
LEMMA ReadStep ==
    ASSUME RAInv, NEW t \in Thread, NEW l \in LogLocation, NEW m \in messages[l],
           NEW acquire \in BOOLEAN, NEW marks \in BOOLEAN,
           Read(t, l, m, acquire, marks)
    PROVE  OnlyReads
  BY ReadIs DEF Read, OnlyReads

LEMMA UpdateStep ==
    ASSUME RAInv, NEW t \in Thread, NEW l \in LogLocation, NEW m \in messages[l],
           NEW mode, NEW marks \in BOOLEAN, NEW v \in Int32,
           Update(t, l, v, mode, m, marks)
    PROVE  Abort \/ Adds(t, l, isRelease(mode))
<1>1. isAcquire(mode) \in BOOLEAN
  BY DEF isAcquire
<1>2. Reading(threadViews, messages, ViewsAfterRead(t, m, isAcquire(mode)),
              [messages EXCEPT ![l] = LogAfterRead(t, l, m, isAcquire(mode), marks)])
  BY <1>1, ReadIs
<1> QED BY <1>2, WriteIs DEF Update

LEMMA WriteStep ==
    ASSUME RAInv, NEW t \in Thread, NEW l \in LogLocation, NEW mode,
           NEW useMinTimestamp \in BOOLEAN, NEW v \in Int32,
           Write(t, l, v, useMinTimestamp, isRelease(mode), messages[l], threadViews)
    PROVE  Abort \/ Adds(t, l, isRelease(mode))
<1>1. [messages EXCEPT ![l] = messages[l]] = messages
  BY DEF RAInv, Sound, Logs
<1> QED BY <1>1, NoReadIs, WriteIs

LEMMA Constants ==
    /\ Address \subseteq LogLocation /\ FenceLocation \in LogLocation
    /\ 0 \in Int32 /\ Value \subseteq Int32
  BY RAAssumption, StorageAssumption, IntAssumption
     DEF FenceLocation, LogLocation, Int32, MinInt

LEMMA LoadStep ==
    ASSUME RAInv, NEW t \in Thread, NEW a \in Address, NEW mode,
           NEW m \in messages[a], Load(t, a, mode, m)
    PROVE  OnlyReads
<1>1. isAcquire(mode) \in BOOLEAN
  BY DEF isAcquire
<1> QED BY <1>1, Constants, ReadStep DEF Load

LEMMA StoreStep ==
    ASSUME RAInv, NEW t \in Thread, NEW a \in Address, NEW mode,
           NEW v \in Value, Store(t, a, v, mode)
    PROVE  Abort \/ Adds(t, a, isRelease(mode))
  BY Constants, WriteStep DEF Store

LEMMA CompareAndSwapStep ==
    ASSUME RAInv, NEW t \in Thread, NEW a \in Address, NEW mode, NEW m \in messages[a],
           NEW expected, NEW new \in Value,
           CompareAndSwap(t, a, expected, new, mode, m)
    PROVE  /\ m.value = expected => Abort \/ Adds(t, a, isRelease(mode))
           /\ m.value # expected => OnlyReads
<1>1. isAcquire(mode) \in BOOLEAN
  BY DEF isAcquire
<1>2. m.value = expected => Update(t, a, new, mode, m, TRUE)
  BY DEF CompareAndSwap
<1>3. m.value # expected => Read(t, a, m, isAcquire(mode), TRUE)
  BY DEF CompareAndSwap
<1> QED BY <1>1, <1>2, <1>3, Constants, ReadStep, UpdateStep

LEMMA SumType ==
    ASSUME RAInv, NEW a \in LogLocation, NEW m \in messages[a], NEW increment \in Increment
    PROVE  Plus32(m.value, increment) \in Int32
<1>1. m.value \in Int32 /\ increment \in Int32
  BY StorageAssumption DEF RAInv, Sound, Logs, Message
<1>2. m.value + increment \in Int
  BY <1>1, IntAssumption DEF Int32, MinInt
<1> QED BY <1>2, IntAssumption DEF Plus32, Wrap, Int32, MinInt

LEMMA FetchAndIncrementStep ==
    ASSUME RAInv, NEW t \in Thread, NEW a \in Address, NEW mode, NEW m \in messages[a],
           NEW increment \in Increment, FetchAndIncrement(t, a, increment, mode, m)
    PROVE  Abort \/ Adds(t, a, isRelease(mode))
  BY Constants, SumType, UpdateStep DEF FetchAndIncrement

LEMMA AcquireFenceStep ==
    ASSUME RAInv, NEW t \in Thread, NEW mode, NEW m \in messages[FenceLocation],
           AcquireFence(t, mode, m)
    PROVE  Abort \/ Adds(t, FenceLocation, isRelease(mode))
<1>1. isRelease(mode) \in BOOLEAN
  BY DEF isRelease
<1> QED BY <1>1, Constants, UpdateStep DEF AcquireFence

LEMMA ReleaseFenceStep ==
    ASSUME RAInv, NEW t \in Thread, NEW mode, ReleaseFence(t, mode)
    PROVE  Abort \/ Adds(t, FenceLocation, isRelease(mode))
  BY Constants, WriteStep DEF ReleaseFence

(***************************************************************************)
(* Every step of the manager ends the process, only reads, or adds one     *)
(* message.                                                                *)
(***************************************************************************)
LEMMA NextIs ==
    ASSUME RAInv, Next
    PROVE  \/ Abort
           \/ OnlyReads
           \/ \E t \in Thread, l \in LogLocation, release \in BOOLEAN : Adds(t, l, release)
<1> DEFINE Goal == \/ Abort
                   \/ OnlyReads
                   \/ \E t \in Thread, l \in LogLocation, release \in BOOLEAN :
                         Adds(t, l, release)
<1>1. ASSUME NEW t \in Thread, NEW l \in LogLocation, NEW mode,
             Abort \/ Adds(t, l, isRelease(mode))
      PROVE  Goal
  <2>1. isRelease(mode) \in BOOLEAN
    BY DEF isRelease
  <2> QED BY <1>1, <2>1
<1>2. Abort \/ OnlyReads => Goal
  OBVIOUS
<1> HIDE DEF Goal
<1> USE Constants
<1>3. \A t \in Thread, a \in Address, mode \in AccessModes : \A m \in messages[a] :
         Load(t, a, mode, m) => Goal
  BY <1>2, LoadStep
<1>4. \A t \in Thread, a \in Address, mode \in AccessModes : \A m \in messages[a] :
         \A expected, new \in Value :
             CompareAndSwap(t, a, expected, new, mode, m) => Goal
  BY <1>1, <1>2, CompareAndSwapStep
<1>5. \A t \in Thread, a \in Address, mode \in AccessModes : \A m \in messages[a] :
         \A increment \in Increment : FetchAndIncrement(t, a, increment, mode, m) => Goal
  BY <1>1, FetchAndIncrementStep
<1>6. \A t \in Thread, a \in Address, mode \in AccessModes : \A v \in Value :
         Store(t, a, v, mode) => Goal
  BY <1>1, StoreStep
<1>7. \A t \in Thread, l \in LogLocation : NothingToUpdate(t, l) => Goal
  BY <1>2 DEF NothingToUpdate
<1>8. \A t \in Thread : SCFence(t) => Goal
  BY <1>2, SCFenceIs
<1>9. \A t \in Thread, mode \in FenceModes : \A m \in messages[FenceLocation] :
         AcquireFence(t, mode, m) => Goal
  BY <1>1, AcquireFenceStep
<1>10. \A t \in Thread, mode \in FenceModes : ReleaseFence(t, mode) => Goal
  BY <1>1, ReleaseFenceStep
<1>11. Goal
  BY <1>3, <1>4, <1>5, <1>6, <1>7, <1>8, <1>9, <1>10 DEF Next
<1> QED BY <1>11 DEF Goal
-----------------------------------------------------------------------------
(***************************************************************************)
(* A message that has been put into a log is not used, and its timestamp   *)
(* is where its thread's view has gone.                                    *)
(***************************************************************************)
IsPut(t, l, views, log, time, message) ==
    /\ views[t][l] < time
    /\ \A m \in log : m.timestamp # time
    /\ model = "SRA" => \A m \in log : m.timestamp + Scale <= time
    /\ message.timestamp = time /\ ~message.isUsedByAtomicUpdate
    /\ \A k \in LogLocation :
          messages'[k] = IF k = l THEN log \cup {message} ELSE messages[k]
    /\ \A u \in Thread, k \in LogLocation :
          threadViews'[u][k] = IF u = t /\ k = l THEN time ELSE views[u][k]
    /\ UNCHANGED <<model, crashed>>

LEMMA PutsIs ==
    ASSUME messages \in Logs, NEW t \in Thread, NEW l \in LogLocation, NEW release,
           NEW V \in Views, NEW log \in SUBSET Message, Puts(t, l, release, V, log)
    PROVE  \E time \in Nat : \E message : IsPut(t, l, V, log, time, message)
<1>1. PICK time \in Nat, v \in Int32 :
         /\ V[t][l] < time
         /\ \A m \in log : m.timestamp # time
         /\ model = "SRA" => \A m \in log : m.timestamp + Scale <= time
         /\ Push(t, l, v, time, release, log, V)
  BY DEF Puts
<1> DEFINE view == [V[t] EXCEPT ![l] = time]
           base == BaseViewAfter(t, l, view, release)
           message == [timestamp |-> time, value |-> v, baseView |-> base,
                       releaseView |-> ReleaseView(view, base, release),
                       isUsedByAtomicUpdate |-> FALSE]
<1>2. /\ threadViews' = [V EXCEPT ![t] = view]
      /\ messages' = [messages EXCEPT ![l] = log \cup {message}]
      /\ UNCHANGED <<model, crashed>>
  BY <1>1 DEF Push
<1>3. \A u \in Thread, k \in LogLocation :
         threadViews'[u][k] = IF u = t /\ k = l THEN time ELSE V[u][k]
  BY <1>2 DEF Views, View
<1>4. message.timestamp = time /\ ~message.isUsedByAtomicUpdate
  OBVIOUS
<1> HIDE DEF view, base, message
<1>5. \A k \in LogLocation :
         messages'[k] = IF k = l THEN log \cup {message} ELSE messages[k]
  BY <1>2 DEF Logs
<1> QED BY <1>1, <1>2, <1>3, <1>4, <1>5 DEF IsPut

(***************************************************************************)
(* The second half of write: thread t adds a message to a log that it has  *)
(* read from before, with a timestamp that its view has not passed.        *)
(***************************************************************************)
LEMMA PushKeepsSound ==
    ASSUME NEW V, NEW t \in Thread, NEW l \in LogLocation, NEW log,
           messages \in Logs, Sound(V, baseViews, [messages EXCEPT ![l] = log]),
           NEW v \in Int32, NEW release \in BOOLEAN,
           NEW time \in Nat, V[t][l] <= time, time <= MaxTime[l],
           Push(t, l, v, time, release, log, V)
    PROVE  /\ Sound(threadViews', baseViews', messages')
           /\ \A u \in Thread : Below(V[u], threadViews'[u])
<1> DEFINE view == [V[t] EXCEPT ![l] = time]
           base == IF release /\ l = FenceLocation THEN view ELSE baseViews[t]
           message == [timestamp |-> time, value |-> v, baseView |-> base,
                       releaseView |-> IF release THEN view ELSE base,
                       isUsedByAtomicUpdate |-> FALSE]
           M == [messages EXCEPT ![l] = log]
<1>1. V \in Views /\ baseViews \in Views /\ M \in Logs
  BY DEF Sound
<1>2. view \in View /\ base \in View
  BY <1>1 DEF View, Views
<1>3. message \in Message
  <2> HIDE DEF view, base
  <2> QED BY <1>2 DEF Message
<1>4. /\ threadViews' = [V EXCEPT ![t] = view]
      /\ baseViews' = [baseViews EXCEPT ![t] = base]
      /\ messages' = [messages EXCEPT ![l] = log \cup {message}]
  BY DEF Push, BaseViewAfter, ReleaseView
<1>5. \A k \in LogLocation : /\ M[k] \in SUBSET Message
                             /\ messages'[k] = IF k = l THEN M[k] \cup {message} ELSE M[k]
  BY <1>1, <1>4 DEF Logs
<1>6. /\ threadViews' \in Views /\ baseViews' \in Views /\ messages' \in Logs
  <2> HIDE DEF view, base, message, M
  <2>1. M[l] = log
    BY DEF M, Logs
  <2> QED BY <1>1, <1>2, <1>3, <1>4, <1>5, <2>1 DEF Views, Logs
<1>7. \A u \in Thread : Below(V[u], threadViews'[u])
  BY <1>1, <1>4 DEF Below, Views, View
<1> HIDE DEF M
<1>8. \A w \in View : Reached(w, V, M) => Reached(w, threadViews', messages')
  <2> HIDE DEF message
  <2>1. \A k \in LogLocation : \A m \in M[k] : m \in messages'[k]
    BY <1>5
  <2> QED BY <1>1, <1>6, <1>7, <2>1, ReachedStays
<1>9. Reached(view, threadViews', messages')
  <2>1. /\ V[t] \in View /\ Reached(V[t], V, M)
    BY <1>1 DEF Views, Sound, M
  <2>2. Reached(V[t], threadViews', messages')
    BY <1>8, <2>1
  <2>3. message \in messages'[l] /\ message.timestamp = view[l]
    BY <1>5, <2>1 DEF View
  <2>4. \A k \in LogLocation : k # l => view[k] = V[t][k]
    BY <2>1 DEF View
  <2> HIDE DEF message, view
  <2> QED BY <2>2, <2>3, <2>4 DEF Reached
<1>10. \A u \in Thread : /\ baseViews[u] \in View /\ Reached(baseViews[u], V, M)
                         /\ V[u] \in View /\ Reached(V[u], V, M)
  BY <1>1 DEF Sound, Views, M
<1>11. Reached(base, threadViews', messages')
  <2> HIDE DEF view
  <2> QED BY <1>8, <1>9, <1>10
<1>12. \A u \in Thread : /\ Reached(threadViews'[u], threadViews', messages')
                         /\ Reached(baseViews'[u], threadViews', messages')
  <2> HIDE DEF view, base
  <2> SUFFICES ASSUME NEW u \in Thread
               PROVE  /\ Reached(threadViews'[u], threadViews', messages')
                      /\ Reached(baseViews'[u], threadViews', messages')
    OBVIOUS
  <2>1. CASE u = t
    <3>1. threadViews'[u] = view /\ baseViews'[u] = base
      BY <1>1, <1>4, <2>1 DEF Views
    <3> QED BY <1>9, <1>11, <3>1
  <2>2. CASE u # t
    <3>1. threadViews'[u] = V[u] /\ baseViews'[u] = baseViews[u]
      BY <1>1, <1>4, <2>2 DEF Views
    <3> QED BY <1>8, <1>10, <3>1
  <2> QED BY <2>1, <2>2
<1>13. \A k \in LogLocation : \A m \in messages'[k] :
          /\ m.timestamp <= MaxTime[k]
          /\ Reached(m.baseView, threadViews', messages')
          /\ Reached(m.releaseView, threadViews', messages')
  <2> SUFFICES ASSUME NEW k \in LogLocation, NEW m \in messages'[k]
               PROVE  /\ m.timestamp <= MaxTime[k]
                      /\ Reached(m.baseView, threadViews', messages')
                      /\ Reached(m.releaseView, threadViews', messages')
    OBVIOUS
  <2>1. CASE m \in M[k]
    <3>1. /\ m.timestamp <= MaxTime[k]
          /\ m.baseView \in View /\ Reached(m.baseView, V, M)
          /\ m.releaseView \in View /\ Reached(m.releaseView, V, M)
      BY <1>5, <2>1 DEF Sound, Message, M
    <3> QED BY <1>8, <3>1
  <2>2. CASE k = l /\ m = message
    <3>1. /\ m.timestamp = time /\ m.baseView = base
          /\ m.releaseView = view \/ m.releaseView = base
      BY <2>2
    <3> HIDE DEF view, base, message
    <3> QED BY <1>9, <1>11, <2>2, <3>1
  <2> QED BY <1>5, <2>1, <2>2
<1> QED BY <1>6, <1>7, <1>12, <1>13 DEF Sound
-----------------------------------------------------------------------------
LEMMA RAInit == Init => RAInv
<1> SUFFICES ASSUME Init PROVE RAInv
  OBVIOUS
<1>1. ZeroView \in View /\ 0 \in Int32
  BY IntAssumption DEF ZeroView, View, Int32, MinInt
<1>2. InitialMessage \in Message
  BY <1>1 DEF InitialMessage, Message
<1>3. threadViews \in Views /\ baseViews \in Views /\ messages \in Logs
  BY <1>1, <1>2 DEF Init, Views, Logs
<1>4. Reached(ZeroView, threadViews, messages)
  BY DEF Init, Reached, ZeroView, InitialMessage
<1>5. \A l \in LogLocation : \A m \in messages[l] :
         /\ m.timestamp <= MaxTime[l]
         /\ Reached(m.baseView, threadViews, messages)
         /\ Reached(m.releaseView, threadViews, messages)
  BY <1>4, RAAssumption DEF Init, InitialMessage
<1>6. \A t \in Thread : /\ Reached(threadViews[t], threadViews, messages)
                        /\ Reached(baseViews[t], threadViews, messages)
  BY <1>4 DEF Init
<1>7. Spaced(messages)
  BY DEF Init, Spaced, InitialMessage
<1> QED BY <1>3, <1>5, <1>6, <1>7 DEF Init, RAInv, Sound

(***************************************************************************)
(* Every step of the manager keeps the invariant, and no view loses a      *)
(* timestamp.                                                              *)
(***************************************************************************)
LEMMA ReadingKeepsSpaced ==
    ASSUME NEW V, NEW M, NEW W, NEW N, Reading(V, M, W, N), Spaced(M)
    PROVE  Spaced(N)
  BY DEF Reading, Thinned, Spaced

LEMMA ReadingStep ==
    ASSUME RAInv, OnlyReads
    PROVE  /\ RAInv'
           /\ \A u \in Thread : Below(threadViews[u], threadViews'[u])
<1>1. /\ Sound(threadViews', baseViews, messages')
      /\ \A u \in Thread : Below(threadViews[u], threadViews'[u])
  BY ReadingKeepsSound DEF RAInv, OnlyReads
<1>2. Spaced(messages) => Spaced(messages')
  BY ReadingKeepsSpaced DEF OnlyReads
<1> QED BY <1>1, <1>2 DEF RAInv, OnlyReads

LEMMA AddingStep ==
    ASSUME RAInv, NEW t \in Thread, NEW l \in LogLocation, NEW release \in BOOLEAN,
           Adds(t, l, release)
    PROVE  /\ RAInv'
           /\ \A u \in Thread : Below(threadViews[u], threadViews'[u])
<1>1. PICK V \in Views, log \in SUBSET Message, time \in Nat, v \in Int32 :
         /\ Reading(threadViews, messages, V, [messages EXCEPT ![l] = log])
         /\ V[t][l] < time /\ time <= MaxTime[l]
         /\ \A m \in log : m.timestamp # time
         /\ model = "SRA" => \A m \in log : m.timestamp + Scale <= time
         /\ Push(t, l, v, time, release, log, V)
  BY DEF Adds, Puts
<1>2. /\ Sound(V, baseViews, [messages EXCEPT ![l] = log])
      /\ \A u \in Thread : Below(threadViews[u], V[u])
  BY <1>1, ReadingKeepsSound DEF RAInv
<1>3. messages \in Logs /\ threadViews \in Views /\ V[t][l] \in Nat
  BY DEF RAInv, Sound, Views, View
<1>4. /\ Sound(threadViews', baseViews', messages')
      /\ \A u \in Thread : Below(V[u], threadViews'[u])
  <2>1. V[t][l] <= time
    BY <1>1, <1>3
  <2> QED BY <1>1, <1>2, <1>3, <2>1, PushKeepsSound
<1>5. RAInv'
  <2>1. ASSUME model = "SRA" PROVE Spaced(messages')
    <3> DEFINE M == [messages EXCEPT ![l] = log]
    <3>1. Spaced(M)
      BY <1>1, <2>1, ReadingKeepsSpaced DEF RAInv
    <3>2. M[l] = log /\ \A m \in log : m.timestamp \in Nat
      BY <1>3 DEF Logs, Message
    <3>3. \A k \in LogLocation : \A m \in messages'[k] :
             m \in M[k] \/ (k = l /\ m.timestamp = time)
      BY <1>1, <1>3 DEF Push, Logs
    <3> HIDE DEF M
    <3> SUFFICES ASSUME NEW k \in LogLocation, NEW m \in messages'[k],
                        NEW n \in messages'[k], m.timestamp < n.timestamp
                 PROVE  m.timestamp + Scale <= n.timestamp
      BY DEF Spaced
    <3>4. CASE m \in M[k] /\ n \in M[k]
      BY <3>1, <3>4 DEF Spaced
    <3>5. CASE k = l /\ m \in M[k] /\ n.timestamp = time
      BY <1>1, <2>1, <3>2, <3>5
    <3>6. CASE k = l /\ m.timestamp = time /\ n \in M[k]
      BY <1>1, <2>1, <3>2, <3>6, RAAssumption
    <3> QED BY <3>3, <3>4, <3>5, <3>6
  <2> QED BY <1>1, <1>4, <2>1 DEF RAInv, Push
<1>6. ASSUME NEW u \in Thread, NEW k \in LogLocation
      PROVE  threadViews[u][k] <= threadViews'[u][k]
  <2>1. /\ threadViews[u][k] \in Nat
        /\ V[u][k] \in Nat
        /\ threadViews'[u][k] \in Nat
    BY <1>3, <1>4 DEF Sound, Views, View
  <2>2. threadViews[u][k] <= V[u][k] /\ V[u][k] <= threadViews'[u][k]
    BY <1>2, <1>4 DEF Below
  <2> QED BY <2>1, <2>2
<1> QED BY <1>5, <1>6 DEF Below

LEMMA IdleStep ==
    ASSUME RAInv, UNCHANGED vars \/ Abort
    PROVE  /\ RAInv'
           /\ \A u \in Thread : Below(threadViews[u], threadViews'[u])
<1>1. UNCHANGED <<messages, threadViews, baseViews>>
  BY DEF vars, Abort
<1>2. model' \in Models /\ manager' \in Managers /\ crashed' \in BOOLEAN
  BY DEF RAInv, vars, Abort
<1>3. Sound(threadViews, baseViews, messages)'
  BY <1>1 DEF RAInv, Sound
<1>4. \A u \in Thread, l \in LogLocation : threadViews[u][l] \in Nat
  BY DEF RAInv, Sound, Views, View
<1>5. model' = model
  BY DEF vars, Abort
<1> QED BY <1>1, <1>2, <1>3, <1>4, <1>5 DEF RAInv, Below

LEMMA RAStep ==
    ASSUME RAInv, [Next]_vars
    PROVE  /\ RAInv'
           /\ \A u \in Thread : Below(threadViews[u], threadViews'[u])
<1>1. CASE UNCHANGED vars
  BY <1>1, IdleStep
<1>2. CASE Next
  BY <1>2, NextIs, IdleStep, ReadingStep, AddingStep
<1> QED BY <1>1, <1>2

(***************************************************************************)
(* RAInv is inductive, in both models, with both update managers and for   *)
(* any modes, threads and locations.                                       *)
(***************************************************************************)
THEOREM ViewsAreSound == Spec => []RAInv
<1>1. RAInv /\ [Next]_vars => RAInv'
  BY RAStep
<1> QED BY <1>1, RAInit, PTL DEF Spec

(* Views, base views and logs are what their types say.                    *)
THEOREM TypeCorrect == Spec => []TypeOK
<1>1. RAInv => TypeOK
  BY DEF RAInv, Sound, Views, Logs, TypeOK
<1> QED BY <1>1, ViewsAreSound, PTL

(***************************************************************************)
(* cleanUpHistory never discards a message that a thread's view points at, *)
(* and no view ever points at a message that is gone, so that there is     *)
(* always something to read and to write after.                            *)
(***************************************************************************)
THEOREM ViewsPoint == Spec => []ViewsPointAtMessages
<1>1. RAInv => ViewsPointAtMessages
  <2> SUFFICES ASSUME RAInv, NEW t \in Thread, NEW l \in LogLocation
               PROVE  \E m \in messages[l] : m.timestamp = threadViews[t][l]
    BY DEF ViewsPointAtMessages
  <2>1. threadViews[t][l] \in Nat /\ Reached(threadViews[t], threadViews, messages)
    BY DEF RAInv, Sound, Views, View
  <2> QED BY <2>1 DEF Reached
<1> QED BY <1>1, ViewsAreSound, PTL

(***************************************************************************)
(* No operation of any thread takes a timestamp from a view, although      *)
(* write assigns to the view of its thread: what it assigns is never       *)
(* older.                                                                  *)
(***************************************************************************)
THEOREM ViewsGrow == Spec => ViewsOnlyGrow
<1> DEFINE Step == \A t \in Thread : Below(threadViews[t], threadViews'[t])
<1>1. RAInv /\ [Next]_vars => [Step]_vars
  BY RAStep
<1>2. Spec => [][Step]_vars
  <2> HIDE DEF Step
  <2> QED BY <1>1, ViewsAreSound, PTL DEF Spec
<1> QED BY <1>2 DEF ViewsOnlyGrow
-----------------------------------------------------------------------------
(* Timestamps, each with the view that belongs to whoever has it in view.  *)
Effects == [LogLocation -> SUBSET (Nat \X View)]

(* A view that is at one of these timestamps has what belongs to it.       *)
Closed(view, effects) ==
    \A l \in LogLocation : \A effect \in effects[l] :
        effect[1] = view[l] => Below(effect[2], view)

(***************************************************************************)
(* The views of all threads are closed, and so is every view that anybody  *)
(* may still take; and no effect lies in the future, where a write could   *)
(* hit upon its timestamp.                                                 *)
(***************************************************************************)
Causal(views, bases, logs, effects) ==
    /\ effects \in Effects
    /\ \A l \in LogLocation : \A effect \in effects[l] :
          \/ \E m \in logs[l] : m.timestamp = effect[1]
          \/ \A t \in Thread : effect[1] < views[t][l]
    /\ \A l \in LogLocation : \A m \in logs[l] :
          Closed(m.baseView, effects) /\ Closed(m.releaseView, effects)
    /\ \A t \in Thread :
          /\ Closed(views[t], effects)
          /\ Closed(bases[t], effects)
          /\ Below(bases[t], views[t])
LEMMA BelowTransitive ==
    ASSUME NEW u \in View, NEW v \in View, NEW w \in View, Below(u, v), Below(v, w)
    PROVE  Below(u, w)
<1> SUFFICES ASSUME NEW l \in LogLocation PROVE u[l] <= w[l]
  BY DEF Below
<1>1. u[l] \in Nat /\ v[l] \in Nat /\ w[l] \in Nat
  BY DEF View
<1>2. u[l] <= v[l] /\ v[l] <= w[l]
  BY DEF Below
<1> QED BY <1>1, <1>2

LEMMA JoinClosed ==
    ASSUME NEW effects \in Effects, NEW v \in View, NEW w \in View,
           Closed(v, effects), Closed(w, effects)
    PROVE  Closed(Join(v, w), effects)
<1> SUFFICES ASSUME NEW l \in LogLocation, NEW effect \in effects[l],
                    effect[1] = Join(v, w)[l]
             PROVE  Below(effect[2], Join(v, w))
  BY DEF Closed
<1>1. effect[2] \in View
  BY DEF Effects
<1>2. /\ Join(v, w) \in View
      /\ Below(v, Join(v, w)) /\ Below(w, Join(v, w))
      /\ Join(v, w)[l] \in {v[l], w[l]}
  BY JoinIs
<1>3. Below(effect[2], v) \/ Below(effect[2], w)
  BY <1>2 DEF Closed
<1> QED BY <1>1, <1>2, <1>3, BelowTransitive

(***************************************************************************)
(* Reading keeps all views closed; effects may be forgotten.               *)
(***************************************************************************)
LEMMA ReadingKeepsCausal ==
    ASSUME NEW V, NEW B, NEW M, NEW W, NEW N, NEW E,
           Sound(V, B, M), Reading(V, M, W, N), Causal(V, B, M, E),
           NEW F \in Effects, \A l \in LogLocation : F[l] \subseteq E[l]
    PROVE  Causal(W, B, N, F)
<1>1. /\ V \in Views /\ B \in Views /\ M \in Logs
      /\ W \in Views /\ N \in Logs /\ E \in Effects
  BY DEF Sound, Reading, Causal
<1>2. \A t \in Thread : Below(V[t], W[t])
  BY ReadingKeepsSound
<1>3. \A view : Closed(view, E) => Closed(view, F)
  BY DEF Closed
<1>4. \A view \in View : Known(view, V, M) => Closed(view, E)
  BY DEF Known, Causal
<1>5. ASSUME NEW t \in Thread PROVE Closed(W[t], E)
  <2>1. V[t] \in View /\ Closed(V[t], E)
    BY <1>1 DEF Views, Causal
  <2>2. \A view \in View : Known(view, V, M) => Closed(Join(V[t], view), E)
    BY <1>1, <1>4, <2>1, JoinClosed
  <2> QED BY <2>1, <2>2 DEF Reading
<1>6. ASSUME NEW l \in LogLocation, NEW effect \in F[l]
      PROVE  \/ \E n \in N[l] : n.timestamp = effect[1]
             \/ \A t \in Thread : effect[1] < W[t][l]
  <2>1. \/ \E m \in M[l] : m.timestamp = effect[1]
        \/ \A t \in Thread : effect[1] < V[t][l]
    BY DEF Causal
  <2>2. CASE \E m \in M[l] : m.timestamp = effect[1]
    BY <2>2 DEF Reading, Thinned
  <2>3. CASE \A t \in Thread : effect[1] < V[t][l]
    <3>1. ASSUME NEW t \in Thread PROVE effect[1] < W[t][l]
      <4>1. effect[1] \in Nat /\ V[t][l] \in Nat /\ W[t][l] \in Nat
        BY <1>1 DEF Effects, Views, View
      <4>2. V[t][l] <= W[t][l]
        BY <1>2 DEF Below
      <4> QED BY <2>3, <4>1, <4>2
    <3> QED BY <3>1
  <2> QED BY <2>1, <2>2, <2>3
<1>7. \A l \in LogLocation : \A n \in N[l] :
         Closed(n.baseView, E) /\ Closed(n.releaseView, E)
  BY DEF Reading, Thinned, Causal
<1>8. ASSUME NEW t \in Thread PROVE Below(B[t], W[t])
  <2>1. B[t] \in View /\ V[t] \in View /\ W[t] \in View
    BY <1>1 DEF Views
  <2>2. Below(B[t], V[t])
    BY DEF Causal
  <2> QED BY <1>2, <2>1, <2>2, BelowTransitive
<1>9. \A t \in Thread : Closed(B[t], E)
  BY DEF Causal
<1> QED BY <1>3, <1>5, <1>6, <1>7, <1>8, <1>9 DEF Causal

(***************************************************************************)
(* The second half of write keeps them closed too, because no view that is *)
(* around has come to the timestamp of the new message.                    *)
(***************************************************************************)
LEMMA PushKeepsCausal ==
    ASSUME NEW V, NEW t \in Thread, NEW l \in LogLocation, NEW log, NEW E,
           messages \in Logs, Sound(V, baseViews, [messages EXCEPT ![l] = log]),
           Causal(V, baseViews, [messages EXCEPT ![l] = log], E),
           NEW v \in Int32, NEW release \in BOOLEAN,
           NEW time \in Nat, V[t][l] < time, \A m \in log : m.timestamp # time,
           Push(t, l, v, time, release, log, V),
           NEW F \in Effects,
           \A k \in LogLocation : \A effect \in F[k] :
              \/ effect \in E[k]
              \/ /\ k = l
                 /\ effect[1] = time
                 /\ effect[2] \in {threadViews'[t], baseViews'[t]}
    PROVE  Causal(threadViews', baseViews', messages', F)
<1> DEFINE view == [V[t] EXCEPT ![l] = time]
           base == IF release /\ l = FenceLocation THEN view ELSE baseViews[t]
           message == [timestamp |-> time, value |-> v, baseView |-> base,
                       releaseView |-> IF release THEN view ELSE base,
                       isUsedByAtomicUpdate |-> FALSE]
           M == [messages EXCEPT ![l] = log]
<1>1. /\ V \in Views /\ baseViews \in Views /\ M \in Logs /\ E \in Effects
      /\ M[l] = log
  BY DEF Sound, Causal, Logs
<1>2. /\ V[t] \in View /\ baseViews[t] \in View
      /\ Closed(V[t], E) /\ Closed(baseViews[t], E) /\ Below(baseViews[t], V[t])
  BY <1>1 DEF Views, Causal
<1>3. /\ view \in View /\ view[l] = time
      /\ \A k \in LogLocation : k # l => view[k] = V[t][k]
  BY <1>2 DEF View
<1>4. Below(V[t], view)
  <2> SUFFICES ASSUME NEW k \in LogLocation PROVE V[t][k] <= view[k]
    BY DEF Below
  <2>1. V[t][k] \in Nat
    BY <1>2 DEF View
  <2> HIDE DEF view
  <2> QED BY <1>3, <2>1
<1>5. base = view \/ base = baseViews[t]
  OBVIOUS
<1>6. /\ message.timestamp = time /\ message.baseView = base
      /\ message.releaseView = view \/ message.releaseView = base
  OBVIOUS
<1>7. /\ threadViews' = [V EXCEPT ![t] = view]
      /\ baseViews' = [baseViews EXCEPT ![t] = base]
      /\ messages' = [messages EXCEPT ![l] = log \cup {message}]
  BY DEF Push, BaseViewAfter, ReleaseView
<1>8. \A k \in LogLocation : messages'[k] = IF k = l THEN M[k] \cup {message} ELSE M[k]
  BY <1>1, <1>7 DEF Logs
<1> HIDE DEF view, base, message, M
<1>9. \A u \in Thread :
         /\ threadViews'[u] = IF u = t THEN view ELSE V[u]
         /\ baseViews'[u] = IF u = t THEN base ELSE baseViews[u]
  BY <1>1, <1>7 DEF Views
<1>10. base \in View /\ Below(base, view)
  <2>1. Below(view, view)
    BY <1>3 DEF Below, View
  <2>2. Below(baseViews[t], view)
    BY <1>2, <1>3, <1>4, BelowTransitive
  <2> QED BY <1>2, <1>3, <1>5, <2>1, <2>2
<1>11. \A k \in LogLocation : \A effect \in F[k] :
          effect \in E[k] \/ (k = l /\ effect[1] = time /\ effect[2] \in {view, base})
  BY <1>9
<1>12. ASSUME NEW w \in View, Reached(w, V, M), Closed(w, E)
       PROVE  Closed(w, F)
  <2>1. w[l] # time
    <3>1. CASE \E m \in M[l] : m.timestamp = w[l]
      BY <1>1, <3>1
    <3>2. CASE \A u \in Thread : w[l] < V[u][l]
      <4>1. w[l] \in Nat /\ V[t][l] \in Nat
        BY <1>2 DEF View
      <4> QED BY <3>2, <4>1
    <3> QED BY <1>12, <3>1, <3>2 DEF Reached
  <2> QED BY <1>11, <1>12, <2>1 DEF Closed
<1>13. Closed(view, F)
  <2> SUFFICES ASSUME NEW k \in LogLocation, NEW effect \in F[k], effect[1] = view[k]
               PROVE  Below(effect[2], view)
    BY DEF Closed
  <2>1. CASE effect \notin E[k]
    <3>1. Below(view, view)
      BY <1>3 DEF Below, View
    <3> QED BY <1>10, <1>11, <2>1, <3>1
  <2>2. CASE effect \in E[k] /\ k = l
    <3>1. effect[1] = time
      BY <1>3, <2>2
    <3>2. CASE \E m \in M[l] : m.timestamp = effect[1]
      BY <1>1, <3>1, <3>2
    <3>3. CASE \A u \in Thread : effect[1] < V[u][l]
      <4>1. V[t][l] \in Nat
        BY <1>2 DEF View
      <4> QED BY <3>1, <3>3, <4>1
    <3> QED BY <2>2, <3>2, <3>3 DEF Causal, M
  <2>3. CASE effect \in E[k] /\ k # l
    <3>1. Below(effect[2], V[t])
      BY <1>2, <1>3, <2>3 DEF Closed
    <3>2. effect[2] \in View
      BY <1>1, <2>3 DEF Effects
    <3> QED BY <1>2, <1>3, <1>4, <3>1, <3>2, BelowTransitive
  <2> QED BY <2>1, <2>2, <2>3
<1>14. \A u \in Thread : /\ V[u] \in View /\ Closed(V[u], F)
                         /\ baseViews[u] \in View /\ Closed(baseViews[u], F)
                         /\ Below(baseViews[u], V[u])
  <2>1. \A u \in Thread : /\ V[u] \in View /\ Reached(V[u], V, M) /\ Closed(V[u], E)
                          /\ baseViews[u] \in View /\ Reached(baseViews[u], V, M)
                          /\ Closed(baseViews[u], E)
                          /\ Below(baseViews[u], V[u])
    BY <1>1 DEF Views, Sound, Causal, M
  <2> QED BY <1>12, <2>1
<1>15. Closed(base, F)
  BY <1>5, <1>13, <1>14
<1>16. \A u \in Thread : /\ Closed(threadViews'[u], F)
                         /\ Closed(baseViews'[u], F)
                         /\ Below(baseViews'[u], threadViews'[u])
  BY <1>9, <1>10, <1>13, <1>14, <1>15
<1>17. \A k \in LogLocation : \A m \in messages'[k] :
          Closed(m.baseView, F) /\ Closed(m.releaseView, F)
  <2> SUFFICES ASSUME NEW k \in LogLocation, NEW m \in messages'[k]
               PROVE  Closed(m.baseView, F) /\ Closed(m.releaseView, F)
    OBVIOUS
  <2>1. CASE m \in M[k]
    <3>1. /\ m.baseView \in View /\ m.releaseView \in View
          /\ Reached(m.baseView, V, M) /\ Reached(m.releaseView, V, M)
          /\ Closed(m.baseView, E) /\ Closed(m.releaseView, E)
      BY <1>1, <2>1 DEF Logs, Message, Sound, Causal, M
    <3> QED BY <1>12, <3>1
  <2>2. CASE m = message
    BY <1>6, <1>13, <1>15, <2>2
  <2> QED BY <1>8, <2>1, <2>2
<1>18. ASSUME NEW k \in LogLocation, NEW effect \in F[k]
       PROVE  \/ \E m \in messages'[k] : m.timestamp = effect[1]
              \/ \A u \in Thread : effect[1] < threadViews'[u][k]
  <2>1. CASE effect \notin E[k]
    <3>1. message \in messages'[k] /\ message.timestamp = effect[1]
      BY <1>6, <1>8, <1>11, <2>1
    <3> QED BY <3>1
  <2>2. CASE effect \in E[k] /\ \E m \in M[k] : m.timestamp = effect[1]
    BY <1>8, <2>2
  <2>3. CASE effect \in E[k] /\ \A u \in Thread : effect[1] < V[u][k]
    <3>1. ASSUME NEW u \in Thread PROVE effect[1] < threadViews'[u][k]
      <4>1. effect[1] \in Nat /\ V[u][k] \in Nat /\ view[k] \in Nat /\ V[t][k] \in Nat
        BY <1>1, <1>3, <2>3 DEF Effects, Views, View
      <4>2. effect[1] < V[u][k] /\ effect[1] < V[t][k] /\ V[t][k] <= view[k]
        BY <1>4, <2>3 DEF Below
      <4> QED BY <1>9, <4>1, <4>2
    <3> QED BY <3>1
  <2> QED BY <2>1, <2>2, <2>3 DEF Causal, M
<1> QED BY <1>16, <1>17, <1>18 DEF Causal
-----------------------------------------------------------------------------
(***************************************************************************)
(* The timestamp and both views of thread t are what an effect of a write  *)
(* of t may be.                                                            *)
(***************************************************************************)
LEMMA AddsKeepsCausal ==
    ASSUME RAInv, NEW t \in Thread, NEW l \in LogLocation, NEW release \in BOOLEAN,
           Adds(t, l, release),
           NEW E, Causal(threadViews, baseViews, messages, E),
           NEW F \in Effects,
           \A k \in LogLocation : \A effect \in F[k] :
              \/ effect \in E[k]
              \/ /\ k = l
                 /\ effect[1] = threadViews'[t][l]
                 /\ effect[2] \in {threadViews'[t], baseViews'[t]}
    PROVE  Causal(threadViews', baseViews', messages', F)
<1>1. PICK V \in Views, log \in SUBSET Message, time \in Nat, v \in Int32 :
         /\ Reading(threadViews, messages, V, [messages EXCEPT ![l] = log])
         /\ V[t][l] < time /\ time <= MaxTime[l]
         /\ \A m \in log : m.timestamp # time
         /\ Push(t, l, v, time, release, log, V)
  BY DEF Adds, Puts
<1>2. messages \in Logs /\ Sound(V, baseViews, [messages EXCEPT ![l] = log])
  <2>1. messages \in Logs
    BY DEF RAInv, Sound
  <2>2. Sound(V, baseViews, [messages EXCEPT ![l] = log])
    BY <1>1, ReadingKeepsSound DEF RAInv
  <2> QED BY <2>1, <2>2
<1>3. E \in Effects
  BY DEF Causal
<1>4. Causal(V, baseViews, [messages EXCEPT ![l] = log], E)
  BY <1>1, <1>3, ReadingKeepsCausal DEF RAInv
<1>5. threadViews'[t][l] = time
  <2>1. threadViews' = [V EXCEPT ![t] = [V[t] EXCEPT ![l] = time]]
    BY <1>1 DEF Push, BaseViewAfter, ReleaseView
  <2>2. V[t] \in View
    BY DEF Views
  <2> QED BY <2>1, <2>2 DEF Views, View
<1> QED BY <1>1, <1>2, <1>4, <1>5, PushKeepsCausal
-----------------------------------------------------------------------------
(***************************************************************************)
(* With every message comes the base view of its writer.                   *)
(***************************************************************************)
Carried(logs) == [l \in LogLocation |-> {<<m.timestamp, m.baseView>> : m \in logs[l]}]

CarriedInv == RAInv /\ Causal(threadViews, baseViews, messages, Carried(messages))

LEMMA CarriedIs ==
    ASSUME NEW M \in Logs
    PROVE  Carried(M) \in Effects
  BY DEF Logs, Message, Carried, Effects

LEMMA CarriedInit == Init => CarriedInv
<1> SUFFICES ASSUME Init PROVE CarriedInv
  OBVIOUS
<1>1. RAInv
  BY RAInit
<1>2. Carried(messages) \in Effects
  BY <1>1, CarriedIs DEF RAInv, Sound
<1>3. \A l \in LogLocation : \A effect \in Carried(messages)[l] :
         effect = <<0, ZeroView>>
  BY DEF Init, Carried, InitialMessage
<1>4. ZeroView \in View /\ Below(ZeroView, ZeroView)
  BY DEF ZeroView, View, Below
<1>5. Closed(ZeroView, Carried(messages))
  BY <1>3, <1>4 DEF Closed
<1>6. \A l \in LogLocation : \A m \in messages[l] : m = InitialMessage
  BY DEF Init
<1>7. /\ \A l \in LogLocation : InitialMessage \in messages[l]
      /\ InitialMessage.timestamp = 0
      /\ InitialMessage.baseView = ZeroView /\ InitialMessage.releaseView = ZeroView
  BY DEF Init, InitialMessage
<1>8. \A t \in Thread : threadViews[t] = ZeroView /\ baseViews[t] = ZeroView
  BY DEF Init
<1> HIDE DEF Init
<1> QED BY <1>1, <1>2, <1>3, <1>4, <1>5, <1>6, <1>7, <1>8 DEF Causal, CarriedInv

LEMMA CarriedStep ==
    ASSUME CarriedInv, [Next]_vars
    PROVE  CarriedInv'
<1>1. RAInv /\ RAInv'
  BY RAStep DEF CarriedInv
<1>2. Carried(messages') \in Effects
  BY <1>1, CarriedIs DEF RAInv, Sound
<1>3. CASE UNCHANGED vars \/ Abort
  BY <1>1, <1>3 DEF CarriedInv, vars, Abort
<1>4. CASE OnlyReads
  <2>1. \A l \in LogLocation : Carried(messages')[l] \subseteq Carried(messages)[l]
    BY <1>4 DEF OnlyReads, Reading, Thinned, Carried
  <2>2. Causal(threadViews', baseViews, messages', Carried(messages'))
    BY <1>2, <1>4, <2>1, ReadingKeepsCausal DEF OnlyReads, RAInv, CarriedInv
  <2>3. baseViews' = baseViews
    BY <1>4 DEF OnlyReads
  <2> QED BY <1>1, <2>2, <2>3 DEF CarriedInv
<1>5. ASSUME NEW t \in Thread, NEW l \in LogLocation, NEW release \in BOOLEAN,
             Adds(t, l, release)
      PROVE  CarriedInv'
  <2>1. PICK V \in Views, log \in SUBSET Message, time \in Nat, v \in Int32 :
           /\ Reading(threadViews, messages, V, [messages EXCEPT ![l] = log])
           /\ Push(t, l, v, time, release, log, V)
    BY <1>5 DEF Adds, Puts
  <2>2. messages \in Logs /\ baseViews \in Views
    BY <1>1 DEF RAInv, Sound
  <2>3. /\ threadViews'[t][l] = time
        /\ \E message \in Message :
              /\ message.timestamp = time
              /\ message.baseView = baseViews'[t]
              /\ messages' = [messages EXCEPT ![l] = log \cup {message}]
    <3> DEFINE view == [V[t] EXCEPT ![l] = time]
               base == IF release /\ l = FenceLocation THEN view ELSE baseViews[t]
               message == [timestamp |-> time, value |-> v, baseView |-> base,
                           releaseView |-> IF release THEN view ELSE base,
                           isUsedByAtomicUpdate |-> FALSE]
    <3>1. threadViews'[t] = view /\ baseViews'[t] = base /\ view[l] = time
      BY <2>1, <2>2 DEF Push, BaseViewAfter, ReleaseView, Views, View
    <3>2. view \in View /\ base \in View
      BY <2>2 DEF Views, View
    <3>3. messages' = [messages EXCEPT ![l] = log \cup {message}]
      BY <2>1 DEF Push, BaseViewAfter, ReleaseView
    <3>4. /\ message \in Message
          /\ message.timestamp = time /\ message.baseView = base
      <4> HIDE DEF view, base
      <4> QED BY <3>2 DEF Message
    <3> HIDE DEF view, base, message
    <3> QED BY <3>1, <3>3, <3>4
  <2>4. PICK message \in Message :
           /\ message.timestamp = time
           /\ message.baseView = baseViews'[t]
           /\ messages' = [messages EXCEPT ![l] = log \cup {message}]
    BY <2>3
  <2>5. /\ \A m \in log : \E n \in messages[l] :
              m.timestamp = n.timestamp /\ m.baseView = n.baseView
        /\ messages'[l] = log \cup {message}
        /\ \A k \in LogLocation : k # l => messages'[k] = messages[k]
    BY <2>1, <2>2, <2>4 DEF Reading, Thinned, Logs
  <2>6. ASSUME NEW k \in LogLocation, NEW effect \in Carried(messages')[k]
        PROVE  \/ effect \in Carried(messages)[k]
               \/ /\ k = l
                  /\ effect[1] = threadViews'[t][l]
                  /\ effect[2] \in {threadViews'[t], baseViews'[t]}
    <3>1. PICK m \in messages'[k] : effect = <<m.timestamp, m.baseView>>
      BY DEF Carried
    <3>2. CASE \E n \in messages[k] :
                  m.timestamp = n.timestamp /\ m.baseView = n.baseView
      BY <3>1, <3>2 DEF Carried
    <3>3. CASE k = l /\ m = message
      BY <2>3, <2>4, <3>1, <3>3
    <3> QED BY <2>5, <3>1, <3>2, <3>3
  <2>7. Causal(threadViews', baseViews', messages', Carried(messages'))
    BY <1>1, <1>2, <1>5, <2>6, AddsKeepsCausal DEF CarriedInv
  <2> QED BY <1>1, <2>7 DEF CarriedInv
<1> QED BY <1>1, <1>3, <1>4, <1>5, NextIs

LEMMA CarriedIsCausal == CarriedInv => BaseViewsAreCausal
<1> SUFFICES ASSUME CarriedInv, NEW t \in Thread, NEW l \in LogLocation,
                    NEW m \in messages[l], m.timestamp = threadViews[t][l]
             PROVE  Below(m.baseView, threadViews[t])
  BY DEF BaseViewsAreCausal
<1>1. <<m.timestamp, m.baseView>> \in Carried(messages)[l]
  BY DEF Carried
<1>2. Closed(threadViews[t], Carried(messages))
  BY DEF CarriedInv, Causal
<1> QED BY <1>1, <1>2 DEF Closed

(***************************************************************************)
(* A thread that has come to a message has what its writer had published   *)
(* by release fences, in both models, with both managers, and whatever     *)
(* modes and fences the threads mix.                                       *)
(***************************************************************************)
THEOREM BaseViewsCausal == Spec => []BaseViewsAreCausal
<1>1. CarriedInv /\ [Next]_vars => CarriedInv'
  BY CarriedStep
<1> QED BY <1>1, CarriedIsCausal, CarriedInit, PTL DEF Spec
=============================================================================
