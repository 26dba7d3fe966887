----------------------------- MODULE RAStorage -----------------------------
(***************************************************************************)
(* ReleaseAcquireStorageManager, in its two models RA and SRA.  Every      *)
(* location has a log of messages ordered by timestamp; every thread has a *)
(* view, which gives for each location the oldest timestamp it may still   *)
(* read.  One more location, after the last one, carries the messages of   *)
(* the fences.                                                             *)
(*                                                                         *)
(* Timestamps are doubles in the code.  Here they are multiples of 1/Scale *)
(* written as natural numbers, so that a midpoint can run out of precision *)
(* just as in the code.  Addresses are not checked by this manager: an     *)
(* address may be the fence location; a larger one is undefined behaviour  *)
(* and is left out.                                                        *)
(***************************************************************************)
EXTENDS StorageManager, FiniteSetsExt

CONSTANTS
    Models,       \* which of the models "RA" and "SRA" are explored
    Managers,     \* which of "random" and "interactive" are
    AccessModes,  \* the memory access modes of the programs' accesses
    FenceModes,   \* and of their fences
    Scale,        \* the steps of precision between timestamps 0 and 1
    MaxTime       \* bound: per location, no write gets a larger timestamp

FenceLocation == StorageSize
LogLocation == 0 .. StorageSize

MemoryAccessMode == {"SEQ_CST", "REL", "ACQ", "REL_ACQ", "RLX"}

ASSUME RAAssumption ==
    /\ Models \subseteq {"RA", "SRA"}
    /\ Managers \subseteq {"random", "interactive"}
    /\ AccessModes \subseteq MemoryAccessMode
    /\ FenceModes \subseteq MemoryAccessMode
    /\ Scale \in Nat \ {0, 1}
    /\ MaxTime \in [LogLocation -> Nat]
    /\ Address \subseteq LogLocation
    /\ IsFiniteSet(Thread) /\ Thread # {}

VARIABLES
    model,        \* m_model
    manager,      \* which class m_internalUpdateManager is of
    threadViews,  \* m_threadViews
    baseViews,    \* m_baseViewPerThread: the views at the last release fence
    messages,     \* m_messages: the log of each location, as a set
    crashed       \* an exception or a failed assertion has ended the process

vars == <<model, manager, threadViews, baseViews, messages, crashed>>

View == [LogLocation -> Nat]

(***************************************************************************)
(* A message.  The code's releaseView is optional and an acquire read of a *)
(* message without one applies the base view, so that releaseView holds    *)
(* the base view here when the code's is empty.                            *)
(***************************************************************************)
Message == [timestamp : Nat, value : Int32, baseView : View,
            releaseView : View, isUsedByAtomicUpdate : BOOLEAN]

TypeOK ==
    /\ model \in Models
    /\ manager \in Managers
    /\ threadViews \in [Thread -> View]
    /\ baseViews \in [Thread -> View]
    /\ messages \in [LogLocation -> SUBSET Message]
    /\ crashed \in BOOLEAN

ZeroView == [l \in LogLocation |-> 0]

InitialMessage ==
    [timestamp |-> 0, value |-> 0, baseView |-> ZeroView,
     releaseView |-> ZeroView, isUsedByAtomicUpdate |-> FALSE]

Init ==
    /\ model \in Models
    /\ manager \in Managers
    /\ threadViews = [t \in Thread |-> ZeroView]
    /\ baseViews = [t \in Thread |-> ZeroView]
    /\ messages = [l \in LogLocation |-> {InitialMessage}]
    /\ crashed = FALSE
-----------------------------------------------------------------------------
isRelease(mode) == mode \in {"REL", "REL_ACQ"}
isAcquire(mode) == mode \in {"ACQ", "REL_ACQ"}

(* Mutant of Join: the loop over the locations begins with the second.     *)
JoinFromSecond(v, w) ==
    [l \in LogLocation |-> IF 0 < l /\ v[l] < w[l] THEN w[l] ELSE v[l]]

(* The operator |= of class View.                                          *)
Join(v, w) == [l \in LogLocation |-> IF v[l] < w[l] THEN w[l] ELSE v[l]]

Below(v, w) == \A l \in LogLocation : v[l] <= w[l]

(* Mutant of Available: the thread's view is ignored.                      *)
AvailableAll(log, view, l) == log

(* availableMessages: what a thread with this view may read in a log of l. *)
Available(log, view, l) == {m \in log : view[l] <= m.timestamp}

Unused(ms) == {m \in ms : ~m.isUsedByAtomicUpdate}

Earliest(ms) == CHOOSE m \in ms : \A n \in ms : m.timestamp <= n.timestamp
Latest(ms)   == CHOOSE m \in ms : \A n \in ms : n.timestamp <= m.timestamp

Later(ms, m) == {n \in ms : m.timestamp < n.timestamp}

(***************************************************************************)
(* The timestamp of a write that goes right after message b of the ms: the *)
(* midpoint between b and the next message, or b's plus one when b is the  *)
(* last.  There is no midpoint between two timestamps one step apart:      *)
(* middleTimestamp throws.                                                 *)
(***************************************************************************)
TimestampAfter(ms, b) ==
    IF Later(ms, b) = {} THEN b.timestamp + Scale
    ELSE (b.timestamp + Earliest(Later(ms, b)).timestamp) \div 2

Exhausted(ms, b) == TimestampAfter(ms, b) = b.timestamp

(* Mutant of Bases: a store may go after a message an update has used.     *)
BasesUsedToo(ms, useMinTimestamp) ==
    IF model = "SRA" THEN {Latest(ms)}
    ELSE IF useMinTimestamp THEN {Earliest(ms)}
    ELSE ms

(* Mutant of Bases: an update goes after what it has read also in SRA.      *)
BasesMinFirst(ms, useMinTimestamp) ==
    IF useMinTimestamp THEN {Earliest(ms)}
    ELSE IF model = "SRA" THEN {Latest(ms)}
    ELSE Unused(ms)

(***************************************************************************)
(* The available messages a write may go right after.  SRA appends; in RA  *)
(* an atomic update and a fence (useMinTimestamp) take the earliest one    *)
(* and a store any one that no atomic update has used.                     *)
(***************************************************************************)
Bases(ms, useMinTimestamp) ==
    IF model = "SRA" THEN {Latest(ms)}
    ELSE IF useMinTimestamp THEN {Earliest(ms)}
    ELSE Unused(ms)

(* The process ends: std::terminate or abort.                              *)
Abort ==
    /\ ~crashed
    /\ crashed' = TRUE
    /\ UNCHANGED <<model, manager, threadViews, baseViews, messages>>
-----------------------------------------------------------------------------
(***************************************************************************)
(* read: thread t takes the view of message m (applyMessage).  The random  *)
(* manager marks the message an atomic update reads; the interactive one   *)
(* does not.                                                               *)
(***************************************************************************)
Readable(t, l, isReadBeforeAtomicUpdate) ==
    LET ms == Available(messages[l], threadViews[t], l)
    IN  IF isReadBeforeAtomicUpdate THEN Unused(ms) ELSE ms

(* Mutant of ViewsAfterRead: the view is assigned, not joined.             *)
ViewsAfterAssignment(t, m, withAcquire) ==
    [threadViews EXCEPT ![t] = IF withAcquire THEN m.releaseView ELSE m.baseView]

ViewsAfterRead(t, m, withAcquire) ==
    [threadViews EXCEPT ![t] =
        Join(@, IF withAcquire THEN m.releaseView ELSE m.baseView)]

(* Mutant of Marked: the message is read without being marked.             *)
Unmarked(log, m, isReadBeforeAtomicUpdate) == log

(* Mutant of Marked: every read marks the message.                         *)
MarkedAlways(log, m, isReadBeforeAtomicUpdate) ==
    IF manager = "random"
    THEN (log \ {m}) \cup {[m EXCEPT !.isUsedByAtomicUpdate = TRUE]}
    ELSE log

Marked(log, m, isReadBeforeAtomicUpdate) ==
    IF isReadBeforeAtomicUpdate /\ manager = "random"
    THEN (log \ {m}) \cup {[m EXCEPT !.isUsedByAtomicUpdate = TRUE]}
    ELSE log

(* Mutant of CleanedUp: "<=" has become "<".                               *)
CleanedUpTooFar(log, views, l) ==
    {m \in log : \E t \in Thread : views[t][l] < m.timestamp}

(* cleanUpHistory: the messages no thread's view reaches back to are gone. *)
CleanedUp(log, views, l) ==
    {m \in log : \E t \in Thread : views[t][l] <= m.timestamp}

LogAfterRead(t, l, m, withAcquire, isReadBeforeAtomicUpdate) ==
    CleanedUp(Marked(messages[l], m, isReadBeforeAtomicUpdate),
              ViewsAfterRead(t, m, withAcquire), l)

Read(t, l, m, withAcquire, isReadBeforeAtomicUpdate) ==
    /\ threadViews' = ViewsAfterRead(t, m, withAcquire)
    /\ messages' = [messages EXCEPT ![l] =
           LogAfterRead(t, l, m, withAcquire, isReadBeforeAtomicUpdate)]
    /\ UNCHANGED <<model, manager, baseViews, crashed>>

(* Mutant of BaseViewAfter: the base view gets the fence's own timestamp.  *)
ThinBaseView(t, l, view, withRelease) ==
    IF withRelease /\ l = FenceLocation
    THEN [baseViews[t] EXCEPT ![l] = view[l]]
    ELSE baseViews[t]

(* A release write to the fence location moves its thread's base view up.  *)
BaseViewAfter(t, l, view, withRelease) ==
    IF withRelease /\ l = FenceLocation THEN view ELSE baseViews[t]

(* Mutant of ReleaseView: a release write publishes no more than others.   *)
UnreleasedView(view, base, withRelease) == base

(* Mutant of ReleaseView: it has the program's locations only.             *)
ReleaseViewWithoutFences(view, base, withRelease) ==
    IF withRelease THEN [view EXCEPT ![FenceLocation] = 0] ELSE base

ReleaseView(view, base, withRelease) == IF withRelease THEN view ELSE base

(***************************************************************************)
(* The second half of write: thread t adds a message with this timestamp   *)
(* to this log of l, the views being these.                                *)
(***************************************************************************)
Push(t, l, v, timestamp, withRelease, log, views) ==
    LET view == [views[t] EXCEPT ![l] = timestamp]
        base == BaseViewAfter(t, l, view, withRelease)
        message == [timestamp |-> timestamp, value |-> v, baseView |-> base,
                    releaseView |-> ReleaseView(view, base, withRelease),
                    isUsedByAtomicUpdate |-> FALSE]
    IN  /\ threadViews' = [views EXCEPT ![t] = view]
        /\ baseViews' = [baseViews EXCEPT ![t] = base]
        /\ messages' = [messages EXCEPT ![l] = log \cup {message}]
        /\ UNCHANGED <<model, manager, crashed>>

(***************************************************************************)
(* The timestamps the interactive manager asks its user for: later than    *)
(* the first available message, not taken, and not right after a message   *)
(* an atomic update has used.  The code does not check what it is given.   *)
(***************************************************************************)
Enterable(ms, l) ==
    {timestamp \in 1 .. MaxTime[l] :
        LET earlier == {m \in ms : m.timestamp < timestamp}
        IN  /\ earlier # {} /\ ~Latest(earlier).isUsedByAtomicUpdate
            /\ \A m \in ms : m.timestamp # timestamp}

(***************************************************************************)
(* write: for a store of the RA model the manager chooses the timestamp,   *)
(* in every other case the message goes right after its base.  The code    *)
(* computes the midpoint of the first two available messages whether it    *)
(* needs it or not, and the random manager draws one of the unused         *)
(* messages even if there is none: either may end the process.             *)
(***************************************************************************)
Write(t, l, v, useMinTimestamp, withRelease, log, views) ==
    LET ms      == Available(log, views[t], l)
        bases   == Bases(ms, useMinTimestamp)
        entered == model = "RA" /\ ~useMinTimestamp /\ manager = "interactive"
        usable  == {b \in bases : ~Exhausted(ms, b)}
        choices == IF entered THEN Enterable(ms, l)
                   ELSE {TimestampAfter(ms, b) : b \in usable}
    IN  \/ /\ ~Exhausted(ms, Earliest(ms))
           /\ \E timestamp \in choices :
                 /\ timestamp <= MaxTime[l]
                 /\ Push(t, l, v, timestamp, withRelease, log, views)
        \/ /\ \/ Exhausted(ms, Earliest(ms))
              \/ ~entered /\ (bases = {} \/ bases # usable)
           /\ Abort

(* Mutant of Update: the write goes on from the view before the read.      *)
UpdateFromOldView(t, l, v, mode, m, isReadBeforeAtomicUpdate) ==
    Write(t, l, v, TRUE, isRelease(mode),
          LogAfterRead(t, l, m, isAcquire(mode), isReadBeforeAtomicUpdate),
          threadViews)

(* read, marking message m, and then write.                                *)
Update(t, l, v, mode, m, isReadBeforeAtomicUpdate) ==
    Write(t, l, v, TRUE, isRelease(mode),
          LogAfterRead(t, l, m, isAcquire(mode), isReadBeforeAtomicUpdate),
          ViewsAfterRead(t, m, isAcquire(mode)))
-----------------------------------------------------------------------------
(* A load by thread t that reads message m.                                *)
Load(t, a, mode, m) ==
    /\ ~crashed
    /\ m \in Readable(t, a, FALSE)
    /\ Read(t, a, m, isAcquire(mode), FALSE)

Store(t, a, v, mode) ==
    /\ ~crashed
    /\ Write(t, a, v, FALSE, isRelease(mode), messages[a], threadViews)

(***************************************************************************)
(* A compare-and-swap that reads message m.  Reading another value than it *)
(* expects, it writes nothing, but the message is marked all the same.     *)
(***************************************************************************)
CompareAndSwap(t, a, expected, new, mode, m) ==
    /\ ~crashed
    /\ m \in Readable(t, a, TRUE)
    /\ \/ m.value = expected /\ Update(t, a, new, mode, m, TRUE)
       \/ m.value # expected /\ Read(t, a, m, isAcquire(mode), TRUE)

FetchAndIncrement(t, a, increment, mode, m) ==
    /\ ~crashed
    /\ m \in Readable(t, a, TRUE)
    /\ Update(t, a, Plus32(m.value, increment), mode, m, TRUE)

(***************************************************************************)
(* An atomic update, or a fence that is both an acquire and a release, with *)
(* no message left to read: the assertion of                               *)
(* findPosOfNthMessageNotUsedInAtomicUpdates fails.                        *)
(***************************************************************************)
NothingToUpdate(t, l) == Readable(t, l, TRUE) = {} /\ Abort

(* Mutant of SCFence: it only cleans up, as with a view already shared.    *)
SCFenceUnshared(t) ==
    /\ ~crashed
    /\ messages' = [l \in LogLocation |-> CleanedUp(messages[l], threadViews, l)]
    /\ UNCHANGED <<model, manager, threadViews, baseViews, crashed>>

(* An SC fence: every thread takes the view of t, and every log is cleaned. *)
SCFence(t) ==
    LET views == [u \in Thread |-> Join(threadViews[u], threadViews[t])]
    IN  /\ ~crashed
        /\ threadViews' = views
        /\ messages' = [l \in LogLocation |-> CleanedUp(messages[l], views, l)]
        /\ UNCHANGED <<model, manager, baseViews, crashed>>

(***************************************************************************)
(* A fence with an acquire part reads message m of the fence location      *)
(* first, as an atomic update does if it has a release part as well.       *)
(***************************************************************************)
AcquireFence(t, mode, m) ==
    /\ ~crashed
    /\ isAcquire(mode)
    /\ m \in Readable(t, FenceLocation, isRelease(mode))
    /\ Update(t, FenceLocation, 0, mode, m, isRelease(mode))

(* A release fence, or a relaxed one, only writes there.                   *)
ReleaseFence(t, mode) ==
    /\ ~crashed
    /\ mode \in {"REL", "RLX"}
    /\ Write(t, FenceLocation, 0, TRUE, isRelease(mode),
             messages[FenceLocation], threadViews)
-----------------------------------------------------------------------------
Next ==
    \E t \in Thread :
        \/ \E a \in Address, mode \in AccessModes :
              \/ \E m \in messages[a] :
                    \/ Load(t, a, mode, m)
                    \/ \E expected, new \in Value :
                          CompareAndSwap(t, a, expected, new, mode, m)
                    \/ \E increment \in Increment :
                          FetchAndIncrement(t, a, increment, mode, m)
              \/ \E v \in Value : Store(t, a, v, mode)
              \/ NothingToUpdate(t, a)
        \/ \E mode \in FenceModes :
              \/ mode = "SEQ_CST" /\ SCFence(t)
              \/ \E m \in messages[FenceLocation] : AcquireFence(t, mode, m)
              \/ mode = "REL_ACQ" /\ NothingToUpdate(t, FenceLocation)
              \/ ReleaseFence(t, mode)

Spec == Init /\ [][Next]_vars
-----------------------------------------------------------------------------
(***************************************************************************)
(* Every thread's view points at a message that is still in the log, at    *)
(* every location: cleanUpHistory never discards what a thread may still   *)
(* read, nor empties a log it then dereferences, and applyMessage never    *)
(* installs a timestamp whose message is gone, although it cleans up one   *)
(* location only and joins views that other threads took long ago.         *)
(***************************************************************************)
ViewsPointAtMessages ==
    \A t \in Thread, l \in LogLocation :
        \E m \in messages[l] : m.timestamp = threadViews[t][l]

(***************************************************************************)
(* A thread whose view is at a message has at least its base view: what    *)
(* the writer had published by release fences is never lost on the way, by *)
(* whichever chain of reads, writes and fences the timestamp has come.     *)
(***************************************************************************)
BaseViewsAreCausal ==
    \A t \in Thread, l \in LogLocation : \A m \in messages[l] :
        m.timestamp = threadViews[t][l] => Below(m.baseView, threadViews[t])

(***************************************************************************)
(* A view never loses a timestamp, although write assigns to it where      *)
(* every other operation joins.                                            *)
(***************************************************************************)
ViewsOnlyGrow ==
    [][\A t \in Thread : Below(threadViews[t], threadViews'[t])]_vars
=============================================================================
