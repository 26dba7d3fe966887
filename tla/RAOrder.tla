------------------------------ MODULE RAOrder ------------------------------
(***************************************************************************)
(* RAStorage with a history of what its threads have observed, and what    *)
(* release/acquire consistency requires of it: coherence, atomic updates   *)
(* that stay adjacent to what they read, causality, and SC fences that     *)
(* order writes.                                                           *)
(***************************************************************************)
EXTENDS RAStorage

VARIABLES
    observed,  \* per thread and location, the timestamp it last read or wrote
    updates,   \* per location, from which timestamp to which atomic updates went
    origins,   \* per location, each release write: timestamp and writer's view
    fenced,    \* the view that the SC fences so far have given to all threads
    failed     \* per location, what failed compare-and-swaps have read

history == <<observed, updates, origins, fenced, failed>>

OrderInit ==
    /\ Init
    /\ observed = [t \in Thread |-> ZeroView]
    /\ updates = [l \in LogLocation |-> {}]
    /\ origins = [l \in LogLocation |-> {}]
    /\ fenced = ZeroView
    /\ failed = [l \in LogLocation |-> {}]

Observes(t, l, timestamp) == observed' = [observed EXCEPT ![t][l] = timestamp]

Reads(t, l, m) ==
    Observes(t, l, m.timestamp) /\ UNCHANGED <<updates, origins, fenced>>

(***************************************************************************)
(* A write leaves its thread's view at the message it has added; from is   *)
(* empty, or holds the timestamp of the message an atomic update has read. *)
(***************************************************************************)
Writes(t, l, mode, from) ==
    LET view == threadViews'[t]
    IN  \/ /\ ~crashed'
           /\ Observes(t, l, view[l])
           /\ updates' = [updates EXCEPT ![l] = @ \cup {<<f, view[l]>> : f \in from}]
           /\ origins' = IF isRelease(mode)
                         THEN [origins EXCEPT ![l] = @ \cup {<<view[l], view>>}]
                         ELSE origins
           /\ UNCHANGED <<fenced, failed>>
        \/ crashed' /\ UNCHANGED history

OrderLoad(t, a, mode, m) ==
    Load(t, a, mode, m) /\ Reads(t, a, m) /\ UNCHANGED failed

OrderStore(t, a, v, mode) == Store(t, a, v, mode) /\ Writes(t, a, mode, {})

OrderCompareAndSwap(t, a, expected, new, mode, m) ==
    /\ CompareAndSwap(t, a, expected, new, mode, m)
    /\ \/ m.value = expected /\ Writes(t, a, mode, {m.timestamp})
       \/ /\ m.value # expected
          /\ Reads(t, a, m)
          /\ failed' = [failed EXCEPT ![a] = @ \cup {m.timestamp}]

OrderFetchAndIncrement(t, a, increment, mode, m) ==
    FetchAndIncrement(t, a, increment, mode, m) /\ Writes(t, a, mode, {m.timestamp})

OrderAcquireFence(t, mode, m) ==
    /\ AcquireFence(t, mode, m)
    /\ Writes(t, FenceLocation, mode,
              IF isRelease(mode) THEN {m.timestamp} ELSE {})

OrderReleaseFence(t, mode) == ReleaseFence(t, mode) /\ Writes(t, FenceLocation, mode, {})

OrderSCFence(t) ==
    /\ SCFence(t)
    /\ fenced' = Join(fenced, threadViews[t])
    /\ UNCHANGED <<observed, updates, origins, failed>>

OrderNext ==
    \E t \in Thread :
        \/ \E a \in Address, mode \in AccessModes :
              \/ \E m \in messages[a] :
                    \/ OrderLoad(t, a, mode, m)
                    \/ \E expected, new \in Value :
                          OrderCompareAndSwap(t, a, expected, new, mode, m)
                    \/ \E increment \in Increment :
                          OrderFetchAndIncrement(t, a, increment, mode, m)
              \/ \E v \in Value : OrderStore(t, a, v, mode)
              \/ NothingToUpdate(t, a) /\ UNCHANGED history
        \/ \E mode \in FenceModes :
              \/ mode = "SEQ_CST" /\ OrderSCFence(t)
              \/ \E m \in messages[FenceLocation] : OrderAcquireFence(t, mode, m)
              \/ /\ mode = "REL_ACQ"
                 /\ NothingToUpdate(t, FenceLocation)
                 /\ UNCHANGED history
              \/ OrderReleaseFence(t, mode)

OrderSpec == OrderInit /\ [][OrderNext]_<<vars, history>>
-----------------------------------------------------------------------------
(***************************************************************************)
(* A thread whose view is at a release write has everything its writer had *)
(* in view: no chain of reads, writes and fences through several threads   *)
(* and locations, of whatever modes, shows an effect without its cause, in *)
(* whatever order the logs are read, extended and cleaned up.              *)
(***************************************************************************)
Causality ==
    \A t \in Thread, l \in LogLocation : \A write \in origins[l] :
        write[1] = threadViews[t][l] => Below(write[2], threadViews[t])

(***************************************************************************)
(* A fence that is an acquire and a release one hands on what it gets:     *)
(* all that had been in view at the release write it has read is in view   *)
(* at its own, so that a chain of fences of several threads loses nothing  *)
(* (if no access uses their location).                                     *)
(***************************************************************************)
FencesHandOn ==
    \A p \in updates[FenceLocation], cause, effect \in origins[FenceLocation] :
        p = <<cause[1], effect[1]>> => Below(cause[2], effect[2])

(***************************************************************************)
(* No two atomic updates of a location have read the same message.         *)
(***************************************************************************)
UpdatesAreExclusive ==
    \A l \in LogLocation : \A p, q \in updates[l] : p[1] = q[1] => p = q

(***************************************************************************)
(* "the new message must come right after the read message in the log and  *)
(* no more messages can be inserted between them" (README.md:58-59).       *)
(***************************************************************************)
UpdatesAreAdjacent ==
    \A l \in LogLocation : \A p \in updates[l] :
        /\ p[1] < p[2]
        /\ \A m \in messages[l] : ~(p[1] < m.timestamp /\ m.timestamp < p[2])

(***************************************************************************)
(* The process ends for one of three reasons.  The newest message of a log *)
(* has been used up by a compare-and-swap that has failed, or by an update *)
(* that has written before what it has read, so that nothing is left that  *)
(* an update may read or a store go after; or two messages are so close    *)
(* that there is no timestamp between them.  The last two never happen in  *)
(* SRA.  The assertions and exceptions of write, chooseMessage and         *)
(* middleTimestamp take all three for impossible.                          *)
(***************************************************************************)
EndsHaveACause ==
    crashed => \E l \in LogLocation :
        LET newest == Latest(messages[l])
        IN  \/ newest.timestamp \in failed[l]
            \/ /\ model = "RA"
               /\ \/ \E p \in updates[l] : p[1] = newest.timestamp /\ p[2] < p[1]
                  \/ \E m, n \in messages[l] : n.timestamp = m.timestamp + 1

(***************************************************************************)
(* A thread never reads, or writes, an older message of a location than    *)
(* one it has already read or written there ("A thread can only see        *)
(* messages with a timestamp greater or equal to the timestamp that the    *)
(* thread observes", README.md:34-36).                                     *)
(***************************************************************************)
NeverReadsBack ==
    [][\A t \in Thread, l \in LogLocation :
          observed[t][l] <= observed'[t][l]]_<<vars, history>>

(***************************************************************************)
(* After an SC fence nobody writes before the writes the fencing thread    *)
(* had in its view ("other threads can no longer perform writes before the *)
(* fencing thread's last write", README.md:74-75).                         *)
(***************************************************************************)
SCFencesOrderWrites ==
    [][\A l \in LogLocation : \A m \in messages'[l] :
          (\A n \in messages[l] : n.timestamp # m.timestamp)
             => fenced[l] < m.timestamp]_<<vars, history>>
=============================================================================
