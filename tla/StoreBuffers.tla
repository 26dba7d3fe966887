---------------------------- MODULE StoreBuffers ----------------------------
(***************************************************************************)
(* What the SC, TSO and PSO managers promise their callers, whichever of   *)
(* them main.cpp picks: a thread's stores wait in order per address until  *)
(* the memory takes them, the thread itself sees them at once, nobody else *)
(* sees them earlier, an atomic update works on a memory that has all of   *)
(* the thread's own stores to its address, and a fence leaves none of the  *)
(* thread's stores waiting.                                                *)
(*                                                                         *)
(* How many of a thread's waiting stores an operation of that thread takes *)
(* to the memory on the way is left open: SC takes every store at once, an *)
(* update takes all of the thread's stores in TSO and only those to its    *)
(* address in PSO.                                                         *)
(***************************************************************************)
EXTENDS StorageManager, Sequences

VARIABLES
    memory,    \* the shared memory
    pending,   \* per thread and address, the stores not in memory yet
    crashed    \* an uncaught exception has ended the process

vars == <<memory, pending, crashed>>

TypeOK ==
    /\ memory \in Memory
    /\ pending \in [Thread -> [Address -> Seq(Int32)]]
    /\ crashed \in BOOLEAN

Init ==
    /\ memory = ZeroedMemory
    /\ pending = [t \in Thread |-> [a \in Address |-> <<>>]]
    /\ crashed = FALSE
-----------------------------------------------------------------------------
(* What a thread with these queues reads at address a.                     *)
Seen(mem, queues, a) ==
    IF queues[a] # <<>> THEN queues[a][Len(queues[a])] ELSE mem[a]

(***************************************************************************)
(* A step takes stores of one thread to the memory: queues holds what the  *)
(* thread had waiting and rest what it still has waiting afterwards.  Each *)
(* queue loses its oldest stores and the memory has the last one taken; a  *)
(* store to an address out of range is never taken.                        *)
(***************************************************************************)
Taken(queues, rest, a) == Len(queues[a]) - Len(rest[a])

Drained(queues, rest) ==
    \A a \in Address :
        /\ Taken(queues, rest, a) \in 0 .. Len(queues[a])
        /\ rest[a] = SubSeq(queues[a], Taken(queues, rest, a) + 1, Len(queues[a]))
        /\ a \notin Location => rest[a] = queues[a]

MemoryAfter(queues, rest) ==
    [l \in Location |-> IF Taken(queues, rest, l) = 0
                        THEN memory[l]
                        ELSE queues[l][Taken(queues, rest, l)]]

(* A program that uses an address out of range may end the process.        *)
Abort ==
    /\ Address # Location
    /\ crashed' = TRUE
    /\ UNCHANGED <<memory, pending>>
-----------------------------------------------------------------------------
Load(t, a, v) ==
    /\ ~crashed
    /\ pending[t][a] # <<>> \/ a \in Location
    /\ v = Seen(memory, pending[t], a)
    /\ UNCHANGED vars

(***************************************************************************)
(* Thread t, with these queues waiting, takes some stores to the memory    *)
(* and has rest left; the other threads' stores stay where they are.       *)
(***************************************************************************)
Drain(t, queues, rest) ==
    /\ ~crashed
    /\ Drained(queues, rest)
    /\ pending' = [pending EXCEPT ![t] = rest]
    /\ UNCHANGED crashed

Store(t, a, v) ==
    LET queues == [pending[t] EXCEPT ![a] = Append(@, v)]
        rest   == pending'[t]
    IN  /\ Drain(t, queues, rest)
        /\ memory' = MemoryAfter(queues, rest)

(***************************************************************************)
(* compareAndSwap and fetchAndIncrement: nothing of t waits at a any more. *)
(***************************************************************************)
AtomicUpdate(t, a) ==
    LET queues == pending[t]
        rest   == pending'[t]
        mem    == MemoryAfter(queues, rest)
    IN  /\ a \in Location
        /\ Drain(t, queues, rest)
        /\ rest[a] = <<>>
        /\ \/ \E expected, new \in Value :
                  memory' = Swapped(mem, a, expected, new)
           \/ \E increment \in Increment :
                  memory' = Incremented(mem, a, increment)

Fence(t) ==
    LET rest == pending'[t]
    IN  /\ Drain(t, pending[t], rest)
        /\ \A a \in Address : rest[a] = <<>>
        /\ memory' = MemoryAfter(pending[t], rest)

InternalUpdate ==
    \E t \in Thread :
        LET rest == pending'[t]
        IN  /\ Drain(t, pending[t], rest)
            /\ memory' = MemoryAfter(pending[t], rest)
-----------------------------------------------------------------------------
Next ==
    \/ \E t \in Thread, a \in Address :
          \/ \E v \in Int32 : Load(t, a, v)
          \/ \E v \in Value : Store(t, a, v)
          \/ AtomicUpdate(t, a)
    \/ \E t \in Thread : Fence(t)
    \/ InternalUpdate
    \/ ~crashed /\ Abort

Spec == Init /\ [][Next]_vars
=============================================================================
