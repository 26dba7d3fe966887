----------------------------- MODULE MemoryModel -----------------------------
(***************************************************************************)
(* The storage manager that main picks by its second argument, with the    *)
(* internal update manager it picks by its third, behind the virtual       *)
(* functions of StorageManagerInterface.  The modules of the managers      *)
(* share the variables below; those the picked one lacks are empty.        *)
(***************************************************************************)
EXTENDS StorageManager, Sequences

CONSTANTS
    MaxBuffer,  \* bound on a store buffer
    Scale,      \* precision of timestamps: see RAStorage
    MaxTime     \* bound on timestamps

ASSUME MemoryAssumption ==
    /\ MaxBuffer \in Nat
    /\ Scale \in Nat \ {0, 1}
    /\ MaxTime \in [0 .. StorageSize -> Nat]

VARIABLES
    argv,         \* the file, the memory model and the mode main was given
    storage,      \* m_storage: none in RA and SRA
    buffers,      \* m_threadBuffers of TSO and PSO
    threadViews,  \* m_threadViews, m_baseViewPerThread and m_messages of RA
    baseViews,    \* and SRA
    messages,
    crashed       \* an uncaught exception has ended the process

bufferVars == <<storage, buffers>>
viewVars == <<threadViews, baseViews, messages>>
memoryVars == <<argv, bufferVars, viewVars, crashed>>

isRA == argv.memoryModel \in {"ra", "sra"}

SC  == INSTANCE SCStorage
TSO == INSTANCE TSOStorage
PSO == INSTANCE PSOStorage
RA  == INSTANCE RAStorage WITH
    Models <- {"RA", "SRA"}, Managers <- {"random", "interactive"},
    AccessModes <- {"SEQ_CST", "REL", "ACQ", "REL_ACQ", "RLX"},
    FenceModes <- {"SEQ_CST", "REL", "ACQ", "REL_ACQ", "RLX"},
    Address <- 0 .. StorageSize,
    model <- IF argv.memoryModel = "sra" THEN "SRA" ELSE "RA",
    manager <- IF argv.executionMode = "rand" THEN "random" ELSE "interactive"

None == <<>>

MemoryTypeOK ==
    /\ \/ argv.memoryModel = "sc" /\ SC!TypeOK /\ buffers = None
       \/ argv.memoryModel = "tso" /\ TSO!TypeOK
       \/ argv.memoryModel = "pso" /\ PSO!TypeOK
       \/ isRA /\ RA!TypeOK /\ bufferVars = <<None, None>>
    /\ ~isRA => viewVars = <<None, None, None>>

MemoryInit ==
    /\ \/ argv.memoryModel = "sc" /\ SC!Init /\ buffers = None
       \/ argv.memoryModel = "tso" /\ TSO!Init
       \/ argv.memoryModel = "pso" /\ PSO!Init
       \/ isRA /\ RA!Init /\ storage = None /\ buffers = None
    /\ ~isRA => threadViews = None /\ baseViews = None /\ messages = None
-----------------------------------------------------------------------------
(* A step of the picked manager; the others do not exist.                  *)
Of(sc, tso, pso, ra) ==
    /\ UNCHANGED argv
    /\ \/ argv.memoryModel = "sc" /\ sc /\ UNCHANGED <<buffers, viewVars>>
       \/ argv.memoryModel = "tso" /\ tso /\ UNCHANGED viewVars
       \/ argv.memoryModel = "pso" /\ pso /\ UNCHANGED viewVars
       \/ isRA /\ ra /\ UNCHANGED bufferVars

(***************************************************************************)
(* RA and SRA do not check an address: one beyond the fence location is    *)
(* undefined behaviour and is left out.                                    *)
(***************************************************************************)
HasLog(a) == a \in RA!LogLocation

load(t, a, mode, v) ==
    Of(SC!Load(t, a, v), TSO!Load(t, a, v), PSO!Load(t, a, v),
       HasLog(a) /\ \E m \in messages[a] : m.value = v /\ RA!Load(t, a, mode, m))

badLoad(t, a) ==
    Of(SC!BadAccess(t, a), TSO!BadLoad(t, a), PSO!BadAccess(t, a), FALSE)

store(t, a, v, mode) ==
    Of(SC!Store(t, a, v) \/ SC!BadAccess(t, a),
       TSO!Store(t, a, v),
       PSO!Store(t, a, v) \/ PSO!BadAccess(t, a),
       HasLog(a) /\ RA!Store(t, a, v, mode))

compareAndSwap(t, a, expected, new, mode) ==
    Of(SC!CompareAndSwap(t, a, expected, new) \/ SC!BadAccess(t, a),
       TSO!CompareAndSwap(t, a, expected, new),
       PSO!CompareAndSwap(t, a, expected, new) \/ PSO!BadAccess(t, a),
       /\ HasLog(a)
       /\ \/ \E m \in messages[a] : RA!CompareAndSwap(t, a, expected, new, mode, m)
          \/ RA!NothingToUpdate(t, a))

fetchAndIncrement(t, a, increment, mode) ==
    Of(SC!FetchAndIncrement(t, a, increment) \/ SC!BadAccess(t, a),
       TSO!FetchAndIncrement(t, a, increment),
       PSO!FetchAndIncrement(t, a, increment) \/ PSO!BadAccess(t, a),
       /\ HasLog(a)
       /\ \/ \E m \in messages[a] : RA!FetchAndIncrement(t, a, increment, mode, m)
          \/ RA!NothingToUpdate(t, a))

(* The mode of a fence matters to RA and SRA only.                         *)
fence(t, mode) ==
    Of(SC!Fence(t), TSO!Fence(t), PSO!Fence(t),
       \/ mode = "SEQ_CST" /\ RA!SCFence(t)
       \/ \E m \in messages[RA!FenceLocation] : RA!AcquireFence(t, mode, m)
       \/ mode = "REL_ACQ" /\ RA!NothingToUpdate(t, RA!FenceLocation)
       \/ RA!ReleaseFence(t, mode))

(***************************************************************************)
(* An internal update that takes a store of thread t; SC, RA and SRA have  *)
(* none.                                                                   *)
(***************************************************************************)
propagate(t) ==
    Of(FALSE, TSO!Propagate(t), \E l \in Location : PSO!Propagate(t, l), FALSE)

(* A store of thread t has not reached the memory.                         *)
HasPending(t) ==
    \/ argv.memoryModel = "tso" /\ buffers[t] # <<>>
    \/ argv.memoryModel = "pso" /\ \E l \in Location : buffers[t][l] # <<>>

(* What location l holds once nothing is under way.                        *)
FinalValue(l) == IF isRA THEN RA!Latest(messages[l]).value ELSE storage[l]
=============================================================================
