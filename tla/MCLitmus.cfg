CONSTANTS
    MaxInt = 3
    Thread = {0, 1, 2, 3}
    StorageSize = 3
    LocalSize = 3
    SizeRange = 9
    Address = {0, 1, 2, 3, 4, 5, 6, 7, 8}
    Value = {0}
    Increment = {0}
    MaxBuffer = 2
    Scale = 4
    MaxTime <- Times
    Files <- Litmus
    CommandLines <- Explored
SPECIFICATION FairSpec
INVARIANTS
    TypeOK
    MessagePassing
    StoreBuffering
    Coherence
    WriteOrder
    AtomicUpdates
    HaltsWhenDone
    ThreadsWaitAtMemory
PROPERTIES
    Terminates
    PromptComesBack
CHECK_DEADLOCK FALSE
