CONSTANTS
    t1 = t1
    t2 = t2
    Thread = {t1, t2}
    StorageSize = 2
    Address = {0, 1, 2}
    MaxInt = 0
    Value <- OneBitValues
    Increment <- OneBitIncrement
    MaxBuffer = 2
SYMMETRY ThreadSymmetry
SPECIFICATION Spec
INVARIANTS
    TypeOK
PROPERTIES
    ReadYourWrites
    ImplementsStoreBuffers
CHECK_DEADLOCK FALSE
