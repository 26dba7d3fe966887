CONSTANTS
    t1 = t1
    t2 = t2
    Thread = {t1, t2}
    StorageSize = 1
    Address = {0}
    MaxInt = 0
    Value = {0}
    Increment <- OneBitIncrement
    Models = {"RA", "SRA"}
    Managers = {"random"}
    AccessModes = {"RLX"}
    FenceModes = {"REL", "ACQ", "REL_ACQ", "SEQ_CST"}
    Scale = 2
    MaxTime <- TimeBound
SYMMETRY ThreadSymmetry
VIEW WithoutObserved
SPECIFICATION OrderSpec
INVARIANTS
    Causality
    FencesHandOn
    UpdatesAreExclusive
    EndsHaveACause
PROPERTY SCFencesOrderWrites
CHECK_DEADLOCK FALSE
