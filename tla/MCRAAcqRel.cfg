CONSTANTS
    t1 = t1
    t2 = t2
    Thread = {t1, t2}
    StorageSize = 1
    Address = {0}
    MaxInt = 0
    Value = {0}
    Increment <- OneBitIncrement
    Models = {"RA"}
    Managers = {"random"}
    AccessModes = {"REL_ACQ"}
    FenceModes = {"SEQ_CST", "REL_ACQ"}
    Scale = 2
    MaxTime <- TimeBound
SYMMETRY ThreadSymmetry
SPECIFICATION OrderSpec
INVARIANTS
    TypeOK
    ViewsPointAtMessages
    Causality
    UpdatesAreExclusive
    EndsHaveACause
    UpdatesAreAdjacent
PROPERTIES
    NeverReadsBack
    ViewsOnlyGrow
    SCFencesOrderWrites
CHECK_DEADLOCK FALSE
