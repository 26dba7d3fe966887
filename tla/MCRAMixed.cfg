CONSTANTS
    t1 = t1
    t2 = t2
    Thread = {t1, t2}
    StorageSize = 1
    Address = {0}
    MaxInt = 0
    Value = {0}
    Increment = {0}
    Models = {"RA", "SRA"}
    Managers = {"random", "interactive"}
    AccessModes = {"RLX", "REL_ACQ"}
    FenceModes = {"SEQ_CST", "REL", "ACQ", "REL_ACQ", "RLX"}
    Scale = 2
    MaxTime <- TimeBound
SYMMETRY ThreadSymmetry
SPECIFICATION Spec
INVARIANTS
    ViewsPointAtMessages
    BaseViewsAreCausal
PROPERTIES
    ViewsOnlyGrow
CHECK_DEADLOCK FALSE
