CONSTANTS
    t1 = t1
    t2 = t2
    Thread = {t1, t2}
    StorageSize = 1
    Address = {0}
    MaxInt = 0
    Value = {0}
    Increment <- OneBitIncrement
    Models = {"RA"}
    Managers = {"random"}
    AccessModes = {"RLX"}
    FenceModes = {}
    Scale = 4
    MaxTime <- TimeBound
SYMMETRY ThreadSymmetry
SPECIFICATION OrderSpec
PROPERTY NeverReadsBack
CHECK_DEADLOCK FALSE
