CONSTANTS
    MaxInt = 3
    SizeRange = 9
    Line <- Lines
    MaxLines = 2
SPECIFICATION Spec
INVARIANT CommandsAreReadBack
CHECK_DEADLOCK FALSE
