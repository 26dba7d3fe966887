CONSTANTS
    MaxInt = 3
    SizeRange = 9
    Line <- Lines
    MaxLines = 4
SPECIFICATION Spec
INVARIANTS
    ThreadsAreAsWritten
    ErrorsNameTheirLine
    PrintedIsReadBack
CHECK_DEADLOCK FALSE
