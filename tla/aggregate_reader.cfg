SPECIFICATION Spec
CONSTANTS
    MaxBytes = 4
    MaxWritten = 5
    MaxCuts = 1
INVARIANTS
    ReaderInv
    EveryLineOnce
CHECK_DEADLOCK FALSE
