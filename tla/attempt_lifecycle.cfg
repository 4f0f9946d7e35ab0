SPECIFICATION Spec
CONSTANT Attempts = 2
INVARIANTS
    LifecycleInv
    NothingLeftUnreported
    SummaryTellsTheTruth
    
    RetriesExactlyTransientFailures
    SummaryMarksCompletion
CHECK_DEADLOCK FALSE
