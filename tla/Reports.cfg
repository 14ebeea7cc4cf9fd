SPECIFICATION FairSpec
CONSTANTS
    MaxBatch = 2
    MaxOdd = 2
INVARIANTS
    TypeOK
    AckedWasTold
    NothingSkipped
    ClosedIsOver
PROPERTIES
    ImplementsOutcome
    GoneIsTold
\* A job that has ended takes no step.
CHECK_DEADLOCK FALSE
