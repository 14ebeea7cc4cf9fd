SPECIFICATION FairSpec
CONSTANTS
    t = t
    c = c
    Entries = {t, c}
    Timed = {t}
    MaxPending = 2
    MaxAttempts = 2
    NoEntry = NoEntry
    MaxCrashes = 2
    MaxDiskFaults = 1
    MaxSendFaults = 2
INVARIANTS
    TypeOK
    DeliveredOnce
    FiredWasDelivered
    NotSentUnlessForgotten
PROPERTIES
    CancelKept
    SettledStays
    DueSettles
\* A scheduler without entries to try has nothing to do.
CHECK_DEADLOCK FALSE
