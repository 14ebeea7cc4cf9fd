SPECIFICATION FairSpec
CONSTANTS
    a = a
    b = b
    m = m
    n = n
    o = o
    Lanes = {b}
    Deferred = {}
    Inputs = {n}
    Notices = {n}
    RedeliveryLimit = 1
    NoLane = NoLane
    NoOp = NoOp
    MaxFaults = 1
    MaxRestarts = 1
    MaxStops = 1
    MaxCreates = 1
PROPERTIES
    ForegroundSettles
    ThreadKept
\* An idle chat takes no step of its own.
CHECK_DEADLOCK FALSE
