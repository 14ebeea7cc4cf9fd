SPECIFICATION FairSpec
CONSTANTS
    a = a
    b = b
    m = m
    n = n
    o = o
    Lanes = {a, b}
    Deferred = {a}
    Inputs = {m, n}
    Notices = {n}
    RedeliveryLimit = 0
    NoLane = NoLane
    NoOp = NoOp
    MaxFaults = 0
    MaxRestarts = 0
    MaxStops = 0
    MaxCreates = 1
PROPERTIES
    ChatRests
\* An idle chat takes no step of its own.
CHECK_DEADLOCK FALSE
