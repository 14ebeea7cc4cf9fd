SPECIFICATION Spec
CONSTANTS
    a = a
    b = b
    m = m
    n = n
    o = o
    Lanes = {a, b}
    Deferred = {a}
    Inputs = {m, n}
    Notices = {n}
    RedeliveryLimit = 1
    NoLane = NoLane
    NoOp = NoOp
    MaxFaults = 1
    MaxRestarts = 0
    MaxStops = 0
    MaxCreates = 1
INVARIANTS
    NoticeKept
\* An idle chat takes no step of its own.
CHECK_DEADLOCK FALSE
