SPECIFICATION Spec
CONSTANTS
    a = a
    b = b
    m = m
    n = n
    o = o
    Lanes = {a}
    Deferred = {a}
    Inputs = {m, n, o}
    Notices = {}
    RedeliveryLimit = 0
    NoLane = NoLane
    NoOp = NoOp
    MaxFaults = 2
    MaxRestarts = 1
    MaxStops = 0
    MaxCreates = 1
INVARIANTS
    Reopens
SYMMETRY Alike
\* An idle chat takes no step of its own.
CHECK_DEADLOCK FALSE
