SPECIFICATION Spec
CONSTANTS
    m = m
    q = q
    g = g
    h = h
    Inputs = {m}
    Steers = {q, g, h}
    Staged = {q}
    Agents = {g}
    None = None
    MaxFaults = 1
INVARIANTS
    TypeOK
    OneOwner
    PendingOwned
    AppliedWasTaken
    TakenOnce
    InOrder
    ReceiptsFit
\* A chat whose inputs are answered takes no step.
CHECK_DEADLOCK FALSE
