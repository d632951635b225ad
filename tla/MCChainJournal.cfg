SPECIFICATION Spec
CONSTANTS
    e1 = e1
    e2 = e2
    b1 = b1
    b2 = b2
    w1 = w1
    f1 = f1
    f2 = f2
    Foreign = Foreign
    Events = {e1, e2}
    Batches = {b1, b2}
    Comments = {b1, b2}
    Workers = {w1}
    Flushers = {f1, f2}
    ScanLimit = 2
    MaxChain = 2
    MaxRetries = 0
    MaxPolls = 1
    MaxFaults = 1
    Limit = 2
    MaxPending = 2
    LockCoversFlush = TRUE
INVARIANT OneBatchPerEvent
PROPERTY ImplementsJournal
SYMMETRY Symmetry
