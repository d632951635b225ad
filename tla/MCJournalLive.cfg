SPECIFICATION FairSpec
CONSTANTS
    e1 = e1
    b1 = b1
    w1 = w1
    w2 = w2
    f1 = f1
    Foreign = Foreign
    Events = {e1}
    Batches = {b1}
    Comments = {b1}
    Workers = {w1, w2}
    Flushers = {f1}
    ScanLimit = 2
    MaxChain = 2
    MaxRetries = 1
    MaxPolls = 0
    MaxFaults = 1
    Limit = 1
    MaxPending = 1
    LockCoversFlush = TRUE
INVARIANT ConfirmedIsAnchored ConfirmedBatchIsWhole
PROPERTY EventIsBatched PendingIsResolved
