SPECIFICATION SumSpec
CONSTANTS
    MaxMine = 2
    MaxTheirs = 1
    PageSize = 2
    MaxLoads = 1
    Threads = {a, b}
    Nobody = Nobody
    MaxListed = 3
    MaxArrivals = 1
    MaxChanges = 1
SYMMETRY Symmetry
CONSTRAINT Bound
INVARIANT MessageTypeOK ListIsTheLog DraftsSettle 
CHECK_DEADLOCK FALSE
