SPECIFICATION Spec
CONSTANTS
    u1 = u1
    u2 = u2
    u3 = u3
    s1 = s1
    s2 = s2
    Users = {u1, u2, u3}
    Slots = {s1, s2}
    MaxLeaves = 4
    MaxEvents = 3
    MaxEpoch = 2
    ConfirmIsSlow = TRUE
    OneAddAtATime = TRUE
    NoQuickReturn = TRUE
INVARIANT RemovedExcluded
SYMMETRY Symmetry
CHECK_DEADLOCK FALSE
