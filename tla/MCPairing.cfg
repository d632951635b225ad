SPECIFICATION Spec
CONSTANTS
    d1 = d1
    r1 = r1
    r2 = r2
    t1 = t1
    t2 = t2
    t3 = t3
    s1 = s1
    s2 = s2
    Devices = {d1, r1, r2}
    Requests = {r1, r2}
    Tokens = {t1, t2, t3}
    Slots = {s1, s2}
    Limit = 1
INVARIANT OneLiveToken RevokedStaysOut OpenCodeIsCounted
PROPERTY LastDeviceStays RejectedStaysOut
SYMMETRY Symmetry
CHECK_DEADLOCK FALSE
