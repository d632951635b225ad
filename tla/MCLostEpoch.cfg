SPECIFICATION GroupClientSpec
CONSTANTS
    Capacity = 4
    Syncs = {s1}
    Rotation = rot
    MaxCommits = 3
    MaxChanges = 1
    MaxResets = 1
INVARIANT NoEpochLost
CHECK_DEADLOCK FALSE
