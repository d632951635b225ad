SPECIFICATION SumSpec
CONSTANTS
    Members = {a, b}
    Slots = {s1, s2}
    NoKey = NoKey
    MaxDirectEpoch = 2
    MaxMade = 2
    MaxLosses = 1
    MaxKeyResets = 1
    Capacity = 4
    Syncs = {y1}
    Rotation = rot
    MaxCommits = 3
    MaxChanges = 1
    MaxResets = 1
SYMMETRY Symmetry
CONSTRAINT Bound
INVARIANT KeysAgree  OneEpochUntilReset EpochsOpen
CHECK_DEADLOCK FALSE
