SPECIFICATION Spec
CONSTANTS
    w1 = w1
    w2 = w2
    s1 = s1
    s2 = s2
    Wallets = {w1, w2}
    Slots = {s1, s2}
INVARIANT WalletRemains
CHECK_DEADLOCK FALSE
