SPECIFICATION SumSpec
CONSTANTS
    None = None
    Pins = {p1, p2}
    MaxAttempts = 2
    MaxTries = 2
    MaxWrites = 2
    MaxSalt = 2
    MaxSession = 2
    MaxTurn = 2
    Nothing = Nothing
    MaxRequest = 2
    Realms = {r1, r2, r3}
    Threshold = 2
    Passcodes = {c1, c2}
    Devices = {d1}
    Tries = 2
    MaxVersions = 2
    MaxGuesses = 3
    MaxTurns = 1
SYMMETRY Symmetry
CONSTRAINT Bound
INVARIANT
    VaultTypeOK PinOpensVault VaultHoldsToken TokenPresentedOnce GuessesBounded
    NothingOrphaned 
CHECK_DEADLOCK FALSE
