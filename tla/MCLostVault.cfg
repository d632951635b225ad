SPECIFICATION VaultSpec
CONSTANTS
    None = None
    Pins = {p1, p2}
    MaxAttempts = 2
    MaxTries = 2
    MaxWrites = 2
    MaxSalt = 2
    MaxSession = 2
    MaxTurn = 2
PROPERTY VaultStillOpens
CHECK_DEADLOCK FALSE
