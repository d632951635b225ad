SPECIFICATION SumSpec
CONSTANTS
    Chats = {a}
    NoChat = NoChat
    MaxEntries = 3
    MaxBacks = 2
    Codes = {c1}
    None = None
    MaxStarts = 2
    MaxFlips = 2
    MaxReads = 3
    Emojis = {e1, e2}
    MaxToggles = 2
    MaxTheirs = 1
    Texts = {t1, t2, t3}
    Wordless = {t3}
    Nothing = Nothing
    MaxSearches = 2
    MarkKeys = {k1, k2}
    NoMark = NoMark
    NodeKinds = {p}
    Attributes = {t1}
    MaxNodes = 3
    MaxStates = 1
    Realms = 3
    SecretBytes = {0, 1, 83, 128, 255}
    RandomBytes = {0, 1, 77, 128, 202}
    Events = {"x", "y"}
    MaxBatch = 5
    MaxNewer = 1
INVARIANT
    RouteAgrees ScanSound SettingsAgree   DrawingRight
    SharesWork TreeSound FramesSurvive
PROPERTY CameraReleased
CHECK_DEADLOCK FALSE
