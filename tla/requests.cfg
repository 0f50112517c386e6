SPECIFICATION Spec
CONSTANTS
    L1 = L1
    L2 = L2
    a = a
    b = b
    x = x
    None = None
    Logs = {L1, L2}
    Cues = {a, b, x}
    Setups <- MCOperators
    Edits <- MCEdits
    Window = 1
    SongEndTimeout = 1
    MaxClock = 2
PROPERTIES
    ClaimsAreFresh
    PlayedItemsKept
CHECK_DEADLOCK FALSE
