SPECIFICATION Spec
CONSTANTS
    L1 = L1
    L2 = L2
    a = a
    b = b
    x = x
    None = None
    Logs = {L1, L2}
    Cues = {a, b, x}
    Setups <- MCAired
    Edits <- MCEdits
    Window = 1
    SongEndTimeout = 1
    MaxClock = 2
PROPERTIES
    AiredLogsAreFrozen
CHECK_DEADLOCK FALSE
