SPECIFICATION FairSpec
CONSTANTS
    L1 = L1
    L2 = L2
    a = a
    b = b
    x = x
    None = None
    Logs = {L1}
    Cues = {a, b, x}
    Setups <- MCBlocks
    Edits <- MCNoEdits
    Window = 1
    SongEndTimeout = 1
    MaxClock = 3
INVARIANTS
    TypeOK
    AwaitedEndComes
    CuesAirInOrder
    NoFillerSkipped
    RunningRowRuns
    TimersAreHeld
PROPERTIES
    NeverSilentForGood
    FixedStartsTaken
CHECK_DEADLOCK FALSE
