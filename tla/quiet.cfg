SPECIFICATION AutomationSpec
CONSTANTS
    A = A  B = B  e1 = e1  e2 = e2
    None = None  Null = Null  Unset = Unset
    Items = {A, B}
    Entries = {e1, e2}
    MaxQueueLength = 2
    MaxEnded = 128
    Loop = TRUE
    InitialSequence <- MCInitialSequence
    Edits <- NoEdits
    Budgets <- QuietBudgets
    Playlists <- SomePlaylists
    Catalogue <- SomeCatalogue
    Interval = 2
    MaxFavorites = 12
    Retention = 5
    Stations <- SomeStations
    Songs = {1, 2, 3, 4, 5, 6}
    Artists = {"x", "y", "z"}
    Artist <- SomeArtists
    Length <- SomeLengths
    MaxEvents = 6
    Jobs <- SomeJobs
CHECK_DEADLOCK FALSE
INVARIANTS
    SettledAgreement
    ChoicesTypeOK
    AlwaysPlayable
    LogIsLegal
PROPERTIES
    NeverCommandsAgain
    NeverCutsOff
    FollowsThePlaylist
    QuotaIsKept
