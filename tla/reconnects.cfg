SPECIFICATION FairSpec
CONSTANTS
    A = A  B = B  e1 = e1  e2 = e2
    None = None
    Items = {A, B}
    Entries = {e1}
    MaxQueueLength = 2
    MaxEnded = 128
    Loop = TRUE
    InitialSequence <- MCInitialSequence
    Edits <- NoEdits
    Budgets <- ReconnectsBudgets
CHECK_DEADLOCK FALSE
PROPERTIES
    RotationResumes
