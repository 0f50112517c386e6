SPECIFICATION Spec
CONSTANTS
    A = A  B = B  e1 = e1  e2 = e2
    None = None
    Items = {A, B}
    Entries = {e1, e2}
    MaxQueueLength = 2
    MaxEnded = 128
    Loop = TRUE
    InitialSequence <- MCInitialSequence
    Edits <- NoEdits
    Budgets <- FailuresBudgets
CHECK_DEADLOCK FALSE
INVARIANTS
    TypeOK
    ClaimedBeforeCommanded
    ActiveEntryOwnsHead
PROPERTIES
    EntryLeavesAfterItsEnd
