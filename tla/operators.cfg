SPECIFICATION Spec
CONSTANTS
    A = A  B = B  e1 = e1  e2 = e2
    None = None
    Items = {A, B}
    Entries = {e1}
    MaxQueueLength = 2
    MaxEnded = 128
    Loop = TRUE
    InitialSequence <- MCInitialSequence
    Edits <- DropsB
    Budgets <- OperatorsBudgets
CHECK_DEADLOCK FALSE
PROPERTIES
    NeverStranded
    FrozenTakesNoTurn
    IdleMissesOnlyNotedEnds
