SPECIFICATION Spec
CONSTANTS
    d1 = d1  c1 = c1  c2 = c2  k1 = k1  k2 = k2
    None = None
    Destinations = {d1}
    Commands = {c1, c2}
    Clients = {k1, k2}
    Pins = {1, 2}
    AlanaSequence = 1
    Budget <- CommandsBudget
SYMMETRY Symmetric
CHECK_DEADLOCK FALSE
INVARIANTS
    TypeOK
    SuccessIsReal
    RunsTheSnapshot
PROPERTIES
    TakesEffectInOrder
