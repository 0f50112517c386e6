SPECIFICATION Spec
CONSTANTS
    i1 = i1  i2 = i2  t1 = t1  t2 = t2  o1 = o1  o2 = o2  s1 = s1  s2 = s2  k1 = k1
    b1 = b1  b2 = b2  subject = subject
    x1 = x1  x2 = x2  console1 = console1  renderer1 = renderer1  operator = operator
    None = None  Missing = Missing  Nothing = Nothing
    Invitations = {i1, i2}
    Slots = {1, 2}
    Tabs = {t1, t2}
    Operators = {o1, o2}
    Sessions = {s1, s2}
    Commands = {k1}
    GuestBudgets <- NoGuests
    Consoles = {b1, b2}
    Subjects = {subject}
    SubjectOf <- SignIn
    PrefBudgets <- NoProfiles
    Scenes = {x1, x2}
    Scored = {x1, x2}
    ControlPages = {console1}
    Renderers = {renderer1}
    Mutators = {operator}
    RealtimeBudgets <- Overtaking
CHECK_DEADLOCK FALSE
INVARIANTS
    NoTransitionMissed
