SPECIFICATION Spec
CONSTANTS
    c1 = c1  c2 = c2  s1 = s1  s2 = s2
    Requests = {c1, c2}
    Slots = {s1, s2}
    NoRequest = NoRequest
    Window = 2
    Retention = 4
    MaxSeen = 1
    MaxTime = 6
    MaxInstances = 2
SYMMETRY RequestThreadSymmetry
INVARIANT AnswerIsTrue
PROPERTY ReplayNeedsWait
CHECK_DEADLOCK FALSE
