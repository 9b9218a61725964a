SPECIFICATION Spec
CONSTANTS
    p1 = p1  p2 = p2  p3 = p3
    Pids = {p1, p2, p3}
    NoPid = NoPid
    Attempts = 2
PROPERTY WorkersRefuseOwned
CHECK_DEADLOCK FALSE
