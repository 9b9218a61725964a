SPECIFICATION Spec
CONSTANTS
    m1 = m1  m2 = m2  r1 = r1  r2 = r2
    Messages = {m1, m2}
    Relays = {r1, r2}
    MaxRecords = 1
    MaxCrashes = 1
SYMMETRY MessageRelaySymmetry
INVARIANTS ResultIsTrue HistoryIsTrue
CHECK_DEADLOCK FALSE
