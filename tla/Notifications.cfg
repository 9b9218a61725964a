SPECIFICATION FairSpec
CONSTANTS
    r1 = r1  r2 = r2  r3 = r3  u1 = u1  t1 = t1  t2 = t2
    Messages = {r1, r2, r3, u1}
    Tasks = {t1, t2}
    TaskOf <- TwoTasks
    Routine <- RoutineMessages
    Coalescing = {t1, t2}
    NoTask = NoTask
    Idle = Idle
    MaxPending = 2
    MaxDeliveries = 1
    Debounce = 1
    Window = 1
    MaxEpoch = 2
    MaxCrashes = 1
INVARIANT AnnouncedOnce
PROPERTIES PendingIsKept PromptsAreCurrent PendingIsFlushed
CHECK_DEADLOCK FALSE
