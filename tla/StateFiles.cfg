SPECIFICATION FairSpec
CONSTANTS
    h1 = h1  h2 = h2  t1 = t1  t2 = t2  t3 = t3
    registry = registry  inbox = inbox
    Processes = {h1, h2}
    Threads = {t1, t2, t3}
    Home <- HomeOf
    Registry = registry
    Others = {inbox}
    Free = Free
    MaxUpdates = 2
    MaxDeaths = 1
INVARIANT LoadedIsCurrent
PROPERTIES IsAtomicStore TransactionsEnd
CHECK_DEADLOCK FALSE
