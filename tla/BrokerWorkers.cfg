SPECIFICATION FairSpec
CONSTANTS
    e1 = e1  e2 = e2  p1 = p1  p2 = p2  p3 = p3  c1 = c1  c2 = c2  s1 = s1
    Endpoints = {e1, e2}
    Procs = {p1,p2,p3}
    Calls = {c1, c2}
    Probes = {s1}
    EndpointOf <- Split
    Nobody = Nobody  Supervisor = Supervisor  NoProc = NoProc  Ready = Ready  Stopped = Stopped
    MaxEndpoints = 1
    MaxCrashes = 1
    MaxStarts = 2
INVARIANTS ExecutedAsTold AnswersAreOwn Supervised
PROPERTIES RequestsEnd LostIsRestarted
CHECK_DEADLOCK FALSE
