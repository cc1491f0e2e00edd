SPECIFICATION Spec
CONSTANTS
    Cpus = {c1, c2}
    Writers = {w1, w2}
    Pids = {p1, p2}
    CpuNumbers = {p1, p2}
    Keys = {k1, k2}
    NumEvents = 2
    NoPid = NoPid
    Nobody = Nobody
    Hole = Hole
    MaxHits = 2
    MaxCommands = 3
INVARIANT TypeOK
INVARIANT ListIsKeyed
INVARIANT EventsStayInsideProbe
 
INVARIANT UnloadIsSafe
 
 
CHECK_DEADLOCK FALSE
