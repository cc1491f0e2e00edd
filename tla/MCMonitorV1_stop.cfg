SPECIFICATION Spec
CONSTANTS
    Cpus = {c1, c2}
    Writers = {w1}
    Pids = {p1, p2}
    CpuNumbers = {}
    Keys = {k1, k2}
    NumEvents = 1
    NoPid = NoPid
    Nobody = Nobody
    Hole = Hole
    MaxHits = 3
    MaxCommands = 3
CHECK_DEADLOCK FALSE
PROPERTY StopCompletes
