SPECIFICATION Spec
CONSTANTS
    Pids = {p1, p2}
    Writers = {w1, w2}
    NumEvents = 2
    MaxStarts = 2
    NoTask = NoTask
INVARIANT TypeOK
 
INVARIANT NoOrphanEvent
PROPERTY WritesReturn
CHECK_DEADLOCK FALSE
