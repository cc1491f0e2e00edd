SPECIFICATION Spec
CONSTANTS
    Pids = {p1, p2}
    Writers = {w1}
    NumEvents = 2
    MaxStarts = 3
    NoTask = NoTask
CHECK_DEADLOCK FALSE
 
 
PROPERTY ActsAsSessions
 
PROPERTY UnloadEnds
