SPECIFICATION Spec
CONSTANTS
    Cpus = {c1, c2}
    Tasks = {t1, t2}
    Idle = Idle
    NumEvents = 1
    Slots = 1
    Width = 3
    MaxTicks = 2
INVARIANT CountsByPid
CHECK_DEADLOCK FALSE
