SPECIFICATION Spec
CONSTANTS
    Cpus = {c1, c2}
    Tasks = {t1, t2}
    Idle = Idle
    NumEvents = 2
    Slots = 1
    Width = 3
    MaxTicks = 4
INVARIANT TypeOK
INVARIANT NothingLostOrDoubled
CHECK_DEADLOCK FALSE
INVARIANT CoversPinnedTarget
SYMMETRY Symmetry
