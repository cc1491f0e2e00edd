SPECIFICATION SampledSpec
CONSTANTS
    Cpus = {c1, c2}
    Procs = {p1, p2}
    Pieces = 1
    NoPid = NoPid
    Idle = Idle
    Free = Free
PROPERTY SampleCompletes
CHECK_DEADLOCK FALSE
