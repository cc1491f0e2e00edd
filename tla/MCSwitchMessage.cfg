SPECIFICATION Spec
CONSTANTS
    Cpus = {c1, c2}
    Procs = {p1, p2}
    Pieces = 2
    NoPid = NoPid
    Idle = Idle
    Free = Free
INVARIANT TypeOK
INVARIANT LockProtectsBuffer
INVARIANT BufferIsWhole
PROPERTY ActsAsRegister
PROPERTY ProbeEnds
PROPERTY ReadEnds
