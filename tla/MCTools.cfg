SPECIFICATION Spec
CONSTANTS
    Cpus = {c1, c2}
    Counters <- MCCounters
    Wrap = 2
    NoEvent = NoEvent
    MaxLoads = 2
    MaxMoves = 1
    MaxEvents = 2
    MaxWork = 3
INVARIANT TypeOK
INVARIANT ValuesCoverLoad
INVARIANT OffAfterUnload
INVARIANT PrintedIsFinal
INVARIANT ReportedIsStill
PROPERTY WaitersEnd
CHECK_DEADLOCK FALSE
