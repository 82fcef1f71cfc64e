CONSTANTS
    player = player
    i1 = i1
    i2 = i2
    None = None
    Objects <- MCObjects
    Intervals <- MCIntervals
    Periods <- MCPeriods
    FramePeriods <- MCFramePeriods
    Msecs <- MCMsecs
    TicksPerMsec = 2
    Throttle = 4
    MaxTime = 6
    MaxExternal = 2
SPECIFICATION Spec
INVARIANTS
    IInv
    NeverLate
PROPERTIES
    NewTimeoutIsLast
    NoActionInItsOwnPass
    Throttled
    PassEnds
CHECK_DEADLOCK FALSE
