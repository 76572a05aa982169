\* The OCC append: three calls, two attempts each.
CONSTANTS
    Calls = {c1, c2, c3}
    MaxRetries = 2
    MaxClock = 1
    NoHash = NoHash
SPECIFICATION FairSpec
INVARIANTS
    LogInv
    ChainVerifies
    TimeTravelExact
    ConflictsPaidFor
PROPERTIES
    ImplementsLog
    AppendEnds
\* every call may have ended
CHECK_DEADLOCK FALSE
