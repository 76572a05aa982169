\* Two streams whose names sanitise to one directory.
CONSTANTS
    s1 = s1
    s2 = s2
    s3 = s3
    tenantA = tenantA
    tenantB = tenantB
    e1 = e1
    e2 = e2
    r1 = r1
    w1 = w1
    w2 = w2
    Streams = {s1, s2, s3}
    TenantOf <- TwoTenants
    DirOf <- TwoDirs
    Interval <- Intervals
    RootOf <- Roots
    Readers = {r1}
    Waits = {w1, w2}
    MaxVersion = 3
    Scopes <- OneDirectory
    Unset = Unset
    Lookers <- AllThreads
    Setters = {e1, e2}
    Tenants = {}
    Global = Global
    KeySet <- GlobalKey
    ValueSet <- MovedThenOff
    Default = "default"
SPECIFICATION Spec
INVARIANTS
    ReplaysOwnStream
\* everything may have ended
CHECK_DEADLOCK FALSE
