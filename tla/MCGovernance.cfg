\* Erasure beside encryption, routing beside its changes, spending under a cap.
CONSTANTS
    \* three encryptions, two confirmations of two requests, one failing step
    Encrypts = {e1, e2, e3}
    Confirms = {k1, k2}
    Requests = {x1, x2}
    MaxFailures = 1
    None = None
    \* an append, a read, two sets of the tenant, one of the global default
    t1 = t1
    in = in
    eu = eu
    a1 = a1
    r1 = r1
    s1 = s1
    s2 = s2
    s3 = s3
    Tenants = {t1}
    Regions = {in, eu}
    Global = Global
    Default = Default
    NoRow = NoRow
    Unfilled = Unfilled
    Appends = {a1}
    Reads = {r1}
    Sets = {s1, s2, s3}
    KeyOf <- OneTenant
    RegionOf <- ThreeRegions
    InitialRows <- EitherAssigned
    InitialRegions = {}
    \* two callers make five calls over two days, with a change of cap and a failure
    Callers = {c1, c2}
    Costs = {1, 3}
    InitialCap = 2
    Caps = {1, 3}
    Prior = 1
    WindowDays = 2
    Multiplier = 2
    MaxDay = 3
    MaxCalls = 5
    MaxCapChanges = 1
    MaxUnattributed = 1
    Unset = Unset
SPECIFICATION GovernanceSpec
SYMMETRY Symmetry
INVARIANTS
    ShredInv
    ErasedIsUnreadable
    ResidencyInv
    FailClosed
    ReadYourWrites
    QuotaInv
    OvershootBounded
    AnomalyAlerted
PROPERTY ShreddedForGood
\* everything may have ended
CHECK_DEADLOCK FALSE
