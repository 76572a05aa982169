\* Registrations with promotions and a clear, and both with reruns of the host.
CONSTANTS
    r1 = r1
    r2 = r2
    g1 = g1
    g2 = g2
    p1 = p1
    p2 = p2
    c1 = c1
    e1 = e1
    e2 = e2
    Processes = {r1, r2}
    Registers = {g1, g2}
    Reruns = {e1, e2}
    Promotes = {p1, p2}
    Clears = {c1}
    Outcomes <- SomeOutcomes
    PassRateMaxDrop = 2
    CostMaxIncrease = 15
    P95MaxIncrease = 20
    Scopes <- SmallScopes
    Absent = Absent
SPECIFICATION FairPrompts
INVARIANT PromptInv
PROPERTIES
    GateHoldsAlone
    DetectedIsScored
\* every call may have ended
CHECK_DEADLOCK FALSE
