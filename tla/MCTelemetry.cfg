\* Instrumented blocks and their emissions; and the handlers that rotate the log.
CONSTANTS
    \* two tasks and a host, in each of six small scopes
    a = a
    b = b
    h = h
    s1 = s1
    s2 = s2
    t1 = t1
    Tasks = {a, b}
    Hosts = {h}
    Foreign = Foreign
    Callers <- AllThreads
    Lookers = {a, b}
    Setters = {s1, s2}
    Tenants = {t1}
    Global = Global
    KeySet <- OneKey
    ValueSet <- InThenOut
    Default = "out"
    SpanScopes <- SmallScopes
    \* every kind of handler over seven records of which the second would fill a
    \* file, four intervals, two failures and one restart
    Configs <- EveryTrigger
    MaxBytes = 2
    BackupCount = 3
    MaxRecords = 7
    MaxClock = 4
    MaxFailures = 2
    MaxReopens = 1
SPECIFICATION TelemetrySpec
SYMMETRY Symmetric
INVARIANTS
    SpansInv
    TraceIsTheTree
    EmissionFailsOpen
    PipelineSound
    RotationInv
    LostOnlyByReuse
PROPERTY GrowsOnlyWhenTaken
\* everything may have ended, and every record been emitted
CHECK_DEADLOCK FALSE
