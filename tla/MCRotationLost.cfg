\* The README's RotationConfig: no failure, no restart, one interval.
CONSTANTS
    Configs <- Documented
    MaxBytes = 3
    BackupCount = 2
    MaxRecords = 8
    MaxClock = 2
    MaxFailures = 0
    MaxReopens = 0
SPECIFICATION RotationSpec
INVARIANT BackupsKept
\* every record may have been emitted
CHECK_DEADLOCK FALSE
