------------------------------ MODULE Rotation ------------------------------
(***************************************************************************)
(* rotation.py: the log file under the handler that build_rotating_handler  *)
(* selects for a RotationConfig.  The handlers are the standard library's    *)
(* (external); rotation.py adds the combined trigger and the compressing     *)
(* rotator to the way they shift, name and expire backups.  A handler emits  *)
(* under its own lock, so one record at a time; a system call of a rollover  *)
(* may fail, and the process may die or configure again between two of them. *)
(***************************************************************************)
EXTENDS Naturals, Sequences, SequencesExt, FiniteSets, Functions

CONSTANTS
    Configs,        \* the RotationConfigs: which triggers, and compress_backups
    MaxBytes,       \* max_size_mb, in records of one size
    BackupCount,    \* backup_count
    MaxRecords, MaxClock, MaxFailures, MaxReopens    \* bounds

ASSUME RotationAssumption ==
    /\ Configs \subseteq [size : BOOLEAN, time : BOOLEAN, gz : BOOLEAN]
    /\ MaxBytes \in Nat \ {0, 1} /\ BackupCount \in Nat \ {0}
    /\ {MaxRecords, MaxFailures, MaxReopens} \subseteq Nat /\ MaxClock \in Nat \ {0}

VARIABLES
    config,         \* the RotationConfig in force
    clock,          \* the interval the time is in
    rolloverAt,     \* the interval in which the time trigger fires
    logFile,        \* the log file: its records, the interval of its mtime
    backups,        \* the backups, by number (size trigger) or interval (time)
    roll,           \* the rollover under way: place, record, name, time
    written,        \* records emitted so far
    dropped,        \* those whose emission failed
    attempts,       \* history: rollovers begun
    movedAt,        \* history: the attempt that moved a record out of the log
    reused,         \* history: records of a backup whose name was used again
    failures, reopens

env == <<config, failures, reopens>>
rotationVars == <<env, clock, rolloverAt, logFile, backups, roll, written, dropped,
                  attempts, movedAt, reused>>

Fresh == [exists |-> TRUE, records |-> <<>>, mtime |-> clock]
Missing == [exists |-> FALSE, records |-> <<>>, mtime |-> 0]
Idle == [pc |-> "idle", record |-> 0, name |-> 0, shift |-> 0, now |-> 0]

RotationInit ==
    /\ config \in Configs
    /\ clock = 1 /\ rolloverAt = 2
    /\ logFile = Fresh /\ backups = <<>> /\ roll = Idle
    /\ written = 0 /\ dropped = {}
    /\ attempts = 0 /\ movedAt = <<>> /\ reused = {}
    /\ failures = 0 /\ reopens = 0

\* build_rotating_handler: RotatingFileHandler, which numbers its backups, when
\* there is no interval; a time handler names them by the interval.
Numbers == ~config.time

\* The handlers look for a backup by its name without the rotator's ".gz".
Taken(name) == ~config.gz /\ name \in DOMAIN backups

\* The time handlers delete old backups, which they know by names that end in a date
\* and nothing more: never the rotator's archives.
Expiring == config.time /\ ~config.gz

Opened == IF logFile.exists THEN logFile ELSE Fresh
Extended(r) == [exists |-> TRUE, records |-> Append(Opened.records, r), mtime |-> clock]

Without(name) == Restrict(backups, DOMAIN backups \ {name})
Store(name, records) ==
    [k \in DOMAIN backups \union {name} |-> IF k = name THEN records ELSE backups[k]]

\* history: what a backup held and the log does not, when its name is used again
Overwritten(name) ==
    IF name \in DOMAIN backups
    THEN reused \union (ToSet(backups[name]) \ ToSet(logFile.records)) ELSE reused

Moved == [r \in DOMAIN movedAt \union ToSet(logFile.records) |->
             IF r \in ToSet(logFile.records) THEN attempts ELSE movedAt[r]]

-----------------------------------------------------------------------------
TimeIsUp == config.time /\ clock >= rolloverAt

ShouldRolloverOnTimeOnly == TimeIsUp   \* the size is not asked about

\* SizeAndTimeRotatingFileHandler.shouldRollover, and the plain handlers': the
\* interval is over, or the record would fill the file.
ShouldRollover ==
    \/ TimeIsUp
    \/ config.size /\ Len(logFile.records) + 1 >= MaxBytes

\* emit: roll over first if need be.  Asking for the size opens the file.
Emit ==
    /\ roll.pc = "idle" /\ written < MaxRecords
    /\ written' = written + 1
    /\ IF ShouldRollover
       THEN /\ attempts' = attempts + 1
            /\ roll' = [pc |-> IF Numbers THEN "shift" ELSE "clear",
                        record |-> written', now |-> clock,
                        shift |-> BackupCount - 1,
                        name |-> IF Numbers THEN 1 ELSE rolloverAt - 1]
            /\ logFile' = IF TimeIsUp THEN logFile ELSE Opened
       ELSE /\ logFile' = Extended(written')
            /\ UNCHANGED <<roll, attempts>>
    /\ UNCHANGED <<env, clock, rolloverAt, backups, dropped, movedAt, reused>>

\* RotatingFileHandler.doRollover: each backup to the next number, from the end.
Shift ==
    LET i == roll.shift IN
    /\ roll.pc = "shift"
    /\ IF i = 0 THEN roll' = [roll EXCEPT !.pc = "clear"] /\ UNCHANGED backups
       ELSE /\ backups' = IF Taken(i)
                          THEN [k \in (DOMAIN backups \ {i}) \union {i + 1} |->
                                   IF k = i + 1 THEN backups[i] ELSE backups[k]]
                          ELSE backups
            /\ roll' = [roll EXCEPT !.shift = i - 1]
    /\ UNCHANGED <<env, clock, rolloverAt, logFile, written, dropped, attempts, movedAt,
                   reused>>

\* TimedRotatingFileHandler.doRollover of Python 3.14: a backup of that name means
\* that the rollover is done; the time of the next stays where it is.
SkipRollover ==
    /\ roll.pc = "clear" /\ ~Numbers /\ Taken(roll.name)
    /\ logFile' = Extended(roll.record)
    /\ roll' = Idle
    /\ UNCHANGED <<env, clock, rolloverAt, backups, written, dropped, attempts,
                   movedAt, reused>>

ClearName ==
    /\ roll.pc = "clear"
    /\ Taken(roll.name) => Numbers
    /\ backups' = IF Taken(roll.name) THEN Without(roll.name) ELSE backups
    /\ roll' = [roll EXCEPT !.pc = IF config.gz THEN "compress" ELSE "rename"]
    /\ UNCHANGED <<env, clock, rolloverAt, logFile, written, dropped, attempts, movedAt,
                   reused>>

\* rotate without a rotator: rename the log, if it is there.
Rename ==
    /\ roll.pc = "rename"
    /\ IF logFile.exists
       THEN /\ backups' = Store(roll.name, logFile.records)
            /\ movedAt' = Moved /\ logFile' = Missing
       ELSE UNCHANGED <<backups, movedAt, logFile>>
    /\ roll' = [roll EXCEPT !.pc = "expire"]
    /\ UNCHANGED <<env, clock, rolloverAt, written, dropped, attempts, reused>>

-----------------------------------------------------------------------------
\* _gzip_rotator: open the log (FileNotFoundError when it is gone), truncate the
\* archive, copy, and only then remove the log.
SourceMissing ==
    /\ roll.pc = "compress" /\ ~logFile.exists
    /\ dropped' = dropped \union {roll.record}
    /\ roll' = Idle
    /\ UNCHANGED <<env, clock, rolloverAt, logFile, backups, written, attempts, movedAt,
                   reused>>

OpenArchive ==
    /\ roll.pc = "compress" /\ logFile.exists
    /\ backups' = Store(roll.name, <<>>)
    /\ reused' = Overwritten(roll.name)
    /\ roll' = [roll EXCEPT !.pc = "copy"]
    /\ UNCHANGED <<env, clock, rolloverAt, logFile, written, dropped, attempts, movedAt>>

CopyContents ==
    /\ roll.pc = "copy"
    /\ backups' = Store(roll.name, logFile.records)
    /\ roll' = [roll EXCEPT !.pc = "remove"]
    /\ UNCHANGED <<env, clock, rolloverAt, logFile, written, dropped, attempts, movedAt,
                   reused>>

RemoveSource ==
    /\ roll.pc = "remove"
    /\ movedAt' = Moved /\ logFile' = Missing
    /\ roll' = [roll EXCEPT !.pc = "expire"]
    /\ UNCHANGED <<env, clock, rolloverAt, backups, written, dropped, attempts, reused>>

-----------------------------------------------------------------------------
KeepAll ==                           \* backup_count is not passed on
    /\ roll.pc = "expire"
    /\ roll' = [roll EXCEPT !.pc = "open"]
    /\ UNCHANGED <<env, clock, rolloverAt, logFile, backups, written, dropped, attempts,
                   movedAt, reused>>

\* The time handlers keep the backup_count last names of those they know.
Expire ==
    /\ roll.pc = "expire"
    /\ backups' = IF ~Expiring THEN backups
                  ELSE Restrict(backups, {n \in DOMAIN backups :
                           Cardinality({k \in DOMAIN backups : k > n}) < BackupCount})
    /\ roll' = [roll EXCEPT !.pc = "open"]
    /\ UNCHANGED <<env, clock, rolloverAt, logFile, written, dropped, attempts, movedAt,
                   reused>>

\* Open the new log, compute the next time, and write the record.
OpenAndWrite ==
    /\ roll.pc = "open"
    /\ logFile' = Extended(roll.record)
    /\ rolloverAt' = IF Numbers THEN rolloverAt ELSE roll.now + 1
    /\ roll' = Idle
    /\ UNCHANGED <<env, clock, backups, written, dropped, attempts, movedAt, reused>>

-----------------------------------------------------------------------------
FailRemoving ==                      \* the log is removed although the copy failed
    /\ roll.pc # "idle" /\ failures < MaxFailures
    /\ failures' = failures + 1
    /\ dropped' = dropped \union {roll.record}
    /\ roll' = Idle
    /\ IF roll.pc = "copy" THEN logFile' = Missing /\ movedAt' = Moved
       ELSE UNCHANGED <<logFile, movedAt>>
    /\ UNCHANGED <<config, reopens, clock, rolloverAt, backups, written, attempts,
                   reused>>

\* A system call of the rollover fails: emit hands the record to handleError.
Fail ==
    /\ roll.pc # "idle" /\ failures < MaxFailures
    /\ failures' = failures + 1
    /\ dropped' = dropped \union {roll.record}
    /\ roll' = Idle
    /\ UNCHANGED <<config, reopens, clock, rolloverAt, logFile, backups, written,
                   attempts, movedAt, reused>>

\* The process dies and starts again, or configures again: the handler is built
\* anew on the file there is, whose mtime says when its interval is over.
Reopen ==
    /\ reopens < MaxReopens
    /\ reopens' = reopens + 1
    /\ logFile' = Opened
    /\ rolloverAt' = logFile'.mtime + 1
    /\ dropped' = dropped \union ({roll.record} \ {0})
    /\ roll' = Idle
    /\ UNCHANGED <<config, failures, clock, backups, written, attempts, movedAt,
                   reused>>

Tick ==
    /\ clock < MaxClock
    /\ clock' = clock + 1
    /\ UNCHANGED <<env, rolloverAt, logFile, backups, roll, written, dropped, attempts,
                   movedAt, reused>>

GzipRotator == SourceMissing \/ OpenArchive \/ CopyContents \/ RemoveSource

RotationNext ==
    \/ Emit \/ Shift \/ SkipRollover \/ ClearName \/ Rename \/ GzipRotator
    \/ Expire \/ OpenAndWrite
    \/ Fail \/ Reopen \/ Tick

RotationSpec == RotationInit /\ [][RotationNext]_rotationVars

-----------------------------------------------------------------------------
OnDisk == ToSet(logFile.records) \union UNION {ToSet(backups[n]) : n \in DOMAIN backups}

\* Records that were written, are on no file, and had not yet backup_count
\* rollovers begun after the one that moved them.
LostEarly ==
    {r \in DOMAIN movedAt \ OnDisk : attempts < movedAt[r] + BackupCount}

RotationTypeOK ==
    /\ clock \in 1..MaxClock /\ rolloverAt \in 1..MaxClock + 1
    /\ logFile.exists \in BOOLEAN /\ logFile.mtime \in 0..MaxClock
    /\ ToSet(logFile.records) \subseteq 1..written
    /\ DOMAIN backups \subseteq 1..MaxClock + BackupCount
    /\ roll.pc \in {"idle", "shift", "clear", "rename", "compress", "copy", "remove",
                    "expire", "open"}
    /\ dropped \union DOMAIN movedAt \subseteq 1..written

\* A record leaves the log only with the file it is in: whatever was written and
\* never moved is still there, through failed rollovers and restarts.
UnmovedIsLive ==
    (1..written) \ (dropped \union DOMAIN movedAt \union {roll.record})
        \subseteq ToSet(logFile.records)

\* "backup_count": beyond a rollover that was cut off, no more backups than that,
\* of a time handler only where they are not compressed.
BackupsBounded ==
    roll.pc = "idle" /\ (Expiring \/ Numbers) =>
        Cardinality(DOMAIN backups) <= BackupCount + failures + reopens

\* A failure costs the record being emitted and none after it; but the compressing
\* rotator, unlike a rename, raises again on every record once the log was removed
\* and the rollover not completed.
FailureCostsOneRecord ==
    Cardinality(dropped) > failures + reopens =>
        config.gz /\ config.time /\ failures > 0

RotationInv == RotationTypeOK /\ UnmovedIsLive /\ BackupsBounded /\ FailureCostsOneRecord

\* Whatever a failed system call or a restart interrupts, a record is lost before
\* backup_count rollovers came after its own only if its backup's name was used
\* again.
LostOnlyByReuse == LostEarly \subseteq reused

\* The log outgrows max_size_mb only where the library skips a rollover because
\* the backup of that interval is there already.
GrowsOnlyWhenTaken ==
    [][config.size /\ Len(logFile'.records) > Len(logFile.records) /\
       Len(logFile'.records) >= MaxBytes => ~Numbers /\ Taken(rolloverAt - 1)]_rotationVars

-----------------------------------------------------------------------------
\* What the documentation says and the code does not do: with a size of 50 MB,
\* midnight, 7 backups and compression, the last 7 rotated files are there.
BackupsKept == LostEarly = {}
=============================================================================
