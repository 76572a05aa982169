----------------------------- MODULE CommitLog -----------------------------
(***************************************************************************)
(* storage.py, append_commit and the table it appends to: optimistic       *)
(* concurrency control over one stream of one SQLite file.  Every call      *)
(* computes its version from MAX(version), reads the hash it chains onto,  *)
(* stamps the row, and commits under UNIQUE(stream_id, version), retrying  *)
(* on a conflict or a lock error.  Outside a write SQLite gives each SELECT *)
(* its own snapshot, so each read is an action of its own.                 *)
(*                                                                         *)
(* The payload, record type and tenant of a row are its caller's, so the   *)
(* call itself stands for them.  SHA-256 is taken to be injective.         *)
(***************************************************************************)
EXTENDS Integers, FiniteSets, Sequences

CONSTANTS
    Calls,              \* calls of append_commit on the stream, in any process
    MaxRetries,         \* append_commit's max_retries
    MaxClock,           \* bound on the wall clock, which never steps back
    NoHash              \* prev_hash of version 1 (None)

ASSUME RetriesAssumption == MaxRetries \in Nat
ASSUME ClockAssumption == MaxClock \in Nat

VARIABLES
    rows,               \* the StorageCommit rows of the stream
    pc,                 \* where each call is
    attempt,            \* the loop variable of each call's retry loop
    version,            \* the version each call computed in this attempt
    prevHash,           \* the hash each call chains onto in this attempt
    stampOf,            \* committed_at of this attempt
    lockErrors,         \* history: attempts lost to OperationalError
    clock

callVars == <<pc, attempt, version, prevHash, stampOf, lockErrors>>
vars == <<rows, pc, attempt, version, prevHash, stampOf, lockErrors, clock>>

Running == {"read", "link", "stamp", "commit", "stored"}
Ended == {"returned", "conflict", "failed", "crashed"}

-----------------------------------------------------------------------------
\* compute_entry_hash: over the previous hash and every field of the row.
ComputeEntryHash(prev, v, c, t) == <<prev, v, c, t>>

Versions == {r.version : r \in rows}

\* SELECT MAX(version), 0 on an empty stream.
MaxVersion ==
    IF rows = {} THEN 0
    ELSE CHOOSE m \in Versions : \A v \in Versions : v <= m

RowAt(v) == CHOOSE r \in rows : r.version = v

\* _next_version
NextVersion == MaxVersion + 1

NewRow(c) ==
    [version  |-> version[c],
     by       |-> c,
     stamp    |-> stampOf[c],
     prevHash |-> prevHash[c],
     hash     |-> ComputeEntryHash(prevHash[c], version[c], c, stampOf[c])]

Init ==
    /\ rows = {}
    /\ pc = [c \in Calls |-> "idle"]
    /\ attempt = [c \in Calls |-> 0]
    /\ version = [c \in Calls |-> 0]
    /\ prevHash = [c \in Calls |-> NoHash]
    /\ stampOf = [c \in Calls |-> 0]
    /\ lockErrors = [c \in Calls |-> 0]
    /\ clock = 0

Goto(c, label) == pc' = [pc EXCEPT ![c] = label]

-----------------------------------------------------------------------------
\* Resolve the engine and mask the payload, both before the retry loop; an
\* unrouted region or a MaskingError propagates and nothing is written.
Begin(c) ==
    /\ pc[c] = "idle"
    /\ Goto(c, "read") \/ Goto(c, "failed")
    /\ UNCHANGED <<rows, attempt, version, prevHash, stampOf, lockErrors, clock>>

\* Mutants of the actions below, for the runs that must notice them.
ReadVersionOnce(c) ==          \* the version is not recomputed on a retry
    /\ pc[c] = "read"
    /\ attempt[c] < MaxRetries
    /\ version' = [version EXCEPT ![c] = IF attempt[c] = 0 THEN NextVersion ELSE @]
    /\ Goto(c, "link")
    /\ UNCHANGED <<rows, attempt, prevHash, stampOf, lockErrors, clock>>

ReadPrevHashOnce(c) ==         \* the previous hash is cached across retries
    /\ pc[c] = "link"
    /\ prevHash' = [prevHash EXCEPT ![c] =
                      IF version[c] = 1 \/ attempt[c] > 0 THEN @
                      ELSE RowAt(version[c] - 1).hash]
    /\ Goto(c, "stamp")
    /\ UNCHANGED <<rows, attempt, version, stampOf, lockErrors, clock>>

StampOnce(c) ==                \* committed_at taken once, before the loop
    /\ pc[c] = "stamp"
    /\ stampOf' = [stampOf EXCEPT ![c] = IF attempt[c] = 0 THEN clock ELSE @]
    /\ Goto(c, "commit")
    /\ UNCHANGED <<rows, attempt, version, prevHash, lockErrors, clock>>

CommitUnchecked(c) ==          \* the unique constraint is gone
    /\ pc[c] = "commit"
    /\ rows' = rows \union {NewRow(c)}
    /\ Goto(c, "stored")
    /\ UNCHANGED <<attempt, version, prevHash, stampOf, lockErrors, clock>>

LockErrorUncounted(c) ==       \* a locked file does not use up the budget
    /\ pc[c] = "commit"
    /\ Goto(c, "read")
    /\ UNCHANGED <<rows, attempt, version, prevHash, stampOf, lockErrors, clock>>

ReturnRetried(c) ==            \* the refresh inside the try: retry of a commit
    /\ pc[c] = "stored"
    /\ \/ Goto(c, "returned") /\ UNCHANGED attempt
       \/ Goto(c, "read") /\ attempt' = [attempt EXCEPT ![c] = @ + 1]
    /\ UNCHANGED <<rows, version, prevHash, stampOf, lockErrors, clock>>

ReadVersion(c) ==
    /\ pc[c] = "read"
    /\ attempt[c] < MaxRetries
    /\ version' = [version EXCEPT ![c] = NextVersion]
    /\ Goto(c, "link")
    /\ UNCHANGED <<rows, attempt, prevHash, stampOf, lockErrors, clock>>

\* StorageConflictError, after the loop.
GiveUp(c) ==
    /\ pc[c] = "read"
    /\ attempt[c] >= MaxRetries
    /\ Goto(c, "conflict")
    /\ UNCHANGED <<rows, attempt, version, prevHash, stampOf, lockErrors, clock>>

\* _prev_entry_hash: .one() raises unless exactly one row is at version - 1.
ReadPrevHash(c) ==
    /\ pc[c] = "link"
    /\ IF version[c] = 1
       THEN prevHash' = [prevHash EXCEPT ![c] = NoHash] /\ Goto(c, "stamp")
       ELSE IF \E r \in rows : /\ r.version = version[c] - 1
                               /\ \A q \in rows : q.version = r.version => q = r
       THEN /\ prevHash' = [prevHash EXCEPT ![c] = RowAt(version[c] - 1).hash]
            /\ Goto(c, "stamp")
       ELSE Goto(c, "failed") /\ UNCHANGED prevHash
    /\ UNCHANGED <<rows, attempt, version, stampOf, lockErrors, clock>>

\* A lock error on either SELECT is outside the try and propagates.
ReadError(c) ==
    /\ pc[c] \in {"read", "link"}
    /\ Goto(c, "failed")
    /\ UNCHANGED <<rows, attempt, version, prevHash, stampOf, lockErrors, clock>>

Stamp(c) ==
    /\ pc[c] = "stamp"
    /\ stampOf' = [stampOf EXCEPT ![c] = clock]
    /\ Goto(c, "commit")
    /\ UNCHANGED <<rows, attempt, version, prevHash, lockErrors, clock>>

\* session.commit() under uq_storage_commit_stream_version.
Commit(c) ==
    /\ pc[c] = "commit"
    /\ version[c] \notin Versions
    /\ rows' = rows \union {NewRow(c)}
    /\ Goto(c, "stored")
    /\ UNCHANGED <<attempt, version, prevHash, stampOf, lockErrors, clock>>

\* IntegrityError: another call took the version.
Conflict(c) ==
    /\ pc[c] = "commit"
    /\ version[c] \in Versions
    /\ attempt' = [attempt EXCEPT ![c] = @ + 1]
    /\ Goto(c, "read")
    /\ UNCHANGED <<rows, version, prevHash, stampOf, lockErrors, clock>>

\* OperationalError: the file stayed locked; nothing was written.
LockError(c) ==
    /\ pc[c] = "commit"
    /\ attempt' = [attempt EXCEPT ![c] = @ + 1]
    /\ lockErrors' = [lockErrors EXCEPT ![c] = @ + 1]
    /\ Goto(c, "read")
    /\ UNCHANGED <<rows, version, prevHash, stampOf, clock>>

\* The refresh and _maybe_checkpoint follow the commit outside the try: when
\* one raises, the caller sees an error although its row is in the log.
Return(c) ==
    /\ pc[c] = "stored"
    /\ Goto(c, "returned") \/ Goto(c, "failed")
    /\ UNCHANGED <<rows, attempt, version, prevHash, stampOf, lockErrors, clock>>

\* The process dies; SQLite rolls back what was not committed.
Crash(c) ==
    /\ pc[c] \in Running
    /\ Goto(c, "crashed")
    /\ UNCHANGED <<rows, attempt, version, prevHash, stampOf, lockErrors, clock>>

Tick ==
    /\ clock < MaxClock
    /\ clock' = clock + 1
    /\ UNCHANGED <<rows, callVars>>

Step(c) ==
    \/ ReadVersion(c) \/ GiveUp(c) \/ ReadPrevHash(c) \/ Stamp(c)
    \/ Commit(c) \/ Conflict(c) \/ Return(c)

Next ==
    \/ \E c \in Calls : \/ Begin(c) \/ Step(c)
                        \/ ReadError(c) \/ LockError(c) \/ Crash(c)
    \/ Tick

Spec == Init /\ [][Next]_vars

\* A thread that can run does; nothing makes the clock tick, a process die or
\* a lock clear.
FairSpec == Spec /\ \A c \in Calls : WF_vars(Step(c) \/ LockError(c))

-----------------------------------------------------------------------------
\* verify_chain, over the rows in version order.
VerifyChain(rs) ==
    \A r \in rs :
        LET before == {q \in rs : q.version < r.version}
            expected == IF before = {} THEN NoHash
                        ELSE (CHOOSE q \in before :
                                 \A p \in before : p.version <= q.version).hash
        IN /\ r.prevHash = expected
           /\ r.hash = ComputeEntryHash(r.prevHash, r.version, r.by, r.stamp)

\* read_as_of_timestamp: everything up to the highest version stamped by t.
AsOfTimestamp(t) ==
    {r \in rows : \E q \in rows : q.stamp <= t /\ r.version <= q.version}

-----------------------------------------------------------------------------
TypeOK ==
    /\ \A r \in rows : /\ r.version \in Nat
                       /\ r.by \in Calls
                       /\ r.stamp \in 0..MaxClock
    /\ pc \in [Calls -> {"idle"} \union Running \union Ended]
    /\ attempt \in [Calls -> 0..MaxRetries]
    /\ version \in [Calls -> Nat]
    /\ DOMAIN prevHash = Calls
    /\ stampOf \in [Calls -> 0..MaxClock]
    /\ lockErrors \in [Calls -> 0..MaxRetries]
    /\ clock \in 0..MaxClock

\* Versions start at 1 and have no gaps, and each is assigned exactly once,
\* however the calls interleave, fail and retry (StorageCommit's docstring).
DenseVersions ==
    /\ \A r, q \in rows : r.version = q.version => r = q
    /\ \A r \in rows : /\ r.version >= 1
                       /\ r.version > 1 => r.version - 1 \in Versions

\* verify_chain finds every stream the appends can build intact, also when a
\* call read the hash it chains onto long before it committed.
ChainVerifies == VerifyChain(rows)

\* read_as_of_timestamp returns the commits stamped by that time and no
\* other: versions and times agree, although the time is taken before the
\* commit that fixes the version.
TimeTravelExact ==
    \A t \in 0..MaxClock : AsOfTimestamp(t) = {r \in rows : r.stamp <= t}

\* What append_commit tells its caller is true: it returns only when its row
\* is in the stream, StorageConflictError means it is not, and no outcome of
\* a retry ever leaves two rows of one call.
AnswersAreTrue ==
    \A c \in Calls :
        LET mine == {r \in rows : r.by = c} IN
        /\ pc[c] \in {"stored", "returned"} => mine # {}
        /\ pc[c] \in {"idle", "read", "link", "stamp", "commit", "conflict"}
              => mine = {}
        /\ \A r, q \in mine : r = q

\* What holds of the table and of its callers at any time: their types,
\* DenseVersions and AnswersAreTrue.
LogInv == TypeOK /\ DenseVersions /\ AnswersAreTrue

\* Every attempt lost to a version conflict is paid for by a commit of
\* another call: some call always gets through, and max_retries above the
\* number of competitors is never exhausted by conflicts alone.
ConflictsPaidFor ==
    \A c \in Calls :
        attempt[c] - lockErrors[c] <= Cardinality({r \in rows : r.by # c})

\* _prev_entry_hash always finds exactly the one row it chains onto, so its
\* .one() never raises (its docstring's "always exactly one row or none").
PrevRowPresent ==
    \A c \in Calls :
        pc[c] = "link" /\ version[c] > 1 =>
            \E r \in rows : /\ r.version = version[c] - 1
                           /\ \A q \in rows : q.version = r.version => q = r

\* The log is append-only: no step changes or removes a row, and a new row
\* follows all the others in version and in time, so a prefix once read stays
\* what it was.
AppendsAtTheEnd ==
    [][/\ rows \subseteq rows'
       /\ \A r \in rows' \ rows : \A q \in rows :
             q.version < r.version /\ q.stamp <= r.stamp]_vars

\* Every append that begins its loop ends, in a row or in an error: again and
\* again there is no call under way (each is made once).
AppendEnds == []<>(\A c \in Calls : pc[c] \in {"idle"} \union Ended)

\* What the caller knows of a call at each of its labels.
Told == [idle |-> "none", read |-> "running", link |-> "running",
         stamp |-> "running", commit |-> "running", stored |-> "running",
         returned |-> "Returned", conflict |-> "Conflict",
         failed |-> "Failed", crashed |-> "Gone"]

\* The stream as the abstract log: its rows in version order, and what each
\* call's caller knows.
TheLog == [v \in 1..MaxVersion |-> [by |-> RowAt(v).by, stamp |-> RowAt(v).stamp]]

TheAnswer == [c \in Calls |-> Told[pc[c]]]

Abstract ==
    INSTANCE AppendOnlyLog WITH
        Times <- 0..MaxClock, log <- TheLog, answer <- TheAnswer

\* The OCC append over a table implements the atomic append-only log.
ImplementsLog == Abstract!Spec
=============================================================================
