----------------------------- MODULE AuditChain -----------------------------
(***************************************************************************)
(* audit_chain.py over one stream: verify_chain recomputes every entry's   *)
(* hash; anchor_commits takes the Merkle root of the entry hashes, hands   *)
(* it to a sink outside the store, and records it; verify_anchor computes  *)
(* the root again.  Appends go on in between, and the stored rows may      *)
(* come to differ from what was appended: a column of a row changes, with  *)
(* or without its hash, the last rows are lost, or a row is rewritten      *)
(* together with every hash after it, which only an anchor can show.       *)
(*                                                                         *)
(* append_commit is one step here: CommitLog shows that it may be.         *)
(* SHA-256 is taken to be injective; the text that it is given is not.     *)
(***************************************************************************)
EXTENDS Integers, Sequences

CONSTANTS
    Columns,            \* what a row holds beside its version and hashes: record
                        \*   type, tenant, stamp and payload
    Joined,             \* the text that each of them joins to: with newlines
                        \*   between, and a tenant that is NULL as ''
    Anchorings,         \* calls of anchor_commits
    MaxVersion,         \* bound on the rows of the stream
    MaxDamage,          \* bound on the changes made behind the log's back
    NoHash              \* prev_hash of version 1 (None)

ASSUME BoundsAssumption ==
    MaxVersion \in Nat /\ MaxDamage \in Nat /\ DOMAIN Joined = Columns

VARIABLES
    rows,               \* the stream's StorageCommit rows, in version order
    appended,           \* history: each row as append_commit left it
    anchor,             \* each anchoring: where it is, and what it read
    records,            \* AnchorRecord rows, by the anchoring that made each
    sunk,               \* what the sink holds: <<anchoring, root>>
    damage              \* changes made behind the log's back

vars == <<rows, appended, anchor, records, sunk, damage>>

-----------------------------------------------------------------------------
ComputeEntryHash(prev, version, columns) == <<prev, version, Joined[columns]>>

Forged == <<"forged">>               \* a hash nothing hashes to

EntryHashes(commits) == [i \in DOMAIN commits |-> commits[i].entryHash]

PrevHash(commits, i) == IF i = 1 THEN NoHash ELSE commits[i - 1].entryHash

NewRow(prev, version, columns) ==
    [prevHash  |-> prev,
     columns   |-> columns,
     entryHash |-> ComputeEntryHash(prev, version, columns)]

BrokenLink(commits, i) == commits[i].prevHash # PrevHash(commits, i)

BrokenEntry(commits, i) ==
    commits[i].entryHash # ComputeEntryHash(commits[i].prevHash, i, commits[i].columns)

\* verify_chain: the versions it would stop at, had it come that far.
BrokenAtLink(commits) ==             \* the entry's own hash is not recomputed
    {i \in DOMAIN commits : BrokenLink(commits, i)}

BrokenAt(commits) ==
    {i \in DOMAIN commits : BrokenLink(commits, i) \/ BrokenEntry(commits, i)}

VerifyChain(commits) == BrokenAt(commits) = {}

\* compute_merkle_root: hash the level in pairs until one hash is left.
NextLevelFloor(level) ==             \* the odd leaf is dropped
    IF Len(level) = 1 THEN level
    ELSE [i \in 1..(Len(level) \div 2) |-> <<level[2*i - 1], level[2*i]>>]

NextLevel(level) ==
    IF Len(level) = 1 THEN level
    ELSE [i \in 1..((Len(level) + 1) \div 2) |->
             <<level[2*i - 1], level[IF 2*i > Len(level) THEN 2*i - 1 ELSE 2*i]>>]

Levels(leaves) ==
    LET level[n \in Nat] == IF n = 0 THEN leaves ELSE NextLevel(level[n - 1])
    IN  level

ComputeMerkleRoot(leaves) == Levels(leaves)[Len(leaves)][1]

\* verify_anchor: the root of versions [1..record.version], if all are there.
VerifyAnchor(record) ==
    /\ Len(rows) >= record.version
    /\ ComputeMerkleRoot(EntryHashes(SubSeq(rows, 1, record.version))) = record.root

-----------------------------------------------------------------------------
NotStarted == [pc |-> "idle", commits |-> << >>]

Init ==
    /\ rows = << >> /\ appended = << >>
    /\ anchor = [a \in Anchorings |-> NotStarted]
    /\ records = << >>
    /\ sunk = {}
    /\ damage = 0

AppendCommit(p) ==
    LET v == Len(rows) + 1
        row == NewRow(PrevHash(rows, v), v, p)
    IN  /\ Len(rows) < MaxVersion
        /\ rows' = Append(rows, row)
        /\ appended' = Append(SubSeq(appended, 1, Len(rows)), row)
        /\ UNCHANGED <<anchor, records, sunk, damage>>

\* anchor_commits: one SELECT; a stream without commits is a ValueError.
ReadCommits(a) ==
    /\ anchor[a].pc = "idle"
    /\ anchor' = [anchor EXCEPT ![a] =
          IF rows = << >> THEN [@ EXCEPT !.pc = "refused"]
          ELSE [pc |-> "sink", commits |-> rows]]
    /\ UNCHANGED <<rows, appended, records, sunk, damage>>

RootOf(a) == ComputeMerkleRoot(EntryHashes(anchor[a].commits))

CallSinkLate(a) ==                   \* the sink is told after the record is made
    /\ anchor[a].pc = "sink"
    /\ anchor' = [anchor EXCEPT ![a].pc = "record"]
    /\ UNCHANGED <<rows, appended, records, sunk, damage>>

\* The caller's sink takes the root, or raises, and then nothing is recorded.
CallSink(a) ==
    /\ anchor[a].pc = "sink"
    /\ \/ /\ sunk' = sunk \union {<<a, RootOf(a)>>}
          /\ anchor' = [anchor EXCEPT ![a].pc = "record"]
       \/ /\ anchor' = [anchor EXCEPT ![a] = [pc |-> "failed", commits |-> << >>]]
          /\ UNCHANGED sunk
    /\ UNCHANGED <<rows, appended, records, damage>>

InsertRecord(a, version) ==
    records' = [b \in DOMAIN records \union {a} |->
                   IF b = a THEN [version |-> version, root |-> RootOf(a)] ELSE records[b]]

RecordLatest(a) ==                   \* the version is read when it is recorded
    /\ anchor[a].pc = "record"
    /\ InsertRecord(a, Len(rows))
    /\ anchor' = [anchor EXCEPT ![a].pc = "returned"]
    /\ UNCHANGED <<rows, appended, sunk, damage>>

\* The record is of the commits that were read.  The refresh after its commit may
\* raise: the record is there, and the caller has an exception.
Record(a) ==
    /\ anchor[a].pc = "record"
    /\ InsertRecord(a, Len(anchor[a].commits))
    /\ \E w \in {"returned", "raised"} : anchor' = [anchor EXCEPT ![a].pc = w]
    /\ UNCHANGED <<rows, appended, sunk, damage>>

\* The process dies after the sink was told: the root is anchored, unrecorded.
AnchoringDies(a) ==
    /\ anchor[a].pc = "record"
    /\ anchor' = [anchor EXCEPT ![a].pc = "dead"]
    /\ UNCHANGED <<rows, appended, records, sunk, damage>>

-----------------------------------------------------------------------------
\* What may happen to the file behind the log's back.
Damaged == damage < MaxDamage /\ damage' = damage + 1
           /\ UNCHANGED <<appended, anchor, records, sunk>>

EditRow(i) ==
    /\ Damaged
    /\ \/ \E p \in Columns : rows' = [rows EXCEPT ![i].columns = p]
       \/ \E p \in Columns : rows' = [rows EXCEPT ![i] = NewRow(@.prevHash, i, p)]
       \/ \E j \in 0..Len(rows) : rows' = [rows EXCEPT ![i].prevHash = PrevHash(rows, j + 1)]
       \/ rows' = [rows EXCEPT ![i].entryHash = Forged]

LoseTail(i) ==
    /\ Damaged
    /\ rows' = SubSeq(rows, 1, i - 1)

\* Row i gets another columns p, and the chain is computed again from there.
Chain(i, p) ==
    LET columns(j) == IF j = i THEN p ELSE rows[j].columns
        chain[j \in 0..Len(rows)] ==
            IF j < i THEN SubSeq(rows, 1, j)
            ELSE Append(chain[j - 1], NewRow(PrevHash(chain[j - 1], j), j, columns(j)))
    IN  chain

RewriteFrom(i) ==
    \E p \in Columns :
        /\ Damaged
        /\ rows' = Chain(i, p)[Len(rows)]

Anchoring(a) == ReadCommits(a) \/ CallSink(a) \/ Record(a) \/ AnchoringDies(a)

Damaging ==
    /\ \E i \in DOMAIN rows : EditRow(i) \/ LoseTail(i) \/ RewriteFrom(i)
    /\ rows' # rows

Next ==
    \/ \E p \in Columns : AppendCommit(p)
    \/ \E a \in Anchorings : Anchoring(a)
    \/ Damaging

Spec == Init /\ [][Next]_vars

-----------------------------------------------------------------------------
Recorded == {"returned", "raised"}
AnchorPlaces == Recorded \union {"idle", "refused", "sink", "record", "failed", "dead"}

TypeOK ==
    /\ Len(rows) <= MaxVersion /\ Len(rows) <= Len(appended)
    /\ \A i \in DOMAIN rows : rows[i].columns \in Columns
    /\ \A a \in Anchorings : anchor[a].pc \in AnchorPlaces
    /\ DOMAIN records = {a \in Anchorings : anchor[a].pc \in Recorded}
    /\ \A a \in DOMAIN records : records[a].version \in 1..MaxVersion
    /\ damage \in 0..MaxDamage

\* What the hashes cover of a row: two rows may differ and read alike.
Covered(row) == [row EXCEPT !.columns = Joined[@]]

Changed(v) == Covered(rows[v]) # Covered(appended[v])

\* verify_chain finds a changed row there or before, or at the next row, however the
\* log went on; but for a row whose hash was computed again and that is the last, or
\* has after it a row that was changed too or appended to the new hash.
EditsAreFound ==
    \A v \in DOMAIN rows : Changed(v) =>
        \/ \E i \in BrokenAt(rows) : i <= v
        \/ /\ rows[v].entryHash # appended[v].entryHash
           /\ \/ v = Len(rows)
              \/ v + 1 \in BrokenAt(rows)
              \/ Changed(v + 1)
              \/ appended[v + 1].prevHash # appended[v].entryHash

\* No false alarm: while nothing is changed behind the log's back the chain
\* verifies and so does every anchor, whatever was appended while it was made.
IntactVerifies ==
    damage = 0 => /\ VerifyChain(rows)
                  /\ \A a \in DOMAIN records : VerifyAnchor(records[a])

\* verify_chain and verify_anchor answer neither too early nor too late.
VerificationExact == EditsAreFound /\ IntactVerifies

AsCovered(commits) == [i \in DOMAIN commits |-> Covered(commits[i])]

\* What an anchor is for: when a record still verifies, and so does the chain,
\* the rows read like the ones anchor_commits read, rewritten hashes or not.
AnchoredHistoryStands ==
    \A a \in DOMAIN records :
        VerifyChain(anchor[a].commits) /\ VerifyChain(rows) /\ VerifyAnchor(records[a])
        => AsCovered(anchor[a].commits) = AsCovered(SubSeq(rows, 1, records[a].version))

\* A record points at something: whatever the sink does, no record is left of
\* a root it never took.
RecordsAreSunk ==
    \A a \in DOMAIN records :
        \E s \in sunk : s = <<a, records[a].root>>

\* The types, and what every record points at.
AuditInv == TypeOK /\ RecordsAreSunk

\* One root never stands for two histories of the stream, of equal length or not.
RootNamesHistory ==
    \A a, b \in Anchorings :
        /\ anchor[a].commits # << >> /\ VerifyChain(anchor[a].commits)
        /\ anchor[b].commits # << >> /\ VerifyChain(anchor[b].commits)
        /\ RootOf(a) = RootOf(b)
        => AsCovered(anchor[a].commits) = AsCovered(anchor[b].commits)

-----------------------------------------------------------------------------
\* "Editing any single row breaks the chain from that point forward.  Detectable
\* entirely from this database alone": what audit_chain.py says, and the last row,
\* and a column that joins to the same text, do not keep.
AnySingleEditIsFound ==
    Len(rows) = Len(appended) =>
        \A v \in DOMAIN rows :
            rows[v] # appended[v] /\ (\A u \in DOMAIN rows \ {v} : rows[u] = appended[u])
            => ~VerifyChain(rows)
=============================================================================
