--------------------------- MODULE MCCheckpoint ---------------------------
(* Checkpoint for TLC: a stream with files of its own, and two streams of two *)
(* tenants whose names sanitise to one directory, in small instances, each    *)
(* with the bounds that its question needs.                                   *)
EXTENDS Checkpoint, TLC

CONSTANTS s1, s2, s3, tenantA, tenantB, e1, e2, r1, w1, w2

TwoTenants == (s1 :> tenantA) @@ (s2 :> tenantA) @@ (s3 :> tenantB)
TwoDirs == (s1 :> "s1") @@ (s2 :> "s_") @@ (s3 :> "s_")
AllThreads == Threads

\* The default, one that moves the files, one that turns checkpoints off.
Intervals == [default |-> 1, moved |-> 1, off |-> 0]
Roots == [default |-> "default", moved |-> "moved", off |-> "default"]
GlobalKey == (e1 :> Global) @@ (e2 :> Global)
MovedThenOff == (e1 :> "moved") @@ (e2 :> "off")

Commits(own, shared) == (s1 :> own) @@ (s2 :> shared) @@ (s3 :> shared)

Bounded == [versions |-> Commits(2, 0), failures |-> 0, restarts |-> 0, reads |-> {},
            sets |-> {}, waits |-> {}]

\* A compaction after each of three commits, so that all may overlap, and a read.
Overlaps == [Bounded EXCEPT !.versions = Commits(3, 0), !.reads = {r1}]

\* A failing compaction and a restart, and a read.
Restarts == [Bounded EXCEPT !.failures = 1, !.restarts = 1, !.reads = {r1}]

\* The directory changes under commits and a read.
Moves == [Bounded EXCEPT !.reads = {r1}, !.sets = {e1}]

\* Two changes race around a commit, one of which turns checkpoints off.
Switches == [Bounded EXCEPT !.versions = Commits(1, 0), !.sets = {e1, e2}]

\* Two waits for two compactions.
Joins == [Bounded EXCEPT !.waits = {w1, w2}]

\* A commit and its compaction in each of two streams that share a directory.
Shares == [Bounded EXCEPT !.versions = Commits(0, 1), !.reads = {r1}]

SmallScopes == {Overlaps, Restarts, Moves, Switches, Joins, Shares}
OneDirectory == {Shares}
=============================================================================
