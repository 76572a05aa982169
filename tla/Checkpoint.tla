----------------------------- MODULE Checkpoint -----------------------------
(***************************************************************************)
(* checkpoint.py and the checkpoint half of storage.py: after each commit   *)
(* append_commit asks the cached StorageConfig (ConfigCache) and may spawn   *)
(* a thread that writes a full snapshot of the stream to a Parquet file and  *)
(* registers it; reads replay the newest registered snapshot at or below     *)
(* their target, then the commits after it; waits join the spawned threads.  *)
(*                                                                         *)
(* The commit log is the atomic append-only log CommitLog implements: a     *)
(* stream is its last version, and <<s, v>> is the row s committed at v.     *)
(* Thread <<s, v>> is the append_commit call that committed v in s, then the *)
(* compaction thread it spawns.  One process; a restart ends its threads    *)
(* and empties its caches.                                                  *)
(***************************************************************************)
EXTENDS ConfigCache, FiniteSetsExt

CONSTANTS
    Streams,            \* the streams, in one store or in stores that share checkpoint_dir
    TenantOf,           \* the tenant whose rows each stream holds
    DirOf,              \* store label and sanitized stream id: a file's directory
    Interval,           \* checkpoint_interval_commits of each StorageConfig
    RootOf,             \* checkpoint_dir of each
    Readers,            \* reads, each made once
    Waits,              \* calls of wait_for_pending_checkpoints
    MaxVersion,         \* bound on the commits of a stream
    Scopes,             \* bounds, of which a behaviour has one: see scope
    Unset               \* no entry in the cache (None)

Threads == Streams \X (1..MaxVersion)

ASSUME CheckpointAssumption ==
    /\ Threads \subseteq Lookers
    /\ \A c \in Values : Interval[c] \in Nat
    /\ MaxVersion \in Nat /\ Unset \notin Nat
    /\ Scopes \subseteq [versions : [Streams -> 0..MaxVersion], failures : Nat,
                        restarts : Nat, reads : SUBSET Readers, sets : SUBSET Setters,
                        waits : SUBSET Waits]

Files == {RootOf[c] : c \in Values} \X {DirOf[s] : s \in Streams} \X (1..MaxVersion)

VARIABLES
    last,               \* MAX(version) of each stream's StorageCommit rows
    checkpoints,        \* each stream's StorageCheckpoint rows: file_path by version
    file,               \* the Parquet files
    cache,              \* _last_checkpoint_version_cache
    thread,             \* each appending or compacting thread: its place, the
                        \* checkpoint version it has seen, the last version
                        \* its snapshot selected, while it needs them
    pending,            \* _pending_checkpoint_threads
    reader,             \* the reads
    wait,               \* the waits: place, threads left to join, and those taken;
                        \* history: compactions in flight at the call, joins that timed out
    failures, restarts, \* history, for the bounds
    scope               \* bounds: commits, failures, restarts, reads, sets, waits

bounds == <<failures, restarts, scope>>
compactVars == <<checkpoints, file, thread, pending>>
vars == <<last, compactVars, cache, reader, wait, bounds, confVars>>

-----------------------------------------------------------------------------
Rows(s, from, to) == [i \in 1..(to + 1 - from) |-> <<s, from + i - 1>>]

NoFile == [state |-> "none", rows |-> <<>>]
Partial == [state |-> "partial", rows |-> <<>>]
Whole(rows) == [state |-> "whole", rows |-> rows]

\* checkpoint_file_path, under StorageConfig c: the file's name is the version.
FilePath(c, s, v) == <<RootOf[c], DirOf[s], v>>

\* The streams whose files are in the directory of s, itself among them:
\* sanitising may map the names of two streams, or the labels of two stores, to one.
Sharing(s) == {u \in Streams : DirOf[u] = DirOf[s]}
Alone(s) == Sharing(s) = {s}

ShouldCheckpointLate(latest, lastCheckpoint, interval) ==   \* > where >= was meant
    /\ interval > 0 /\ latest > lastCheckpoint + interval
    /\ latest % interval = 0

ShouldCheckpoint(latest, lastCheckpoint, interval) ==
    /\ interval > 0
    /\ latest > lastCheckpoint
    /\ latest % interval = 0

Registered(s) == DOMAIN checkpoints[s]
MaxCheckpoint(s) == IF Registered(s) = {} THEN 0 ELSE Max(Registered(s))
Register(s, v, path) ==
    checkpoints' = [checkpoints EXCEPT ![s] =
        [w \in Registered(s) \union {v} |-> IF w = v THEN path ELSE checkpoints[s][w]]]

Idle == [pc |-> "idle", stream |-> Unset, target |-> 0, floor |-> 0, base |-> 0,
         rows |-> <<>>]

\* A thread's place; the locals of one that is not running do not matter.
At(label) == [pc |-> label, seen |-> 0, snapshot |-> 0]

Init ==
    /\ scope \in Scopes
    /\ last = [s \in Streams |-> 0]
    /\ checkpoints = [s \in Streams |-> <<>>]
    /\ file = [f \in Files |-> NoFile]
    /\ cache = [s \in Streams |-> Unset]
    /\ thread = [t \in Threads |-> At("idle")]
    /\ pending = {}
    /\ reader = [r \in Readers |-> Idle]
    /\ wait = [w \in Waits |-> [pc |-> "idle", left |-> {}, took |-> {}, owed |-> {},
                                late |-> {}]]
    /\ failures = 0 /\ restarts = 0
    /\ ConfigInit

Goto(t, label) ==
    thread' = [thread EXCEPT ![t] =
                  IF label \in {"register", "select", "refresh", "advance", "done"} THEN At(label)
                  ELSE [@ EXCEPT !.pc = label]]

Snapshot(t) == thread[t].snapshot
Path(t) == FilePath(look[t].value, t[1], Snapshot(t))

-----------------------------------------------------------------------------
\* append_commit commits the next version, and is about to call
\* _maybe_checkpoint for it.
AppendCommit(s, v) ==
    /\ v = last[s] + 1 /\ v <= scope.versions[s]
    /\ last' = [last EXCEPT ![s] = v]
    /\ Goto(<<s, v>>, "config")
    /\ UNCHANGED <<checkpoints, file, pending, cache, reader, wait, bounds, confVars>>

\* get_storage_config, of the global row: by _maybe_checkpoint for the interval,
\* and again by compact_checkpoint for the directory.
GetStorageConfig(s, v) ==
    \/ /\ \/ thread[<<s, v>>].pc = "config" /\ Goto(<<s, v>>, "check")
          \/ thread[<<s, v>>].pc = "dir" /\ Goto(<<s, v>>, "open")
       /\ BeginLookup(<<s, v>>, Global)
       /\ UNCHANGED <<last, checkpoints, file, pending, cache, reader, wait, bounds>>
    \/ /\ thread[<<s, v>>].pc \in {"check", "open"} /\ GetConfig(<<s, v>>)
       /\ UNCHANGED <<last, compactVars, cache, reader, wait, bounds>>

\* _maybe_checkpoint, once it knows of a checkpoint version: spawn the
\* compaction thread, or return.
Decide(t, lastCheckpoint) ==
    /\ Goto(t, IF ShouldCheckpoint(t[2], lastCheckpoint, Interval[look[t].value])
               THEN "register" ELSE "done")
    /\ EndLookup(t)

\* The in-process cache first.
CheckCache(s, v) ==
    /\ thread[<<s, v>>].pc = "check" /\ look[<<s, v>>].pc = "found"
    /\ IF cache[s] = Unset
       THEN Goto(<<s, v>>, "load") /\ UNCHANGED confVars
       ELSE Decide(<<s, v>>, cache[s])
    /\ UNCHANGED <<last, checkpoints, file, pending, cache, reader, wait, bounds>>

\* _load_last_checkpoint_version, on a miss.
LoadLast(s, v) ==
    /\ thread[<<s, v>>].pc = "load"
    /\ thread' = [thread EXCEPT ![<<s, v>>].pc = "fill", ![<<s, v>>].seen = MaxCheckpoint(s)]
    /\ UNCHANGED <<last, checkpoints, file, pending, cache, reader, wait, bounds, confVars>>

FillVersionCache(s, v) ==
    LET lastCheckpoint == thread[<<s, v>>].seen IN
    /\ thread[<<s, v>>].pc = "fill"
    /\ cache' = [cache EXCEPT ![s] = lastCheckpoint]
    /\ Decide(<<s, v>>, lastCheckpoint)
    /\ UNCHANGED <<last, checkpoints, file, pending, reader, wait, bounds>>

SpawnUnlisted(s, v) ==               \* started, and listed by nobody
    /\ thread[<<s, v>>].pc = "register"
    /\ Goto(<<s, v>>, "start")
    /\ UNCHANGED <<last, checkpoints, file, pending, cache, reader, wait, bounds, confVars>>

\* _spawn_checkpoint: list the thread, and only then start it.
SpawnCheckpoint(s, v) ==
    /\ thread[<<s, v>>].pc = "register"
    /\ pending' = pending \union {<<s, v>>}
    /\ Goto(<<s, v>>, "start")
    /\ UNCHANGED <<last, checkpoints, file, cache, reader, wait, bounds, confVars>>

StartThread(s, v) ==
    /\ thread[<<s, v>>].pc = "start"
    /\ Goto(<<s, v>>, "select")
    /\ UNCHANGED <<last, checkpoints, file, pending, cache, reader, wait, bounds, confVars>>

-----------------------------------------------------------------------------
CloseFileDelta(s, v) ==              \* only the rows since the last checkpoint
    LET t == <<s, v>> IN
    /\ thread[t].pc = "close"
    /\ file' = [file EXCEPT ![Path(t)] = Whole(Rows(s, MaxCheckpoint(s) + 1, Snapshot(t)))]
    /\ Goto(t, "insert")
    /\ UNCHANGED <<last, checkpoints, pending, cache, reader, wait, bounds, confVars>>

Compacting == {"select", "lookup", "dir", "open", "close", "insert", "refresh"}

CompactionFailsAdvanced(s, v) ==     \* the cache advanced in a finally
    LET t == <<s, v>> IN
    /\ thread[t].pc \in Compacting /\ failures < scope.failures
    /\ failures' = failures + 1
    /\ cache' = [cache EXCEPT ![s] = v]
    /\ Goto(t, "done") /\ EndLookup(t)
    /\ UNCHANGED <<last, checkpoints, file, pending, reader, wait, restarts, scope>>

\* compact_checkpoint: all the rows there are by now, so version may be past v.
SelectRows(s, v) ==
    /\ thread[<<s, v>>].pc = "select"
    /\ thread' = [thread EXCEPT ![<<s, v>>].pc = "lookup", ![<<s, v>>].snapshot = last[s]]
    /\ UNCHANGED <<last, checkpoints, file, pending, cache, reader, wait, bounds, confVars>>

\* A checkpoint registered at that version is returned as it is.
LookUp(s, v) ==
    /\ thread[<<s, v>>].pc = "lookup"
    /\ Goto(<<s, v>>, IF Snapshot(<<s, v>>) \in Registered(s) THEN "advance" ELSE "dir")
    /\ UNCHANGED <<last, checkpoints, file, pending, cache, reader, wait, bounds, confVars>>

OpenFileRegistered(s, v) ==          \* registered before it is written
    LET t == <<s, v>> IN
    /\ thread[t].pc = "open" /\ look[t].pc = "found"
    /\ file' = [file EXCEPT ![Path(t)] = Partial]
    /\ Register(s, Snapshot(t), Path(t))
    /\ Goto(t, "close")
    /\ UNCHANGED <<last, pending, cache, reader, wait, bounds, confVars>>

\* pq.write_table truncates whatever is at the path, then writes it.
OpenFile(s, v) ==
    LET t == <<s, v>> IN
    /\ thread[t].pc = "open" /\ look[t].pc = "found"
    /\ file' = [file EXCEPT ![Path(t)] = Partial]
    /\ Goto(t, "close")
    /\ UNCHANGED <<last, checkpoints, pending, cache, reader, wait, bounds, confVars>>

CloseFile(s, v) ==
    LET t == <<s, v>> IN
    /\ thread[t].pc = "close"
    /\ file' = [file EXCEPT ![Path(t)] = Whole(Rows(s, 1, Snapshot(t)))]
    /\ Goto(t, "insert")
    /\ UNCHANGED <<last, checkpoints, pending, cache, reader, wait, bounds, confVars>>

\* Register the checkpoint; uq_storage_checkpoint_stream_version makes the
\* second of two threads at one version raise.
Insert(s, v) ==
    LET t == <<s, v>> IN
    /\ thread[t].pc = "insert"
    /\ IF Snapshot(t) \in Registered(s)
       THEN Goto(t, "done") /\ UNCHANGED checkpoints
       ELSE Register(s, Snapshot(t), Path(t)) /\ Goto(t, "refresh")
    /\ EndLookup(t)
    /\ UNCHANGED <<last, file, pending, cache, reader, wait, bounds>>

\* The refresh after the commit, and _compact once compact_checkpoint has
\* returned: the cache moves to the version that triggered.
Advance(s, v) ==
    /\ thread[<<s, v>>].pc \in {"refresh", "advance"}
    /\ cache' = [cache EXCEPT ![s] = v]
    /\ Goto(<<s, v>>, "done")
    /\ UNCHANGED <<last, checkpoints, file, pending, reader, wait, bounds, confVars>>

\* Any step of a compaction may raise (a locked database, a full disk), the
\* refresh of the committed row too: the thread logs a warning and ends with the
\* cache unadvanced.  write_table removes the file it could not finish.
CompactionFails(s, v) ==
    LET t == <<s, v>> IN
    /\ thread[t].pc \in Compacting /\ failures < scope.failures
    /\ failures' = failures + 1
    /\ file' = IF thread[t].pc = "close" THEN [file EXCEPT ![Path(t)] = NoFile] ELSE file
    /\ Goto(t, "done") /\ EndLookup(t)
    /\ UNCHANGED <<last, checkpoints, pending, cache, reader, wait, restarts, scope>>

Restart ==
    /\ restarts < scope.restarts
    /\ restarts' = restarts + 1
    /\ thread' = [t \in Threads |->
                     IF thread[t].pc = "idle" THEN thread[t] ELSE At("done")]
    /\ cache' = [s \in Streams |-> Unset]
    /\ pending' = {}
    /\ reader' = [r \in Readers |->
                     IF reader[r].pc \in {"load", "tail"}
                     THEN [Idle EXCEPT !.pc = "gone"] ELSE reader[r]]
    /\ wait' = [w \in Waits |->
                   IF wait[w].pc = "joining" THEN [wait[w] EXCEPT !.pc = "gone"] ELSE wait[w]]
    /\ look' = [t \in Lookers |-> LookIdle] /\ raced' = {}
    /\ confCache' = [k \in Keys |-> "unfilled"]
    /\ set' = [e \in Setters |->
                  IF e \in Committing THEN [set[e] EXCEPT !.pc = "gone"] ELSE set[e]]
    /\ UNCHANGED <<last, checkpoints, file, failures, scope, confRows>>

-----------------------------------------------------------------------------
\* wait_for_pending_checkpoints: take the list and empty it, then join each
\* thread until it is over or the timeout is.  A thread that is listed and not
\* yet started cannot be joined: RuntimeError.
InFlight == {t \in Threads : thread[t].pc \in Compacting \union {"start", "advance"}}

TakePending(w) ==
    /\ wait[w].pc = "idle" /\ w \in scope.waits
    /\ wait' = [wait EXCEPT ![w] =
          [pc |-> "joining", left |-> pending, took |-> pending, owed |-> InFlight,
           late |-> {}]]
    /\ pending' = {}
    /\ UNCHANGED <<last, checkpoints, file, thread, cache, reader, bounds, confVars>>

Join(w, t) ==
    LET wt == wait[w]
        at == thread[t].pc
    IN  /\ wt.pc = "joining" /\ t \in wt.left
        /\ wait' = [wait EXCEPT ![w] =
              [pc |-> IF at = "start" THEN "raised" ELSE "joining",
               left |-> IF at = "start" THEN {} ELSE wt.left \ {t},
               took |-> wt.took, owed |-> wt.owed,
               late |-> IF at \in {"start", "done"} THEN wt.late ELSE wt.late \union {t}]]
        /\ UNCHANGED <<last, compactVars, cache, reader, bounds, confVars>>

JoinAll(w) ==
    /\ wait[w].pc = "joining" /\ wait[w].left = {}
    /\ wait' = [wait EXCEPT ![w].pc = "returned"]
    /\ UNCHANGED <<last, compactVars, cache, reader, bounds, confVars>>

SetStorageConfig(e) ==
    /\ e \in scope.sets /\ SetConfig(e)
    /\ UNCHANGED <<last, compactVars, cache, reader, wait, bounds>>

-----------------------------------------------------------------------------
\* _load_stream_state, called for any version: pick the newest checkpoint at or
\* below the target.
StartRead(r, s, target) ==
    /\ reader[r].pc = "idle" /\ r \in scope.reads
    /\ LET usable == {v \in Registered(s) : v <= target}
           base == IF usable = {} THEN 0 ELSE Max(usable)
       IN reader' = [reader EXCEPT ![r] =
              [pc |-> IF base = 0 THEN "tail" ELSE "load", stream |-> s,
               target |-> target, floor |-> Min({last[s], target}), base |-> base, rows |-> <<>>]]
    /\ UNCHANGED <<last, compactVars, cache, wait, bounds, confVars>>

LoadFileBySettings(r) ==             \* looked for where files are written now
    /\ reader[r].pc = "load"
    /\ LET f == file[FilePath(RowsSay(Global), reader[r].stream, reader[r].base)] IN
       reader' = [reader EXCEPT ![r] =
           IF f.state = "whole" THEN [@ EXCEPT !.pc = "tail", !.rows = f.rows]
           ELSE [Idle EXCEPT !.pc = "error"]]
    /\ UNCHANGED <<last, compactVars, cache, wait, bounds, confVars>>

\* load_checkpoint_rows, of the row's file_path: a file without its footer does
\* not parse.
LoadFile(r) ==
    /\ reader[r].pc = "load"
    /\ LET f == file[checkpoints[reader[r].stream][reader[r].base]] IN
       reader' = [reader EXCEPT ![r] =
           IF f.state = "whole" THEN [@ EXCEPT !.pc = "tail", !.rows = f.rows]
           ELSE [Idle EXCEPT !.pc = "error"]]
    /\ UNCHANGED <<last, compactVars, cache, wait, bounds, confVars>>

\* rows.sort(key=version): the rows in an order that follows their versions.
SortByVersion(rows) ==
    LET places == DOMAIN rows
        order == CHOOSE p \in Bijection(places, places) :
                    \A i, j \in places : i < j => rows[p[i]][2] <= rows[p[j]][2]
    IN  [i \in places |-> rows[order[i]]]

\* The filter of a call for one tenant; without one (Unset) every row is kept.
RowsOf(tenant, rows) ==
    LET kept[i \in 0..Len(rows)] ==
            IF i = 0 THEN <<>>
            ELSE IF tenant \in {Unset, TenantOf[rows[i][1]]} THEN Append(kept[i - 1], rows[i])
            ELSE kept[i - 1]
    IN  kept[Len(rows)]

ReadTailInclusive(r, tenant) ==      \* version >= base_version
    /\ reader[r].pc = "tail"
    /\ LET rd == reader[r]
           from == IF rd.base = 0 THEN 1 ELSE rd.base
           tail == Rows(rd.stream, from, Min({rd.target, last[rd.stream]}))
           sorted == SortByVersion(rd.rows \o tail)
       IN reader' = [reader EXCEPT ![r] = [@ EXCEPT !.pc = "done", !.rows = sorted]]
    /\ UNCHANGED <<last, compactVars, cache, wait, bounds, confVars>>

\* The commits after the checkpoint up to the target, then the sort and the
\* filter.  The base of a read that is over does not matter.
ReadTail(r, tenant) ==
    /\ reader[r].pc = "tail"
    /\ LET rd == reader[r]
           tail == Rows(rd.stream, rd.base + 1, Min({rd.target, last[rd.stream]}))
           sorted == SortByVersion(rd.rows \o tail)
       IN reader' = [reader EXCEPT ![r] =
              [@ EXCEPT !.pc = "done", !.rows = RowsOf(tenant, sorted), !.base = 0]]
    /\ UNCHANGED <<last, compactVars, cache, wait, bounds, confVars>>

Compact(s, v) ==
    \/ SelectRows(s, v) \/ LookUp(s, v) \/ OpenFile(s, v)
    \/ CloseFile(s, v) \/ Insert(s, v) \/ Advance(s, v)

MaybeCheckpoint(s, v) ==
    \/ CheckCache(s, v) \/ LoadLast(s, v) \/ FillVersionCache(s, v)
    \/ SpawnCheckpoint(s, v) \/ StartThread(s, v)

Read(r) ==
    \/ \E s \in Streams : \E target \in 1..scope.versions[s] : StartRead(r, s, target)
    \/ LoadFile(r)
    \/ \E tenant \in {Unset} \union {TenantOf[s] : s \in {reader[r].stream} \cap Streams} :
          ReadTail(r, tenant)

WaitForPendingCheckpoints(w) ==
    TakePending(w) \/ (\E t \in Threads : Join(w, t)) \/ JoinAll(w)

Next ==
    \/ \E s \in Streams, v \in 1..MaxVersion :
          \/ AppendCommit(s, v) \/ GetStorageConfig(s, v) \/ MaybeCheckpoint(s, v)
          \/ Compact(s, v) \/ CompactionFails(s, v)
    \/ \E r \in Readers : Read(r)
    \/ \E w \in Waits : WaitForPendingCheckpoints(w)
    \/ \E e \in Setters : SetStorageConfig(e)
    \/ Restart

Spec == Init /\ [][Next]_vars

\* While threads run, one gets to: each has few steps and they are finitely many,
\* so that every one ends.  Nothing has to be appended, read or to fail.
FairSpec ==
    /\ Spec
    /\ WF_vars(\E s \in Streams, v \in 1..MaxVersion :
                  GetStorageConfig(s, v) \/ MaybeCheckpoint(s, v) \/ Compact(s, v))

-----------------------------------------------------------------------------
TypeOK ==
    /\ ConfigTypeOK
    /\ last \in [Streams -> 0..MaxVersion]
    /\ \A s \in Streams : Registered(s) \subseteq 1..last[s]
    /\ \A f \in Files : file[f].state \in {"none", "partial", "whole"}
    /\ \A s \in Streams : cache[s] \in {Unset} \union (0..MaxVersion)
    /\ \A t \in Threads :
          /\ thread[t].pc \in Compacting \union {"idle", "config", "check", "load", "fill",
                                               "register", "start", "advance", "done"}
          /\ thread[t].seen \in 0..MaxVersion
          /\ Snapshot(t) \in 0..last[t[1]]
    /\ failures \in 0..scope.failures /\ restarts \in 0..scope.restarts

\* A read of a stream with a directory of its own that returns, returns a prefix
\* of that stream: every commit from 1 on, once, in order, up to its target or as
\* far as the log went while it ran, whatever compactions, failures, changes of
\* directory and restarts it overlapped.
ReadsExact ==
    \A r \in Readers :
        LET rd == reader[r] IN
        rd.pc = "done" /\ Alone(rd.stream) =>
            \E k \in rd.floor..Min({last[rd.stream], rd.target}) :
                rd.rows = Rows(rd.stream, 1, k)

\* A registered checkpoint is a full snapshot of [1..version] of its stream, or of
\* one that shares its directory: never a delta, and never of more or less than
\* the version it is filed under; only a rewrite in progress, or one that died,
\* can hide it.
CheckpointsAreSnapshots ==
    \A s \in Streams : \A v \in Registered(s) :
        file[checkpoints[s][v]] \in
            {NoFile, Partial} \union {Whole(Rows(u, 1, v)) : u \in Sharing(s)}

\* The cache may lag the checkpoints but never runs ahead of them: a failed
\* or lost compaction is never taken for a successful one.
CacheNeverAhead ==
    \A s \in Streams : cache[s] # Unset => cache[s] <= MaxCheckpoint(s)

\* "Block until all in-flight background checkpoint compactions finish": a wait
\* that returned leaves none running of those in flight at its call, unless its
\* join of the thread timed out, or another wait had taken it off the list.
WaitsAreHonest ==
    \A w \in Waits : wait[w].pc = "returned" =>
        \A t \in wait[w].owed \ wait[w].late :
            thread[t].pc = "done" \/ \E u \in Waits \ {w} : t \in wait[u].took

\* The types, the cache's place behind the checkpoints and what these hold, the
\* StorageConfig that threads go by (StaleOnlyAfterRace), and the waits.
CheckpointInv ==
    /\ TypeOK /\ CacheNeverAhead /\ CheckpointsAreSnapshots
    /\ StaleOnlyAfterRace /\ WaitsAreHonest

\* A missed checkpoint is made up for: in the end there is one of each stream that
\* committed more intervals than compactions may fail, unless the process
\* restarts or the interval is changed.
CheckpointLands ==
    []<>(\A s \in Streams :
            scope.sets = {} /\ last[s] >= (scope.failures + 1) * Interval[Default] =>
                Registered(s) # {} \/ restarts > 0)

\* "A query for tenant A cannot replay tenant B's checkpoint": a read replays
\* rows of its own stream only.
ReplaysOwnStream ==
    \A r \in Readers : reader[r].pc \in {"tail", "done"} =>
        \A i \in DOMAIN reader[r].rows : reader[r].rows[i][1] = reader[r].stream

\* A read of a registered checkpoint fails only while a thread, of that stream or
\* of one that shares its directory, rewrites the file over the same last version
\* after another of the stream had registered it; else only once a compaction has
\* failed or the process has restarted.  A file is never registered before it is
\* whole, and is found where it was written after the directory has changed.
ReadFailsOnlyUnderRewrite ==
    [][\A r \in Readers :
          reader[r].pc = "load" /\ reader'[r].pc = "error" /\ failures + restarts = 0 =>
              \E t, u \in Threads :
                  /\ t # u /\ t[1] \in Sharing(reader[r].stream) /\ u[1] = reader[r].stream
                  /\ thread[t].pc = "close" /\ Snapshot(t) = reader[r].base
                  /\ thread[u].pc \in {"refresh", "advance", "done"}
                  /\ t[2] <= reader[r].base /\ u[2] <= reader[r].base]_vars
=============================================================================
