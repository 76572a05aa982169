# Wisetraceloom: specifications, model checking and proofs

This directory holds the TLA+ development kept beside wisetraceloom, a Python
SDK that records what LLM agents do: it appends spans to a versioned,
hash-chained log in SQLite, and builds on that log checkpoints, time-travel
reads, audit anchors, erasure, data residency, prompt versions with a promotion
gate, spend quotas and tenant access control. Around the log are the instrumented
blocks that make the spans, their trace context, the process's log pipeline with
its rotated files, and an export to OpenTelemetry that tenants opt in to.

The modules model the code of `src/wisetraceloom/`; `PROJECT.json` maps every
definition to the lines it stands for, and lists the runs, the findings, the
hazards and the theorems. Run a model with
`tlc -config <X>.cfg <MCModule>`, and the proofs with
`tlapm <X>.tla` on the eight modules named `...Proofs` (`ConfigCacheProofs` and
`TelemetryProofs` take some minutes).

## 1. Inventory

### Components, their state, and what makes them correct

| component | state | operations | what must hold |
|---|---|---|---|
| commit log (`storage.py` 81-334) | `StorageCommit` rows of a stream | `append_commit` | dense versions, an intact hash chain, times that agree with versions, true answers to callers, in spite of races, lock errors, retries and deaths |
| checkpoints and reads (`checkpoint.py`, `storage.py` 403-567) | `StorageCheckpoint` rows, Parquet files, the cache of checkpoint versions, compaction threads and the list of them | `_maybe_checkpoint`, `compact_checkpoint`, `wait_for_pending_checkpoints`, `read_as_of_version`, `read_as_of_timestamp`, `read_latest` | a read returns each commit up to its target once, whatever compactions run; a checkpoint row always names a readable full snapshot; the cache never claims a checkpoint that is not there; a wait that returns has seen the end of what it took |
| configuration caches (`storage.py` 98-245, `otel_export.py` 30-130) | `StorageConfig` and `ExportConfig` rows and the process's cache of each | `get_*_config`, `set_*_config` | the cache is stale only after a lookup that raced with a set |
| write queue (`storage.py` 337-400) | the queue, its writer thread and lock | `enqueue_append`, the writer loop, `wait_for_pending_writes` | never blocks the host, one writer, order kept, the store chosen at the call |
| crypto-shredding (`crypto_shred.py`) | `SubjectKey`, `ErasureRequest` | encrypt, decrypt, request, confirm | erased data is unreadable for good, every fact about an erasure is true, and a request is confirmed once (which two confirmations that overlap break, see the findings) |
| residency (`residency.py`) | `RegionConfig`, its cache, the registered regions | set, get, register, resolve | fails closed, the latest assignment wins, reads find what was written |
| prompts and evaluation (`prompts.py`, `evaluation.py`) | `PromptVersion`, `PromptAlias`, `EvalSummary`, golden sets | register, promote, clear, evaluate | nothing unevaluated or regressed in production, what was registered is evaluated |
| cost (`cost.py`, `instrumentation.py` 202-224) | quota and daily spend rows | quota check, spend, anomaly | bounded overshoot, no lost spend, an anomalous day is alerted |
| tenancy (`tenancy.py`) | `Tenant`, `Namespace`, `Membership` | create, grant, revoke, query | roles come from grants, a revocation sticks, no query is answered by a membership that was gone before it began |
| audit chain (`audit_chain.py`) | `AnchorRecord`; the host's sink | verify chain, Merkle root, anchor, verify anchor | changes that the hash covers are found where they are, anchors vouch for what they anchored, no false alarms |
| spans and trace context (`instrumentation.py`, `tracecontext.py`, `failsafe.py`) | the context variables of each task | `agent_step`, `tool_call`, `llm_call`, `bound_trace_context`, headers in and out, `fail_open_context` | parents enclose, tasks never see each other's context, emission fails open and makes each record once |
| log pipeline (`logging.py`) | the root logger's handlers, structlog's configuration, two globals | `configure`, `get_logger` | events reach the configured destination, once |
| log rotation (`rotation.py`) | the log file and its backups | the handlers' emit and rollover, the compressing rotator | no record lost before `backup_count` says so, files bounded |
| OpenTelemetry export (`otel_export.py`) | the opt-in above | `export_*_span` | only opted-in spans are exported |
| configuration and engines (`config.py`) | `RotationConfig`, memoised engines | set, get | see section 7 |
| masking, redaction, schema | none shared | | see section 7 |

### How they interact

```
                                             daily spend (cost)
                                                    ^ llm_call's exit
 host code --> agent_step / tool_call / llm_call ---+
  (contexts           |  _emit_span (fail open, block by block)
   per task)          +--> get_logger --> log pipeline --> rotated files
                      +--> export opt-in (configuration cache) --> OTel SDK
                      v
               enqueue_append --queue--> writer thread --+
                                                         v
 confirm_erasure (erasure fact) ----------------> append_commit --> SQLite
 host code (events) ------------------------------^   |    ^
                                resolve_engine -------+    |
                                (residency)                v
          storage configuration (cache) <-- _maybe_checkpoint
                       compaction thread <--------+
                              |
                              v
                    Parquet + StorageCheckpoint --> reads <-- query_latest (tenancy)
                       verify_chain / anchor_commits --> the host's AnchorSink
```

Calls are synchronous except two: `enqueue_append` hands over to one background
writer, and `append_commit` may spawn a compaction thread. Everything else that
interleaves is host threads and tasks in one process, or processes over one
SQLite file.

### What is hard

- *Concurrency control by constraint and retry*: nothing locks between the
  statements of an append; `UNIQUE(stream_id, version)` decides.
- *Statements that each see their own snapshot.* Under pysqlite's transaction
  handling a SELECT opens no transaction, so two SELECTs of one `Session` may
  see different databases. Every model makes each SELECT and each commit a step
  of its own. This is the source of most findings.
- *Check, then act in another transaction*: erasure, first keys, registrations,
  promotions, creations.
- *Caches filled after they were cleared*, and engines resolved early or twice.
- *Files and rows that must agree* (checkpoints), *a sink and a record that must
  agree* (anchors), with failures between the two.
- *Rows by reused ids*: SQLite gives a deleted last row's id to the next, and the
  ORM updates by an id it selected before (memberships, prompt aliases).
- *Context variables* set and reset by blocks that end by an exception, an
  interrupt, in a failing emission, or, in generators, out of order.
- *A global pipeline without a lock*, configured on the first use in any thread.
- *Names that two parties compute differently*, or alike: the rotator's `.gz`
  against the library's expiry, two stream ids against one sanitised directory.
- *State of a process over shared rows*: golden sets, caches, the writer thread.
- *Liveness*: retries that end, queues that drain, checkpoints that land after
  failures, versions that get evaluated.

`PROJECT.json` lists the hazards one by one, at their lines, with the
properties that cover them, or why none does.

## 2. Modules

| module | models | composes or uses |
|---|---|---|
| `AppendOnlyLog` | abstract: an atomic append-only log with answers to its callers | |
| `CommitLog` | `append_commit`, statement by statement | implements `AppendOnlyLog` |
| `CommitLogProofs` | theorems about `CommitLog` | extends `CommitLog` |
| `ConfigCache` | a configuration table and its cache: lookups and sets | |
| `Checkpoint` | checkpoints, cache, compactions, reads, waits | composes `ConfigCache` (as `StorageConfig`); takes the append as atomic |
| `AsyncAppends` | abstract: a bounded spool, settled in order, with answers to its callers | |
| `WriteQueue` | `enqueue_append` and the writer | implements `AsyncAppends`; takes the append as atomic, or failing |
| `CryptoShred` | keys, erasure, facts | takes the append of a fact as atomic, or failing |
| `Residency` | routing, its cache, routed appends and reads | takes the append as atomic |
| `ResidencyProofs` | theorems about `Residency` | extends `Residency` |
| `PromptRegistry` | registration, evaluation, aliases, production's gate | |
| `GovernanceProofs` | theorems about `CryptoShred` and `PromptRegistry` | extends both |
| `CostQuota` | kill switch, attribution, anomalies | |
| `CostQuotaProofs` | theorems about `CostQuota` | extends `CostQuota` |
| `Tenancy` | creation, namespaces, memberships, gated queries | |
| `TenancyProofs` | theorems about `Tenancy` | extends `Tenancy` |
| `AuditChain` | chain verification, Merkle roots, anchors | takes the append as atomic |
| `AuditChainProofs` | theorems about `AuditChain` | extends `AuditChain` |
| `LogPipeline` | `configure` and the first `get_logger` | |
| `Spans` | instrumented blocks, trace context, emission | composes `LogPipeline` and `ConfigCache` (as `ExportConfig`); hands over to `WriteQueue`'s and `CostQuota`'s entry points |
| `ConfigCacheProofs` | theorems about `Checkpoint`, `Spans`, `LogPipeline`, and `ConfigCache` as both use it | extends `Checkpoint` and `Spans` |
| `Rotation` | the log file and its backups under each kind of handler | |
| `TelemetryProofs` | theorems about `WriteQueue` and `Rotation` | extends both |

What licenses "takes the append as atomic" is the refinement
`CommitLog => AppendOnlyLog`, model-checked and proved: a caller that sees only
the log and the answers cannot tell the OCC loop from one atomic step.

The correspondence is direct: a variable per table, cache or thread-local; a
program counter per call, named after what comes next; an action per statement
that touches shared state. Calls are constants, each made once, so that "two
appends race" is two elements of a set. Variables marked *history* in the
modules exist for properties or bounds and never guard a step of the code,
except to stop at a bound. Operators named as variants of an action, directly
before it, with a remark on what went wrong (`RouteFailOpen`, `InsertRowTwice`,
`WriteLateRoute`, ...) are not part of any specification: they are plausible
bugs, and `PROJECT.json` "mutants" says which property each of them breaks.

The MC modules `MCGovernance` (`CryptoShred`, `Residency`, `CostQuota`), `MCAccess`
(`Tenancy`, `AuditChain`) and `MCTelemetry` (`Spans`, `Rotation`) check several
components in one run. Those components share no state and no property relates
them, so the run is their runs side by side: a variable `part`, chosen at the
start, says whose behaviour it is, and the others rest in one of their initial
states. A property of a component that rests holds of that state only.

Where one module's questions need different bounds (`Checkpoint`,
`PromptRegistry`, `Tenancy`, `Spans`, `WriteQueue`), the variable `scope` (in `Spans`,
`spanScope`), chosen at the start from `Scopes` and never changed, holds the
bounds of the behaviour: which calls are made, how many failures there are. One
run then checks every scope.

An invariant `<Module>Inv` (`QueueInv`, `ShredInv`, ...) joins `TypeOK` to the
module's statements about its rows, each a named conjunct with its own comment.
Where two modules are checked or proved about together, their names are apart:
`PromptRegistry` has `PromptInit`, `PromptNext`, `PromptSpec` and `PromptTypeOK`, and
`Residency`, `CostQuota` (`Quota...`), `Tenancy`, `Rotation` and `Spans` do alike.

- **CommitLog.** `Begin`, `ReadVersion`, `ReadPrevHash`, `Stamp`, `Commit`,
  `Conflict`, `GiveUp`, `Return` are the loop of `append_commit`; `LockError` and
  `ReadError` are the `OperationalError`s that are and are not caught; `Crash`
  is the death of the caller at any place, the row kept if committed. The hash
  of a row is the tuple of what it is computed from.
- **ConfigCache.** A lookup is one get of the cache, up to two SELECTs and the
  fill; a set is a SELECT, a commit, and then the clearing of the cache. Values
  are opaque. `get_storage_config` and `get_export_config` have the same
  statements, and `Spans` and `Checkpoint` each give the module its constants.
- **Checkpoint.** Thread `<<s, v>>` is the append of version v and then the
  compaction it spawns; `GetStorageConfig` is its lookup of the interval and the
  directory, `OpenFile` truncates and `CloseFile` completes a Parquet file, so a
  reader can meet a torn one. `SpawnCheckpoint` lists the thread and
  `StartThread` starts it; `TakePending` empties the list for a wait, which then
  joins thread by thread (`Join`, and `JoinAll` when it ends); a join that times
  out adds its thread to the wait's `late`, and what `WaitsAreHonest` asks of a wait
  is every thread it owes but those. A compaction fails at any of its steps, the
  refresh after its commit included: the row is then registered and the cache not
  advanced. A row keeps the path its file was written to, and `DirOf` is the
  sanitised directory of a stream, which others may share (`Sharing`); `RowsOf` is
  the filter of a read by tenant. `Restart` ends the threads and empties the
  caches.
- **WriteQueue.** The double-checked start (`CheckWorker`, `AcquireLock`,
  `RecheckWorker`, `AssignWorker`, `StartWorker`), `Resolve`, `Put`, and the
  writer's `Get`, `Write`, `TaskDone`. The warning about a commit that failed may
  raise in its turn: the writer then passes `task_done` and ends (`EndThread`), and
  what is queued waits for a call that starts another. So may the warning about a
  full queue, to the caller (`Put`). `Crash` takes the queue with it.
- **CryptoShred.** One subject. `ConfirmFails` can strike at each step of a
  confirmation; `CommitErasure` writes all the keys that were selected.
- **Residency.** Rows are kept per key in id order, since `.first()` takes the
  lowest id when two sets have both inserted. `CheckCache` and `ServeCached` are
  the membership test and the subscript.
- **PromptRegistry.** One slot. An evaluation is three measures, chosen from
  `Outcomes`; the gate (`CheckCandidate`, `FindCurrent`, `CompareBaseline`)
  compares them in percent as the code does. `aliases` maps rowids to alias rows,
  as `members` does in `Tenancy`. The golden set is each process's own (`suites`, and
  `Holds` of a call): a process without one does not evaluate what it registers, and
  promotes ungated (`ungated`). `Written` is the ORM's UPDATE, of the columns that
  differ from what was read, so that two reruns can leave a summary of both. `Die`
  is a process's death, at any step of its calls. `steady`, history,
  holds for each promotion the versions that were evaluated when it began and not
  again since.
- **CostQuota.** One tenant, whole units. `EndCall` fixes the cost (or none, for
  an unpriced model) and the date; `AttributionFails` is the fail-open boundary.
- **Tenancy.** One tenant, with the namespaces that `create_namespace` adds and
  `grant_role` checks (`CheckNamespace`). `members` maps rowids to memberships and
  `NextId` is SQLite's choice without AUTOINCREMENT: one above the highest there is.
  A query checks its access in one SELECT and reads its stream, to which commits
  go on, in another (`CheckAccess`, `ReadLatest`).
- **AuditChain.** `ComputeMerkleRoot` is the level-by-level loop as a recursive
  function. `EditRow`, `LoseTail` and `RewriteFrom` are the changes of stored
  rows that `tests/test_audit_chain.py` makes or describes. A hash is of what a row's
  fields join to: `Joined` gives each value of the columns its text, and two values
  may have one (`compute_entry_hash` joins by newlines, and takes a `tenant_id` of
  NULL for ''). `Covered` is a row as its hash has it.
- **LogPipeline.** Every read and write of `_configured`, `_active_file_handler`,
  the root logger's handlers and structlog's factory is a step. Handlers are
  numbered; `Lines` is how many lines an event would make.
- **Spans.** `ctx` is a task's three context variables, `frames` its with-blocks
  with what their tokens kept. `Spawn` copies the context or starts an empty one;
  `BindHeader` and `Inject` are the two ends of a call between processes.
  `LeaveBlock` starts an emission, whose places are the statements of
  `_emit_span`: cost, logger, export, store, each within its fail-open block, and
  `Reset`. `Swallow` is `fail_open_context`, whose warning goes through the same
  pipeline and may fail as well. `Interrupt` is an exception that no fail-open
  block catches. `OpenSpanFails` is a span whose fields do not validate: the
  exception is the host's, before any block began (`crashed`).
- **Rotation.** Records are numbered, a file is the sequence of them, a backup is
  named by its number (size trigger) or by its interval (time). The standard
  library's emit, shift, rename and expiry are external; `SourceMissing` to
  `RemoveSource` are `_gzip_rotator`. The library is that of the Python the project
  requires: it skips the rollover when the name is taken, and deletes by age
  only names that end in a date (`Expiring`), so never a `.gz` of the time handlers.

## 3. Runs

Passing runs. `CHECK_DEADLOCK` is off in all of them, because calls are made
once and the system then rests; that nothing stops before its end is what the
liveness properties are for.

| run | properties | what it shows |
|---|---|---|
| `append` | `LogInv` (`TypeOK`, `DenseVersions`, `AnswersAreTrue`), `ChainVerifies`, `TimeTravelExact`, `ConflictsPaidFor`, `ImplementsLog`, `AppendEnds` | the append is right under races, lock errors, used-up retries and deaths, implements the atomic log, and always ends in a row or an error |
| `checkpoint` | `CheckpointInv` (`TypeOK`, `CacheNeverAhead`, `CheckpointsAreSnapshots`, `StaleOnlyAfterRace`, `WaitsAreHonest`), `ReadsExact`, `ReadFailsOnlyUnderRewrite`, `CheckpointLands` | a read that succeeds is exact through overlapping compactions, a failure, a restart and a change of directory; it fails only over a file under rewrite; a failed compaction is made up for by the next interval; a wait leaves behind only what another wait took; of streams that share a directory a checkpoint is still a whole snapshot of one |
| `queue` | `QueueInv` (`TypeOK`, `SettledInOrder`, `StoredWhereRouted`, `JoinWaitsForAll`), `ImplementsSpool`, `EnqueueNeverBlocks`, `JoinReturns` | the threads and the queue implement a bounded spool that is settled in order, and emptied unless a writer died over it and no call came after; the route is that of the call; a stalled writer never stops a caller; waits are honest and, with the same exception, end |
| `prompts` | `PromptInv` (`PromptTypeOK`, `ProductionIsScored`, `PromotionTakesEffect`), `GateHoldsAlone`, `DetectedIsScored` | from a process with the golden set nothing unevaluated reaches production, but through the id of a deleted row; its gate holds for whatever nobody moves or evaluates again under it; racing evaluations of one content still leave a summary |
| `governance` | of `CryptoShred`: `ShredInv` (`TypeOK`, `FactsAreTrue`, `ReturnedHasFact`, `TokensFindTheirKey`), `ErasedIsUnreadable`, `ShreddedForGood` | what was encrypted before an erasure is unreadable after it, and the facts about it are true |
| | of `Residency`: `ResidencyInv` (`ResidencyTypeOK`, `LaterSetWins`, `StaleOnlyAfterRace`), `FailClosed`, `ReadYourWrites` | routing fails closed through every race of sets, lookups and registrations; while the routes stand a read finds the tenant's writes |
| | of `CostQuota`: `QuotaInv` (`QuotaTypeOK`, `SpendAddsUp`), `OvershootBounded`, `AnomalyAlerted` | the cap is overshot by what is in flight and no more; no spend is lost |
| `access` | of `Tenancy`: `TenancyInv` (`TenancyTypeOK`, `CreatedOnce`, `TenantHasOwner`, `RolesAreGranted`, `MembersHaveNamespace`), `QueryAnswersTrue`, `RevocationSticks` | a query reads by no membership revoked before it began, and is denied by none that stood; a revocation sticks; racing creations make one tenant, with its owner, and one namespace; roles come from grants, but through the id of a deleted row |
| | of `AuditChain`: `AuditInv` (`TypeOK`, `RecordsAreSunk`), `VerificationExact` (`EditsAreFound`, `IntactVerifies`), `AnchoredHistoryStands`, `RootNamesHistory` | edits of what the hash covers are found where they are; a verifying anchor vouches for the history it anchored |
| `telemetry` | of `Spans`: `SpansInv` (`SpansTypeOK`, `StateOfItsTrace`, `StaleOnlyAfterRace`), `TraceIsTheTree` (`ParentsEnclose`, `ContextRestored`), `EmissionFailsOpen`, `PipelineSound` (`SoundIsHeard`, `NoDoubleLines`) | contexts stay with their tasks through failures, interrupts and out-of-order ends; a failure costs one record; lines are doubled only by calls of `configure` that overlap or are cut off |
| | of `Rotation`: `RotationInv` (`RotationTypeOK`, `UnmovedIsLive`, `BackupsBounded`, `FailureCostsOneRecord`), `LostOnlyByReuse`, `GrowsOnlyWhenTaken` | for every kind of handler, with failures and restarts: a record is lost before its time only when its backup's name is used again |

### Findings: runs that TLC finds violated

Each states what a line of the repository says, quoted in full in `PROJECT.json`.

| run | property | what happens |
|---|---|---|
| `checkpoint_shared` | `ReplaysOwnStream` | two streams, of two tenants, whose ids sanitise to one directory (`spans:a_b:c` and `spans:a:b_c`) write one Parquet file, and a read of one replays the other's rows, or with its filter by tenant misses its own; `tenancy.py:4-6` says that a query for tenant A cannot replay tenant B's checkpoint |
| `erased_twice` | `ConfirmedOnce` | two confirmations of one request both return, with two facts; `crypto_shred.py:191-192` calls it a one-way, one-time transition that raises when the request was confirmed already |
| `prompts_ungated` | `LaterProcessGates` | a process in which no golden set is registered moves production to a version that regresses against the evaluated baseline; `evaluation.py:73-75` says that a later process can gate by the summaries |
| `single_edit` | `AnySingleEditIsFound` | an edit of one row verifies: of columns that join to the same text, or of the last row together with its own hash; `audit_chain.py:13-16` and `storage.py:109-111` say that editing any single row is detectable |
| `rotation_lost` | `BackupsKept` | with the README's configuration (`README.md:95-98`: 50 MB, midnight, 7 backups, compressed) a second rollover by size within one day has the first's name and writes over its archive. Rotating real files with `rotation.py` shows the same loss |

### Windows the models contain

The models follow the code into the states below, and the passing properties are
worded so that they say what can never follow from them. Where a line of the
repository says that one of them cannot occur, it is quoted here or has a run
above.

- *Checkpoints.* Two compactions that reach one version write one path: the later
  truncates the file that the earlier has registered, and a read of it fails
  (`ReadFailsOnlyUnderRewrite`), for good if the later then fails too. A slow
  compaction sets the cached version back, at the price of an early checkpoint.
  Two streams whose ids sanitise alike share a directory, and one can replay the
  other's rows (`checkpoint_shared`). A thread is listed before it is started, and
  a wait that joins it in between raises `RuntimeError`; a second wait finds the
  list emptied by the first and returns at once, although `storage.py:424` says
  "Block until all in-flight background checkpoint compactions finish"
  (`WaitsAreHonest` excepts what another wait took); with a timeout, a wait returns
  too early by contract. A compaction whose refresh fails has registered its row and
  leaves the cache where it was. A
  commit whose lookup of the configuration raced with a change keeps the stale
  interval and directory in the cache until the next change.
- *Queue.* When an append fails and the warning about it raises too
  (`storage.py:351-356`), the writer thread ends: what is queued stays there, and a
  wait does not return, until a later `enqueue_append` starts another
  (`Stalled` in `JoinReturns` and `ImplementsSpool`).
- *Erasure.* Two confirmations of one request both go through, with two facts
  (`erased_twice`); an append that fails after the erasure committed is never retried, as the
  request is no longer "Requested"; a key made between selection and commit
  survives; two first encryptions can leave two live generations.
- *Configuration caches* (`Residency`, `ConfigCache`). A lookup fills the cache,
  after a set cleared it, with what it read before, and nothing clears it again:
  a tenant that moved its region goes on being routed to the old one, one that
  opted out goes on being exported. The invariants (`StaleOnlyAfterRace` of each)
  say that nothing else makes the cache stale.
- *Residency.* The two SELECTs of a lookup see two snapshots. When a set of the
  tenant's region and then one of the global default commit between them, the
  tenant is sent to the global region, where it was never routed, and the append
  lands there: `ReadYourWrites` is about routes, own and global, that stand. The
  cache can be cleared between `in` and `[]`, a `KeyError` to the caller;
  `read_latest` can take the version from one store and the rows from another.
- *Prompts.* Two registrations of one content make two versions, with one
  `version_number`, although `prompts.py:3-5` says that "the same
  template + model params against the same slot always resolves to the same row", and
  `README.md:166-168` likewise; a process without a golden set of its own is not gated
  (`prompts_ungated`); of two reruns of one version each writes the columns that
  differ from what it read, so the summary may be neither's
  (`evaluation.py:171-178`); two promotions
  pass the gate against one baseline, and the later may regress against the
  earlier; a rerun that evaluates the baseline or the candidate again between the
  gate and the commit leaves the move to regress by the new figures
  (`GateHoldsAlone` is about versions that stay `steady`); a version whose
  registration dies before its evaluation is
  not evaluated on a later detection. An alias without the gate (`canary`) that
  was selected before a clear is written by id after it: if that id has become
  production's, production gets a version that no gate saw, evaluated or not
  (the exception `freed` of `ProductionIsScored`).
- *Cost.* Midnight between a record and its anomaly check: the check asks about
  the new day.
- *Tenancy.* A death between the tenant's commit and the owner's grant leaves it
  without an owner, which a second creation refuses to repair. A grant updates
  and a revoke deletes by the id selected before: when another revoke freed it
  and a further grant took it, that grant's membership gets a role nobody
  granted it (the exception `freed` of `RolesAreGranted`), or is deleted by a
  revoke of another (`tenancy.py:233`; `TakenAway`). A query reads after its check
  (`tenancy.py:282-285`): a membership revoked in between still lets it read, commits
  made after the revocation among them.
- *Audit.* Lists of hashes of different lengths can share a Merkle root when their
  last leaves repeat (the odd leaf is duplicated), although `audit_chain.py:118-121`
  says that the duplication keeps two leaf lists of different length from "collid[ing]
  on the same root"; `RootNamesHistory` shows that no two
  verifying histories of a stream do, and `verify_anchor` takes exactly the rows up
  to the anchor's version. An edit that the hash does not cover, and one of the last row with its
  hash, verify (`single_edit`).
- *Log pipeline.* Two calls of `configure` that overlap, two first uses among
  them, each add a handler and one is never removed: every event is written
  twice. So does an interrupt between `addHandler` and the assignment after it.
  Between `removeHandler` and `addHandler` events have nowhere to go, and after a
  file that could not be opened they go nowhere until `configure` is called again.
  Overlapping calls with different destinations can end over the file's factory
  and no handler. Loggers that structlog has cached keep their old factory, which
  is not modelled.
- *Spans.* A span opened under a bound context binds no tracestate, so calls made
  from it drop the vendor state that came in. Blocks of generators that end out of
  order leave a task bound to a span that has ended. The event and the export
  share a fail-open block: when the event fails, the span is not exported.
  A span's fields are validated before any fail-open block, so a pydantic
  `ValidationError` reaches the host (`OpenSpanFails`), although `README.md:241`
  says that instrumentation "never crashes your host application" and
  `failsafe.py:3-5` the same of every instrumentation failure. `HostNeverCrashes` of
  `Spans` is that claim; no run lists it, but as an invariant of `MCTelemetry` TLC
  finds it violated in the second state. A block closed in another `Context` than
  it was opened in raises `ValueError`, which is not modelled. A cancelled tool call leaves `success` unset.
- *Rotation.* Where the library skips a name that is taken, an uncompressed log
  under both triggers is not rotated again after a size rollover until it is
  reopened, and outgrows its size (`GrowsOnlyWhenTaken` confines it). By size
  only, the compressing rotator keeps one archive, since nothing shifts a `.gz`. By
  time, with or without size, archives are never deleted, since the library's expiry
  asks for a name that ends in a date, although `README.md:95-98` configures
  `backup_count=7` with `compress_backups=True` (`BackupsBounded` is about the others).
  A failure after the log was removed and before it is reopened makes the
  compressing time handler raise `FileNotFoundError` on every record until it is
  reopened (`FailureCostsOneRecord` excepts exactly this).

## 4. Bounds

A bound is a constant with its own comment in the module; it only ever disables
a step of the environment (another call, tick, crash, failure, change).

- *Calls*: two or three of each kind. The races in this code are between a step
  that reads, a step that invalidates, and one that acts; three appends also
  give a conflict while another call sits between its read and its commit, and
  use up the retry budget (`MaxRetries` = 2) by conflicts, lock errors and a mix.
- *Residency* has two sets of one tenant's key, both of which may insert, and one
  of the global default, from a table with and one without a global default.
  Other tenants' rows are only ever read under their own key.
- *Checkpoints*: three streams, one with files of its own and two, of two tenants,
  with one directory; six scopes. With `Interval` = 1 and three commits all three
  compactions overlap under a read; with two, one fails or the process restarts,
  and the other is there to make up for it; the directory moves under two commits
  and a read; two changes race around one commit, one of them switching
  checkpoints off; two waits race for two threads; the two streams commit and compact
  once each under a read. At a larger interval the versions in between start none;
  four commits at interval 2 hold too, in a run too long to keep.
- *Prompts*: two processes; seven scopes. Two promotions of two contents, with and
  without a golden set in the second process; two promotions and a clear, of two
  versions of which one may be evaluated; production beside an ungated alias that is
  promoted and cleared, for the reuse of an id; a golden set that appears or is taken
  away, with its runner failing and a death; two registrations of one content with a
  rerun, an error and a death; two promotions while one version is evaluated again;
  and one while the reruns of two processes mix their columns.
- *Queue*: capacity 1 with three callers is full, empty and refilled. Three
  scopes: a route that changes once, between two stores or to none, which
  separates the call's route from the writer's; a wait with a death of the process;
  a wait with one warning that raises and ends its writer.
- *Cost*: costs 1 and 3 against caps 1 to 3 reach the cap from below, exactly and
  from above; three days give a baseline day, the day and the one after midnight.
- *Tenancy*: five scopes: two creations with grants and revokes; the same with a
  death; two creations of a namespace with grants in it and beside it, their
  revokes and a death; one creation of a namespace with them, a query and a
  commit to read; a membership revoked twice while another is granted and
  queries, so that an id is used again. Two principals and two namespaces separate
  "another membership" in both columns, and one row's deletion suffices to reuse its id.
- *Spans*: six scopes of at most three spans, three deep, over two tasks: trees
  (a grandchild, siblings, a spawn with and without the context, generators),
  requests (a call there and one from elsewhere, with and without tracestate),
  failures (two faults in one task's emissions, one of them in the other's
  warning), two first uses, a host that configures thrice around one span, and
  exports under two sets of the opt-in.
- *Rotation*: seven records of which the second would fill a file, four intervals
  and three backups fill the backups and expire the first under each trigger; two
  failures reach the second one while the first's effect lasts. Records have one
  size, and intervals are counted from the file's start, which is what the
  library's `midnight` does when the clock is the interval. `BackupCount` is
  at least 1.
- *Audit*: three rows is the shortest stream with an odd Merkle level above the
  leaves' pair; two changes can edit and edit back, or lose a tail that grows
  again. Three values of a row's columns, two of which join to one text. The
  instance also bounds the rows, the changes and the anchorings begun, together, by
  five (`Bounded` of `MCAuditChain`).
- *Failures, crashes, restarts*: one each is enough for every property here to
  be disturbed, since what follows a failure runs to its end.
- *Symmetry* is used in `governance` over encryptions, in `access` over
  anchorings and the two values of columns that join to one text, in `telemetry`
  over tasks: nothing tells them apart, and none of these runs has a liveness property.

## 5. Fairness

Safety runs assume none. Where a liveness property is checked:

- `CommitLog!FairSpec`: weak fairness of each call's own next step. The steps
  are a thread's straight-line code, and the operating system schedules it;
  `Crash` is not fair, nor is a lock error forced or excluded, and the retry
  budget bounds both.
- `Checkpoint!FairSpec`: weak fairness of the disjunction of all steps of appends'
  tails, their lookups of the configuration, and the compaction threads that were
  started. Each of these threads has finitely many steps and none waits for another,
  so this is what the scheduler's fairness to each of them comes to: all of
  them end. New commits are not fair: the property speaks of streams that get that far.
- `WriteQueue!FairSpec`: weak fairness of the callers, of the writer threads that
  run and of the waits that may return. `ImplementsSpool` includes the spool's own
  fairness: what is accepted is settled, unless the process dies. It and
  `JoinReturns` except behaviours that end stalled (`Stalled`): a warning raised, the
  writer died over a queue, and no later call started another; making
  that call is the host's affair, and no fairness is asked of it.
  `EnqueueNeverBlocks` asks nothing of the scheduler: it is an invariant, that a
  caller has a step to take or waits for a lock whose holder has.
- `PromptRegistry!FairPrompts`: weak fairness of each registration that has begun.
  `DetectedIsScored` is about registrations in processes that hold the golden set, and
  excepts behaviours with a death, a runner's error or a change of the suites.

`Spans`, `LogPipeline`, `Rotation`, `Tenancy`, `Residency`, `CryptoShred`,
`CostQuota` and `AuditChain` claim safety only: their calls are straight-line
code with no waits or retries whose end could be in doubt.

## 6. Proofs

Every safety property of every passing run, but `EnqueueNeverBlocks`, is a theorem,
for all values of the constants; each run shows the same on its instance. A proof
module states the inductive invariant of each specification it is about (`IInv`,
or under a name of its own: `PromptIInv`, `RotationIInv`, `SpansIInv`), proves
that the initial states and every action keep it, and derives the properties from
it. The proofs are organised by action, or, where most actions leave most of the invariant alone (`Tenancy`,
`CostQuota`, `Spans`), by conjunct with one case per action.

Several of them compute with recursive functions or folds over sequences and sets
of any size. The induction they need is over the length or the cardinality, in the
form of `EveryNumber`: a set of numbers that holds 0, and n + 1 with n, holds them all.
It follows from the library's well-foundedness of < (`LeastNumber`), and asks for
no operator parameter.

### CommitLogProofs

For every set of calls, every retry budget and every clock bound: the type
invariant and all the safety properties of the run `append` (`LogIsSound` is the
run's `LogInv`), and the refinement of `AppendOnlyLog`. Also two properties
of `CommitLog` that no run lists: `PrevRowPresent` and `AppendsAtTheEnd`.

*Assumptions.* `RetriesAssumption` and `ClockAssumption` (two naturals). What
the model assumes of its environment: SHA-256 is injective (a hash is the tuple
of its inputs), the wall clock never steps back, SQLite commits are atomic and
enforce the unique constraint, each SELECT sees committed rows.

*The argument.* The properties relate committed rows only and are not inductive:
a row's link and stamp are decided by what its call read earlier. `IInv` adds

- `Contiguous`: the versions are 1..MAX(version), each once;
- `Chained`: each row chains onto the row before it, and its hash is that of its
  fields;
- `StampsOrdered`: a later version is not stamped earlier, and none after now;
- `CallConsistent(c)`: whatever a call in its loop holds is right *for its
  version*: the version is at most MAX + 1, the previous hash is that version's
  predecessor's, and the stamp is not before any lower version's.

The point is the last: a call may hold a version long since taken, and then its
commit conflicts; if its version is still MAX + 1 at the commit, nothing was
committed since it read, so its hash and stamp are still those of the end of the
log. `CommitKeepsIInv` is that step; `QuietStep` is every other, which writes no
row; `NextKeepsIInv` puts them together. From `Invariance` follow
`TypeCorrect`, `VersionsAreDense`, `ChainAlwaysVerifies`, `TimeTravelIsExact`,
`AnswersAlwaysTrue`, `PrevRowAlwaysPresent`, and with `NextAppends` the action
property `OnlyAppends`. `ConflictsAlwaysPaidFor` needs a count: a second
invariant, `CountInv`, charges each attempt lost to a conflict to a distinct row
of another call. `Refinement` maps the rows to the log in version order and each
call to what its caller knows; `CommitIsPut` shows that a commit is the
abstract append, `StepMaps` that every other step is an answer or a stutter.

### TelemetryProofs

**WriteQueue.** For any callers, waiters, stores, capacity and scopes: `QueueInvAlways` (the run's
`QueueInv`), `OneWriterAlways`, and `Refinement`, that every step is a step of
`AsyncAppends` or a stutter (`Spec => Abstract!Spec`, the safety half of
`ImplementsSpool`). *Assumptions*: `QueueAssumption` (a capacity of at least 1, bounds that
are naturals, a `Nobody` that is no call); the library's `queue.Queue` is a
bounded FIFO with a count of unfinished tasks.

*The argument.* `LockHeld` says who is between the acquisition of the lock and
its release; `OneWorker` follows from it: while a call is about to publish or start a
thread no writer runs, and a thread that runs is the published one. With one writer,
what is settled, then its hand, then the queue are the accepted commits in order
(`SettledInOrder`, which is inductive once `OneWorker` is known), and the library's
count is the queue and the hand (`Counted`), so a wait that sees zero finds
everything accepted before it settled. A writer may end over a warning that raised:
it has passed `task_done`, so the count stays right, and it is at rest (`Resting`)
like one not yet started when the next call looks for a live one. `Routed` carries the captured store from
the call through the queue and the hand to the log. The refinement maps the hand
and the queue to the spool: `Put` joins it, `Write` settles its head.

**Rotation.** For any handlers of the three kinds, number of backups, records, intervals,
failures and restarts: `RotationInvAlways`, `LostOnlyByReuseAlways`,
`GrowsOnlyWhenTakenAlways`. *Assumption*: `RotationAssumption` (a file that holds two
records or more, a backup or more, an interval or more, bounds that are naturals); the
library's handlers are as the module's external actions have them.

*The argument.* That a record is lost only by the reuse of a name is not inductive:
at an expiry it depends on how far each backup has come. `Safe(r)` is what holds of
a record once it was moved: it is in the log, or its time is up, or its name was
used again, or it is `Placed`, in a backup that is `Ranked` by the record's age in
rollovers. By size the rank is the backup's number, at most one above the age (and not
above it where the shift under way has yet to pass); by time it is how many backups are newer.
A shift then takes a record one number and one attempt further, and an expiry takes
what has `BackupCount` newer backups, whose age is that. `RollConsistent` says what
each place of a rollover has done to the file and the names, so that an archive is
complete before its source goes. An expiry keeps the last names there are
(`LastNames`, from the well-foundedness of <); it takes place only where the library
knows the names (`Expiring`), and `BackupsBounded` is claimed there and where backups
are numbered, for the archives of the compressing time handlers have no bound.

### GovernanceProofs

**CryptoShred.** For any finite set of encryptions and any confirmations, requests and number of
failures: `ShredInvAlways`, `ErasedIsUnreadableAlways`, `ShreddedForGoodAlways`.
*Assumption*: `ShredAssumption` (`None` is no encryption or request); Fernet
decrypts under the key that encrypted and no other.

*The argument.* A new generation is one more than the highest row's, read in an
earlier snapshot: `Numbered` says that the rows are 1..m and that each was made
by an encryption of its own, so, by counting (`RoomForOneMore`), the numbers never
run past the calls, and an insert either extends the rows or meets the unique
constraint. `ConfConsistent` follows what was live when a confirmation began:
all of it are rows at the selection, selected or destroyed at the commit, and
destroyed from then on. A fact is appended only there (`FactsConsistent`).

**PromptRegistry.** For any registrations, processes and golden sets, contents, outcomes,
caps, promotions, clears and scopes: `PromptInvAlways`, and the action property as `GateHolds`. *Assumption*:
`PromptAssumption` (there are registrations, finitely many, and each scope says what each
of them registers; caps and outcomes are numbers; `Absent` is neither a version nor an
outcome); SQLite gives a new row an id above the highest and enforces the unique
alias (`version_number` has no constraint, and two versions may have one).

*The argument.* As with grants in `Tenancy`, a promotion selects an id and writes by it
later. `PromoteConsistent`: at its UPDATE the row is still of its alias, unless it was
deleted meanwhile (`freed`). `GateConsistent` is what the gate has seen by each of its
places in a promotion from a process with a golden set (the others are `ungated`,
and both theorems except them): the candidate is evaluated from the first look on, the baseline is something the
alias named meanwhile, and past the gate (`Passed`) there is such a baseline that the candidate
does not regress against, as long as both stay `steady`. No step takes a
summary away, so what was evaluated at the gate is at the commit. A rerun may write
columns of two runs into one summary, which is then no longer `steady`. An alias of a
deleted row is the one exception within gated processes, and `ProductionIsScored` names it.
The proof found the property wrong as it was stated before: figures measured again between the
gate and the commit are not those that the gate compared, so `GateHoldsAlone` asks that
they were not, and a scope with a rerun beside promotions now shows the case.

### ResidencyProofs

For any tenants, regions, calls, initial rows and registrations:
`ResidencyInvAlways`, `FailClosedAlways`, `ReadYourWritesAlways`. *Assumption*:
`ResidencyAssumption` (the sets of names are apart and the calls' arguments are of
their types).

*The argument.* `Reached(k, s)` says where a key may be routed at all: where its
rows ever routed it, or where the global rows did if the two ever agreed, which is
the lookup whose two SELECTs straddle two sets; that second way never leads
to the default store, since rows are not deleted and a global row still
missing at the second SELECT was missing at the first. What each call holds,
what the cache holds and what is in each store is `Reached` (`Holds`,
`CacheRouted`, `StreamsRouted`), and `Reached` only grows with the routes.
`FailClosed` is its case for the default store. Where the routes stand it leaves one
store (`OneStore`), and `Covers` says that the version a read has taken there
covers what it must find. `SetsFollow` proves that the later set wins: a set that
found no row followed no set of its key. `Fresh` proves staleness: between sets, what a lookup
that began after the last clearing has read still holds.

### TenancyProofs

For any scopes, principals, names, calls and bound on deaths: `TenancyInvAlways`,
`QueryAnswersTrueAlways`, `RevocationSticksAlways`. *Assumption*:
`TenancyAssumption` (creations are not grants, the calls' arguments are of their
types, `TenantWide` is no namespace); SQLite gives a new row an id above the highest and
enforces the unique `tenant_id`.

*The argument.* A grant selects an id and writes by it later, so all depends on
what that id still means. `GrantConsistent`: at its UPDATE the row is still
of the grant's membership, unless it was deleted meanwhile (`freed`, which stays
empty until a revocation, `FreedByRevokes`). `OneCreation` and `MadeOnce` are the unique
constraints seen from the calls. `OwnerComes` follows the creation that got
through until its owner's row is there. `RevokeConsistent`: a revocation that ran
beside no grant (`Quiet`) deletes the only row there is.

`QueryAnswersTrue` speaks of calls that were over before the query began, and the
query sees rows only, so the rows must account for the calls. `RowStands`: each
row has a grant that wrote its membership, and whichever revocation of it came
after that grant has yet to delete this row. `GrantStands` is the converse: a
membership that a grant found or wrote has its row, or was taken away. That a
DELETE by id hits the membership that was selected needs `DeletesItsOwn`, whose
exceptions are two revocations of one membership (`Doubled`). `QueryConsistent` keeps
through the query what it began after: the grants and revocations that had returned, a
grant no such revocation came after if it was let in, none that stood if it was
denied, and the version the stream had reached, which the later read cannot miss.

### AuditChainProofs

For any values of the columns and any texts they join to, any anchorings, length of
the stream and number of changes:
`AuditInvAlways`, `VerificationExactAlways`, `AnchoredHistoryStandsAlways`,
`RootNamesHistoryAlways`. *Assumption*: `BoundsAssumption` (two naturals, and a text for each value
of the columns); SHA-256 is injective in the text it is given. That the text is
injective in the row is not assumed (`Joined`), so the theorems speak of histories as
they are covered (`Covered`, `AsCovered`).

*The argument.* `MerkleRootIsInjective` carries the anchors: over lists of
distinct hashes the root determines the list, its length included, although
an odd leaf is paired with itself. The levels of a list halve until one is left
(`LevelsShrink`, `RootAtHeight`); each level of distinct hashes is again distinct
(`NextLevelDistinct`) and determines the one below (`NextLevelInjective`), a duplicated
last leaf showing as a pair of equals, which distinct leaves never make. Two lists of
different heights differ because a leaf is the hash of three things and a node of
two (`HeightsAreEqual`). A chain that verifies has distinct hashes (they contain their
version), so equal roots give histories that are equal as covered.

`IInv` relates the stored rows to `appended`, what the log itself wrote: an undamaged
stream verifies (`Intact`). `EditsAreFound` is about a damaged one. If the chain does
not break at a row that was changed, its hash is right for what it covers, so it is
another hash than the log gave it; and unless the row is the last, the next one still
chains onto the log's, and the chain breaks there. The
exceptions it names are what is left: the next row was changed as well, or appended
after the edit. Anchors are for these.

### ConfigCacheProofs

**Checkpoint.** For any streams, configured values, intervals, readers, waits, sets, failures and
restarts: `CheckpointInvAlways`, `ReadsExactAlways`, `ReadFailsOnlyUnderRewriteAlways`.
Streams may share a checkpoint directory or not (`DirOf` is any map, as
`checkpoint_file_path` sanitises `a:b` and `a_b` alike); what a read returns is claimed
for streams that are `Alone` in theirs, and `ReplaysOwnStream` is the finding about the
others. *Assumptions*: those of the modules; the append is atomic, a Parquet file is
whole once closed.

*The argument.* `ConfigIInv` is `Fresh` of the residency proof for the statements of
`ConfigCache`. `StreamOk`: a registered row names a file of its own stream and version.
`FilesOk`: a file holds its version's snapshot of one of the streams `Sharing` its
directory, or is torn, so it is of the one stream where that is alone. `ThreadsOk`: the
version a compaction saw registered is no more than is, and its snapshot holds its
own version. From these the rows of a read of a stream alone
are of the version they are filed under (`ReaderOk`),
and the rows after them continue them; that the sort by version and the filter by
tenant then change nothing is proved for every length (`SortByVersion` is a
monotone permutation, and such a one moves nothing). `WaitsOk`: what is in flight
is on the list, or was taken off it by a wait that has yet to join it.
`Unharmed` holds while nothing failed: only a thread at work tears a file, which
gives the action property.

**Spans, LogPipeline.** For any tasks, hosts, tenants, configured values, scopes, and so any
number of spans, faults and calls of `configure`: `SpansInvAlways`,
`TraceIsTheTreeAlways`, `EmissionFailsOpenAlways`, `PipelineSoundAlways`. *Assumptions*:
`SpansAssumption` (tasks look up and call `configure`, hosts are other callers,
`Foreign` is no number, scopes are of their types) and those of `ConfigCache`.

*The argument.* `SpansIInv` has three parts, one for each of the modules.

- `PipeIInv`: a call of `configure` that runs alone finds at each of its places what it
  left at the one before (`AloneOk`), and while no two calls overlapped and none was
  cut off, the root logger has no handler but the active one, and the one a call is
  about to record (`RootOk`). So a call that ran alone leaves the pipeline as
  `Sounds` has it. `PipeStep` is all that the emissions need to know of its steps.
- `SpanIInv`: every context held anywhere, in a task, a frame, a header, is unbound,
  foreign or some span's with that span's trace (`CtxsOk`); a block on a task's stack was entered
  by it, and no two blocks are one span's (`FramesOk`); a task that has only ever left its
  innermost block gets back, block by block, the contexts it had (`Nested`); a
  span's parent is of its trace and encloses it, or is what the task began with, or,
  in a task that left blocks out of order, a span it was bound to (`ParentsOk`). For emissions, `Made`
  says what has become of a span at each place, line, export, store and cost, unless
  a fault is to blame for it, and a block that fails goes on at the next one. The shape of an
  emission's steps is one lemma (`EmissionStep`); opening a block and leaving it are
  two (`BindKeeps`, `ResetKeeps`).
- `ConfigIInv`, the invariant that `Checkpoint` uses, over the opt-in.

### CostQuotaProofs

For any finite set of callers and of costs, any caps, days, window, multiplier and
bounds: `QuotaInvAlways`, `OvershootBoundedAlways`, `AnomalyAlertedAlways`. *Assumption*:
`CostAssumption` (there are costs, all above 0; amounts are naturals; `Unset` is
none). Amounts are whole, where the code adds floats; the upsert is atomic.

*The argument.* The sums are the community modules' fold, which takes the elements
in an order of its own; `AnyFirst` shows that the order does not matter, and
`SumSplits` takes one element out. `SpendAddsUp` then moves one amount at a time: from
`paid` to what is due (`DuesGain`), from there to a day (`DuesLose`, `SumChanges`) or
to `lost`. `OvershootBounded` is not inductive: `Headroom` adds to a day's total room for
the largest cost of each caller who may still add to it (`InFlight`: let through
and not yet ended, on that day or before it; or about to record for it). A caller is
let in only when the total is below a cap, so there the others' room is all that
is needed, and it leaves with at most what was kept for it. `Watched` is
`AnomalyAlerted` before everything has come to rest: whoever records has its check
ahead, and a check that reads the total before another record is followed by
that one's.

### What is only model-checked

Every liveness property (`AppendEnds`, `JoinReturns`, the liveness half of
`ImplementsSpool`, `CheckpointLands`, `DetectedIsScored`) and `EnqueueNeverBlocks`:
they rest on fairness or ENABLED, which the prover does not handle. That
`ReplaysOwnStream`, `ConfirmedOnce`, `LaterProcessGates`, `AnySingleEditIsFound` and
`BackupsKept` fail is shown by TLC's counterexamples.

## 7. What is not modelled, and why

- *Masking, redaction, schema*: pure functions of one payload or one line, or
  data classes. That a masking failure blocks a write is an exception before any
  shared state.
- *Engines* (`config.py`): a dictionary filled under a lock. `RotationConfig` is
  read by `LogPipeline` as a value that a set may change.
- *The decorators* (`instrumentation.py`, `_wrap`): the with-blocks of `Spans`
  around a function.
- *Pricing rows* (`set_pricing_config`): a call's cost is chosen, or none for an
  unpriced model. *Prompt titles*: one column of one row. *Thresholds changed
  under way*: constants of `PromptRegistry`.
- *Several slots, subjects or tenants at once* where their rows never meet.
- *SQLite itself*, the Parquet library, Fernet, `queue.Queue`, structlog, the
  standard handlers, the OTel SDK: modelled by what the code relies on, and
  marked external in `PROJECT.json`.
- *A clock that steps back*: excluded by assumption; `TimeTravelExact` would fail.

## 8. Plan

The order follows what the rest leans on: first the log and its proof, then what
reads and feeds it, then the components over it and around it. All the modules
of section 2 are done, with their runs, and the proofs of section 6. Components that
share nothing share a run; the other runs are the findings. Next, in this order:

1. An abstract read specification (an atomic snapshot read) that `Checkpoint`
   implements, where `ReadsExact` states it now.
2. `Residency` and `WriteQueue` over one log: the writer's commits routed when they
   are enqueued, where `WriteQueue` now takes the route as a value.
