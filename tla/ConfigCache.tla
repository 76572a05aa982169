---------------------------- MODULE ConfigCache -----------------------------
(***************************************************************************)
(* The configuration tables that are cached in the process: ExportConfig    *)
(* (otel_export.py), by which a tenant opts in to the export, and the        *)
(* StorageConfig of storage.py, which has the same statements and is asked   *)
(* for the global row only.  Rows belong to a tenant or to the global        *)
(* default; every span's export and every commit asks the cache over them.   *)
(* Lookups and sets run in any thread; each SELECT, commit and cache access  *)
(* is a step.                                                                *)
(***************************************************************************)
EXTENDS Naturals, Sequences

CONSTANTS
    Lookers,            \* threads that look a config up
    Setters,            \* calls of set_*_config
    Tenants, Global,    \* tenant_ids, and None
    KeySet, ValueSet,   \* the tenant_id and the value of each set
    Default             \* the built-in default, which is not persisted

Keys == Tenants \union {Global}

VARIABLES
    confRows,           \* the values of a key's rows, by id
    confCache,          \* the cache: a value by key
    look,               \* the lookups: place, key and what was read
    set,                \* the sets: place, and whether the SELECT found a row
    raced               \* history: keys being looked up when the cache was last cleared

confVars == <<confRows, confCache, look, set, raced>>

LookIdle == [pc |-> "idle", key |-> Global, value |-> "unset"]
Values == {Default} \union {ValueSet[s] : s \in Setters}

ConfigInit ==
    /\ confRows = [k \in Keys |-> <<>>]
    /\ confCache = [k \in Keys |-> "unfilled"]
    /\ look = [t \in Lookers |-> LookIdle]
    /\ set = [s \in Setters |-> [pc |-> "idle", found |-> FALSE]]
    /\ raced = {}

FirstRow(k) == IF confRows[k] = <<>> THEN "unset" ELSE Head(confRows[k])

\* What the rows say of a key: its own first row, else the first global one,
\* else the built-in default.
RowsSay(k) ==
    LET own == FirstRow(k)
        value == IF own # "unset" THEN own ELSE FirstRow(Global)
    IN IF value = "unset" THEN Default ELSE value

Committing == {s \in Setters : set[s].pc \in {"commit", "clear"}}
Looking == {t \in Lookers : look[t].pc \in {"tenant", "global", "fill"}}

-----------------------------------------------------------------------------
\* get_*_config: one get of the cache, then up to two SELECTs, then the fill.
BeginLookup(t, k) ==
    LET cached == confCache[k] IN
    /\ look[t].pc = "idle"
    /\ look' = [look EXCEPT ![t] =
          IF cached # "unfilled" THEN [pc |-> "found", key |-> k, value |-> cached]
          ELSE [pc |-> IF k = Global THEN "global" ELSE "tenant", key |-> k,
                value |-> "unset"]]
    /\ UNCHANGED <<confRows, confCache, set, raced>>

SelectTenantRow(t) ==
    LET value == FirstRow(look[t].key) IN
    /\ look[t].pc = "tenant"
    /\ look' = [look EXCEPT ![t] =
          [pc |-> IF value = "unset" THEN "global" ELSE "fill", key |-> look[t].key,
           value |-> value]]
    /\ UNCHANGED <<confRows, confCache, set, raced>>

SelectGlobalRow(t) ==
    LET value == FirstRow(Global) IN
    /\ look[t].pc = "global"
    /\ look' = [look EXCEPT ![t] =
          [pc |-> "fill", key |-> look[t].key,
           value |-> IF value = "unset" THEN Default ELSE value]]
    /\ UNCHANGED <<confRows, confCache, set, raced>>

FillCache(t) ==
    /\ look[t].pc = "fill"
    /\ confCache' = [confCache EXCEPT ![look[t].key] = look[t].value]
    /\ look' = [look EXCEPT ![t].pc = "found"]
    /\ UNCHANGED <<confRows, set, raced>>

EndLookup(t) ==
    /\ look' = [look EXCEPT ![t] = LookIdle]
    /\ UNCHANGED <<confRows, confCache, set, raced>>

-----------------------------------------------------------------------------
\* set_*_config: find the key's row, update it or add one, commit, and only
\* then clear the cache.
SelectRow(s) ==
    /\ set[s].pc = "idle"
    /\ set' = [set EXCEPT ![s] = [pc |-> "commit", found |-> FirstRow(KeySet[s]) # "unset"]]
    /\ UNCHANGED <<confRows, confCache, look, raced>>

CommitAndReturn(s) ==                \* the cache is left as it was
    /\ set[s].pc = "commit"
    /\ confRows' = [confRows EXCEPT ![KeySet[s]] =
          IF set[s].found THEN [@ EXCEPT ![1] = ValueSet[s]] ELSE Append(@, ValueSet[s])]
    /\ set' = [set EXCEPT ![s].pc = "returned"]
    /\ UNCHANGED <<confCache, look, raced>>

CommitRow(s) ==
    /\ set[s].pc = "commit"
    /\ confRows' = [confRows EXCEPT ![KeySet[s]] =
          IF set[s].found THEN [@ EXCEPT ![1] = ValueSet[s]] ELSE Append(@, ValueSet[s])]
    /\ set' = [set EXCEPT ![s].pc = "clear"]
    /\ UNCHANGED <<confCache, look, raced>>

ClearCache(s) ==
    /\ set[s].pc = "clear"
    /\ confCache' = [k \in Keys |-> "unfilled"]
    /\ set' = [set EXCEPT ![s].pc = "returned"]
    /\ raced' = {look[t].key : t \in Looking}
    /\ UNCHANGED <<confRows, look>>

GetConfig(t) == SelectTenantRow(t) \/ SelectGlobalRow(t) \/ FillCache(t)

SetConfig(s) == SelectRow(s) \/ CommitRow(s) \/ ClearCache(s)

-----------------------------------------------------------------------------
ConfigTypeOK ==
    /\ \A k \in Keys : confRows[k] \in Seq(Values)
    /\ confCache \in [Keys -> {"unfilled"} \union Values]
    /\ raced \subseteq Keys

\* "A write invalidates the whole cache": while no set runs, an entry disagrees
\* with the rows only if a lookup of that key was under way when the cache was
\* last cleared, which then fills it with what it had read before.
StaleOnlyAfterRace ==
    Committing = {} => \A k \in Keys \ raced :
        confCache[k] # "unfilled" => confCache[k] = RowsSay(k)
=============================================================================
