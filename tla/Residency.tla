----------------------------- MODULE Residency -----------------------------
(***************************************************************************)
(* residency.py and the calls of storage.py that route through it: the      *)
(* RegionConfig rows of tenants and of the global default, the in-process   *)
(* cache over them, the regions registered with a file, and the appends and *)
(* latest reads that resolve a tenant's store.  Threads of one process: the *)
(* statements of a call interleave with those of the others.  One stream    *)
(* name, which every store holds a stream of its own for; the append itself *)
(* is atomic (CommitLog).                                                   *)
(***************************************************************************)
EXTENDS Naturals, Sequences, SequencesExt, FiniteSets

CONSTANTS
    Tenants,
    Regions,            \* region labels, each its own file once registered
    Appends,            \* calls of append_commit
    Reads,              \* calls of read_latest
    Sets,               \* calls of set_region_config
    KeyOf,              \* the tenant_id each call passes, Global for None
    RegionOf,           \* the region each set assigns
    InitialRows,        \* the RegionConfig rows the process may start with
    InitialRegions,     \* the regions registered at startup
    Global,             \* tenant_id None
    Default,            \* the default store
    NoRow, Unfilled

Keys == Tenants \union {Global}
Stores == Regions \union {Default}
Calls == Appends \union Reads

ASSUME ResidencyAssumption ==
    /\ Global \notin Tenants /\ Default \notin Regions /\ Appends \intersect Reads = {}
    /\ NoRow # Unfilled /\ {NoRow, Unfilled} \intersect Regions = {}
    /\ KeyOf \in [Calls \union Sets -> Keys]
    /\ RegionOf \in [Sets -> Regions]
    /\ InitialRows \subseteq [Keys -> Seq(Regions)]
    /\ InitialRegions \subseteq Regions

VARIABLES
    rows,               \* RegionConfig: the regions of a key's rows, by id
    cache,              \* _region_config_cache
    registered,         \* the regions in _region_db_paths
    stream,             \* the stream in each store, as the calls that appended
    call,               \* the appends and reads: place and locals
    set,                \* the sets: place, and what the SELECT found
    routes,             \* history: where the rows ever routed each key
    raced               \* history: keys being looked up when the cache was last cleared

residency == <<rows, cache, registered, stream, call, set, routes, raced>>

First(k) == IF rows[k] = <<>> THEN NoRow ELSE Head(rows[k])

\* The store the rows tab route a key to: by its own first row, else by the
\* first global one.
RoutedBy(tab, k) ==
    IF tab[k] # <<>> THEN Head(tab[k])
    ELSE IF tab[Global] # <<>> THEN Head(tab[Global]) ELSE Default

ResidencyInit ==
    /\ rows \in InitialRows
    /\ cache = [k \in Keys |-> Unfilled]
    /\ registered = InitialRegions
    /\ stream = [s \in Stores |-> <<>>]
    /\ call = [c \in Calls |-> [pc |-> "idle", round |-> 1, row |-> NoRow,
                                store |-> Default, version |-> 0, result |-> {},
                                before |-> {}]]
    /\ set = [s \in Sets |-> [pc |-> "idle", found |-> FALSE, before |-> {}]]
    /\ routes = [k \in Keys |-> {RoutedBy(rows, k)}]
    /\ raced = {}

Places == {"idle", "cached", "serve", "tenant", "global", "fill", "route",
           "append", "max", "load", "returned", "keyerror", "unrouted"}

Returned == {a \in Appends : call[a].pc = "returned"}
Looking == {c \in Calls : call[c].pc \in {"tenant", "global", "fill"}}
SetsReturned == {s \in Sets : set[s].pc = "returned"}

\* Where a call goes once its store is known.
Resolved(c) ==
    CASE c \in Appends -> "append"
      [] c \in Reads /\ call[c].round = 1 -> "max"
      [] OTHER -> "load"

-----------------------------------------------------------------------------
\* get_region_config, statement by statement.  A read without a tenant_id
\* takes the default store without asking.
Begin(c) ==
    /\ call[c].pc = "idle"
    /\ call' = [call EXCEPT ![c].before = Returned,      \* history
                            ![c].pc = IF c \in Reads /\ KeyOf[c] = Global
                                      THEN Resolved(c) ELSE "cached"]
    /\ UNCHANGED <<rows, cache, registered, stream, set, routes, raced>>

CheckCache(c) ==
    LET k == KeyOf[c] IN
    /\ call[c].pc = "cached"
    /\ call' = [call EXCEPT ![c] =
          [@ EXCEPT !.pc = IF cache[k] # Unfilled THEN "serve"
                           ELSE IF k = Global THEN "global" ELSE "tenant"]]
    /\ UNCHANGED <<rows, cache, registered, stream, set, routes, raced>>

\* The entry the test found, or KeyError when a set has cleared it since.
ServeCached(c) ==
    LET entry == cache[KeyOf[c]] IN
    /\ call[c].pc = "serve"
    /\ call' = [call EXCEPT ![c] =
          IF entry = Unfilled THEN [@ EXCEPT !.pc = "keyerror"]
          ELSE [@ EXCEPT !.row = entry, !.pc = "route"]]
    /\ UNCHANGED <<rows, cache, registered, stream, set, routes, raced>>

SelectTenantRow(c) ==
    LET row == First(KeyOf[c]) IN
    /\ call[c].pc = "tenant"
    /\ call' = [call EXCEPT ![c].row = row,
                            ![c].pc = IF row = NoRow THEN "global" ELSE "fill"]
    /\ UNCHANGED <<rows, cache, registered, stream, set, routes, raced>>

SelectGlobalRow(c) ==
    /\ call[c].pc = "global"
    /\ call' = [call EXCEPT ![c].row = First(Global), ![c].pc = "fill"]
    /\ UNCHANGED <<rows, cache, registered, stream, set, routes, raced>>

FillCache(c) ==
    /\ call[c].pc = "fill"
    /\ cache' = [cache EXCEPT ![KeyOf[c]] = call[c].row]
    /\ call' = [call EXCEPT ![c].pc = "route"]
    /\ UNCHANGED <<rows, registered, stream, set, routes, raced>>

RouteFailOpen(c) ==                  \* fall back rather than raise
    /\ call[c].pc = "route"
    /\ call' = [call EXCEPT ![c].store =
                                IF call[c].row \in registered THEN call[c].row
                                ELSE Default,
                            ![c].pc = Resolved(c)]
    /\ UNCHANGED <<rows, cache, registered, stream, set, routes, raced>>

\* resolve_engine: the default store without a region, UnroutedRegionError for
\* a region that is not registered.
Route(c) ==
    LET region == call[c].row IN
    /\ call[c].pc = "route"
    /\ call' = [call EXCEPT ![c] =
          IF region = NoRow THEN [@ EXCEPT !.store = Default, !.pc = Resolved(c)]
          ELSE IF region \in registered
          THEN [@ EXCEPT !.store = region, !.pc = Resolved(c)]
          ELSE [@ EXCEPT !.pc = "unrouted"]]
    /\ UNCHANGED <<rows, cache, registered, stream, set, routes, raced>>

-----------------------------------------------------------------------------
\* append_commit in the store it resolved.
AppendCommit(a) ==
    /\ call[a].pc = "append"
    /\ stream' = [stream EXCEPT ![call[a].store] = Append(@, a)]
    /\ call' = [call EXCEPT ![a].pc = "returned"]
    /\ UNCHANGED <<rows, cache, registered, set, routes, raced>>

ReadMaxDefault(r) ==                 \* the engine is not passed on
    LET version == Len(stream[Default]) IN
    /\ call[r].pc = "max"
    /\ call' = [call EXCEPT ![r] =
          IF version = 0 THEN [@ EXCEPT !.pc = "returned"]
          ELSE [@ EXCEPT !.version = version, !.round = 2,
                         !.pc = IF KeyOf[r] = Global THEN "load" ELSE "cached"]]
    /\ UNCHANGED <<rows, cache, registered, stream, set, routes, raced>>

\* read_latest: the highest version in the store it resolved, then
\* read_as_of_version, which resolves the store again.
ReadMax(r) ==
    LET version == Len(stream[call[r].store]) IN
    /\ call[r].pc = "max"
    /\ call' = [call EXCEPT ![r] =
          IF version = 0 THEN [@ EXCEPT !.pc = "returned"]
          ELSE [@ EXCEPT !.version = version, !.round = 2,
                         !.pc = IF KeyOf[r] = Global THEN "load" ELSE "cached"]]
    /\ UNCHANGED <<rows, cache, registered, stream, set, routes, raced>>

\* The prefix up to that version, its tenant's commits only.
Load(r) ==
    LET s == stream[call[r].store] IN
    /\ call[r].pc = "load"
    /\ call' = [call EXCEPT
          ![r].pc = "returned",
          ![r].result = {s[v] : v \in {w \in 1..Len(s) :
                             /\ w <= call[r].version
                             /\ KeyOf[r] \in {Global, KeyOf[s[w]]}}}]
    /\ UNCHANGED <<rows, cache, registered, stream, set, routes, raced>>

-----------------------------------------------------------------------------
SelectNoRow(s) ==                    \* every assignment adds a row
    /\ set[s].pc = "idle"
    /\ set' = [set EXCEPT ![s] = [pc |-> "commit", found |-> FALSE,
                                  before |-> SetsReturned]]
    /\ UNCHANGED <<rows, cache, registered, stream, call, routes, raced>>

\* set_region_config: find the key's row, update it or add one, commit, and
\* only then clear the cache.
SelectRow(s) ==
    /\ set[s].pc = "idle"
    /\ set' = [set EXCEPT ![s] = [pc |-> "commit", found |-> First(KeyOf[s]) # NoRow,
                                  before |-> SetsReturned]]
    /\ UNCHANGED <<rows, cache, registered, stream, call, routes, raced>>

CommitUncleared(s) ==                \* the cache is left as it was
    LET k == KeyOf[s] IN
    /\ set[s].pc = "commit"
    /\ rows' = [rows EXCEPT ![k] = IF set[s].found THEN [@ EXCEPT ![1] = RegionOf[s]]
                                   ELSE Append(@, RegionOf[s])]
    /\ set' = [set EXCEPT ![s].pc = "returned"]
    /\ routes' = [j \in Keys |-> routes[j] \union {RoutedBy(rows', j)}]
    /\ UNCHANGED <<cache, registered, stream, call, raced>>

CommitRow(s) ==
    LET k == KeyOf[s] IN
    /\ set[s].pc = "commit"
    /\ rows' = [rows EXCEPT ![k] = IF set[s].found THEN [@ EXCEPT ![1] = RegionOf[s]]
                                   ELSE Append(@, RegionOf[s])]
    /\ set' = [set EXCEPT ![s].pc = "clear"]
    /\ routes' = [j \in Keys |-> routes[j] \union {RoutedBy(rows', j)}]
    /\ UNCHANGED <<cache, registered, stream, call, raced>>

ClearCache(s) ==
    /\ set[s].pc = "clear"
    /\ cache' = [k \in Keys |-> Unfilled]
    /\ set' = [set EXCEPT ![s].pc = "returned"]
    /\ raced' = {KeyOf[c] : c \in Looking}
    /\ UNCHANGED <<rows, registered, stream, call, routes>>

RegisterRegion(region) ==
    /\ region \notin registered
    /\ registered' = registered \union {region}
    /\ UNCHANGED <<rows, cache, stream, call, set, routes, raced>>

-----------------------------------------------------------------------------
GetRegionConfig(c) ==
    \/ CheckCache(c) \/ ServeCached(c)
    \/ SelectTenantRow(c) \/ SelectGlobalRow(c) \/ FillCache(c)

SetRegionConfig(s) == SelectRow(s) \/ CommitRow(s) \/ ClearCache(s)

ResidencyNext ==
    \/ \E c \in Calls : Begin(c) \/ GetRegionConfig(c) \/ Route(c)
    \/ \E a \in Appends : AppendCommit(a)
    \/ \E r \in Reads : ReadMax(r) \/ Load(r)
    \/ \E s \in Sets : SetRegionConfig(s)
    \/ \E region \in Regions : RegisterRegion(region)

ResidencySpec == ResidencyInit /\ [][ResidencyNext]_residency

-----------------------------------------------------------------------------
ResidencyTypeOK ==
    /\ rows \in [Keys -> Seq(Regions)]
    /\ cache \in [Keys -> Regions \union {NoRow, Unfilled}]
    /\ registered \subseteq Regions /\ raced \subseteq Keys
    /\ stream \in [Stores -> Seq(Appends)]
    /\ call \in [Calls -> [pc: Places, round: {1, 2}, row: Regions \union {NoRow},
                           store: Stores, version: Nat, result: SUBSET Appends,
                           before: SUBSET Appends]]
    /\ set \in [Sets -> [pc: {"idle", "commit", "clear", "returned"},
                         found: BOOLEAN, before: SUBSET Sets]]
    /\ routes \in [Keys -> SUBSET Stores]

\* Fail closed, not open: nothing of a tenant that the rows never left without
\* a region, its own or the global default, ever reaches the default store, also
\* while its region changes, is not registered yet or is cached stale.
FailClosed ==
    \A a \in ToSet(stream[Default]) : Default \in routes[KeyOf[a]]

\* "Create or update": whatever order concurrent sets of one key select and
\* commit in, the assignment in force is that of a set no later set followed.
\* A set that returned before another began never outlives it.
LaterSetWins ==
    \A k \in Keys :
        LET done == {s \in Sets : KeyOf[s] = k /\ set[s].pc \in {"clear", "returned"}}
            current == {s \in done : \A u \in done : s \notin set[u].before}
        IN done # {} => First(k) \in {RegionOf[s] : s \in current}

\* The cache is "invalidated on every set_region_config call": between sets, an
\* entry disagrees with the rows only if a lookup of its key was under way when
\* the cache was last cleared, and then filled it with what it had read before.
StaleOnlyAfterRace ==
    (\A s \in Sets : set[s].pc # "clear") => \A k \in Keys \ raced :
        cache[k] # Unfilled =>
            cache[k] = IF First(k) # NoRow THEN First(k) ELSE First(Global)

\* The types, the rows that concurrent sets leave, and the cache over them.
ResidencyInv == ResidencyTypeOK /\ LaterSetWins /\ StaleOnlyAfterRace

\* While neither a tenant's route nor the global one changes, its read finds
\* every commit of its own that was there when it began, whatever sets and
\* registrations clear and refill the cache meanwhile: write and read go to one
\* file.  (The tenant's route alone is not enough: a lookup that found no row of
\* the tenant's takes a global row set after the tenant got one of its own.)
ReadYourWrites ==
    \A r \in Reads :
        call[r].pc = "returned" /\ (\A k \in {KeyOf[r], Global} : Cardinality(routes[k]) = 1) =>
            \A a \in call[r].before :
                KeyOf[r] = KeyOf[a] /\ KeyOf[a] # Global => a \in call[r].result
=============================================================================
