-------------------------- MODULE ResidencyProofs --------------------------
(***************************************************************************)
(* Proofs about Residency, for any sets of tenants, regions and calls, any  *)
(* rows to begin with and any regions registered at startup: types, the     *)
(* later set wins, a cache stale only after a race, routing that fails      *)
(* closed, and reads that find what was written.                            *)
(***************************************************************************)
EXTENDS Residency, FiniteSetTheorems, SequenceTheorems, TLAPS

\* The store a row routes to.
StoreOf(row) == IF row = NoRow THEN Default ELSE row

\* Where a key may be routed: where its rows ever routed it, or, when a lookup that
\* found no row of its own read the global row later, where the global rows routed.
\* That second way never leads to the default store.
Reached(k, s) ==
    \/ s \in routes[k]
    \/ s # Default /\ s \in routes[Global] /\ routes[k] \intersect routes[Global] # {}

\* Neither the key's route nor the global one has changed.
Stands(k) == \A j \in {k, Global} : \A x, y \in routes[j] : x = y

Effective(k) == IF First(k) # NoRow THEN First(k) ELSE First(Global)

NoneToClear == \A s \in Sets : set[s].pc # "clear"

\* set has committed the row.
Done(s) == set[s].pc \in {"clear", "returned"}

CallTypes == [pc: Places, round: {1, 2}, row: Regions \union {NoRow}, store: Stores,
              version: Nat, result: SUBSET Appends, before: SUBSET Appends]

SetTypes == [pc: {"idle", "commit", "clear", "returned"}, found: BOOLEAN,
             before: SUBSET Sets]

-----------------------------------------------------------------------------
\* The inductive invariant.
Types == ResidencyTypeOK /\ \A k \in Keys : IsFiniteSet(routes[k])

\* What a call holds leads only where its key may be routed.
Holds(c) ==
    LET k == KeyOf[c] IN
    /\ call[c].pc = "global" =>
          /\ routes[k] \intersect routes[Global] # {}
          /\ rows[Global] = <<>> => Default \in routes[k]
    /\ call[c].pc \in {"fill", "route"} => Reached(k, StoreOf(call[c].row))
    /\ call[c].pc \in {"append", "max", "load"} /\ (c \in Appends \/ k # Global) =>
          Reached(k, call[c].store)

RoutesKnown == \A k \in Keys : RoutedBy(rows, k) \in routes[k]

CacheRouted == \A k \in Keys : cache[k] # Unfilled => Reached(k, StoreOf(cache[k]))

StreamsRouted ==
    \A s \in Stores : \A v \in 1..Len(stream[s]) : Reached(KeyOf[stream[s][v]], s)

Routed ==
    RoutesKnown /\ CacheRouted /\ StreamsRouted /\ \A c \in Calls : Holds(c)

\* A set that found no row followed no set of its key, and rows are never deleted.
SetsFollow ==
    /\ \A s \in Sets : Done(s) => rows[KeyOf[s]] # <<>>
    /\ \A s \in Sets : set[s].pc = "commit" /\ set[s].found => rows[KeyOf[s]] # <<>>
    /\ \A s \in Sets : set[s].pc = "commit" /\ ~set[s].found =>
                          \A u \in set[s].before : KeyOf[u] # KeyOf[s]
    /\ \A s \in Sets : set[s].pc = "commit" /\ ~set[s].found /\ rows[KeyOf[s]] # <<>> =>
                          \E u \in Sets : Done(u) /\ KeyOf[u] = KeyOf[s]
    /\ \A s \in Sets : set[s].before \subseteq SetsReturned
    /\ LaterSetWins

\* What a lookup that began after the last clearing has read is still so.
Fresh(c) ==
    NoneToClear /\ KeyOf[c] \notin raced =>
        /\ call[c].pc = "global" => KeyOf[c] = Global \/ First(KeyOf[c]) = NoRow
        /\ call[c].pc = "fill" => call[c].row = Effective(KeyOf[c])

CacheFollows == StaleOnlyAfterRace /\ \A c \in Calls : Fresh(c)

Stored(a, s) == \E v \in 1..Len(stream[s]) : stream[s][v] = a

\* While the route stands, the version a read took covers the commits it must find.
Covers(r) ==
    KeyOf[r] # Global /\ Stands(KeyOf[r]) =>
        \A a \in call[r].before : KeyOf[a] = KeyOf[r] =>
            /\ call[r].round = 2 /\ call[r].pc # "returned" =>
                  \A s \in routes[KeyOf[r]] : \E v \in 1..Len(stream[s]) :
                      v <= call[r].version /\ stream[s][v] = a
            /\ call[r].pc = "returned" => a \in call[r].result

Served ==
    /\ \A a \in Returned : \E s \in Stores : Stored(a, s)
    /\ \A c \in Calls : call[c].before \subseteq Returned
    /\ \A r \in Reads : /\ call[r].pc = "idle" => call[r].round = 1
                        /\ call[r].pc = "load" => call[r].round = 2
    /\ \A r \in Reads : Covers(r)

IInv == Types /\ Routed /\ SetsFollow /\ CacheFollows /\ Served

-----------------------------------------------------------------------------
LEMMA KeyTypes ==
    /\ \A c \in Calls : KeyOf[c] \in Keys
    /\ \A s \in Sets : KeyOf[s] \in Keys /\ RegionOf[s] \in Regions
    /\ Global \in Keys /\ Default \in Stores /\ Regions \subseteq Stores
    /\ Default \notin Regions /\ NoRow \notin Regions /\ Unfilled \notin Regions
    /\ NoRow # Unfilled
  BY ResidencyAssumption DEF Keys, Stores, Calls

LEMMA RowTypes ==
    ASSUME NEW tab \in [Keys -> Seq(Regions)]
    PROVE  /\ \A k \in Keys : tab[k] # <<>> => Head(tab[k]) \in Regions
           /\ \A k \in Keys : RoutedBy(tab, k) \in Stores
  <1>1. \A k \in Keys : tab[k] # <<>> => Head(tab[k]) \in Regions
    BY HeadTailProperties
  <1>. QED
    BY <1>1, KeyTypes DEF RoutedBy

\* What the rows say of a key, in words of First and StoreOf.
LEMMA FirstRoutes ==
    ASSUME Types, NEW k \in Keys
    PROVE  /\ First(k) \in Regions \union {NoRow}
           /\ First(k) = NoRow <=> rows[k] = <<>>
           /\ RoutedBy(rows, k) = StoreOf(Effective(k))
           /\ First(k) # NoRow => RoutedBy(rows, k) = First(k)
           /\ First(k) = NoRow => RoutedBy(rows, k) = RoutedBy(rows, Global)
           /\ Effective(k) \in Regions \union {NoRow}
  <1>1. /\ rows[k] # <<>> => Head(rows[k]) \in Regions
        /\ rows[Global] # <<>> => Head(rows[Global]) \in Regions
    BY RowTypes, KeyTypes DEF Types, ResidencyTypeOK
  <1>. QED
    BY <1>1, KeyTypes DEF First, RoutedBy, StoreOf, Effective

\* With more routes a key may be routed to no fewer stores.
LEMMA ReachedGrows ==
    ASSUME NEW k \in Keys, NEW s, \A j \in Keys : routes[j] \subseteq routes'[j],
           Reached(k, s)
    PROVE  Reached(k, s)'
  BY KeyTypes DEF Reached

\* Where the route stands, a key may be routed to one store only.
LEMMA OneStore ==
    ASSUME NEW k \in Keys, Stands(k), NEW s, Reached(k, s)
    PROVE  s \in routes[k] /\ \A t \in routes[k] : t = s
  BY DEF Stands, Reached

-----------------------------------------------------------------------------
LEMMA InitIInv == ResidencyInit => IInv
  <1>. SUFFICES ASSUME ResidencyInit PROVE IInv
    OBVIOUS
  <1>. USE KeyTypes DEF ResidencyInit
  <1>1. rows \in [Keys -> Seq(Regions)]
    BY ResidencyAssumption
  <1>2. \A k \in Keys : RoutedBy(rows, k) \in Stores
    BY <1>1, RowTypes
  <1>3. Types
    <2>1. \A k \in Keys : IsFiniteSet(routes[k])
      BY FS_Singleton
    <2>2. stream \in [Stores -> Seq(Appends)]
      BY EmptySeq
    <2>3. call \in [Calls -> CallTypes]
      BY DEF CallTypes, Places
    <2>4. set \in [Sets -> SetTypes]
      BY DEF SetTypes
    <2>. QED
      BY <1>1, <1>2, <2>1, <2>2, <2>3, <2>4, ResidencyAssumption
      DEF Types, ResidencyTypeOK, CallTypes, SetTypes
  <1>4. Routed
    BY <1>2 DEF Routed, RoutesKnown, CacheRouted, StreamsRouted, Holds
  <1>5. SetsFollow
    BY DEF SetsFollow, LaterSetWins, Done
  <1>6. CacheFollows
    BY DEF CacheFollows, StaleOnlyAfterRace, Fresh
  <1>7. Served
    BY DEF Served, Returned, Covers, Calls
  <1>. QED
    BY <1>3, <1>4, <1>5, <1>6, <1>7 DEF IInv

-----------------------------------------------------------------------------
\* A step of one call that leaves the rows, the streams and the sets alone, and
\* leads on within the call, keeps everything but what must be said of that call
\* and of the cache.
LEMMA CallMoves ==
    ASSUME IInv, NEW c \in Calls,
           UNCHANGED <<rows, registered, stream, set, routes, raced>>,
           call' \in [Calls -> CallTypes],
           \A d \in Calls : d # c => call'[d] = call[d],
           call'[c].before = call[c].before, call'[c].round = call[c].round,
           call'[c].version = call[c].version,
           call[c].pc \notin {"idle", "returned"},
           call'[c].pc \notin {"idle", "returned"},
           call'[c].pc = "load" => call[c].round = 2 \/ c \notin Reads,
           cache' \in [Keys -> Regions \union {NoRow, Unfilled}],
           CacheRouted', StaleOnlyAfterRace', Holds(c)', Fresh(c)'
    PROVE  IInv'
  <1>1. Types'
    BY DEF IInv, Types, ResidencyTypeOK, CallTypes
  <1>2. Routed'
    <2>1. RoutesKnown' /\ StreamsRouted'
      BY DEF IInv, Routed, RoutesKnown, RoutedBy, StreamsRouted, Reached
    <2>2. (\A d \in Calls : Holds(d))'
      <3>. SUFFICES ASSUME NEW d \in Calls, d # c PROVE Holds(d)'
        OBVIOUS
      <3>1. Holds(d) /\ call'[d] = call[d]
        BY DEF IInv, Routed
      <3>. QED
        BY <3>1 DEF Holds, Reached
    <2>. QED
      BY <2>1, <2>2 DEF Routed
  <1>3. SetsFollow'
    BY DEF IInv, SetsFollow, LaterSetWins, Done, SetsReturned, First
  <1>4. CacheFollows'
    <2>. SUFFICES ASSUME NEW d \in Calls, d # c PROVE Fresh(d)'
      BY DEF CacheFollows
    <2>1. Fresh(d) /\ call'[d] = call[d]
      BY DEF IInv, CacheFollows
    <2>. QED
      BY <2>1 DEF Fresh, NoneToClear, First, Effective
  <1>5. Served'
    <2>1. Returned' = Returned
      BY DEF Returned, Calls
    <2>2. (\A a \in Returned : \E s \in Stores : Stored(a, s))'
      BY <2>1 DEF IInv, Served, Stored
    <2>3. (\A d \in Calls : call[d].before \subseteq Returned)'
      BY <2>1 DEF IInv, Served
    <2>4. (\A r \in Reads : /\ call[r].pc = "idle" => call[r].round = 1
                            /\ call[r].pc = "load" => call[r].round = 2)'
      BY DEF IInv, Served, Calls
    <2>5. (\A r \in Reads : Covers(r))'
      <3>. SUFFICES ASSUME NEW r \in Reads PROVE Covers(r)'
        OBVIOUS
      <3>1. Covers(r) /\ r \in Calls
        BY DEF IInv, Served, Calls
      <3>. QED
        BY <3>1 DEF Covers, Stands
    <2>. QED
      BY <2>2, <2>3, <2>4, <2>5 DEF Served
  <1>. QED
    BY <1>1, <1>2, <1>3, <1>4, <1>5 DEF IInv

\* With the cache and the rows as they were, so is what is said of them.
LEMMA CacheUntouched ==
    ASSUME IInv, UNCHANGED <<rows, cache, set, routes, raced>>
    PROVE  /\ cache' \in [Keys -> Regions \union {NoRow, Unfilled}]
           /\ CacheRouted' /\ StaleOnlyAfterRace'
  BY DEF IInv, Types, ResidencyTypeOK, Routed, CacheRouted, Reached, CacheFollows,
         StaleOnlyAfterRace, First

LEMMA CallTyped ==
    ASSUME IInv
    PROVE  call \in [Calls -> CallTypes]
  BY DEF IInv, Types, ResidencyTypeOK, CallTypes

LEMMA CheckCacheKeeps ==
    ASSUME IInv, NEW c \in Calls, CheckCache(c)
    PROVE  IInv'
  <1>1. PICK l \in {"serve", "global", "tenant"} :
            /\ call' = [call EXCEPT ![c] = [@ EXCEPT !.pc = l]]
            /\ l = "global" => KeyOf[c] = Global
    BY DEF CheckCache
  <1>2. call[c].pc = "cached" /\ UNCHANGED <<rows, cache, registered, stream, set, routes, raced>>
    BY DEF CheckCache
  <1>3. /\ call' \in [Calls -> CallTypes]
        /\ \A d \in Calls : d # c => call'[d] = call[d]
        /\ call'[c] = [call[c] EXCEPT !.pc = l]
        /\ call[c] \in CallTypes
    BY <1>1, CallTyped DEF CallTypes, Places
  <1>4. /\ call'[c].before = call[c].before /\ call'[c].round = call[c].round
        /\ call'[c].version = call[c].version /\ call'[c].pc = l
    BY <1>3 DEF CallTypes
  <1>5. Holds(c)'
    <2>1. RoutedBy(rows, Global) \in routes[Global]
      BY KeyTypes DEF IInv, Routed, RoutesKnown
    <2>2. rows[Global] = <<>> => RoutedBy(rows, Global) = Default
      BY DEF RoutedBy
    <2>. QED
      BY <1>1, <1>2, <1>4, <2>1, <2>2 DEF Holds
  <1>6. Fresh(c)'
    BY <1>1, <1>4 DEF Fresh
  <1>. QED
    BY <1>2, <1>3, <1>4, <1>5, <1>6, CacheUntouched, CallMoves

LEMMA ServeCachedKeeps ==
    ASSUME IInv, NEW c \in Calls, ServeCached(c)
    PROVE  IInv'
  <1>1. call[c].pc = "serve" /\ UNCHANGED <<rows, cache, registered, stream, set, routes, raced>>
    BY DEF ServeCached
  <1>2. call[c] \in CallTypes /\ cache[KeyOf[c]] \in Regions \union {NoRow, Unfilled}
    BY CallTyped, KeyTypes DEF IInv, Types, ResidencyTypeOK
  <1>3. PICK row \in Regions \union {NoRow}, l \in {"keyerror", "route"} :
            /\ call' = [call EXCEPT ![c] = [@ EXCEPT !.row = row, !.pc = l]]
            /\ l = "route" => row = cache[KeyOf[c]] /\ row # Unfilled
    <2>1. CASE cache[KeyOf[c]] = Unfilled
      <3>1. [call[c] EXCEPT !.pc = "keyerror"] =
                [call[c] EXCEPT !.row = call[c].row, !.pc = "keyerror"]
        BY <1>2 DEF CallTypes
      <3>. QED
        BY <1>2, <2>1, <3>1 DEF ServeCached, CallTypes
    <2>2. CASE cache[KeyOf[c]] # Unfilled
      BY <1>2, <2>2 DEF ServeCached
    <2>. QED
      BY <2>1, <2>2
  <1>4. /\ call' \in [Calls -> CallTypes]
        /\ \A d \in Calls : d # c => call'[d] = call[d]
        /\ call'[c] = [call[c] EXCEPT !.row = row, !.pc = l]
    <2>. DEFINE served == [call[c] EXCEPT !.row = row, !.pc = l]
    <2>1. served \in CallTypes
      BY <1>2 DEF CallTypes, Places
    <2>2. call' = [call EXCEPT ![c] = served]
      BY <1>3
    <2>. HIDE DEF served
    <2>3. call' \in [Calls -> CallTypes] /\ call'[c] = served
          /\ \A d \in Calls : d # c => call'[d] = call[d]
      BY <2>1, <2>2, CallTyped
    <2>. QED
      BY <2>3 DEF served
  <1>5. /\ call'[c].before = call[c].before /\ call'[c].round = call[c].round
        /\ call'[c].version = call[c].version /\ call'[c].pc = l /\ call'[c].row = row
    BY <1>2, <1>4 DEF CallTypes
  <1>6. Holds(c)'
    <2>1. l = "route" => Reached(KeyOf[c], StoreOf(row))
      BY <1>3, KeyTypes DEF IInv, Routed, CacheRouted
    <2>. QED
      BY <1>1, <1>5, <2>1 DEF Holds, Reached
  <1>7. Fresh(c)'
    BY <1>5 DEF Fresh
  <1>. QED
    BY <1>1, <1>4, <1>5, <1>6, <1>7, CacheUntouched, CallMoves

LEMMA SelectTenantRowKeeps ==
    ASSUME IInv, NEW c \in Calls, SelectTenantRow(c)
    PROVE  IInv'
  <1>. DEFINE k == KeyOf[c]
              l == IF First(k) = NoRow THEN "global" ELSE "fill"
  <1>1. call[c].pc = "tenant" /\ UNCHANGED <<rows, cache, registered, stream, set, routes, raced>>
    BY DEF SelectTenantRow
  <1>2. call[c] \in CallTypes /\ k \in Keys
    BY CallTyped, KeyTypes
  <1>3. First(k) \in Regions \union {NoRow}
    BY <1>2, FirstRoutes DEF IInv
  <1>4. /\ call' \in [Calls -> CallTypes]
        /\ \A d \in Calls : d # c => call'[d] = call[d]
        /\ call'[c] = [call[c] EXCEPT !.row = First(k), !.pc = l]
    BY <1>3, CallTyped DEF SelectTenantRow, CallTypes, Places
  <1>5. /\ call'[c].before = call[c].before /\ call'[c].round = call[c].round
        /\ call'[c].version = call[c].version /\ call'[c].pc = l
        /\ call'[c].row = First(k)
    BY <1>2, <1>4 DEF CallTypes
  <1>6. Holds(c)'
    <2>1. RoutedBy(rows, k) \in routes[k] /\ RoutedBy(rows, Global) \in routes[Global]
      BY <1>2, KeyTypes DEF IInv, Routed, RoutesKnown
    <2>2. CASE First(k) = NoRow
      <3>1. RoutedBy(rows, k) = RoutedBy(rows, Global)
        BY <1>2, <2>2, FirstRoutes DEF IInv
      <3>2. rows[Global] = <<>> => RoutedBy(rows, Global) = Default
        BY DEF RoutedBy
      <3>. QED
        BY <1>1, <1>5, <2>1, <2>2, <3>1, <3>2 DEF Holds
    <2>3. CASE First(k) # NoRow
      <3>1. RoutedBy(rows, k) = First(k) /\ StoreOf(First(k)) = First(k)
        BY <1>2, <2>3, FirstRoutes DEF IInv, StoreOf
      <3>2. Reached(k, StoreOf(First(k)))'
        BY <1>1, <2>1, <3>1 DEF Reached, StoreOf, First
      <3>. QED
        BY <1>1, <1>5, <2>3, <3>2 DEF Holds, StoreOf, First
    <2>. QED
      BY <2>2, <2>3
  <1>7. Fresh(c)'
    BY <1>1, <1>5 DEF Fresh, First, Effective
  <1>. QED
    BY <1>1, <1>4, <1>5, <1>6, <1>7, CacheUntouched, CallMoves

LEMMA SelectGlobalRowKeeps ==
    ASSUME IInv, NEW c \in Calls, SelectGlobalRow(c)
    PROVE  IInv'
  <1>. DEFINE k == KeyOf[c]
  <1>1. call[c].pc = "global" /\ UNCHANGED <<rows, cache, registered, stream, set, routes, raced>>
    BY DEF SelectGlobalRow
  <1>2. call[c] \in CallTypes /\ k \in Keys /\ Global \in Keys
    BY CallTyped, KeyTypes
  <1>3. First(Global) \in Regions \union {NoRow}
    BY <1>2, FirstRoutes DEF IInv
  <1>4. /\ call' \in [Calls -> CallTypes]
        /\ \A d \in Calls : d # c => call'[d] = call[d]
        /\ call'[c] = [call[c] EXCEPT !.row = First(Global), !.pc = "fill"]
    BY <1>3, CallTyped DEF SelectGlobalRow, CallTypes, Places
  <1>5. /\ call'[c].before = call[c].before /\ call'[c].round = call[c].round
        /\ call'[c].version = call[c].version /\ call'[c].pc = "fill"
        /\ call'[c].row = First(Global)
    BY <1>2, <1>4 DEF CallTypes
  <1>6. Holds(c)'
    <2>1. /\ RoutedBy(rows, Global) \in routes[Global]
          /\ routes[k] \intersect routes[Global] # {}
          /\ rows[Global] = <<>> => Default \in routes[k]
      BY <1>1, <1>2 DEF IInv, Routed, RoutesKnown, Holds
    <2>2. Reached(k, StoreOf(First(Global)))
      <3>1. CASE First(Global) = NoRow
        BY <1>2, <2>1, <3>1, FirstRoutes DEF IInv, Reached, StoreOf
      <3>2. CASE First(Global) # NoRow
        <4>1. RoutedBy(rows, Global) = First(Global) /\ First(Global) # Default
          BY <1>2, <1>3, <3>2, FirstRoutes, KeyTypes DEF IInv
        <4>. QED
          BY <2>1, <3>2, <4>1 DEF Reached, StoreOf
      <3>. QED
        BY <3>1, <3>2
    <2>. QED
      BY <1>1, <1>5, <2>2 DEF Holds, Reached, StoreOf, First
  <1>7. Fresh(c)'
    <2>1. Fresh(c)
      BY DEF IInv, CacheFollows
    <2>. QED
      BY <1>1, <1>5, <2>1 DEF Fresh, First, Effective, NoneToClear
  <1>. QED
    BY <1>1, <1>4, <1>5, <1>6, <1>7, CacheUntouched, CallMoves

LEMMA FillCacheKeeps ==
    ASSUME IInv, NEW c \in Calls, FillCache(c)
    PROVE  IInv'
  <1>. DEFINE k == KeyOf[c]
  <1>1. /\ call[c].pc = "fill" /\ UNCHANGED <<rows, registered, stream, set, routes, raced>>
        /\ cache' = [cache EXCEPT ![k] = call[c].row]
    BY DEF FillCache
  <1>2. call[c] \in CallTypes /\ k \in Keys
    BY CallTyped, KeyTypes
  <1>3. call[c].row \in Regions \union {NoRow}
    BY <1>2 DEF CallTypes
  <1>4. /\ call' \in [Calls -> CallTypes]
        /\ \A d \in Calls : d # c => call'[d] = call[d]
        /\ call'[c] = [call[c] EXCEPT !.pc = "route"]
    BY CallTyped DEF FillCache, CallTypes, Places
  <1>5. /\ call'[c].before = call[c].before /\ call'[c].round = call[c].round
        /\ call'[c].version = call[c].version /\ call'[c].pc = "route"
        /\ call'[c].row = call[c].row
    BY <1>2, <1>4 DEF CallTypes
  <1>6. /\ cache' \in [Keys -> Regions \union {NoRow, Unfilled}]
        /\ cache'[k] = call[c].row /\ \A j \in Keys : j # k => cache'[j] = cache[j]
    BY <1>1, <1>2, <1>3 DEF IInv, Types, ResidencyTypeOK
  <1>7. Reached(k, StoreOf(call[c].row))
    BY <1>1 DEF IInv, Routed, Holds
  <1>8. CacheRouted'
    <2>1. \A j \in Keys : cache'[j] # Unfilled => Reached(j, StoreOf(cache'[j]))
      BY <1>6, <1>7 DEF IInv, Routed, CacheRouted
    <2>. QED
      BY <1>1, <2>1 DEF CacheRouted, Reached
  <1>9. StaleOnlyAfterRace'
    <2>1. Fresh(c) /\ StaleOnlyAfterRace
      BY DEF IInv, CacheFollows
    <2>2. NoneToClear => \A j \in Keys \ raced : cache'[j] # Unfilled => cache'[j] = Effective(j)
      BY <1>1, <1>6, <2>1 DEF Fresh, StaleOnlyAfterRace, Effective, NoneToClear
    <2>. QED
      BY <1>1, <2>2 DEF StaleOnlyAfterRace, Effective, NoneToClear, First
  <1>10. Holds(c)' /\ Fresh(c)'
    BY <1>1, <1>5, <1>7 DEF Holds, Fresh, Reached
  <1>. QED
    BY <1>1, <1>4, <1>5, <1>6, <1>8, <1>9, <1>10, CallMoves

LEMMA BeginKeeps ==
    ASSUME IInv, NEW c \in Calls, Begin(c)
    PROVE  IInv'
  <1>1. PICK l \in {"append", "max", "load", "cached"} :
            /\ call' = [call EXCEPT ![c].before = Returned, ![c].pc = l]
            /\ l # "cached" => c \in Reads /\ KeyOf[c] = Global
            /\ l # "cached" => l = Resolved(c)
    <2>1. Resolved(c) \in {"append", "max", "load"}
      BY DEF Resolved
    <2>2. CASE c \in Reads /\ KeyOf[c] = Global
      BY <2>1, <2>2 DEF Begin
    <2>3. CASE ~(c \in Reads /\ KeyOf[c] = Global)
      BY <2>3 DEF Begin
    <2>. QED
      BY <2>2, <2>3
  <1>2. /\ call[c].pc = "idle"
        /\ UNCHANGED <<rows, cache, registered, stream, set, routes, raced>>
    BY DEF Begin
  <1>3. call[c] \in CallTypes /\ Returned \subseteq Appends /\ Returned \in SUBSET Appends
    BY CallTyped DEF Returned
  <1>4. /\ call' \in [Calls -> CallTypes]
        /\ \A d \in Calls : d # c => call'[d] = call[d]
        /\ call'[c] = [call[c] EXCEPT !.before = Returned, !.pc = l]
    <2>. DEFINE begun == [call[c] EXCEPT !.before = Returned, !.pc = l]
    <2>1. begun \in CallTypes
      BY <1>3 DEF CallTypes, Places
    <2>2. call' = [call EXCEPT ![c] = begun]
      BY <1>1
    <2>. HIDE DEF begun
    <2>3. call' \in [Calls -> CallTypes] /\ call'[c] = begun
          /\ \A d \in Calls : d # c => call'[d] = call[d]
      BY <2>1, <2>2, CallTyped
    <2>. QED
      BY <2>3 DEF begun
  <1>5. /\ call'[c].before = Returned /\ call'[c].round = call[c].round
        /\ call'[c].pc = l
    BY <1>3, <1>4 DEF CallTypes
  <1>6. Types' /\ SetsFollow'
    <2>1. Types'
      BY <1>2, <1>4 DEF IInv, Types, ResidencyTypeOK, CallTypes
    <2>2. SetsFollow'
      BY <1>2 DEF IInv, SetsFollow, LaterSetWins, Done, SetsReturned, First
    <2>. QED
      BY <2>1, <2>2
  <1>7. Routed'
    <2>1. RoutesKnown' /\ StreamsRouted' /\ CacheRouted'
      BY <1>2 DEF IInv, Routed, RoutesKnown, RoutedBy, StreamsRouted, CacheRouted, Reached
    <2>2. Holds(c)'
      <3>1. c \in Appends => c \notin Reads
        BY ResidencyAssumption
      <3>. QED
        BY <1>1, <1>5, <3>1 DEF Holds
    <2>3. ASSUME NEW d \in Calls, d # c PROVE Holds(d)'
      <3>1. Holds(d) /\ call'[d] = call[d]
        BY <1>4, <2>3 DEF IInv, Routed
      <3>. QED
        BY <1>2, <3>1 DEF Holds, Reached
    <2>. QED
      BY <2>1, <2>2, <2>3 DEF Routed
  <1>8. CacheFollows'
    <2>1. StaleOnlyAfterRace'
      BY <1>2, CacheUntouched
    <2>2. Fresh(c)'
      BY <1>5 DEF Fresh
    <2>3. ASSUME NEW d \in Calls, d # c PROVE Fresh(d)'
      <3>1. Fresh(d) /\ call'[d] = call[d]
        BY <1>4, <2>3 DEF IInv, CacheFollows
      <3>. QED
        BY <1>2, <3>1 DEF Fresh, NoneToClear, First, Effective
    <2>. QED
      BY <2>1, <2>2, <2>3 DEF CacheFollows
  <1>9. Served'
    <2>1. Returned' = Returned
      BY <1>2, <1>4, <1>5 DEF Returned, Calls
    <2>2. (\A a \in Returned : \E s \in Stores : Stored(a, s))'
      BY <1>2, <2>1 DEF IInv, Served, Stored
    <2>3. (\A d \in Calls : call[d].before \subseteq Returned)'
      BY <1>4, <1>5, <2>1 DEF IInv, Served
    <2>4. c \in Reads => call[c].round = 1
      BY <1>2 DEF IInv, Served
    <2>5. (\A r \in Reads : /\ call[r].pc = "idle" => call[r].round = 1
                            /\ call[r].pc = "load" => call[r].round = 2)'
      <3>1. c \in Reads => l # "load"
        BY <1>1, <2>4, ResidencyAssumption DEF Resolved
      <3>. QED
        BY <1>1, <1>4, <1>5, <2>4, <3>1 DEF IInv, Served, Calls
    <2>6. (\A r \in Reads : Covers(r))'
      <3>. SUFFICES ASSUME NEW r \in Reads PROVE Covers(r)'
        OBVIOUS
      <3>1. CASE r = c
        BY <1>1, <1>5, <2>4, <3>1 DEF Covers
      <3>2. CASE r # c
        <4>1. Covers(r) /\ call'[r] = call[r]
          BY <1>4, <3>2 DEF IInv, Served, Calls
        <4>. QED
          BY <1>2, <4>1 DEF Covers, Stands
      <3>. QED
        BY <3>1, <3>2
    <2>. QED
      BY <2>2, <2>3, <2>5, <2>6 DEF Served
  <1>. QED
    BY <1>6, <1>7, <1>8, <1>9 DEF IInv

LEMMA RouteKeeps ==
    ASSUME IInv, NEW c \in Calls, Route(c)
    PROVE  IInv'
  <1>. DEFINE k == KeyOf[c]
  <1>1. /\ call[c].pc = "route"
        /\ UNCHANGED <<rows, cache, registered, stream, set, routes, raced>>
    BY DEF Route
  <1>2. /\ call[c] \in CallTypes /\ k \in Keys /\ registered \subseteq Regions
        /\ Reached(k, StoreOf(call[c].row))
    BY <1>1, CallTyped, KeyTypes DEF IInv, Types, ResidencyTypeOK, Routed, Holds
  <1>3. Resolved(c) \in {"append", "max", "load"}
    BY DEF Resolved
  <1>4. PICK st \in Stores, l \in {"append", "max", "load", "unrouted"} :
            /\ call' = [call EXCEPT ![c] = [@ EXCEPT !.store = st, !.pc = l]]
            /\ l # "unrouted" => st = StoreOf(call[c].row) /\ l = Resolved(c)
    <2>1. CASE call[c].row = NoRow
      BY <1>3, <2>1, KeyTypes DEF Route, StoreOf
    <2>2. CASE call[c].row # NoRow /\ call[c].row \in registered
      BY <1>2, <1>3, <2>2, KeyTypes DEF Route, StoreOf
    <2>3. CASE call[c].row # NoRow /\ call[c].row \notin registered
      <3>1. [call[c] EXCEPT !.pc = "unrouted"] =
                [call[c] EXCEPT !.store = call[c].store, !.pc = "unrouted"]
        BY <1>2 DEF CallTypes
      <3>. QED
        BY <1>2, <2>3, <3>1 DEF Route, CallTypes
    <2>. QED
      BY <2>1, <2>2, <2>3
  <1>5. /\ call' \in [Calls -> CallTypes]
        /\ \A d \in Calls : d # c => call'[d] = call[d]
        /\ call'[c] = [call[c] EXCEPT !.store = st, !.pc = l]
    <2>. DEFINE led == [call[c] EXCEPT !.store = st, !.pc = l]
    <2>1. led \in CallTypes
      BY <1>2 DEF CallTypes, Places
    <2>2. call' = [call EXCEPT ![c] = led]
      BY <1>4
    <2>. HIDE DEF led
    <2>3. call' \in [Calls -> CallTypes] /\ call'[c] = led
          /\ \A d \in Calls : d # c => call'[d] = call[d]
      BY <2>1, <2>2, CallTyped
    <2>. QED
      BY <2>3 DEF led
  <1>6. /\ call'[c].before = call[c].before /\ call'[c].round = call[c].round
        /\ call'[c].version = call[c].version /\ call'[c].pc = l /\ call'[c].store = st
    BY <1>2, <1>5 DEF CallTypes
  <1>7. Holds(c)' /\ Fresh(c)'
    BY <1>1, <1>2, <1>4, <1>6 DEF Holds, Fresh, Reached
  <1>8. l = "load" => call[c].round = 2 \/ c \notin Reads
    <2>1. call[c].round \in {1, 2}
      BY <1>2 DEF CallTypes
    <2>. QED
      BY <1>4, <2>1 DEF Resolved
  <1>. QED
    BY <1>1, <1>5, <1>6, <1>7, <1>8, CacheUntouched, CallMoves

-----------------------------------------------------------------------------
\* What the end of a call keeps, when no row, route or cache changes.
LEMMA CallEnds ==
    ASSUME IInv, NEW c \in Calls,
           UNCHANGED <<rows, cache, registered, set, routes, raced>>,
           call' \in [Calls -> CallTypes],
           \A d \in Calls : d # c => call'[d] = call[d],
           call'[c].pc \in {"returned", "load", "cached"}, Holds(c)',
           stream' \in [Stores -> Seq(Appends)], StreamsRouted'
    PROVE  Types' /\ Routed' /\ SetsFollow' /\ CacheFollows'
  <1>1. Types'
    BY DEF IInv, Types, ResidencyTypeOK, CallTypes
  <1>2. SetsFollow'
    BY DEF IInv, SetsFollow, LaterSetWins, Done, SetsReturned, First
  <1>3. Routed'
    <2>1. RoutesKnown' /\ CacheRouted'
      BY DEF IInv, Routed, RoutesKnown, RoutedBy, CacheRouted, Reached
    <2>2. ASSUME NEW d \in Calls, d # c PROVE Holds(d)'
      <3>1. Holds(d) /\ call'[d] = call[d]
        BY <2>2 DEF IInv, Routed
      <3>. QED
        BY <3>1 DEF Holds, Reached
    <2>. QED
      BY <2>1, <2>2 DEF Routed
  <1>4. CacheFollows'
    <2>1. StaleOnlyAfterRace' /\ Fresh(c)'
      BY CacheUntouched DEF Fresh
    <2>2. ASSUME NEW d \in Calls, d # c PROVE Fresh(d)'
      <3>1. Fresh(d) /\ call'[d] = call[d]
        BY <2>2 DEF IInv, CacheFollows
      <3>. QED
        BY <3>1 DEF Fresh, NoneToClear, First, Effective
    <2>. QED
      BY <2>1, <2>2 DEF CacheFollows
  <1>. QED
    BY <1>1, <1>2, <1>3, <1>4

LEMMA AppendGrows ==
    \A q \in Seq(Appends), a \in Appends :
        /\ Append(q, a) \in Seq(Appends) /\ Len(Append(q, a)) = Len(q) + 1
        /\ Len(q) \in Nat
        /\ \A v \in 1..Len(q) : Append(q, a)[v] = q[v]
        /\ Append(q, a)[Len(q) + 1] = a
  BY AppendProperties, LenProperties

LEMMA AppendCommitKeeps ==
    ASSUME IInv, NEW a \in Appends, AppendCommit(a)
    PROVE  IInv'
  <1>2. a \in Calls /\ call[a] \in CallTypes
    BY CallTyped DEF Calls
  <1>0. PICK st \in Stores : st = call[a].store
    BY <1>2 DEF CallTypes
  <1>1. /\ call[a].pc = "append" /\ call' = [call EXCEPT ![a].pc = "returned"]
        /\ stream' = [stream EXCEPT ![st] = Append(@, a)]
        /\ UNCHANGED <<rows, cache, registered, set, routes, raced>>
    BY <1>0 DEF AppendCommit
  <1>3. /\ call' \in [Calls -> CallTypes]
        /\ \A d \in Calls : d # a => call'[d] = call[d]
        /\ call'[a] = [call[a] EXCEPT !.pc = "returned"]
    BY <1>1, <1>2, CallTyped DEF CallTypes, Places
  <1>4. /\ call'[a].before = call[a].before /\ call'[a].pc = "returned"
    BY <1>2, <1>3 DEF CallTypes
  <1>5. /\ stream[st] \in Seq(Appends) /\ stream'[st] = Append(stream[st], a)
        /\ \A s \in Stores : s # st => stream'[s] = stream[s]
    BY <1>1, <1>2 DEF IInv, Types, ResidencyTypeOK
  <1>6. /\ stream' \in [Stores -> Seq(Appends)]
        /\ \A s \in Stores : Len(stream[s]) \in Nat /\ Len(stream'[s]) \in Nat
        /\ \A s \in Stores : Len(stream[s]) <= Len(stream'[s])
        /\ \A s \in Stores : \A v \in 1..Len(stream[s]) : stream'[s][v] = stream[s][v]
        /\ Len(stream'[st]) = Len(stream[st]) + 1 /\ stream'[st][Len(stream[st]) + 1] = a
    <2>1. \A s \in Stores : stream[s] \in Seq(Appends)
      BY DEF IInv, Types, ResidencyTypeOK
    <2>2. \A s \in Stores : Len(stream[s]) \in Nat
      BY <2>1, LenProperties
    <2>3. stream' \in [Stores -> Seq(Appends)]
      BY <1>1, <1>5, AppendGrows DEF IInv, Types, ResidencyTypeOK
    <2>4. /\ Len(stream'[st]) = Len(stream[st]) + 1
          /\ stream'[st][Len(stream[st]) + 1] = a
          /\ \A v \in 1..Len(stream[st]) : stream'[st][v] = stream[st][v]
      BY <1>5, <2>1, AppendGrows
    <2>5. \A s \in Stores : s # st => stream'[s] = stream[s]
      BY <1>5
    <2>. QED
      BY <2>2, <2>3, <2>4, <2>5
  <1>7. StreamsRouted'
    <2>1. Reached(KeyOf[a], st)
      BY <1>0, <1>1, <1>2 DEF IInv, Routed, Holds
    <2>. SUFFICES ASSUME NEW s \in Stores, NEW v \in 1..Len(stream'[s])
                  PROVE  Reached(KeyOf[stream'[s][v]], s)
      BY <1>1 DEF StreamsRouted, Reached
    <2>2. CASE v \in 1..Len(stream[s])
      BY <1>6, <2>2 DEF IInv, Routed, StreamsRouted
    <2>3. CASE v \notin 1..Len(stream[s])
      <3>1. s = st /\ v = Len(stream[st]) + 1
        BY <1>2, <1>5, <1>6, <2>3
      <3>. QED
        BY <1>6, <2>1, <3>1
    <2>. QED
      BY <2>2, <2>3
  <1>8. Holds(a)'
    BY <1>4 DEF Holds
  <1>9. Types' /\ Routed' /\ SetsFollow' /\ CacheFollows'
    BY <1>1, <1>2, <1>3, <1>4, <1>6, <1>7, <1>8, CallEnds
  <1>10. Served'
    <2>1. Returned' = Returned \union {a}
      BY <1>2, <1>3, <1>4 DEF Returned, Calls
    <2>0. ASSUME NEW s \in Stores, NEW v \in 1..Len(stream[s])
          PROVE  v \in 1..Len(stream'[s]) /\ stream'[s][v] = stream[s][v]
      BY <1>6
    <2>2. \A b \in Appends, s \in Stores : Stored(b, s) => Stored(b, s)'
      BY <2>0 DEF Stored
    <2>3. Stored(a, st)'
      <3>1. Len(stream[st]) + 1 \in 1..Len(stream'[st])
        BY <1>2, <1>6
      <3>2. \E v \in 1..Len(stream'[st]) : stream'[st][v] = a
        BY <1>6, <3>1
      <3>. QED
        BY <3>2 DEF Stored
    <2>4. (\A b \in Returned : \E s \in Stores : Stored(b, s))'
      <3>. SUFFICES ASSUME NEW b \in Returned \union {a} PROVE \E s \in Stores : Stored(b, s)'
        BY <2>1
      <3>. QED
        BY <2>2, <2>3 DEF IInv, Served, Returned
    <2>5. (\A c \in Calls : call[c].before \subseteq Returned)'
      BY <1>3, <1>4, <2>1 DEF IInv, Served
    <2>6. a \notin Reads
      BY ResidencyAssumption
    <2>7. (\A r \in Reads : /\ call[r].pc = "idle" => call[r].round = 1
                            /\ call[r].pc = "load" => call[r].round = 2)'
      BY <1>3, <2>6 DEF IInv, Served, Calls
    <2>8. ASSUME NEW r \in Reads PROVE Covers(r)'
      <3>1. Covers(r) /\ call'[r] = call[r] /\ r \in Calls
        BY <1>3, <2>6 DEF IInv, Served, Calls
      <3>2. KeyOf[r] \in Keys /\ routes[KeyOf[r]] \subseteq Stores
        BY <3>1, KeyTypes DEF IInv, Types, ResidencyTypeOK
      <3>3. ASSUME NEW b, NEW n, NEW s \in routes[KeyOf[r]],
                   \E v \in 1..Len(stream[s]) : v <= n /\ stream[s][v] = b
            PROVE  \E v \in 1..Len(stream'[s]) : v <= n /\ stream'[s][v] = b
        BY <2>0, <3>2, <3>3
      <3>4. ASSUME KeyOf[r] # Global, Stands(KeyOf[r]),
                   NEW b \in call[r].before, KeyOf[b] = KeyOf[r],
                   call[r].round = 2, call[r].pc # "returned",
                   NEW s \in routes[KeyOf[r]]
            PROVE  \E v \in 1..Len(stream'[s]) : v <= call[r].version /\ stream'[s][v] = b
        <4>1. \E v \in 1..Len(stream[s]) : v <= call[r].version /\ stream[s][v] = b
          BY <3>1, <3>4 DEF Covers
        <4>. QED
          BY <3>3, <4>1
      <3>5. ASSUME KeyOf[r] # Global, Stands(KeyOf[r]),
                   NEW b \in call[r].before, KeyOf[b] = KeyOf[r], call[r].pc = "returned"
            PROVE  b \in call[r].result
        BY <3>1, <3>5 DEF Covers
      <3>6. Stands(KeyOf[r])' => Stands(KeyOf[r])
        BY <1>1 DEF Stands
      <3>7. ASSUME KeyOf[r] # Global, Stands(KeyOf[r])', NEW b \in call'[r].before,
                   KeyOf[b] = KeyOf[r]
            PROVE  /\ call'[r].round = 2 /\ call'[r].pc # "returned" =>
                         \A s \in routes'[KeyOf[r]] : \E v \in 1..Len(stream'[s]) :
                             v <= call'[r].version /\ stream'[s][v] = b
                   /\ call'[r].pc = "returned" => b \in call'[r].result
        <4>1. call'[r] = call[r] /\ routes' = routes /\ Stands(KeyOf[r])
          BY <1>1, <3>1, <3>6, <3>7
        <4>2. b \in call[r].before
          BY <3>7, <4>1
        <4>3. call[r].pc = "returned" => b \in call[r].result
          BY <3>5, <3>7, <4>1, <4>2
        <4>4. ASSUME call[r].round = 2, call[r].pc # "returned", NEW s \in routes[KeyOf[r]]
              PROVE  \E v \in 1..Len(stream'[s]) : v <= call[r].version /\ stream'[s][v] = b
          BY <3>4, <3>7, <4>1, <4>2, <4>4
        <4>. QED
          BY <4>1, <4>3, <4>4
      <3>. QED
        BY <3>7 DEF Covers
    <2>. QED
      BY <2>4, <2>5, <2>7, <2>8 DEF Served
  <1>. QED
    BY <1>9, <1>10 DEF IInv

\* While the route stands, what a read must find is in the store it has resolved.
LEMMA OneFile ==
    ASSUME IInv, NEW r \in Reads, call[r].pc \in {"max", "load"},
           KeyOf[r] # Global, Stands(KeyOf[r]),
           NEW b \in call[r].before, KeyOf[b] = KeyOf[r]
    PROVE  /\ call[r].store \in routes[KeyOf[r]]
           /\ Stored(b, call[r].store)
  <1>1. r \in Calls /\ KeyOf[r] \in Keys
    BY KeyTypes DEF Calls
  <1>2. Reached(KeyOf[r], call[r].store)
    BY <1>1 DEF IInv, Routed, Holds
  <1>3. PICK s \in Stores : Stored(b, s)
    BY <1>1 DEF IInv, Served
  <1>4. Reached(KeyOf[r], s)
    <2>1. PICK v \in 1..Len(stream[s]) : stream[s][v] = b
      BY <1>3 DEF Stored
    <2>2. Reached(KeyOf[stream[s][v]], s)
      BY DEF IInv, Routed, StreamsRouted
    <2>. QED
      BY <2>1, <2>2
  <1>5. call[r].store \in routes[KeyOf[r]] /\ s = call[r].store
    BY <1>1, <1>2, <1>4, OneStore
  <1>. QED
    BY <1>3, <1>5

\* What a step of a read keeps of what reads are served.
LEMMA ReadServed ==
    ASSUME IInv, NEW r \in Reads,
           UNCHANGED <<stream, routes>>,
           call' \in [Calls -> CallTypes],
           \A d \in Calls : d # r => call'[d] = call[d],
           call'[r].before = call[r].before,
           call'[r].pc # "idle", call'[r].pc = "load" => call'[r].round = 2,
           Covers(r)'
    PROVE  Served'
  <1>1. r \notin Appends
    BY ResidencyAssumption
  <1>2. Returned' = Returned
    BY <1>1 DEF Returned, Calls
  <1>3. (\A a \in Returned : \E s \in Stores : Stored(a, s))'
    BY <1>2 DEF IInv, Served, Stored
  <1>4. (\A d \in Calls : call[d].before \subseteq Returned)'
    BY <1>2 DEF IInv, Served
  <1>5. (\A d \in Reads : /\ call[d].pc = "idle" => call[d].round = 1
                          /\ call[d].pc = "load" => call[d].round = 2)'
    BY DEF IInv, Served, Calls
  <1>6. ASSUME NEW d \in Reads, d # r PROVE Covers(d)'
    <2>1. Covers(d) /\ call'[d] = call[d]
      BY <1>6 DEF IInv, Served, Calls
    <2>. QED
      BY <2>1 DEF Covers, Stands
  <1>. QED
    BY <1>3, <1>4, <1>5, <1>6 DEF Served

LEMMA ReadMaxKeeps ==
    ASSUME IInv, NEW r \in Reads, ReadMax(r)
    PROVE  IInv'
  <1>1. /\ r \in Calls /\ r \notin Appends /\ call[r] \in CallTypes
        /\ call[r].pc = "max" /\ call[r].store \in Stores
        /\ UNCHANGED <<rows, cache, registered, stream, set, routes, raced>>
    BY CallTyped, ResidencyAssumption DEF ReadMax, Calls, CallTypes
  <1>2. PICK n \in Nat : n = Len(stream[call[r].store])
    BY <1>1, LenProperties DEF IInv, Types, ResidencyTypeOK
  <1>3. PICK l \in {"returned", "load", "cached"}, m \in Nat, o \in {1, 2} :
            /\ call' = [call EXCEPT ![r] = [@ EXCEPT !.version = m, !.round = o, !.pc = l]]
            /\ l = "returned" => n = 0
            /\ l # "returned" => m = n /\ o = 2
            /\ l = "load" => KeyOf[r] = Global
    <2>1. CASE n = 0
      <3>1. [call[r] EXCEPT !.pc = "returned"] =
                [call[r] EXCEPT !.version = call[r].version, !.round = call[r].round,
                                !.pc = "returned"]
        BY <1>1 DEF CallTypes
      <3>2. call[r].version \in Nat /\ call[r].round \in {1, 2}
        BY <1>1 DEF CallTypes
      <3>. QED
        BY <1>2, <2>1, <3>1, <3>2 DEF ReadMax
    <2>2. CASE n # 0 /\ KeyOf[r] = Global
      BY <1>2, <2>2 DEF ReadMax
    <2>3. CASE n # 0 /\ KeyOf[r] # Global
      BY <1>2, <2>3 DEF ReadMax
    <2>. QED
      BY <2>1, <2>2, <2>3
  <1>4. /\ call' \in [Calls -> CallTypes]
        /\ \A d \in Calls : d # r => call'[d] = call[d]
        /\ call'[r] = [call[r] EXCEPT !.version = m, !.round = o, !.pc = l]
    <2>. DEFINE told == [call[r] EXCEPT !.version = m, !.round = o, !.pc = l]
    <2>1. told \in CallTypes
      BY <1>1 DEF CallTypes, Places
    <2>2. call' = [call EXCEPT ![r] = told]
      BY <1>3
    <2>. HIDE DEF told
    <2>3. call' \in [Calls -> CallTypes] /\ call'[r] = told
          /\ \A d \in Calls : d # r => call'[d] = call[d]
      BY <1>1, <2>1, <2>2, CallTyped
    <2>. QED
      BY <2>3 DEF told
  <1>5. /\ call'[r].before = call[r].before /\ call'[r].round = o
        /\ call'[r].version = m /\ call'[r].pc = l /\ call'[r].result = call[r].result
    BY <1>1, <1>4 DEF CallTypes
  <1>6. Types' /\ Routed' /\ SetsFollow' /\ CacheFollows'
    <2>1. Holds(r)'
      BY <1>1, <1>3, <1>5 DEF Holds
    <2>2. StreamsRouted' /\ stream' \in [Stores -> Seq(Appends)]
      BY <1>1 DEF IInv, Types, ResidencyTypeOK, Routed, StreamsRouted, Reached
    <2>. QED
      BY <1>1, <1>4, <1>5, <2>1, <2>2, CallEnds
  <1>7. Covers(r)'
    <2>1. ASSUME KeyOf[r] # Global, Stands(KeyOf[r]),
                 NEW b \in call[r].before, KeyOf[b] = KeyOf[r]
          PROVE  /\ n # 0
                 /\ \A s \in routes[KeyOf[r]] : \E v \in 1..Len(stream[s]) :
                        v <= n /\ stream[s][v] = b
      <3>1. Stored(b, call[r].store) /\ call[r].store \in routes[KeyOf[r]]
        BY <1>1, <2>1, OneFile
      <3>2. PICK v \in 1..n : stream[call[r].store][v] = b
        BY <1>2, <3>1 DEF Stored
      <3>3. \A s \in routes[KeyOf[r]] : s = call[r].store
        BY <2>1, <3>1 DEF Stands
      <3>. QED
        BY <1>2, <3>2, <3>3
    <2>2. ASSUME KeyOf[r] # Global, Stands(KeyOf[r])', NEW b \in call'[r].before,
                 KeyOf[b] = KeyOf[r]
          PROVE  /\ call'[r].round = 2 /\ call'[r].pc # "returned" =>
                       \A s \in routes'[KeyOf[r]] : \E v \in 1..Len(stream'[s]) :
                           v <= call'[r].version /\ stream'[s][v] = b
                 /\ call'[r].pc = "returned" => b \in call'[r].result
      <3>1. Stands(KeyOf[r]) /\ routes' = routes /\ stream' = stream /\ b \in call[r].before
        BY <1>1, <1>5, <2>2 DEF Stands
      <3>2. /\ n # 0
            /\ \A s \in routes[KeyOf[r]] : \E v \in 1..Len(stream[s]) :
                   v <= n /\ stream[s][v] = b
        BY <2>1, <2>2, <3>1
      <3>. QED
        BY <1>3, <1>5, <3>1, <3>2
    <2>. QED
      BY <2>2 DEF Covers
  <1>8. Served'
    BY <1>1, <1>3, <1>4, <1>5, <1>7, ReadServed
  <1>. QED
    BY <1>6, <1>8 DEF IInv

LEMMA LoadKeeps ==
    ASSUME IInv, NEW r \in Reads, Load(r)
    PROVE  IInv'
  <1>1. /\ r \in Calls /\ r \notin Appends /\ call[r] \in CallTypes
        /\ call[r].pc = "load" /\ call[r].store \in Stores
        /\ UNCHANGED <<rows, cache, registered, stream, set, routes, raced>>
    BY CallTyped, ResidencyAssumption DEF Load, Calls, CallTypes
  <1>2. PICK s \in Stores : s = call[r].store
    BY <1>1
  <1>. DEFINE found == {stream[s][v] : v \in {w \in 1..Len(stream[s]) :
                             /\ w <= call[r].version
                             /\ KeyOf[r] \in {Global, KeyOf[stream[s][w]]}}}
  <1>3. found \subseteq Appends
    <2>1. stream[s] \in Seq(Appends)
      BY DEF IInv, Types, ResidencyTypeOK
    <2>2. \A v \in 1..Len(stream[s]) : stream[s][v] \in Appends
      BY <2>1, ElementOfSeq
    <2>. QED
      BY <2>2
  <1>4. PICK res \in SUBSET Appends : res = found
    BY <1>3
  <1>5. call' = [call EXCEPT ![r].pc = "returned", ![r].result = res]
    BY <1>2, <1>4 DEF Load
  <1>. HIDE DEF found
  <1>6. /\ call' \in [Calls -> CallTypes]
        /\ \A d \in Calls : d # r => call'[d] = call[d]
        /\ call'[r] = [call[r] EXCEPT !.pc = "returned", !.result = res]
    <2>. DEFINE told == [call[r] EXCEPT !.pc = "returned", !.result = res]
    <2>1. told \in CallTypes
      BY <1>1 DEF CallTypes, Places
    <2>2. call' = [call EXCEPT ![r] = told]
      BY <1>5
    <2>. HIDE DEF told
    <2>3. call' \in [Calls -> CallTypes] /\ call'[r] = told
          /\ \A d \in Calls : d # r => call'[d] = call[d]
      BY <1>1, <2>1, <2>2, CallTyped
    <2>. QED
      BY <2>3 DEF told
  <1>7. /\ call'[r].before = call[r].before /\ call'[r].result = res
        /\ call'[r].pc = "returned"
    BY <1>1, <1>6 DEF CallTypes
  <1>8. Types' /\ Routed' /\ SetsFollow' /\ CacheFollows'
    <2>1. Holds(r)'
      BY <1>7 DEF Holds
    <2>2. StreamsRouted' /\ stream' \in [Stores -> Seq(Appends)]
      BY <1>1 DEF IInv, Types, ResidencyTypeOK, Routed, StreamsRouted, Reached
    <2>. QED
      BY <1>1, <1>6, <1>7, <2>1, <2>2, CallEnds
  <1>9. ASSUME KeyOf[r] # Global, Stands(KeyOf[r]),
               NEW b \in call[r].before, KeyOf[b] = KeyOf[r]
        PROVE  b \in res
    <2>1. s \in routes[KeyOf[r]] /\ Covers(r) /\ call[r].round = 2
      BY <1>1, <1>2, <1>9, OneFile DEF IInv, Served
    <2>2. PICK v \in 1..Len(stream[s]) : v <= call[r].version /\ stream[s][v] = b
      BY <1>1, <1>9, <2>1 DEF Covers
    <2>. QED
      BY <1>4, <1>9, <2>2 DEF found
  <1>10. Covers(r)'
    <2>1. Stands(KeyOf[r])' => Stands(KeyOf[r])
      BY <1>1 DEF Stands
    <2>. QED
      BY <1>7, <1>9, <2>1 DEF Covers
  <1>11. Served'
    BY <1>1, <1>6, <1>7, <1>10, ReadServed
  <1>. QED
    BY <1>8, <1>11 DEF IInv

-----------------------------------------------------------------------------
LEMMA SetTyped ==
    ASSUME IInv
    PROVE  set \in [Sets -> SetTypes]
  BY DEF IInv, Types, ResidencyTypeOK, SetTypes

\* In words of the sets that have committed a key's row.
LEMMA LaterSetWinsMeans ==
    LaterSetWins <=>
        \A k \in Keys : (\E s \in Sets : KeyOf[s] = k /\ Done(s)) =>
            \E s \in Sets : /\ KeyOf[s] = k /\ Done(s) /\ First(k) = RegionOf[s]
                            /\ \A u \in Sets : KeyOf[u] = k /\ Done(u) => s \notin set[u].before
  BY DEF LaterSetWins, Done

LEMMA SelectRowKeeps ==
    ASSUME IInv, NEW s \in Sets, SelectRow(s)
    PROVE  IInv'
  <1>. DEFINE k == KeyOf[s]
  <1>1. /\ set[s].pc = "idle" /\ k \in Keys
        /\ UNCHANGED <<rows, cache, registered, stream, call, routes, raced>>
    BY KeyTypes DEF SelectRow
  <1>2. PICK f \in BOOLEAN, b \in SUBSET Sets :
            /\ f <=> rows[k] # <<>>
            /\ b = SetsReturned
            /\ set' = [set EXCEPT ![s] = [pc |-> "commit", found |-> f, before |-> b]]
    <2>1. SetsReturned \in SUBSET Sets
      BY DEF SetsReturned
    <2>2. (First(k) # NoRow) <=> rows[k] # <<>>
      BY <1>1, FirstRoutes DEF IInv
    <2>3. (First(k) # NoRow) \in BOOLEAN
      OBVIOUS
    <2>. QED
      BY <2>1, <2>2, <2>3 DEF SelectRow
  <1>3. /\ set' \in [Sets -> SetTypes]
        /\ \A u \in Sets : u # s => set'[u] = set[u]
        /\ set'[s].pc = "commit" /\ set'[s].found = f /\ set'[s].before = b
    BY <1>2, SetTyped DEF SetTypes
  <1>4. Types'
    BY <1>1, <1>3 DEF IInv, Types, ResidencyTypeOK, SetTypes
  <1>5. Routed'
    BY <1>1 DEF IInv, Routed, RoutesKnown, RoutedBy, CacheRouted, StreamsRouted, Holds, Reached
  <1>6. \A u \in Sets : Done(u)' <=> Done(u)
    BY <1>1, <1>3 DEF Done
  <1>7. SetsReturned' = SetsReturned
    BY <1>1, <1>3 DEF SetsReturned
  <1>8. SetsFollow'
    <2>1. (\A u \in Sets : Done(u) => rows[KeyOf[u]] # <<>>)'
      BY <1>1, <1>6 DEF IInv, SetsFollow
    <2>2. (\A u \in Sets : set[u].pc = "commit" /\ set[u].found => rows[KeyOf[u]] # <<>>)'
      BY <1>1, <1>2, <1>3 DEF IInv, SetsFollow
    <2>3. (\A u \in Sets : set[u].pc = "commit" /\ ~set[u].found =>
                              \A w \in set[u].before : KeyOf[w] # KeyOf[u])'
      <3>1. ~f => \A w \in b : KeyOf[w] # k
        BY <1>2 DEF IInv, SetsFollow, Done, SetsReturned
      <3>. QED
        BY <1>3, <3>1 DEF IInv, SetsFollow
    <2>4. (\A u \in Sets : set[u].pc = "commit" /\ ~set[u].found /\ rows[KeyOf[u]] # <<>> =>
                              \E w \in Sets : Done(w) /\ KeyOf[w] = KeyOf[u])'
      BY <1>1, <1>2, <1>3, <1>6 DEF IInv, SetsFollow
    <2>5. (\A u \in Sets : set[u].before \subseteq SetsReturned)'
      BY <1>2, <1>3, <1>7 DEF IInv, SetsFollow
    <2>6. LaterSetWins'
      <3>1. \A u \in Sets : Done(u) => set'[u].before = set[u].before
        BY <1>1, <1>3 DEF Done
      <3>2. \A j \in Keys : First(j)' = First(j)
        BY <1>1 DEF First
      <3>. QED
        BY <1>6, <3>1, <3>2, LaterSetWinsMeans DEF IInv, SetsFollow, LaterSetWins, Done
    <2>. QED
      BY <2>1, <2>2, <2>3, <2>4, <2>5, <2>6 DEF SetsFollow
  <1>9. CacheFollows'
    <2>1. NoneToClear' <=> NoneToClear
      BY <1>1, <1>3 DEF NoneToClear
    <2>. QED
      BY <1>1, <2>1 DEF IInv, CacheFollows, StaleOnlyAfterRace, NoneToClear, Fresh, First, Effective
  <1>10. Served'
    BY <1>1 DEF IInv, Served, Returned, Stored, Covers, Stands
  <1>. QED
    BY <1>4, <1>5, <1>8, <1>9, <1>10 DEF IInv

LEMMA ClearCacheKeeps ==
    ASSUME IInv, NEW s \in Sets, ClearCache(s)
    PROVE  IInv'
  <1>1. /\ set[s].pc = "clear" /\ set' = [set EXCEPT ![s].pc = "returned"]
        /\ cache' = [k \in Keys |-> Unfilled] /\ raced' = {KeyOf[c] : c \in Looking}
        /\ UNCHANGED <<rows, registered, stream, call, routes>>
    BY DEF ClearCache
  <1>2. /\ set' \in [Sets -> SetTypes]
        /\ \A u \in Sets : u # s => set'[u] = set[u]
        /\ set'[s].pc = "returned" /\ set'[s].found = set[s].found
        /\ set'[s].before = set[s].before
    BY <1>1, SetTyped DEF SetTypes
  <1>3. Types'
    <2>1. raced' \subseteq Keys
      BY <1>1, KeyTypes DEF Looking
    <2>. QED
      BY <1>1, <1>2, <2>1 DEF IInv, Types, ResidencyTypeOK, SetTypes
  <1>4. Routed'
    BY <1>1 DEF IInv, Routed, RoutesKnown, RoutedBy, CacheRouted, StreamsRouted, Holds, Reached
  <1>5. \A u \in Sets : Done(u)' <=> Done(u)
    BY <1>1, <1>2 DEF Done
  <1>6. SetsReturned \subseteq SetsReturned'
    BY <1>2 DEF SetsReturned
  <1>7. SetsFollow'
    <2>1. \A u \in Sets : (set'[u].pc = "commit" <=> set[u].pc = "commit")
                           /\ set'[u].found = set[u].found /\ set'[u].before = set[u].before
      BY <1>1, <1>2
    <2>2. LaterSetWins'
      BY <1>1, <1>5, <2>1 DEF IInv, SetsFollow, LaterSetWins, Done, First
    <2>. QED
      BY <1>1, <1>5, <1>6, <2>1, <2>2 DEF IInv, SetsFollow
  <1>8. CacheFollows'
    <2>1. StaleOnlyAfterRace'
      BY <1>1 DEF StaleOnlyAfterRace
    <2>2. ASSUME NEW c \in Calls PROVE Fresh(c)'
      <3>1. call[c].pc \in {"global", "fill"} => KeyOf[c] \in raced'
        BY <1>1 DEF Looking
      <3>. QED
        BY <1>1, <3>1 DEF Fresh
    <2>. QED
      BY <2>1, <2>2 DEF CacheFollows
  <1>9. Served'
    BY <1>1 DEF IInv, Served, Returned, Stored, Covers, Stands
  <1>. QED
    BY <1>3, <1>4, <1>7, <1>8, <1>9 DEF IInv

\* A key's rows after a commit: never none, and with another first row only when
\* the commit updates that row or adds the first.
LEMMA RowUpdated ==
    ASSUME NEW q \in Seq(Regions), q # <<>>, NEW region \in Regions
    PROVE  /\ [q EXCEPT ![1] = region] \in Seq(Regions)
           /\ [q EXCEPT ![1] = region] # <<>> /\ Head([q EXCEPT ![1] = region]) = region
  <1>. DEFINE p == [q EXCEPT ![1] = region]
  <1>1. Len(q) \in Nat /\ Len(q) > 0
    BY EmptySeq, LenProperties
  <1>2. p \in Seq(Regions) /\ Len(p) = Len(q) /\ p[1] = region
    BY <1>1, ExceptSeq
  <1>. HIDE DEF p
  <1>3. p \in Seq(Regions) /\ p # <<>> /\ Head(p) = region
    BY <1>1, <1>2
  <1>. QED
    BY <1>3 DEF p

LEMMA RowAdded ==
    ASSUME NEW q \in Seq(Regions), NEW region \in Regions
    PROVE  /\ Append(q, region) \in Seq(Regions) /\ Append(q, region) # <<>>
           /\ Head(Append(q, region)) = IF q = <<>> THEN region ELSE Head(q)
  <1>1. Append(q, region) \in Seq(Regions) /\ Len(Append(q, region)) = Len(q) + 1
    BY AppendProperties
  <1>2. Len(q) \in Nat /\ (q = <<>> <=> Len(q) = 0)
    BY EmptySeq, LenProperties
  <1>3. Append(q, region) # <<>> /\ Head(Append(q, region)) = Append(q, region)[1]
    BY <1>1, <1>2
  <1>4. Append(q, region)[1] = IF q = <<>> THEN region ELSE q[1]
    BY <1>2, AppendProperties
  <1>. QED
    BY <1>1, <1>3, <1>4

LEMMA CommitRowKeeps ==
    ASSUME IInv, NEW s \in Sets, CommitRow(s)
    PROVE  IInv'
  <1>. DEFINE k == KeyOf[s]
  <1>1. /\ set[s].pc = "commit" /\ set' = [set EXCEPT ![s].pc = "clear"]
        /\ k \in Keys /\ RegionOf[s] \in Regions /\ set[s] \in SetTypes
        /\ UNCHANGED <<cache, registered, stream, call, raced>>
    BY KeyTypes, SetTyped DEF CommitRow
  <1>2. /\ set' \in [Sets -> SetTypes]
        /\ \A u \in Sets : u # s => set'[u] = set[u]
        /\ set'[s].pc = "clear" /\ set'[s].before = set[s].before
    BY <1>1, SetTyped DEF SetTypes
  <1>3. PICK f \in BOOLEAN : f = set[s].found
    BY <1>1 DEF SetTypes
  <1>4. rows \in [Keys -> Seq(Regions)] /\ (f => rows[k] # <<>>)
    BY <1>1, <1>3 DEF IInv, Types, ResidencyTypeOK, SetsFollow
  <1>5. /\ \A j \in Keys : j # k => rows'[j] = rows[j]
        /\ rows'[k] = IF f THEN [rows[k] EXCEPT ![1] = RegionOf[s]]
                      ELSE Append(rows[k], RegionOf[s])
        /\ DOMAIN rows' = Keys /\ rows' = [j \in Keys |-> rows'[j]]
    BY <1>1, <1>3, <1>4 DEF CommitRow
  <1>6. /\ rows'[k] \in Seq(Regions) /\ rows'[k] # <<>>
        /\ Head(rows'[k]) = IF f \/ rows[k] = <<>> THEN RegionOf[s] ELSE Head(rows[k])
    <2>1. PICK q \in Seq(Regions) : q = rows[k]
      BY <1>1, <1>4
    <2>2. PICK region \in Regions : region = RegionOf[s]
      BY <1>1
    <2>3. CASE f
      <3>1. q # <<>> /\ rows'[k] = [q EXCEPT ![1] = region]
        BY <1>4, <1>5, <2>1, <2>2, <2>3
      <3>2. rows'[k] \in Seq(Regions) /\ rows'[k] # <<>> /\ Head(rows'[k]) = region
        BY <3>1, RowUpdated
      <3>. QED
        BY <2>2, <2>3, <3>2
    <2>4. CASE ~f
      <3>1. rows'[k] = Append(q, region)
        BY <1>5, <2>1, <2>2, <2>4
      <3>2. /\ rows'[k] \in Seq(Regions) /\ rows'[k] # <<>>
            /\ Head(rows'[k]) = IF q = <<>> THEN region ELSE Head(q)
        BY <3>1, RowAdded
      <3>. QED
        BY <2>1, <2>2, <2>4, <3>2
    <2>. QED
      BY <2>3, <2>4
  <1>7. rows' \in [Keys -> Seq(Regions)]
    BY <1>4, <1>5, <1>6
  <1>8. \A j \in Keys : rows[j] # <<>> => rows'[j] # <<>>
    BY <1>5, <1>6
  <1>9. \A j \in Keys : RoutedBy(rows', j) \in Stores
    BY <1>7, RowTypes
  <1>10. \A j \in Keys : routes'[j] = routes[j] \union {RoutedBy(rows', j)}
    BY DEF CommitRow
  <1>11. \A j \in Keys : routes[j] \subseteq routes'[j]
    BY <1>10
  <1>12. Types'
    <2>1. routes' \in [Keys -> SUBSET Stores]
      <3>1. routes' = [j \in Keys |-> routes[j] \union {RoutedBy(rows', j)}]
        BY DEF CommitRow
      <3>2. \A j \in Keys : routes[j] \union {RoutedBy(rows', j)} \in SUBSET Stores
        BY <1>9 DEF IInv, Types, ResidencyTypeOK
      <3>. QED
        BY <3>1, <3>2
    <2>2. \A j \in Keys : IsFiniteSet(routes'[j])
      BY <1>10, FS_AddElement DEF IInv, Types
    <2>. QED
      BY <1>1, <1>2, <1>7, <2>1, <2>2 DEF IInv, Types, ResidencyTypeOK, SetTypes
  <1>13. Routed'
    <2>1. RoutesKnown'
      BY <1>10 DEF RoutesKnown
    <2>2. CacheRouted'
      BY <1>1, <1>11, ReachedGrows DEF IInv, Routed, CacheRouted, StoreOf
    <2>3. StreamsRouted'
      <3>. SUFFICES ASSUME NEW t \in Stores, NEW v \in 1..Len(stream[t])
                    PROVE  Reached(KeyOf[stream[t][v]], t)'
        BY <1>1 DEF StreamsRouted, Reached
      <3>1. Reached(KeyOf[stream[t][v]], t)
        BY DEF IInv, Routed, StreamsRouted
      <3>2. KeyOf[stream[t][v]] \in Keys
        BY ElementOfSeq, KeyTypes DEF IInv, Types, ResidencyTypeOK, Calls
      <3>. QED
        BY <1>1, <1>11, <3>1, <3>2, ReachedGrows DEF Reached
    <2>4. ASSUME NEW c \in Calls PROVE Holds(c)'
      <3>1. Holds(c) /\ call'[c] = call[c] /\ KeyOf[c] \in Keys
        BY <1>1, KeyTypes DEF IInv, Routed
      <3>2. \A t : Reached(KeyOf[c], t) => Reached(KeyOf[c], t)'
        BY <1>11, <3>1, ReachedGrows
      <3>3. rows'[Global] = <<>> => rows[Global] = <<>>
        BY <1>8, KeyTypes
      <3>4. routes[KeyOf[c]] \subseteq routes'[KeyOf[c]] /\ routes[Global] \subseteq routes'[Global]
        BY <1>11, <3>1, KeyTypes
      <3>5. call[c].pc = "global" =>
                /\ routes'[KeyOf[c]] \intersect routes'[Global] # {}
                /\ rows'[Global] = <<>> => Default \in routes'[KeyOf[c]]
        BY <3>1, <3>3, <3>4 DEF Holds
      <3>6. call[c].pc \in {"fill", "route"} => Reached(KeyOf[c], StoreOf(call[c].row))'
        BY <1>1, <3>1, <3>2 DEF Holds, Reached, StoreOf
      <3>7. call[c].pc \in {"append", "max", "load"} /\ (c \in Appends \/ KeyOf[c] # Global) =>
                Reached(KeyOf[c], call[c].store)'
        BY <1>1, <3>1, <3>2 DEF Holds, Reached
      <3>. QED
        BY <1>1, <3>5, <3>6, <3>7 DEF Holds
    <2>. QED
      BY <2>1, <2>2, <2>3, <2>4 DEF Routed
  <1>14. \A u \in Sets : Done(u)' <=> Done(u) \/ u = s
    BY <1>2 DEF Done
  <1>15. SetsReturned' = SetsReturned /\ s \notin SetsReturned
    BY <1>1, <1>2 DEF SetsReturned
  <1>16. \A u \in Sets : KeyOf[u] \in Keys
    BY KeyTypes
  <1>17. SetsFollow'
    <2>1. \A u \in Sets : /\ set'[u].before = set[u].before
                          /\ set'[u].pc = "commit" => u # s /\ set'[u] = set[u]
      BY <1>2
    <2>2. (\A u \in Sets : Done(u) => rows[KeyOf[u]] # <<>>)'
      BY <1>6, <1>8, <1>14, <1>16 DEF IInv, SetsFollow
    <2>3. (\A u \in Sets : set[u].pc = "commit" /\ set[u].found => rows[KeyOf[u]] # <<>>)'
      BY <1>8, <1>16, <2>1 DEF IInv, SetsFollow
    <2>4. (\A u \in Sets : set[u].pc = "commit" /\ ~set[u].found =>
                              \A w \in set[u].before : KeyOf[w] # KeyOf[u])'
      BY <2>1 DEF IInv, SetsFollow
    <2>5. (\A u \in Sets : set[u].pc = "commit" /\ ~set[u].found /\ rows[KeyOf[u]] # <<>> =>
                              \E w \in Sets : Done(w) /\ KeyOf[w] = KeyOf[u])'
      <3>. SUFFICES ASSUME NEW u \in Sets, set'[u].pc = "commit", ~set'[u].found,
                           rows'[KeyOf[u]] # <<>>
                    PROVE  \E w \in Sets : Done(w)' /\ KeyOf[w] = KeyOf[u]
        OBVIOUS
      <3>1. CASE KeyOf[u] = k
        BY <1>14, <3>1
      <3>2. CASE KeyOf[u] # k
        BY <1>5, <1>14, <1>16, <2>1, <3>2 DEF IInv, SetsFollow
      <3>. QED
        BY <3>1, <3>2
    <2>6. (\A u \in Sets : set[u].before \subseteq SetsReturned)'
      BY <1>15, <2>1 DEF IInv, SetsFollow
    <2>7. ASSUME NEW j \in Keys, \E u \in Sets : KeyOf[u] = j /\ Done(u)'
          PROVE  \E u \in Sets : /\ KeyOf[u] = j /\ Done(u)' /\ First(j)' = RegionOf[u]
                                 /\ \A w \in Sets : KeyOf[w] = j /\ Done(w)' =>
                                                        u \notin set'[w].before
      <3>1. \A i \in Keys : (\E u \in Sets : KeyOf[u] = i /\ Done(u)) =>
                \E u \in Sets : /\ KeyOf[u] = i /\ Done(u) /\ First(i) = RegionOf[u]
                                /\ \A w \in Sets : KeyOf[w] = i /\ Done(w) => u \notin set[w].before
        BY LaterSetWinsMeans DEF IInv, SetsFollow
      <3>2. CASE j # k
        <4>1. First(j)' = First(j)
          BY <1>5, <3>2 DEF First
        <4>. QED
          BY <1>14, <2>1, <2>7, <3>1, <3>2, <4>1
      <3>3. CASE j = k /\ (f \/ rows[k] = <<>>)
        <4>1. First(j)' = RegionOf[s]
          BY <1>6, <3>3 DEF First
        <4>2. \A w \in Sets : s \notin set'[w].before
          BY <1>15, <2>1 DEF IInv, SetsFollow
        <4>. QED
          BY <1>14, <3>3, <4>1, <4>2
      <3>4. CASE j = k /\ ~f /\ rows[k] # <<>>
        <4>1. \A w \in set[s].before : KeyOf[w] # k
          BY <1>1, <1>3, <3>4 DEF IInv, SetsFollow
        <4>2. \E w \in Sets : Done(w) /\ KeyOf[w] = k
          BY <1>1, <1>3, <3>4 DEF IInv, SetsFollow
        <4>3. First(j)' = First(j)
          BY <1>6, <3>4 DEF First
        <4>4. PICK u \in Sets :
                  /\ KeyOf[u] = j /\ Done(u) /\ First(j) = RegionOf[u]
                  /\ \A w \in Sets : KeyOf[w] = j /\ Done(w) => u \notin set[w].before
          BY <3>1, <3>4, <4>2
        <4>. QED
          BY <1>14, <2>1, <3>4, <4>1, <4>3, <4>4
      <3>. QED
        BY <3>2, <3>3, <3>4
    <2>8. LaterSetWins'
      BY <2>7 DEF LaterSetWins, Done
    <2>. QED
      BY <2>2, <2>3, <2>4, <2>5, <2>6, <2>8 DEF SetsFollow
  <1>18. CacheFollows'
    BY <1>2 DEF CacheFollows, StaleOnlyAfterRace, Fresh, NoneToClear
  <1>19. Served'
    <2>1. Returned' = Returned
      BY <1>1 DEF Returned
    <2>2. ASSUME NEW r \in Reads PROVE Covers(r)'
      <3>1. KeyOf[r] \in Keys /\ Covers(r)
        BY KeyTypes DEF Calls, IInv, Served
      <3>2. Stands(KeyOf[r])' => Stands(KeyOf[r]) /\ routes'[KeyOf[r]] = routes[KeyOf[r]]
        <4>1. RoutedBy(rows, KeyOf[r]) \in routes[KeyOf[r]]
          BY <3>1 DEF IInv, Routed, RoutesKnown
        <4>. QED
          BY <1>11, <3>1, <4>1, KeyTypes DEF Stands
      <3>. QED
        BY <1>1, <3>1, <3>2 DEF Covers
    <2>. QED
      BY <1>1, <2>1, <2>2 DEF IInv, Served, Stored
  <1>. QED
    BY <1>12, <1>13, <1>17, <1>18, <1>19 DEF IInv

LEMMA RegisterRegionKeeps ==
    ASSUME IInv, NEW region \in Regions, RegisterRegion(region)
    PROVE  IInv'
  <1>. USE DEF RegisterRegion
  <1>1. Types'
    BY DEF IInv, Types, ResidencyTypeOK
  <1>2. Routed'
    BY DEF IInv, Routed, RoutesKnown, RoutedBy, CacheRouted, StreamsRouted, Holds, Reached
  <1>3. SetsFollow'
    BY DEF IInv, SetsFollow, LaterSetWins, Done, SetsReturned, First
  <1>4. CacheFollows'
    BY DEF IInv, CacheFollows, StaleOnlyAfterRace, NoneToClear, Fresh, First, Effective
  <1>5. Served'
    BY DEF IInv, Served, Returned, Stored, Covers, Stands
  <1>. QED
    BY <1>1, <1>2, <1>3, <1>4, <1>5 DEF IInv

-----------------------------------------------------------------------------
LEMMA NextKeepsIInv == IInv /\ [ResidencyNext]_residency => IInv'
  <1>. SUFFICES ASSUME IInv, [ResidencyNext]_residency PROVE IInv'
    OBVIOUS
  <1>1. ASSUME NEW c \in Calls, Begin(c) \/ GetRegionConfig(c) \/ Route(c) PROVE IInv'
    BY <1>1, BeginKeeps, CheckCacheKeeps, ServeCachedKeeps, SelectTenantRowKeeps,
       SelectGlobalRowKeeps, FillCacheKeeps, RouteKeeps DEF GetRegionConfig
  <1>2. ASSUME NEW a \in Appends, AppendCommit(a) PROVE IInv'
    BY <1>2, AppendCommitKeeps
  <1>3. ASSUME NEW r \in Reads, ReadMax(r) \/ Load(r) PROVE IInv'
    BY <1>3, ReadMaxKeeps, LoadKeeps
  <1>4. ASSUME NEW s \in Sets, SetRegionConfig(s) PROVE IInv'
    BY <1>4, SelectRowKeeps, CommitRowKeeps, ClearCacheKeeps DEF SetRegionConfig
  <1>5. ASSUME NEW region \in Regions, RegisterRegion(region) PROVE IInv'
    BY <1>5, RegisterRegionKeeps
  <1>6. CASE UNCHANGED residency
    <2>. USE <1>6 DEF residency
    <2>1. Types' /\ SetsFollow'
      BY DEF IInv, Types, ResidencyTypeOK, SetsFollow, LaterSetWins, Done, SetsReturned, First
    <2>2. Routed'
      BY DEF IInv, Routed, RoutesKnown, RoutedBy, CacheRouted, StreamsRouted, Holds, Reached
    <2>3. CacheFollows'
      BY DEF IInv, CacheFollows, StaleOnlyAfterRace, NoneToClear, Fresh, First, Effective
    <2>4. Served'
      BY DEF IInv, Served, Returned, Stored, Covers, Stands
    <2>. QED
      BY <2>1, <2>2, <2>3, <2>4 DEF IInv
  <1>. QED
    BY <1>1, <1>2, <1>3, <1>4, <1>5, <1>6 DEF ResidencyNext

\* The inductive invariant holds in every behaviour of lookups, sets, registrations,
\* appends and reads.
THEOREM IInvAlways == ResidencySpec => []IInv
  BY InitIInv, NextKeepsIInv, PTL DEF ResidencySpec

\* A set that returned before another of its key began never outlives it, however
\* the two statements of concurrent sets interleave, and the cache disagrees with
\* the rows between sets only after a lookup that raced with the clearing.
THEOREM ResidencyInvAlways == ResidencySpec => []ResidencyInv
  <1>1. IInv => ResidencyInv
    BY DEF IInv, Types, SetsFollow, CacheFollows, ResidencyInv
  <1>. QED
    BY <1>1, IInvAlways, PTL

\* resolve_engine fails closed: no commit of a tenant reaches the default store
\* unless the rows once left its tenant without a region, however sets, lookups,
\* cache fills and registrations interleave.
THEOREM FailClosedAlways == ResidencySpec => []FailClosed
  <1>1. IInv => FailClosed
    <2>. SUFFICES ASSUME IInv, NEW a \in ToSet(stream[Default])
                  PROVE  Default \in routes[KeyOf[a]]
      BY DEF FailClosed
    <2>1. stream[Default] \in Seq(Appends)
      BY KeyTypes DEF IInv, Types, ResidencyTypeOK
    <2>2. PICK v \in 1..Len(stream[Default]) : stream[Default][v] = a
      BY <2>1, LenProperties DEF ToSet
    <2>3. Reached(KeyOf[a], Default)
      BY <2>2, KeyTypes DEF IInv, Routed, StreamsRouted
    <2>. QED
      BY <2>3 DEF Reached
  <1>. QED
    BY <1>1, IInvAlways, PTL

\* While a tenant's route and the global one stand, read_latest finds every commit of
\* the tenant that had returned when it began, though it resolves the store twice.
THEOREM ReadYourWritesAlways == ResidencySpec => []ReadYourWrites
  <1>1. IInv => ReadYourWrites
    <2>. SUFFICES ASSUME IInv, NEW r \in Reads, call[r].pc = "returned",
                         \A k \in {KeyOf[r], Global} : Cardinality(routes[k]) = 1,
                         NEW a \in call[r].before, KeyOf[r] = KeyOf[a], KeyOf[a] # Global
                  PROVE  a \in call[r].result
      BY DEF ReadYourWrites
    <2>1. KeyOf[r] \in Keys /\ Global \in Keys
      BY KeyTypes DEF Calls
    <2>2. Stands(KeyOf[r])
      <3>. SUFFICES ASSUME NEW k \in {KeyOf[r], Global} PROVE \A x, y \in routes[k] : x = y
        BY DEF Stands
      <3>1. IsFiniteSet(routes[k]) /\ Cardinality(routes[k]) = 1
        BY <2>1 DEF IInv, Types
      <3>2. PICK x : routes[k] = {x}
        BY <3>1, FS_Singleton
      <3>. QED
        BY <3>2
    <2>. QED
      BY <2>2 DEF IInv, Served, Covers
  <1>. QED
    BY <1>1, IInvAlways, PTL
=============================================================================
