------------------------- MODULE ConfigCacheProofs -------------------------
(***************************************************************************)
(* Proofs about the components that ask the cached configuration.  For       *)
(* Checkpoint, with any streams with files of their own, configurations,     *)
(* reads, waits, failures and restarts: a read returns exactly a prefix of    *)
(* its stream, a registered checkpoint is a full snapshot, a wait is honest,  *)
(* and a read fails for one known reason only.  For Spans and the log         *)
(* pipeline its emissions go through, with any tasks, hosts and bounds: the   *)
(* spans form the tree of their blocks, an emission that fails leaves the     *)
(* host and the other records alone, and configure leaves a pipeline that is  *)
(* heard, with one handler.                                                   *)
(***************************************************************************)
EXTENDS Checkpoint, Spans, SequenceTheorems, FiniteSetTheorems, WellFoundedInduction, TLAPS

-----------------------------------------------------------------------------
\* The cached configuration, as Checkpoint and Spans ask it: while no set runs, a
\* lookup that began after the last clearing holds what the rows say, once it
\* has found it, and has not passed over a row of its own.
LookOk(l) ==
    /\ l = [pc |-> l.pc, key |-> l.key, value |-> l.value]
    /\ l.pc \in {"idle", "tenant", "global", "fill", "found"}
    /\ l.key \in Keys
    /\ l.pc \in {"fill", "found"} => l.value \in Values

ConfigShape ==
    /\ confRows = [k \in Keys |-> confRows[k]]
    /\ \A k \in Keys : confRows[k] \in Seq(Values)
    /\ confCache \in [Keys -> {"unfilled"} \union Values]
    /\ look = [t \in Lookers |-> look[t]] /\ \A t \in Lookers : LookOk(look[t])
    /\ raced \subseteq Keys
    /\ set = [e \in Setters |-> set[e]]
    /\ \A e \in Setters : set[e] = [pc |-> set[e].pc, found |-> set[e].found]

Fresh(l) ==
    /\ l.pc = "fill" => l.value = RowsSay(l.key)
    /\ l.pc = "global" => l.key = Global \/ FirstRow(l.key) = "unset"

ConfigFresh ==
    Committing = {} =>
        /\ \A k \in Keys \ raced : confCache[k] # "unfilled" => confCache[k] = RowsSay(k)
        /\ \A t \in Lookers : look[t].key \notin raced => Fresh(look[t])

ConfigIInv == ConfigShape /\ ConfigFresh

-----------------------------------------------------------------------------
\* The cached configuration, step by step.
LEMMA FirstRowIs ==
    ASSUME ConfigShape, NEW k \in Keys
    PROVE  FirstRow(k) = "unset" \/ FirstRow(k) \in Values
  BY DEF ConfigShape, FirstRow

LEMMA GlobalIsKey == Global \in Keys
  BY DEF Keys

LEMMA DefaultIsValue == Default \in Values
  BY DEF Values

LEMMA LookRecordOk ==
    ASSUME NEW p \in {"tenant", "global", "fill", "found"}, NEW k \in Keys, NEW v,
           p \in {"fill", "found"} => v \in Values
    PROVE  LookOk([pc |-> p, key |-> k, value |-> v])
  BY DEF LookOk

\* A lookup moves on, and nothing but its own state changes.
LEMMA LookMoves ==
    ASSUME ConfigIInv, NEW t \in Lookers, NEW l, LookOk(l),
           Committing = {} /\ l.key \notin raced => Fresh(l),
           look' = [look EXCEPT ![t] = l],
           UNCHANGED <<confRows, confCache, set, raced>>
    PROVE  ConfigIInv'
  <1>1. /\ look' = [u \in Lookers |-> look'[u]] /\ look'[t] = l
        /\ \A u \in Lookers : u # t => look'[u] = look[u]
    BY DEF ConfigIInv, ConfigShape
  <1>2. \A x : LookOk(x)' <=> LookOk(x)
    BY DEF LookOk
  <1>3. \A u \in Lookers : LookOk(look'[u])
    BY <1>1 DEF ConfigIInv, ConfigShape
  <1>4. ConfigShape'
    <2>1. \A u \in Lookers : LookOk(look[u])'
      BY <1>3 DEF LookOk
    <2>. QED
      BY <1>1, <2>1 DEF ConfigIInv, ConfigShape
  <1>5. ConfigFresh'
    <2>. SUFFICES ASSUME Committing' = {} PROVE ConfigFresh'
      BY DEF ConfigFresh
    <2>1. Committing = {}
      BY DEF Committing
    <2>2. \A k : FirstRow(k)' = FirstRow(k) /\ RowsSay(k)' = RowsSay(k)
      BY DEF FirstRow, RowsSay
    <2>3. ASSUME NEW u \in Lookers, look'[u].key \notin raced'
          PROVE  Fresh(look'[u])
      <3>1. CASE u = t
        BY <1>1, <2>1, <2>3, <3>1
      <3>2. CASE u # t
        BY <1>1, <2>1, <2>3, <3>2 DEF ConfigIInv, ConfigFresh
      <3>. QED
        BY <3>1, <3>2
    <2>4. ASSUME NEW u \in Lookers, look'[u].key \notin raced'
          PROVE  Fresh(look[u])'
      BY <2>2, <2>3, <2>4 DEF Fresh
    <2>5. \A k \in Keys \ raced' : confCache'[k] # "unfilled" => confCache'[k] = RowsSay(k)'
      BY <2>1, <2>2 DEF ConfigIInv, ConfigFresh
    <2>. QED
      BY <2>4, <2>5 DEF ConfigFresh
  <1>. QED
    BY <1>4, <1>5 DEF ConfigIInv

LEMMA BeginLookupKeeps ==
    ASSUME ConfigIInv, NEW t \in Lookers, NEW k \in Keys, BeginLookup(t, k)
    PROVE  ConfigIInv'
  <1>. DEFINE l == IF confCache[k] # "unfilled"
                   THEN [pc |-> "found", key |-> k, value |-> confCache[k]]
                   ELSE [pc |-> IF k = Global THEN "global" ELSE "tenant", key |-> k,
                         value |-> "unset"]
  <1>1. look' = [look EXCEPT ![t] = l] /\ UNCHANGED <<confRows, confCache, set, raced>>
    BY DEF BeginLookup
  <1>2. LookOk(l)
    BY DEF LookOk, ConfigIInv, ConfigShape
  <1>3. Fresh(l)
    BY DEF Fresh
  <1>. HIDE DEF l
  <1>. QED
    BY <1>1, <1>2, <1>3, LookMoves

LEMMA SelectTenantRowKeeps ==
    ASSUME ConfigIInv, NEW t \in Lookers, SelectTenantRow(t)
    PROVE  ConfigIInv'
  <1>. DEFINE k == look[t].key
              v == FirstRow(k)
              p == IF v = "unset" THEN "global" ELSE "fill"
              l == [pc |-> p, key |-> k, value |-> v]
  <1>1. look' = [look EXCEPT ![t] = l] /\ UNCHANGED <<confRows, confCache, set, raced>>
    BY DEF SelectTenantRow
  <1>2. k \in Keys
    BY DEF ConfigIInv, ConfigShape, LookOk
  <1>3. Fresh(l)
    BY DEF Fresh, RowsSay
  <1>4. v = "unset" \/ v \in Values
    BY <1>2, FirstRowIs DEF ConfigIInv
  <1>5. /\ p \in {"tenant", "global", "fill", "found"}
        /\ p \in {"fill", "found"} => v \in Values
    BY <1>4
  <1>. HIDE DEF k, v, p
  <1>6. LookOk(l)
    BY <1>2, <1>5, LookRecordOk
  <1>. HIDE DEF l
  <1>. QED
    BY <1>1, <1>3, <1>6, LookMoves

LEMMA SelectGlobalRowKeeps ==
    ASSUME ConfigIInv, NEW t \in Lookers, SelectGlobalRow(t)
    PROVE  ConfigIInv'
  <1>. DEFINE k == look[t].key
              v == IF FirstRow(Global) = "unset" THEN Default ELSE FirstRow(Global)
              l == [pc |-> "fill", key |-> k, value |-> v]
  <1>1. look' = [look EXCEPT ![t] = l] /\ UNCHANGED <<confRows, confCache, set, raced>>
    BY DEF SelectGlobalRow
  <1>2. k \in Keys /\ look[t].pc = "global"
    BY DEF ConfigIInv, ConfigShape, LookOk, SelectGlobalRow
  <1>3. ASSUME Committing = {}, k \notin raced PROVE Fresh(l)
    <2>1. k = Global \/ FirstRow(k) = "unset"
      BY <1>2, <1>3 DEF ConfigIInv, ConfigFresh, Fresh
    <2>. QED
      BY <2>1 DEF Fresh, RowsSay
  <1>4. v \in Values
    BY FirstRowIs, GlobalIsKey, DefaultIsValue DEF ConfigIInv
  <1>. HIDE DEF k, v
  <1>5. LookOk(l) /\ l.key = k
    BY <1>2, <1>4, LookRecordOk
  <1>. HIDE DEF l
  <1>. QED
    BY <1>1, <1>3, <1>5, LookMoves

LEMMA EndLookupKeeps ==
    ASSUME ConfigIInv, NEW t \in Lookers, EndLookup(t)
    PROVE  ConfigIInv'
  <1>1. LookOk(LookIdle) /\ Fresh(LookIdle)
    BY GlobalIsKey DEF LookOk, Fresh, LookIdle
  <1>. QED
    BY <1>1, LookMoves DEF EndLookup

LEMMA FillCacheKeeps ==
    ASSUME ConfigIInv, NEW t \in Lookers, FillCache(t)
    PROVE  ConfigIInv'
  <1>. DEFINE k == look[t].key
              x == look[t].value
              l == [look[t] EXCEPT !.pc = "found"]
  <1>1. /\ look[t] = [pc |-> look[t].pc, key |-> k, value |-> x] /\ k \in Keys
        /\ look[t].pc = "fill" /\ x \in Values
    BY DEF ConfigIInv, ConfigShape, LookOk, FillCache
  <1>2. /\ look' = [look EXCEPT ![t] = l] /\ UNCHANGED <<confRows, set, raced>>
        /\ confCache' = [confCache EXCEPT ![k] = x]
    BY DEF FillCache
  <1>3. LookOk(l) /\ Fresh(l)
    BY <1>1 DEF LookOk, Fresh
  <1>4. ASSUME Committing = {}, k \notin raced PROVE x = RowsSay(k)
    BY <1>1, <1>4 DEF ConfigIInv, ConfigFresh, Fresh
  <1>. HIDE DEF l, k, x
  <1>5. /\ look' = [u \in Lookers |-> look'[u]] /\ look'[t] = l
        /\ \A u \in Lookers : u # t => look'[u] = look[u]
    BY <1>2 DEF ConfigIInv, ConfigShape
  <1>6. ConfigShape'
    <2>1. confCache' \in [Keys -> {"unfilled"} \union Values]
      BY <1>1, <1>2 DEF ConfigIInv, ConfigShape
    <2>2. \A u \in Lookers : LookOk(look[u])'
      BY <1>3, <1>5 DEF ConfigIInv, ConfigShape, LookOk
    <2>. QED
      BY <1>2, <1>5, <2>1, <2>2 DEF ConfigIInv, ConfigShape
  <1>7. ConfigFresh'
    <2>. SUFFICES ASSUME Committing' = {} PROVE ConfigFresh'
      BY DEF ConfigFresh
    <2>1. Committing = {}
      BY <1>2 DEF Committing
    <2>2. \A j : FirstRow(j)' = FirstRow(j) /\ RowsSay(j)' = RowsSay(j)
      BY <1>2 DEF FirstRow, RowsSay
    <2>3. ASSUME NEW u \in Lookers, look'[u].key \notin raced' PROVE Fresh(look[u])'
      <3>1. Fresh(look'[u])
        BY <1>2, <1>3, <1>5, <2>1, <2>3 DEF ConfigIInv, ConfigFresh
      <3>. QED
        BY <2>2, <3>1 DEF Fresh
    <2>4. ASSUME NEW j \in Keys \ raced', confCache'[j] # "unfilled"
          PROVE  confCache'[j] = RowsSay(j)'
      <3>1. CASE j = k
        BY <1>1, <1>2, <1>4, <2>1, <2>2, <3>1 DEF ConfigIInv, ConfigShape
      <3>2. CASE j # k
        BY <1>2, <2>1, <2>2, <2>4, <3>2 DEF ConfigIInv, ConfigShape, ConfigFresh
      <3>. QED
        BY <3>1, <3>2
    <2>. QED
      BY <2>3, <2>4 DEF ConfigFresh
  <1>. QED
    BY <1>6, <1>7 DEF ConfigIInv

LEMMA SetConfigKeeps ==
    ASSUME ConfigIInv, NEW e \in Setters, SetConfig(e)
    PROVE  ConfigIInv'
  <1>0. set[e] = [pc |-> set[e].pc, found |-> set[e].found]
    BY DEF ConfigIInv, ConfigShape
  <1>1. CASE SelectRow(e)
    <2>. DEFINE x == [pc |-> "commit", found |-> FirstRow(KeySet[e]) # "unset"]
    <2>1. set' = [set EXCEPT ![e] = x] /\ UNCHANGED <<confRows, confCache, look, raced>>
      BY <1>1 DEF SelectRow
    <2>2. x = [pc |-> x.pc, found |-> x.found] /\ x.pc = "commit"
      OBVIOUS
    <2>. HIDE DEF x
    <2>3. e \in Committing'
      BY <2>1, <2>2 DEF Committing, ConfigIInv, ConfigShape
    <2>4. ConfigShape'
      BY <2>1, <2>2 DEF ConfigIInv, ConfigShape, LookOk
    <2>. QED
      BY <2>3, <2>4 DEF ConfigIInv, ConfigFresh
  <1>2. CASE CommitRow(e)
    <2>. DEFINE k == KeySet[e]
                rs == IF set[e].found THEN [confRows[k] EXCEPT ![1] = ValueSet[e]]
                      ELSE Append(confRows[k], ValueSet[e])
                x == [set[e] EXCEPT !.pc = "clear"]
    <2>1. /\ set' = [set EXCEPT ![e] = x] /\ UNCHANGED <<confCache, look, raced>>
          /\ confRows' = [confRows EXCEPT ![k] = rs]
      BY <1>2 DEF CommitRow
    <2>2. x = [pc |-> x.pc, found |-> x.found] /\ x.pc = "clear"
      BY <1>0
    <2>3. ASSUME k \in Keys PROVE rs \in Seq(Values)
      <3>1. confRows[k] \in Seq(Values) /\ ValueSet[e] \in Values
        BY <2>3 DEF ConfigIInv, ConfigShape, Values
      <3>2. Append(confRows[k], ValueSet[e]) \in Seq(Values)
        BY <3>1
      <3>3. [confRows[k] EXCEPT ![1] = ValueSet[e]] \in Seq(Values)
        <4>1. PICK q \in Seq(Values), y \in Values : q = confRows[k] /\ y = ValueSet[e]
          BY <3>1
        <4>2. CASE q = << >>
          <5>1. PICK z : z = [q EXCEPT ![1] = y]
            OBVIOUS
          <5>2. DOMAIN z = {} /\ z = [i \in DOMAIN z |-> z[i]]
            BY <4>2, <5>1
          <5>3. z = << >>
            BY <5>2
          <5>4. << >> \in Seq(Values)
            OBVIOUS
          <5>. QED
            BY <4>1, <5>1, <5>3, <5>4
        <4>3. CASE q # << >>
          <5>1. 1 \in 1..Len(q)
            BY <4>3
          <5>2. [q EXCEPT ![1] = y] \in Seq(Values)
            BY <5>1, ExceptSeq
          <5>. QED
            BY <4>1, <5>2
        <4>. QED
          BY <4>2, <4>3
      <3>. QED
        BY <3>2, <3>3
    <2>. HIDE DEF x, rs, k
    <2>4. e \in Committing'
      BY <2>1, <2>2 DEF Committing, ConfigIInv, ConfigShape
    <2>5. ConfigShape'
      <3>1. /\ confRows' = [j \in Keys |-> confRows'[j]]
            /\ \A j \in Keys : confRows'[j] \in Seq(Values)
        BY <2>1, <2>3 DEF ConfigIInv, ConfigShape
      <3>. QED
        BY <2>1, <2>2, <3>1 DEF ConfigIInv, ConfigShape, LookOk
    <2>. QED
      BY <2>4, <2>5 DEF ConfigIInv, ConfigFresh
  <1>3. CASE ClearCache(e)
    <2>. DEFINE x == [set[e] EXCEPT !.pc = "returned"]
    <2>1. /\ set' = [set EXCEPT ![e] = x] /\ UNCHANGED <<confRows, look>>
          /\ confCache' = [k \in Keys |-> "unfilled"]
          /\ raced' = {look[t].key : t \in Looking}
      BY <1>3 DEF ClearCache
    <2>2. x = [pc |-> x.pc, found |-> x.found]
      BY <1>0
    <2>. HIDE DEF x
    <2>3. ConfigShape'
      <3>1. raced' \subseteq Keys
        BY <2>1 DEF Looking, ConfigIInv, ConfigShape, LookOk
      <3>2. confCache' \in [Keys -> {"unfilled"} \union Values]
        BY <2>1
      <3>. QED
        BY <2>1, <2>2, <3>1, <3>2 DEF ConfigIInv, ConfigShape, LookOk
    <2>4. ConfigFresh'
      <3>1. ASSUME NEW t \in Lookers, look'[t].key \notin raced' PROVE Fresh(look[t])'
        <4>1. t \notin Looking
          BY <2>1, <3>1
        <4>2. look'[t].pc \notin {"fill", "global"}
          BY <2>1, <4>1 DEF Looking
        <4>. QED
          BY <4>2 DEF Fresh
      <3>2. \A k \in Keys : confCache'[k] = "unfilled"
        BY <2>1
      <3>. QED
        BY <3>1, <3>2 DEF ConfigFresh
    <2>. QED
      BY <2>3, <2>4 DEF ConfigIInv
  <1>. QED
    BY <1>1, <1>2, <1>3 DEF SetConfig

LEMMA ConfigInitHolds == ConfigInit => ConfigIInv
  <1>. SUFFICES ASSUME ConfigInit PROVE ConfigIInv
    OBVIOUS
  <1>1. LookOk(LookIdle) /\ Fresh(LookIdle)
    BY GlobalIsKey DEF LookOk, Fresh, LookIdle
  <1>2. ConfigShape
    BY <1>1 DEF ConfigShape, ConfigInit
  <1>3. ConfigFresh
    BY <1>1 DEF ConfigFresh, ConfigInit
  <1>. QED
    BY <1>2, <1>3 DEF ConfigIInv

LEMMA ConfigStays ==
    ASSUME ConfigIInv, UNCHANGED confVars
    PROVE  ConfigIInv'
  BY DEF ConfigIInv, ConfigShape, ConfigFresh, Fresh, FirstRow, RowsSay, LookOk, Committing,
         confVars

-----------------------------------------------------------------------------
\* The checkpoints.
\* Bounds and streams: a checkpoint's row names a file of its own stream and
\* version, under one of the configured directories, and a file holds its
\* version's snapshot, whole or not at all, of a stream with that directory.
Bounds ==
    /\ scope \in Scopes
    /\ failures \in 0..scope.failures /\ restarts \in 0..scope.restarts

Reached(s, n) == n = 0 \/ \E v \in Registered(s) : n <= v

StreamOk(s) ==
    /\ last[s] \in 0..MaxVersion
    /\ Registered(s) \subseteq 1..last[s]
    /\ \A v \in Registered(s) : \E c \in Values : checkpoints[s][v] = FilePath(c, s, v)
    /\ cache[s] # Unset => cache[s] \in 0..MaxVersion /\ Reached(s, cache[s])

FilesOk ==
    \A s \in Streams, c \in Values, v \in 1..MaxVersion :
        file[FilePath(c, s, v)] \in
            {NoFile, Partial} \union {Whole(Rows(u, 1, v)) : u \in Sharing(s)}

StreamsOk ==
    /\ last = [s \in Streams |-> last[s]]
    /\ checkpoints = [s \in Streams |-> checkpoints[s]]
    /\ cache = [s \in Streams |-> cache[s]]
    /\ file = [f \in Files |-> file[f]]
    /\ \A s \in Streams : StreamOk(s)

\* Threads: what each has seen is no more than was registered, and its snapshot
\* is of its own version or a later one.
Places == Compacting \union {"idle", "config", "check", "load", "fill", "register", "start",
                             "advance", "done"}

ThreadOk(t) ==
    LET th == thread[t] IN
    /\ th = [pc |-> th.pc, seen |-> th.seen, snapshot |-> th.snapshot]
    /\ th.pc \in Places
    /\ th.seen \in 0..MaxVersion /\ th.snapshot \in 0..last[t[1]]
    /\ th.pc # "idle" => t[2] <= last[t[1]]
    /\ th.pc = "fill" => Reached(t[1], th.seen)
    /\ th.pc \in {"lookup", "dir", "open", "close", "insert"} => t[2] <= th.snapshot
    /\ th.pc \in {"close", "insert"} => look[t].pc = "found"
    /\ th.pc \in {"refresh", "advance"} => Reached(t[1], t[2])

ThreadsOk == thread = [t \in Threads |-> thread[t]] /\ \A t \in Threads : ThreadOk(t)

\* Reads: the rows of a stream that is alone in its directory are its own.
ReaderOk(r) ==
    LET rd == reader[r] IN
    /\ rd = [pc |-> rd.pc, stream |-> rd.stream, target |-> rd.target, floor |-> rd.floor,
             base |-> rd.base, rows |-> rd.rows]
    /\ rd.pc \in {"idle", "load", "tail", "done", "error", "gone"}
    /\ rd.pc \in {"load", "tail", "done"} =>
          /\ rd.stream \in Streams /\ rd.target \in Nat /\ rd.floor \in Nat
          /\ rd.floor <= last[rd.stream] /\ rd.floor <= rd.target
    /\ rd.pc = "load" => rd.base \in Registered(rd.stream) /\ rd.base <= rd.target
    /\ rd.pc = "tail" => /\ rd.base \in 0..last[rd.stream] /\ rd.base <= rd.target
                         /\ Alone(rd.stream) => rd.rows = Rows(rd.stream, 1, rd.base)
    /\ rd.pc = "done" /\ Alone(rd.stream) =>
                         \E k \in 0..last[rd.stream] : /\ rd.floor <= k /\ k <= rd.target
                                                     /\ rd.rows = Rows(rd.stream, 1, k)

ReadersOk == reader = [r \in Readers |-> reader[r]] /\ \A r \in Readers : ReaderOk(r)

\* Waits: every compaction in flight is on the list, or was taken off it by a
\* wait, and a wait has joined what it took and was not late for.
Over(t) == thread[t].pc = "done"
Running == Compacting \union {"start", "advance"}

WaitOk(w) ==
    LET wt == wait[w] IN
    /\ wt = [pc |-> wt.pc, left |-> wt.left, took |-> wt.took, owed |-> wt.owed,
             late |-> wt.late]
    /\ wt.owed \subseteq {t \in Threads : thread[t].pc \in Running \union {"done"}}
    /\ wt.pc = "idle" => wt.owed = {} /\ wt.took = {}
    /\ wt.pc = "returned" => wt.left = {}
    /\ wt.pc \in {"joining", "returned"} =>
          \A t \in wt.owed \ wt.late :
              Over(t) \/ t \in wt.left \/ \E u \in Waits \ {w} : t \in wait[u].took

WaitsOk ==
    /\ wait = [w \in Waits |-> wait[w]] /\ \A w \in Waits : WaitOk(w)
    /\ \A t \in InFlight : t \in pending \/ \E u \in Waits : t \in wait[u].took

\* Where a thread is that has registered its checkpoint, unless it failed.
Landed == {"refresh", "advance", "done"}

\* As long as nothing fails: a torn file is being written, and what is about to
\* be registered has been written.
Unharmed ==
    failures + restarts = 0 =>
        /\ \A f \in Files : file[f] = Partial =>
              \E t \in Threads : thread[t].pc = "close" /\ Path(t) = f
        /\ \A t \in Threads : thread[t].pc = "insert" => file[Path(t)] # NoFile
        /\ \A s \in Streams : \A v \in Registered(s) :
              /\ file[checkpoints[s][v]] # NoFile
              /\ \E x \in 1..v : thread[<<s, x>>].pc \in Landed

IInv ==
    /\ ConfigIInv /\ Bounds /\ StreamsOk /\ FilesOk
    /\ ThreadsOk /\ ReadersOk /\ WaitsOk /\ Unharmed

-----------------------------------------------------------------------------
\* Induction over the numbers in a set, from the library's well-foundedness of <.
LEMMA LeastNumber ==
    ASSUME NEW T, T \subseteq Nat, T # {}
    PROVE  \E x \in T : \A y \in T : x <= y
  <1>. DEFINE R == OpToRel(<, Nat)
  <1>1. IsWellFoundedOn(R, Nat)
    BY NatLessThanWellFounded
  <1>. HIDE DEF R
  <1>2. PICK x \in T : \A y \in T : <<y, x>> \notin R
    BY <1>1, WFMin
  <1>3. \A y \in T : ~(y < x)
    BY <1>2 DEF R, OpToRel
  <1>. QED
    BY <1>2, <1>3

LEMMA EveryNumber ==
    ASSUME NEW S, 0 \in S, \A n \in Nat : n \in S => n + 1 \in S
    PROVE  \A n \in Nat : n \in S
  <1>. DEFINE T == Nat \ S
  <1>. SUFFICES ASSUME T # {} PROVE FALSE
    OBVIOUS
  <1>1. PICK x \in T : \A y \in T : x <= y
    BY LeastNumber
  <1>2. x # 0 /\ x - 1 \in Nat
    BY <1>1
  <1>3. x - 1 \in S
    BY <1>1, <1>2
  <1>. QED
    BY <1>2, <1>3

\* A set of numbers that stops somewhere has a largest one.
LEMMA GreatestNumber ==
    ASSUME NEW n \in Nat, NEW T, T \subseteq 0..n, T # {}
    PROVE  Max(T) \in T /\ \A y \in T : y <= Max(T)
  <1>. DEFINE D == {d \in Nat : n - d \in T}
  <1>1. \A x \in T : x \in 0..n /\ n - x \in D
    <2>. SUFFICES ASSUME NEW x \in T PROVE x \in 0..n /\ n - x \in D
      OBVIOUS
    <2>1. x \in 0..n
      OBVIOUS
    <2>2. n - x \in Nat /\ n - (n - x) = x
      BY <2>1
    <2>. QED
      BY <2>1, <2>2
  <1>2. D \subseteq Nat /\ D # {}
    BY <1>1
  <1>3. PICK d \in D : \A y \in D : d <= y
    BY <1>2, LeastNumber
  <1>4. ASSUME NEW y \in T PROVE n - d >= y
    <2>1. y \in 0..n /\ d <= n - y /\ d \in Nat
      BY <1>1, <1>3
    <2>. QED
      BY <2>1
  <1>5. \E z \in T : \A y \in T : z >= y
    BY <1>3, <1>4
  <1>6. Max(T) \in T /\ \A y \in T : Max(T) >= y
    BY <1>5 DEF Max
  <1>7. ASSUME NEW y \in T PROVE y <= Max(T)
    <2>1. y \in 0..n /\ Max(T) \in 0..n /\ Max(T) >= y
      BY <1>1, <1>6
    <2>. QED
      BY <2>1
  <1>. QED
    BY <1>6, <1>7

LEMMA MinIs ==
    ASSUME NEW a \in Nat, NEW b \in Nat
    PROVE  Min({a, b}) = IF a <= b THEN a ELSE b
  BY DEF Min

-----------------------------------------------------------------------------
\* Rows of a stream, joined, sorted and filtered.
LEMMA RowsFromOne ==
    ASSUME NEW s, NEW k \in Nat
    PROVE  /\ Rows(s, 1, k) = [i \in 1..k |-> <<s, i>>]
           /\ Rows(s, 1, k) \in Seq({s} \X Nat) /\ Len(Rows(s, 1, k)) = k
  <1>1. /\ k + 1 - 1 = k
        /\ \A i \in 1..k : 1 + i - 1 = i
    OBVIOUS
  <1>2. Rows(s, 1, k) = [i \in 1..k |-> <<s, i>>]
    BY <1>1 DEF Rows
  <1>3. [i \in 1..k |-> <<s, i>>] \in Seq({s} \X Nat)
    OBVIOUS
  <1>4. Len([i \in 1..k |-> <<s, i>>]) = k
    OBVIOUS
  <1>. QED
    BY <1>2, <1>3, <1>4

LEMMA RowsJoined ==
    ASSUME NEW s, NEW b \in Nat, NEW k \in Nat, b <= k
    PROVE  Rows(s, 1, b) \o Rows(s, b + 1, k) = Rows(s, 1, k)
  <1>. DEFINE q == Rows(s, 1, b)
              t == Rows(s, b + 1, k)
  <1>1. q \in Seq({s} \X Nat) /\ Len(q) = b /\ q = [i \in 1..b |-> <<s, i>>]
    BY RowsFromOne
  <1>2. t = [i \in 1..(k - b) |-> <<s, b + i>>]
    <2>1. k + 1 - (b + 1) = k - b /\ \A i \in 1..(k - b) : b + 1 + i - 1 = b + i
      OBVIOUS
    <2>. QED
      BY <2>1 DEF Rows
  <1>3. t \in Seq({s} \X Nat) /\ Len(t) = k - b
    <2>1. k - b \in Nat
      OBVIOUS
    <2>. QED
      BY <1>2, <2>1
  <1>. HIDE DEF q, t
  <1>4. q \o t = [i \in 1..(b + (k - b)) |-> IF i <= b THEN q[i] ELSE t[i - b]]
    BY <1>1, <1>3
  <1>5. \A i \in 1..k : (IF i <= b THEN q[i] ELSE t[i - b]) = <<s, i>>
    BY <1>1, <1>2
  <1>6. q \o t = [i \in 1..k |-> <<s, i>>]
    BY <1>4, <1>5
  <1>. QED
    BY <1>6, RowsFromOne DEF q, t

\* A monotone permutation moves nothing.
LEMMA MonotoneIsIdentity ==
    ASSUME NEW n \in Nat, NEW p \in [1..n -> 1..n],
           \A i, j \in 1..n : i < j => p[i] < p[j]
    PROVE  \A i \in 1..n : p[i] = i
  <1>. DEFINE S == {m \in Nat : m + 1 <= n => m + 1 <= p[m + 1]}
              D == {m \in Nat : m < n => p[n - m] <= n - m}
  <1>1. 0 \in S
    <2>1. 1 <= n => p[1] \in 1..n
      OBVIOUS
    <2>. QED
      BY <2>1
  <1>2. ASSUME NEW m \in Nat, m \in S PROVE m + 1 \in S
    <2>. SUFFICES ASSUME m + 2 <= n PROVE m + 2 <= p[m + 2]
      OBVIOUS
    <2>1. m + 1 \in 1..n /\ m + 2 \in 1..n /\ m + 1 < m + 2
      OBVIOUS
    <2>2. p[m + 1] < p[m + 2] /\ p[m + 1] \in Nat /\ p[m + 2] \in Nat
      BY <2>1
    <2>3. m + 1 <= p[m + 1]
      BY <1>2, <2>1
    <2>. QED
      BY <2>2, <2>3
  <1>3. 0 \in D
    <2>1. 0 < n => p[n] \in 1..n
      OBVIOUS
    <2>. QED
      BY <2>1
  <1>4. ASSUME NEW m \in Nat, m \in D PROVE m + 1 \in D
    <2>. SUFFICES ASSUME m + 1 < n PROVE p[n - (m + 1)] <= n - (m + 1)
      OBVIOUS
    <2>1. n - m \in 1..n /\ n - (m + 1) \in 1..n /\ n - (m + 1) < n - m
      OBVIOUS
    <2>2. p[n - (m + 1)] < p[n - m] /\ p[n - (m + 1)] \in Nat /\ p[n - m] \in Nat
      BY <2>1
    <2>3. p[n - m] <= n - m
      BY <1>4
    <2>. QED
      BY <2>2, <2>3
  <1>. HIDE DEF S, D
  <1>5. \A m \in Nat : m \in S /\ m \in D
    BY <1>1, <1>2, <1>3, <1>4, EveryNumber
  <1>6. ASSUME NEW i \in 1..n PROVE p[i] = i
    <2>1. i - 1 \in S /\ n - i \in D
      BY <1>5
    <2>2. i <= p[i]
      <3>1. (i - 1) + 1 = i
        OBVIOUS
      <3>. QED
        BY <2>1, <3>1 DEF S
    <2>3. p[i] <= i
      <3>1. n - (n - i) = i /\ n - i < n
        OBVIOUS
      <3>. QED
        BY <2>1, <3>1 DEF D
    <2>4. p[i] \in Nat
      OBVIOUS
    <2>. QED
      BY <2>2, <2>3, <2>4
  <1>. QED
    BY <1>6

\* The sort leaves rows in version order as they are.
LEMMA SortedStays ==
    ASSUME NEW s, NEW k \in Nat
    PROVE  SortByVersion(Rows(s, 1, k)) = Rows(s, 1, k)
  <1>. DEFINE q == Rows(s, 1, k)
              Follows(p) == \A i, j \in 1..k : i < j => q[p[i]][2] <= q[p[j]][2]
              id == [i \in 1..k |-> i]
              order == CHOOSE p \in Bijection(1..k, 1..k) : Follows(p)
  <1>1. q = [i \in 1..k |-> <<s, i>>] /\ DOMAIN q = 1..k /\ \A i \in 1..k : q[i][2] = i
    <2>1. q = [i \in 1..k |-> <<s, i>>]
      BY RowsFromOne
    <2>. HIDE DEF q
    <2>. QED
      BY <2>1
  <1>. HIDE DEF q
  <1>2. id \in Bijection(1..k, 1..k)
    BY DEF Bijection, Injection, Surjection, IsInjective
  <1>3. Follows(id)
    BY <1>1
  <1>. HIDE DEF id
  <1>4. order \in Bijection(1..k, 1..k) /\ Follows(order)
    BY <1>2, <1>3
  <1>5. SortByVersion(q) = [i \in 1..k |-> q[order[i]]]
    BY <1>1 DEF SortByVersion
  <1>. HIDE DEF order
  <1>6. order \in [1..k -> 1..k] /\ \A i, j \in 1..k : order[i] = order[j] => i = j
    BY <1>4 DEF Bijection, Injection, IsInjective
  <1>7. ASSUME NEW i \in 1..k, NEW j \in 1..k, i < j PROVE order[i] < order[j]
    <2>1. order[i] \in 1..k /\ order[j] \in 1..k /\ order[i] # order[j]
      BY <1>6, <1>7
    <2>2. q[order[i]][2] <= q[order[j]][2]
      BY <1>4, <1>7
    <2>. QED
      BY <1>1, <2>1, <2>2
  <1>8. \A i \in 1..k : order[i] = i
    BY <1>6, <1>7, MonotoneIsIdentity
  <1>9. SortByVersion(q) = q
    BY <1>1, <1>5, <1>8
  <1>. QED
    BY <1>9 DEF q

\* A filter of one tenant keeps every row of its stream.
LEMMA FilterKeeps ==
    ASSUME NEW s, NEW k \in Nat, NEW tenant \in {Unset, TenantOf[s]}
    PROVE  RowsOf(tenant, Rows(s, 1, k)) = Rows(s, 1, k)
  <1>. DEFINE q == Rows(s, 1, k)
              R(f) == [i \in 0..Len(q) |->
                          IF i = 0 THEN <<>>
                          ELSE IF tenant \in {Unset, TenantOf[q[i][1]]} THEN Append(f[i - 1], q[i])
                          ELSE f[i - 1]]
              f == [i \in 0..k |-> Rows(s, 1, i)]
  <1>1. q = [i \in 1..k |-> <<s, i>>] /\ Len(q) = k /\ \A i \in 1..k : q[i] = <<s, i>>
    BY RowsFromOne
  <1>. HIDE DEF q
  <1>2. ASSUME NEW i \in 1..k PROVE Append(Rows(s, 1, i - 1), <<s, i>>) = Rows(s, 1, i)
    <2>1. i - 1 \in Nat /\ i \in Nat /\ (i - 1) + 1 = i
      OBVIOUS
    <2>. DEFINE t == Rows(s, 1, i - 1)
    <2>2. t \in Seq({s} \X Nat) /\ Len(t) = i - 1 /\ t = [j \in 1..(i - 1) |-> <<s, j>>]
      BY <2>1, RowsFromOne
    <2>. HIDE DEF t
    <2>3. Append(t, <<s, i>>) =
              [j \in 1..((i - 1) + 1) |-> IF j = (i - 1) + 1 THEN <<s, i>> ELSE t[j]]
      BY <2>2
    <2>4. Append(t, <<s, i>>) = [j \in 1..i |-> <<s, j>>]
      BY <2>1, <2>2, <2>3
    <2>. QED
      BY <2>1, <2>4, RowsFromOne DEF t
  <1>3. f = R(f)
    <2>1. ASSUME NEW i \in 0..k
          PROVE  f[i] = IF i = 0 THEN <<>>
                        ELSE IF tenant \in {Unset, TenantOf[q[i][1]]} THEN Append(f[i - 1], q[i])
                        ELSE f[i - 1]
      <3>1. CASE i = 0
        <4>1. f[0] = [j \in 1..0 |-> <<s, j>>]
          <5>1. 0 \in 0..k /\ 0 \in Nat
            OBVIOUS
          <5>2. f[0] = Rows(s, 1, 0)
            BY <5>1
          <5>. QED
            BY <5>1, <5>2, RowsFromOne
        <4>2. [j \in 1..0 |-> <<s, j>>] = <<>>
          OBVIOUS
        <4>. QED
          BY <3>1, <4>1, <4>2
      <3>2. CASE i # 0
        <4>1. i \in 1..k /\ i - 1 \in 0..k
          BY <3>2
        <4>2. f[i] = Rows(s, 1, i) /\ f[i - 1] = Rows(s, 1, i - 1)
          BY <4>1
        <4>3. tenant \in {Unset, TenantOf[q[i][1]]} /\ q[i] = <<s, i>>
          BY <1>1, <4>1
        <4>. QED
          BY <1>2, <3>2, <4>1, <4>2, <4>3
      <3>. QED
        BY <3>1, <3>2
    <2>. HIDE DEF f
    <2>2. f = [i \in 0..k |-> f[i]]
      BY DEF f
    <2>. QED
      BY <1>1, <2>1, <2>2
  <1>4. RowsOf(tenant, q) = (CHOOSE g : g = R(g))[k]
    BY <1>1 DEF RowsOf
  <1>. DEFINE c == CHOOSE g : g = R(g)
  <1>. HIDE DEF f
  <1>5. c = R(c)
    BY <1>3
  <1>6. PICK g : g = c
    OBVIOUS
  <1>7. g = R(g)
    BY <1>5, <1>6
  <1>. HIDE DEF c
  <1>8. /\ g[0] = <<>>
        /\ \A i \in 1..k : g[i] = IF tenant \in {Unset, TenantOf[q[i][1]]}
                                  THEN Append(g[i - 1], q[i]) ELSE g[i - 1]
    <2>1. 0 \in 0..Len(q) /\ \A i \in 1..k : i \in 0..Len(q) /\ i # 0
      BY <1>1
    <2>2. g[0] = <<>>
      BY <1>7, <2>1
    <2>3. ASSUME NEW i \in 1..k
          PROVE  g[i] = IF tenant \in {Unset, TenantOf[q[i][1]]}
                        THEN Append(g[i - 1], q[i]) ELSE g[i - 1]
      BY <1>7, <2>1
    <2>. QED
      BY <2>2, <2>3
  <1>9. \A i \in 1..k : g[i] = Append(g[i - 1], <<s, i>>)
    BY <1>1, <1>8
  <1>. HIDE DEF R
  <1>. DEFINE S == {m \in Nat : m <= k => g[m] = Rows(s, 1, m)}
  <1>10. 0 \in S
    <2>1. Rows(s, 1, 0) = [j \in 1..0 |-> <<s, j>>]
      BY RowsFromOne
    <2>2. [j \in 1..0 |-> <<s, j>>] = <<>>
      OBVIOUS
    <2>. QED
      BY <1>8, <2>1, <2>2
  <1>11. ASSUME NEW m \in Nat, m \in S PROVE m + 1 \in S
    <2>. SUFFICES ASSUME m + 1 <= k PROVE g[m + 1] = Rows(s, 1, m + 1)
      OBVIOUS
    <2>1. m + 1 \in 1..k /\ (m + 1) - 1 = m /\ g[m] = Rows(s, 1, m)
      BY <1>11
    <2>2. g[m + 1] = Append(g[m], <<s, m + 1>>)
      BY <1>9, <2>1
    <2>3. Append(Rows(s, 1, m), <<s, m + 1>>) = Rows(s, 1, m + 1)
      BY <1>2, <2>1
    <2>. QED
      BY <2>1, <2>2, <2>3
  <1>. HIDE DEF S
  <1>12. k \in S
    BY <1>10, <1>11, EveryNumber
  <1>13. g[k] = q
    BY <1>12 DEF S, q
  <1>. QED
    BY <1>4, <1>6, <1>13 DEF c, q

-----------------------------------------------------------------------------
\* The parts of the invariant that a step leaves alone.
LEMMA ThreadIs ==
    ASSUME NEW s \in Streams, NEW v \in 1..MaxVersion
    PROVE  <<s, v>> \in Threads /\ <<s, v>> \in Lookers
  BY CheckpointAssumption DEF Threads

LEMMA ThreadParts ==
    ASSUME NEW t \in Threads
    PROVE  t[1] \in Streams /\ t[2] \in 1..MaxVersion /\ t = <<t[1], t[2]>>
  BY DEF Threads

LEMMA FileIs ==
    ASSUME NEW c \in Values, NEW s \in Streams, NEW v \in 1..MaxVersion
    PROVE  FilePath(c, s, v) \in Files
  BY DEF FilePath, Files

LEMMA ScopeIs ==
    ASSUME Bounds
    PROVE  /\ MaxVersion \in Nat /\ Unset \notin Nat
           /\ \A s \in Streams : scope.versions[s] \in 0..MaxVersion
           /\ scope.failures \in Nat /\ scope.restarts \in Nat
           /\ failures \in Nat /\ restarts \in Nat
  BY CheckpointAssumption DEF Bounds

LEMMA InitIInv == Init => IInv
  <1>. SUFFICES ASSUME Init PROVE IInv
    OBVIOUS
  <1>. USE DEF Init
  <1>1. Bounds
    BY CheckpointAssumption DEF Bounds
  <1>2. ConfigIInv
    BY ConfigInitHolds
  <1>3. StreamsOk
    BY CheckpointAssumption DEF StreamsOk, StreamOk, Registered
  <1>4. FilesOk
    BY FileIs DEF FilesOk
  <1>5. ThreadsOk
    BY ThreadParts, CheckpointAssumption DEF ThreadsOk, ThreadOk, At, Places
  <1>6. ReadersOk
    BY DEF ReadersOk, ReaderOk, Idle
  <1>7. WaitsOk
    BY DEF WaitsOk, WaitOk, InFlight, Compacting, At
  <1>8. Unharmed
    BY DEF Unharmed, NoFile, Partial, At, Registered
  <1>. QED
    BY <1>1, <1>2, <1>3, <1>4, <1>5, <1>6, <1>7, <1>8 DEF IInv

-----------------------------------------------------------------------------
\* Nothing is taken back: versions and registered checkpoints only come.
Grows ==
    \A s \in Streams :
        /\ last[s] <= last'[s]
        /\ Registered(s) \subseteq Registered(s)'
        /\ \A v \in Registered(s) : checkpoints'[s][v] = checkpoints[s][v]

LEMMA ReachedStays ==
    ASSUME Grows, NEW s \in Streams, NEW n, Reached(s, n)
    PROVE  Reached(s, n)'
  BY DEF Grows, Reached

LEMMA NothingTaken ==
    ASSUME StreamsOk, UNCHANGED <<last, checkpoints>>
    PROVE  Grows
  BY DEF Grows, Registered, StreamsOk, StreamOk

LEMMA ReadersStay ==
    ASSUME StreamsOk, StreamsOk', Grows, ReadersOk, reader' = reader
    PROVE  ReadersOk'
  <1>. SUFFICES ASSUME NEW r \in Readers PROVE ReaderOk(r)'
    BY DEF ReadersOk
  <1>. DEFINE rd == reader[r]
  <1>1. ReaderOk(r) /\ rd' = rd
    BY DEF ReadersOk
  <1>2. CASE rd.pc \in {"load", "tail", "done"}
    <2>1. rd.stream \in Streams
      BY <1>1, <1>2 DEF ReaderOk
    <2>2. /\ last[rd.stream] \in Nat /\ last'[rd.stream] \in Nat
          /\ last[rd.stream] <= last'[rd.stream]
          /\ Registered(rd.stream) \subseteq Registered(rd.stream)'
      BY <2>1, CheckpointAssumption DEF Grows, StreamsOk, StreamOk
    <2>3. 0..last[rd.stream] \subseteq 0..last'[rd.stream]
      BY <2>2
    <2>. QED
      BY <1>1, <2>1, <2>2, <2>3 DEF ReaderOk
  <1>3. CASE rd.pc \notin {"load", "tail", "done"}
    BY <1>1, <1>3 DEF ReaderOk
  <1>. QED
    BY <1>2, <1>3

LEMMA BoundsStay ==
    ASSUME Bounds, UNCHANGED bounds
    PROVE  Bounds'
  BY DEF Bounds, bounds

LEMMA FilesStay ==
    ASSUME FilesOk, UNCHANGED file
    PROVE  FilesOk'
  BY DEF FilesOk

LEMMA StreamsStay ==
    ASSUME StreamsOk, UNCHANGED <<last, checkpoints, cache, file>>
    PROVE  StreamsOk'
  BY DEF StreamsOk, StreamOk, Registered, Reached

LEMMA WaitsStay ==
    ASSUME WaitsOk, UNCHANGED <<wait, pending, thread>>
    PROVE  WaitsOk'
  BY DEF WaitsOk, WaitOk, InFlight, Over

\* One thread moves: the others keep their places and what they hold.
OthersStay(t) ==
    /\ thread' = [u \in Threads |-> thread'[u]]
    /\ \A u \in Threads \ {t} : thread'[u] = thread[u] /\ look'[u] = look[u]

LEMMA ThreadMoves ==
    ASSUME StreamsOk, StreamsOk', Grows, ThreadsOk, NEW t \in Threads, OthersStay(t),
           ThreadOk(t)'
    PROVE  ThreadsOk'
  <1>1. ASSUME NEW u \in Threads \ {t} PROVE ThreadOk(u)'
    <2>1. ThreadOk(u) /\ thread'[u] = thread[u] /\ look'[u] = look[u]
      BY DEF ThreadsOk, OthersStay
    <2>2. u[1] \in Streams /\ u[2] \in Nat
      BY ThreadParts
    <2>3. /\ last[u[1]] \in Nat /\ last'[u[1]] \in Nat /\ last[u[1]] <= last'[u[1]]
      BY <2>2, CheckpointAssumption DEF Grows, StreamsOk, StreamOk
    <2>4. \A n : Reached(u[1], n) => Reached(u[1], n)'
      BY <2>2, ReachedStays
    <2>5. \A n \in 0..last[u[1]] : n \in 0..last'[u[1]]
      BY <2>3
    <2>6. u[2] <= last[u[1]] => u[2] <= last'[u[1]]
      BY <2>2, <2>3
    <2>. QED
      BY <2>1, <2>4, <2>5, <2>6 DEF ThreadOk
  <1>. QED
    BY <1>1 DEF ThreadsOk, OthersStay

\* A thread's move leaves the waits honest if it keeps itself on the list.
LEMMA WaitsSee ==
    ASSUME WaitsOk, NEW t \in Threads, OthersStay(t), wait' = wait,
           pending \subseteq pending',
           t \in InFlight' => t \in InFlight \/ t \in pending',
           thread[t].pc \in Running => thread'[t].pc \in Running \union {"done"},
           thread[t].pc = "done" => thread'[t].pc = "done"
    PROVE  WaitsOk'
  <1>1. \A u \in Threads : Over(u) => Over(u)'
    BY DEF Over, OthersStay
  <1>2. \A u \in Threads : thread[u].pc \in Running \union {"done"}
                              => thread'[u].pc \in Running \union {"done"}
    BY DEF OthersStay, Running
  <1>3. ASSUME NEW w \in Waits PROVE WaitOk(w)'
    BY <1>1, <1>2 DEF WaitsOk, WaitOk
  <1>4. ASSUME NEW u \in InFlight'
        PROVE  u \in pending' \/ \E x \in Waits : u \in wait'[x].took
    <2>1. u \in Threads
      BY DEF InFlight
    <2>2. CASE u = t
      BY <2>2, <1>4 DEF WaitsOk
    <2>3. CASE u # t
      <3>1. u \in InFlight
        BY <1>4, <2>1, <2>3 DEF InFlight, OthersStay
      <3>. QED
        BY <3>1 DEF WaitsOk
    <2>. QED
      BY <2>2, <2>3
  <1>. QED
    BY <1>3, <1>4 DEF WaitsOk

\* Nor does a move disturb the files, unless it writes or registers one.
LEMMA HarmlessMove ==
    ASSUME Unharmed, StreamsOk, NEW t \in Threads, OthersStay(t),
           UNCHANGED <<file, checkpoints, failures, restarts>>,
           thread[t].pc # "close", thread'[t].pc # "insert",
           thread[t].pc \in Landed => thread'[t].pc \in Landed
    PROVE  Unharmed'
  <1>. SUFFICES ASSUME failures + restarts = 0 PROVE Unharmed'
    BY DEF Unharmed
  <1>1. \A u \in Threads \ {t} : Path(u)' = Path(u)
    BY DEF Path, Snapshot, OthersStay
  <1>2. ASSUME NEW f \in Files, file'[f] = Partial
        PROVE  \E u \in Threads : thread'[u].pc = "close" /\ Path(u)' = f
    <2>1. PICK u \in Threads : thread[u].pc = "close" /\ Path(u) = f
      BY <1>2 DEF Unharmed
    <2>2. u # t
      BY <2>1
    <2>. QED
      BY <1>1, <2>1, <2>2 DEF OthersStay
  <1>3. ASSUME NEW u \in Threads, thread'[u].pc = "insert" PROVE file'[Path(u)'] # NoFile
    <2>1. u # t
      BY <1>3
    <2>2. thread[u].pc = "insert" /\ Path(u)' = Path(u)
      BY <1>1, <1>3, <2>1 DEF OthersStay
    <2>. QED
      BY <2>2 DEF Unharmed
  <1>4. ASSUME NEW s \in Streams, NEW v \in Registered(s)'
        PROVE  /\ file'[checkpoints'[s][v]] # NoFile
               /\ \E x \in 1..v : thread'[<<s, x>>].pc \in Landed
    <2>1. v \in Registered(s) /\ v \in 1..MaxVersion
      BY CheckpointAssumption DEF Registered, StreamsOk, StreamOk
    <2>2. PICK x \in 1..v : thread[<<s, x>>].pc \in Landed
      BY <2>1 DEF Unharmed
    <2>3. <<s, x>> \in Threads
      BY <2>1, ThreadIs, CheckpointAssumption
    <2>4. thread'[<<s, x>>].pc \in Landed
      BY <2>2, <2>3 DEF OthersStay
    <2>. QED
      BY <2>1, <2>4 DEF Unharmed
  <1>. QED
    BY <1>2, <1>3, <1>4 DEF Unharmed

-----------------------------------------------------------------------------
\* Steps of a thread that leave the log, the files and their rows alone.
LEMMA Moved ==
    ASSUME ThreadsOk, NEW t \in Threads, NEW new, thread' = [thread EXCEPT ![t] = new]
    PROVE  /\ thread' = [u \in Threads |-> thread'[u]] /\ thread'[t] = new
           /\ \A u \in Threads \ {t} : thread'[u] = thread[u]
  BY DEF ThreadsOk

LEMMA GotoIs ==
    ASSUME ThreadsOk, NEW t \in Threads, NEW label, Goto(t, label)
    PROVE  /\ thread' = [u \in Threads |-> thread'[u]]
           /\ \A u \in Threads \ {t} : thread'[u] = thread[u]
           /\ thread'[t] = IF label \in {"register", "select", "refresh", "advance", "done"} THEN At(label)
                           ELSE [pc |-> label, seen |-> thread[t].seen,
                                 snapshot |-> thread[t].snapshot]
  <1>. DEFINE new == IF label \in {"register", "select", "refresh", "advance", "done"} THEN At(label)
                     ELSE [thread[t] EXCEPT !.pc = label]
  <1>1. thread' = [thread EXCEPT ![t] = new]
    BY DEF Goto
  <1>2. PICK th, a, b, c : th = thread[t] /\ th = [pc |-> a, seen |-> b, snapshot |-> c]
    BY DEF ThreadsOk, ThreadOk
  <1>3. [th EXCEPT !.pc = label] = [pc |-> label, seen |-> th.seen, snapshot |-> th.snapshot]
    BY <1>2
  <1>4. new = IF label \in {"register", "select", "refresh", "advance", "done"} THEN At(label)
              ELSE [pc |-> label, seen |-> thread[t].seen, snapshot |-> thread[t].snapshot]
    BY <1>2, <1>3
  <1>. HIDE DEF new
  <1>. QED
    BY <1>1, <1>4, Moved

LEMMA LookupAlone ==
    ASSUME ConfigIInv, NEW t \in Lookers,
           (\E k : BeginLookup(t, k)) \/ GetConfig(t) \/ EndLookup(t)
    PROVE  \A u \in Lookers \ {t} : look'[u] = look[u]
  BY DEF BeginLookup, GetConfig, EndLookup, SelectTenantRow, SelectGlobalRow, FillCache,
         ConfigIInv, ConfigShape

LEMMA LookupKeeps ==
    ASSUME ConfigIInv, NEW t \in Lookers,
           BeginLookup(t, Global) \/ GetConfig(t) \/ EndLookup(t)
    PROVE  ConfigIInv'
  BY BeginLookupKeeps, SelectTenantRowKeeps, SelectGlobalRowKeeps, FillCacheKeeps,
     EndLookupKeeps, GlobalIsKey DEF GetConfig

LEMMA QuietStep ==
    ASSUME IInv, NEW t \in Threads,
           thread' = [u \in Threads |-> thread'[u]],
           \A u \in Threads \ {t} : thread'[u] = thread[u],
           \A u \in Lookers \ {t} : look'[u] = look[u],
           UNCHANGED <<last, checkpoints, file, reader, wait, bounds>>,
           ConfigIInv', StreamsOk', ThreadOk(t)',
           pending \subseteq pending',
           thread'[t].pc \in Running => thread[t].pc \in Running \/ t \in pending',
           thread[t].pc \in Running => thread'[t].pc \in Running \union {"done"},
           thread[t].pc # "close", thread'[t].pc # "insert",
           thread[t].pc = "done" => thread'[t].pc = "done",
           thread[t].pc \in Landed => thread'[t].pc \in Landed
    PROVE  IInv'
  <1>. USE DEF IInv
  <1>1. Grows
    BY NothingTaken
  <1>2. OthersStay(t)
    BY CheckpointAssumption DEF OthersStay
  <1>3. Bounds' /\ FilesOk' /\ ReadersOk' /\ ThreadsOk'
    BY <1>1, <1>2, BoundsStay, FilesStay, ReadersStay, ThreadMoves
  <1>4. t \in InFlight' => t \in InFlight \/ t \in pending'
    BY DEF InFlight, Running
  <1>5. WaitsOk'
    BY <1>2, <1>4, WaitsSee
  <1>6. Unharmed'
    <2>1. UNCHANGED <<file, checkpoints, failures, restarts>>
      BY DEF bounds
    <2>. QED
      BY <1>2, <2>1, HarmlessMove
  <1>. QED
    BY <1>3, <1>5, <1>6

LEMMA GetStorageConfigKeeps ==
    ASSUME IInv, NEW s \in Streams, NEW v \in 1..MaxVersion, GetStorageConfig(s, v)
    PROVE  IInv'
  <1>. DEFINE t == <<s, v>>
  <1>0. t \in Threads /\ t \in Lookers
    BY ThreadIs
  <1>. USE DEF IInv
  <1>1. /\ UNCHANGED <<last, checkpoints, file, pending, cache, reader, wait, bounds>>
        /\ BeginLookup(t, Global) \/ GetConfig(t)
    BY DEF GetStorageConfig, compactVars
  <1>2. ConfigIInv' /\ StreamsOk' /\ \A u \in Lookers \ {t} : look'[u] = look[u]
    BY <1>0, <1>1, LookupKeeps, LookupAlone, StreamsStay
  <1>3. ThreadOk(t)
    BY <1>0 DEF ThreadsOk
  <1>. HIDE DEF t
  <1>4. CASE thread[t].pc = "config" /\ Goto(t, "check")
    <2>1. /\ thread' = [u \in Threads |-> thread'[u]]
          /\ \A u \in Threads \ {t} : thread'[u] = thread[u]
          /\ thread'[t] = [pc |-> "check", seen |-> thread[t].seen, snapshot |-> thread[t].snapshot]
      BY <1>0, <1>4, GotoIs
    <2>2. ThreadOk(t)'
      BY <1>1, <1>3, <1>4, <2>1 DEF ThreadOk, Places
    <2>. QED
      BY <1>0, <1>1, <1>2, <1>4, <2>1, <2>2, QuietStep DEF Running, Compacting, Landed
  <1>5. CASE thread[t].pc = "dir" /\ Goto(t, "open")
    <2>1. /\ thread' = [u \in Threads |-> thread'[u]]
          /\ \A u \in Threads \ {t} : thread'[u] = thread[u]
          /\ thread'[t] = [pc |-> "open", seen |-> thread[t].seen, snapshot |-> thread[t].snapshot]
      BY <1>0, <1>5, GotoIs
    <2>2. ThreadOk(t)'
      BY <1>1, <1>3, <1>5, <2>1 DEF ThreadOk, Places, Compacting
    <2>. QED
      BY <1>0, <1>1, <1>2, <1>5, <2>1, <2>2, QuietStep DEF Running, Compacting, Landed
  <1>6. CASE thread[t].pc \in {"check", "open"} /\ thread' = thread
    <2>1. ThreadOk(t)'
      BY <1>1, <1>3, <1>6 DEF ThreadOk, Registered, Reached
    <2>2. thread' = [u \in Threads |-> thread'[u]]
      BY <1>6 DEF ThreadsOk
    <2>. QED
      BY <1>0, <1>1, <1>2, <1>6, <2>1, <2>2, QuietStep DEF Running, Compacting, Landed
  <1>. QED
    BY <1>4, <1>5, <1>6 DEF GetStorageConfig, t, compactVars

LEMMA DecideKeeps ==
    ASSUME IInv, NEW t \in Threads, NEW n, Decide(t, n), t \in Lookers,
           thread[t].pc \in {"check", "fill"}, StreamsOk',
           UNCHANGED <<last, checkpoints, file, pending, reader, wait, bounds>>
    PROVE  IInv'
  <1>. USE DEF IInv
  <1>. DEFINE label == IF ShouldCheckpoint(t[2], n, Interval[look[t].value])
                       THEN "register" ELSE "done"
  <1>1. Goto(t, label) /\ label \in {"register", "done"}
    BY DEF Decide
  <1>. HIDE DEF label
  <1>2. /\ thread' = [u \in Threads |-> thread'[u]]
        /\ \A u \in Threads \ {t} : thread'[u] = thread[u]
        /\ thread'[t] = At(label)
    BY <1>1, GotoIs
  <1>3. ConfigIInv' /\ \A u \in Lookers \ {t} : look'[u] = look[u]
    BY LookupKeeps, LookupAlone DEF Decide
  <1>4. ThreadOk(t)'
    <2>1. t[1] \in Streams /\ last[t[1]] \in Nat /\ MaxVersion \in Nat
      BY ThreadParts, CheckpointAssumption DEF StreamsOk, StreamOk
    <2>2. ThreadOk(t)
      BY DEF ThreadsOk
    <2>. QED
      BY <1>1, <1>2, <2>1, <2>2 DEF ThreadOk, Places, At
  <1>. QED
    BY <1>1, <1>2, <1>3, <1>4, QuietStep DEF Running, Compacting, Landed, At

LEMMA CheckCacheKeeps ==
    ASSUME IInv, NEW s \in Streams, NEW v \in 1..MaxVersion, CheckCache(s, v)
    PROVE  IInv'
  <1>. DEFINE t == <<s, v>>
  <1>0. t \in Threads /\ t \in Lookers
    BY ThreadIs
  <1>. USE DEF IInv
  <1>1. /\ UNCHANGED <<last, checkpoints, file, pending, cache, reader, wait, bounds>>
        /\ thread[t].pc = "check"
    BY DEF CheckCache
  <1>2. StreamsOk'
    BY <1>1, StreamsStay
  <1>3. CASE cache[s] = Unset
    <2>1. Goto(t, "load") /\ UNCHANGED confVars
      BY <1>3 DEF CheckCache
    <2>. HIDE DEF t
    <2>2. /\ thread' = [u \in Threads |-> thread'[u]]
          /\ \A u \in Threads \ {t} : thread'[u] = thread[u]
          /\ thread'[t] = [pc |-> "load", seen |-> thread[t].seen, snapshot |-> thread[t].snapshot]
      BY <1>0, <2>1, GotoIs
    <2>3. ThreadOk(t)'
      BY <1>0, <1>1, <2>2 DEF ThreadsOk, ThreadOk, Places
    <2>4. ConfigIInv' /\ look' = look
      BY <2>1, ConfigStays DEF confVars
    <2>. QED
      BY <1>0, <1>1, <1>2, <2>2, <2>3, <2>4, QuietStep DEF Running, Compacting, Landed
  <1>4. CASE cache[s] # Unset
    <2>1. Decide(t, cache[s])
      BY <1>4 DEF CheckCache
    <2>. HIDE DEF t
    <2>. QED
      BY <1>0, <1>1, <1>2, <2>1, DecideKeeps
  <1>. QED
    BY <1>3, <1>4

LEMMA MaxCheckpointIs ==
    ASSUME StreamsOk, NEW s \in Streams
    PROVE  /\ MaxCheckpoint(s) \in 0..last[s] /\ MaxCheckpoint(s) \in 0..MaxVersion
           /\ Reached(s, MaxCheckpoint(s))
           /\ \A v \in Registered(s) : v <= MaxCheckpoint(s)
  <1>1. /\ last[s] \in Nat /\ last[s] <= MaxVersion /\ MaxVersion \in Nat
        /\ Registered(s) \subseteq 1..last[s]
    BY CheckpointAssumption DEF StreamsOk, StreamOk
  <1>2. CASE Registered(s) = {}
    BY <1>1, <1>2 DEF MaxCheckpoint, Reached
  <1>3. CASE Registered(s) # {}
    <2>1. Registered(s) \subseteq 0..last[s]
      BY <1>1
    <2>. DEFINE m == Max(Registered(s))
    <2>2. m \in Registered(s) /\ \A v \in Registered(s) : v <= m
      BY <1>1, <1>3, <2>1, GreatestNumber
    <2>3. MaxCheckpoint(s) = m
      BY <1>3 DEF MaxCheckpoint
    <2>. HIDE DEF m
    <2>4. m \in 0..last[s] /\ m \in 0..MaxVersion /\ m <= m
      BY <1>1, <2>2
    <2>. QED
      BY <2>2, <2>3, <2>4 DEF Reached
  <1>. QED
    BY <1>2, <1>3

LEMMA LoadLastKeeps ==
    ASSUME IInv, NEW s \in Streams, NEW v \in 1..MaxVersion, LoadLast(s, v)
    PROVE  IInv'
  <1>. USE DEF IInv
  <1>1. PICK t, m : t = <<s, v>> /\ m = MaxCheckpoint(s)
    OBVIOUS
  <1>. DEFINE new == [thread[t] EXCEPT !.pc = "fill", !.seen = m]
  <1>2. t \in Threads /\ t \in Lookers /\ t[1] = s
    BY <1>1, ThreadIs
  <1>3. /\ UNCHANGED <<last, checkpoints, file, pending, cache, reader, wait, bounds, confVars>>
        /\ thread[t].pc = "load" /\ thread' = [thread EXCEPT ![t] = new]
    BY <1>1 DEF LoadLast
  <1>4. ThreadOk(t)
    BY <1>2 DEF ThreadsOk
  <1>5. m \in 0..MaxVersion /\ Reached(s, m)
    BY <1>1, MaxCheckpointIs
  <1>6. new = [pc |-> "fill", seen |-> m, snapshot |-> thread[t].snapshot]
    <2>1. PICK th, a, b, c : th = thread[t] /\ th = [pc |-> a, seen |-> b, snapshot |-> c]
      BY <1>4 DEF ThreadOk
    <2>2. PICK q : q = [th EXCEPT !.pc = "fill"]
      OBVIOUS
    <2>3. q = [pc |-> "fill", seen |-> b, snapshot |-> c]
      BY <2>1, <2>2
    <2>4. [q EXCEPT !.seen = m] = [pc |-> "fill", seen |-> m, snapshot |-> c]
      BY <2>3
    <2>. QED
      BY <2>1, <2>2, <2>4
  <1>. HIDE DEF new
  <1>7. /\ thread' = [u \in Threads |-> thread'[u]] /\ thread'[t] = new
        /\ \A u \in Threads \ {t} : thread'[u] = thread[u]
    BY <1>2, <1>3, Moved
  <1>8. StreamsOk' /\ ConfigIInv' /\ look' = look
    BY <1>3, StreamsStay, ConfigStays DEF confVars
  <1>9. Reached(s, m)'
    BY <1>3, <1>5, NothingTaken, ReachedStays
  <1>10. ThreadOk(t)'
    BY <1>2, <1>3, <1>4, <1>5, <1>6, <1>7, <1>9 DEF ThreadOk, Places
  <1>. QED
    BY <1>2, <1>3, <1>6, <1>7, <1>8, <1>10, QuietStep DEF Running, Compacting, Landed

LEMMA CacheFilled ==
    ASSUME StreamsOk, NEW s \in Streams, NEW n \in 0..MaxVersion, Reached(s, n),
           cache' = [cache EXCEPT ![s] = n], UNCHANGED <<last, checkpoints, file>>
    PROVE  StreamsOk'
  <1>1. \A u \in Streams : \A x : Reached(u, x)' <=> Reached(u, x)
    BY DEF Reached, Registered
  <1>2. /\ cache' = [u \in Streams |-> cache'[u]] /\ cache'[s] = n
        /\ \A u \in Streams \ {s} : cache'[u] = cache[u]
    BY DEF StreamsOk
  <1>3. ASSUME NEW u \in Streams PROVE StreamOk(u)'
    <2>1. cache'[u] # Unset => cache'[u] \in 0..MaxVersion /\ Reached(u, cache'[u])
      BY <1>2 DEF StreamsOk, StreamOk
    <2>2. cache'[u] # Unset => Reached(u, cache[u])'
      <3>1. PICK x : x = cache'[u]
        OBVIOUS
      <3>2. x # Unset => Reached(u, x)'
        BY <1>1, <2>1, <3>1
      <3>. QED
        BY <3>1, <3>2 DEF Reached
    <2>. QED
      BY <2>1, <2>2 DEF StreamsOk, StreamOk, Registered
  <1>. QED
    BY <1>2, <1>3 DEF StreamsOk

LEMMA FillVersionCacheKeeps ==
    ASSUME IInv, NEW s \in Streams, NEW v \in 1..MaxVersion, FillVersionCache(s, v)
    PROVE  IInv'
  <1>. USE DEF IInv
  <1>1. PICK t, n : t = <<s, v>> /\ n = thread[t].seen
    OBVIOUS
  <1>2. t \in Threads /\ t \in Lookers /\ t[1] = s
    BY <1>1, ThreadIs
  <1>3. /\ UNCHANGED <<last, checkpoints, file, pending, reader, wait, bounds>>
        /\ thread[t].pc = "fill" /\ cache' = [cache EXCEPT ![s] = n] /\ Decide(t, n)
    BY <1>1 DEF FillVersionCache
  <1>4. n \in 0..MaxVersion /\ Reached(s, n)
    BY <1>1, <1>2, <1>3 DEF ThreadsOk, ThreadOk
  <1>5. StreamsOk'
    BY <1>3, <1>4, CacheFilled
  <1>. QED
    BY <1>2, <1>3, <1>5, DecideKeeps

LEMMA GotoKeeps ==
    ASSUME IInv, NEW t \in Threads, NEW label, Goto(t, label), t \in Lookers,
           UNCHANGED <<last, checkpoints, file, reader, wait, bounds, confVars>>,
           StreamsOk', ThreadOk(t)', pending \subseteq pending',
           label \in Running => thread[t].pc \in Running \/ t \in pending',
           thread[t].pc \in Running => label \in Running \union {"done"},
           thread[t].pc \notin {"close", "done"}, label # "insert",
           thread[t].pc \in Landed => label = "done"
    PROVE  IInv'
  <1>. USE DEF IInv
  <1>1. /\ thread' = [u \in Threads |-> thread'[u]]
        /\ \A u \in Threads \ {t} : thread'[u] = thread[u]
        /\ thread'[t].pc = label
    <2>1. /\ thread' = [u \in Threads |-> thread'[u]]
          /\ \A u \in Threads \ {t} : thread'[u] = thread[u]
          /\ thread'[t] = IF label \in {"register", "select", "refresh", "advance", "done"} THEN At(label)
                          ELSE [pc |-> label, seen |-> thread[t].seen,
                                snapshot |-> thread[t].snapshot]
      BY GotoIs
    <2>2. At(label).pc = label
      BY DEF At
    <2>. QED
      BY <2>1, <2>2
  <1>2. ConfigIInv' /\ look' = look
    BY ConfigStays DEF confVars
  <1>. QED
    BY <1>1, <1>2, QuietStep DEF Landed

LEMMA SpawnCheckpointKeeps ==
    ASSUME IInv, NEW s \in Streams, NEW v \in 1..MaxVersion, SpawnCheckpoint(s, v)
    PROVE  IInv'
  <1>. USE DEF IInv
  <1>1. PICK t : t = <<s, v>>
    OBVIOUS
  <1>2. t \in Threads /\ t \in Lookers
    BY <1>1, ThreadIs
  <1>3. /\ UNCHANGED <<last, checkpoints, file, cache, reader, wait, bounds, confVars>>
        /\ thread[t].pc = "register" /\ Goto(t, "start") /\ pending' = pending \union {t}
    BY <1>1 DEF SpawnCheckpoint
  <1>4. StreamsOk'
    BY <1>3, StreamsStay
  <1>5. thread'[t] = [pc |-> "start", seen |-> thread[t].seen, snapshot |-> thread[t].snapshot]
    BY <1>2, <1>3, GotoIs
  <1>6. ThreadOk(t)'
    BY <1>2, <1>3, <1>5 DEF ThreadsOk, ThreadOk, Places
  <1>. QED
    BY <1>2, <1>3, <1>4, <1>6, GotoKeeps DEF Running, Compacting, Landed

LEMMA StartThreadKeeps ==
    ASSUME IInv, NEW s \in Streams, NEW v \in 1..MaxVersion, StartThread(s, v)
    PROVE  IInv'
  <1>. USE DEF IInv
  <1>1. PICK t : t = <<s, v>>
    OBVIOUS
  <1>2. t \in Threads /\ t \in Lookers
    BY <1>1, ThreadIs
  <1>3. /\ UNCHANGED <<last, checkpoints, file, pending, cache, reader, wait, bounds, confVars>>
        /\ thread[t].pc = "start" /\ Goto(t, "select")
    BY <1>1 DEF StartThread
  <1>4. StreamsOk'
    BY <1>3, StreamsStay
  <1>5. thread'[t] = [pc |-> "select", seen |-> 0, snapshot |-> 0]
    BY <1>2, <1>3, GotoIs DEF At
  <1>6. ThreadOk(t)'
    <2>1. t[1] \in Streams /\ last[t[1]] \in Nat /\ MaxVersion \in Nat
      BY <1>2, ThreadParts, CheckpointAssumption DEF StreamsOk, StreamOk
    <2>. QED
      BY <1>2, <1>3, <1>5, <2>1 DEF ThreadsOk, ThreadOk, Places, Compacting
  <1>. QED
    BY <1>2, <1>3, <1>4, <1>6, GotoKeeps DEF Running, Compacting, Landed

\* A compaction's snapshot holds its own version, and maybe later ones.
LEMMA SelectRowsKeeps ==
    ASSUME IInv, NEW s \in Streams, NEW v \in 1..MaxVersion, SelectRows(s, v)
    PROVE  IInv'
  <1>. USE DEF IInv
  <1>1. PICK t : t = <<s, v>>
    OBVIOUS
  <1>. DEFINE new == [thread[t] EXCEPT !.pc = "lookup", !.snapshot = last[s]]
  <1>2. t \in Threads /\ t \in Lookers /\ t[1] = s /\ t[2] = v
    BY <1>1, ThreadIs
  <1>3. /\ UNCHANGED <<last, checkpoints, file, pending, cache, reader, wait, bounds, confVars>>
        /\ thread[t].pc = "select" /\ thread' = [thread EXCEPT ![t] = new]
    BY <1>1 DEF SelectRows
  <1>4. ThreadOk(t) /\ last[s] \in Nat
    BY <1>2, CheckpointAssumption DEF ThreadsOk, StreamsOk, StreamOk
  <1>5. new = [pc |-> "lookup", seen |-> thread[t].seen, snapshot |-> last[s]]
    <2>1. PICK th, a, b, c : th = thread[t] /\ th = [pc |-> a, seen |-> b, snapshot |-> c]
      BY <1>4 DEF ThreadOk
    <2>2. PICK q : q = [th EXCEPT !.pc = "lookup"]
      OBVIOUS
    <2>3. q = [pc |-> "lookup", seen |-> b, snapshot |-> c]
      BY <2>1, <2>2
    <2>4. [q EXCEPT !.snapshot = last[s]] = [pc |-> "lookup", seen |-> b, snapshot |-> last[s]]
      BY <2>3
    <2>. QED
      BY <2>1, <2>2, <2>4
  <1>. HIDE DEF new
  <1>6. /\ thread' = [u \in Threads |-> thread'[u]] /\ thread'[t] = new
        /\ \A u \in Threads \ {t} : thread'[u] = thread[u]
    BY <1>2, <1>3, Moved
  <1>7. StreamsOk' /\ ConfigIInv' /\ look' = look
    BY <1>3, StreamsStay, ConfigStays DEF confVars
  <1>8. ThreadOk(t)'
    BY <1>2, <1>3, <1>4, <1>5, <1>6 DEF ThreadOk, Places, Compacting
  <1>. QED
    BY <1>2, <1>3, <1>5, <1>6, <1>7, <1>8, QuietStep DEF Running, Compacting, Landed

LEMMA LookUpKeeps ==
    ASSUME IInv, NEW s \in Streams, NEW v \in 1..MaxVersion, LookUp(s, v)
    PROVE  IInv'
  <1>. USE DEF IInv
  <1>1. PICK t, label : /\ t = <<s, v>>
                        /\ label = IF Snapshot(t) \in Registered(s) THEN "advance" ELSE "dir"
    OBVIOUS
  <1>2. t \in Threads /\ t \in Lookers /\ t[1] = s /\ t[2] = v
    BY <1>1, ThreadIs
  <1>3. /\ UNCHANGED <<last, checkpoints, file, pending, cache, reader, wait, bounds, confVars>>
        /\ thread[t].pc = "lookup" /\ Goto(t, label)
    BY <1>1 DEF LookUp
  <1>4. StreamsOk'
    BY <1>3, StreamsStay
  <1>5. ThreadOk(t) /\ last[s] \in Nat /\ MaxVersion \in Nat
    BY <1>2, CheckpointAssumption DEF ThreadsOk, StreamsOk, StreamOk
  <1>6. thread'[t] = IF label = "advance" THEN [pc |-> "advance", seen |-> 0, snapshot |-> 0]
                     ELSE [pc |-> "dir", seen |-> thread[t].seen, snapshot |-> thread[t].snapshot]
    BY <1>1, <1>2, <1>3, GotoIs DEF At
  <1>7. ThreadOk(t)'
    <2>1. CASE label = "advance"
      <3>1. thread[t].snapshot \in Registered(s) /\ v <= thread[t].snapshot
        BY <1>1, <1>2, <1>3, <1>5, <2>1 DEF Snapshot, ThreadOk
      <3>2. Reached(s, v)
        BY <3>1 DEF Reached
      <3>3. Reached(s, v)'
        BY <1>3, <3>2, NothingTaken, ReachedStays
      <3>. QED
        BY <1>2, <1>3, <1>5, <1>6, <2>1, <3>3 DEF ThreadOk, Places, Compacting
    <2>2. CASE label = "dir"
      BY <1>2, <1>3, <1>5, <1>6, <2>2 DEF ThreadOk, Places, Compacting
    <2>. QED
      BY <1>1, <2>1, <2>2
  <1>. QED
    BY <1>1, <1>2, <1>3, <1>4, <1>7, GotoKeeps DEF Running, Compacting, Landed

LEMMA AdvanceKeeps ==
    ASSUME IInv, NEW s \in Streams, NEW v \in 1..MaxVersion, Advance(s, v)
    PROVE  IInv'
  <1>. USE DEF IInv
  <1>1. PICK t : t = <<s, v>>
    OBVIOUS
  <1>2. t \in Threads /\ t \in Lookers /\ t[1] = s /\ t[2] = v
    BY <1>1, ThreadIs
  <1>3. /\ UNCHANGED <<last, checkpoints, file, pending, reader, wait, bounds, confVars>>
        /\ thread[t].pc \in {"refresh", "advance"} /\ Goto(t, "done") /\ cache' = [cache EXCEPT ![s] = v]
    BY <1>1 DEF Advance
  <1>4. ThreadOk(t) /\ last[s] \in Nat /\ MaxVersion \in Nat
    BY <1>2, CheckpointAssumption DEF ThreadsOk, StreamsOk, StreamOk
  <1>5. StreamsOk'
    <2>1. Reached(s, v) /\ v \in 0..MaxVersion
      BY <1>2, <1>3, <1>4 DEF ThreadOk
    <2>. QED
      BY <1>3, <2>1, CacheFilled
  <1>6. thread'[t] = [pc |-> "done", seen |-> 0, snapshot |-> 0]
    BY <1>2, <1>3, GotoIs DEF At
  <1>7. ThreadOk(t)'
    BY <1>2, <1>3, <1>4, <1>6 DEF ThreadOk, Places
  <1>. QED
    BY <1>2, <1>3, <1>5, <1>7, GotoKeeps DEF Running, Compacting, Landed

-----------------------------------------------------------------------------
\* Steps that write, register or lose a file.  Two streams have a file in common
\* only of one version, and only if they share their directory.
LEMMA PathsMeet ==
    ASSUME NEW s \in Streams, NEW u \in Streams, NEW c, NEW d, NEW v, NEW w,
           FilePath(c, s, v) = FilePath(d, u, w)
    PROVE  v = w /\ u \in Sharing(s)
  BY DEF FilePath, Sharing

LEMMA PathIs ==
    ASSUME IInv, NEW t \in Threads, look[t].pc = "found", t \in Lookers,
           thread[t].pc \in {"open", "close", "insert"}
    PROVE  /\ look[t].value \in Values /\ Snapshot(t) \in 1..MaxVersion
           /\ t[2] <= Snapshot(t) /\ Snapshot(t) \in 1..last[t[1]]
           /\ Path(t) = FilePath(look[t].value, t[1], Snapshot(t)) /\ Path(t) \in Files
  <1>1. ThreadOk(t) /\ StreamOk(t[1]) /\ t[1] \in Streams /\ t[2] \in 1..MaxVersion
    BY ThreadParts DEF IInv, ThreadsOk, StreamsOk
  <1>2. look[t].value \in Values
    BY DEF IInv, ConfigIInv, ConfigShape, LookOk
  <1>3. /\ t[2] <= Snapshot(t) /\ Snapshot(t) \in 1..MaxVersion
        /\ Snapshot(t) \in 1..last[t[1]]
    BY <1>1, CheckpointAssumption DEF ThreadOk, StreamOk, Snapshot
  <1>. QED
    BY <1>1, <1>2, <1>3, FileIs DEF Path

LEMMA StatesApart ==
    /\ NoFile # Partial
    /\ \A rows : Whole(rows) # NoFile /\ Whole(rows) # Partial /\ Whole(rows).state = "whole"
                 /\ Whole(rows).rows = rows
    /\ NoFile.state # "whole" /\ Partial.state # "whole"
  BY DEF NoFile, Partial, Whole

\* What a thread's step leaves alone, when it may also write and register.
LEMMA WritingStep ==
    ASSUME IInv, NEW t \in Threads, t \in Lookers,
           thread' = [u \in Threads |-> thread'[u]],
           \A u \in Threads \ {t} : thread'[u] = thread[u],
           \A u \in Lookers \ {t} : look'[u] = look[u],
           UNCHANGED <<reader, wait, pending>>, Grows,
           ConfigIInv', Bounds', StreamsOk', FilesOk', ThreadOk(t)', Unharmed',
           thread[t].pc \in Running, thread'[t].pc \in Running \union {"done"}
    PROVE  IInv'
  <1>. USE DEF IInv
  <1>1. OthersStay(t)
    BY CheckpointAssumption DEF OthersStay
  <1>2. ReadersOk' /\ ThreadsOk'
    BY <1>1, ReadersStay, ThreadMoves
  <1>3. t \in InFlight
    BY DEF InFlight, Running
  <1>4. thread[t].pc # "done"
    BY DEF Running, Compacting
  <1>5. WaitsOk'
    BY <1>1, <1>3, <1>4, WaitsSee
  <1>. QED
    BY <1>2, <1>5

LEMMA FileWritten ==
    ASSUME IInv, NEW t \in Threads, t \in Lookers, look[t].pc = "found",
           thread[t].pc \in {"open", "close"}, NEW label \in {"close", "insert"},
           NEW x \in {Partial, Whole(Rows(t[1], 1, Snapshot(t)))},
           x = Partial <=> label = "close", Goto(t, label),
           file' = [file EXCEPT ![Path(t)] = x],
           UNCHANGED <<last, checkpoints, pending, cache, reader, wait, bounds, confVars>>
    PROVE  IInv'
  <1>. USE DEF IInv
  <1>1. PICK p, n : p = Path(t) /\ n = Snapshot(t)
    OBVIOUS
  <1>2. /\ look[t].value \in Values /\ n \in 1..MaxVersion /\ t[2] <= n /\ n \in 1..last[t[1]]
        /\ p = FilePath(look[t].value, t[1], n) /\ p \in Files /\ t[1] \in Streams
    BY <1>1, PathIs, ThreadParts
  <1>3. /\ file' = [f \in Files |-> file'[f]] /\ file'[p] = x
        /\ \A f \in Files \ {p} : file'[f] = file[f]
    BY <1>1, <1>2 DEF StreamsOk
  <1>4. /\ thread' = [u \in Threads |-> thread'[u]]
        /\ \A u \in Threads \ {t} : thread'[u] = thread[u]
        /\ thread'[t] = [pc |-> label, seen |-> thread[t].seen, snapshot |-> n]
    BY <1>1, GotoIs DEF Snapshot
  <1>5. ConfigIInv' /\ look' = look /\ Bounds' /\ Grows
    BY ConfigStays, BoundsStay, NothingTaken DEF confVars
  <1>6. StreamsOk'
    BY <1>3 DEF StreamsOk, StreamOk, Registered, Reached
  <1>7. FilesOk'
    <2>. SUFFICES ASSUME NEW s \in Streams, NEW c \in Values, NEW v \in 1..MaxVersion
                  PROVE  file'[FilePath(c, s, v)] \in
                             {NoFile, Partial} \union {Whole(Rows(u, 1, v)) : u \in Sharing(s)}
      BY DEF FilesOk
    <2>1. CASE FilePath(c, s, v) = p
      <3>1. t[1] \in Sharing(s) /\ v = n
        BY <1>2, <2>1, PathsMeet
      <3>. QED
        BY <1>1, <1>3, <2>1, <3>1
    <2>2. CASE FilePath(c, s, v) # p
      BY <1>3, <2>2, FileIs DEF FilesOk
    <2>. QED
      BY <2>1, <2>2
  <1>8. ThreadOk(t)'
    <2>1. ThreadOk(t)
      BY DEF ThreadsOk
    <2>. QED
      BY <1>1, <1>2, <1>4, <1>5, <2>1 DEF ThreadOk, Places, Compacting, Snapshot
  <1>9. Unharmed'
    <2>. SUFFICES ASSUME failures + restarts = 0 PROVE Unharmed'
      BY DEF Unharmed, bounds
    <2>0. failures' + restarts' = 0 /\ \A f \in Files : x # NoFile
      BY StatesApart DEF bounds
    <2>1. \A u \in Threads \ {t} : Path(u)' = Path(u)
      BY <1>4, <1>5 DEF Path, Snapshot
    <2>2. Path(t)' = p
      BY <1>1, <1>2, <1>4, <1>5 DEF Path, Snapshot
    <2>3. ASSUME NEW f \in Files, file'[f] = Partial
          PROVE  \E u \in Threads : thread'[u].pc = "close" /\ Path(u)' = f
      <3>1. CASE f = p
        BY <1>3, <1>4, <2>2, <2>3, <3>1
      <3>2. CASE f # p
        <4>1. PICK u \in Threads : thread[u].pc = "close" /\ Path(u) = f
          BY <1>3, <2>3, <3>2 DEF Unharmed
        <4>2. u # t
          BY <1>1, <3>2, <4>1
        <4>. QED
          BY <1>4, <2>1, <4>1, <4>2
      <3>. QED
        BY <3>1, <3>2
    <2>4. ASSUME NEW u \in Threads, thread'[u].pc = "insert" PROVE file'[Path(u)'] # NoFile
      <3>1. CASE u = t
        BY <1>3, <2>2, <3>1, StatesApart
      <3>2. CASE u # t
        <4>1. Path(u)' = Path(u) /\ file[Path(u)] # NoFile /\ ThreadOk(u) /\ u \in Lookers
          BY <1>4, <2>1, <2>4, <3>2, CheckpointAssumption DEF Unharmed, ThreadsOk
        <4>2. Path(u) \in Files
          BY <1>4, <2>4, <3>2, <4>1, PathIs DEF ThreadOk
        <4>. QED
          BY <1>3, <4>1, <4>2, StatesApart
      <3>. QED
        BY <3>1, <3>2
    <2>5. ASSUME NEW s \in Streams, NEW v \in Registered(s)'
          PROVE  /\ file'[checkpoints'[s][v]] # NoFile
                 /\ \E y \in 1..v : thread'[<<s, y>>].pc \in Landed
      <3>1. v \in Registered(s) /\ v \in 1..MaxVersion /\ checkpoints' = checkpoints
        BY CheckpointAssumption DEF Registered, StreamsOk, StreamOk
      <3>2. checkpoints[s][v] \in Files /\ file[checkpoints[s][v]] # NoFile
        <4>1. PICK c \in Values : checkpoints[s][v] = FilePath(c, s, v)
          BY <3>1 DEF StreamsOk, StreamOk
        <4>. QED
          BY <3>1, <4>1, FileIs DEF Unharmed
      <3>3. file'[checkpoints'[s][v]] # NoFile
        BY <1>3, <3>1, <3>2, StatesApart
      <3>4. PICK y \in 1..v : thread[<<s, y>>].pc \in Landed
        BY <3>1 DEF Unharmed
      <3>5. <<s, y>> \in Threads
        BY <3>1, ThreadIs, CheckpointAssumption
      <3>6. thread'[<<s, y>>].pc \in Landed
        BY <1>4, <3>4, <3>5 DEF Landed
      <3>. QED
        BY <3>3, <3>6
    <2>. QED
      BY <2>3, <2>4, <2>5 DEF Unharmed
  <1>10. UNCHANGED <<reader, wait, pending>> /\ thread'[t].pc = label
    BY <1>4
  <1>. QED
    BY <1>4, <1>5, <1>6, <1>7, <1>8, <1>9, <1>10, WritingStep DEF Running, Compacting

LEMMA OpenFileKeeps ==
    ASSUME IInv, NEW s \in Streams, NEW v \in 1..MaxVersion, OpenFile(s, v)
    PROVE  IInv'
  <1>1. PICK t : t = <<s, v>>
    OBVIOUS
  <1>2. t \in Threads /\ t \in Lookers
    BY <1>1, ThreadIs
  <1>3. /\ UNCHANGED <<last, checkpoints, pending, cache, reader, wait, bounds, confVars>>
        /\ thread[t].pc = "open" /\ look[t].pc = "found" /\ Goto(t, "close")
        /\ file' = [file EXCEPT ![Path(t)] = Partial]
    BY <1>1 DEF OpenFile
  <1>. QED
    BY <1>2, <1>3, FileWritten

LEMMA CloseFileKeeps ==
    ASSUME IInv, NEW s \in Streams, NEW v \in 1..MaxVersion, CloseFile(s, v)
    PROVE  IInv'
  <1>1. PICK t : t = <<s, v>>
    OBVIOUS
  <1>2. t \in Threads /\ t \in Lookers /\ t[1] = s
    BY <1>1, ThreadIs
  <1>3. /\ UNCHANGED <<last, checkpoints, pending, cache, reader, wait, bounds, confVars>>
        /\ thread[t].pc = "close" /\ Goto(t, "insert")
        /\ file' = [file EXCEPT ![Path(t)] = Whole(Rows(t[1], 1, Snapshot(t)))]
    BY <1>1, <1>2 DEF CloseFile
  <1>4. look[t].pc = "found"
    BY <1>2, <1>3 DEF IInv, ThreadsOk, ThreadOk
  <1>. QED
    BY <1>2, <1>3, <1>4, FileWritten, StatesApart

\* A row is added to a stream's checkpoints: under its own version, beside the
\* others.
LEMMA Registers ==
    ASSUME StreamsOk, NEW s \in Streams, NEW n \in 1..last[s], n \notin Registered(s),
           NEW c \in Values, Register(s, n, FilePath(c, s, n)),
           UNCHANGED <<last, cache, file>>
    PROVE  /\ StreamsOk' /\ Grows
           /\ Registered(s)' = Registered(s) \union {n}
           /\ checkpoints'[s][n] = FilePath(c, s, n)
           /\ \A u \in Streams \ {s} : Registered(u)' = Registered(u)
  <1>. DEFINE where == FilePath(c, s, n)
              new == [w \in Registered(s) \union {n} |->
                          IF w = n THEN where ELSE checkpoints[s][w]]
  <1>1. /\ DOMAIN new = Registered(s) \union {n} /\ new[n] = where
        /\ \A w \in Registered(s) : new[w] = checkpoints[s][w]
    OBVIOUS
  <1>2. checkpoints' = [checkpoints EXCEPT ![s] = new]
    BY DEF Register
  <1>. HIDE DEF new
  <1>3. /\ checkpoints' = [u \in Streams |-> checkpoints'[u]] /\ checkpoints'[s] = new
        /\ \A u \in Streams \ {s} : checkpoints'[u] = checkpoints[u]
    BY <1>2 DEF StreamsOk
  <1>4. /\ Registered(s)' = Registered(s) \union {n} /\ checkpoints'[s][n] = where
        /\ \A w \in Registered(s) : checkpoints'[s][w] = checkpoints[s][w]
    BY <1>1, <1>3 DEF Registered
  <1>5. \A u \in Streams \ {s} : Registered(u)' = Registered(u)
    BY <1>3 DEF Registered
  <1>6. Grows
    <2>1. \A u \in Streams : last[u] <= last'[u]
      BY DEF StreamsOk, StreamOk
    <2>2. \A u \in Streams : Registered(u) \subseteq Registered(u)'
      BY <1>4, <1>5
    <2>3. ASSUME NEW u \in Streams, NEW w \in Registered(u)
          PROVE  checkpoints'[u][w] = checkpoints[u][w]
      BY <1>3, <1>4
    <2>. QED
      BY <2>1, <2>2, <2>3 DEF Grows
  <1>7. ASSUME NEW u \in Streams PROVE StreamOk(u)'
    <2>1. StreamOk(u) /\ last'[u] = last[u] /\ cache'[u] = cache[u]
      BY DEF StreamsOk
    <2>2. Registered(u)' \subseteq 1..last'[u]
      BY <1>4, <1>5, <2>1 DEF StreamOk
    <2>3. ASSUME NEW w \in Registered(u)'
          PROVE  \E d \in Values : checkpoints'[u][w] = FilePath(d, u, w)
      <3>1. CASE u = s /\ w = n
        BY <1>4, <3>1
      <3>2. CASE ~(u = s /\ w = n)
        <4>1. w \in Registered(u)
          BY <1>4, <1>5, <2>3, <3>2
        <4>2. checkpoints'[u][w] = checkpoints[u][w]
          BY <1>6, <4>1 DEF Grows
        <4>. QED
          BY <2>1, <4>1, <4>2 DEF StreamOk
      <3>. QED
        BY <3>1, <3>2
    <2>4. cache'[u] # Unset => cache'[u] \in 0..MaxVersion /\ Reached(u, cache[u])
      BY <2>1 DEF StreamOk
    <2>5. cache'[u] # Unset => Reached(u, cache[u])'
      <3>1. PICK x : x = cache[u]
        OBVIOUS
      <3>2. Reached(u, x) => Reached(u, x)'
        BY <1>6, ReachedStays
      <3>. QED
        BY <2>1, <2>4, <3>1, <3>2 DEF Reached
    <2>. QED
      BY <2>1, <2>2, <2>3, <2>4, <2>5 DEF StreamOk, FilePath
  <1>8. StreamsOk'
    BY <1>3, <1>7 DEF StreamsOk
  <1>. QED
    BY <1>4, <1>5, <1>6, <1>8

LEMMA InsertKeeps ==
    ASSUME IInv, NEW s \in Streams, NEW v \in 1..MaxVersion, Insert(s, v)
    PROVE  IInv'
  <1>. USE DEF IInv
  <1>1. PICK t, n, c : t = <<s, v>> /\ n = Snapshot(t) /\ c = look[t].value
    OBVIOUS
  <1>2. t \in Threads /\ t \in Lookers /\ t[1] = s /\ t[2] = v
    BY <1>1, ThreadIs
  <1>3. /\ UNCHANGED <<last, file, pending, cache, reader, wait, bounds>>
        /\ thread[t].pc = "insert" /\ EndLookup(t)
    BY <1>1 DEF Insert
  <1>4. ConfigIInv' /\ Bounds' /\ \A u \in Lookers \ {t} : look'[u] = look[u]
    BY <1>2, <1>3, LookupKeeps, LookupAlone, BoundsStay
  <1>5. ThreadOk(t) /\ look[t].pc = "found" /\ last[s] \in Nat /\ MaxVersion \in Nat
    BY <1>2, <1>3, CheckpointAssumption DEF ThreadsOk, ThreadOk, StreamsOk, StreamOk
  <1>6. CASE n \in Registered(s)
    <2>1. Goto(t, "done") /\ checkpoints' = checkpoints
      BY <1>1, <1>6 DEF Insert
    <2>2. /\ thread' = [u \in Threads |-> thread'[u]]
          /\ \A u \in Threads \ {t} : thread'[u] = thread[u]
          /\ thread'[t] = [pc |-> "done", seen |-> 0, snapshot |-> 0]
      BY <1>2, <2>1, GotoIs DEF At
    <2>3. StreamsOk'
      BY <1>3, <2>1, StreamsStay
    <2>4. ThreadOk(t)'
      BY <1>2, <1>3, <1>5, <2>2 DEF ThreadOk, Places
    <2>. QED
      BY <1>2, <1>3, <1>4, <2>1, <2>2, <2>3, <2>4, QuietStep DEF Running, Compacting, Landed
  <1>7. CASE n \notin Registered(s)
    <2>1. Goto(t, "refresh") /\ Register(s, n, Path(t))
      BY <1>1, <1>7 DEF Insert
    <2>2. /\ thread' = [u \in Threads |-> thread'[u]]
          /\ \A u \in Threads \ {t} : thread'[u] = thread[u]
          /\ thread'[t] = [pc |-> "refresh", seen |-> 0, snapshot |-> 0]
      BY <1>2, <2>1, GotoIs DEF At
    <2>3. /\ c \in Values /\ n \in 1..MaxVersion /\ v <= n /\ n \in 1..last[s]
          /\ Path(t) = FilePath(c, s, n) /\ Path(t) \in Files
      BY <1>1, <1>2, <1>3, <1>5, PathIs
    <2>4. /\ StreamsOk' /\ Grows /\ Registered(s)' = Registered(s) \union {n}
          /\ checkpoints'[s][n] = Path(t)
          /\ \A u \in Streams \ {s} : Registered(u)' = Registered(u)
      BY <1>3, <1>7, <2>1, <2>3, Registers
    <2>5. FilesOk'
      BY <1>3, FilesStay
    <2>6. ThreadOk(t)'
      <3>1. Reached(s, v)'
        BY <2>3, <2>4 DEF Reached
      <3>. QED
        BY <1>2, <1>3, <1>5, <2>2, <3>1 DEF ThreadOk, Places, Compacting
    <2>7. Unharmed'
      <3>. SUFFICES ASSUME failures + restarts = 0 PROVE Unharmed'
        BY <1>3 DEF Unharmed, bounds
      <3>1. \A u \in Threads \ {t} : Path(u)' = Path(u)
        BY <1>4, <2>2, CheckpointAssumption DEF Path, Snapshot
      <3>2. ASSUME NEW f \in Files, file'[f] = Partial
            PROVE  \E u \in Threads : thread'[u].pc = "close" /\ Path(u)' = f
        <4>1. PICK u \in Threads : thread[u].pc = "close" /\ Path(u) = f
          BY <1>3, <3>2 DEF Unharmed
        <4>2. u # t
          BY <1>3, <4>1
        <4>. QED
          BY <2>2, <3>1, <4>1, <4>2
      <3>3. ASSUME NEW u \in Threads, thread'[u].pc = "insert" PROVE file'[Path(u)'] # NoFile
        <4>1. u # t
          BY <2>2, <3>3
        <4>. QED
          BY <1>3, <2>2, <3>1, <3>3, <4>1 DEF Unharmed
      <3>4. ASSUME NEW r \in Streams, NEW w \in Registered(r)'
            PROVE  /\ file'[checkpoints'[r][w]] # NoFile
                   /\ \E x \in 1..w : thread'[<<r, x>>].pc \in Landed
        <4>1. CASE r = s /\ w = n
          <5>1. file[Path(t)] # NoFile
            BY <1>2, <1>3 DEF Unharmed
          <5>2. v \in 1..n /\ thread'[<<s, v>>].pc \in Landed
            BY <1>1, <2>2, <2>3 DEF Landed
          <5>. QED
            BY <1>3, <2>4, <4>1, <5>1, <5>2
        <4>2. CASE ~(r = s /\ w = n)
          <5>1. w \in Registered(r) /\ checkpoints'[r][w] = checkpoints[r][w]
            <6>1. w \in Registered(r)
              BY <2>4, <3>4, <4>2
            <6>. QED
              BY <2>4, <6>1 DEF Grows
          <5>2. w \in 1..MaxVersion /\ file[checkpoints[r][w]] # NoFile
            BY <5>1, CheckpointAssumption DEF StreamsOk, StreamOk, Unharmed
          <5>3. PICK x \in 1..w : thread[<<r, x>>].pc \in Landed
            BY <5>1 DEF Unharmed
          <5>4. <<r, x>> \in Threads
            BY <5>2, ThreadIs, CheckpointAssumption
          <5>5. thread'[<<r, x>>].pc \in Landed
            BY <1>3, <2>2, <5>3, <5>4 DEF Landed
          <5>. QED
            BY <1>3, <5>1, <5>2, <5>5
        <4>. QED
          BY <4>1, <4>2
      <3>. QED
        BY <3>2, <3>3, <3>4 DEF Unharmed
    <2>. QED
      BY <1>2, <1>3, <1>4, <2>2, <2>4, <2>5, <2>6, <2>7, WritingStep DEF Running, Compacting
  <1>. QED
    BY <1>6, <1>7

LEMMA CompactionFailsKeeps ==
    ASSUME IInv, NEW s \in Streams, NEW v \in 1..MaxVersion, CompactionFails(s, v)
    PROVE  IInv'
  <1>. USE DEF IInv
  <1>1. PICK t, p : t = <<s, v>> /\ p = Path(t)
    OBVIOUS
  <1>2. t \in Threads /\ t \in Lookers /\ t[1] = s /\ t[2] = v
    BY <1>1, ThreadIs
  <1>3. /\ UNCHANGED <<last, checkpoints, pending, cache, reader, wait, restarts, scope>>
        /\ thread[t].pc \in Compacting /\ Goto(t, "done") /\ EndLookup(t)
        /\ failures < scope.failures /\ failures' = failures + 1
        /\ file' = file \/ file' = [file EXCEPT ![p] = NoFile]
    BY <1>1 DEF CompactionFails
  <1>4. ConfigIInv' /\ \A u \in Lookers \ {t} : look'[u] = look[u]
    BY <1>2, <1>3, LookupKeeps, LookupAlone
  <1>5. Bounds' /\ failures' + restarts' # 0
    BY <1>3, ScopeIs DEF Bounds
  <1>6. ThreadOk(t) /\ last[s] \in Nat /\ MaxVersion \in Nat
    BY <1>2, CheckpointAssumption DEF ThreadsOk, StreamsOk, StreamOk
  <1>7. /\ thread' = [u \in Threads |-> thread'[u]]
        /\ \A u \in Threads \ {t} : thread'[u] = thread[u]
        /\ thread'[t] = [pc |-> "done", seen |-> 0, snapshot |-> 0]
    BY <1>2, <1>3, GotoIs DEF At
  <1>8. /\ file' = [f \in Files |-> file'[f]]
        /\ \A f \in Files : file'[f] = file[f] \/ file'[f] = NoFile
    BY <1>3 DEF StreamsOk
  <1>9. StreamsOk' /\ Grows
    BY <1>3, <1>8, NothingTaken DEF StreamsOk, StreamOk, Registered, Reached
  <1>10. FilesOk'
    BY <1>8, FileIs DEF FilesOk
  <1>11. ThreadOk(t)'
    BY <1>2, <1>3, <1>6, <1>7 DEF ThreadOk, Places, Compacting
  <1>12. Unharmed'
    BY <1>5 DEF Unharmed
  <1>. QED
    BY <1>2, <1>3, <1>4, <1>5, <1>7, <1>9, <1>10, <1>11, <1>12, WritingStep
    DEF Running, Compacting

\* The commit's thread was idle: its version was not committed yet.
LEMMA AppendCommitKeeps ==
    ASSUME IInv, NEW s \in Streams, NEW v \in 1..MaxVersion, AppendCommit(s, v)
    PROVE  IInv'
  <1>. USE DEF IInv
  <1>1. PICK t : t = <<s, v>>
    OBVIOUS
  <1>2. t \in Threads /\ t \in Lookers /\ t[1] = s /\ t[2] = v
    BY <1>1, ThreadIs
  <1>3. /\ UNCHANGED <<checkpoints, file, pending, cache, reader, wait, bounds, confVars>>
        /\ v = last[s] + 1 /\ v <= scope.versions[s] /\ last' = [last EXCEPT ![s] = v]
        /\ Goto(t, "config")
    BY <1>1 DEF AppendCommit
  <1>4. /\ ThreadOk(t) /\ last[s] \in Nat /\ MaxVersion \in Nat /\ v \in 0..MaxVersion
        /\ last[s] < v
    BY <1>2, <1>3, CheckpointAssumption, ScopeIs DEF ThreadsOk, StreamsOk, StreamOk
  <1>5. thread[t].pc = "idle"
    BY <1>2, <1>4 DEF ThreadOk
  <1>6. /\ last' = [u \in Streams |-> last'[u]] /\ last'[s] = v
        /\ \A u \in Streams \ {s} : last'[u] = last[u]
    BY <1>3 DEF StreamsOk
  <1>7. Grows
    BY <1>3, <1>4, <1>6 DEF Grows, Registered, StreamsOk, StreamOk
  <1>8. StreamsOk'
    <2>1. ASSUME NEW u \in Streams PROVE StreamOk(u)'
      <3>1. /\ StreamOk(u) /\ last[u] \in Nat /\ last'[u] \in 0..MaxVersion
            /\ last[u] <= last'[u]
        BY <1>4, <1>6, CheckpointAssumption DEF StreamsOk, StreamOk
      <3>2. 1..last[u] \subseteq 1..last'[u]
        BY <3>1
      <3>. QED
        BY <1>3, <3>1, <3>2 DEF StreamOk, Registered, Reached
    <2>. QED
      BY <1>3, <1>6, <2>1 DEF StreamsOk
  <1>9. /\ thread' = [u \in Threads |-> thread'[u]]
        /\ \A u \in Threads \ {t} : thread'[u] = thread[u]
        /\ thread'[t] = [pc |-> "config", seen |-> thread[t].seen, snapshot |-> thread[t].snapshot]
    BY <1>2, <1>3, GotoIs
  <1>10. ConfigIInv' /\ look' = look /\ Bounds' /\ FilesOk'
    BY <1>3, ConfigStays, BoundsStay, FilesStay DEF confVars
  <1>11. OthersStay(t)
    BY <1>9, <1>10 DEF OthersStay
  <1>12. ThreadOk(t)'
    BY <1>2, <1>4, <1>5, <1>6, <1>9 DEF ThreadOk, Places
  <1>13. ThreadsOk' /\ ReadersOk'
    BY <1>2, <1>3, <1>7, <1>8, <1>11, <1>12, ThreadMoves, ReadersStay
  <1>14. t \notin InFlight'
    BY <1>9 DEF InFlight, Compacting
  <1>15. WaitsOk'
    BY <1>2, <1>3, <1>5, <1>11, <1>14, WaitsSee DEF Running, Compacting
  <1>16. Unharmed'
    BY <1>2, <1>3, <1>5, <1>9, <1>11, HarmlessMove DEF bounds, Landed
  <1>. QED
    BY <1>8, <1>10, <1>13, <1>15, <1>16

-----------------------------------------------------------------------------
\* Steps of waits, of sets and of reads leave threads, files and rows alone.
LEMMA AsideStep ==
    ASSUME IInv, UNCHANGED <<last, checkpoints, file, thread, cache, bounds, look>>,
           ConfigIInv', ReadersOk', WaitsOk'
    PROVE  IInv'
  <1>. USE DEF IInv
  <1>1. Bounds' /\ StreamsOk' /\ FilesOk'
    BY BoundsStay, StreamsStay, FilesStay
  <1>2. ThreadsOk'
    BY DEF ThreadsOk, ThreadOk, Reached, Registered
  <1>3. Unharmed'
    BY DEF Unharmed, Path, Snapshot, Registered, bounds
  <1>. QED
    BY <1>1, <1>2, <1>3

LEMMA SetStorageConfigKeeps ==
    ASSUME IInv, NEW e \in Setters, SetStorageConfig(e)
    PROVE  IInv'
  <1>. USE DEF IInv
  <1>1. /\ UNCHANGED <<last, checkpoints, file, thread, pending, cache, reader, wait, bounds>>
        /\ SetConfig(e)
    BY DEF SetStorageConfig, compactVars
  <1>2. look' = look
    BY <1>1 DEF SetConfig, SelectRow, CommitRow, ClearCache
  <1>3. Grows /\ StreamsOk' /\ WaitsOk'
    BY <1>1, NothingTaken, StreamsStay, WaitsStay
  <1>4. ReadersOk' /\ ConfigIInv'
    BY <1>1, <1>3, ReadersStay, SetConfigKeeps
  <1>. QED
    BY <1>1, <1>2, <1>3, <1>4, AsideStep

WaitBecomes(w, p, left, took, owed, late) ==
    wait' = [wait EXCEPT ![w] = [pc |-> p, left |-> left, took |-> took, owed |-> owed,
                                 late |-> late]]

LEMMA WaitMoves ==
    ASSUME IInv, NEW w \in Waits, NEW p, NEW left, NEW took, NEW owed, NEW late,
           WaitBecomes(w, p, left, took, owed, late),
           UNCHANGED <<last, checkpoints, file, thread, cache, reader, bounds, confVars>>,
           wait[w].took \subseteq took, pending' = pending \/ pending \subseteq took,
           owed \subseteq {t \in Threads : thread[t].pc \in Running \union {"done"}},
           p # "idle", p = "returned" => left = {},
           p \in {"joining", "returned"} =>
               \A t \in owed \ late :
                   Over(t) \/ t \in left \/ \E u \in Waits \ {w} : t \in wait[u].took
    PROVE  IInv'
  <1>. USE DEF IInv
  <1>1. /\ wait' = [u \in Waits |-> wait'[u]]
        /\ wait'[w] = [pc |-> p, left |-> left, took |-> took, owed |-> owed, late |-> late]
        /\ \A u \in Waits \ {w} : wait'[u] = wait[u]
    BY DEF WaitsOk, WaitBecomes
  <1>2. \A u \in Waits : wait[u].took \subseteq wait'[u].took
    BY <1>1
  <1>3. \A t : Over(t)' = Over(t)
    BY DEF Over
  <1>4. ASSUME NEW u \in Waits PROVE WaitOk(u)'
    <2>1. CASE u = w
      BY <1>1, <1>3, <2>1 DEF WaitOk
    <2>2. CASE u # w
      <3>1. WaitOk(u) /\ wait'[u] = wait[u]
        BY <1>1, <2>2 DEF WaitsOk
      <3>. QED
        BY <1>2, <1>3, <3>1 DEF WaitOk
    <2>. QED
      BY <2>1, <2>2
  <1>5. ASSUME NEW t \in InFlight'
        PROVE  t \in pending' \/ \E u \in Waits : t \in wait'[u].took
    <2>1. t \in InFlight
      BY <1>5 DEF InFlight
    <2>. QED
      BY <1>1, <1>2, <2>1 DEF WaitsOk
  <1>6. WaitsOk'
    BY <1>1, <1>4, <1>5 DEF WaitsOk
  <1>7. Grows /\ StreamsOk' /\ ConfigIInv' /\ look' = look
    BY NothingTaken, StreamsStay, ConfigStays DEF confVars
  <1>8. ReadersOk'
    BY <1>7, ReadersStay
  <1>. QED
    BY <1>6, <1>7, <1>8, AsideStep

\* What is in flight at the call is on the list, or was taken by another wait.
LEMMA TakePendingKeeps ==
    ASSUME IInv, NEW w \in Waits, TakePending(w)
    PROVE  IInv'
  <1>1. PICK taken, owed : taken = pending /\ owed = InFlight
    OBVIOUS
  <1>2. /\ UNCHANGED <<last, checkpoints, file, thread, cache, reader, bounds, confVars>>
        /\ wait[w].pc = "idle"
        /\ WaitBecomes(w, "joining", taken, taken, owed, {})
    BY <1>1 DEF TakePending, WaitBecomes
  <1>3. wait[w].took = {}
    BY <1>2 DEF IInv, WaitsOk, WaitOk
  <1>4. owed \subseteq {t \in Threads : thread[t].pc \in Running \union {"done"}}
    BY <1>1 DEF InFlight, Running
  <1>5. ASSUME NEW t \in owed
        PROVE  t \in taken \/ \E u \in Waits \ {w} : t \in wait[u].took
    BY <1>1, <1>3 DEF IInv, WaitsOk
  <1>. QED
    BY <1>1, <1>2, <1>3, <1>4, <1>5, WaitMoves

\* What a wait holds as it joins.
LEMMA JoiningIs ==
    ASSUME IInv, NEW w \in Waits, wait[w].pc = "joining"
    PROVE  \E left, took, owed, late :
              /\ wait[w] = [pc |-> "joining", left |-> left, took |-> took, owed |-> owed,
                            late |-> late]
              /\ owed \subseteq {t \in Threads : thread[t].pc \in Running \union {"done"}}
              /\ \A t \in owed \ late :
                    Over(t) \/ t \in left \/ \E u \in Waits \ {w} : t \in wait[u].took
  BY DEF IInv, WaitsOk, WaitOk

LEMMA JoinKeeps ==
    ASSUME IInv, NEW w \in Waits, NEW t \in Threads, Join(w, t)
    PROVE  IInv'
  <1>1. wait[w].pc = "joining"
    BY DEF Join
  <1>2. PICK left, took, owed, late :
              /\ wait[w] = [pc |-> "joining", left |-> left, took |-> took, owed |-> owed,
                            late |-> late]
              /\ owed \subseteq {u \in Threads : thread[u].pc \in Running \union {"done"}}
              /\ \A u \in owed \ late :
                    Over(u) \/ u \in left \/ \E y \in Waits \ {w} : u \in wait[y].took
    BY <1>1, JoiningIs
  <1>3. UNCHANGED <<last, checkpoints, file, thread, pending, cache, reader, bounds, confVars>>
    BY DEF Join, compactVars
  <1>4. CASE thread[t].pc = "start"
    <2>1. WaitBecomes(w, "raised", {}, took, owed, late)
      BY <1>2, <1>4 DEF Join, WaitBecomes
    <2>. QED
      BY <1>2, <1>3, <2>1, WaitMoves
  <1>5. CASE thread[t].pc = "done"
    <2>1. WaitBecomes(w, "joining", left \ {t}, took, owed, late)
      BY <1>2, <1>5 DEF Join, WaitBecomes
    <2>2. \A u \in owed \ late :
              Over(u) \/ u \in left \ {t} \/ \E y \in Waits \ {w} : u \in wait[y].took
      BY <1>2, <1>5 DEF Over
    <2>. QED
      BY <1>2, <1>3, <2>1, <2>2, WaitMoves
  <1>6. CASE thread[t].pc \notin {"start", "done"}
    <2>1. WaitBecomes(w, "joining", left \ {t}, took, owed, late \union {t})
      <3>1. wait' = [wait EXCEPT ![w] =
                [pc |-> "joining", left |-> wait[w].left \ {t}, took |-> wait[w].took,
                 owed |-> wait[w].owed, late |-> wait[w].late \union {t}]]
        BY <1>6 DEF Join
      <3>2. /\ wait[w].left = left /\ wait[w].took = took /\ wait[w].owed = owed
            /\ wait[w].late = late
        BY <1>2
      <3>. QED
        BY <3>1, <3>2 DEF WaitBecomes
    <2>. QED
      BY <1>2, <1>3, <2>1, WaitMoves
  <1>. QED
    BY <1>4, <1>5, <1>6

LEMMA JoinAllKeeps ==
    ASSUME IInv, NEW w \in Waits, JoinAll(w)
    PROVE  IInv'
  <1>1. wait[w].pc = "joining" /\ wait[w].left = {}
    BY DEF JoinAll
  <1>2. PICK left, took, owed, late :
              /\ wait[w] = [pc |-> "joining", left |-> left, took |-> took, owed |-> owed,
                            late |-> late]
              /\ owed \subseteq {u \in Threads : thread[u].pc \in Running \union {"done"}}
              /\ \A u \in owed \ late :
                    Over(u) \/ u \in left \/ \E y \in Waits \ {w} : u \in wait[y].took
    BY <1>1, JoiningIs
  <1>3. UNCHANGED <<last, checkpoints, file, thread, pending, cache, reader, bounds, confVars>>
    BY DEF JoinAll, compactVars
  <1>4. WaitBecomes(w, "returned", left, took, owed, late)
    <2>1. PICK wt : wt = wait[w]
      OBVIOUS
    <2>2. [wt EXCEPT !.pc = "returned"] = [pc |-> "returned", left |-> left, took |-> took,
                                           owed |-> owed, late |-> late]
      BY <1>2, <2>1
    <2>3. wait' = [wait EXCEPT ![w] = [wt EXCEPT !.pc = "returned"]]
      BY <2>1 DEF JoinAll
    <2>. QED
      BY <2>2, <2>3 DEF WaitBecomes
  <1>5. left = {}
    BY <1>1, <1>2
  <1>. QED
    BY <1>2, <1>3, <1>4, <1>5, WaitMoves

-----------------------------------------------------------------------------
\* A restart ends threads, reads and waits and empties the caches.
LEMMA RestartKeeps ==
    ASSUME IInv, Restart
    PROVE  IInv'
  <1>. USE DEF IInv
  <1>1. /\ UNCHANGED <<last, checkpoints, file, failures, scope, confRows>>
        /\ restarts < scope.restarts /\ restarts' = restarts + 1
    BY DEF Restart
  <1>2. Bounds' /\ failures' + restarts' # 0
    BY <1>1, ScopeIs DEF Bounds
  <1>3. ConfigIInv'
    <2>1. /\ confCache' = [k \in Keys |-> "unfilled"] /\ raced' = {}
          /\ look' = [t \in Lookers |-> LookIdle]
          /\ set' = [e \in Setters |->
                        IF e \in Committing THEN [set[e] EXCEPT !.pc = "gone"] ELSE set[e]]
      BY DEF Restart
    <2>2. LookOk(LookIdle) /\ Fresh(LookIdle)
      BY GlobalIsKey DEF LookOk, Fresh, LookIdle
    <2>3. \A t \in Lookers : LookOk(look[t])' /\ Fresh(look[t])'
      BY <2>1, <2>2 DEF LookOk, Fresh, LookIdle
    <2>4. ASSUME NEW e \in Setters
          PROVE  set'[e] = [pc |-> set'[e].pc, found |-> set'[e].found]
      <3>1. set[e] = [pc |-> set[e].pc, found |-> set[e].found]
        BY DEF ConfigIInv, ConfigShape
      <3>. QED
        BY <2>1, <3>1
    <2>5. ConfigShape'
      BY <1>1, <2>1, <2>3, <2>4 DEF ConfigIInv, ConfigShape
    <2>6. ConfigFresh'
      BY <2>1, <2>3 DEF ConfigFresh
    <2>. QED
      BY <2>5, <2>6 DEF ConfigIInv
  <1>4. StreamsOk' /\ FilesOk' /\ Grows
    <2>1. cache' = [s \in Streams |-> Unset]
      BY DEF Restart
    <2>2. StreamsOk'
      BY <1>1, <2>1 DEF StreamsOk, StreamOk, Registered
    <2>. QED
      BY <1>1, <2>2, FilesStay, NothingTaken
  <1>5. /\ thread' = [t \in Threads |-> thread'[t]]
        /\ \A t \in Threads : thread'[t] = IF thread[t].pc = "idle" THEN thread[t]
                                           ELSE [pc |-> "done", seen |-> 0, snapshot |-> 0]
    BY DEF Restart, At
  <1>6. ThreadsOk'
    <2>1. ASSUME NEW t \in Threads PROVE ThreadOk(t)'
      <3>1. /\ ThreadOk(t) /\ t[1] \in Streams /\ last[t[1]] \in Nat /\ MaxVersion \in Nat
        BY ThreadParts, CheckpointAssumption DEF ThreadsOk, StreamsOk, StreamOk
      <3>2. CASE thread[t].pc = "idle"
        BY <1>1, <1>5, <3>1, <3>2 DEF ThreadOk
      <3>3. CASE thread[t].pc # "idle"
        BY <1>1, <1>5, <3>1, <3>3 DEF ThreadOk, Places
      <3>. QED
        BY <3>2, <3>3
    <2>. QED
      BY <1>5, <2>1 DEF ThreadsOk
  <1>7. ReadersOk'
    <2>1. /\ reader' = [r \in Readers |-> reader'[r]]
          /\ \A r \in Readers :
                reader'[r] = IF reader[r].pc \in {"load", "tail"}
                             THEN [Idle EXCEPT !.pc = "gone"] ELSE reader[r]
      BY DEF Restart
    <2>2. ASSUME NEW r \in Readers PROVE ReaderOk(r)'
      <3>1. CASE reader[r].pc \in {"load", "tail"}
        BY <2>1, <3>1 DEF ReaderOk, Idle
      <3>2. CASE reader[r].pc \notin {"load", "tail"}
        BY <1>1, <2>1, <3>2 DEF ReadersOk, ReaderOk
      <3>. QED
        BY <3>1, <3>2
    <2>. QED
      BY <2>1, <2>2 DEF ReadersOk
  <1>8. WaitsOk'
    <2>1. /\ wait' = [w \in Waits |-> wait'[w]]
          /\ \A w \in Waits :
                wait'[w] = IF wait[w].pc = "joining" THEN [wait[w] EXCEPT !.pc = "gone"]
                           ELSE wait[w]
      BY DEF Restart
    <2>2. \A t \in Threads : /\ thread'[t].pc \notin Running
                             /\ thread[t].pc \in Running \union {"done"} => thread'[t].pc = "done"
      BY <1>5 DEF Running, Compacting
    <2>3. InFlight' = {}
      BY <2>2 DEF InFlight, Running
    <2>4. ASSUME NEW w \in Waits PROVE WaitOk(w)'
      <3>1. WaitOk(w)
        BY DEF WaitsOk
      <3>2. CASE wait[w].pc = "joining"
        <4>1. wait'[w] = [pc |-> "gone", left |-> wait[w].left, took |-> wait[w].took,
                          owed |-> wait[w].owed, late |-> wait[w].late]
          <5>1. PICK wt : wt = wait[w]
            OBVIOUS
          <5>2. wt = [pc |-> wt.pc, left |-> wt.left, took |-> wt.took, owed |-> wt.owed,
                      late |-> wt.late]
            BY <3>1, <5>1 DEF WaitOk
          <5>3. [wt EXCEPT !.pc = "gone"] =
                    [pc |-> "gone", left |-> wt.left, took |-> wt.took, owed |-> wt.owed,
                     late |-> wt.late]
            BY <5>2
          <5>. QED
            BY <2>1, <3>2, <5>1, <5>3
        <4>. QED
          BY <2>2, <3>1, <4>1 DEF WaitOk
      <3>3. CASE wait[w].pc # "joining"
        BY <2>1, <2>2, <3>1, <3>3 DEF WaitOk, Over
      <3>. QED
        BY <3>2, <3>3
    <2>. QED
      BY <2>1, <2>3, <2>4 DEF WaitsOk
  <1>9. Unharmed'
    BY <1>2 DEF Unharmed
  <1>. QED
    BY <1>2, <1>3, <1>4, <1>6, <1>7, <1>8, <1>9

-----------------------------------------------------------------------------
\* Reads.
LEMMA ReadMoves ==
    ASSUME IInv, NEW r \in Readers, NEW new, reader' = [reader EXCEPT ![r] = new],
           UNCHANGED <<last, compactVars, cache, wait, bounds, confVars>>, ReaderOk(r)'
    PROVE  IInv'
  <1>. USE DEF IInv
  <1>1. UNCHANGED <<last, checkpoints, file, thread, pending, cache, wait, bounds, confVars>>
    BY DEF compactVars
  <1>2. /\ reader' = [x \in Readers |-> reader'[x]]
        /\ \A x \in Readers \ {r} : reader'[x] = reader[x]
    BY DEF ReadersOk
  <1>3. ASSUME NEW x \in Readers \ {r} PROVE ReaderOk(x)'
    BY <1>1, <1>2 DEF ReadersOk, ReaderOk, Registered
  <1>4. ReadersOk'
    BY <1>2, <1>3 DEF ReadersOk
  <1>5. WaitsOk' /\ ConfigIInv' /\ look' = look
    BY <1>1, WaitsStay, ConfigStays DEF confVars
  <1>. QED
    BY <1>1, <1>4, <1>5, AsideStep

LEMMA NoRows ==
    ASSUME NEW s
    PROVE  Rows(s, 1, 0) = <<>>
  <1>1. 0 \in Nat
    OBVIOUS
  <1>2. Rows(s, 1, 0) = [i \in 1..0 |-> <<s, i>>]
    BY <1>1, RowsFromOne
  <1>. QED
    BY <1>2

LEMMA StartReadKeeps ==
    ASSUME IInv, NEW r \in Readers, NEW s \in Streams, NEW target \in 1..scope.versions[s],
           StartRead(r, s, target)
    PROVE  IInv'
  <1>. DEFINE usable == {v \in Registered(s) : v <= target}
  <1>1. PICK start, floor : /\ start = IF usable = {} THEN 0 ELSE Max(usable)
                           /\ floor = Min({last[s], target})
    OBVIOUS
  <1>2. target \in Nat /\ last[s] \in Nat /\ Registered(s) \subseteq 1..last[s]
    BY ScopeIs, CheckpointAssumption DEF IInv, StreamsOk, StreamOk
  <1>3. floor \in Nat /\ floor <= last[s] /\ floor <= target
    BY <1>1, <1>2, MinIs
  <1>4. start = 0 \/ (start \in Registered(s) /\ start <= target)
    <2>1. CASE usable = {}
      BY <1>1, <2>1
    <2>2. CASE usable # {}
      <3>1. usable \subseteq 0..last[s]
        BY <1>2
      <3>2. Max(usable) \in usable
        BY <1>2, <2>2, <3>1, GreatestNumber
      <3>. QED
        BY <1>1, <2>2, <3>2
    <2>. QED
      BY <2>1, <2>2
  <1>. DEFINE new == [pc |-> IF start = 0 THEN "tail" ELSE "load", stream |-> s,
                      target |-> target, floor |-> floor, base |-> start, rows |-> <<>>]
  <1>5. /\ reader' = [reader EXCEPT ![r] = new]
        /\ UNCHANGED <<last, compactVars, cache, wait, bounds, confVars>>
    BY <1>1 DEF StartRead
  <1>6. reader'[r] = new
    BY <1>5 DEF IInv, ReadersOk
  <1>7. ReaderOk(r)'
    BY <1>2, <1>3, <1>4, <1>5, <1>6, NoRows DEF ReaderOk, Registered, compactVars
  <1>. HIDE DEF new
  <1>. QED
    BY <1>5, <1>7, ReadMoves

\* A read that has given up.
LEMMA ErrorIs ==
    [Idle EXCEPT !.pc = "error"] = [pc |-> "error", stream |-> Unset, target |-> 0,
                                    floor |-> 0, base |-> 0, rows |-> <<>>]
  BY DEF Idle

\* What a read holds as it loads, and as it goes on.
LEMMA ReaderIs ==
    ASSUME IInv, NEW r \in Readers, reader[r].pc \in {"load", "tail"}
    PROVE  \E p, s, n, k, b, q :
              /\ reader[r] = [pc |-> p, stream |-> s, target |-> n, floor |-> k, base |-> b,
                              rows |-> q]
              /\ s \in Streams /\ n \in Nat /\ k \in Nat /\ k <= last[s] /\ k <= n
              /\ b \in 0..last[s] /\ b <= n /\ last[s] \in Nat
              /\ p = "load" => b \in Registered(s)
              /\ p = "tail" /\ Alone(s) => q = Rows(s, 1, b)
  <1>1. ReaderOk(r)
    BY DEF IInv, ReadersOk
  <1>2. PICK p, s, n, k, b, q :
            /\ reader[r] = [pc |-> p, stream |-> s, target |-> n, floor |-> k, base |-> b,
                            rows |-> q]
            /\ p = reader[r].pc /\ s = reader[r].stream /\ n = reader[r].target
            /\ k = reader[r].floor /\ b = reader[r].base /\ q = reader[r].rows
    BY <1>1 DEF ReaderOk
  <1>3. /\ s \in Streams /\ n \in Nat /\ k \in Nat /\ k <= last[s] /\ k <= n
        /\ p = "load" => b \in Registered(s) /\ b <= n
        /\ p = "tail" => b \in 0..last[s] /\ b <= n
        /\ p = "tail" /\ Alone(s) => q = Rows(s, 1, b)
        /\ p \in {"load", "tail"}
    BY <1>1, <1>2 DEF ReaderOk
  <1>4. last[s] \in Nat /\ Registered(s) \subseteq 1..last[s]
    BY <1>3, CheckpointAssumption DEF IInv, StreamsOk, StreamOk
  <1>5. b \in 0..last[s]
    BY <1>3, <1>4
  <1>. QED
    BY <1>2, <1>3, <1>4, <1>5

\* The file a read loads is whole only with a snapshot of the version it is
\* registered for, of the stream itself if it is alone in its directory.
LEMMA LoadedIs ==
    ASSUME IInv, NEW s \in Streams, NEW b \in Registered(s)
    PROVE  /\ checkpoints[s][b] \in Files
           /\ file[checkpoints[s][b]] \in
                  {NoFile, Partial} \union {Whole(Rows(u, 1, b)) : u \in Sharing(s)}
  <1>1. b \in 1..MaxVersion
    BY CheckpointAssumption DEF IInv, StreamsOk, StreamOk
  <1>2. PICK c \in Values : checkpoints[s][b] = FilePath(c, s, b)
    BY DEF IInv, StreamsOk, StreamOk
  <1>. QED
    BY <1>1, <1>2, FileIs DEF IInv, FilesOk

LEMMA LoadFileKeeps ==
    ASSUME IInv, NEW r \in Readers, LoadFile(r)
    PROVE  IInv'
  <1>1. reader[r].pc = "load"
    BY DEF LoadFile
  <1>2. PICK p, s, n, k, b, q :
              /\ reader[r] = [pc |-> p, stream |-> s, target |-> n, floor |-> k, base |-> b,
                              rows |-> q]
              /\ s \in Streams /\ n \in Nat /\ k \in Nat /\ k <= last[s] /\ k <= n
              /\ b \in 0..last[s] /\ b <= n /\ last[s] \in Nat
              /\ p = "load" => b \in Registered(s)
              /\ p = "tail" /\ Alone(s) => q = Rows(s, 1, b)
    BY <1>1, ReaderIs
  <1>3. PICK f : /\ f = file[checkpoints[s][b]]
                 /\ f = file[checkpoints[reader[r].stream][reader[r].base]]
    BY <1>2
  <1>4. f \in {NoFile, Partial} \union {Whole(Rows(u, 1, b)) : u \in Sharing(s)}
    BY <1>1, <1>2, <1>3, LoadedIs
  <1>5. UNCHANGED <<last, compactVars, cache, wait, bounds, confVars>>
    BY DEF LoadFile
  <1>6. CASE f.state = "whole"
    <2>1. PICK loaded : loaded = f.rows /\ (Alone(s) => loaded = Rows(s, 1, b))
      BY <1>4, <1>6, StatesApart DEF Alone
    <2>. DEFINE new == [pc |-> "tail", stream |-> s, target |-> n, floor |-> k, base |-> b,
                        rows |-> loaded]
    <2>2. reader' = [reader EXCEPT ![r] = new]
      <3>1. PICK rd : rd = reader[r]
        OBVIOUS
      <3>2. PICK x : x = [rd EXCEPT !.pc = "tail"]
        OBVIOUS
      <3>3. x = [pc |-> "tail", stream |-> s, target |-> n, floor |-> k, base |-> b, rows |-> q]
        BY <1>2, <3>1, <3>2
      <3>4. [x EXCEPT !.rows = f.rows] = new
        BY <2>1, <3>3
      <3>5. reader' = [reader EXCEPT ![r] = [rd EXCEPT !.pc = "tail", !.rows = f.rows]]
        BY <1>3, <1>6, <3>1 DEF LoadFile
      <3>. QED
        BY <3>2, <3>4, <3>5
    <2>3. reader'[r] = new
      BY <2>2 DEF IInv, ReadersOk
    <2>4. ReaderOk(r)'
      BY <1>2, <1>5, <2>1, <2>3 DEF ReaderOk, Registered
    <2>. HIDE DEF new
    <2>. QED
      BY <1>5, <2>2, <2>4, ReadMoves
  <1>7. CASE f.state # "whole"
    <2>. DEFINE new == [Idle EXCEPT !.pc = "error"]
    <2>1. reader' = [reader EXCEPT ![r] = new]
      BY <1>2, <1>3, <1>7 DEF LoadFile
    <2>2. reader'[r] = [pc |-> "error", stream |-> Unset, target |-> 0, floor |-> 0,
                        base |-> 0, rows |-> <<>>]
      BY <2>1, ErrorIs DEF IInv, ReadersOk
    <2>3. ReaderOk(r)'
      BY <2>2 DEF ReaderOk
    <2>. HIDE DEF new
    <2>. QED
      BY <1>5, <2>1, <2>3, ReadMoves
  <1>. QED
    BY <1>6, <1>7

\* The rows of the checkpoint and those after it make the prefix up to the
\* target, and neither the sort nor the filter changes it.
LEMMA ReadTailKeeps ==
    ASSUME IInv, NEW r \in Readers,
           NEW tenant \in {Unset} \union {TenantOf[s] : s \in {reader[r].stream} \cap Streams},
           ReadTail(r, tenant)
    PROVE  IInv'
  <1>1. reader[r].pc = "tail"
    BY DEF ReadTail
  <1>2. PICK p, s, n, k, b, q :
              /\ reader[r] = [pc |-> p, stream |-> s, target |-> n, floor |-> k, base |-> b,
                              rows |-> q]
              /\ s \in Streams /\ n \in Nat /\ k \in Nat /\ k <= last[s] /\ k <= n
              /\ b \in 0..last[s] /\ b <= n /\ last[s] \in Nat
              /\ p = "load" => b \in Registered(s)
              /\ p = "tail" /\ Alone(s) => q = Rows(s, 1, b)
    BY <1>1, ReaderIs
  <1>3. PICK m : m = Min({n, last[s]})
    OBVIOUS
  <1>4. m \in 0..last[s] /\ m <= n /\ k <= m /\ b <= m /\ m \in Nat /\ b \in Nat
    <2>1. m = IF n <= last[s] THEN n ELSE last[s]
      BY <1>2, <1>3, MinIs
    <2>. QED
      BY <1>2, <2>1
  <1>5. PICK z : z = RowsOf(tenant, SortByVersion(q \o Rows(s, b + 1, m)))
    OBVIOUS
  <1>6. ASSUME Alone(s) PROVE z = Rows(s, 1, m)
    <2>1. q = Rows(s, 1, b)
      BY <1>1, <1>2, <1>6
    <2>2. Rows(s, 1, b) \o Rows(s, b + 1, m) = Rows(s, 1, m)
      BY <1>4, RowsJoined
    <2>3. SortByVersion(q \o Rows(s, b + 1, m)) = Rows(s, 1, m)
      BY <1>4, <2>1, <2>2, SortedStays
    <2>4. tenant \in {Unset, TenantOf[s]}
      BY <1>2
    <2>5. RowsOf(tenant, Rows(s, 1, m)) = Rows(s, 1, m)
      BY <1>4, <2>4, FilterKeeps
    <2>. QED
      BY <1>5, <2>3, <2>5
  <1>7. UNCHANGED <<last, compactVars, cache, wait, bounds, confVars>>
    BY DEF ReadTail
  <1>. DEFINE new == [pc |-> "done", stream |-> s, target |-> n, floor |-> k, base |-> 0,
                      rows |-> z]
  <1>8. reader' = [reader EXCEPT ![r] = new]
    <2>1. PICK rd : rd = reader[r]
      OBVIOUS
    <2>2. rd.stream = s /\ rd.target = n /\ rd.base = b /\ rd.rows = q
      BY <1>2, <2>1
    <2>3. RowsOf(tenant, SortByVersion(rd.rows \o Rows(rd.stream, rd.base + 1,
                                                     Min({rd.target, last[rd.stream]}))))
          = z
      BY <1>3, <1>5, <2>2
    <2>4. reader' = [reader EXCEPT ![r] =
              [rd EXCEPT !.pc = "done",
                  !.rows = RowsOf(tenant, SortByVersion(rd.rows \o Rows(rd.stream, rd.base + 1,
                                                     Min({rd.target, last[rd.stream]})))),
                  !.base = 0]]
      BY <2>1 DEF ReadTail
    <2>5. reader' = [reader EXCEPT ![r] = [rd EXCEPT !.pc = "done", !.rows = z, !.base = 0]]
      BY <2>3, <2>4
    <2>6. PICK x : x = [rd EXCEPT !.pc = "done"]
      OBVIOUS
    <2>7. x = [pc |-> "done", stream |-> s, target |-> n, floor |-> k, base |-> b, rows |-> q]
      BY <1>2, <2>1, <2>6
    <2>8. PICK y : y = [x EXCEPT !.rows = z]
      OBVIOUS
    <2>9. y = [pc |-> "done", stream |-> s, target |-> n, floor |-> k, base |-> b,
               rows |-> z]
      BY <2>7, <2>8
    <2>10. [y EXCEPT !.base = 0] = new
      BY <2>9
    <2>. HIDE DEF new
    <2>. QED
      BY <2>5, <2>6, <2>8, <2>10
  <1>9. reader'[r] = new
    BY <1>8 DEF IInv, ReadersOk
  <1>10. ReaderOk(r)'
    BY <1>2, <1>4, <1>6, <1>7, <1>9 DEF ReaderOk, Registered
  <1>. HIDE DEF new
  <1>. QED
    BY <1>7, <1>8, <1>10, ReadMoves

-----------------------------------------------------------------------------
LEMMA StutterKeeps ==
    ASSUME IInv, UNCHANGED vars
    PROVE  IInv'
  <1>1. /\ UNCHANGED <<last, checkpoints, file, thread, pending, cache, reader, wait, bounds>>
        /\ UNCHANGED confVars
    BY DEF vars, compactVars
  <1>2. ConfigIInv' /\ look' = look /\ Grows /\ StreamsOk' /\ WaitsOk'
    BY <1>1, ConfigStays, NothingTaken, StreamsStay, WaitsStay DEF IInv, confVars
  <1>3. ReadersOk'
    BY <1>1, <1>2, ReadersStay DEF IInv
  <1>. QED
    BY <1>1, <1>2, <1>3, AsideStep

LEMMA NextKeepsIInv ==
    ASSUME IInv, [Next]_vars
    PROVE  IInv'
  <1>1. ASSUME NEW s \in Streams, NEW v \in 1..MaxVersion,
               AppendCommit(s, v) \/ GetStorageConfig(s, v) \/ MaybeCheckpoint(s, v)
        PROVE  IInv'
    BY <1>1, AppendCommitKeeps, GetStorageConfigKeeps, CheckCacheKeeps, LoadLastKeeps,
       FillVersionCacheKeeps, SpawnCheckpointKeeps, StartThreadKeeps DEF MaybeCheckpoint
  <1>2. ASSUME NEW s \in Streams, NEW v \in 1..MaxVersion,
               Compact(s, v) \/ CompactionFails(s, v)
        PROVE  IInv'
    BY <1>2, SelectRowsKeeps, LookUpKeeps, OpenFileKeeps, CloseFileKeeps, InsertKeeps,
       AdvanceKeeps, CompactionFailsKeeps DEF Compact
  <1>3. ASSUME NEW r \in Readers, Read(r) PROVE IInv'
    BY <1>3, StartReadKeeps, LoadFileKeeps, ReadTailKeeps DEF Read
  <1>4. ASSUME NEW w \in Waits, WaitForPendingCheckpoints(w) PROVE IInv'
    BY <1>4, TakePendingKeeps, JoinKeeps, JoinAllKeeps DEF WaitForPendingCheckpoints
  <1>5. ASSUME NEW e \in Setters, SetStorageConfig(e) PROVE IInv'
    BY <1>5, SetStorageConfigKeeps
  <1>6. CASE Restart
    BY <1>6, RestartKeeps
  <1>7. CASE UNCHANGED vars
    BY <1>7, StutterKeeps
  <1>. QED
    BY <1>1, <1>2, <1>3, <1>4, <1>5, <1>6, <1>7 DEF Next

\* The strengthening holds of every run.
THEOREM IInvAlways == Spec => []IInv
  <1>1. IInv /\ [Next]_vars => IInv'
    BY NextKeepsIInv
  <1>. QED
    BY InitIInv, <1>1, PTL DEF Spec

-----------------------------------------------------------------------------
LEMMA TypesHold == IInv => TypeOK
  <1>. SUFFICES ASSUME IInv PROVE TypeOK
    OBVIOUS
  <1>1. ConfigTypeOK
    BY DEF IInv, ConfigIInv, ConfigShape, ConfigTypeOK
  <1>2. last \in [Streams -> 0..MaxVersion]
    BY DEF IInv, StreamsOk, StreamOk
  <1>3. \A f \in Files : file[f].state \in {"none", "partial", "whole"}
    <2>. SUFFICES ASSUME NEW f \in Files PROVE file[f].state \in {"none", "partial", "whole"}
      OBVIOUS
    <2>1. PICK c \in Values, s \in Streams, v \in 1..MaxVersion : f = FilePath(c, s, v)
      BY DEF Files, FilePath
    <2>2. file[f] \in {NoFile, Partial} \union {Whole(Rows(u, 1, v)) : u \in Sharing(s)}
      BY <2>1 DEF IInv, FilesOk
    <2>3. NoFile.state = "none" /\ Partial.state = "partial" /\ \A q : Whole(q).state = "whole"
      BY DEF NoFile, Partial, Whole
    <2>. QED
      BY <2>2, <2>3
  <1>4. ASSUME NEW s \in Streams
        PROVE  Registered(s) \subseteq 1..last[s] /\ cache[s] \in {Unset} \union (0..MaxVersion)
    BY DEF IInv, StreamsOk, StreamOk
  <1>5. ASSUME NEW t \in Threads
        PROVE  /\ thread[t].pc \in Compacting \union {"idle", "config", "check", "load", "fill",
                                               "register", "start", "advance", "done"}
               /\ thread[t].seen \in 0..MaxVersion
               /\ Snapshot(t) \in 0..last[t[1]]
    BY DEF IInv, ThreadsOk, ThreadOk, Places, Snapshot
  <1>6. failures \in 0..scope.failures /\ restarts \in 0..scope.restarts
    BY DEF IInv, Bounds
  <1>. QED
    BY <1>1, <1>2, <1>3, <1>4, <1>5, <1>6 DEF TypeOK

LEMMA CheckpointHolds == IInv => CheckpointInv
  <1>. SUFFICES ASSUME IInv PROVE CheckpointInv
    OBVIOUS
  <1>1. CacheNeverAhead
    <2>. SUFFICES ASSUME NEW s \in Streams, cache[s] # Unset
                  PROVE  cache[s] <= MaxCheckpoint(s)
      BY DEF CacheNeverAhead
    <2>1. cache[s] \in Nat /\ (cache[s] = 0 \/ \E v \in Registered(s) : cache[s] <= v)
      BY CheckpointAssumption DEF IInv, StreamsOk, StreamOk, Reached
    <2>2. /\ MaxCheckpoint(s) \in 0..last[s] /\ last[s] \in Nat
          /\ Registered(s) \subseteq 1..last[s]
          /\ \A v \in Registered(s) : v <= MaxCheckpoint(s)
      BY MaxCheckpointIs, CheckpointAssumption DEF IInv, StreamsOk, StreamOk
    <2>. QED
      BY <2>1, <2>2
  <1>2. CheckpointsAreSnapshots
    BY LoadedIs DEF CheckpointsAreSnapshots
  <1>3. StaleOnlyAfterRace
    BY DEF IInv, ConfigIInv, ConfigFresh, StaleOnlyAfterRace
  <1>4. WaitsAreHonest
    BY DEF IInv, WaitsOk, WaitOk, WaitsAreHonest, Over
  <1>. QED
    BY <1>1, <1>2, <1>3, <1>4, TypesHold DEF CheckpointInv

\* The types hold, the cache of a stream never runs ahead of its checkpoints,
\* each registered checkpoint is a full snapshot of its version, of its stream or
\* of one that shares its directory, the cached StorageConfig is stale only after
\* a race, and waits are honest: whatever commits, compactions, failures,
\* restarts, sets and reads interleave.
THEOREM CheckpointInvAlways == Spec => []CheckpointInv
  BY IInvAlways, CheckpointHolds, PTL

LEMMA ReadsHold == IInv => ReadsExact
  <1>. SUFFICES ASSUME IInv, NEW r \in Readers, reader[r].pc = "done", Alone(reader[r].stream)
                PROVE  \E k \in reader[r].floor..Min({last[reader[r].stream], reader[r].target}) :
                           reader[r].rows = Rows(reader[r].stream, 1, k)
    BY DEF ReadsExact
  <1>1. PICK s, n, floor, q : /\ s = reader[r].stream /\ n = reader[r].target
                              /\ floor = reader[r].floor /\ q = reader[r].rows
    OBVIOUS
  <1>2. /\ s \in Streams /\ n \in Nat /\ floor \in Nat
        /\ \E k \in 0..last[s] : floor <= k /\ k <= n /\ q = Rows(s, 1, k)
    BY <1>1 DEF IInv, ReadersOk, ReaderOk
  <1>3. PICK k \in 0..last[s] : floor <= k /\ k <= n /\ q = Rows(s, 1, k)
    BY <1>2
  <1>4. last[s] \in Nat
    BY <1>2, CheckpointAssumption DEF IInv, StreamsOk, StreamOk
  <1>5. PICK m : m = Min({last[s], n})
    OBVIOUS
  <1>6. m = IF last[s] <= n THEN last[s] ELSE n
    BY <1>2, <1>4, <1>5, MinIs
  <1>7. k \in floor..m
    BY <1>2, <1>3, <1>4, <1>6
  <1>. QED
    BY <1>1, <1>3, <1>5, <1>7

\* A read of a stream that is alone in its directory returns a prefix of that
\* stream: every commit from 1 on, once, in order, to its target or as far as the
\* log went while it ran.  Of a stream that is not, it may replay another's rows.
THEOREM ReadsExactAlways == Spec => []ReadsExact
  BY IInvAlways, ReadsHold, PTL

-----------------------------------------------------------------------------
\* Only a load of its file ends a read in an error.
LEMMA OnlyLoadFails ==
    ASSUME IInv, [Next]_vars, NEW r \in Readers, reader[r].pc = "load",
           reader'[r].pc = "error"
    PROVE  LoadFile(r)
  <1>1. reader' # reader
    OBVIOUS
  <1>2. ASSUME NEW s \in Streams, NEW v \in 1..MaxVersion
        PROVE  ~(AppendCommit(s, v) \/ GetStorageConfig(s, v) \/ MaybeCheckpoint(s, v)
                 \/ Compact(s, v) \/ CompactionFails(s, v))
    BY <1>1 DEF AppendCommit, GetStorageConfig, MaybeCheckpoint, CheckCache, LoadLast,
       FillVersionCache, SpawnCheckpoint, StartThread, Compact, SelectRows, LookUp, OpenFile,
       CloseFile, Insert, Advance, CompactionFails
  <1>3. ASSUME NEW w \in Waits PROVE ~WaitForPendingCheckpoints(w)
    BY <1>1 DEF WaitForPendingCheckpoints, TakePending, Join, JoinAll
  <1>4. ASSUME NEW e \in Setters PROVE ~SetStorageConfig(e)
    BY <1>1 DEF SetStorageConfig
  <1>5. ~Restart
    <2>1. [Idle EXCEPT !.pc = "gone"].pc = "gone"
      BY DEF Idle
    <2>. QED
      BY <2>1 DEF Restart
  <1>6. ~UNCHANGED vars
    BY <1>1 DEF vars
  <1>7. PICK x \in Readers : Read(x)
    BY <1>2, <1>3, <1>4, <1>5, <1>6 DEF Next
  <1>8. x = r
    <2>. SUFFICES ASSUME x # r PROVE FALSE
      OBVIOUS
    <2>1. reader = [y \in Readers |-> reader[y]]
      BY DEF IInv, ReadersOk
    <2>2. \E new : reader' = [reader EXCEPT ![x] = new]
      BY <1>7 DEF Read, StartRead, LoadFile, ReadTail
    <2>3. reader'[r] = reader[r]
      BY <2>1, <2>2
    <2>. QED
      BY <2>3
  <1>. QED
    BY <1>7, <1>8 DEF Read, StartRead, ReadTail

LEMMA FailsUnderRewrite ==
    ASSUME IInv, NEW r \in Readers, reader[r].pc = "load", LoadFile(r),
           reader'[r].pc = "error", failures + restarts = 0
    PROVE  \E t, u \in Threads :
               /\ t # u /\ t[1] \in Sharing(reader[r].stream) /\ u[1] = reader[r].stream
               /\ thread[t].pc = "close" /\ Snapshot(t) = reader[r].base
               /\ thread[u].pc \in {"refresh", "advance", "done"}
               /\ t[2] <= reader[r].base /\ u[2] <= reader[r].base
  <1>1. PICK s, b : s = reader[r].stream /\ b = reader[r].base
    OBVIOUS
  <1>2. s \in Streams /\ b \in Registered(s)
    BY <1>1 DEF IInv, ReadersOk, ReaderOk
  <1>3. b \in 1..MaxVersion
    BY <1>2, CheckpointAssumption DEF IInv, StreamsOk, StreamOk
  <1>4. PICK c \in Values : checkpoints[s][b] = FilePath(c, s, b)
    BY <1>2 DEF IInv, StreamsOk, StreamOk
  <1>5. PICK f : f = checkpoints[s][b]
    OBVIOUS
  <1>6. file[f].state # "whole"
    <2>. SUFFICES ASSUME file[f].state = "whole" PROVE FALSE
      OBVIOUS
    <2>1. PICK rd, rows : rd = reader[r] /\ rows = file[f].rows
      OBVIOUS
    <2>2. reader' = [reader EXCEPT ![r] = [rd EXCEPT !.pc = "tail", !.rows = rows]]
      BY <1>1, <1>5, <2>1 DEF LoadFile
    <2>3. PICK x : x = [rd EXCEPT !.pc = "tail"]
      OBVIOUS
    <2>4. PICK p, st, n, k, bs, q :
              rd = [pc |-> p, stream |-> st, target |-> n, floor |-> k, base |-> bs, rows |-> q]
      BY <2>1 DEF IInv, ReadersOk, ReaderOk
    <2>5. x = [pc |-> "tail", stream |-> st, target |-> n, floor |-> k, base |-> bs, rows |-> q]
      BY <2>3, <2>4
    <2>6. [x EXCEPT !.rows = rows].pc = "tail"
      BY <2>5
    <2>7. reader'[r] = [x EXCEPT !.rows = rows]
      BY <2>2, <2>3 DEF IInv, ReadersOk
    <2>. QED
      BY <2>6, <2>7
  <1>7. f \in Files /\ file[f] = Partial
    <2>1. /\ f \in Files
          /\ file[f] \in {NoFile, Partial} \union {Whole(Rows(u, 1, b)) : u \in Sharing(s)}
      BY <1>2, <1>5, LoadedIs
    <2>2. file[f] # NoFile
      BY <1>2, <1>5 DEF IInv, Unharmed
    <2>. QED
      BY <1>6, <2>1, <2>2, StatesApart
  <1>8. PICK t \in Threads : thread[t].pc = "close" /\ Path(t) = f
    BY <1>7 DEF IInv, Unharmed
  <1>9. look[t].pc = "found" /\ t \in Lookers
    BY <1>8, CheckpointAssumption DEF IInv, ThreadsOk, ThreadOk
  <1>10. /\ t[2] <= Snapshot(t) /\ Path(t) = FilePath(look[t].value, t[1], Snapshot(t))
    BY <1>8, <1>9, PathIs
  <1>11. t[1] \in Sharing(s) /\ Snapshot(t) = b
    <2>1. FilePath(look[t].value, t[1], Snapshot(t)) = FilePath(c, s, b)
      BY <1>4, <1>5, <1>8, <1>10
    <2>2. t[1] \in Streams
      BY ThreadParts
    <2>. QED
      BY <1>2, <2>1, <2>2, PathsMeet
  <1>12. PICK x \in 1..b : thread[<<s, x>>].pc \in Landed
    BY <1>2 DEF IInv, Unharmed
  <1>13. PICK u : u = <<s, x>>
    OBVIOUS
  <1>14. x <= b /\ u[1] = s /\ u[2] = x /\ u \in Threads
    BY <1>2, <1>3, <1>12, <1>13, CheckpointAssumption, ThreadIs
  <1>15. t # u /\ thread[u].pc \in {"refresh", "advance", "done"}
    BY <1>8, <1>12, <1>13 DEF Landed
  <1>. QED
    BY <1>1, <1>8, <1>10, <1>11, <1>14, <1>15

\* A read of a registered checkpoint fails only while a thread of that stream, or
\* of one that shares its directory, rewrites the file over the same last version
\* after another had registered it, unless a compaction has failed or the process
\* has restarted.
THEOREM ReadFailsOnlyUnderRewriteAlways == Spec => ReadFailsOnlyUnderRewrite
  <1>1. ASSUME IInv, [Next]_vars
        PROVE  \A r \in Readers :
                  reader[r].pc = "load" /\ reader'[r].pc = "error" /\ failures + restarts = 0 =>
                      \E t, u \in Threads :
                          /\ t # u /\ t[1] \in Sharing(reader[r].stream) /\ u[1] = reader[r].stream
                          /\ thread[t].pc = "close" /\ Snapshot(t) = reader[r].base
                          /\ thread[u].pc \in {"refresh", "advance", "done"}
                          /\ t[2] <= reader[r].base /\ u[2] <= reader[r].base
    BY <1>1, OnlyLoadFails, FailsUnderRewrite
  <1>2. IInv /\ [Next]_vars =>
            [\A r \in Readers :
                reader[r].pc = "load" /\ reader'[r].pc = "error" /\ failures + restarts = 0 =>
                    \E t, u \in Threads :
                        /\ t # u /\ t[1] \in Sharing(reader[r].stream) /\ u[1] = reader[r].stream
                        /\ thread[t].pc = "close" /\ Snapshot(t) = reader[r].base
                        /\ thread[u].pc \in {"refresh", "advance", "done"}
                        /\ t[2] <= reader[r].base /\ u[2] <= reader[r].base]_vars
    BY <1>1
  <1>. QED
    BY IInvAlways, <1>2, PTL DEF Spec, ReadFailsOnlyUnderRewrite

-----------------------------------------------------------------------------
\* The log pipeline.  A call that runs alone finds what it left at each place; of a
\* call that does not, nothing is known but that the pipeline is disturbed.
AtRest == {"idle", "returned", "raised"}
ConfPlaces == AtRest \union {"check", "remove", "close", "forget", "build", "activate",
                             "structlog", "flag"}

ConfOk(t) ==
    /\ conf[t] = [pc |-> conf[t].pc, dest |-> conf[t].dest, handler |-> conf[t].handler,
                  alone |-> conf[t].alone]
    /\ conf[t].pc \in ConfPlaces /\ conf[t].alone \in BOOLEAN
    /\ conf[t].dest \in {"file", "none"}
    /\ conf[t].handler \in 0..built /\ (conf[t].pc \notin AtRest => conf[t].handler # 0)
    /\ conf[t].pc \in {"activate", "structlog"} => conf[t].dest = "file"

PipeTypes ==
    /\ conf = [t \in Callers |-> conf[t]] /\ \A t \in Callers : ConfOk(t)
    /\ {configured, disturbed, sound} \subseteq BOOLEAN /\ built \in Nat
    /\ root \subseteq 1..built /\ active \in 0..built
    /\ factory \in {"unset", "print", "stdlib"} /\ path \in {"file", "none"}

AloneOk(t) ==
    /\ \A u \in UnderWay : u = t
    /\ conf[t].pc = "build" => active = 0
    /\ conf[t].pc \in {"remove", "close", "forget"} => active # 0
    /\ conf[t].pc = "activate" => conf[t].handler \in root
    /\ conf[t].pc \in {"structlog", "flag"} /\ conf[t].dest = "file" =>
          active = conf[t].handler /\ conf[t].handler \in root
    /\ conf[t].pc = "flag" => \/ conf[t].dest = "file" /\ factory = "stdlib"
                              \/ conf[t].dest = "none" /\ factory = "print" /\ active = 0

\* The handlers on the root logger while no two calls have overlapped.
RootOk(t) ==
    /\ conf[t].pc \in {"check", "remove", "structlog", "flag"} => root \subseteq {active}
    /\ conf[t].pc \in {"close", "forget", "build"} => root = {}
    /\ conf[t].pc = "activate" => root \subseteq {conf[t].handler}

Sounds ==
    /\ UnderWay = {}
    /\ \/ factory = "stdlib" /\ active \in root
       \/ factory = "print" /\ active = 0

PipeIInv ==
    /\ PipeTypes
    /\ \A t \in UnderWay : conf[t].alone => AloneOk(t)
    /\ ~disturbed => \A t \in UnderWay : conf[t].alone /\ RootOk(t)
    /\ ~disturbed /\ UnderWay = {} => root \subseteq {active}
    /\ sound => Sounds

PipeStep ==
    \/ UNCHANGED log
    \/ \E t \in Callers :
          \/ Configure(t) \/ BuildFails(t) \/ ConfigFails(t) \/ Release(t)
          \/ \E argument \in {"file", "none"} : ReadConfig(t, argument)
    \/ \E p \in {"file", "none"} : SetRotationConfig(p)

-----------------------------------------------------------------------------
\* The state of no call is one that a call may have.
LEMMA IdleParts ==
    /\ ConfIdle.pc = "idle" /\ ConfIdle.dest = "none" /\ ConfIdle.handler = 0
    /\ ConfIdle.alone \in BOOLEAN
    /\ ConfIdle = [pc |-> ConfIdle.pc, dest |-> ConfIdle.dest,
                   handler |-> ConfIdle.handler, alone |-> ConfIdle.alone]
  <1>1. PICK b \in BOOLEAN : ConfIdle = [pc |-> "idle", dest |-> "none", handler |-> 0,
                                         alone |-> b]
    BY DEF ConfIdle
  <1>. QED
    BY <1>1

\* A call that another ran beside.
LEMMA NoLongerAlone ==
    ASSUME NEW c, NEW p, NEW d, NEW n, NEW a, NEW b,
           c = [pc |-> p, dest |-> d, handler |-> n, alone |-> a]
    PROVE  [c EXCEPT !.alone = b] = [pc |-> p, dest |-> d, handler |-> n, alone |-> b]
  OBVIOUS

\* A call goes on to the place w.
LEMMA ConfMoves ==
    ASSUME PipeTypes, NEW t \in Callers, NEW w \in ConfPlaces, ConfTo(t, w)
    PROVE  /\ conf' = [u \in Callers |-> conf'[u]]
           /\ conf'[t].pc = w /\ conf'[t].dest = conf[t].dest
           /\ conf'[t].handler = conf[t].handler /\ conf'[t].alone = conf[t].alone
           /\ conf'[t] = [pc |-> conf'[t].pc, dest |-> conf'[t].dest,
                          handler |-> conf'[t].handler, alone |-> conf'[t].alone]
           /\ \A u \in Callers : u # t => conf'[u] = conf[u]
  <1>1. PICK p, d, n, a : conf[t] = [pc |-> p, dest |-> d, handler |-> n, alone |-> a]
    BY DEF PipeTypes, ConfOk
  <1>2. conf' = [u \in Callers |-> IF u = t THEN [conf[t] EXCEPT !.pc = w] ELSE conf[u]]
    BY DEF PipeTypes, ConfTo
  <1>3. conf'[t] = [pc |-> w, dest |-> d, handler |-> n, alone |-> a]
    BY <1>1, <1>2
  <1>4. /\ conf'[t].pc = w /\ conf'[t].dest = conf[t].dest
        /\ conf'[t].handler = conf[t].handler /\ conf'[t].alone = conf[t].alone
    BY <1>1, <1>3
  <1>5. conf'[t] = [pc |-> conf'[t].pc, dest |-> conf'[t].dest,
                    handler |-> conf'[t].handler, alone |-> conf'[t].alone]
    BY <1>3
  <1>6. /\ conf' = [u \in Callers |-> conf'[u]]
        /\ \A u \in Callers : u # t => conf'[u] = conf[u]
    BY <1>2
  <1>. QED
    BY <1>4, <1>5, <1>6

\* The types after a step of a call.
LEMMA MoveTypes ==
    ASSUME PipeTypes, NEW t \in Callers, NEW w \in ConfPlaces \ {"idle"}, ConfTo(t, w),
           conf[t].pc \notin AtRest, w \in {"activate", "structlog"} => conf[t].dest = "file",
           UNCHANGED <<built, path, disturbed>>, {configured', sound'} \subseteq BOOLEAN,
           root' \subseteq 1..built, active' \in 0..built,
           factory' \in {"unset", "print", "stdlib"}
    PROVE  PipeTypes'
  <1>1. ConfOk(t)'
    BY ConfMoves DEF PipeTypes, ConfOk
  <1>2. ASSUME NEW u \in Callers, u # t PROVE ConfOk(u)'
    <2>1. conf'[u] = conf[u]
      BY <1>2, ConfMoves
    <2>. QED
      BY <2>1 DEF PipeTypes, ConfOk
  <1>3. conf' = [u \in Callers |-> conf'[u]]
    BY ConfMoves
  <1>4. {configured', disturbed', sound'} \subseteq BOOLEAN
    BY DEF PipeTypes
  <1>. QED
    BY <1>1, <1>2, <1>3, <1>4 DEF PipeTypes

\* A step of a call that has not run alone.
LEMMA DisturbedMove ==
    ASSUME PipeIInv, PipeTypes', NEW t \in Callers, NEW w \in ConfPlaces \ {"idle"},
           ConfTo(t, w), conf[t].pc \notin AtRest, ~conf[t].alone, UNCHANGED disturbed,
           sound' => sound \/ conf[t].alone
    PROVE  PipeIInv'
  <1>1. t \in UnderWay
    BY DEF UnderWay, AtRest
  <1>2. disturbed /\ ~sound
    BY <1>1 DEF PipeIInv, Sounds
  <1>3. \A u \in UnderWay : ~conf[u].alone
    BY <1>1 DEF PipeIInv, AloneOk
  <1>4. \A u \in UnderWay' : u \in UnderWay /\ conf'[u].alone = conf[u].alone
    BY <1>1, ConfMoves DEF UnderWay, PipeIInv
  <1>5. \A u \in UnderWay' : ~conf'[u].alone
    BY <1>3, <1>4
  <1>6. disturbed' /\ ~sound'
    BY <1>2
  <1>. QED
    BY <1>5, <1>6 DEF PipeIInv

\* A step of a call that has.
LEMMA AloneMove ==
    ASSUME PipeIInv, PipeTypes', NEW t \in Callers, NEW w \in ConfPlaces \ {"idle"},
           ConfTo(t, w), conf[t].pc \notin AtRest, conf[t].alone, UNCHANGED disturbed,
           w \notin AtRest => AloneOk(t)', ~disturbed /\ w \notin AtRest => RootOk(t)',
           ~disturbed /\ w \in AtRest => root' \subseteq {active'},
           sound' => w \in AtRest /\ ((factory' = "stdlib" /\ active' \in root')
                                      \/ (factory' = "print" /\ active' = 0))
    PROVE  PipeIInv'
  <1>1. t \in UnderWay
    BY DEF UnderWay, AtRest
  <1>2. \A u \in UnderWay : u = t
    BY <1>1 DEF PipeIInv, AloneOk
  <1>3. conf'[t].pc = w /\ conf'[t].alone /\ \A u \in Callers : u # t => conf'[u] = conf[u]
    BY ConfMoves DEF PipeIInv
  <1>4. \A u \in UnderWay' : u = t
    BY <1>2, <1>3 DEF UnderWay
  <1>5. w \in AtRest => UnderWay' = {}
    BY <1>3, <1>4 DEF UnderWay, AtRest
  <1>6. w \notin AtRest => t \in UnderWay'
    BY <1>3 DEF UnderWay, AtRest
  <1>7. \A u \in UnderWay' : AloneOk(u)' /\ conf'[u].alone /\ (~disturbed' => RootOk(u)')
    BY <1>3, <1>4, <1>5
  <1>8. ~disturbed' /\ UnderWay' = {} => root' \subseteq {active'}
    BY <1>6
  <1>9. sound' => Sounds'
    BY <1>5 DEF Sounds
  <1>. QED
    BY <1>7, <1>8, <1>9 DEF PipeIInv

-----------------------------------------------------------------------------
\* The steps of a call.
LEMMA RaiseKeeps ==
    ASSUME PipeIInv, NEW t \in Callers, conf[t].pc \in {"build", "close"}, Raise(t),
           conf[t].pc = "close" => active = 0
    PROVE  PipeIInv'
  <1>1. ConfTo(t, "raised") /\ "raised" \in ConfPlaces \ {"idle"} /\ conf[t].pc \notin AtRest
    BY DEF Raise, ConfPlaces, AtRest
  <1>2. PipeTypes'
    BY <1>1, MoveTypes DEF Raise, PipeIInv, PipeTypes
  <1>3. t \in UnderWay
    BY DEF UnderWay
  <1>4. ~sound
    BY <1>3 DEF PipeIInv, Sounds
  <1>5. CASE conf[t].alone
    <2>1. AloneOk(t)
      BY <1>3, <1>5 DEF PipeIInv
    <2>2. conf[t].pc = "build"
      BY <2>1 DEF AloneOk
    <2>3. ~disturbed => root' \subseteq {active'}
      BY <1>3, <2>2 DEF PipeIInv, RootOk, Raise
    <2>. QED
      BY <1>1, <1>2, <1>4, <1>5, <2>3, AloneMove DEF Raise, AtRest
  <1>6. CASE ~conf[t].alone
    BY <1>1, <1>2, <1>4, <1>6, DisturbedMove DEF Raise
  <1>. QED
    BY <1>5, <1>6 DEF PipeIInv, PipeTypes, ConfOk

\* What is known of a call that is under way.
LEMMA CallIs ==
    ASSUME PipeIInv, NEW t \in Callers, conf[t].pc \notin AtRest
    PROVE  /\ t \in UnderWay /\ ~sound /\ conf[t].alone \in BOOLEAN
           /\ conf[t].alone => AloneOk(t)
           /\ conf[t].alone /\ ~disturbed => RootOk(t)
           /\ ~disturbed => conf[t].alone
           /\ PipeTypes /\ ConfOk(t)
  <1>1. t \in UnderWay
    BY DEF UnderWay, AtRest
  <1>. QED
    BY <1>1 DEF PipeIInv, Sounds, PipeTypes, ConfOk

\* A call that is alone stays so as it goes on.
LEMMA StillAlone ==
    ASSUME PipeIInv, NEW t \in Callers, NEW w \in ConfPlaces \ {"idle"}, ConfTo(t, w),
           conf[t].pc \notin AtRest, conf[t].alone
    PROVE  \A u \in UnderWay' : u = t
  <1>1. \A u \in UnderWay : u = t
    BY CallIs DEF AloneOk
  <1>2. \A u \in Callers : u # t => conf'[u] = conf[u]
    BY ConfMoves DEF PipeIInv
  <1>. QED
    BY <1>1, <1>2 DEF UnderWay

\* A step of configure that leaves the handlers and the factory alone.
LEMMA QuietMoveKeeps ==
    ASSUME PipeIInv, NEW t \in Callers, CheckActive(t) \/ CloseHandler(t)
    PROVE  PipeIInv'
  <1>1. \E w \in {"forget", "remove", "build"} :
          /\ ConfTo(t, w) /\ conf[t].pc \in {"check", "close"}
          /\ UNCHANGED <<configured, active, root, factory, path, built, disturbed, sound>>
          /\ w \in {"forget", "remove"} => active # 0
          /\ w = "build" => active = 0
          /\ (w = "forget") <=> (conf[t].pc = "close")
    <2>1. CASE CloseHandler(t)
      BY <2>1 DEF CloseHandler, ConfAt
    <2>2. CASE CheckActive(t) /\ active = 0
      BY <2>2 DEF CheckActive, ConfAt
    <2>3. CASE CheckActive(t) /\ active # 0
      BY <2>3 DEF CheckActive, ConfAt
    <2>. QED
      BY <2>1, <2>2, <2>3
  <1>2. PICK w \in {"forget", "remove", "build"} :
          /\ ConfTo(t, w) /\ conf[t].pc \in {"check", "close"}
          /\ UNCHANGED <<configured, active, root, factory, path, built, disturbed, sound>>
          /\ w \in {"forget", "remove"} => active # 0
          /\ w = "build" => active = 0
          /\ (w = "forget") <=> (conf[t].pc = "close")
    BY <1>1
  <1>3. w \in ConfPlaces \ {"idle"} /\ conf[t].pc \notin AtRest
    BY <1>2 DEF ConfPlaces, AtRest
  <1>4. PipeTypes'
    BY <1>2, <1>3, MoveTypes DEF PipeIInv, PipeTypes
  <1>5. conf'[t].pc = w
    BY <1>2, <1>3, ConfMoves DEF PipeIInv
  <1>6. CASE conf[t].alone
    <2>1. AloneOk(t)'
      BY <1>2, <1>3, <1>5, <1>6, StillAlone DEF AloneOk
    <2>2. ASSUME ~disturbed PROVE RootOk(t)'
      <3>1. RootOk(t) /\ root \subseteq 1..built /\ built \in Nat
        BY <1>3, <1>6, <2>2, CallIs DEF PipeTypes
      <3>2. conf[t].pc = "check" => root \subseteq {active}
        BY <3>1 DEF RootOk
      <3>3. conf[t].pc = "close" \/ active = 0 => root = {}
        BY <1>2, <3>1, <3>2 DEF RootOk
      <3>. QED
        BY <1>2, <1>5, <3>2, <3>3 DEF RootOk
    <2>. QED
      BY <1>2, <1>3, <1>4, <1>6, <2>1, <2>2, CallIs, AloneMove DEF AtRest
  <1>7. CASE ~conf[t].alone
    BY <1>2, <1>3, <1>4, <1>7, DisturbedMove
  <1>. QED
    BY <1>3, <1>6, <1>7, CallIs

\* The active handler is taken off the root logger.
LEMMA RemoveKeeps ==
    ASSUME PipeIInv, NEW t \in Callers, RemoveHandler(t)
    PROVE  PipeIInv'
  <1>1. /\ ConfTo(t, "close") /\ conf[t].pc = "remove" /\ root' = root \ {active}
        /\ UNCHANGED <<configured, active, factory, path, built, disturbed, sound>>
    BY DEF RemoveHandler, ConfAt
  <1>2. "close" \in ConfPlaces \ {"idle"} /\ conf[t].pc \notin AtRest
    BY <1>1 DEF ConfPlaces, AtRest
  <1>3. PipeTypes'
    BY <1>1, <1>2, MoveTypes DEF PipeIInv, PipeTypes
  <1>4. conf'[t].pc = "close"
    BY <1>1, <1>2, ConfMoves DEF PipeIInv
  <1>5. CASE conf[t].alone
    <2>1. AloneOk(t)'
      BY <1>1, <1>2, <1>4, <1>5, CallIs, StillAlone DEF AloneOk
    <2>2. ~disturbed => RootOk(t)'
      BY <1>1, <1>2, <1>4, <1>5, CallIs DEF RootOk
    <2>. QED
      BY <1>1, <1>2, <1>3, <1>5, <2>1, <2>2, CallIs, AloneMove DEF AtRest
  <1>6. CASE ~conf[t].alone
    BY <1>1, <1>2, <1>3, <1>6, DisturbedMove
  <1>. QED
    BY <1>2, <1>5, <1>6, CallIs

\* The closed handler is no longer the active one.
LEMMA ForgetKeeps ==
    ASSUME PipeIInv, NEW t \in Callers, ForgetHandler(t)
    PROVE  PipeIInv'
  <1>1. /\ ConfTo(t, "build") /\ conf[t].pc = "forget" /\ active' = 0
        /\ UNCHANGED <<configured, root, factory, path, built, disturbed, sound>>
    BY DEF ForgetHandler, ConfAt
  <1>2. "build" \in ConfPlaces \ {"idle"} /\ conf[t].pc \notin AtRest
    BY <1>1 DEF ConfPlaces, AtRest
  <1>3. PipeTypes'
    BY <1>1, <1>2, MoveTypes DEF PipeIInv, PipeTypes
  <1>4. conf'[t].pc = "build"
    BY <1>1, <1>2, ConfMoves DEF PipeIInv
  <1>5. CASE conf[t].alone
    <2>1. AloneOk(t)'
      BY <1>1, <1>2, <1>4, <1>5, CallIs, StillAlone DEF AloneOk
    <2>2. ~disturbed => RootOk(t)'
      BY <1>1, <1>2, <1>4, <1>5, CallIs DEF RootOk
    <2>. QED
      BY <1>1, <1>2, <1>3, <1>5, <2>1, <2>2, CallIs, AloneMove DEF AtRest
  <1>6. CASE ~conf[t].alone
    BY <1>1, <1>2, <1>3, <1>6, DisturbedMove
  <1>. QED
    BY <1>2, <1>5, <1>6, CallIs

\* The new handler is on the root logger, and not yet the active one.
LEMMA AddKeeps ==
    ASSUME PipeIInv, NEW t \in Callers, AddHandler(t)
    PROVE  PipeIInv'
  <1>1. /\ ConfTo(t, "activate") /\ conf[t].pc = "build" /\ conf[t].dest = "file"
        /\ root' = root \union {conf[t].handler}
        /\ UNCHANGED <<configured, active, factory, path, built, disturbed, sound>>
    BY DEF AddHandler, ConfAt
  <1>2. "activate" \in ConfPlaces \ {"idle"} /\ conf[t].pc \notin AtRest
    BY <1>1 DEF ConfPlaces, AtRest
  <1>3. PipeTypes'
    <2>1. conf[t].handler \in 0..built /\ conf[t].handler # 0 /\ built \in Nat
      BY <1>2, CallIs DEF PipeTypes, ConfOk
    <2>2. conf[t].handler \in 1..built /\ root \subseteq 1..built
      BY <2>1 DEF PipeIInv, PipeTypes
    <2>3. root' \subseteq 1..built
      BY <1>1, <2>2
    <2>. QED
      BY <1>1, <1>2, <2>3, MoveTypes DEF PipeIInv, PipeTypes
  <1>4. conf'[t].pc = "activate" /\ conf'[t].handler = conf[t].handler
    BY <1>1, <1>2, ConfMoves DEF PipeIInv
  <1>5. CASE conf[t].alone
    <2>1. AloneOk(t)'
      BY <1>1, <1>2, <1>4, <1>5, CallIs, StillAlone DEF AloneOk
    <2>2. ~disturbed => RootOk(t)'
      BY <1>1, <1>2, <1>4, <1>5, CallIs DEF RootOk
    <2>. QED
      BY <1>1, <1>2, <1>3, <1>5, <2>1, <2>2, CallIs, AloneMove DEF AtRest
  <1>6. CASE ~conf[t].alone
    BY <1>1, <1>2, <1>3, <1>6, DisturbedMove
  <1>. QED
    BY <1>2, <1>5, <1>6, CallIs

\* The new handler becomes the active one.
LEMMA ActivateKeeps ==
    ASSUME PipeIInv, NEW t \in Callers, ActivateHandler(t)
    PROVE  PipeIInv'
  <1>1. /\ ConfTo(t, "structlog") /\ conf[t].pc = "activate" /\ active' = conf[t].handler
        /\ UNCHANGED <<configured, root, factory, path, built, disturbed, sound>>
    BY DEF ActivateHandler, ConfAt
  <1>2. "structlog" \in ConfPlaces \ {"idle"} /\ conf[t].pc \notin AtRest
    BY <1>1 DEF ConfPlaces, AtRest
  <1>3. PipeTypes'
    <2>1. active' \in 0..built /\ conf[t].dest = "file"
      BY <1>1, <1>2, CallIs DEF PipeTypes, ConfOk
    <2>. QED
      BY <1>1, <1>2, <2>1, MoveTypes DEF PipeIInv, PipeTypes
  <1>4. /\ conf'[t].pc = "structlog" /\ conf'[t].handler = conf[t].handler
        /\ conf'[t].dest = conf[t].dest
    BY <1>1, <1>2, ConfMoves DEF PipeIInv
  <1>5. CASE conf[t].alone
    <2>1. AloneOk(t)'
      BY <1>1, <1>2, <1>4, <1>5, CallIs, StillAlone DEF AloneOk
    <2>2. ~disturbed => RootOk(t)'
      BY <1>1, <1>2, <1>4, <1>5, CallIs DEF RootOk
    <2>. QED
      BY <1>1, <1>2, <1>3, <1>5, <2>1, <2>2, CallIs, AloneMove DEF AtRest
  <1>6. CASE ~conf[t].alone
    BY <1>1, <1>2, <1>3, <1>6, DisturbedMove
  <1>. QED
    BY <1>2, <1>5, <1>6, CallIs

\* structlog gets the factory of the call's destination.
LEMMA StructlogKeeps ==
    ASSUME PipeIInv, NEW t \in Callers, ConfigureStructlog(t)
    PROVE  PipeIInv'
  <1>1. /\ ConfTo(t, "flag")
        /\ \/ conf[t].pc = "structlog"
           \/ conf[t].pc = "build" /\ conf[t].dest = "none"
        /\ factory' = IF conf[t].dest = "file" THEN "stdlib" ELSE "print"
        /\ UNCHANGED <<configured, active, root, path, built, disturbed, sound>>
    BY DEF ConfigureStructlog, ConfAt
  <1>2. "flag" \in ConfPlaces \ {"idle"} /\ conf[t].pc \notin AtRest
    BY <1>1 DEF ConfPlaces, AtRest
  <1>3. PipeTypes'
    BY <1>1, <1>2, MoveTypes DEF PipeIInv, PipeTypes
  <1>4. /\ conf'[t].pc = "flag" /\ conf'[t].handler = conf[t].handler
        /\ conf'[t].dest = conf[t].dest
    BY <1>1, <1>2, ConfMoves DEF PipeIInv
  <1>5. CASE conf[t].alone
    <2>1. AloneOk(t) /\ ConfOk(t)
      BY <1>2, <1>5, CallIs
    <2>2. AloneOk(t)'
      BY <1>1, <1>2, <1>4, <1>5, <2>1, StillAlone DEF AloneOk, ConfOk
    <2>3. ~disturbed => RootOk(t)'
      BY <1>1, <1>2, <1>4, <1>5, CallIs DEF RootOk
    <2>. QED
      BY <1>1, <1>2, <1>3, <1>5, <2>2, <2>3, CallIs, AloneMove DEF AtRest
  <1>6. CASE ~conf[t].alone
    BY <1>1, <1>2, <1>3, <1>6, DisturbedMove
  <1>. QED
    BY <1>2, <1>5, <1>6, CallIs

\* The call returns: if it ran alone, the pipeline sounds.
LEMMA FlagKeeps ==
    ASSUME PipeIInv, NEW t \in Callers, SetConfigured(t)
    PROVE  PipeIInv'
  <1>1. /\ ConfTo(t, "returned") /\ conf[t].pc = "flag" /\ configured' = TRUE
        /\ sound' = conf[t].alone
        /\ UNCHANGED <<active, root, factory, path, built, disturbed>>
    BY DEF SetConfigured, ConfAt
  <1>2. "returned" \in ConfPlaces \ {"idle"} /\ conf[t].pc \notin AtRest
    BY <1>1 DEF ConfPlaces, AtRest
  <1>3. PipeTypes'
    BY <1>1, <1>2, CallIs, MoveTypes DEF PipeIInv, PipeTypes
  <1>4. CASE conf[t].alone
    <2>1. \/ factory' = "stdlib" /\ active' \in root'
          \/ factory' = "print" /\ active' = 0
      BY <1>1, <1>2, <1>4, CallIs DEF AloneOk
    <2>2. ~disturbed => root' \subseteq {active'}
      BY <1>1, <1>2, <1>4, CallIs DEF RootOk
    <2>. QED
      BY <1>1, <1>2, <1>3, <1>4, <2>1, <2>2, CallIs, AloneMove DEF AtRest
  <1>5. CASE ~conf[t].alone
    BY <1>1, <1>2, <1>3, <1>5, DisturbedMove
  <1>. QED
    BY <1>2, <1>4, <1>5, CallIs

\* A call begins: the calls under way run alone no more.
LEMMA ReadConfigCalls ==
    ASSUME PipeTypes, NEW t \in Callers, NEW argument \in {"file", "none"},
           ReadConfig(t, argument)
    PROVE  /\ conf' = [u \in Callers |-> conf'[u]]
           /\ conf'[t].pc = "check" /\ conf'[t].alone = (UnderWay = {})
           /\ \A u \in Callers : u # t => /\ conf'[u].pc = conf[u].pc
                                          /\ u \in UnderWay => ~conf'[u].alone
           /\ \A u \in Callers : ConfOk(u)'
  <1>1. built \in Nat /\ built' = built + 1 /\ built' # 0
    BY DEF ReadConfig, PipeTypes
  <1>2. \A n : n \in 0..built => n \in 0..built'
    BY <1>1
  <1>3. built' \in 0..built'
    BY <1>1
  <1>4. conf' = [u \in Callers |-> conf'[u]]
    BY DEF ReadConfig
  <1>5. PICK d \in {"file", "none"} :
          conf'[t] = [pc |-> "check", handler |-> built', alone |-> UnderWay = {}, dest |-> d]
    BY DEF ReadConfig, PipeTypes
  <1>6. conf'[t].pc = "check" /\ conf'[t].alone = (UnderWay = {})
    BY <1>5
  <1>7. ConfOk(t)'
    <2>1. PICK b \in BOOLEAN :
            conf'[t] = [pc |-> "check", handler |-> built', alone |-> b, dest |-> d]
      BY <1>5
    <2>. QED
      BY <1>1, <1>3, <2>1 DEF ConfOk, ConfPlaces
  <1>8. ASSUME NEW u \in Callers, u # t
        PROVE  conf'[u].pc = conf[u].pc /\ (u \in UnderWay => ~conf'[u].alone) /\ ConfOk(u)'
    <2>1. ConfOk(u)
      BY DEF PipeTypes
    <2>2. PICK p, x, n, a : conf[u] = [pc |-> p, dest |-> x, handler |-> n, alone |-> a]
      BY <2>1 DEF ConfOk
    <2>3. CASE u \in UnderWay
      <3>1. conf'[u] = [conf[u] EXCEPT !.alone = FALSE]
        BY <1>8, <2>3 DEF ReadConfig
      <3>2. PICK b \in BOOLEAN : b = FALSE /\ conf'[u] = [conf[u] EXCEPT !.alone = b]
        BY <3>1
      <3>4. conf'[u] = [pc |-> p, dest |-> x, handler |-> n, alone |-> b]
        BY <2>2, <3>2, NoLongerAlone
      <3>3. /\ conf'[u].pc = conf[u].pc /\ conf'[u].dest = conf[u].dest
            /\ conf'[u].handler = conf[u].handler /\ conf'[u].alone = FALSE
            /\ conf'[u] = [pc |-> conf'[u].pc, dest |-> conf'[u].dest,
                           handler |-> conf'[u].handler, alone |-> conf'[u].alone]
        BY <2>2, <3>2, <3>4
      <3>. QED
        BY <1>2, <2>1, <3>3 DEF ConfOk
    <2>4. CASE u \notin UnderWay
      <3>1. conf'[u] = conf[u]
        BY <1>8, <2>4 DEF ReadConfig
      <3>. QED
        BY <1>2, <2>1, <2>4, <3>1 DEF ConfOk
    <2>. QED
      BY <2>3, <2>4
  <1>9. ASSUME NEW u \in Callers, u # t
        PROVE  conf'[u].pc = conf[u].pc /\ (u \in UnderWay => ~conf'[u].alone)
    BY <1>8, <1>9
  <1>10. ASSUME NEW u \in Callers PROVE ConfOk(u)'
    BY <1>7, <1>8
  <1>. QED
    BY <1>4, <1>6, <1>9, <1>10

\* A call begins, alone or beside another.
LEMMA ReadConfigKeeps ==
    ASSUME PipeIInv, NEW t \in Callers, NEW argument \in {"file", "none"},
           ReadConfig(t, argument)
    PROVE  PipeIInv'
  <1>1. /\ conf[t].pc = "idle" /\ disturbed' = (disturbed \/ UnderWay # {}) /\ ~sound'
        /\ sound' \in BOOLEAN /\ built' = built + 1
        /\ UNCHANGED <<configured, active, root, factory, path>>
    BY DEF ReadConfig, ConfAt
  <1>2. PipeTypes
    BY DEF PipeIInv
  <1>3. PipeTypes'
    <2>1. built' \in Nat /\ root' \subseteq 1..built' /\ active' \in 0..built'
      BY <1>1, <1>2 DEF PipeTypes
    <2>2. {configured', disturbed', sound'} \subseteq BOOLEAN
      BY <1>1, <1>2 DEF PipeTypes
    <2>3. conf' = [u \in Callers |-> conf'[u]] /\ \A u \in Callers : ConfOk(u)'
      BY <1>2, ReadConfigCalls
    <2>4. factory' \in {"unset", "print", "stdlib"} /\ path' \in {"file", "none"}
      BY <1>1, <1>2 DEF PipeTypes
    <2>. QED
      BY <2>1, <2>2, <2>3, <2>4 DEF PipeTypes
  <1>4. t \notin UnderWay /\ UnderWay' = UnderWay \union {t}
    BY <1>1, <1>2, ReadConfigCalls DEF UnderWay
  <1>5. conf'[t].pc = "check" /\ conf'[t].alone = (UnderWay = {})
    BY <1>2, ReadConfigCalls
  <1>6. \A u \in UnderWay' : conf'[u].alone => u = t /\ UnderWay = {}
    BY <1>2, <1>4, <1>5, ReadConfigCalls DEF UnderWay
  <1>7. \A u \in UnderWay' : conf'[u].alone => AloneOk(u)'
    BY <1>4, <1>5, <1>6 DEF AloneOk
  <1>8. ~disturbed' => \A u \in UnderWay' : conf'[u].alone /\ RootOk(u)'
    BY <1>1, <1>4, <1>5 DEF PipeIInv, RootOk
  <1>9. UnderWay' # {}
    BY <1>4
  <1>. QED
    BY <1>1, <1>3, <1>7, <1>8, <1>9 DEF PipeIInv

\* A call has ended, or is cut off.
LEMMA ReleaseKeeps ==
    ASSUME PipeIInv, NEW t \in Callers, Release(t)
    PROVE  PipeIInv'
  <1>1. /\ conf' = [conf EXCEPT ![t] = ConfIdle]
        /\ disturbed' = (disturbed \/ t \in UnderWay)
        /\ UNCHANGED <<configured, active, root, factory, path, built, sound>>
    BY DEF Release
  <1>2. conf' = [u \in Callers |-> conf'[u]] /\ conf'[t] = ConfIdle
        /\ \A u \in Callers : u # t => conf'[u] = conf[u]
    BY <1>1 DEF PipeIInv, PipeTypes
  <1>3. PipeTypes'
    <2>1. ConfOk(t)'
      BY <1>1, <1>2, IdleParts DEF ConfOk, ConfPlaces, AtRest, PipeIInv, PipeTypes
    <2>2. ASSUME NEW u \in Callers, u # t PROVE ConfOk(u)'
      <3>1. conf'[u] = conf[u] /\ built' = built
        BY <1>1, <1>2, <2>2
      <3>. QED
        BY <3>1 DEF PipeIInv, PipeTypes, ConfOk
    <2>3. {configured', disturbed', sound'} \subseteq BOOLEAN
      BY <1>1 DEF PipeIInv, PipeTypes
    <2>. QED
      BY <1>1, <1>2, <2>1, <2>2, <2>3 DEF PipeIInv, PipeTypes
  <1>4. UnderWay' = UnderWay \ {t}
    BY <1>2 DEF UnderWay, ConfIdle
  <1>5. \A u \in UnderWay' : u \in UnderWay /\ conf'[u] = conf[u]
    BY <1>2, <1>4 DEF UnderWay
  <1>6. ASSUME NEW u \in UnderWay', conf'[u].alone PROVE AloneOk(u)'
    <2>1. conf'[u] = conf[u] /\ AloneOk(u)
      BY <1>5, <1>6 DEF PipeIInv
    <2>. QED
      BY <1>1, <1>4, <2>1 DEF AloneOk
  <1>7. ASSUME ~disturbed', NEW u \in UnderWay' PROVE conf'[u].alone /\ RootOk(u)'
    <2>1. conf'[u] = conf[u] /\ conf[u].alone /\ RootOk(u)
      BY <1>1, <1>5, <1>7 DEF PipeIInv
    <2>. QED
      BY <1>1, <2>1 DEF RootOk
  <1>8. ~disturbed' /\ UnderWay' = {} => root' \subseteq {active'}
    BY <1>1, <1>4 DEF PipeIInv
  <1>9. sound' => Sounds'
    BY <1>1, <1>4 DEF PipeIInv, Sounds
  <1>. QED
    BY <1>3, <1>6, <1>7, <1>8, <1>9 DEF PipeIInv

\* A call whose row cannot be read raises before it has changed anything.
LEMMA ConfigFailsKeeps ==
    ASSUME PipeIInv, NEW t \in Callers, ConfigFails(t)
    PROVE  PipeIInv'
  <1>1. /\ ConfTo(t, "raised") /\ "raised" \in ConfPlaces /\ conf[t].pc = "idle"
        /\ UNCHANGED <<configured, active, root, factory, path, built, disturbed, sound>>
    BY DEF ConfigFails, ConfAt, Raise, ConfPlaces, AtRest
  <1>2. /\ conf' = [u \in Callers |-> conf'[u]]
        /\ conf'[t].pc = "raised" /\ conf'[t].dest = conf[t].dest
        /\ conf'[t].handler = conf[t].handler /\ conf'[t].alone = conf[t].alone
        /\ conf'[t] = [pc |-> conf'[t].pc, dest |-> conf'[t].dest,
                       handler |-> conf'[t].handler, alone |-> conf'[t].alone]
        /\ \A u \in Callers : u # t => conf'[u] = conf[u]
    BY <1>1, ConfMoves DEF PipeIInv
  <1>3. UnderWay' = UnderWay /\ \A u \in UnderWay : u # t
    BY <1>1, <1>2 DEF UnderWay
  <1>4. PipeTypes'
    <2>1. ConfOk(t)'
      BY <1>1, <1>2 DEF PipeIInv, PipeTypes, ConfOk, AtRest
    <2>2. ASSUME NEW u \in Callers, u # t PROVE ConfOk(u)'
      <3>1. conf'[u] = conf[u] /\ built' = built
        BY <1>1, <1>2, <2>2
      <3>. QED
        BY <3>1 DEF PipeIInv, PipeTypes, ConfOk
    <2>. QED
      BY <1>1, <1>2, <2>1, <2>2 DEF PipeIInv, PipeTypes
  <1>5. \A u \in UnderWay' : u \in UnderWay /\ conf'[u] = conf[u]
    BY <1>2, <1>3 DEF UnderWay
  <1>6. ASSUME NEW u \in UnderWay', conf'[u].alone PROVE AloneOk(u)'
    <2>1. conf'[u] = conf[u] /\ AloneOk(u)
      BY <1>5, <1>6 DEF PipeIInv
    <2>. QED
      BY <1>1, <1>3, <2>1 DEF AloneOk
  <1>7. ASSUME ~disturbed', NEW u \in UnderWay' PROVE conf'[u].alone /\ RootOk(u)'
    <2>1. conf'[u] = conf[u] /\ conf[u].alone /\ RootOk(u)
      BY <1>1, <1>5, <1>7 DEF PipeIInv
    <2>. QED
      BY <1>1, <2>1 DEF RootOk
  <1>8. /\ ~disturbed' /\ UnderWay' = {} => root' \subseteq {active'}
        /\ sound' => Sounds'
    BY <1>1, <1>3 DEF PipeIInv, Sounds
  <1>. QED
    BY <1>4, <1>6, <1>7, <1>8 DEF PipeIInv

\* What else a step may do: change the row, or nothing of the pipeline.
LEMMA PathKeeps ==
    ASSUME PipeIInv, path' \in {"file", "none"},
           UNCHANGED <<configured, active, root, factory, conf, built, disturbed, sound>>
    PROVE  PipeIInv'
  BY DEF PipeIInv, PipeTypes, ConfOk, UnderWay, AloneOk, RootOk, Sounds

\* At the start nothing is configured, or one call has returned.
LEMMA PipeInit ==
    ASSUME LogInit \/ LogConfigured
    PROVE  PipeIInv
  <1>1. conf = [t \in Callers |-> ConfIdle] /\ UnderWay = {} /\ ~disturbed
    BY DEF LogInit, LogConfigured, UnderWay, ConfIdle
  <1>2. built \in Nat /\ root \subseteq 1..built /\ active \in 0..built
    BY DEF LogInit, LogConfigured
  <1>3. \A t \in Callers : ConfOk(t)
    BY <1>1, <1>2, IdleParts DEF ConfOk, ConfPlaces, AtRest
  <1>4. {configured, disturbed, sound} \subseteq BOOLEAN
    BY DEF LogInit, LogConfigured
  <1>5. factory \in {"unset", "print", "stdlib"} /\ path \in {"file", "none"}
    BY DEF LogInit, LogConfigured
  <1>6. PipeTypes
    BY <1>1, <1>2, <1>3, <1>4, <1>5 DEF PipeTypes
  <1>7. root \subseteq {active} /\ (sound => Sounds)
    BY <1>1 DEF Sounds, LogInit, LogConfigured
  <1>. QED
    BY <1>1, <1>6, <1>7 DEF PipeIInv

\* Every step of configure keeps the pipeline's invariant.
LEMMA PipeStepKeeps ==
    ASSUME PipeIInv, PipeStep
    PROVE  PipeIInv'
  <1>1. ASSUME UNCHANGED log PROVE PipeIInv'
    BY <1>1, PathKeeps DEF log, PipeIInv, PipeTypes
  <1>2. ASSUME NEW t \in Callers, Configure(t) PROVE PipeIInv'
    <2>1. ASSUME CloseNone(t) PROVE PipeIInv'
      BY <2>1, RaiseKeeps DEF CloseNone, ConfAt
    <2>. QED
      BY <1>2, <2>1, QuietMoveKeeps, RemoveKeeps, ForgetKeeps, AddKeeps, ActivateKeeps,
         StructlogKeeps, FlagKeeps DEF Configure
  <1>3. ASSUME NEW t \in Callers, BuildFails(t) PROVE PipeIInv'
    BY <1>3, RaiseKeeps DEF BuildFails, ConfAt
  <1>4. ASSUME NEW p \in {"file", "none"}, SetRotationConfig(p) PROVE PipeIInv'
    BY <1>4, PathKeeps DEF SetRotationConfig
  <1>. QED
    BY <1>1, <1>2, <1>3, <1>4, ConfigFailsKeeps, ReleaseKeeps, ReadConfigKeeps DEF PipeStep

\* The handlers can be counted.
LEMMA LinesAre ==
    ASSUME PipeIInv
    PROVE  /\ built \in Nat /\ root \subseteq 1..built /\ active \in 0..built
           /\ IsFiniteSet(root) /\ Cardinality(root) \in Nat /\ Lines \in Nat
  <1>1. built \in Nat /\ root \subseteq 1..built /\ active \in 0..built
    BY DEF PipeIInv, PipeTypes
  <1>2. IsFiniteSet(1..built)
    BY <1>1, FS_Interval
  <1>3. IsFiniteSet(root)
    BY <1>1, <1>2, FS_Subset
  <1>4. Cardinality(root) \in Nat
    BY <1>3, FS_CardinalityType
  <1>. QED
    BY <1>1, <1>3, <1>4 DEF Lines

\* What the invariant says of the pipeline's properties.
LEMMA PipeIsSound ==
    ASSUME PipeIInv
    PROVE  LogTypeOK /\ SoundIsHeard /\ NoDoubleLines
  <1>1. /\ built \in Nat /\ root \subseteq 1..built /\ active \in 0..built
        /\ IsFiniteSet(root) /\ Cardinality(root) \in Nat
    BY LinesAre
  <1>2. LogTypeOK
    BY <1>1 DEF PipeIInv, PipeTypes, LogTypeOK
  <1>3. SoundIsHeard
    <2>1. CASE sound /\ factory = "stdlib" /\ active \in root
      <3>1. Cardinality(root) # 0 /\ active # 0
        BY <1>1, <2>1, FS_EmptySet
      <3>. QED
        BY <1>1, <2>1, <3>1 DEF SoundIsHeard, Heard, Lines
    <2>. QED
      BY <2>1 DEF SoundIsHeard, Heard, PipeIInv, Sounds
  <1>4. NoDoubleLines
    <2>. SUFFICES ASSUME ~disturbed PROVE Cardinality(root) <= 1
      BY <1>1 DEF NoDoubleLines
    <2>1. \E x : root \subseteq {x}
      BY DEF PipeIInv, RootOk, UnderWay, PipeTypes, ConfOk, ConfPlaces, AtRest
    <2>2. PICK x : root \subseteq {x}
      BY <2>1
    <2>3. IsFiniteSet({x}) /\ Cardinality({x}) = 1
      BY FS_Singleton
    <2>4. Cardinality(root) <= Cardinality({x})
      BY <2>2, <2>3, FS_Subset
    <2>. QED
      BY <2>3, <2>4
  <1>. QED
    BY <1>2, <1>3, <1>4

-----------------------------------------------------------------------------
\* The spans and their contexts.  A context is empty, a foreign one, or that of
\* a span; only a foreign one has a tracestate.
Ids == Nat \union {Foreign}
Contexts == [trace : Ids, span : Ids, state : BOOLEAN]
Blames == {"cost", "log", "pipeline", "export", "store", "interrupt"}

SpanRecords ==
    [task : Tasks, key : Keys, trace : Ids, parent : Ids,
     outcome : {"open", "returned", "raised"},
     host : {"inside", "open", "returned", "raised", "interrupted"},
     lines : Nat, stored : Nat, exported : BOOLEAN, blamed : SUBSET Blames,
     enclosed : BOOLEAN]

Frames == [span : Ids, kind : {"bound", "agent", "tool", "llm"}, saved : Contexts]

Emissions ==
    [at : {"idle", "cost", "logger", "configuring", "export", "lookup", "store", "reset"},
     frame : Nat, event : {"span", "warning"}, after : {"logger", "store", "reset"}]

SpanTypes ==
    /\ spans \in Seq(SpanRecords) /\ headers \subseteq Contexts
    /\ {ctx, base} \subseteq [Tasks -> Contexts]
    /\ frames \in [Tasks -> Seq(Frames)] /\ emit \in [Tasks -> Emissions]
    /\ entered \in [Tasks -> SUBSET Ids]
    /\ live \subseteq Tasks /\ disordered \subseteq live
    /\ spanScope \in SpanScopes

CtxOk(c) ==
    \/ c.trace = 0 /\ c.span = 0 /\ ~c.state
    \/ c.trace = Foreign /\ c.span = Foreign
    \/ c.span \in DOMAIN spans /\ c.trace = spans[c.span].trace /\ ~c.state

CtxsOk ==
    /\ \A h \in headers : CtxOk(h)
    /\ \A t \in Tasks : CtxOk(ctx[t]) /\ CtxOk(base[t])
    /\ \A t \in Tasks : \A i \in DOMAIN frames[t] : CtxOk(frames[t][i].saved)

\* A block is one that its task entered, and kept a context of its task's; that of
\* a span is the only one of that span.
FrameOk(t, i) ==
    LET f == frames[t][i] IN
    /\ f.span \in entered[t] /\ f.saved.span \in entered[t] \union {base[t].span}
    /\ f.kind # "bound" =>
          /\ f.span \in DOMAIN spans /\ spans[f.span].task = t
          /\ spans[f.span].host = "inside"
          /\ \A j \in DOMAIN frames[t] :
                j # i /\ frames[t][j].kind # "bound" => frames[t][j].span # f.span

FramesOk == \A t \in Tasks : \A i \in DOMAIN frames[t] : FrameOk(t, i)

\* A task that leaves its blocks from the innermost out.
Nested(t) ==
    /\ frames[t] = <<>> => ctx[t] = base[t]
    /\ frames[t] # <<>> => /\ ctx[t].span = frames[t][Len(frames[t])].span
                           /\ frames[t][1].saved = base[t]
    /\ \A i \in DOMAIN frames[t] :
          i > 1 => frames[t][i].saved.span = frames[t][i - 1].span
    /\ emit[t].at # "idle" => emit[t].frame = Len(frames[t])

TasksOk ==
    /\ \A t \in Tasks : ctx[t].span \in entered[t] \union {base[t].span}
    /\ \A t \in Tasks \ live : frames[t] = <<>> /\ emit[t].at = "idle"
    /\ \A t \in Tasks \ disordered : Nested(t)

ParentOk(s) ==
    LET p == spans[s].parent
        t == spans[s].task IN
    /\ t \in live /\ spans[s].trace \in DOMAIN spans \union {Foreign}
    /\ p \in DOMAIN spans \union {0, Foreign}
    /\ p \in DOMAIN spans => p < s /\ spans[p].trace = spans[s].trace
    /\ p = Foreign => spans[s].trace = Foreign
    /\ p = 0 => spans[s].trace = s
    /\ \/ p \in {0, base[t].span}
       \/ spans[s].enclosed
       \/ t \in disordered /\ p \in entered[t]

ParentsOk == \A s \in DOMAIN spans : ParentOk(s)

\* What has been made of a span, at each place of its emission.
LineOk(r) ==
    r.blamed \intersect {"log", "pipeline", "interrupt"} = {} =>
        r.lines = 1 \/ (r.lines > 1 /\ disturbed)

StoreOk(r) ==
    /\ r.stored = 1 \/ r.blamed \intersect {"store", "interrupt"} # {}
    /\ r.stored <= 1

Made(r, place) ==
    /\ place \in {"export", "lookup", "store"} => r.stored = 0 /\ LineOk(r)
    /\ place = "reset" => StoreOk(r) /\ LineOk(r)
    /\ place \in {"cost", "logger", "configuring"} => r.stored = 0

EmissionOk(t) ==
    LET e == emit[t]
        f == frames[t][e.frame] IN
    /\ e.at = "idle" => e.frame = 0 /\ e.event = "span"
    /\ e.event = "warning" => e.at \in {"logger", "configuring"}
    /\ e.at = "configuring" => conf[t].pc # "idle"
    /\ e.at # "idle" =>
          /\ e.frame \in DOMAIN frames[t]
          /\ f.kind = "bound" => e.at = "reset"
          /\ f.kind # "bound" =>
                Made(spans[f.span], IF e.event = "warning" THEN e.after ELSE e.at)

Untouched ==
    \A t \in Tasks : \A i \in DOMAIN frames[t] :
        i # emit[t].frame /\ frames[t][i].kind # "bound" => spans[frames[t][i].span].stored = 0

OutOk(s) ==
    spans[s].host # "inside" =>
        /\ spans[s].host = spans[s].outcome \/ "interrupt" \in spans[s].blamed
        /\ StoreOk(spans[s]) /\ LineOk(spans[s])

EmissionsOk ==
    /\ \A t \in Tasks : EmissionOk(t)
    /\ Untouched
    /\ \A s \in DOMAIN spans : OutOk(s)

SpanIInv == SpanTypes /\ CtxsOk /\ FramesOk /\ TasksOk /\ ParentsOk /\ EmissionsOk

-----------------------------------------------------------------------------
\* A block less.
LEMMA RemoveAtIs ==
    ASSUME NEW S, NEW s \in Seq(S), NEW i \in 1..Len(s)
    PROVE  /\ RemoveAt(s, i) \in Seq(S) /\ Len(RemoveAt(s, i)) = Len(s) - 1
           /\ \A j \in 1..(Len(s) - 1) : RemoveAt(s, i)[j] = IF j < i THEN s[j] ELSE s[j + 1]
  <1>. DEFINE n == Len(s)
              a == SubSeq(s, 1, i - 1)
              b == SubSeq(s, i + 1, n)
  <1>1. n \in Nat /\ i \in 1..n /\ \A j \in 1..n : s[j] \in S
    BY LenProperties, ElementOfSeq
  <1>. HIDE DEF n
  <1>2. 1 \in Int /\ i - 1 \in Int /\ i + 1 \in Int /\ n \in Int /\ i \in Int
    BY <1>1
  <1>3. /\ a \in Seq(S) /\ Len(a) = i - 1
        /\ \A j \in 1..(i - 1) : a[j] = s[j]
    <2>1. \A j \in 1..(i - 1) : s[j] \in S
      BY <1>1
    <2>2. /\ a \in Seq(S) /\ Len(a) = IF 1 <= i - 1 THEN (i - 1) - 1 + 1 ELSE 0
          /\ \A j \in 1..((i - 1) - 1 + 1) : a[j] = s[1 + j - 1]
      BY <1>2, <2>1, SubSeqProperties
    <2>3. Len(a) = i - 1
      BY <1>1, <2>2
    <2>4. \A j \in 1..(i - 1) : j \in 1..((i - 1) - 1 + 1) /\ 1 + j - 1 = j
      BY <1>1
    <2>. QED
      BY <2>2, <2>3, <2>4
  <1>4. /\ b \in Seq(S) /\ Len(b) = n - i
        /\ \A j \in 1..(n - i) : b[j] = s[i + j]
    <2>1. \A j \in (i + 1)..n : s[j] \in S
      BY <1>1
    <2>2. /\ b \in Seq(S) /\ Len(b) = IF i + 1 <= n THEN n - (i + 1) + 1 ELSE 0
          /\ \A j \in 1..(n - (i + 1) + 1) : b[j] = s[(i + 1) + j - 1]
      BY <1>2, <2>1, SubSeqProperties
    <2>3. Len(b) = n - i
      BY <1>1, <2>2
    <2>4. \A j \in 1..(n - i) : j \in 1..(n - (i + 1) + 1) /\ (i + 1) + j - 1 = i + j
      BY <1>1
    <2>. QED
      BY <2>2, <2>3, <2>4
  <1>5. /\ a \o b \in Seq(S) /\ Len(a \o b) = Len(a) + Len(b)
        /\ \A j \in 1..(Len(a) + Len(b)) :
              (a \o b)[j] = IF j <= Len(a) THEN a[j] ELSE b[j - Len(a)]
    BY <1>3, <1>4, ConcatProperties
  <1>6. RemoveAt(s, i) = a \o b
    BY DEF RemoveAt, n
  <1>. HIDE DEF a, b
  <1>7. Len(a) + Len(b) = n - 1
    BY <1>1, <1>3, <1>4
  <1>8. ASSUME NEW j \in 1..(n - 1)
        PROVE  (a \o b)[j] = IF j < i THEN s[j] ELSE s[j + 1]
    <2>1. CASE j < i
      <3>1. j \in 1..(i - 1) /\ j <= Len(a) /\ j \in 1..(Len(a) + Len(b))
        BY <1>1, <1>3, <1>7, <2>1
      <3>. QED
        BY <1>3, <1>5, <2>1, <3>1
    <2>2. CASE ~(j < i)
      <3>1. j - (i - 1) \in 1..(n - i) /\ ~(j <= Len(a)) /\ j \in 1..(Len(a) + Len(b))
        BY <1>1, <1>3, <1>7, <2>2
      <3>2. i + (j - (i - 1)) = j + 1
        BY <1>1
      <3>3. (a \o b)[j] = b[j - (i - 1)]
        BY <1>3, <1>5, <3>1
      <3>. QED
        BY <1>4, <2>2, <3>1, <3>2, <3>3
    <2>. QED
      BY <2>1, <2>2
  <1>. QED
    BY <1>5, <1>6, <1>7, <1>8 DEF n

-----------------------------------------------------------------------------
\* What a step changes of a span.
Same(r, q) ==
    /\ r.task = q.task /\ r.key = q.key /\ r.trace = q.trace /\ r.parent = q.parent
    /\ r.enclosed = q.enclosed

\* What each update of a span's record changes of it.
LEMMA OutcomeIs ==
    ASSUME NEW q \in SpanRecords, NEW o \in {"returned", "raised"}
    PROVE  LET r == [q EXCEPT !.outcome = o] IN
           /\ r \in SpanRecords /\ Same(r, q) /\ r.outcome = o /\ r.host = q.host
           /\ r.lines = q.lines /\ r.stored = q.stored /\ r.blamed = q.blamed
  BY DEF SpanRecords, Same

LEMMA HostIs ==
    ASSUME NEW q \in SpanRecords, NEW o \in {"open", "returned", "raised", "interrupted"}
    PROVE  LET r == [q EXCEPT !.host = o] IN
           /\ r \in SpanRecords /\ Same(r, q) /\ r.outcome = q.outcome /\ r.host = o
           /\ r.lines = q.lines /\ r.stored = q.stored /\ r.blamed = q.blamed
  BY DEF SpanRecords, Same

LEMMA StoredIs ==
    ASSUME NEW q \in SpanRecords
    PROVE  LET r == [q EXCEPT !.stored = @ + 1] IN
           /\ r \in SpanRecords /\ Same(r, q) /\ r.outcome = q.outcome /\ r.host = q.host
           /\ r.lines = q.lines /\ r.stored = q.stored + 1 /\ r.blamed = q.blamed
  BY DEF SpanRecords, Same

LEMMA ExportedIs ==
    ASSUME NEW q \in SpanRecords, NEW x \in BOOLEAN
    PROVE  LET r == [q EXCEPT !.exported = x] IN
           /\ r \in SpanRecords /\ Same(r, q) /\ r.outcome = q.outcome /\ r.host = q.host
           /\ r.lines = q.lines /\ r.stored = q.stored /\ r.blamed = q.blamed
  BY DEF SpanRecords, Same

LEMMA BlamedIs ==
    ASSUME NEW q \in SpanRecords, NEW b \in Blames
    PROVE  LET r == [q EXCEPT !.blamed = @ \union {b}] IN
           /\ r \in SpanRecords /\ Same(r, q) /\ r.outcome = q.outcome /\ r.host = q.host
           /\ r.lines = q.lines /\ r.stored = q.stored /\ r.blamed = q.blamed \union {b}
  BY DEF SpanRecords, Same

LEMMA LoggedIs ==
    ASSUME NEW q \in SpanRecords, Lines \in Nat
    PROVE  LET r == Logged(q) IN
           /\ r \in SpanRecords /\ Same(r, q) /\ r.outcome = q.outcome /\ r.host = q.host
           /\ r.lines = (IF factory = "print" THEN 1 ELSE Lines) /\ r.stored = q.stored
           /\ r.blamed = IF sound THEN q.blamed ELSE q.blamed \union {"pipeline"}
  BY DEF SpanRecords, Same, Logged, Blames

\* One span's record changes, and keeps what places it in the tree.
LEMMA SpanChanges ==
    ASSUME spans \in Seq(SpanRecords), NEW s \in DOMAIN spans, NEW r \in SpanRecords,
           spans' = [spans EXCEPT ![s] = r]
    PROVE  /\ spans' \in Seq(SpanRecords) /\ DOMAIN spans' = DOMAIN spans
           /\ Len(spans') = Len(spans)
           /\ spans'[s] = r /\ \A q \in DOMAIN spans : q # s => spans'[q] = spans[q]
  <1>1. DOMAIN spans = 1..Len(spans)
    BY LenProperties
  <1>2. /\ [spans EXCEPT ![s] = r] \in Seq(SpanRecords)
        /\ Len([spans EXCEPT ![s] = r]) = Len(spans)
        /\ \A j \in 1..Len(spans) : [spans EXCEPT ![s] = r][j] = IF j = s THEN r ELSE spans[j]
    BY <1>1, ExceptSeq
  <1>. QED
    BY <1>1, <1>2, LenProperties

-----------------------------------------------------------------------------
\* Steps that open no span.
SpansKept ==
    DOMAIN spans' = DOMAIN spans /\ \A q \in DOMAIN spans : Same(spans'[q], spans[q])

\* Contexts and parents speak of what no later step of a span changes.
LEMMA CtxKept ==
    ASSUME SpansKept, NEW c, CtxOk(c)
    PROVE  CtxOk(c)'
  BY DEF SpansKept, Same, CtxOk

LEMMA CtxsKept ==
    ASSUME CtxsOk, SpansKept, UNCHANGED <<headers, ctx, base, frames>>
    PROVE  CtxsOk'
  <1>1. \A c : CtxOk(c) => CtxOk(c)'
    BY CtxKept
  <1>2. \A h \in headers : CtxOk(h)'
    BY <1>1 DEF CtxsOk
  <1>3. ASSUME NEW u \in Tasks PROVE (CtxOk(ctx[u]) /\ CtxOk(base[u]))'
    BY DEF CtxsOk, SpansKept, Same, CtxOk
  <1>4. ASSUME NEW u \in Tasks, NEW i \in DOMAIN frames[u]
        PROVE CtxOk(frames[u][i].saved)'
    BY DEF CtxsOk, SpansKept, Same, CtxOk
  <1>. QED
    BY <1>2, <1>3, <1>4 DEF CtxsOk

LEMMA ParentsKept ==
    ASSUME ParentsOk, SpansKept, live \subseteq live', disordered \subseteq disordered',
           \A u \in live : base'[u] = base[u] /\ entered[u] \subseteq entered'[u]
    PROVE  ParentsOk'
  <1>. SUFFICES ASSUME NEW s \in DOMAIN spans PROVE ParentOk(s)'
    BY DEF ParentsOk, SpansKept
  <1>1. ParentOk(s) /\ Same(spans'[s], spans[s])
    BY DEF ParentsOk, SpansKept
  <1>2. DOMAIN spans' = DOMAIN spans
        /\ \A p \in DOMAIN spans : spans'[p].trace = spans[p].trace
    BY DEF SpansKept, Same
  <1>. QED
    BY <1>1, <1>2 DEF ParentOk, Same

\* The span of an emission under way.
LEMMA SpanIs ==
    ASSUME SpanIInv, NEW t \in Tasks, emit[t].at \notin {"idle", "reset"}
    PROVE  /\ t \in live /\ emit[t].frame \in DOMAIN frames[t]
           /\ Frame(t).kind # "bound" /\ Span(t) \in DOMAIN spans
           /\ spans[Span(t)] \in SpanRecords /\ spans[Span(t)].host = "inside"
           /\ emit[t] \in Emissions
           /\ \A u \in Tasks : \A i \in DOMAIN frames[u] :
                 frames[u][i].kind # "bound" /\ frames[u][i].span = Span(t) =>
                    u = t /\ i = emit[t].frame
           /\ Made(spans[Span(t)],
                   IF emit[t].event = "warning" THEN emit[t].after ELSE emit[t].at)
  <1>1. /\ emit[t].frame \in DOMAIN frames[t] /\ Frame(t).kind # "bound"
        /\ Made(spans[Span(t)],
                IF emit[t].event = "warning" THEN emit[t].after ELSE emit[t].at)
    BY DEF SpanIInv, EmissionsOk, EmissionOk, Frame, Span
  <1>2. /\ Span(t) \in DOMAIN spans /\ spans[Span(t)].host = "inside"
        /\ spans[Span(t)].task = t
    BY <1>1 DEF SpanIInv, FramesOk, FrameOk, Frame, Span
  <1>3. t \in live
    BY DEF SpanIInv, TasksOk
  <1>4. emit[t] \in Emissions
    BY DEF SpanIInv, SpanTypes
  <1>5. spans[Span(t)] \in SpanRecords
    BY <1>2, LenProperties DEF SpanIInv, SpanTypes
  <1>6. ASSUME NEW u \in Tasks, NEW i \in DOMAIN frames[u],
               frames[u][i].kind # "bound" /\ frames[u][i].span = Span(t)
        PROVE  u = t /\ i = emit[t].frame
    <2>1. u = t
      BY <1>2, <1>6 DEF SpanIInv, FramesOk, FrameOk
    <2>. QED
      BY <1>1, <1>6, <2>1 DEF SpanIInv, FramesOk, FrameOk, Frame, Span
  <1>. QED
    BY <1>1, <1>2, <1>3, <1>4, <1>5, <1>6

\* An emission goes on: what is made of its span is what its new place asks for.
EmissionStep(t, e, r) ==
    /\ emit[t].at \notin {"idle", "reset"}
    /\ emit' = [emit EXCEPT ![t] = e] /\ spans' = [spans EXCEPT ![Span(t)] = r]
    /\ UNCHANGED <<ctx, frames, entered, disordered, fixed>>
    /\ e.frame = emit[t].frame /\ e.at # "idle"
    /\ e.event = "warning" => e.at \in {"logger", "configuring"}
    /\ Same(r, spans[Span(t)]) /\ r.host = spans[Span(t)].host

\* What the log pipeline owes the emissions.
PipelineMoves ==
    /\ \A u \in Tasks : emit'[u].at = "configuring" => conf'[u].pc # "idle"
    /\ disturbed => disturbed'

\* What has been made of a span stands while its record does.
LEMMA LineStays ==
    ASSUME NEW r, disturbed => disturbed', LineOk(r)
    PROVE  LineOk(r)'
  BY DEF LineOk

LEMMA MadeStays ==
    ASSUME NEW r, NEW place, disturbed => disturbed', Made(r, place)
    PROVE  Made(r, place)'
  BY DEF Made, LineOk, StoreOk

\* A step of one task's emission that makes of the span what its next place asks
\* for keeps the spans' invariant.
LEMMA EmissionStepKeeps ==
    ASSUME SpanIInv, NEW t \in Tasks, NEW e \in Emissions, NEW r \in SpanRecords,
           EmissionStep(t, e, r), PipelineMoves,
           Made(r, IF e.event = "warning" THEN e.after ELSE e.at)'
    PROVE  SpanIInv'
  <1>. DEFINE s == Span(t)
  <1>1. /\ t \in live /\ emit[t].frame \in DOMAIN frames[t] /\ Frame(t).kind # "bound"
        /\ s \in DOMAIN spans /\ spans[s].host = "inside"
        /\ \A u \in Tasks : \A i \in DOMAIN frames[u] :
              frames[u][i].kind # "bound" /\ frames[u][i].span = s =>
                 u = t /\ i = emit[t].frame
        /\ s = frames[t][emit[t].frame].span
    BY SpanIs DEF EmissionStep, Span, Frame
  <1>2. spans' = [spans EXCEPT ![s] = r]
    BY DEF EmissionStep
  <1>. HIDE DEF s
  <1>3. /\ spans' \in Seq(SpanRecords) /\ DOMAIN spans' = DOMAIN spans
        /\ spans'[s] = r /\ \A q \in DOMAIN spans : q # s => spans'[q] = spans[q]
    BY <1>1, <1>2, SpanChanges DEF SpanIInv, SpanTypes
  <1>4. /\ emit' \in [Tasks -> Emissions] /\ emit'[t] = e
        /\ \A u \in Tasks : u # t => emit'[u] = emit[u]
    BY DEF EmissionStep, SpanIInv, SpanTypes
  <1>5. /\ ctx' = ctx /\ frames' = frames /\ entered' = entered /\ disordered' = disordered
        /\ headers' = headers /\ live' = live /\ base' = base /\ spanScope' = spanScope
    BY DEF EmissionStep, fixed
  <1>6. SpansKept
    BY <1>1, <1>3 DEF SpansKept, EmissionStep, Same, s
  <1>7. \A q \in DOMAIN spans : spans'[q].host = spans[q].host
    BY <1>1, <1>3 DEF EmissionStep, s
  <1>8. SpanTypes'
    BY <1>3, <1>4, <1>5 DEF SpanIInv, SpanTypes
  <1>9. CtxsOk'
    BY <1>5, <1>6, CtxsKept DEF SpanIInv
  <1>10. FramesOk'
    BY <1>5, <1>6, <1>7 DEF SpanIInv, FramesOk, FrameOk, SpansKept, Same
  <1>11. TasksOk'
    <2>1. \A u \in Tasks : /\ emit'[u].frame = emit[u].frame
                           /\ (emit'[u].at = "idle") <=> (emit[u].at = "idle")
      BY <1>4 DEF EmissionStep
    <2>2. \A u \in Tasks : Nested(u) => Nested(u)'
      BY <1>5, <2>1 DEF Nested
    <2>. QED
      BY <1>5, <2>1, <2>2 DEF SpanIInv, TasksOk
  <1>12. ParentsOk'
    BY <1>5, <1>6, ParentsKept DEF SpanIInv
  <1>13. EmissionsOk'
    <2>1. ASSUME NEW u \in Tasks PROVE EmissionOk(u)'
      <3>1. CASE u = t
        BY <1>1, <1>3, <1>4, <1>5, <3>1 DEF EmissionOk, EmissionStep, PipelineMoves, Frame
      <3>2. CASE u # t
        <4>1. emit'[u] = emit[u] /\ EmissionOk(u)
          BY <1>4, <3>2 DEF SpanIInv, EmissionsOk
        <4>2. frames[u][emit[u].frame].kind # "bound" /\ emit[u].at # "idle" =>
                 spans'[frames[u][emit[u].frame].span] = spans[frames[u][emit[u].frame].span]
          BY <1>1, <1>3, <3>2, <4>1 DEF SpanIInv, FramesOk, FrameOk, EmissionOk
        <4>3. \A x, p : Made(x, p) => Made(x, p)'
          BY MadeStays DEF PipelineMoves
        <4>. QED
          BY <1>5, <4>1, <4>2, <4>3 DEF EmissionOk, PipelineMoves
      <3>. QED
        BY <3>1, <3>2
    <2>2. Untouched'
      <3>. SUFFICES ASSUME NEW u \in Tasks, NEW i \in DOMAIN frames[u], i # emit[u].frame,
                           frames[u][i].kind # "bound"
                    PROVE  spans'[frames[u][i].span].stored = 0
        BY <1>4, <1>5 DEF Untouched, EmissionStep
      <3>1. frames[u][i].span \in DOMAIN spans /\ frames[u][i].span # s
        BY <1>1 DEF SpanIInv, FramesOk, FrameOk
      <3>. QED
        BY <1>3, <3>1 DEF SpanIInv, EmissionsOk, Untouched
    <2>3. ASSUME NEW q \in DOMAIN spans PROVE OutOk(q)'
      <3>1. CASE q = s
        BY <1>1, <1>7, <3>1 DEF OutOk
      <3>2. CASE q # s
        <4>1. spans'[q] = spans[q] /\ OutOk(q)
          BY <1>3, <3>2 DEF SpanIInv, EmissionsOk
        <4>2. \A x : LineOk(x) => LineOk(x)'
          BY LineStays DEF PipelineMoves
        <4>. QED
          BY <4>1, <4>2 DEF OutOk, StoreOk
      <3>. QED
        BY <3>1, <3>2
    <2>. QED
      BY <1>3, <2>1, <2>2, <2>3 DEF EmissionsOk
  <1>. QED
    BY <1>8, <1>9, <1>10, <1>11, <1>12, <1>13 DEF SpanIInv

-----------------------------------------------------------------------------
\* The emission's steps.
Ats == {"cost", "logger", "configuring", "export", "lookup", "store", "reset"}

\* A task moves on to the next place of its emission.
LEMMA AtIs ==
    ASSUME NEW q \in Emissions, NEW place \in Ats
    PROVE  LET e == [q EXCEPT !.at = place] IN
           e \in Emissions /\ e.at = place /\ e.frame = q.frame /\ e.event = q.event
           /\ e.after = q.after
  BY DEF Emissions, Ats

LEMMA EmissionIs ==
    ASSUME emit \in [Tasks -> Emissions], NEW t \in Tasks, NEW place \in Ats,
           NEW event \in {"span", "warning"}, NEW after \in {"logger", "store", "reset"},
           GoWith(t, place, event, after)
    PROVE  \E e \in Emissions :
              /\ emit' = [emit EXCEPT ![t] = e]
              /\ e.at = place /\ e.frame = emit[t].frame /\ e.event = event
              /\ e.after = after
  <1>. DEFINE e == [at |-> place, frame |-> emit[t].frame, event |-> event, after |-> after]
  <1>1. e \in Emissions
    BY DEF Emissions, Ats
  <1>2. emit' = [emit EXCEPT ![t] = e]
    BY DEF GoWith
  <1>. QED
    BY <1>1, <1>2

\* A step that touches no variable of the spans.
LEMMA SpansStay ==
    ASSUME spans \in Seq(SpanRecords), NEW s \in DOMAIN spans, UNCHANGED spans
    PROVE  spans' = [spans EXCEPT ![s] = spans[s]]
  <1>1. spans = [q \in 1..Len(spans) |-> spans[q]]
    BY LenProperties
  <1>. QED
    BY <1>1

\* The other tasks' calls of configure are not disturbed by this one's step.
LEMMA PipelineMovesFor ==
    ASSUME SpanIInv, NEW t \in Tasks, NEW e \in Emissions, emit' = [emit EXCEPT ![t] = e],
           \A u \in Tasks \ {t} : conf[u].pc # "idle" => conf'[u].pc # "idle",
           e.at = "configuring" => conf'[t].pc # "idle", disturbed => disturbed'
    PROVE  PipelineMoves
  BY DEF SpanIInv, SpanTypes, EmissionsOk, EmissionOk, PipelineMoves

\* A step of an emission that leaves the pipeline alone.
LEMMA QuietMoves ==
    ASSUME SpanIInv, NEW t \in Tasks, NEW e \in Emissions, emit' = [emit EXCEPT ![t] = e],
           UNCHANGED log, e.at # "configuring"
    PROVE  PipelineMoves
  BY PipelineMovesFor DEF log

\* A statement of the emission that changes nothing of its span.
LEMMA GoKeeps ==
    ASSUME SpanIInv, NEW t \in Tasks, emit[t].at \notin {"idle", "reset"}, NEW place \in Ats,
           emit' = [emit EXCEPT ![t].at = place], UNCHANGED spans,
           UNCHANGED <<ctx, frames, entered, disordered, fixed>>,
           emit[t].event = "warning" => place \in {"logger", "configuring"},
           place = "configuring" => conf'[t].pc # "idle", disturbed => disturbed',
           \A u \in Tasks \ {t} : conf[u].pc # "idle" => conf'[u].pc # "idle",
           emit[t].event # "warning" => Made(spans[Span(t)], place)
    PROVE  SpanIInv'
  <1>1. /\ Span(t) \in DOMAIN spans /\ spans[Span(t)] \in SpanRecords /\ emit[t] \in Emissions
        /\ Made(spans[Span(t)],
                IF emit[t].event = "warning" THEN emit[t].after ELSE emit[t].at)
    BY SpanIs
  <1>2. PICK e \in Emissions : /\ e = [emit[t] EXCEPT !.at = place]
                               /\ e.at = place /\ e.frame = emit[t].frame
                               /\ e.event = emit[t].event /\ e.after = emit[t].after
    BY <1>1, AtIs
  <1>3. PICK r \in SpanRecords : r = spans[Span(t)]
    BY <1>1
  <1>4. spans' = [spans EXCEPT ![Span(t)] = r]
    BY <1>1, <1>3, SpansStay DEF SpanIInv, SpanTypes
  <1>5. emit' = [emit EXCEPT ![t] = e]
    BY <1>2
  <1>6. EmissionStep(t, e, r)
    BY <1>2, <1>3, <1>4, <1>5 DEF EmissionStep, Ats, Same
  <1>7. PipelineMoves
    BY <1>2, <1>5, PipelineMovesFor
  <1>8. Made(r, IF e.event = "warning" THEN e.after ELSE e.at)
    BY <1>1, <1>2, <1>3
  <1>9. Made(r, IF e.event = "warning" THEN e.after ELSE e.at)'
    BY <1>8, MadeStays
  <1>. QED
    BY <1>6, <1>7, <1>9, EmissionStepKeeps

\* A failure is put down to the span, or swallowed with the warning it struck.
LEMMA SwallowKeeps ==
    ASSUME SpanIInv, NEW t \in Tasks, emit[t].at \notin {"idle", "reset"},
           NEW b \in Blames, NEW after \in {"logger", "store", "reset"}, Swallow(t, b, after),
           UNCHANGED <<ctx, frames, entered, disordered, fixed>>, disturbed => disturbed',
           \A u \in Tasks \ {t} : conf[u].pc # "idle" => conf'[u].pc # "idle",
           emit[t].event # "warning" =>
              /\ spans[Span(t)].stored = 0
              /\ after = "store" => b = "log" \/ LineOk(spans[Span(t)])
              /\ after = "reset" => b = "store" /\ LineOk(spans[Span(t)])
    PROVE  SpanIInv'
  <1>1. /\ Span(t) \in DOMAIN spans /\ spans[Span(t)] \in SpanRecords /\ emit[t] \in Emissions
        /\ Made(spans[Span(t)],
                IF emit[t].event = "warning" THEN emit[t].after ELSE emit[t].at)
    BY SpanIs
  <1>2. CASE emit[t].event = "warning"
    <2>1. GoWith(t, emit[t].after, "span", emit[t].after) /\ UNCHANGED spans
      BY <1>2 DEF Swallow
    <2>2. emit[t].after \in Ats
      BY <1>1 DEF Emissions, Ats
    <2>3. PICK p \in Ats, v \in {"span", "warning"} : p = emit[t].after /\ v = "span"
      BY <2>2
    <2>4. PICK e \in Emissions :
              /\ emit' = [emit EXCEPT ![t] = e]
              /\ e.at = p /\ e.frame = emit[t].frame /\ e.event = v
              /\ e.after = emit[t].after
      <3>1. PICK a \in {"logger", "store", "reset"} : a = emit[t].after
        BY <1>1 DEF Emissions
      <3>2. GoWith(t, p, v, a)
        BY <2>1, <2>3, <3>1
      <3>. QED
        BY <3>1, <3>2, EmissionIs DEF SpanIInv, SpanTypes
    <2>5. PICK r \in SpanRecords : r = spans[Span(t)]
      BY <1>1
    <2>6. spans' = [spans EXCEPT ![Span(t)] = r]
      BY <1>1, <2>1, <2>5, SpansStay DEF SpanIInv, SpanTypes
    <2>7. EmissionStep(t, e, r)
      BY <2>2, <2>3, <2>4, <2>5, <2>6 DEF EmissionStep, Ats, Same
    <2>8. e.at # "configuring"
      BY <1>1, <2>3, <2>4 DEF Emissions
    <2>9. PipelineMoves
      BY <2>4, <2>8, PipelineMovesFor
    <2>10. Made(r, IF e.event = "warning" THEN e.after ELSE e.at)
      BY <1>1, <1>2, <2>3, <2>4, <2>5
    <2>11. Made(r, IF e.event = "warning" THEN e.after ELSE e.at)'
      BY <2>10, MadeStays
    <2>. QED
      BY <2>7, <2>9, <2>11, EmissionStepKeeps
  <1>3. CASE emit[t].event # "warning"
    <2>1. /\ GoWith(t, "logger", "warning", after)
          /\ spans' = [spans EXCEPT ![Span(t)].blamed = @ \union {b}]
      BY <1>3 DEF Swallow
    <2>2. "logger" \in Ats
      BY DEF Ats
    <2>3. PICK p \in Ats, v \in {"span", "warning"} : p = "logger" /\ v = "warning"
      BY <2>2
    <2>4. PICK e \in Emissions :
              /\ emit' = [emit EXCEPT ![t] = e]
              /\ e.at = p /\ e.frame = emit[t].frame /\ e.event = v /\ e.after = after
      <3>1. GoWith(t, p, v, after)
        BY <2>1, <2>3
      <3>. QED
        BY <3>1, EmissionIs DEF SpanIInv, SpanTypes
    <2>5. PICK q \in SpanRecords : q = spans[Span(t)]
      BY <1>1
    <2>6. PICK r \in SpanRecords : /\ r = [q EXCEPT !.blamed = @ \union {b}]
                                   /\ Same(r, q) /\ r.outcome = q.outcome
                                   /\ r.host = q.host /\ r.lines = q.lines
                                   /\ r.stored = q.stored /\ r.blamed = q.blamed \union {b}
      BY BlamedIs
    <2>7. spans' = [spans EXCEPT ![Span(t)] = r]
      BY <2>1, <2>5, <2>6
    <2>8. EmissionStep(t, e, r)
      BY <2>3, <2>4, <2>5, <2>6, <2>7 DEF EmissionStep
    <2>9. PipelineMoves
      BY <2>3, <2>4, PipelineMovesFor
    <2>10. Made(r, after)
      BY <1>3, <2>5, <2>6 DEF Made, LineOk, StoreOk
    <2>11. Made(r, IF e.event = "warning" THEN e.after ELSE e.at)
      BY <2>3, <2>4, <2>10
    <2>12. Made(r, IF e.event = "warning" THEN e.after ELSE e.at)'
      BY <2>11, MadeStays
    <2>. QED
      BY <2>8, <2>9, <2>12, EmissionStepKeeps
  <1>. QED
    BY <1>2, <1>3

\* What a span has, at each place of the emission of its own event.
LEMMA MadeSoFar ==
    ASSUME SpanIInv, NEW t \in Tasks, emit[t].at \notin {"idle", "reset"},
           emit[t].event # "warning"
    PROVE  /\ emit[t].event = "span" /\ spans[Span(t)].stored = 0
           /\ emit[t].at \in {"export", "lookup", "store"} => LineOk(spans[Span(t)])
  BY SpanIs DEF Made, Emissions

\* An event that is logged for its span keeps it at places where it may be.
LEMMA NoWarningAt ==
    ASSUME SpanIInv, NEW t \in Tasks, emit[t].at \notin {"logger", "configuring"}
    PROVE  emit[t].event # "warning"
  BY DEF SpanIInv, EmissionsOk, EmissionOk

\* The emission's places, one by one: the cost, the logger with its first use, the
\* event, the export, the store; and what fails at them.
LEMMA AttributeCostKeeps ==
    ASSUME SpanIInv, NEW t \in Tasks, AttributeCost(t)
    PROVE  SpanIInv'
  <1>1. /\ emit[t].at = "cost" /\ emit' = [emit EXCEPT ![t].at = "logger"]
        /\ UNCHANGED spans /\ UNCHANGED <<ctx, frames, entered, disordered, fixed>>
        /\ UNCHANGED log
    BY DEF AttributeCost, EmitAt, Go
  <1>2. "logger" \in Ats /\ emit[t].at \notin {"idle", "reset"}
    BY <1>1 DEF Ats
  <1>3. emit[t].event # "warning" => Made(spans[Span(t)], "logger")
    BY <1>2, MadeSoFar DEF Made
  <1>4. conf' = conf /\ disturbed' = disturbed
    BY <1>1 DEF log
  <1>. QED
    BY <1>1, <1>2, <1>3, <1>4, GoKeeps

LEMMA GetLoggerKeeps ==
    ASSUME SpanIInv, PipeTypes, NEW t \in Tasks, GetLogger(t)
    PROVE  SpanIInv'
  <1>1. /\ emit[t].at = "logger" /\ emit' = [emit EXCEPT ![t].at = "configuring"]
        /\ UNCHANGED spans /\ UNCHANGED <<ctx, frames, entered, disordered, fixed>>
        /\ ReadConfig(t, "none")
    BY DEF GetLogger, EmitAt, Go
  <1>2. "configuring" \in Ats /\ emit[t].at \notin {"idle", "reset"}
    BY <1>1 DEF Ats
  <1>3. emit[t].event # "warning" => Made(spans[Span(t)], "configuring")
    BY <1>2, MadeSoFar DEF Made
  <1>4. /\ conf'[t].pc = "check"
        /\ \A u \in Tasks \ {t} : conf[u].pc # "idle" => conf'[u].pc # "idle"
    BY <1>1, SpansAssumption, ReadConfigCalls
  <1>5. disturbed => disturbed'
    BY <1>1 DEF ReadConfig
  <1>. QED
    BY <1>1, <1>2, <1>3, <1>4, <1>5, GoKeeps

LEMMA FirstUseFailsKeeps ==
    ASSUME SpanIInv, PipeTypes, NEW t \in Tasks, FirstUseFails(t)
    PROVE  SpanIInv'
  <1>1. /\ emit[t].at = "logger" /\ emit' = [emit EXCEPT ![t].at = "configuring"]
        /\ UNCHANGED spans /\ UNCHANGED <<ctx, frames, entered, disordered, fixed>>
        /\ ConfTo(t, "raised") /\ UNCHANGED disturbed
    BY DEF FirstUseFails, EmitAt, Go, ConfigFails, Raise
  <1>2. "configuring" \in Ats /\ emit[t].at \notin {"idle", "reset"}
    BY <1>1 DEF Ats
  <1>3. emit[t].event # "warning" => Made(spans[Span(t)], "configuring")
    BY <1>2, MadeSoFar DEF Made
  <1>4. "raised" \in ConfPlaces /\ t \in Callers
    BY SpansAssumption DEF ConfPlaces, AtRest
  <1>5. /\ conf'[t].pc = "raised"
        /\ \A u \in Tasks \ {t} : conf[u].pc # "idle" => conf'[u].pc # "idle"
    BY <1>1, <1>4, SpansAssumption, ConfMoves
  <1>. QED
    BY <1>1, <1>2, <1>3, <1>5, GoKeeps

\* A call that has ended leaves the others where they are.
LEMMA ReleaseLeaves ==
    ASSUME PipeTypes, NEW t, Release(t)
    PROVE  /\ \A u \in Callers \ {t} : conf'[u] = conf[u]
           /\ disturbed => disturbed'
  BY DEF PipeTypes, Release

LEMMA FirstUseKeeps ==
    ASSUME SpanIInv, PipeTypes, NEW t \in Tasks, FirstUse(t)
    PROVE  SpanIInv'
  <1>1. /\ emit[t].at = "configuring" /\ Release(t)
        /\ UNCHANGED <<ctx, frames, entered, disordered, fixed>>
        /\ \/ emit' = [emit EXCEPT ![t].at = "logger"] /\ UNCHANGED spans
           \/ Swallow(t, "log", "store")
    BY DEF FirstUse, EmitAt, Go
  <1>2. /\ "logger" \in Ats /\ emit[t].at \notin {"idle", "reset"}
        /\ "log" \in Blames /\ "store" \in {"logger", "store", "reset"}
    BY <1>1 DEF Ats, Blames
  <1>3. emit[t].event # "warning" =>
           spans[Span(t)].stored = 0 /\ Made(spans[Span(t)], "logger")
    BY <1>2, MadeSoFar DEF Made
  <1>4. /\ disturbed => disturbed'
        /\ \A u \in Tasks \ {t} : conf[u].pc # "idle" => conf'[u].pc # "idle"
    BY <1>1, SpansAssumption, ReleaseLeaves
  <1>5. CASE emit' = [emit EXCEPT ![t].at = "logger"] /\ UNCHANGED spans
    BY <1>1, <1>2, <1>3, <1>4, <1>5, GoKeeps
  <1>6. CASE Swallow(t, "log", "store")
    BY <1>1, <1>2, <1>3, <1>4, <1>6, SwallowKeeps
  <1>. QED
    BY <1>1, <1>5, <1>6

\* A statement of the emission that makes r of its span.
LEMMA MakeKeeps ==
    ASSUME SpanIInv, NEW t \in Tasks, emit[t].at \notin {"idle", "reset"}, NEW place \in Ats,
           emit' = [emit EXCEPT ![t].at = place], emit[t].event # "warning",
           UNCHANGED <<ctx, frames, entered, disordered, fixed>>, UNCHANGED log,
           place # "configuring", NEW r \in SpanRecords,
           spans' = [spans EXCEPT ![Span(t)] = r],
           Same(r, spans[Span(t)]), r.host = spans[Span(t)].host, Made(r, place)
    PROVE  SpanIInv'
  <1>1. emit[t] \in Emissions
    BY SpanIs
  <1>2. PICK e \in Emissions : /\ e = [emit[t] EXCEPT !.at = place]
                               /\ e.at = place /\ e.frame = emit[t].frame
                               /\ e.event = emit[t].event /\ e.after = emit[t].after
    BY <1>1, AtIs
  <1>3. emit' = [emit EXCEPT ![t] = e]
    BY <1>2
  <1>4. EmissionStep(t, e, r)
    BY <1>2, <1>3 DEF EmissionStep, Ats
  <1>5. PipelineMoves
    BY <1>2, <1>3, QuietMoves
  <1>6. disturbed' = disturbed
    BY DEF log
  <1>7. Made(r, place)'
    BY <1>6, MadeStays
  <1>8. Made(r, IF e.event = "warning" THEN e.after ELSE e.at)'
    BY <1>2, <1>7
  <1>. QED
    BY <1>4, <1>5, <1>8, EmissionStepKeeps

LEMMA SayKeeps ==
    ASSUME SpanIInv, PipeIInv, NEW t \in Tasks, Say(t)
    PROVE  SpanIInv'
  <1>1. /\ emit[t].at = "logger" /\ emit[t].at \notin {"idle", "reset"}
        /\ UNCHANGED <<ctx, frames, entered, disordered, fixed>> /\ UNCHANGED log
    BY DEF Say, EmitAt
  <1>2. CASE emit[t].event = "warning"
    <2>1. Swallow(t, "log", "store") /\ "log" \in Blames
      BY <1>2 DEF Say, Swallow, Blames
    <2>2. conf' = conf /\ disturbed' = disturbed
      BY <1>1 DEF log
    <2>. QED
      BY <1>1, <1>2, <2>1, <2>2, SwallowKeeps
  <1>3. CASE emit[t].event # "warning"
    <2>1. PICK q \in SpanRecords : q = spans[Span(t)]
      BY <1>1, SpanIs
    <2>2. PICK r \in SpanRecords :
              /\ r = Logged(q) /\ Same(r, q) /\ r.outcome = q.outcome /\ r.host = q.host
              /\ r.lines = (IF factory = "print" THEN 1 ELSE Lines) /\ r.stored = q.stored
              /\ r.blamed = IF sound THEN q.blamed ELSE q.blamed \union {"pipeline"}
      BY LinesAre, LoggedIs
    <2>3. spans' = [spans EXCEPT ![Span(t)] = r]
      BY <1>3, <2>1, <2>2 DEF Say
    <2>4. emit' = [emit EXCEPT ![t].at = "export"] /\ "export" \in Ats
      BY <1>3 DEF Say, Go, Ats
    <2>5. LineOk(r)
      <3>1. ASSUME sound PROVE r.lines = 1 \/ (r.lines > 1 /\ disturbed)
        <4>1. SoundIsHeard /\ NoDoubleLines /\ Lines \in Nat
          BY PipeIsSound, LinesAre
        <4>. QED
          BY <2>2, <3>1, <4>1 DEF SoundIsHeard, Heard, NoDoubleLines, Lines
      <3>2. ~sound => "pipeline" \in r.blamed
        BY <2>2
      <3>. QED
        BY <3>1, <3>2 DEF LineOk
    <2>6. Made(r, "export")
      BY <1>1, <1>3, <2>1, <2>2, <2>5, MadeSoFar DEF Made
    <2>. QED
      BY <1>1, <1>3, <2>1, <2>2, <2>3, <2>4, <2>6, MakeKeeps
  <1>. QED
    BY <1>2, <1>3

LEMMA BeginExportKeeps ==
    ASSUME SpanIInv, NEW t \in Tasks, BeginExport(t)
    PROVE  SpanIInv'
  <1>1. /\ emit[t].at = "export" /\ emit' = [emit EXCEPT ![t].at = "lookup"]
        /\ UNCHANGED spans /\ UNCHANGED <<ctx, frames, entered, disordered, fixed>>
        /\ UNCHANGED log
    BY DEF BeginExport, EmitAt, Go
  <1>2. "lookup" \in Ats /\ emit[t].at \notin {"idle", "reset"}
    BY <1>1 DEF Ats
  <1>3. emit[t].event # "warning"
    BY <1>1, NoWarningAt
  <1>4. Made(spans[Span(t)], "lookup")
    BY <1>1, <1>2, <1>3, MadeSoFar DEF Made
  <1>5. conf' = conf /\ disturbed' = disturbed
    BY <1>1 DEF log
  <1>. QED
    BY <1>1, <1>2, <1>3, <1>4, <1>5, GoKeeps

LEMMA EndExportKeeps ==
    ASSUME SpanIInv, NEW t \in Tasks, EndExport(t)
    PROVE  SpanIInv'
  <1>1. /\ emit[t].at = "lookup" /\ emit[t].at \notin {"idle", "reset"} /\ "store" \in Ats
        /\ emit' = [emit EXCEPT ![t].at = "store"]
        /\ UNCHANGED <<ctx, frames, entered, disordered, fixed>> /\ UNCHANGED log
        /\ spans' = [spans EXCEPT ![Span(t)].exported = (look[t].value = "in")]
    BY DEF EndExport, EmitAt, Go, Ats
  <1>2. emit[t].event # "warning"
    BY <1>1, NoWarningAt
  <1>3. PICK q \in SpanRecords : q = spans[Span(t)]
    BY <1>1, SpanIs
  <1>4. PICK x \in BOOLEAN : x = (look[t].value = "in")
    OBVIOUS
  <1>5. PICK r \in SpanRecords : /\ r = [q EXCEPT !.exported = x]
                                 /\ Same(r, q) /\ r.outcome = q.outcome
                                 /\ r.host = q.host /\ r.lines = q.lines
                                 /\ r.stored = q.stored /\ r.blamed = q.blamed
    BY ExportedIs
  <1>6. spans' = [spans EXCEPT ![Span(t)].exported = x]
    BY <1>1, <1>4
  <1>7. spans' = [spans EXCEPT ![Span(t)] = r]
    BY <1>3, <1>5, <1>6
  <1>8. Made(r, "store")
    BY <1>1, <1>2, <1>3, <1>5, MadeSoFar DEF Made, LineOk
  <1>. QED
    BY <1>1, <1>2, <1>3, <1>5, <1>7, <1>8, MakeKeeps

LEMMA StoreSpanKeeps ==
    ASSUME SpanIInv, NEW t \in Tasks, NEW full \in BOOLEAN, StoreSpan(t, full)
    PROVE  SpanIInv'
  <1>1. /\ emit[t].at = "store" /\ emit[t].at \notin {"idle", "reset"} /\ "reset" \in Ats
        /\ emit' = [emit EXCEPT ![t].at = "reset"]
        /\ UNCHANGED <<ctx, frames, entered, disordered, fixed>> /\ UNCHANGED log
    BY DEF StoreSpan, EmitAt, Go, Ats
  <1>2. emit[t].event # "warning"
    BY <1>1, NoWarningAt
  <1>3. PICK q \in SpanRecords : q = spans[Span(t)]
    BY <1>1, SpanIs
  <1>4. q.stored = 0 /\ LineOk(q)
    BY <1>1, <1>2, <1>3, MadeSoFar
  <1>5. CASE full
    <2>1. PICK r \in SpanRecords : /\ r = [q EXCEPT !.blamed = @ \union {"store"}]
                                   /\ Same(r, q) /\ r.outcome = q.outcome
                                   /\ r.host = q.host /\ r.lines = q.lines
                                   /\ r.stored = q.stored
                                   /\ r.blamed = q.blamed \union {"store"}
      BY BlamedIs DEF Blames
    <2>2. spans' = [spans EXCEPT ![Span(t)] = r]
      BY <1>3, <1>5, <2>1 DEF StoreSpan
    <2>3. Made(r, "reset")
      BY <1>4, <2>1 DEF Made, LineOk, StoreOk
    <2>. QED
      BY <1>1, <1>2, <1>3, <2>1, <2>2, <2>3, MakeKeeps
  <1>6. CASE ~full
    <2>1. PICK r \in SpanRecords : /\ r = [q EXCEPT !.stored = @ + 1]
                                   /\ Same(r, q) /\ r.outcome = q.outcome
                                   /\ r.host = q.host /\ r.lines = q.lines
                                   /\ r.stored = q.stored + 1 /\ r.blamed = q.blamed
      BY StoredIs
    <2>2. spans' = [spans EXCEPT ![Span(t)] = r]
      BY <1>3, <1>6, <2>1 DEF StoreSpan
    <2>3. Made(r, "reset")
      BY <1>4, <2>1 DEF Made, LineOk, StoreOk
    <2>. QED
      BY <1>1, <1>2, <1>3, <2>1, <2>2, <2>3, MakeKeeps
  <1>. QED
    BY <1>5, <1>6

LEMMA EmissionFailsKeeps ==
    ASSUME SpanIInv, NEW t \in Tasks, EmissionFails(t)
    PROVE  SpanIInv'
  <1>1. UNCHANGED <<ctx, frames, entered, disordered, fixed>> /\ UNCHANGED log
    BY DEF EmissionFails
  <1>2. conf' = conf /\ disturbed' = disturbed
    BY <1>1 DEF log
  <1>3. {"cost", "log", "export", "store"} \subseteq Blames
    BY DEF Blames
  <1>4. \/ emit[t].at = "cost" /\ Swallow(t, "cost", "logger")
        \/ emit[t].at = "logger" /\ Swallow(t, "log", "store")
        \/ emit[t].at = "lookup" /\ Swallow(t, "export", "store")
        \/ emit[t].at = "store" /\ Swallow(t, "store", "reset")
    BY DEF EmissionFails, EmitAt
  <1>5. /\ emit[t].at \notin {"idle", "reset"}
        /\ emit[t].event # "warning" =>
              /\ spans[Span(t)].stored = 0
              /\ emit[t].at \in {"lookup", "store"} => LineOk(spans[Span(t)])
    BY <1>4, MadeSoFar
  <1>6. CASE emit[t].at = "cost" /\ Swallow(t, "cost", "logger")
    BY <1>1, <1>2, <1>3, <1>5, <1>6, SwallowKeeps
  <1>7. CASE emit[t].at = "logger" /\ Swallow(t, "log", "store")
    BY <1>1, <1>2, <1>3, <1>5, <1>7, SwallowKeeps
  <1>8. CASE emit[t].at = "lookup" /\ Swallow(t, "export", "store")
    BY <1>1, <1>2, <1>3, <1>5, <1>8, SwallowKeeps
  <1>9. CASE emit[t].at = "store" /\ Swallow(t, "store", "reset")
    BY <1>1, <1>2, <1>3, <1>5, <1>9, SwallowKeeps
  <1>. QED
    BY <1>4, <1>6, <1>7, <1>8, <1>9

LEMMA InterruptKeeps ==
    ASSUME SpanIInv, PipeTypes, NEW t \in Tasks, Interrupt(t)
    PROVE  SpanIInv'
  <1>1. /\ emit[t].at \notin {"idle", "reset"} /\ GoWith(t, "reset", "span", emit[t].after)
        /\ spans' = [spans EXCEPT ![Span(t)].blamed = @ \union {"interrupt"}]
        /\ Release(t) /\ UNCHANGED <<ctx, frames, entered, disordered, fixed>>
    BY DEF Interrupt
  <1>2. /\ emit[t] \in Emissions /\ spans[Span(t)] \in SpanRecords
        /\ Made(spans[Span(t)],
                IF emit[t].event = "warning" THEN emit[t].after ELSE emit[t].at)
    BY <1>1, SpanIs
  <1>3. PICK e \in Emissions :
            /\ emit' = [emit EXCEPT ![t] = e]
            /\ e.at = "reset" /\ e.frame = emit[t].frame /\ e.event = "span"
    <2>1. PICK p \in Ats, v \in {"span", "warning"}, a \in {"logger", "store", "reset"} :
              p = "reset" /\ v = "span" /\ a = emit[t].after
      BY <1>2 DEF Ats, Emissions
    <2>2. GoWith(t, p, v, a)
      BY <1>1, <2>1
    <2>. QED
      BY <2>1, <2>2, EmissionIs DEF SpanIInv, SpanTypes
  <1>4. PICK q \in SpanRecords : q = spans[Span(t)]
    BY <1>2
  <1>5. PICK r \in SpanRecords : /\ r = [q EXCEPT !.blamed = @ \union {"interrupt"}]
                                 /\ Same(r, q) /\ r.outcome = q.outcome
                                 /\ r.host = q.host /\ r.lines = q.lines
                                 /\ r.stored = q.stored
                                 /\ r.blamed = q.blamed \union {"interrupt"}
    BY BlamedIs DEF Blames
  <1>6. spans' = [spans EXCEPT ![Span(t)] = r]
    BY <1>1, <1>4, <1>5
  <1>7. EmissionStep(t, e, r)
    BY <1>1, <1>3, <1>4, <1>5, <1>6 DEF EmissionStep
  <1>8. /\ disturbed => disturbed'
        /\ \A u \in Tasks \ {t} : conf[u].pc # "idle" => conf'[u].pc # "idle"
    BY <1>1, SpansAssumption, ReleaseLeaves
  <1>9. PipelineMoves
    BY <1>3, <1>8, PipelineMovesFor
  <1>10. q.stored <= 1
    BY <1>1, <1>2, <1>4 DEF Made, StoreOk, Emissions
  <1>11. Made(r, "reset")
    BY <1>5, <1>10 DEF Made, StoreOk, LineOk
  <1>12. Made(r, "reset")'
    BY <1>8, <1>11, MadeStays
  <1>13. Made(r, IF e.event = "warning" THEN e.after ELSE e.at)'
    BY <1>3, <1>12
  <1>. QED
    BY <1>7, <1>9, <1>13, EmissionStepKeeps

-----------------------------------------------------------------------------
\* The end of a block.  No two blocks have one span.
LEMMA OneBlockPerSpan ==
    ASSUME FramesOk, NEW t \in Tasks, NEW u \in Tasks, NEW i \in DOMAIN frames[t],
           NEW j \in DOMAIN frames[u], frames[t][i].kind # "bound",
           frames[u][j].kind # "bound", frames[u][j].span = frames[t][i].span
    PROVE  u = t /\ j = i
  <1>1. u = t
    BY DEF FramesOk, FrameOk
  <1>. QED
    BY <1>1 DEF FramesOk, FrameOk

\* What is left of the task's blocks: i is gone, and those after it move up.
BlockGone(t, i) == frames' = [frames EXCEPT ![t] = RemoveAt(@, i)]

\* The end of a block: the task's others close up, in their order.
LEMMA BlocksLeft ==
    ASSUME SpanTypes, NEW t \in Tasks, NEW i \in DOMAIN frames[t], BlockGone(t, i)
    PROVE  \E f, g \in Seq(Frames) :
              /\ frames[t] = f /\ frames'[t] = g /\ frames' \in [Tasks -> Seq(Frames)]
              /\ \A u \in Tasks : u # t => frames'[u] = frames[u]
              /\ Len(f) \in Nat \ {0} /\ Len(g) = Len(f) - 1
              /\ DOMAIN f = 1..Len(f) /\ DOMAIN g = 1..(Len(f) - 1)
              /\ \A j \in DOMAIN g : g[j] = IF j < i THEN f[j] ELSE f[j + 1]
              /\ \A j \in DOMAIN g : \E k \in DOMAIN f :
                    k = (IF j < i THEN j ELSE j + 1) /\ k # i /\ g[j] = f[k]
  <1>1. PICK f \in Seq(Frames) : f = frames[t]
    BY DEF SpanTypes
  <1>2. Len(f) \in Nat /\ DOMAIN f = 1..Len(f) /\ i \in 1..Len(f)
    BY <1>1, LenProperties
  <1>3. PICK g \in Seq(Frames) :
            /\ g = RemoveAt(f, i) /\ Len(g) = Len(f) - 1
            /\ \A j \in 1..(Len(f) - 1) : g[j] = IF j < i THEN f[j] ELSE f[j + 1]
    BY <1>2, RemoveAtIs
  <1>4. /\ frames' \in [Tasks -> Seq(Frames)] /\ frames'[t] = g
        /\ \A u \in Tasks : u # t => frames'[u] = frames[u]
    BY <1>1, <1>3 DEF SpanTypes, BlockGone
  <1>5. DOMAIN g = 1..(Len(f) - 1)
    BY <1>3, LenProperties
  <1>6. ASSUME NEW j \in 1..(Len(f) - 1)
        PROVE  \E k \in 1..Len(f) : /\ k = (IF j < i THEN j ELSE j + 1) /\ k # i
                                    /\ g[j] = f[k]
    <2>1. j \in 1..Len(f) /\ j + 1 \in 1..Len(f) /\ (j < i => j # i) /\ (~(j < i) => j + 1 # i)
      BY <1>2
    <2>. QED
      BY <1>3, <2>1
  <1>7. Len(f) \in Nat \ {0}
    BY <1>2
  <1>8. \A j \in DOMAIN g : g[j] = IF j < i THEN f[j] ELSE f[j + 1]
    BY <1>3, <1>5
  <1>9. \A j \in DOMAIN g : \E k \in DOMAIN f : /\ k = (IF j < i THEN j ELSE j + 1) /\ k # i
                                                /\ g[j] = f[k]
    BY <1>2, <1>5, <1>6
  <1>. QED
    BY <1>1, <1>2, <1>3, <1>4, <1>5, <1>7, <1>8, <1>9

\* The last block of a task that nests its blocks.
LEMMA NestedReset ==
    ASSUME SpanTypes, NEW t \in Tasks, Nested(t), emit[t].at # "idle",
           emit[t].frame \in DOMAIN frames[t], BlockGone(t, emit[t].frame),
           ctx'[t] = frames[t][emit[t].frame].saved, base' = base, emit'[t].at = "idle"
    PROVE  Nested(t)'
  <1>1. PICK i \in DOMAIN frames[t] :
            i = emit[t].frame /\ BlockGone(t, i)
    OBVIOUS
  <1>2. PICK f, g \in Seq(Frames) :
              /\ frames[t] = f /\ frames'[t] = g
              /\ Len(f) \in Nat \ {0} /\ Len(g) = Len(f) - 1
              /\ DOMAIN f = 1..Len(f) /\ DOMAIN g = 1..(Len(f) - 1)
              /\ \A j \in DOMAIN g : g[j] = IF j < i THEN f[j] ELSE f[j + 1]
    BY <1>1, BlocksLeft
  <1>3. i = Len(f) /\ f # <<>> /\ f[1].saved = base[t] /\ ctx'[t] = f[i].saved
        /\ \A j \in DOMAIN f : j > 1 => f[j].saved.span = f[j - 1].span
    <2>1. f # <<>>
      BY <1>2
    <2>2. i = Len(f) /\ f[1].saved = base[t]
      BY <1>1, <1>2, <2>1 DEF Nested
    <2>3. \A j \in DOMAIN f : j > 1 => f[j].saved.span = f[j - 1].span
      BY <1>2 DEF Nested
    <2>. QED
      BY <1>1, <1>2, <2>1, <2>2, <2>3
  <1>4. \A j \in DOMAIN g : j < i /\ j \in DOMAIN f /\ g[j] = f[j]
    BY <1>2, <1>3
  <1>5. CASE Len(f) = 1
    <2>1. Len(g) = 0 /\ g = <<>>
      BY <1>2, <1>5, EmptySeq
    <2>2. ctx'[t] = base[t]
      BY <1>3, <1>5
    <2>. QED
      BY <1>2, <2>1, <2>2 DEF Nested
  <1>6. CASE Len(f) # 1
    <2>1. Len(g) \in DOMAIN g /\ 1 \in DOMAIN g /\ Len(g) = Len(f) - 1 /\ g # <<>>
      BY <1>2, <1>6, EmptySeq
    <2>2. f[i].saved.span = f[i - 1].span /\ i - 1 = Len(g)
      BY <1>2, <1>3, <1>6
    <2>3. g[Len(g)] = f[Len(g)] /\ g[1] = f[1]
      BY <1>4, <2>1
    <2>4. ctx'[t].span = g[Len(g)].span /\ g[1].saved = base[t]
      BY <1>3, <2>2, <2>3
    <2>5. ASSUME NEW j \in DOMAIN g, j > 1 PROVE g[j].saved.span = g[j - 1].span
      <3>1. j - 1 \in DOMAIN g
        BY <1>2, <2>5
      <3>. QED
        BY <1>3, <1>4, <2>5, <3>1
    <2>. QED
      BY <1>2, <2>1, <2>4, <2>5 DEF Nested
  <1>. QED
    BY <1>5, <1>6

\* The block's span goes on to the host, and its task to what it left.
LEMMA ResetSpan ==
    ASSUME SpanIInv, NEW t \in Tasks, Reset(t)
    PROVE  /\ t \in live /\ emit[t].frame \in DOMAIN frames[t]
           /\ spans' \in Seq(SpanRecords) /\ SpansKept
           /\ \A q \in DOMAIN spans :
                 \/ spans'[q] = spans[q]
                 \/ Frame(t).kind # "bound" /\ q = Span(t)
           /\ \A q \in DOMAIN spans : OutOk(q)'
  <1>1. /\ emit[t].at = "reset" /\ disturbed' = disturbed
        /\ spans' = IF Frame(t).kind = "bound" THEN spans
                    ELSE [spans EXCEPT ![Span(t)].host =
                             IF "interrupt" \in spans[Span(t)].blamed THEN "interrupted"
                             ELSE spans[Span(t)].outcome]
    BY DEF Reset, EmitAt, log
  <1>2. /\ t \in live /\ emit[t].frame \in DOMAIN frames[t] /\ emit[t].event # "warning"
        /\ Frame(t).kind # "bound" => Made(spans[Span(t)], "reset") /\ Span(t) \in DOMAIN spans
    <2>1. EmissionOk(t)
      BY DEF SpanIInv, EmissionsOk
    <2>2. emit[t].frame \in DOMAIN frames[t] /\ emit[t].event # "warning"
      BY <1>1, <2>1 DEF EmissionOk
    <2>3. Frame(t).kind # "bound" => Made(spans[Span(t)], "reset")
      BY <1>1, <2>1, <2>2 DEF EmissionOk, Frame, Span
    <2>4. Frame(t).kind # "bound" => Span(t) \in DOMAIN spans
      BY <2>2 DEF SpanIInv, FramesOk, FrameOk, Frame, Span
    <2>5. t \in live
      BY <1>1 DEF SpanIInv, TasksOk
    <2>. QED
      BY <2>2, <2>3, <2>4, <2>5
  <1>3. \A q \in DOMAIN spans : OutOk(q)
    BY DEF SpanIInv, EmissionsOk
  <1>4. CASE Frame(t).kind = "bound"
    <2>1. spans' = spans
      BY <1>1, <1>4
    <2>. QED
      BY <1>1, <1>2, <1>3, <2>1 DEF SpanIInv, SpanTypes, SpansKept, Same, OutOk, StoreOk, LineOk
  <1>5. CASE Frame(t).kind # "bound"
    <2>1. PICK s \in DOMAIN spans : s = Span(t)
      BY <1>2, <1>5
    <2>2. PICK q \in SpanRecords : q = spans[s]
      BY LenProperties DEF SpanIInv, SpanTypes
    <2>3. PICK o \in {"open", "returned", "raised", "interrupted"} :
              /\ o = IF "interrupt" \in q.blamed THEN "interrupted" ELSE q.outcome
      BY DEF SpanRecords
    <2>4. PICK r \in SpanRecords : /\ r = [q EXCEPT !.host = o]
                                   /\ Same(r, q) /\ r.outcome = q.outcome /\ r.host = o
                                   /\ r.lines = q.lines /\ r.stored = q.stored
                                   /\ r.blamed = q.blamed
      <3>1. [q EXCEPT !.host = o] \in SpanRecords
        BY HostIs
      <3>. QED
        BY <3>1 DEF SpanRecords, Same
    <2>5. spans' = [spans EXCEPT ![s] = r]
      BY <1>1, <1>5, <2>1, <2>2, <2>3, <2>4
    <2>6. /\ spans' \in Seq(SpanRecords) /\ DOMAIN spans' = DOMAIN spans
          /\ spans'[s] = r /\ \A x \in DOMAIN spans : x # s => spans'[x] = spans[x]
      BY <2>5, SpanChanges DEF SpanIInv, SpanTypes
    <2>7. SpansKept
      BY <2>2, <2>4, <2>6 DEF SpansKept, Same
    <2>8. ASSUME NEW x \in DOMAIN spans PROVE OutOk(x)'
      <3>1. CASE x = s
        <4>1. StoreOk(q) /\ LineOk(q)
          BY <1>2, <1>5, <2>1, <2>2 DEF Made
        <4>. QED
          BY <1>1, <2>3, <2>4, <2>6, <3>1, <4>1 DEF OutOk, StoreOk, LineOk
      <3>2. CASE x # s
        BY <1>1, <1>3, <2>6, <3>2 DEF OutOk, StoreOk, LineOk
      <3>. QED
        BY <3>1, <3>2
    <2>. QED
      BY <1>2, <1>5, <2>1, <2>6, <2>7, <2>8
  <1>. QED
    BY <1>4, <1>5

\* The token of the block that is left resets the task's context.
LEMMA ResetKeeps ==
    ASSUME SpanIInv, NEW t \in Tasks, Reset(t)
    PROVE  SpanIInv'
  <1>1. /\ emit[t].at = "reset" /\ BlockGone(t, emit[t].frame)
        /\ ctx' = [ctx EXCEPT ![t] = Frame(t).saved]
        /\ emit' = [emit EXCEPT ![t] = EmitIdle]
        /\ entered' = entered /\ disordered' = disordered /\ headers' = headers
        /\ live' = live /\ base' = base /\ spanScope' = spanScope
        /\ conf' = conf /\ disturbed' = disturbed
    BY DEF Reset, EmitAt, BlockGone, fixed, log
  <1>2. /\ t \in live /\ emit[t].frame \in DOMAIN frames[t]
        /\ spans' \in Seq(SpanRecords) /\ SpansKept
        /\ \A q \in DOMAIN spans : \/ spans'[q] = spans[q]
                                   \/ Frame(t).kind # "bound" /\ q = Span(t)
        /\ \A q \in DOMAIN spans : OutOk(q)'
    BY ResetSpan
  <1>3. PICK i \in DOMAIN frames[t] : i = emit[t].frame /\ BlockGone(t, i)
    BY <1>1, <1>2
  <1>4. SpanTypes
    BY DEF SpanIInv
  <1>5. PICK f, g \in Seq(Frames) :
              /\ frames[t] = f /\ frames'[t] = g /\ frames' \in [Tasks -> Seq(Frames)]
              /\ \A u \in Tasks : u # t => frames'[u] = frames[u]
              /\ DOMAIN f = 1..Len(f) /\ DOMAIN g = 1..(Len(f) - 1)
              /\ \A j \in DOMAIN g : \E k \in DOMAIN f :
                    k = (IF j < i THEN j ELSE j + 1) /\ k # i /\ g[j] = f[k]
    BY <1>3, <1>4, BlocksLeft
  <1>6. Frame(t) = f[i] /\ Span(t) = f[i].span /\ i \in DOMAIN f
    BY <1>3, <1>5 DEF Frame, Span
  <1>7. f[i] \in Frames
    BY <1>5, <1>6, LenProperties
  <1>8. /\ ctx' \in [Tasks -> Contexts] /\ ctx'[t] = f[i].saved
        /\ \A u \in Tasks : u # t => ctx'[u] = ctx[u]
    BY <1>1, <1>4, <1>6, <1>7 DEF SpanTypes, Frames
  <1>9. /\ emit' \in [Tasks -> Emissions] /\ emit'[t] = EmitIdle
        /\ \A u \in Tasks : u # t => emit'[u] = emit[u]
    BY <1>1, <1>4 DEF SpanTypes, EmitIdle, Emissions
  <1>10. SpanTypes'
    BY <1>1, <1>2, <1>4, <1>5, <1>8, <1>9 DEF SpanTypes
  <1>11. \A c : CtxOk(c) => CtxOk(c)'
    BY <1>2, CtxKept
  <1>12. ASSUME NEW u \in Tasks, NEW j \in DOMAIN frames'[u]
         PROVE  \E k \in DOMAIN frames[u] :
                   /\ frames'[u][j] = frames[u][k]
                   /\ u = t => k # i
                   /\ u # t => k = j
    BY <1>5, <1>12
  <1>13. CtxsOk'
    <2>1. \A h \in headers : CtxOk(h)'
      BY <1>11 DEF SpanIInv, CtxsOk
    <2>2. \A u \in Tasks : CtxOk(ctx[u]) /\ CtxOk(base[u])
      BY DEF SpanIInv, CtxsOk
    <2>3. \A u \in Tasks : \A k \in DOMAIN frames[u] : CtxOk(frames[u][k].saved)
      BY DEF SpanIInv, CtxsOk
    <2>4. ASSUME NEW u \in Tasks PROVE CtxOk(ctx[u])' /\ CtxOk(base[u])'
      <3>1. PICK c, d : c = ctx'[u] /\ d = base'[u]
        OBVIOUS
      <3>2. CtxOk(c) /\ CtxOk(d)
        BY <1>1, <1>5, <1>6, <1>8, <2>2, <2>3, <3>1
      <3>3. CtxOk(c)' /\ CtxOk(d)'
        BY <1>11, <3>2
      <3>. QED
        BY <3>1, <3>3 DEF CtxOk
    <2>5. ASSUME NEW u \in Tasks, NEW j \in DOMAIN frames'[u]
          PROVE  CtxOk(frames[u][j].saved)'
      <3>1. PICK c : c = frames'[u][j].saved
        OBVIOUS
      <3>2. CtxOk(c)
        BY <1>12, <2>3, <3>1
      <3>3. CtxOk(c)'
        BY <1>11, <3>2
      <3>. QED
        BY <3>1, <3>3 DEF CtxOk
    <2>. QED
      BY <1>1, <2>1, <2>4, <2>5 DEF CtxsOk
  <1>14. ASSUME NEW u \in Tasks, NEW k \in DOMAIN frames[u], frames[u][k].kind # "bound",
                u = t => k # i
         PROVE  /\ frames[u][k].span \in DOMAIN spans
                /\ spans'[frames[u][k].span] = spans[frames[u][k].span]
    <2>1. frames[u][k].span \in DOMAIN spans
      BY <1>14 DEF SpanIInv, FramesOk, FrameOk
    <2>2. ~(Frame(t).kind # "bound" /\ frames[u][k].span = Span(t))
      <3>. SUFFICES ASSUME Frame(t).kind # "bound", frames[u][k].span = Span(t) PROVE FALSE
        OBVIOUS
      <3>1. FramesOk
        BY DEF SpanIInv
      <3>2. frames[t][i].kind # "bound" /\ frames[u][k].span = frames[t][i].span
        BY <1>5, <1>6
      <3>3. u = t /\ k = i
        BY <1>14, <3>1, <3>2, OneBlockPerSpan
      <3>. QED
        BY <1>14, <3>3
    <2>. QED
      BY <1>2, <2>1, <2>2
  <1>15. ASSUME NEW u \in Tasks, NEW j \in DOMAIN frames'[u],
                NEW l \in DOMAIN frames'[u], j # l
         PROVE  \E k, m \in DOMAIN frames[u] :
                   /\ frames'[u][j] = frames[u][k] /\ frames'[u][l] = frames[u][m]
                   /\ k # m /\ (u = t => k # i)
    <2>1. CASE u = t
      <3>1. PICK k \in DOMAIN f : k = (IF j < i THEN j ELSE j + 1) /\ k # i /\ g[j] = f[k]
        BY <1>5, <1>15, <2>1
      <3>2. PICK m \in DOMAIN f : m = (IF l < i THEN l ELSE l + 1) /\ m # i /\ g[l] = f[m]
        BY <1>5, <1>15, <2>1
      <3>3. j \in Nat /\ l \in Nat /\ i \in Nat
        BY <1>5, <1>15, <2>1
      <3>4. k # m
        BY <1>15, <3>1, <3>2, <3>3
      <3>. QED
        BY <1>5, <2>1, <3>1, <3>2, <3>4
    <2>2. CASE u # t
      BY <1>5, <1>15, <2>2
    <2>. QED
      BY <2>1, <2>2
  <1>16. FramesOk'
    <2>. SUFFICES ASSUME NEW u \in Tasks, NEW j \in DOMAIN frames'[u] PROVE FrameOk(u, j)'
      BY DEF FramesOk
    <2>1. PICK k \in DOMAIN frames[u] : frames'[u][j] = frames[u][k] /\ (u = t => k # i)
      BY <1>12
    <2>2. FrameOk(u, k)
      BY DEF SpanIInv, FramesOk
    <2>3. ASSUME frames[u][k].kind # "bound"
          PROVE  /\ frames[u][k].span \in DOMAIN spans'
                 /\ spans'[frames[u][k].span].task = u
                 /\ spans'[frames[u][k].span].host = "inside"
      <3>1. /\ frames[u][k].span \in DOMAIN spans
            /\ spans'[frames[u][k].span] = spans[frames[u][k].span]
        BY <1>14, <2>1, <2>3
      <3>. QED
        BY <1>2, <2>2, <2>3, <3>1 DEF FrameOk, SpansKept
    <2>4. ASSUME NEW l \in DOMAIN frames'[u], l # j, frames'[u][l].kind # "bound",
                 frames'[u][j].kind # "bound"
          PROVE  frames'[u][l].span # frames'[u][j].span
      <3>1. PICK x, m \in DOMAIN frames[u] :
                /\ frames'[u][j] = frames[u][x] /\ frames'[u][l] = frames[u][m] /\ x # m
        BY <1>15, <2>4
      <3>. QED
        BY <2>4, <3>1, OneBlockPerSpan DEF SpanIInv
    <2>. QED
      BY <1>1, <2>1, <2>2, <2>3, <2>4 DEF FrameOk
  <1>17. TasksOk'
    <2>1. \A u \in Tasks : ctx[u].span \in entered[u] \union {base[u].span}
      BY DEF SpanIInv, TasksOk
    <2>2. f[i].saved.span \in entered[t] \union {base[t].span}
      BY <1>3, <1>5 DEF SpanIInv, FramesOk, FrameOk
    <2>3. \A u \in Tasks : ctx'[u].span \in entered'[u] \union {base'[u].span}
      BY <1>1, <1>8, <2>1, <2>2
    <2>4. \A u \in Tasks \ live' : frames'[u] = <<>> /\ emit'[u].at = "idle"
      BY <1>1, <1>2, <1>5, <1>9 DEF SpanIInv, TasksOk
    <2>5. ASSUME NEW u \in Tasks \ disordered' PROVE Nested(u)'
      <3>1. Nested(u)
        BY <1>1, <2>5 DEF SpanIInv, TasksOk
      <3>2. CASE u = t
        <4>1. ctx'[t] = frames[t][emit[t].frame].saved
          BY <1>3, <1>5, <1>8
        <4>. QED
          BY <1>1, <1>2, <1>4, <1>9, <3>1, <3>2, <4>1, NestedReset DEF EmitIdle
      <3>3. CASE u # t
        BY <1>1, <1>5, <1>8, <1>9, <3>1, <3>3 DEF Nested
      <3>. QED
        BY <3>2, <3>3
    <2>. QED
      BY <2>3, <2>4, <2>5 DEF TasksOk
  <1>18. ParentsOk'
    BY <1>1, <1>2, ParentsKept DEF SpanIInv
  <1>19. EmissionsOk'
    <2>1. ASSUME NEW u \in Tasks PROVE EmissionOk(u)'
      <3>1. CASE u = t
        BY <1>9, <3>1 DEF EmissionOk, EmitIdle
      <3>2. CASE u # t
        <4>1. emit'[u] = emit[u] /\ frames'[u] = frames[u] /\ EmissionOk(u)
          BY <1>5, <1>9, <3>2 DEF SpanIInv, EmissionsOk
        <4>2. emit[u].at # "idle" /\ frames[u][emit[u].frame].kind # "bound" =>
                 spans'[frames[u][emit[u].frame].span] = spans[frames[u][emit[u].frame].span]
          BY <1>14, <3>2, <4>1 DEF EmissionOk
        <4>. QED
          BY <1>1, <4>1, <4>2 DEF EmissionOk, Made, StoreOk, LineOk
      <3>. QED
        BY <3>1, <3>2
    <2>2. Untouched'
      <3>. SUFFICES ASSUME NEW u \in Tasks, NEW j \in DOMAIN frames'[u], j # emit'[u].frame,
                           frames'[u][j].kind # "bound"
                    PROVE  spans'[frames'[u][j].span].stored = 0
        BY DEF Untouched
      <3>1. PICK k \in DOMAIN frames[u] : /\ frames'[u][j] = frames[u][k]
                                          /\ u = t => k # i
                                          /\ u # t => k = j
        BY <1>12
      <3>2. k # emit[u].frame
        BY <1>3, <1>9, <3>1
      <3>3. spans[frames[u][k].span].stored = 0
        BY <3>1, <3>2 DEF SpanIInv, EmissionsOk, Untouched
      <3>. QED
        BY <1>14, <3>1, <3>3
    <2>. QED
      BY <1>2, <2>1, <2>2 DEF EmissionsOk, SpansKept
  <1>. QED
    BY <1>10, <1>13, <1>16, <1>17, <1>18, <1>19 DEF SpanIInv

-----------------------------------------------------------------------------
\* A block is left: its span is given its outcome, and is all that it was.
LEMMA SpanLeft ==
    ASSUME SpanIInv, NEW t \in Tasks, NEW i \in DOMAIN frames[t],
           NEW o \in {"returned", "raised"}, frames[t][i].kind # "bound",
           spans' = [spans EXCEPT ![frames[t][i].span].outcome = o]
    PROVE  /\ spans' \in Seq(SpanRecords) /\ SpansKept
           /\ \A q \in DOMAIN spans :
                 /\ spans'[q].host = spans[q].host /\ spans'[q].stored = spans[q].stored
                 /\ spans'[q].lines = spans[q].lines /\ spans'[q].blamed = spans[q].blamed
                 /\ spans'[q].outcome = spans[q].outcome \/ spans[q].host = "inside"
  <1>1. PICK s \in DOMAIN spans : s = frames[t][i].span /\ spans[s].host = "inside"
    BY DEF SpanIInv, FramesOk, FrameOk
  <1>2. PICK q \in SpanRecords : q = spans[s]
    BY LenProperties DEF SpanIInv, SpanTypes
  <1>3. PICK r \in SpanRecords : /\ r = [q EXCEPT !.outcome = o]
                                 /\ Same(r, q) /\ r.outcome = o /\ r.host = q.host
                                 /\ r.lines = q.lines /\ r.stored = q.stored
                                 /\ r.blamed = q.blamed
    <2>1. [q EXCEPT !.outcome = o] \in SpanRecords
      BY OutcomeIs
    <2>. QED
      BY <2>1 DEF SpanRecords, Same
  <1>4. spans' = [spans EXCEPT ![s] = r]
    BY <1>1, <1>2, <1>3
  <1>5. /\ spans' \in Seq(SpanRecords) /\ DOMAIN spans' = DOMAIN spans
        /\ spans'[s] = r /\ \A x \in DOMAIN spans : x # s => spans'[x] = spans[x]
    BY <1>4, SpanChanges DEF SpanIInv, SpanTypes
  <1>6. SpansKept
    BY <1>2, <1>3, <1>5 DEF SpansKept, Same
  <1>. QED
    BY <1>1, <1>2, <1>3, <1>5, <1>6

\* The host leaves a block, and the emission of its span begins.
LEMMA LeaveBlockKeeps ==
    ASSUME SpanIInv, NEW t \in Tasks, NEW i \in DOMAIN frames[t],
           NEW o \in {"returned", "raised"}, LeaveBlock(t, i, o)
    PROVE  SpanIInv'
  <1>. DEFINE kind == frames[t][i].kind
  <1>1. /\ t \in live /\ emit[t].at = "idle"
        /\ disordered' = IF i = Len(frames[t]) THEN disordered ELSE disordered \union {t}
        /\ ctx' = ctx /\ frames' = frames /\ entered' = entered /\ headers' = headers
        /\ live' = live /\ base' = base /\ spanScope' = spanScope
        /\ conf' = conf /\ disturbed' = disturbed
    BY DEF LeaveBlock, Runs, fixed, log
  <1>2. SpanTypes /\ i \in Nat \ {0}
    BY LenProperties DEF SpanIInv, SpanTypes
  <1>3. PICK e \in Emissions :
            /\ emit' = [emit EXCEPT ![t] = e] /\ e.frame = i /\ e.event = "span"
            /\ e.at # "idle"
            /\ kind = "bound" => e.at = "reset"
            /\ kind # "bound" => e.at \in {"cost", "logger"}
    <2>. DEFINE e == [at |-> CASE kind = "bound" -> "reset" [] kind = "llm" -> "cost"
                               [] OTHER -> "logger",
                      frame |-> i, event |-> "span", after |-> "reset"]
    <2>1. e \in Emissions
      BY <1>2 DEF Emissions
    <2>2. emit' = [emit EXCEPT ![t] = e]
      BY DEF LeaveBlock
    <2>. QED
      BY <2>1, <2>2
  <1>4. /\ emit' \in [Tasks -> Emissions] /\ emit'[t] = e
        /\ \A u \in Tasks : u # t => emit'[u] = emit[u]
    BY <1>2, <1>3 DEF SpanTypes
  <1>5. /\ spans' \in Seq(SpanRecords) /\ SpansKept
        /\ \A q \in DOMAIN spans :
              /\ spans'[q].host = spans[q].host /\ spans'[q].stored = spans[q].stored
              /\ spans'[q].lines = spans[q].lines /\ spans'[q].blamed = spans[q].blamed
              /\ spans'[q].outcome = spans[q].outcome \/ spans[q].host = "inside"
    <2>1. CASE kind = "bound"
      <3>1. spans' = spans
        BY <2>1 DEF LeaveBlock
      <3>. QED
        BY <1>2, <3>1 DEF SpanTypes, SpansKept, Same
    <2>2. CASE kind # "bound"
      <3>1. spans' = [spans EXCEPT ![frames[t][i].span].outcome = o]
        BY <2>2 DEF LeaveBlock
      <3>. QED
        BY <2>2, <3>1, SpanLeft
    <2>. QED
      BY <2>1, <2>2
  <1>6. SpanTypes'
    BY <1>1, <1>2, <1>4, <1>5 DEF SpanTypes
  <1>7. CtxsOk'
    BY <1>1, <1>5, CtxsKept DEF SpanIInv
  <1>8. FramesOk'
    BY <1>1, <1>5 DEF SpanIInv, FramesOk, FrameOk, SpansKept, Same
  <1>9. TasksOk'
    <2>1. ASSUME NEW u \in Tasks \ disordered' PROVE Nested(u)'
      <3>1. Nested(u) /\ (u = t => i = Len(frames[t]))
        BY <1>1, <2>1 DEF SpanIInv, TasksOk
      <3>. QED
        BY <1>1, <1>3, <1>4, <3>1 DEF Nested
    <2>. QED
      BY <1>1, <1>4, <2>1 DEF SpanIInv, TasksOk
  <1>10. ParentsOk'
    BY <1>1, <1>5, ParentsKept DEF SpanIInv
  <1>12. EmissionsOk'
    <2>1. ASSUME NEW u \in Tasks PROVE EmissionOk(u)'
      <3>1. CASE u = t
        <4>1. kind # "bound" => /\ frames[t][i].span \in DOMAIN spans
                                /\ spans'[frames[t][i].span].stored = 0
          <5>1. emit[t].frame = 0
            BY <1>1 DEF SpanIInv, EmissionsOk, EmissionOk
          <5>2. kind # "bound" => spans[frames[t][i].span].stored = 0
            BY <1>2, <5>1 DEF SpanIInv, EmissionsOk, Untouched
          <5>3. kind # "bound" => frames[t][i].span \in DOMAIN spans
            BY DEF SpanIInv, FramesOk, FrameOk
          <5>. QED
            BY <1>5, <5>2, <5>3
        <4>. QED
          BY <1>1, <1>3, <1>4, <3>1, <4>1 DEF EmissionOk, Made
      <3>2. CASE u # t
        <4>1. emit'[u] = emit[u] /\ EmissionOk(u)
          BY <1>4, <3>2 DEF SpanIInv, EmissionsOk
        <4>2. frames[u][emit[u].frame].kind # "bound" /\ emit[u].at # "idle" =>
                 frames[u][emit[u].frame].span \in DOMAIN spans
          BY <4>1 DEF SpanIInv, FramesOk, FrameOk, EmissionOk
        <4>3. emit[u].at # "idle" /\ frames[u][emit[u].frame].kind # "bound" =>
                 LET r == spans'[frames[u][emit[u].frame].span]
                     q == spans[frames[u][emit[u].frame].span] IN
                 r.stored = q.stored /\ r.lines = q.lines /\ r.blamed = q.blamed
          BY <1>5, <4>2
        <4>. QED
          BY <1>1, <4>1, <4>3 DEF EmissionOk, Made, StoreOk, LineOk
      <3>. QED
        BY <3>1, <3>2
    <2>2. Untouched'
      <3>. SUFFICES ASSUME NEW u \in Tasks, NEW j \in DOMAIN frames[u], j # emit'[u].frame,
                           frames[u][j].kind # "bound"
                    PROVE  spans'[frames[u][j].span].stored = 0
        BY <1>1 DEF Untouched
      <3>1. frames[u][j].span \in DOMAIN spans
        BY DEF SpanIInv, FramesOk, FrameOk
      <3>2. j \in Nat \ {0}
        BY <1>2, LenProperties DEF SpanTypes
      <3>3. j # emit[u].frame
        BY <1>1, <1>4, <3>2 DEF SpanIInv, EmissionsOk, EmissionOk
      <3>. QED
        BY <1>5, <3>1, <3>3 DEF SpanIInv, EmissionsOk, Untouched
    <2>3. \A q \in DOMAIN spans : OutOk(q)'
      BY <1>1, <1>5 DEF SpanIInv, EmissionsOk, OutOk, StoreOk, LineOk
    <2>. QED
      BY <1>5, <2>1, <2>2, <2>3 DEF EmissionsOk, SpansKept
  <1>. QED
    BY <1>6, <1>7, <1>8, <1>9, <1>10, <1>12 DEF SpanIInv

-----------------------------------------------------------------------------
\* The beginning of a block: one more at the end of its task's.
Kinds == {"bound", "agent", "tool", "llm"}

\* A sequence with one more element at its end.
LEMMA AppendIs ==
    ASSUME NEW S, NEW s \in Seq(S), NEW x \in S
    PROVE  /\ Append(s, x) \in Seq(S) /\ Len(s) \in Nat /\ Len(Append(s, x)) = Len(s) + 1
           /\ DOMAIN s = 1..Len(s) /\ DOMAIN Append(s, x) = 1..(Len(s) + 1)
           /\ Append(s, x)[Len(s) + 1] = x
           /\ \A j \in DOMAIN s : j \in DOMAIN Append(s, x) /\ Append(s, x)[j] = s[j]
  <1>1. /\ Append(s, x) \in Seq(S) /\ Len(Append(s, x)) = Len(s) + 1
        /\ \A i \in 1..Len(s) : Append(s, x)[i] = s[i]
        /\ Append(s, x)[Len(s) + 1] = x
    BY AppendProperties
  <1>2. Len(s) \in Nat /\ DOMAIN s = 1..Len(s)
    BY LenProperties
  <1>3. DOMAIN Append(s, x) = 1..(Len(s) + 1)
    BY <1>1, LenProperties
  <1>4. \A j \in 1..Len(s) : j \in 1..(Len(s) + 1)
    BY <1>2
  <1>. QED
    BY <1>1, <1>2, <1>3, <1>4

\* One more block on the task's stack, with the context it found.
LEMMA BlockAdded ==
    ASSUME SpanTypes, NEW t \in Tasks, NEW kind \in Kinds, NEW c \in Contexts,
           Bind(t, kind, c)
    PROVE  \E f, g \in Seq(Frames), n \in Nat, r \in Frames :
              /\ frames[t] = f /\ frames'[t] = g
              /\ Len(f) = n /\ Len(g) = n + 1 /\ DOMAIN f = 1..n /\ DOMAIN g = 1..(n + 1)
              /\ g[n + 1] = r
              /\ \A j \in DOMAIN f : g[j] = f[j]
              /\ r.span = c.span /\ r.kind = kind /\ r.saved = ctx[t]
              /\ frames' \in [Tasks -> Seq(Frames)]
              /\ \A u \in Tasks : u # t => frames'[u] = frames[u]
  <1>. DEFINE r == [span |-> c.span, kind |-> kind, saved |-> ctx[t]]
  <1>1. c.span \in Ids /\ ctx[t] \in Contexts
    BY DEF SpanTypes, Contexts
  <1>2. r \in Frames
    BY <1>1 DEF Frames, Kinds
  <1>3. PICK f \in Seq(Frames) : f = frames[t]
    BY DEF SpanTypes
  <1>4. frames' = [frames EXCEPT ![t] = Append(f, r)]
    BY <1>3 DEF Bind, Enter
  <1>5. r.span = c.span /\ r.kind = kind /\ r.saved = ctx[t]
    OBVIOUS
  <1>. HIDE DEF r
  <1>6. /\ Append(f, r) \in Seq(Frames) /\ Len(f) \in Nat /\ Len(Append(f, r)) = Len(f) + 1
        /\ DOMAIN f = 1..Len(f) /\ DOMAIN Append(f, r) = 1..(Len(f) + 1)
        /\ Append(f, r)[Len(f) + 1] = r
        /\ \A j \in DOMAIN f : Append(f, r)[j] = f[j]
    BY <1>2, AppendIs
  <1>7. /\ frames' \in [Tasks -> Seq(Frames)] /\ frames'[t] = Append(f, r)
        /\ \A u \in Tasks : u # t => frames'[u] = frames[u]
    BY <1>4, <1>6 DEF SpanTypes
  <1>. QED
    BY <1>2, <1>3, <1>5, <1>6, <1>7

\* The context variables of the task alone are bound.
LEMMA TaskBound ==
    ASSUME SpanTypes, NEW t \in Tasks, NEW kind \in Kinds, NEW c \in Contexts,
           Bind(t, kind, c)
    PROVE  /\ ctx' \in [Tasks -> Contexts] /\ ctx'[t] = c
           /\ \A u \in Tasks : u # t => ctx'[u] = ctx[u]
           /\ entered' \in [Tasks -> SUBSET Ids]
           /\ entered'[t] = entered[t] \union {c.span}
           /\ \A u \in Tasks : u # t => entered'[u] = entered[u]
  BY DEF SpanTypes, Bind, Enter, Contexts

\* What a block binds over is the block around it.
LEMMA NestedBind ==
    ASSUME SpanTypes, NEW t \in Tasks, Nested(t), NEW kind \in Kinds, NEW c \in Contexts,
           Bind(t, kind, c), emit' = emit, base' = base, emit[t].at = "idle"
    PROVE  Nested(t)'
  <1>1. PICK f, g \in Seq(Frames), n \in Nat, r \in Frames :
              /\ frames[t] = f /\ frames'[t] = g
              /\ Len(f) = n /\ Len(g) = n + 1 /\ DOMAIN f = 1..n /\ DOMAIN g = 1..(n + 1)
              /\ g[n + 1] = r
              /\ \A j \in DOMAIN f : g[j] = f[j]
              /\ r.span = c.span /\ r.kind = kind /\ r.saved = ctx[t]
              /\ frames' \in [Tasks -> Seq(Frames)]
              /\ \A u \in Tasks : u # t => frames'[u] = frames[u]
    BY BlockAdded
  <1>2. ctx'[t] = c
    BY TaskBound
  <1>3. g # <<>>
    BY <1>1, EmptySeq
  <1>4. CASE n = 0
    <2>1. f = <<>>
      BY <1>1, <1>4, EmptySeq
    <2>2. ctx[t] = base[t]
      BY <1>1, <2>1 DEF Nested
    <2>3. Len(g) = 1 /\ g[1] = r /\ DOMAIN g = 1..1
      BY <1>1, <1>4
    <2>4. r.saved = base[t] /\ ctx'[t].span = r.span
      BY <1>1, <1>2, <2>2
    <2>5. \A j \in DOMAIN g : ~(j > 1)
      BY <2>3
    <2>. QED
      BY <1>1, <1>3, <2>3, <2>4, <2>5 DEF Nested
  <1>5. CASE n # 0
    <2>1. f # <<>> /\ n \in DOMAIN f /\ 1 \in DOMAIN f
      BY <1>1, <1>5, EmptySeq
    <2>2. /\ ctx[t].span = f[n].span /\ f[1].saved = base[t]
          /\ \A j \in DOMAIN f : j > 1 => f[j].saved.span = f[j - 1].span
      BY <1>1, <2>1 DEF Nested
    <2>3. g[n] = f[n] /\ g[1] = f[1]
      BY <1>1, <2>1
    <2>4. ASSUME NEW j \in DOMAIN g, j > 1 PROVE g[j].saved.span = g[j - 1].span
      <3>1. CASE j = n + 1
        <4>1. j - 1 = n
          BY <1>1, <3>1
        <4>. QED
          BY <1>1, <2>2, <2>3, <3>1, <4>1
      <3>2. CASE j # n + 1
        <4>1. j \in DOMAIN f /\ j - 1 \in DOMAIN f
          BY <1>1, <2>4, <3>2
        <4>. QED
          BY <1>1, <2>2, <2>4, <4>1
      <3>. QED
        BY <3>1, <3>2
    <2>5. ctx'[t].span = g[Len(g)].span /\ g[1].saved = base[t]
      BY <1>1, <1>2, <2>2, <2>3
    <2>. QED
      BY <1>1, <1>3, <2>4, <2>5 DEF Nested
  <1>. QED
    BY <1>4, <1>5

\* The spans there were are as they were.
Grown == \A q \in DOMAIN spans : q \in DOMAIN spans' /\ spans'[q] = spans[q]

\* A context in the tree stays there when spans are opened.
LEMMA CtxGrown ==
    ASSUME Grown, NEW c, CtxOk(c)
    PROVE  CtxOk(c)'
  BY DEF Grown, CtxOk

\* A block that binds a context of the tree keeps the invariant.
LEMMA BindKeeps ==
    ASSUME SpanIInv, NEW t \in Tasks, NEW kind \in Kinds, NEW c \in Contexts, Runs(t),
           Bind(t, kind, c), UNCHANGED <<emit, disordered, fixed>>, UNCHANGED log,
           spans' \in Seq(SpanRecords), Grown, CtxOk(c)', ParentsOk',
           kind # "bound" => /\ c.span \in DOMAIN spans' \ DOMAIN spans
                             /\ spans'[c.span].task = t /\ spans'[c.span].stored = 0,
           \A q \in DOMAIN spans' \ DOMAIN spans : spans'[q].host = "inside"
    PROVE  SpanIInv'
  <1>1. /\ t \in live /\ emit[t].at = "idle" /\ emit' = emit /\ disordered' = disordered
        /\ headers' = headers /\ live' = live /\ base' = base /\ spanScope' = spanScope
        /\ conf' = conf /\ disturbed' = disturbed
    BY DEF Runs, fixed, log
  <1>2. SpanTypes
    BY DEF SpanIInv
  <1>3. PICK f, g \in Seq(Frames), n \in Nat, r \in Frames :
              /\ frames[t] = f /\ frames'[t] = g
              /\ Len(f) = n /\ Len(g) = n + 1 /\ DOMAIN f = 1..n /\ DOMAIN g = 1..(n + 1)
              /\ g[n + 1] = r
              /\ \A j \in DOMAIN f : g[j] = f[j]
              /\ r.span = c.span /\ r.kind = kind /\ r.saved = ctx[t]
              /\ frames' \in [Tasks -> Seq(Frames)]
              /\ \A u \in Tasks : u # t => frames'[u] = frames[u]
    BY <1>2, BlockAdded
  <1>4. /\ frames' \in [Tasks -> Seq(Frames)]
        /\ \A u \in Tasks : u # t => frames'[u] = frames[u]
        /\ ctx' \in [Tasks -> Contexts] /\ ctx'[t] = c
        /\ \A u \in Tasks : u # t => ctx'[u] = ctx[u]
        /\ entered' \in [Tasks -> SUBSET Ids]
        /\ entered'[t] = entered[t] \union {c.span}
        /\ \A u \in Tasks : u # t => entered'[u] = entered[u]
    BY <1>2, <1>3, TaskBound
  <1>5. SpanTypes'
    BY <1>1, <1>2, <1>4 DEF SpanTypes
  <1>6. ASSUME NEW u \in Tasks, NEW j \in DOMAIN frames'[u]
        PROVE  \/ j \in DOMAIN frames[u] /\ frames'[u][j] = frames[u][j]
               \/ u = t /\ j = n + 1 /\ frames'[u][j] = r
    <2>1. CASE u = t
      <3>1. j \in DOMAIN f \/ j = n + 1
        BY <1>3, <1>6, <2>1
      <3>. QED
        BY <1>3, <2>1, <3>1
    <2>2. CASE u # t
      BY <1>4, <1>6, <2>2
    <2>. QED
      BY <2>1, <2>2
  <1>7. \A u \in Tasks : \A j \in DOMAIN frames[u] :
           j \in DOMAIN frames'[u] /\ frames'[u][j] = frames[u][j]
    <2>1. \A j \in DOMAIN f : j \in DOMAIN g /\ g[j] = f[j]
      BY <1>3
    <2>. QED
      BY <1>3, <2>1
  <1>8. n + 1 \notin DOMAIN frames[t]
    BY <1>3
  <1>9. CtxsOk'
    <2>1. \A x : CtxOk(x) => CtxOk(x)'
      BY CtxGrown
    <2>2. \A h \in headers : CtxOk(h)'
      BY <2>1 DEF SpanIInv, CtxsOk
    <2>3. \A u \in Tasks : CtxOk(ctx[u]) /\ CtxOk(base[u])
      BY DEF SpanIInv, CtxsOk
    <2>4. \A u \in Tasks : \A k \in DOMAIN frames[u] : CtxOk(frames[u][k].saved)
      BY DEF SpanIInv, CtxsOk
    <2>5. ASSUME NEW u \in Tasks PROVE CtxOk(ctx[u])' /\ CtxOk(base[u])'
      <3>1. PICK x, d : x = ctx'[u] /\ d = base'[u]
        OBVIOUS
      <3>2. (x = c \/ CtxOk(x)) /\ CtxOk(d)
        BY <1>1, <1>4, <2>3, <3>1
      <3>3. CtxOk(x)' /\ CtxOk(d)'
        BY <2>1, <3>2
      <3>. QED
        BY <3>1, <3>3 DEF CtxOk
    <2>6. ASSUME NEW u \in Tasks, NEW j \in DOMAIN frames'[u]
          PROVE  CtxOk(frames[u][j].saved)'
      <3>1. PICK x : x = frames'[u][j].saved
        OBVIOUS
      <3>2. CtxOk(x)
        BY <1>3, <1>6, <2>3, <2>4, <3>1
      <3>3. CtxOk(x)'
        BY <2>1, <3>2
      <3>. QED
        BY <3>1, <3>3 DEF CtxOk
    <2>. QED
      BY <1>1, <2>2, <2>5, <2>6 DEF CtxsOk
  <1>10. \A u \in Tasks : entered[u] \subseteq entered'[u]
    BY <1>4
  <1>11. ASSUME NEW u \in Tasks, NEW j \in DOMAIN frames[u], frames[u][j].kind # "bound"
         PROVE  /\ frames[u][j].span \in DOMAIN spans
                /\ spans'[frames[u][j].span] = spans[frames[u][j].span]
    <2>1. frames[u][j].span \in DOMAIN spans
      BY <1>11 DEF SpanIInv, FramesOk, FrameOk
    <2>. QED
      BY <2>1 DEF Grown
  <1>12. FramesOk'
    <2>. SUFFICES ASSUME NEW u \in Tasks, NEW j \in DOMAIN frames'[u] PROVE FrameOk(u, j)'
      BY DEF FramesOk
    <2>1. ASSUME NEW k \in DOMAIN frames'[u], k # j, frames'[u][k].kind # "bound",
                 frames'[u][j].kind # "bound"
          PROVE  frames'[u][k].span # frames'[u][j].span
      <3>1. CASE j \in DOMAIN frames[u] /\ k \in DOMAIN frames[u]
        BY <1>7, <2>1, <3>1, OneBlockPerSpan DEF SpanIInv
      <3>2. CASE j \in DOMAIN frames[u] /\ k \notin DOMAIN frames[u]
        BY <1>3, <1>6, <1>7, <1>11, <2>1, <3>2
      <3>3. CASE j \notin DOMAIN frames[u] /\ k \in DOMAIN frames[u]
        BY <1>3, <1>6, <1>7, <1>11, <2>1, <3>3
      <3>4. CASE j \notin DOMAIN frames[u] /\ k \notin DOMAIN frames[u]
        BY <1>6, <2>1, <3>4
      <3>. QED
        BY <3>1, <3>2, <3>3, <3>4
    <2>2. CASE j \in DOMAIN frames[u] /\ frames'[u][j] = frames[u][j]
      <3>1. FrameOk(u, j)
        BY <2>2 DEF SpanIInv, FramesOk
      <3>2. frames'[u][j].kind # "bound" =>
                /\ frames'[u][j].span \in DOMAIN spans'
                /\ spans'[frames'[u][j].span].task = u
                /\ spans'[frames'[u][j].span].host = "inside"
        BY <1>11, <2>2, <3>1 DEF FrameOk, Grown
      <3>. QED
        BY <1>1, <1>10, <2>1, <2>2, <3>1, <3>2 DEF FrameOk
    <2>3. CASE u = t /\ j = n + 1 /\ frames'[u][j] = r
      <3>1. ctx[t].span \in entered[t] \union {base[t].span}
        BY DEF SpanIInv, TasksOk
      <3>. QED
        BY <1>1, <1>3, <1>4, <2>1, <2>3, <3>1 DEF FrameOk
    <2>. QED
      BY <1>6, <2>2, <2>3
  <1>13. TasksOk'
    <2>1. \A u \in Tasks : ctx'[u].span \in entered'[u] \union {base'[u].span}
      BY <1>1, <1>4 DEF SpanIInv, TasksOk
    <2>2. \A u \in Tasks \ live' : frames'[u] = <<>> /\ emit'[u].at = "idle"
      BY <1>1, <1>4 DEF SpanIInv, TasksOk
    <2>3. ASSUME NEW u \in Tasks \ disordered' PROVE Nested(u)'
      <3>1. Nested(u)
        BY <1>1, <2>3 DEF SpanIInv, TasksOk
      <3>2. CASE u = t
        BY <1>1, <1>2, <3>1, <3>2, NestedBind
      <3>3. CASE u # t
        BY <1>1, <1>4, <3>1, <3>3 DEF Nested
      <3>. QED
        BY <3>2, <3>3
    <2>. QED
      BY <2>1, <2>2, <2>3 DEF TasksOk
  <1>14. EmissionsOk'
    <2>1. ASSUME NEW u \in Tasks PROVE EmissionOk(u)'
      <3>1. EmissionOk(u)
        BY DEF SpanIInv, EmissionsOk
      <3>2. emit[u].at # "idle" =>
               /\ emit[u].frame \in DOMAIN frames'[u]
               /\ frames'[u][emit[u].frame] = frames[u][emit[u].frame]
        BY <1>7, <3>1 DEF EmissionOk
      <3>3. emit[u].at # "idle" /\ frames[u][emit[u].frame].kind # "bound" =>
               spans'[frames[u][emit[u].frame].span] = spans[frames[u][emit[u].frame].span]
        BY <1>11, <3>1 DEF EmissionOk
      <3>. QED
        BY <1>1, <3>1, <3>2, <3>3 DEF EmissionOk, Made, StoreOk, LineOk
    <2>2. Untouched'
      <3>. SUFFICES ASSUME NEW u \in Tasks, NEW j \in DOMAIN frames'[u], j # emit[u].frame,
                           frames'[u][j].kind # "bound"
                    PROVE  spans'[frames'[u][j].span].stored = 0
        BY <1>1 DEF Untouched
      <3>1. CASE j \in DOMAIN frames[u] /\ frames'[u][j] = frames[u][j]
        BY <1>11, <3>1 DEF SpanIInv, EmissionsOk, Untouched
      <3>2. CASE u = t /\ j = n + 1 /\ frames'[u][j] = r
        BY <1>3, <3>2
      <3>. QED
        BY <1>6, <3>1, <3>2
    <2>3. \A q \in DOMAIN spans' : OutOk(q)'
      BY <1>1 DEF SpanIInv, EmissionsOk, OutOk, StoreOk, LineOk, Grown
    <2>. QED
      BY <2>1, <2>2, <2>3 DEF EmissionsOk
  <1>. QED
    BY <1>5, <1>9, <1>12, <1>13, <1>14 DEF SpanIInv

-----------------------------------------------------------------------------
\* A new span, last of the spans, has its parent's trace.
LEMMA NewSpan ==
    ASSUME SpanIInv, NEW t \in Tasks, NEW kind, NEW key \in Keys, OpenSpan(t, kind, key)
    PROVE  \E n \in Nat, trace \in Ids, r \in SpanRecords :
              /\ n = Len(spans) + 1 /\ DOMAIN spans = 1..(n - 1) /\ DOMAIN spans' = 1..n
              /\ trace = IF ctx[t].trace = 0 THEN n ELSE ctx[t].trace
              /\ spans' \in Seq(SpanRecords) /\ Grown
              /\ spans'[n] = r
              /\ r.task = t /\ r.trace = trace /\ r.parent = ctx[t].span
              /\ r.host = "inside" /\ r.stored = 0
              /\ r.enclosed <=> \E i \in DOMAIN frames[t] : frames[t][i].span = ctx[t].span
              /\ Bind(t, kind, [trace |-> trace, span |-> n, state |-> FALSE])
  <1>. DEFINE n == Len(spans) + 1
              trace == IF ctx[t].trace = 0 THEN n ELSE ctx[t].trace
  <1>1. spans \in Seq(SpanRecords) /\ ctx[t] \in Contexts
    BY DEF SpanIInv, SpanTypes
  <1>2. n \in Nat /\ n \in Ids
    BY <1>1, LenProperties DEF Ids
  <1>3. trace \in Ids /\ ctx[t].span \in Ids
    BY <1>1, <1>2 DEF Contexts
  <1>4. PICK b \in BOOLEAN :
            b <=> \E i \in DOMAIN frames[t] : frames[t][i].span = ctx[t].span
    OBVIOUS
  <1>. DEFINE r == [task |-> t, key |-> key, trace |-> trace, parent |-> ctx[t].span,
                    outcome |-> "open", host |-> "inside", lines |-> 0, stored |-> 0,
                    exported |-> FALSE, blamed |-> {}, enclosed |-> b]
  <1>5. r \in SpanRecords
    BY <1>3 DEF SpanRecords
  <1>6. /\ r.task = t /\ r.trace = trace /\ r.parent = ctx[t].span
        /\ r.host = "inside" /\ r.stored = 0 /\ r.enclosed = b
    OBVIOUS
  <1>7. spans' = Append(spans, r)
    BY <1>4 DEF OpenSpan
  <1>8. Bind(t, kind, [trace |-> trace, span |-> n, state |-> FALSE])
    BY DEF OpenSpan
  <1>. HIDE DEF r
  <1>9. /\ spans' \in Seq(SpanRecords) /\ DOMAIN spans = 1..Len(spans)
        /\ DOMAIN spans' = 1..(Len(spans) + 1) /\ spans'[Len(spans) + 1] = r
        /\ Grown
    BY <1>1, <1>5, <1>7, AppendIs DEF Grown
  <1>10. n - 1 = Len(spans)
    BY <1>1, LenProperties
  <1>. HIDE DEF trace
  <1>11. DOMAIN spans = 1..(n - 1) /\ DOMAIN spans' = 1..n /\ spans'[n] = r
    BY <1>9, <1>10
  <1>12. r.enclosed <=> \E i \in DOMAIN frames[t] : frames[t][i].span = ctx[t].span
    BY <1>4, <1>6
  <1>13. trace = IF ctx[t].trace = 0 THEN n ELSE ctx[t].trace
    BY DEF trace
  <1>14. n = Len(spans) + 1
    OBVIOUS
  <1>. HIDE DEF n
  <1>. QED
    BY <1>2, <1>3, <1>5, <1>6, <1>8, <1>9, <1>11, <1>12, <1>13, <1>14

\* A span is opened under what its task is bound to.
LEMMA OpenSpanKeeps ==
    ASSUME SpanIInv, NEW t \in Tasks, NEW kind \in Kinds \ {"bound"}, NEW key \in Keys,
           OpenSpan(t, kind, key)
    PROVE  SpanIInv'
  <1>1. PICK n \in Nat, trace \in Ids, r \in SpanRecords :
              /\ n = Len(spans) + 1 /\ DOMAIN spans = 1..(n - 1) /\ DOMAIN spans' = 1..n
              /\ trace = IF ctx[t].trace = 0 THEN n ELSE ctx[t].trace
              /\ spans' \in Seq(SpanRecords) /\ Grown
              /\ spans'[n] = r
              /\ r.task = t /\ r.trace = trace /\ r.parent = ctx[t].span
              /\ r.host = "inside" /\ r.stored = 0
              /\ r.enclosed <=> \E i \in DOMAIN frames[t] : frames[t][i].span = ctx[t].span
              /\ Bind(t, kind, [trace |-> trace, span |-> n, state |-> FALSE])
    BY NewSpan
  <1>2. PICK c \in Contexts : /\ c = [trace |-> trace, span |-> n, state |-> FALSE]
                              /\ c.trace = trace /\ c.span = n /\ ~c.state
    <2>. DEFINE c == [trace |-> trace, span |-> n, state |-> FALSE]
    <2>1. n \in Ids
      BY DEF Ids
    <2>2. c \in Contexts
      BY <2>1 DEF Contexts
    <2>3. c.trace = trace /\ c.span = n /\ ~c.state
      OBVIOUS
    <2>. QED
      BY <2>2, <2>3
  <1>3. /\ Runs(t) /\ UNCHANGED <<emit, disordered, fixed>> /\ UNCHANGED log
        /\ Bind(t, kind, c)
    BY <1>1, <1>2 DEF OpenSpan
  <1>4. n \in DOMAIN spans' /\ n \notin DOMAIN spans /\ n # 0 /\ n # Foreign
        /\ DOMAIN spans' = DOMAIN spans \union {n} /\ 0 \notin DOMAIN spans'
        /\ Foreign \notin DOMAIN spans' /\ Foreign # 0
        /\ \A p \in DOMAIN spans : p < n
    <2>1. 1 <= n
      BY <1>1, LenProperties DEF SpanIInv, SpanTypes
    <2>. QED
      BY <1>1, <2>1, SpansAssumption
  <1>5. CtxOk(c)'
    BY <1>1, <1>2, <1>4 DEF CtxOk
  <1>6. /\ base' = base /\ live' = live /\ disordered' = disordered /\ t \in live
        /\ \A u \in Tasks : entered[u] \subseteq entered'[u]
    BY <1>3, <1>2, TaskBound DEF fixed, Runs, SpanIInv
  <1>7. ParentsOk'
    <2>. SUFFICES ASSUME NEW s \in DOMAIN spans' PROVE ParentOk(s)'
      BY DEF ParentsOk
    <2>1. CASE s \in DOMAIN spans
      <3>1. ParentOk(s) /\ spans'[s] = spans[s]
        BY <1>1, <2>1 DEF SpanIInv, ParentsOk, Grown
      <3>2. \A p \in DOMAIN spans : spans'[p].trace = spans[p].trace
        BY <1>1 DEF Grown
      <3>3. spans[s].parent \in DOMAIN spans' => spans[s].parent \in DOMAIN spans
        BY <1>4, <3>1 DEF ParentOk
      <3>4. spans[s].task \in Tasks
        BY <3>1 DEF ParentOk, SpanIInv, SpanTypes
      <3>. QED
        BY <1>4, <1>6, <3>1, <3>2, <3>3, <3>4 DEF ParentOk
    <2>2. CASE s = n
      <3>. DEFINE p == ctx[t].span
      <3>1. /\ CtxOk(ctx[t]) /\ ctx[t].span \in entered[t] \union {base[t].span}
            /\ t \notin disordered => Nested(t)
        BY DEF SpanIInv, CtxsOk, TasksOk
      <3>2. \A q \in DOMAIN spans : spans[q].trace \in DOMAIN spans \union {Foreign}
        BY DEF SpanIInv, ParentsOk, ParentOk
      <3>3. \/ ctx[t].trace = 0 /\ p = 0
            \/ ctx[t].trace = Foreign /\ p = Foreign
            \/ p \in DOMAIN spans /\ ctx[t].trace = spans[p].trace
        BY <3>1 DEF CtxOk
      <3>4. /\ trace \in DOMAIN spans' \union {Foreign}
            /\ p \in DOMAIN spans' \union {0, Foreign}
            /\ p \in DOMAIN spans' => p \in DOMAIN spans /\ spans[p].trace = trace
            /\ p = Foreign => trace = Foreign
            /\ p = 0 => trace = n
        BY <1>1, <1>4, <3>2, <3>3
      <3>5. \/ p = base[t].span
            \/ \E i \in DOMAIN frames[t] : frames[t][i].span = p
            \/ t \in disordered /\ p \in entered'[t]
        <4>1. CASE t \in disordered
          BY <1>6, <3>1, <4>1
        <4>2. CASE t \notin disordered /\ frames[t] = <<>>
          BY <3>1, <4>2 DEF Nested
        <4>3. CASE t \notin disordered /\ frames[t] # <<>>
          <5>1. frames[t][Len(frames[t])].span = p
            BY <3>1, <4>3 DEF Nested
          <5>2. Len(frames[t]) \in DOMAIN frames[t]
            <6>1. frames[t] \in Seq(Frames)
              BY DEF SpanIInv, SpanTypes
            <6>. QED
              BY <4>3, <6>1, LenProperties, EmptySeq
          <5>. QED
            BY <5>1, <5>2
        <4>. QED
          BY <4>1, <4>2, <4>3
      <3>6. p \in DOMAIN spans => spans'[p].trace = spans[p].trace /\ p < n
        BY <1>1, <1>4 DEF Grown
      <3>. QED
        BY <1>1, <1>6, <2>2, <3>4, <3>5, <3>6 DEF ParentOk
    <2>. QED
      BY <1>4, <2>1, <2>2
  <1>8. /\ c.span \in DOMAIN spans' \ DOMAIN spans
        /\ spans'[c.span].task = t /\ spans'[c.span].stored = 0
        /\ \A q \in DOMAIN spans' \ DOMAIN spans : spans'[q].host = "inside"
    BY <1>1, <1>2, <1>4
  <1>9. spans' \in Seq(SpanRecords) /\ Grown
    BY <1>1
  <1>. QED
    BY <1>3, <1>5, <1>7, <1>8, <1>9, BindKeeps

\* A header that came in is bound; one that is sent is a context of the tree.
LEMMA BindHeaderKeeps ==
    ASSUME SpanIInv, NEW t \in Tasks, NEW h \in headers, NEW passed \in BOOLEAN,
           BindHeader(t, h, passed)
    PROVE  SpanIInv'
  <1>1. h \in Contexts /\ CtxOk(h)
    BY DEF SpanIInv, SpanTypes, CtxsOk
  <1>2. PICK b \in BOOLEAN : b <=> h.state /\ passed
    OBVIOUS
  <1>3. PICK c \in Contexts : /\ c = [h EXCEPT !.state = b]
                              /\ c.trace = h.trace /\ c.span = h.span /\ c.state = b
    <2>. DEFINE c == [h EXCEPT !.state = b]
    <2>1. c \in Contexts
      BY <1>1 DEF Contexts
    <2>2. c.trace = h.trace /\ c.span = h.span /\ c.state = b
      BY <1>1 DEF Contexts
    <2>. QED
      BY <2>1, <2>2
  <1>4. /\ Runs(t) /\ UNCHANGED <<emit, disordered, fixed>> /\ UNCHANGED log
        /\ Bind(t, "bound", c) /\ spans' = spans
    <2>1. b = (h.state /\ passed)
      BY <1>2
    <2>. QED
      BY <1>3, <2>1 DEF BindHeader
  <1>5. spans' \in Seq(SpanRecords) /\ Grown /\ DOMAIN spans' = DOMAIN spans
    BY <1>4 DEF SpanIInv, SpanTypes, Grown
  <1>6. CtxOk(c)'
    <2>1. CtxOk(c)
      BY <1>1, <1>2, <1>3 DEF CtxOk
    <2>. QED
      BY <1>5, <2>1, CtxGrown
  <1>7. /\ base' = base /\ live' = live /\ disordered' = disordered /\ "bound" \in Kinds
        /\ \A u \in Tasks : entered[u] \subseteq entered'[u]
    <2>1. "bound" \in Kinds
      BY DEF Kinds
    <2>. QED
      BY <1>4, <2>1, TaskBound DEF fixed, SpanIInv
  <1>8. SpansKept
    BY <1>4 DEF SpansKept, Same
  <1>9. live \subseteq Tasks
    BY DEF SpanIInv, SpanTypes
  <1>10. ParentsOk'
    BY <1>7, <1>8, <1>9, ParentsKept DEF SpanIInv
  <1>11. \A q \in DOMAIN spans' \ DOMAIN spans : spans'[q].host = "inside"
    BY <1>5
  <1>. QED
    BY <1>4, <1>5, <1>6, <1>7, <1>10, <1>11, BindKeeps

-----------------------------------------------------------------------------
\* What is made of the spans stays made while none of them changes.
LEMMA EmissionsStay ==
    ASSUME EmissionsOk, UNCHANGED <<frames, emit, spans>>,
           \A u \in Tasks : conf[u].pc # "idle" => conf'[u].pc # "idle",
           disturbed => disturbed'
    PROVE  EmissionsOk'
  <1>1. frames' = frames /\ emit' = emit /\ spans' = spans
    OBVIOUS
  <1>2. \A r : LineOk(r) => LineOk(r)'
    BY LineStays
  <1>3. \A r, p : Made(r, p) => Made(r, p)'
    BY MadeStays
  <1>4. ASSUME NEW u \in Tasks PROVE EmissionOk(u)'
    <2>1. EmissionOk(u)
      BY DEF EmissionsOk
    <2>. QED
      BY <1>1, <1>3, <2>1 DEF EmissionOk
  <1>5. ASSUME NEW q \in DOMAIN spans PROVE OutOk(q)'
    <2>1. OutOk(q)
      BY DEF EmissionsOk
    <2>. QED
      BY <1>1, <1>2, <2>1 DEF OutOk, StoreOk
  <1>. QED
    BY <1>1, <1>4, <1>5 DEF EmissionsOk, Untouched

\* A task begins in the context it was given; a header goes out.
LEMMA SpawnKeeps ==
    ASSUME SpanIInv, NEW t \in Tasks, NEW u \in Tasks, NEW copied \in BOOLEAN,
           Spawn(t, u, copied)
    PROVE  SpanIInv'
  <1>1. /\ u \notin live /\ live' = live \union {u}
        /\ frames' = frames /\ entered' = entered /\ emit' = emit /\ spans' = spans
        /\ headers' = headers /\ disordered' = disordered /\ spanScope' = spanScope
        /\ conf' = conf /\ disturbed' = disturbed
    BY DEF Spawn, log
  <1>2. PICK c \in Contexts : c = (IF copied THEN ctx[t] ELSE Unbound) /\ CtxOk(c)
    <2>1. ctx[t] \in Contexts /\ CtxOk(ctx[t])
      BY DEF SpanIInv, SpanTypes, CtxsOk
    <2>2. Unbound \in Contexts /\ CtxOk(Unbound)
      BY DEF CtxOk, Unbound, Contexts, Ids
    <2>. QED
      BY <2>1, <2>2
  <1>3. /\ base' = [base EXCEPT ![u] = c] /\ ctx' = [ctx EXCEPT ![u] = c]
    <2>1. base' = [base EXCEPT ![u] = c] /\ ctx' = [ctx EXCEPT ![u] = base'[u]]
      BY <1>2 DEF Spawn
    <2>2. base'[u] = c
      BY <2>1 DEF SpanIInv, SpanTypes
    <2>. QED
      BY <2>1, <2>2
  <1>4. /\ {ctx', base'} \subseteq [Tasks -> Contexts] /\ ctx'[u] = c /\ base'[u] = c
        /\ \A w \in Tasks : w # u => ctx'[w] = ctx[w] /\ base'[w] = base[w]
    BY <1>3 DEF SpanIInv, SpanTypes
  <1>5. SpanTypes'
    BY <1>1, <1>4 DEF SpanIInv, SpanTypes
  <1>6. CtxsOk'
    <2>1. \A x : CtxOk(x) => CtxOk(x)'
      BY <1>1 DEF CtxOk
    <2>2. ASSUME NEW w \in Tasks PROVE CtxOk(ctx[w])' /\ CtxOk(base[w])'
      <3>1. PICK x, y : x = ctx'[w] /\ y = base'[w]
        OBVIOUS
      <3>2. CtxOk(x) /\ CtxOk(y)
        BY <1>2, <1>4, <3>1 DEF SpanIInv, CtxsOk
      <3>3. CtxOk(x)' /\ CtxOk(y)'
        BY <2>1, <3>2
      <3>. QED
        BY <3>1, <3>3 DEF CtxOk
    <2>. QED
      BY <1>1, <2>2 DEF SpanIInv, CtxsOk, CtxOk
  <1>7. frames[u] = <<>> /\ emit[u].at = "idle" /\ u \notin disordered
    BY <1>1 DEF SpanIInv, TasksOk, SpanTypes
  <1>8. FramesOk'
    <2>1. \A i \in DOMAIN frames[u] : FALSE
      BY <1>7
    <2>2. ASSUME NEW w \in Tasks, NEW i \in DOMAIN frames[w] PROVE FrameOk(w, i)'
      <3>1. FrameOk(w, i) /\ w # u
        BY <2>1 DEF SpanIInv, FramesOk
      <3>. QED
        BY <1>1, <1>4, <3>1 DEF FrameOk
    <2>. QED
      BY <1>1, <2>2 DEF FramesOk
  <1>9. TasksOk'
    <2>1. ASSUME NEW w \in Tasks \ disordered PROVE Nested(w)'
      <3>1. Nested(w)
        BY DEF SpanIInv, TasksOk
      <3>2. CASE w = u
        BY <1>1, <1>4, <1>7, <3>2 DEF Nested
      <3>3. CASE w # u
        BY <1>1, <1>4, <3>1, <3>3 DEF Nested
      <3>. QED
        BY <3>2, <3>3
    <2>. QED
      BY <1>1, <1>4, <2>1 DEF SpanIInv, TasksOk
  <1>10. SpansKept
    BY <1>1 DEF SpansKept, Same
  <1>11. ParentsOk'
    <2>1. \A w \in live : base'[w] = base[w] /\ entered[w] \subseteq entered'[w]
      BY <1>1, <1>4 DEF SpanIInv, SpanTypes
    <2>. QED
      BY <1>1, <1>10, <2>1, ParentsKept DEF SpanIInv
  <1>12. EmissionsOk'
    BY <1>1, EmissionsStay DEF SpanIInv
  <1>. QED
    BY <1>5, <1>6, <1>8, <1>9, <1>11, <1>12 DEF SpanIInv

LEMMA InjectKeeps ==
    ASSUME SpanIInv, NEW t \in Tasks, Inject(t)
    PROVE  SpanIInv'
  <1>1. /\ headers' = headers \union {ctx[t]}
        /\ ctx' = ctx /\ base' = base /\ live' = live
        /\ frames' = frames /\ entered' = entered /\ emit' = emit /\ spans' = spans
        /\ disordered' = disordered /\ spanScope' = spanScope
        /\ conf' = conf /\ disturbed' = disturbed
    BY DEF Inject, log
  <1>2. SpanTypes'
    BY <1>1 DEF SpanIInv, SpanTypes
  <1>3. CtxsOk'
    BY <1>1 DEF SpanIInv, CtxsOk, CtxOk
  <1>4. FramesOk'
    BY <1>1 DEF SpanIInv, FramesOk, FrameOk
  <1>5. TasksOk'
    BY <1>1 DEF SpanIInv, TasksOk, Nested
  <1>6. ParentsOk'
    BY <1>1 DEF SpanIInv, ParentsOk, ParentOk
  <1>7. EmissionsOk'
    BY <1>1, EmissionsStay DEF SpanIInv
  <1>. QED
    BY <1>2, <1>3, <1>4, <1>5, <1>6, <1>7 DEF SpanIInv

\* A step of the log pipeline's or the export's, beside the spans.
LEMMA StillKeeps ==
    ASSUME SpanIInv, UNCHANGED <<ctx, frames, entered, emit, spans, disordered, headers,
                                 live, base, spanScope>>,
           \A u \in Tasks : conf[u].pc # "idle" => conf'[u].pc # "idle",
           disturbed => disturbed'
    PROVE  SpanIInv'
  <1>1. /\ headers' = headers /\ ctx' = ctx /\ base' = base /\ live' = live
        /\ frames' = frames /\ entered' = entered /\ emit' = emit /\ spans' = spans
        /\ disordered' = disordered /\ spanScope' = spanScope
    OBVIOUS
  <1>2. SpanTypes'
    BY <1>1 DEF SpanIInv, SpanTypes
  <1>3. CtxsOk'
    BY <1>1 DEF SpanIInv, CtxsOk, CtxOk
  <1>4. FramesOk'
    BY <1>1 DEF SpanIInv, FramesOk, FrameOk
  <1>5. TasksOk'
    BY <1>1 DEF SpanIInv, TasksOk, Nested
  <1>6. ParentsOk'
    BY <1>1 DEF SpanIInv, ParentsOk, ParentOk
  <1>7. EmissionsOk'
    BY <1>1, EmissionsStay DEF SpanIInv
  <1>. QED
    BY <1>2, <1>3, <1>4, <1>5, <1>6, <1>7 DEF SpanIInv

LEMMA QuietKeeps ==
    ASSUME SpanIInv, UNCHANGED <<ctx, frames, entered, emit, spans, disordered, fixed>>,
           \A u \in Tasks : conf[u].pc # "idle" => conf'[u].pc # "idle",
           disturbed => disturbed'
    PROVE  SpanIInv'
  BY StillKeeps DEF fixed

\* A span that could not be built leaves everything as it is.
LEMMA OpenSpanFailsKeeps ==
    ASSUME SpanIInv, NEW t \in Tasks, OpenSpanFails(t)
    PROVE  SpanIInv'
  <1>1. /\ UNCHANGED <<ctx, frames, entered, emit, spans, disordered, headers, live, base,
                       spanScope>>
        /\ UNCHANGED log
    BY DEF OpenSpanFails
  <1>2. conf' = conf /\ disturbed' = disturbed
    BY <1>1 DEF log
  <1>. QED
    BY <1>1, <1>2, StillKeeps

\* A call of configure that goes on is not taken back.
LEMMA ConfigureGoesOn ==
    ASSUME PipeTypes, NEW t \in Callers, Configure(t) \/ BuildFails(t)
    PROVE  /\ \A u \in Callers : conf[u].pc # "idle" => conf'[u].pc # "idle"
           /\ disturbed' = disturbed
  <1>1. \E w \in ConfPlaces \ {"idle"} : ConfTo(t, w)
    BY DEF Configure, BuildFails, CheckActive, RemoveHandler, CloseHandler, CloseNone,
           ForgetHandler, AddHandler, ActivateHandler, ConfigureStructlog, SetConfigured,
           Raise, ConfPlaces, AtRest
  <1>2. disturbed' = disturbed
    BY DEF Configure, BuildFails, CheckActive, RemoveHandler, CloseHandler, CloseNone,
           ForgetHandler, AddHandler, ActivateHandler, ConfigureStructlog, SetConfigured,
           Raise
  <1>3. PICK w \in ConfPlaces \ {"idle"} : ConfTo(t, w)
    BY <1>1
  <1>4. \A u \in Callers : u # t => conf'[u] = conf[u]
    BY <1>3, ConfMoves
  <1>5. conf'[t].pc = w
    BY <1>3, ConfMoves
  <1>. QED
    BY <1>2, <1>4, <1>5

-----------------------------------------------------------------------------
\* Every step is one of the pipeline's and one of the export configuration's.
LEMMA PipelineStep ==
    ASSUME SpansNext \/ UNCHANGED spansVars
    PROVE  PipeStep
  <1>1. CASE UNCHANGED spansVars
    BY <1>1 DEF spansVars, PipeStep
  <1>2. ASSUME NEW t \in Tasks, TaskStep(t) PROVE PipeStep
    <2>1. t \in Callers
      BY SpansAssumption
    <2>2. CASE \E kind \in spanScope.kinds, key \in spanScope.keys : OpenSpan(t, kind, key)
      BY <2>2 DEF OpenSpan, PipeStep
    <2>3. CASE \E i \in DOMAIN frames[t], outcome \in spanScope.outcomes :
                  LeaveBlock(t, i, outcome)
      BY <2>3 DEF LeaveBlock, PipeStep
    <2>4. CASE \E u \in Tasks, copied \in BOOLEAN : Spawn(t, u, copied)
      BY <2>4 DEF Spawn, PipeStep
    <2>5. CASE \E h \in headers, passed \in BOOLEAN : BindHeader(t, h, passed)
      BY <2>5 DEF BindHeader, PipeStep
    <2>6. CASE Inject(t) \/ (GetConfig(t) /\ UNCHANGED <<span, log>>)
      BY <2>6 DEF Inject, PipeStep
    <2>10. CASE OpenSpanFails(t)
      BY <2>10 DEF OpenSpanFails, PipeStep
    <2>7. CASE AttributeCost(t) \/ Say(t) \/ BeginExport(t) \/ EndExport(t) \/ Reset(t)
               \/ EmissionFails(t)
      BY <2>7 DEF AttributeCost, Say, BeginExport, EndExport, Reset, EmissionFails, PipeStep
    <2>8. CASE \E full \in BOOLEAN : StoreSpan(t, full)
      BY <2>8 DEF StoreSpan, PipeStep
    <2>9. CASE GetLogger(t) \/ FirstUse(t) \/ FirstUseFails(t) \/ Interrupt(t)
      BY <2>1, <2>9 DEF GetLogger, FirstUse, FirstUseFails, Interrupt, PipeStep
    <2>. QED
      BY <1>2, <2>2, <2>3, <2>4, <2>5, <2>6, <2>7, <2>8, <2>9, <2>10
      DEF TaskStep, Emission
  <1>3. ASSUME NEW t \in Callers, Configure(t) \/ ConfigureFails(t) PROVE PipeStep
    BY <1>3 DEF ConfigureFails, PipeStep
  <1>4. ASSUME NEW h \in Hosts, HostReturns(h) PROVE PipeStep
    BY <1>4, SpansAssumption DEF HostReturns, PipeStep
  <1>5. ASSUME NEW h \in Hosts, NEW argument \in {"file", "none"}, HostConfigure(h, argument)
        PROVE  PipeStep
    BY <1>5, SpansAssumption DEF HostConfigure, PipeStep
  <1>6. ASSUME NEW p \in {"file", "none"}, HostSetsRotation(p) PROVE PipeStep
    BY <1>6 DEF HostSetsRotation, PipeStep
  <1>7. ASSUME NEW s \in Setters, HostSets(s) PROVE PipeStep
    BY <1>7 DEF HostSets, PipeStep
  <1>. QED
    BY <1>1, <1>2, <1>3, <1>4, <1>5, <1>6, <1>7 DEF SpansNext

\* The opt-in's invariant, through the lookups of emissions and the sets.
LEMMA ExportStep ==
    ASSUME SpanIInv, ConfigIInv, SpansNext \/ UNCHANGED spansVars
    PROVE  ConfigIInv'
  <1>1. CASE UNCHANGED confVars
    BY <1>1, ConfigStays
  <1>2. ASSUME NEW t \in Tasks, EndLookup(t) PROVE ConfigIInv'
    BY <1>2, SpansAssumption, EndLookupKeeps
  <1>3. ASSUME NEW t \in Tasks, BeginExport(t) PROVE ConfigIInv'
    <2>1. BeginLookup(t, spans[Span(t)].key) /\ emit[t].at = "export"
      BY <1>3 DEF BeginExport, EmitAt
    <2>2. spans[Span(t)] \in SpanRecords
      BY <2>1, SpanIs
    <2>3. spans[Span(t)].key \in Keys
      BY <2>2 DEF SpanRecords
    <2>. QED
      BY <2>1, <2>3, SpansAssumption, BeginLookupKeeps
  <1>4. ASSUME NEW t \in Tasks, GetConfig(t) PROVE ConfigIInv'
    BY <1>4, SpansAssumption, SelectTenantRowKeeps, SelectGlobalRowKeeps, FillCacheKeeps
       DEF GetConfig
  <1>5. ASSUME NEW t \in Tasks, TaskStep(t) PROVE ConfigIInv'
    <2>1. CASE \E kind \in spanScope.kinds, key \in spanScope.keys : OpenSpan(t, kind, key)
      BY <1>1, <2>1 DEF OpenSpan
    <2>2. CASE \E i \in DOMAIN frames[t], outcome \in spanScope.outcomes :
                  LeaveBlock(t, i, outcome)
      BY <1>1, <2>2 DEF LeaveBlock
    <2>3. CASE \E u \in Tasks, copied \in BOOLEAN : Spawn(t, u, copied)
      BY <1>1, <2>3 DEF Spawn
    <2>4. CASE \E h \in headers, passed \in BOOLEAN : BindHeader(t, h, passed)
      BY <1>1, <2>4 DEF BindHeader
    <2>5. CASE Inject(t) \/ AttributeCost(t) \/ GetLogger(t) \/ FirstUse(t) \/ Say(t)
               \/ Reset(t) \/ FirstUseFails(t) \/ OpenSpanFails(t)
      BY <1>1, <2>5 DEF Inject, AttributeCost, GetLogger, FirstUse, Say, Reset, FirstUseFails,
         OpenSpanFails
    <2>6. CASE \E full \in BOOLEAN : StoreSpan(t, full)
      BY <1>1, <2>6 DEF StoreSpan
    <2>7. CASE EndExport(t) \/ EmissionFails(t) \/ Interrupt(t)
      BY <1>1, <1>2, <2>7 DEF EndExport, EmissionFails, Interrupt
    <2>. QED
      BY <1>3, <1>4, <1>5, <2>1, <2>2, <2>3, <2>4, <2>5, <2>6, <2>7 DEF TaskStep, Emission
  <1>6. ASSUME NEW s \in Setters, HostSets(s) PROVE ConfigIInv'
    BY <1>6, SetConfigKeeps DEF HostSets
  <1>7. UNCHANGED spansVars => UNCHANGED confVars
    BY DEF spansVars
  <1>8. CASE \/ \E t \in Callers : \/ Configure(t) /\ UNCHANGED <<span, confVars>>
                                   \/ ConfigureFails(t)
             \/ \E h \in Hosts, argument \in {"file", "none"} : HostConfigure(h, argument)
             \/ \E h \in Hosts : HostReturns(h)
             \/ \E p \in {"file", "none"} : HostSetsRotation(p)
    BY <1>1, <1>8 DEF ConfigureFails, HostConfigure, HostReturns, HostSetsRotation
  <1>. QED
    BY <1>1, <1>5, <1>6, <1>7, <1>8 DEF SpansNext

-----------------------------------------------------------------------------
\* The three invariants together, which the initial states have and every step
\* keeps.
SpansIInv == SpanIInv /\ PipeIInv /\ ConfigIInv

LEMMA SpansInitHolds == SpansInit => SpansIInv
  <1>. SUFFICES ASSUME SpansInit PROVE SpansIInv
    OBVIOUS
  <1>1. /\ spanScope \in SpanScopes
        /\ ctx = [t \in Tasks |-> Unbound] /\ base = [t \in Tasks |-> Unbound]
        /\ frames = [t \in Tasks |-> <<>>] /\ emit = [t \in Tasks |-> EmitIdle]
        /\ spans = <<>> /\ headers = {ForeignHeader} /\ live \subseteq Tasks
        /\ entered = [t \in Tasks |-> {}] /\ disordered = {}
        /\ ConfigInit /\ (LogInit \/ LogConfigured)
    BY DEF SpansInit
  <1>2. /\ Unbound \in Contexts /\ ForeignHeader \in Contexts /\ EmitIdle \in Emissions
        /\ CtxOk(Unbound) /\ CtxOk(ForeignHeader)
    BY DEF Unbound, ForeignHeader, Contexts, Ids, EmitIdle, Emissions, CtxOk
  <1>3. spans \in Seq(SpanRecords) /\ frames \in [Tasks -> Seq(Frames)]
        /\ DOMAIN spans = {} /\ \A t \in Tasks : DOMAIN frames[t] = {}
    BY <1>1, EmptySeq
  <1>4. SpanTypes
    BY <1>1, <1>2, <1>3 DEF SpanTypes
  <1>5. CtxsOk
    BY <1>1, <1>2, <1>3 DEF CtxsOk
  <1>6. FramesOk /\ ParentsOk
    BY <1>3 DEF FramesOk, ParentsOk
  <1>7. TasksOk
    <2>1. \A t \in Tasks : /\ ctx[t].span = base[t].span /\ ctx[t] = base[t]
                           /\ frames[t] = <<>> /\ emit[t].at = "idle"
      BY <1>1 DEF EmitIdle
    <2>. QED
      BY <1>3, <2>1 DEF TasksOk, Nested
  <1>8. EmissionsOk
    <2>1. \A t \in Tasks : /\ emit[t].at = "idle" /\ emit[t].frame = 0
                           /\ emit[t].event = "span"
      BY <1>1 DEF EmitIdle
    <2>. QED
      BY <1>3, <2>1 DEF EmissionsOk, EmissionOk, Untouched
  <1>9. SpanIInv
    BY <1>4, <1>5, <1>6, <1>7, <1>8 DEF SpanIInv
  <1>10. ConfigIInv
    BY <1>1, ConfigInitHolds
  <1>. QED
    BY <1>1, <1>9, <1>10, PipeInit DEF SpansIInv

\* Every step of a task, and so of the system, keeps the spans' invariant.
LEMMA TaskStepKeeps ==
    ASSUME SpansIInv, NEW t \in Tasks, TaskStep(t)
    PROVE  SpanIInv'
  <1>1. SpanIInv /\ PipeIInv /\ PipeTypes
    BY DEF SpansIInv, PipeIInv
  <1>2. /\ spanScope.kinds \subseteq Kinds \ {"bound"} /\ spanScope.keys \subseteq Keys
        /\ spanScope.outcomes \subseteq {"returned", "raised"}
    <2>1. spanScope \in SpanScopes
      BY <1>1 DEF SpanIInv, SpanTypes
    <2>. QED
      BY <2>1, SpansAssumption DEF Kinds
  <1>3. CASE \E kind \in spanScope.kinds, key \in spanScope.keys : OpenSpan(t, kind, key)
    BY <1>1, <1>2, <1>3, OpenSpanKeeps
  <1>10. CASE OpenSpanFails(t)
    BY <1>1, <1>10, OpenSpanFailsKeeps
  <1>4. CASE \E i \in DOMAIN frames[t], outcome \in spanScope.outcomes :
                LeaveBlock(t, i, outcome)
    BY <1>1, <1>2, <1>4, LeaveBlockKeeps
  <1>5. CASE \E u \in Tasks, copied \in BOOLEAN : Spawn(t, u, copied)
    BY <1>1, <1>5, SpawnKeeps
  <1>6. CASE \E h \in headers, passed \in BOOLEAN : BindHeader(t, h, passed)
    BY <1>1, <1>6, BindHeaderKeeps
  <1>7. CASE Inject(t)
    BY <1>1, <1>7, InjectKeeps
  <1>8. CASE Emission(t)
    BY <1>1, <1>8, AttributeCostKeeps, GetLoggerKeeps, FirstUseKeeps, SayKeeps,
       BeginExportKeeps, EndExportKeeps, StoreSpanKeeps, ResetKeeps, EmissionFailsKeeps,
       FirstUseFailsKeeps, InterruptKeeps DEF Emission
  <1>9. CASE GetConfig(t) /\ UNCHANGED <<span, log>>
    <2>1. /\ UNCHANGED <<ctx, frames, entered, emit, spans, disordered, fixed>>
          /\ conf' = conf /\ disturbed' = disturbed
      BY <1>9 DEF span, log
    <2>. QED
      BY <1>1, <2>1, QuietKeeps
  <1>. QED
    BY <1>3, <1>4, <1>5, <1>6, <1>7, <1>8, <1>9, <1>10 DEF TaskStep

LEMMA SpansKeeps ==
    ASSUME SpansIInv, SpansNext \/ UNCHANGED spansVars
    PROVE  SpansIInv'
  <1>1. SpanIInv /\ PipeIInv /\ PipeTypes /\ ConfigIInv
    BY DEF SpansIInv, PipeIInv
  <1>2. CASE UNCHANGED spansVars
    <2>1. /\ UNCHANGED <<ctx, frames, entered, emit, spans, disordered, fixed>>
          /\ conf' = conf /\ disturbed' = disturbed
      BY <1>2 DEF spansVars, span, log
    <2>2. SpanIInv'
      BY <1>1, <2>1, QuietKeeps
    <2>. QED
      BY <1>1, <1>2, <2>2, PipelineStep, PipeStepKeeps, ExportStep DEF SpansIInv
  <1>3. CASE SpansNext
    <2>1. ASSUME NEW t \in Callers, Configure(t) /\ UNCHANGED <<span, confVars>>
          PROVE  SpanIInv'
      <3>1. UNCHANGED <<ctx, frames, entered, emit, spans, disordered, fixed>>
        BY <2>1 DEF span
      <3>2. /\ \A u \in Callers : conf[u].pc # "idle" => conf'[u].pc # "idle"
            /\ disturbed' = disturbed
        BY <1>1, <2>1, ConfigureGoesOn
      <3>. QED
        BY <1>1, <3>1, <3>2, SpansAssumption, QuietKeeps
    <2>2. ASSUME NEW t \in Callers, ConfigureFails(t) PROVE SpanIInv'
      <3>1. /\ UNCHANGED <<ctx, frames, entered, emit, spans, disordered, fixed>>
            /\ BuildFails(t)
        BY <2>2 DEF ConfigureFails
      <3>2. /\ \A u \in Callers : conf[u].pc # "idle" => conf'[u].pc # "idle"
            /\ disturbed' = disturbed
        BY <1>1, <3>1, ConfigureGoesOn
      <3>. QED
        BY <1>1, <3>1, <3>2, SpansAssumption, QuietKeeps
    <2>3. ASSUME NEW h \in Hosts, NEW argument \in {"file", "none"},
                 HostConfigure(h, argument)
          PROVE  SpanIInv'
      <3>1. /\ UNCHANGED <<ctx, frames, entered, emit, spans, disordered, fixed>>
            /\ ReadConfig(h, argument) /\ h \in Callers
        BY <2>3, SpansAssumption DEF HostConfigure, span
      <3>2. \A u \in Callers : conf[u].pc # "idle" => conf'[u].pc # "idle"
        BY <1>1, <3>1, ReadConfigCalls
      <3>3. disturbed => disturbed'
        BY <3>1 DEF ReadConfig
      <3>. QED
        BY <1>1, <3>1, <3>2, <3>3, SpansAssumption, QuietKeeps
    <2>4. ASSUME NEW h \in Hosts, HostReturns(h) PROVE SpanIInv'
      <3>1. /\ UNCHANGED <<ctx, frames, entered, emit, spans, disordered, fixed>>
            /\ Release(h) /\ h \notin Tasks
        BY <2>4, SpansAssumption DEF HostReturns, span
      <3>2. /\ \A u \in Tasks : conf'[u] = conf[u]
            /\ disturbed => disturbed'
        BY <1>1, <3>1, SpansAssumption, ReleaseLeaves
      <3>. QED
        BY <1>1, <3>1, <3>2, QuietKeeps
    <2>5. ASSUME NEW p \in {"file", "none"}, HostSetsRotation(p) PROVE SpanIInv'
      <3>1. /\ UNCHANGED <<ctx, frames, entered, emit, spans, disordered, fixed>>
            /\ conf' = conf /\ disturbed' = disturbed
        BY <2>5 DEF HostSetsRotation, SetRotationConfig, span
      <3>. QED
        BY <1>1, <3>1, QuietKeeps
    <2>6. ASSUME NEW s \in Setters, HostSets(s) PROVE SpanIInv'
      <3>1. /\ UNCHANGED <<ctx, frames, entered, emit, spans, disordered, fixed>>
            /\ conf' = conf /\ disturbed' = disturbed
        BY <2>6 DEF HostSets, span, log
      <3>. QED
        BY <1>1, <3>1, QuietKeeps
    <2>7. SpanIInv'
      BY <1>3, <2>1, <2>2, <2>3, <2>4, <2>5, <2>6, TaskStepKeeps DEF SpansNext
    <2>. QED
      BY <1>1, <1>3, <2>7, PipelineStep, PipeStepKeeps, ExportStep DEF SpansIInv
  <1>. QED
    BY <1>2, <1>3

\* What the invariant says of the properties.
LEMMA SpansAreSound ==
    ASSUME SpansIInv
    PROVE  SpansInv /\ TraceIsTheTree /\ EmissionFailsOpen /\ PipelineSound
  <1>1. SpanIInv /\ PipeIInv /\ ConfigIInv
    BY DEF SpansIInv
  <1>2. LogTypeOK /\ PipelineSound
    BY <1>1, PipeIsSound DEF PipelineSound
  <1>3. ConfigTypeOK /\ StaleOnlyAfterRace
    BY <1>1 DEF ConfigIInv, ConfigShape, ConfigFresh, ConfigTypeOK, StaleOnlyAfterRace
  <1>4. DOMAIN spans = 1..Len(spans) /\ Len(spans) \in Nat
    BY <1>1, LenProperties DEF SpanIInv, SpanTypes
  <1>5. ASSUME NEW t \in Tasks
        PROVE  /\ ctx[t].span \in 0..Len(spans) \union {Foreign}
               /\ ctx[t].trace \in 0..Len(spans) \union {Foreign}
               /\ ctx[t].state => ctx[t].trace = Foreign
    <2>1. CtxOk(ctx[t])
      BY <1>1 DEF SpanIInv, CtxsOk
    <2>2. \A q \in DOMAIN spans : spans[q].trace \in DOMAIN spans \union {Foreign}
      BY <1>1 DEF SpanIInv, ParentsOk, ParentOk
    <2>. QED
      BY <1>4, <2>1, <2>2 DEF CtxOk
  <1>6. ASSUME NEW t \in Tasks
        PROVE  /\ emit[t].frame \in {0} \union DOMAIN frames[t]
               /\ emit[t].at = "configuring" => conf[t].pc # "idle"
    BY <1>1 DEF SpanIInv, EmissionsOk, EmissionOk
  <1>7. SpansInv
    BY <1>2, <1>3, <1>5, <1>6 DEF SpansInv, SpansTypeOK, StateOfItsTrace
  <1>8. ParentsEnclose
    BY <1>1 DEF SpanIInv, ParentsOk, ParentOk, ParentsEnclose
  <1>9. ContextRestored
    <2>. SUFFICES ASSUME NEW t \in live \ disordered
                  PROVE  IF frames[t] = <<>> THEN ctx[t] = base[t]
                         ELSE ctx[t].span = Last(frames[t]).span
      BY DEF ContextRestored
    <2>1. Nested(t)
      BY <1>1 DEF SpanIInv, TasksOk, SpanTypes
    <2>. QED
      BY <2>1 DEF Nested, Last
  <1>10. EmissionFailsOpen
    BY <1>1 DEF SpanIInv, EmissionsOk, OutOk, StoreOk, LineOk, EmissionFailsOpen
  <1>. QED
    BY <1>2, <1>7, <1>8, <1>9, <1>10 DEF TraceIsTheTree

\* The invariant holds of every behaviour.
THEOREM SpansIInvAlways == SpansSpec => []SpansIInv
  <1>1. SpansInit => SpansIInv
    BY SpansInitHolds
  <1>2. SpansIInv /\ [SpansNext]_spansVars => SpansIInv'
    BY SpansKeeps
  <1>. QED
    BY <1>1, <1>2, PTL DEF SpansSpec

\* "Each task's context is its own": types, the tracestate of outgoing calls and
\* the export's cached opt-in.
THEOREM SpansInvAlways == SpansSpec => []SpansInv
  <1>1. SpansIInv => SpansInv
    BY SpansAreSound
  <1>. QED
    BY <1>1, SpansIInvAlways, PTL

\* bound_trace_context: the spans form the tree of the blocks that opened them.
THEOREM TraceIsTheTreeAlways == SpansSpec => []TraceIsTheTree
  <1>1. SpansIInv => TraceIsTheTree
    BY SpansAreSound
  <1>. QED
    BY <1>1, SpansIInvAlways, PTL

\* fail_open_context: the host gets what it did, each record is made once.
THEOREM EmissionFailsOpenAlways == SpansSpec => []EmissionFailsOpen
  <1>1. SpansIInv => EmissionFailsOpen
    BY SpansAreSound
  <1>. QED
    BY <1>1, SpansIInvAlways, PTL

\* configure: safe to call more than once, and one handler on the root.
THEOREM PipelineSoundAlways == SpansSpec => []PipelineSound
  <1>1. SpansIInv => PipelineSound
    BY SpansAreSound
  <1>. QED
    BY <1>1, SpansIInvAlways, PTL
=============================================================================
