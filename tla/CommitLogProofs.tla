-------------------------- MODULE CommitLogProofs --------------------------
(***************************************************************************)
(* Proofs about CommitLog, for any set of calls, any retry budget and any  *)
(* clock bound: type correctness, the inductive invariant behind the       *)
(* version, chain and time properties, and the append-only action property. *)
(***************************************************************************)
EXTENDS CommitLog, FiniteSetTheorems, TLAPS

-----------------------------------------------------------------------------
\* The inductive invariant.  The properties relate committed rows only; what
\* makes them inductive is what each call has already fixed for the row it is
\* about to commit.

\* The versions in the table are exactly 1..MaxVersion, each once.
Contiguous ==
    /\ MaxVersion \in Nat
    /\ Versions = 1..MaxVersion
    /\ \A r, q \in rows : r.version = q.version => r = q

\* prev is the hash a row at version v must chain onto.
ChainsOnto(prev, v) ==
    IF v = 1 THEN prev = NoHash
    ELSE \E q \in rows : q.version = v - 1 /\ q.hash = prev

Chained ==
    \A r \in rows :
        /\ ChainsOnto(r.prevHash, r.version)
        /\ r.hash = ComputeEntryHash(r.prevHash, r.version, r.by, r.stamp)

StampsOrdered ==
    /\ \A r, q \in rows : r.version < q.version => r.stamp <= q.stamp
    /\ \A r \in rows : r.stamp <= clock

\* What a call in its loop holds is still right, or has lost its version.
CallConsistent(c) ==
    /\ lockErrors[c] <= attempt[c]
    /\ pc[c] \in {"link", "stamp", "commit"} => attempt[c] < MaxRetries
    /\ pc[c] \in {"link", "stamp", "commit"} => version[c] \in 1..(MaxVersion + 1)
    /\ pc[c] \in {"stamp", "commit"} => ChainsOnto(prevHash[c], version[c])
    /\ pc[c] = "commit" =>
          /\ stampOf[c] <= clock
          /\ \A r \in rows : r.version < version[c] => r.stamp <= stampOf[c]

IInv ==
    /\ TypeOK
    /\ Contiguous
    /\ Chained
    /\ StampsOrdered
    /\ \A c \in Calls : CallConsistent(c)
    /\ AnswersAreTrue

-----------------------------------------------------------------------------
\* Every step but a commit leaves the table as it is.
LEMMA RowsChangeOnlyInCommit ==
    ASSUME Next, ~ \E c \in Calls : Commit(c)
    PROVE  UNCHANGED rows
  BY DEF Next, Step, Begin, ReadVersion, GiveUp, ReadPrevHash, Stamp, Conflict,
         Return, ReadError, LockError, Crash, Tick

\* MAX(version) is what its name says when the versions are 1..n.
LEMMA MaxVersionIs ==
    ASSUME NEW n \in Nat, Versions = 1..n
    PROVE  MaxVersion = n
  <1>1. CASE n = 0
    BY <1>1 DEF MaxVersion, Versions
  <1>2. CASE n > 0
    <2>1. n \in Versions /\ \A v \in Versions : v <= n
      BY <1>2
    <2>2. rows # {}
      BY <2>1 DEF Versions
    <2>3. \A m \in Versions : (\A v \in Versions : v <= m) => m = n
      BY <2>1
    <2>4. (CHOOSE m \in Versions : \A v \in Versions : v <= m) = n
      BY <2>1, <2>3
    <2>. QED
      BY <2>2, <2>4 DEF MaxVersion
  <1>. QED
    BY <1>1, <1>2

LEMMA MaxVersionUnchanged ==
    ASSUME UNCHANGED rows
    PROVE  MaxVersion' = MaxVersion /\ Versions' = Versions
  BY DEF MaxVersion, Versions

-----------------------------------------------------------------------------
\* The steps that leave the table alone keep every fact about the table.
LEMMA TableUnchanged ==
    ASSUME IInv, UNCHANGED rows, clock' \in 0..MaxClock, clock <= clock'
    PROVE  /\ Contiguous' /\ Chained' /\ StampsOrdered'
           /\ MaxVersion' = MaxVersion
           /\ \A prev, v : ChainsOnto(prev, v)' <=> ChainsOnto(prev, v)
  <1>1. MaxVersion' = MaxVersion /\ Versions' = Versions
    BY MaxVersionUnchanged
  <1>2. \A prev, v : ChainsOnto(prev, v)' <=> ChainsOnto(prev, v)
    BY DEF ChainsOnto
  <1>3. Contiguous'
    BY <1>1 DEF IInv, Contiguous
  <1>4. Chained'
    BY <1>2 DEF IInv, Chained, ComputeEntryHash
  <1>5. StampsOrdered'
    <2>. \A r \in rows : r.stamp \in 0..MaxClock /\ r.stamp <= clock
      BY DEF IInv, TypeOK, StampsOrdered
    <2>. clock \in 0..MaxClock
      BY DEF IInv, TypeOK
    <2>. QED
      BY ClockAssumption DEF IInv, StampsOrdered
  <1>. QED
    BY <1>1, <1>2, <1>3, <1>4, <1>5

\* A step of one call that writes no row disturbs no other call.
LEMMA QuietStep ==
    ASSUME IInv, NEW c \in Calls, UNCHANGED <<rows, clock>>,
           TypeOK', CallConsistent(c)',
           \A d \in Calls \ {c} : UNCHANGED <<pc[d], attempt[d], version[d],
                                               prevHash[d], stampOf[d], lockErrors[d]>>,
           pc'[c] \in {"stored", "returned"} => pc[c] = "stored",
           pc'[c] \in {"idle", "read", "link", "stamp", "commit", "conflict"} =>
               pc[c] \in {"idle", "read", "link", "stamp", "commit"}
    PROVE  IInv'
  <1>0. clock \in 0..MaxClock
    BY DEF IInv, TypeOK
  <1>1. /\ Contiguous' /\ Chained' /\ StampsOrdered'
        /\ MaxVersion' = MaxVersion
        /\ \A prev, v : ChainsOnto(prev, v)' <=> ChainsOnto(prev, v)
    BY <1>0, TableUnchanged, ClockAssumption
  <1>2. \A d \in Calls : CallConsistent(d)'
    BY <1>1 DEF IInv, CallConsistent
  <1>3. AnswersAreTrue'
    BY DEF IInv, AnswersAreTrue
  <1>. QED
    BY <1>1, <1>2, <1>3 DEF IInv

-----------------------------------------------------------------------------
\* No call has fixed anything at the start, and the table is empty.
LEMMA InitIInv == Init => IInv
  <1>. SUFFICES ASSUME Init PROVE IInv
    OBVIOUS
  <1>1. TypeOK
    BY RetriesAssumption, ClockAssumption DEF Init, TypeOK, Running, Ended
  <1>2. Versions = 1..0 /\ MaxVersion = 0
    BY DEF Init, Versions, MaxVersion
  <1>3. Contiguous /\ Chained /\ StampsOrdered
    BY <1>2 DEF Init, Contiguous, Chained, StampsOrdered
  <1>4. \A c \in Calls : CallConsistent(c)
    BY DEF Init, CallConsistent
  <1>5. AnswersAreTrue
    BY DEF Init, AnswersAreTrue
  <1>. QED
    BY <1>1, <1>3, <1>4, <1>5 DEF IInv

\* A committed row extends the dense versions by one, chains onto the last
\* row, and is stamped after it.
LEMMA CommitKeepsIInv ==
    ASSUME IInv, NEW c \in Calls, Commit(c)
    PROVE  IInv'
  <1>. DEFINE n == MaxVersion
              new == NewRow(c)
  <1>1. n \in Nat /\ Versions = 1..n
    BY DEF IInv, Contiguous
  <1>2. version[c] = n + 1
    <2>1. version[c] \in 1..(n + 1) /\ version[c] \notin 1..n
      BY <1>1 DEF IInv, CallConsistent, Commit
    <2>. QED
      BY <1>1, <2>1
  <1>3. /\ new.version = n + 1 /\ new.by = c /\ new.stamp = stampOf[c]
        /\ new.prevHash = prevHash[c]
        /\ new.hash = ComputeEntryHash(new.prevHash, new.version, new.by, new.stamp)
    BY <1>2 DEF NewRow
  <1>4. rows' = rows \union {new}
    BY DEF Commit
  <1>. HIDE DEF new
  <1>5. TypeOK'
    BY <1>1, <1>2, <1>3, <1>4 DEF IInv, TypeOK, Commit, Goto, Running, Ended
  <1>6. \A r \in rows : r.version \in 1..n
    BY <1>1 DEF Versions
  <1>7. MaxVersion' = n + 1 /\ Versions' = 1..(n + 1)
    <2>1. Versions' = Versions \union {n + 1}
      BY <1>3, <1>4 DEF Versions
    <2>2. Versions' = 1..(n + 1)
      BY <2>1, <1>1
    <2>3. MaxVersion' = n + 1
      <3>1. n + 1 \in Versions' /\ \A v \in Versions' : v <= n + 1
        BY <2>2, <1>1
      <3>2. \A m \in Versions' : (\A v \in Versions' : v <= m) => m = n + 1
        BY <3>1, <2>2, <1>1
      <3>3. (CHOOSE m \in Versions' : \A v \in Versions' : v <= m) = n + 1
        BY <3>1, <3>2
      <3>. QED
        BY <1>4, <3>3 DEF MaxVersion
    <2>. QED
      BY <2>2, <2>3
  <1>8. Contiguous'
    <2>1. \A r, q \in rows' : r.version = q.version => r = q
      BY <1>1, <1>3, <1>4, <1>6 DEF IInv, Contiguous
    <2>. QED
      BY <1>1, <1>7, <2>1 DEF Contiguous
  <1>9. \A prev, v : ChainsOnto(prev, v) => ChainsOnto(prev, v)'
    BY <1>4 DEF ChainsOnto
  <1>10. Chained'
    <2>. SUFFICES ASSUME NEW r \in rows'
                  PROVE  /\ ChainsOnto(r.prevHash, r.version)'
                         /\ r.hash = ComputeEntryHash(r.prevHash, r.version, r.by, r.stamp)
      BY DEF Chained, ComputeEntryHash
    <2>1. CASE r \in rows
      BY <2>1, <1>9 DEF IInv, Chained
    <2>2. CASE r = new
      <3>1. ChainsOnto(r.prevHash, r.version)
        BY <1>2, <1>3, <2>2 DEF IInv, CallConsistent, Commit
      <3>. QED
        BY <1>3, <1>9, <2>2, <3>1
    <2>. QED
      BY <1>4, <2>1, <2>2
  <1>11. /\ clock' = clock /\ clock \in 0..MaxClock
         /\ stampOf[c] \in 0..MaxClock /\ stampOf[c] <= clock
         /\ \A r \in rows : r.stamp \in 0..MaxClock
    BY DEF IInv, TypeOK, Commit, CallConsistent
  <1>12. \A r \in rows : r.stamp <= new.stamp
    BY <1>1, <1>2, <1>3, <1>6 DEF IInv, CallConsistent, Commit
  <1>13. StampsOrdered'
    BY <1>1, <1>3, <1>4, <1>6, <1>11, <1>12 DEF IInv, StampsOrdered
  <1>14. ASSUME NEW d \in Calls PROVE CallConsistent(d)'
    <2>1. CASE d = c
      BY <2>1 DEF CallConsistent, Commit, Goto, IInv, TypeOK
    <2>2. CASE d # c
      <3>1. UNCHANGED <<pc[d], attempt[d], version[d], prevHash[d], stampOf[d],
                        lockErrors[d]>>
        BY <2>2 DEF Commit, Goto, IInv, TypeOK
      <3>2. CallConsistent(d)
        BY DEF IInv
      <3>3. pc[d] = "commit" => version[d] \in 1..(n + 1)
        BY <3>2 DEF CallConsistent
      <3>4. pc'[d] = "commit" =>
              /\ stampOf'[d] <= clock'
              /\ \A r \in rows' : r.version < version'[d] => r.stamp <= stampOf'[d]
        BY <1>1, <1>3, <1>4, <1>11, <3>1, <3>2, <3>3 DEF CallConsistent
      <3>. QED
        BY <1>1, <1>7, <1>9, <3>1, <3>2, <3>4 DEF CallConsistent
    <2>. QED
      BY <2>1, <2>2
  <1>15. AnswersAreTrue'
    BY <1>3, <1>4 DEF IInv, AnswersAreTrue, Commit, Goto, TypeOK
  <1>. QED
    BY <1>5, <1>8, <1>10, <1>13, <1>14, <1>15 DEF IInv

\* Every step of the specification keeps the inductive invariant.
LEMMA NextKeepsIInv ==
    ASSUME IInv, [Next]_vars
    PROVE  IInv'
  <1>. USE RetriesAssumption, ClockAssumption
  <1>1. MaxVersion \in Nat /\ Versions = 1..MaxVersion
    BY DEF IInv, Contiguous
  <1>2. UNCHANGED vars => IInv'
    <2>. SUFFICES ASSUME UNCHANGED vars PROVE IInv'
      OBVIOUS
    <2>1. TypeOK' /\ AnswersAreTrue'
      BY DEF vars, IInv, TypeOK, AnswersAreTrue
    <2>2. /\ Contiguous' /\ Chained' /\ StampsOrdered'
          /\ MaxVersion' = MaxVersion
          /\ \A prev, v : ChainsOnto(prev, v)' <=> ChainsOnto(prev, v)
      BY TableUnchanged DEF vars, IInv, TypeOK
    <2>3. \A d \in Calls : CallConsistent(d)'
      BY <2>2 DEF vars, IInv, CallConsistent
    <2>. QED
      BY <2>1, <2>2, <2>3 DEF IInv
  <1>3. Tick => IInv'
    <2>. SUFFICES ASSUME Tick PROVE IInv'
      OBVIOUS
    <2>1. TypeOK' /\ AnswersAreTrue'
      BY DEF Tick, callVars, IInv, TypeOK, AnswersAreTrue
    <2>2. clock \in 0..MaxClock /\ clock' \in 0..MaxClock /\ clock <= clock'
      BY DEF Tick, IInv, TypeOK
    <2>3. /\ Contiguous' /\ Chained' /\ StampsOrdered'
          /\ MaxVersion' = MaxVersion
          /\ \A prev, v : ChainsOnto(prev, v)' <=> ChainsOnto(prev, v)
      BY <2>2, TableUnchanged DEF Tick
    <2>4. ASSUME NEW d \in Calls PROVE CallConsistent(d)'
      <3>1. stampOf[d] \in 0..MaxClock
        BY DEF IInv, TypeOK
      <3>2. stampOf[d] <= clock => stampOf[d] <= clock'
        BY <2>2, <3>1
      <3>. QED
        BY <2>3, <3>2 DEF Tick, callVars, IInv, CallConsistent
    <2>. QED
      BY <2>1, <2>3, <2>4 DEF IInv
  <1>4. ASSUME NEW c \in Calls, Begin(c) \/ GiveUp(c) \/ Return(c)
        PROVE  IInv'
    <2>1. TypeOK'
      BY <1>4 DEF Begin, GiveUp, Return, Goto, IInv, TypeOK, Running, Ended
    <2>2. CallConsistent(c)'
      BY <1>4 DEF Begin, GiveUp, Return, Goto, IInv, TypeOK, CallConsistent
    <2>. QED
      BY <1>4, <2>1, <2>2, QuietStep DEF Begin, GiveUp, Return, Goto, IInv, TypeOK
  <1>5. ASSUME NEW c \in Calls, ReadError(c) \/ Crash(c)
        PROVE  IInv'
    <2>1. TypeOK'
      BY <1>5 DEF ReadError, Crash, Goto, IInv, TypeOK, Running, Ended
    <2>2. CallConsistent(c)'
      BY <1>5 DEF ReadError, Crash, Goto, IInv, TypeOK, CallConsistent
    <2>. QED
      BY <1>5, <2>1, <2>2, QuietStep DEF ReadError, Crash, Goto, IInv, TypeOK
  <1>6. ASSUME NEW c \in Calls, ReadVersion(c)
        PROVE  IInv'
    <2>1. TypeOK'
      BY <1>1, <1>6 DEF ReadVersion, NextVersion, Goto, IInv, TypeOK, Running, Ended
    <2>2. CallConsistent(c)'
      <3>1. pc'[c] = "link" /\ version'[c] = MaxVersion + 1
        BY <1>6 DEF ReadVersion, NextVersion, Goto, IInv, TypeOK
      <3>2. MaxVersion' = MaxVersion
        BY <1>6, MaxVersionUnchanged DEF ReadVersion
      <3>3. lockErrors'[c] <= attempt'[c] /\ attempt'[c] < MaxRetries
        BY <1>6 DEF ReadVersion, IInv, CallConsistent
      <3>. QED
        BY <1>1, <3>1, <3>2, <3>3 DEF CallConsistent
    <2>. QED
      BY <1>6, <2>1, <2>2, QuietStep DEF ReadVersion, Goto, IInv, TypeOK
  <1>7. ASSUME NEW c \in Calls, ReadPrevHash(c)
        PROVE  IInv'
    <2>1. TypeOK'
      BY <1>7 DEF ReadPrevHash, Goto, IInv, TypeOK, Running, Ended
    <2>2. CallConsistent(c)'
      <3>1. MaxVersion' = MaxVersion /\ UNCHANGED <<rows, version>>
        BY <1>7, MaxVersionUnchanged DEF ReadPrevHash
      <3>2. version[c] \in 1..(MaxVersion + 1) /\ pc'[c] \in {"stamp", "failed"}
        BY <1>7 DEF ReadPrevHash, Goto, IInv, TypeOK, CallConsistent
      <3>3. pc'[c] = "stamp" => ChainsOnto(prevHash[c], version[c])'
        <4>1. CASE version[c] = 1
          BY <1>7, <4>1, <3>1 DEF ReadPrevHash, ChainsOnto, IInv, TypeOK
        <4>2. CASE version[c] # 1
          <5>. SUFFICES ASSUME pc'[c] = "stamp"
                        PROVE  ChainsOnto(prevHash[c], version[c])'
            OBVIOUS
          <5>1. /\ \E r \in rows : r.version = version[c] - 1
                /\ prevHash'[c] = RowAt(version[c] - 1).hash
            BY <1>7, <4>2 DEF ReadPrevHash, Goto, IInv, TypeOK
          <5>2. RowAt(version[c] - 1) \in rows
                /\ RowAt(version[c] - 1).version = version[c] - 1
            BY <5>1 DEF RowAt
          <5>. QED
            BY <3>1, <4>2, <5>1, <5>2 DEF ChainsOnto
        <4>. QED
          BY <4>1, <4>2
      <3>4. lockErrors'[c] <= attempt'[c] /\ attempt'[c] < MaxRetries
        BY <1>7 DEF ReadPrevHash, IInv, CallConsistent
      <3>. QED
        BY <3>1, <3>2, <3>3, <3>4 DEF CallConsistent
    <2>. QED
      BY <1>7, <2>1, <2>2, QuietStep DEF ReadPrevHash, Goto, IInv, TypeOK
  <1>8. ASSUME NEW c \in Calls, Stamp(c)
        PROVE  IInv'
    <2>1. TypeOK'
      BY <1>8 DEF Stamp, Goto, IInv, TypeOK, Running, Ended
    <2>2. CallConsistent(c)'
      <3>1. /\ MaxVersion' = MaxVersion
            /\ UNCHANGED <<rows, version, prevHash, clock>>
            /\ ChainsOnto(prevHash[c], version[c])' <=> ChainsOnto(prevHash[c], version[c])
        BY <1>8, MaxVersionUnchanged DEF Stamp, ChainsOnto
      <3>2. stampOf'[c] = clock /\ clock \in Nat
        BY <1>8 DEF Stamp, IInv, TypeOK
      <3>3. \A r \in rows : r.stamp <= clock
        BY DEF IInv, StampsOrdered
      <3>. QED
        BY <1>8, <3>1, <3>2, <3>3 DEF Stamp, Goto, IInv, TypeOK, CallConsistent
    <2>. QED
      BY <1>8, <2>1, <2>2, QuietStep DEF Stamp, Goto, IInv, TypeOK
  <1>9. ASSUME NEW c \in Calls, Conflict(c) \/ LockError(c)
        PROVE  IInv'
    <2>1. TypeOK'
      <3>1. attempt[c] \in 0..MaxRetries /\ lockErrors[c] \in 0..MaxRetries
        BY DEF IInv, TypeOK
      <3>2. attempt[c] < MaxRetries /\ lockErrors[c] <= attempt[c]
        BY <1>9 DEF IInv, CallConsistent, Conflict, LockError
      <3>3. attempt[c] + 1 \in 0..MaxRetries /\ lockErrors[c] + 1 \in 0..MaxRetries
        BY <3>1, <3>2
      <3>. QED
        BY <1>9, <3>3 DEF Conflict, LockError, Goto, IInv, TypeOK, Running, Ended
    <2>2. CallConsistent(c)'
      BY <1>9 DEF Conflict, LockError, Goto, IInv, TypeOK, CallConsistent
    <2>. QED
      BY <1>9, <2>1, <2>2, QuietStep DEF Conflict, LockError, Goto, IInv, TypeOK
  <1>. QED
    BY <1>2, <1>3, <1>4, <1>5, <1>6, <1>7, <1>8, <1>9, CommitKeepsIInv
       DEF Next, Step

-----------------------------------------------------------------------------
\* The inductive invariant implies the properties the runs check.

LEMMA IInvImpliesDense == IInv => DenseVersions
  <1>. SUFFICES ASSUME IInv, NEW r \in rows
       PROVE /\ \A q \in rows : r.version = q.version => r = q
             /\ r.version >= 1
             /\ r.version > 1 => r.version - 1 \in Versions
    BY DEF DenseVersions
  <1>1. MaxVersion \in Nat /\ Versions = 1..MaxVersion
    BY DEF IInv, Contiguous
  <1>2. r.version \in 1..MaxVersion
    BY <1>1 DEF Versions
  <1>. QED
    BY <1>1, <1>2 DEF IInv, Contiguous

LEMMA IInvImpliesChain == IInv => ChainVerifies
  <1>. SUFFICES ASSUME IInv, NEW r \in rows
       PROVE  LET before == {q \in rows : q.version < r.version}
                  expected == IF before = {} THEN NoHash
                              ELSE (CHOOSE q \in before :
                                       \A p \in before : p.version <= q.version).hash
              IN /\ r.prevHash = expected
                 /\ r.hash = ComputeEntryHash(r.prevHash, r.version, r.by, r.stamp)
    BY DEF ChainVerifies, VerifyChain
  <1>. DEFINE before == {q \in rows : q.version < r.version}
              IsLast(q) == q \in before /\ \A p \in before : p.version <= q.version
  <1>1. MaxVersion \in Nat /\ Versions = 1..MaxVersion
        /\ \A p, q \in rows : p.version = q.version => p = q
    BY DEF IInv, Contiguous
  <1>2. \A q \in rows : q.version \in 1..MaxVersion
    BY <1>1 DEF Versions
  <1>3. /\ ChainsOnto(r.prevHash, r.version)
        /\ r.hash = ComputeEntryHash(r.prevHash, r.version, r.by, r.stamp)
    BY DEF IInv, Chained
  <1>4. CASE r.version = 1
    <2>1. before = {}
      BY <1>2, <1>4
    <2>. QED
      BY <1>3, <1>4, <2>1 DEF ChainsOnto
  <1>5. CASE r.version # 1
    <2>1. PICK q \in rows : q.version = r.version - 1 /\ q.hash = r.prevHash
      BY <1>3, <1>5 DEF ChainsOnto
    <2>2. IsLast(q)
      BY <1>2, <2>1
    <2>3. \A p : IsLast(p) => p = q
      BY <1>1, <1>2, <2>1, <2>2
    <2>4. (CHOOSE p \in before : \A o \in before : o.version <= p.version) = q
      BY <2>2, <2>3
    <2>. QED
      BY <1>3, <2>1, <2>2, <2>4
  <1>. QED
    BY <1>4, <1>5

LEMMA IInvImpliesTimeTravel == IInv => TimeTravelExact
  <1>. SUFFICES ASSUME IInv, NEW t \in 0..MaxClock, NEW r \in rows
       PROVE  (\E q \in rows : q.stamp <= t /\ r.version <= q.version)
                <=> r.stamp <= t
    BY DEF TimeTravelExact, AsOfTimestamp
  <1>1. \A q \in rows : q.version \in Nat /\ q.stamp \in 0..MaxClock
    BY DEF IInv, TypeOK
  <1>2. \A q \in rows : r.version <= q.version => r.stamp <= q.stamp
    BY <1>1 DEF IInv, StampsOrdered, Contiguous
  <1>. QED
    BY <1>1, <1>2

LEMMA IInvImpliesPrevRow == IInv => PrevRowPresent
  <1>. SUFFICES ASSUME IInv, NEW c \in Calls, pc[c] = "link", version[c] > 1
       PROVE  \E r \in rows : /\ r.version = version[c] - 1
                             /\ \A q \in rows : q.version = r.version => q = r
    BY DEF PrevRowPresent
  <1>1. MaxVersion \in Nat /\ Versions = 1..MaxVersion
        /\ version[c] \in 1..(MaxVersion + 1)
    BY DEF IInv, Contiguous, CallConsistent
  <1>2. version[c] - 1 \in Versions
    BY <1>1
  <1>. QED
    BY <1>2 DEF Versions, IInv, Contiguous

\* A new row follows all the others in version and in time.
LEMMA NextAppends ==
    ASSUME IInv, [Next]_vars
    PROVE  /\ rows \subseteq rows'
           /\ \A r \in rows' \ rows : \A q \in rows :
                 q.version < r.version /\ q.stamp <= r.stamp
  <1>1. CASE \E c \in Calls : Commit(c)
    <2>1. PICK c \in Calls : Commit(c)
      BY <1>1
    <2>2. MaxVersion \in Nat /\ Versions = 1..MaxVersion
      BY DEF IInv, Contiguous
    <2>3. version[c] = MaxVersion + 1
      <3>1. version[c] \in 1..(MaxVersion + 1) /\ version[c] \notin 1..MaxVersion
        BY <2>1, <2>2 DEF IInv, CallConsistent, Commit
      <3>. QED
        BY <2>2, <3>1
    <2>4. \A q \in rows : q.version \in 1..MaxVersion
      BY <2>2 DEF Versions
    <2>5. \A q \in rows : q.version < version[c] /\ q.stamp <= stampOf[c]
      BY <2>1, <2>2, <2>3, <2>4 DEF IInv, CallConsistent, Commit
    <2>. QED
      BY <2>1, <2>5 DEF Commit, NewRow
  <1>2. CASE ~ \E c \in Calls : Commit(c)
    BY <1>2, RowsChangeOnlyInCommit DEF vars
  <1>. QED
    BY <1>1, <1>2

-----------------------------------------------------------------------------
\* Every behaviour of append_commit's calls stays in the inductive invariant.
LEMMA Invariance == Spec => []IInv
  BY InitIInv, NextKeepsIInv, PTL DEF Spec

\* Every variable keeps its type: versions, attempts and times stay in range.
THEOREM TypeCorrect == Spec => []TypeOK
  BY Invariance, PTL DEF IInv

\* Whatever the calls do, the stream's versions are 1..n, each assigned once.
THEOREM VersionsAreDense == Spec => []DenseVersions
  BY Invariance, IInvImpliesDense, PTL

\* verify_chain accepts every stream that only append_commit has written.
THEOREM ChainAlwaysVerifies == Spec => []ChainVerifies
  BY Invariance, IInvImpliesChain, PTL

\* read_as_of_timestamp returns exactly the commits stamped by its time.
THEOREM TimeTravelIsExact == Spec => []TimeTravelExact
  BY Invariance, IInvImpliesTimeTravel, PTL

\* A returned append is in the stream once, a StorageConflictError never.
THEOREM AnswersAlwaysTrue == Spec => []AnswersAreTrue
  BY Invariance, PTL DEF IInv

\* The table and what its callers were told agree, with no gap in the versions.
THEOREM LogIsSound == Spec => []LogInv
  BY TypeCorrect, VersionsAreDense, AnswersAlwaysTrue, PTL DEF LogInv

\* _prev_entry_hash never fails to find the row it chains onto.
THEOREM PrevRowAlwaysPresent == Spec => []PrevRowPresent
  BY Invariance, IInvImpliesPrevRow, PTL

\* Rows are only ever added, after all the others in version and in time.
THEOREM OnlyAppends == Spec => AppendsAtTheEnd
  BY Invariance, NextAppends, PTL DEF Spec, AppendsAtTheEnd

-----------------------------------------------------------------------------
\* Why conflicts are paid for: a call holds a version above the number of its
\* conflicts, and the versions below it are rows of other calls.
Others(c) == {r \in rows : r.by # c}

CountInv ==
    /\ IsFiniteSet(rows)
    /\ Cardinality(rows) = MaxVersion
    /\ \A c \in Calls :
          /\ attempt[c] - lockErrors[c] <= Cardinality(Others(c))
          /\ pc[c] \in {"link", "stamp", "commit"} =>
                attempt[c] - lockErrors[c] < version[c]

\* Before its own commit, every row of the table is another call's.
LEMMA OthersBeforeCommit ==
    ASSUME IInv, NEW c \in Calls,
           pc[c] \in {"idle", "read", "link", "stamp", "commit", "conflict"}
    PROVE  Others(c) = rows
  BY DEF IInv, AnswersAreTrue, Others

\* The count survives a step that writes no row, if the stepping call's does.
LEMMA QuietCount ==
    ASSUME CountInv, NEW c \in Calls, UNCHANGED rows,
           \A d \in Calls \ {c} : UNCHANGED <<pc[d], version[d], attempt[d], lockErrors[d]>>,
           attempt'[c] - lockErrors'[c] <= Cardinality(Others(c)),
           pc'[c] \in {"link", "stamp", "commit"} =>
               attempt'[c] - lockErrors'[c] < version'[c]
    PROVE  CountInv'
  <1>1. MaxVersion' = MaxVersion
    BY MaxVersionUnchanged
  <1>2. \A d \in Calls : Others(d)' = Others(d)
    BY DEF Others
  <1>. QED
    BY <1>1, <1>2 DEF CountInv

LEMMA CommitCount ==
    ASSUME IInv, IInv', CountInv, NEW c \in Calls, Commit(c)
    PROVE  CountInv'
  <1>1. MaxVersion \in Nat /\ Versions = 1..MaxVersion
        /\ MaxVersion' \in Nat /\ Versions' = 1..MaxVersion'
    BY DEF IInv, Contiguous
  <1>2. rows' = rows \union {NewRow(c)} /\ NewRow(c) \notin rows
    BY DEF Commit, Versions, NewRow
  <1>3. Versions' = Versions \union {version[c]} /\ version[c] \notin Versions
    BY <1>2 DEF Versions, NewRow, Commit
  <1>4. version[c] = MaxVersion + 1
    <2>1. version[c] \in 1..(MaxVersion + 1)
      BY DEF IInv, CallConsistent, Commit
    <2>. QED
      BY <1>1, <1>3, <2>1
  <1>5. MaxVersion' = MaxVersion + 1
    <2>1. MaxVersion + 1 \in 1..MaxVersion'
      BY <1>1, <1>3, <1>4
    <2>2. MaxVersion' \in 1..MaxVersion'
      BY <1>1, <2>1
    <2>3. MaxVersion' \in (1..MaxVersion) \union {MaxVersion + 1}
      BY <1>1, <1>3, <1>4, <2>2
    <2>. QED
      BY <1>1, <2>1, <2>3
  <1>6. /\ IsFiniteSet(rows')
        /\ Cardinality(rows') = Cardinality(rows) + 1
    BY <1>2, FS_AddElement DEF CountInv
  <1>7. ASSUME NEW d \in Calls
        PROVE  Cardinality(Others(d)) \in Nat /\ Cardinality(Others(d)') \in Nat
               /\ Cardinality(Others(d)) <= Cardinality(Others(d)')
    <2>1. /\ Others(d) \subseteq rows /\ Others(d)' \subseteq rows'
          /\ Others(d) \subseteq Others(d)'
      BY <1>2 DEF Others
    <2>2. IsFiniteSet(Others(d)) /\ IsFiniteSet(Others(d)')
      BY <1>6, <2>1, FS_Subset DEF CountInv
    <2>. QED
      BY <2>1, <2>2, FS_Subset, FS_CardinalityType
  <1>8. ASSUME NEW d \in Calls
        PROVE  /\ attempt'[d] - lockErrors'[d] <= Cardinality(Others(d)')
               /\ pc'[d] \in {"link", "stamp", "commit"} =>
                     attempt'[d] - lockErrors'[d] < version'[d]
    <2>1. /\ UNCHANGED <<attempt, lockErrors, version>>
          /\ attempt[d] \in Nat /\ lockErrors[d] \in Nat
          /\ pc'[d] \in {"link", "stamp", "commit"} => pc[d] = pc'[d]
      BY RetriesAssumption DEF Commit, Goto, IInv, TypeOK
    <2>. QED
      BY <1>7, <2>1 DEF CountInv
  <1>. QED
    BY <1>5, <1>6, <1>8 DEF CountInv

LEMMA CountStep ==
    ASSUME IInv, IInv', CountInv, [Next]_vars
    PROVE  CountInv'
  <1>1. MaxVersion \in Nat /\ Versions = 1..MaxVersion
    BY DEF IInv, Contiguous
  <1>2. CASE UNCHANGED vars \/ Tick
    <2>1. UNCHANGED <<rows, pc, attempt, version, lockErrors>>
      BY <1>2 DEF vars, Tick, callVars
    <2>2. MaxVersion' = MaxVersion
      BY <2>1, MaxVersionUnchanged
    <2>3. \A d \in Calls : Others(d)' = Others(d)
      BY <2>1 DEF Others
    <2>. QED
      BY <2>1, <2>2, <2>3 DEF CountInv
  <1>3. ASSUME NEW c \in Calls,
               \/ Begin(c) \/ GiveUp(c) \/ Return(c) \/ ReadError(c) \/ Crash(c)
               \/ ReadPrevHash(c) \/ Stamp(c)
        PROVE  CountInv'
    <2>1. /\ UNCHANGED <<rows, attempt, version, lockErrors>>
          /\ \A d \in Calls \ {c} : UNCHANGED pc[d]
          /\ pc'[c] \in {"link", "stamp", "commit"} =>
                pc[c] \in {"link", "stamp", "commit"}
      BY <1>3 DEF Begin, GiveUp, Return, ReadError, Crash, ReadPrevHash, Stamp,
                  Goto, IInv, TypeOK
    <2>. QED
      BY <2>1, QuietCount DEF CountInv
  <1>4. ASSUME NEW c \in Calls, ReadVersion(c)
        PROVE  CountInv'
    <2>1. attempt[c] - lockErrors[c] <= MaxVersion
      BY <1>4, OthersBeforeCommit DEF CountInv, ReadVersion
    <2>2. attempt[c] \in Nat /\ lockErrors[c] \in Nat
      BY RetriesAssumption DEF IInv, TypeOK
    <2>3. attempt[c] - lockErrors[c] < MaxVersion + 1
      BY <1>1, <2>1, <2>2
    <2>4. /\ version'[c] = MaxVersion + 1
          /\ UNCHANGED <<rows, attempt, lockErrors>>
          /\ \A d \in Calls \ {c} : UNCHANGED <<pc[d], version[d]>>
      BY <1>4 DEF ReadVersion, NextVersion, Goto, IInv, TypeOK
    <2>. QED
      BY <2>3, <2>4, QuietCount DEF CountInv
  <1>5. ASSUME NEW c \in Calls, Conflict(c)
        PROVE  CountInv'
    <2>1. /\ version[c] \in 1..MaxVersion
          /\ attempt[c] - lockErrors[c] < version[c]
      BY <1>1, <1>5 DEF Conflict, CountInv
    <2>2. attempt[c] \in Nat /\ lockErrors[c] \in Nat
      BY RetriesAssumption DEF IInv, TypeOK
    <2>3. Cardinality(Others(c)) = MaxVersion
      BY <1>5, OthersBeforeCommit DEF Conflict, CountInv
    <2>4. (attempt[c] + 1) - lockErrors[c] <= Cardinality(Others(c))
      BY <1>1, <2>1, <2>2, <2>3
    <2>5. /\ attempt'[c] = attempt[c] + 1 /\ pc'[c] = "read"
          /\ UNCHANGED <<rows, version, lockErrors>>
          /\ \A d \in Calls \ {c} : UNCHANGED <<pc[d], attempt[d]>>
      BY <1>5 DEF Conflict, Goto, IInv, TypeOK
    <2>. QED
      BY <2>4, <2>5, QuietCount
  <1>6. ASSUME NEW c \in Calls, LockError(c)
        PROVE  CountInv'
    <2>1. attempt[c] \in Nat /\ lockErrors[c] \in Nat
      BY RetriesAssumption DEF IInv, TypeOK
    <2>2. (attempt[c] + 1) - (lockErrors[c] + 1) = attempt[c] - lockErrors[c]
      BY <2>1
    <2>3. /\ attempt'[c] = attempt[c] + 1 /\ lockErrors'[c] = lockErrors[c] + 1
          /\ pc'[c] = "read"
          /\ UNCHANGED <<rows, version>>
          /\ \A d \in Calls \ {c} : UNCHANGED <<pc[d], attempt[d], lockErrors[d]>>
      BY <1>6 DEF LockError, Goto, IInv, TypeOK
    <2>. QED
      BY <2>2, <2>3, QuietCount DEF CountInv
  <1>. QED
    BY <1>2, <1>3, <1>4, <1>5, <1>6, CommitCount DEF Next, Step

LEMMA InitCount == Init => CountInv
  <1>. SUFFICES ASSUME Init PROVE CountInv
    OBVIOUS
  <1>1. rows = {} /\ MaxVersion = 0 /\ \A c \in Calls : Others(c) = {}
    BY DEF Init, MaxVersion, Others
  <1>. QED
    BY <1>1, FS_EmptySet DEF Init, CountInv

\* A call that lost k attempts to conflicts saw at least k commits of others:
\* conflicts alone cannot starve every call, nor exhaust a budget larger than
\* the number of competing commits.
THEOREM ConflictsAlwaysPaidFor == Spec => []ConflictsPaidFor
  <1>1. CountInv => ConflictsPaidFor
    BY DEF CountInv, ConflictsPaidFor, Others
  <1>2. IInv /\ IInv' /\ CountInv /\ [Next]_vars => CountInv'
    BY CountStep
  <1>. QED
    BY <1>1, <1>2, InitCount, Invariance, PTL DEF Spec

-----------------------------------------------------------------------------
\* The append implements the atomic append-only log.

\* The row at each version is there, and is the only one.
LEMMA RowAtIs ==
    ASSUME IInv, NEW r \in rows
    PROVE  RowAt(r.version) = r
  BY DEF RowAt, IInv, Contiguous

LEMMA RowAtPresent ==
    ASSUME IInv, NEW v \in 1..MaxVersion
    PROVE  RowAt(v) \in rows /\ RowAt(v).version = v
  BY DEF RowAt, IInv, Contiguous, Versions

\* A call is in the log exactly when it has a row in the table.
LEMMA InLogIs ==
    ASSUME IInv, NEW c \in Calls
    PROVE  Abstract!InLog(c) <=> \E r \in rows : r.by = c
  <1>0. MaxVersion \in Nat /\ Versions = 1..MaxVersion
    BY DEF IInv, Contiguous
  <1>1. Len(TheLog) = MaxVersion
    BY <1>0 DEF TheLog
  <1>2. ASSUME NEW r \in rows, r.by = c
        PROVE  \E v \in 1..MaxVersion : TheLog[v].by = c
    <2>1. r.version \in 1..MaxVersion /\ RowAt(r.version) = r
      BY <1>0, RowAtIs DEF Versions
    <2>. QED
      BY <1>2, <2>1 DEF TheLog
  <1>3. ASSUME NEW v \in 1..MaxVersion, TheLog[v].by = c
        PROVE  \E r \in rows : r.by = c
    BY <1>3, RowAtPresent DEF TheLog
  <1>. QED
    BY <1>1, <1>2, <1>3 DEF Abstract!InLog, TheLog

\* What the caller is told at each label.
LEMMA ToldIs ==
    /\ Told["idle"] = "none"
    /\ \A label \in Running : Told[label] = "running"
    /\ Told["returned"] = "Returned" /\ Told["conflict"] = "Conflict"
    /\ Told["failed"] = "Failed" /\ Told["crashed"] = "Gone"
  BY DEF Told, Running

\* A step that writes no row and moves one call leaves the log alone and
\* changes at most that call's answer.
LEMMA QuietAnswer ==
    ASSUME IInv, NEW c \in Calls, NEW label, UNCHANGED rows, Goto(c, label)
    PROVE  /\ UNCHANGED TheLog
           /\ TheAnswer[c] = Told[pc[c]]
           /\ TheAnswer' = [TheAnswer EXCEPT ![c] = Told[label]]
  <1>1. MaxVersion' = MaxVersion
    BY MaxVersionUnchanged
  <1>2. \A v : RowAt(v)' = RowAt(v)
    BY DEF RowAt
  <1>3. UNCHANGED TheLog
    BY <1>1, <1>2 DEF TheLog
  <1>4. pc \in [Calls -> {"idle"} \union Running \union Ended]
    BY DEF IInv, TypeOK
  <1>. QED
    BY <1>3, <1>4 DEF TheAnswer, Goto

\* The commit is the linearization point: it puts the row at the end.
LEMMA CommitIsPut ==
    ASSUME IInv, IInv', NEW c \in Calls, Commit(c)
    PROVE  Abstract!Put(c)
  <1>0. /\ MaxVersion \in Nat /\ Versions = 1..MaxVersion
        /\ MaxVersion' \in Nat /\ Versions' = 1..MaxVersion'
    BY DEF IInv, Contiguous
  <1>1. rows' = rows \union {NewRow(c)} /\ NewRow(c) \notin rows
    BY DEF Commit, Versions, NewRow
  <1>2. version[c] = MaxVersion + 1 /\ MaxVersion' = MaxVersion + 1
    <2>1. Versions' = Versions \union {version[c]} /\ version[c] \notin Versions
      BY <1>1 DEF Versions, NewRow, Commit
    <2>2. version[c] \in 1..(MaxVersion + 1)
      BY DEF IInv, CallConsistent, Commit
    <2>3. version[c] = MaxVersion + 1
      BY <1>0, <2>1, <2>2
    <2>4. MaxVersion + 1 \in 1..MaxVersion'
      BY <1>0, <2>1, <2>3
    <2>5. MaxVersion' \in 1..MaxVersion'
      BY <1>0, <2>4
    <2>6. MaxVersion' \in (1..MaxVersion) \union {MaxVersion + 1}
      BY <1>0, <2>1, <2>3, <2>5
    <2>. QED
      BY <1>0, <2>3, <2>4, <2>6
  <1>. PICK n \in Nat : n = MaxVersion
    BY <1>0
  <1>3. ASSUME NEW v \in 1..n
        PROVE  RowAt(v)' = RowAt(v)
    <2>1. RowAt(v) \in rows' /\ RowAt(v).version = v
      BY <1>1, RowAtPresent
    <2>2. \A q \in rows' : q.version = v => q = RowAt(v)
      BY <2>1 DEF IInv, Contiguous
    <2>. QED
      BY <2>1, <2>2 DEF RowAt
  <1>4. RowAt(n + 1)'.by = c /\ RowAt(n + 1)'.stamp = stampOf[c]
    <2>1. NewRow(c) \in rows' /\ NewRow(c).version = n + 1
      BY <1>1, <1>2 DEF NewRow
    <2>2. PICK r \in rows' : r = NewRow(c)
      BY <2>1
    <2>3. \A q \in rows' : q.version = n + 1 => q = r
      BY <2>1, <2>2 DEF IInv, Contiguous
    <2>4. RowAt(n + 1)' = r
      BY <2>1, <2>2, <2>3 DEF RowAt
    <2>. QED
      BY <2>2, <2>4 DEF NewRow
  <1>5. TheLog' = Append(TheLog, Abstract!Entry(c, stampOf[c]))
    <2>1. TheLog' = [v \in 1..(n + 1) |->
                        [by |-> RowAt(v)'.by, stamp |-> RowAt(v)'.stamp]]
      BY <1>2 DEF TheLog
    <2>2. TheLog = [v \in 1..n |-> [by |-> RowAt(v).by, stamp |-> RowAt(v).stamp]]
      BY DEF TheLog
    <2>3. TheLog \in Seq([by : {RowAt(v).by : v \in 1..n},
                          stamp : {RowAt(v).stamp : v \in 1..n}])
          /\ Len(TheLog) = n
      BY <2>2
    <2>4. Append(TheLog, Abstract!Entry(c, stampOf[c])) =
            [v \in 1..(n + 1) |-> IF v <= n THEN TheLog[v]
                                  ELSE Abstract!Entry(c, stampOf[c])]
      BY <2>3
    <2>5. \A v \in 1..(n + 1) :
            [by |-> RowAt(v)'.by, stamp |-> RowAt(v)'.stamp] =
               IF v <= n THEN TheLog[v] ELSE Abstract!Entry(c, stampOf[c])
      BY <1>3, <1>4, <2>2 DEF Abstract!Entry
    <2>. QED
      BY <2>1, <2>4, <2>5
  <1>6. TheAnswer[c] = "running" /\ UNCHANGED TheAnswer
    BY DEF Commit, Goto, TheAnswer, Running, Told, IInv, TypeOK
  <1>7. ~ Abstract!InLog(c)
    BY InLogIs DEF IInv, AnswersAreTrue, Commit
  <1>8. Abstract!LastStamp <= stampOf[c]
    <2>1. Len(TheLog) = MaxVersion
      BY <1>0 DEF TheLog
    <2>2. CASE MaxVersion = 0
      BY <2>1, <2>2 DEF Abstract!LastStamp, TheLog, IInv, TypeOK
    <2>3. CASE MaxVersion # 0
      <3>1. RowAt(MaxVersion) \in rows /\ RowAt(MaxVersion).version = MaxVersion
        BY <1>0, <2>3, RowAtPresent
      <3>2. RowAt(MaxVersion).stamp <= stampOf[c]
        BY <1>0, <1>2, <3>1 DEF IInv, CallConsistent, Commit
      <3>3. TheLog # <<>> /\ TheLog[MaxVersion].stamp = RowAt(MaxVersion).stamp
        BY <1>0, <2>1, <2>3 DEF TheLog
      <3>. QED
        BY <2>1, <3>2, <3>3 DEF Abstract!LastStamp, TheLog
    <2>. QED
      BY <2>2, <2>3
  <1>. QED
    BY <1>5, <1>6, <1>7, <1>8
       DEF Abstract!Put, IInv, TypeOK

\* Every other step starts or answers a call, or is no step at all.
LEMMA StepMaps ==
    ASSUME IInv, IInv', [Next]_vars
    PROVE  [Abstract!Next]_(Abstract!logVars)
  <1>0. "read" \in Running /\ "link" \in Running /\ "stamp" \in Running
        /\ "commit" \in Running /\ "stored" \in Running
    BY DEF Running
  <1>1. CASE UNCHANGED vars \/ Tick
    <2>1. UNCHANGED <<rows, pc>>
      BY <1>1 DEF vars, Tick, callVars
    <2>2. UNCHANGED MaxVersion /\ \A v : RowAt(v)' = RowAt(v)
      BY <2>1, MaxVersionUnchanged DEF RowAt
    <2>. QED
      BY <2>1, <2>2 DEF Abstract!logVars, TheLog, TheAnswer
  <1>2. ASSUME NEW c \in Calls, Begin(c)
        PROVE  Abstract!Start(c)
    <2>1. PICK label \in {"read", "failed"} : Goto(c, label)
      BY <1>2 DEF Begin
    <2>2. /\ UNCHANGED TheLog /\ TheAnswer[c] = Told["idle"]
          /\ TheAnswer' = [TheAnswer EXCEPT ![c] = Told[label]]
      BY <1>2, <2>1, QuietAnswer DEF Begin
    <2>. QED
      BY <1>0, <2>2, ToldIs DEF Abstract!Start
  <1>3. ASSUME NEW c \in Calls, GiveUp(c)
        PROVE  Abstract!Answer(c)
    <2>1. /\ UNCHANGED TheLog /\ TheAnswer[c] = Told["read"]
          /\ TheAnswer' = [TheAnswer EXCEPT ![c] = Told["conflict"]]
      BY <1>3, QuietAnswer DEF GiveUp
    <2>2. ~ Abstract!InLog(c)
      BY <1>3, InLogIs DEF IInv, AnswersAreTrue, GiveUp
    <2>. QED
      BY <1>0, <2>1, <2>2, ToldIs DEF Abstract!Answer
  <1>4. ASSUME NEW c \in Calls, Return(c)
        PROVE  Abstract!Answer(c)
    <2>1. PICK label \in {"returned", "failed"} : Goto(c, label)
      BY <1>4 DEF Return
    <2>2. /\ UNCHANGED TheLog /\ TheAnswer[c] = Told["stored"]
          /\ TheAnswer' = [TheAnswer EXCEPT ![c] = Told[label]]
      BY <1>4, <2>1, QuietAnswer DEF Return
    <2>3. Abstract!InLog(c)
      BY <1>4, InLogIs DEF IInv, AnswersAreTrue, Return
    <2>. QED
      BY <1>0, <2>2, <2>3, ToldIs DEF Abstract!Answer
  <1>5. ASSUME NEW c \in Calls, ReadError(c) \/ Crash(c)
        PROVE  Abstract!Answer(c)
    <2>1. pc[c] \in Running /\ UNCHANGED rows
      BY <1>5 DEF ReadError, Crash, Running
    <2>2. PICK label \in {"failed", "crashed"} : Goto(c, label)
      BY <1>5 DEF ReadError, Crash
    <2>3. /\ UNCHANGED TheLog /\ TheAnswer[c] = Told[pc[c]]
          /\ TheAnswer' = [TheAnswer EXCEPT ![c] = Told[label]]
      BY <2>1, <2>2, QuietAnswer
    <2>. QED
      BY <2>1, <2>3, ToldIs DEF Abstract!Answer
  <1>6. ASSUME NEW c \in Calls,
               \/ ReadVersion(c) \/ ReadPrevHash(c) \/ Stamp(c)
               \/ Conflict(c) \/ LockError(c)
        PROVE  Abstract!Answer(c) \/ UNCHANGED Abstract!logVars
    <2>1. pc[c] \in Running /\ UNCHANGED rows
      BY <1>6 DEF ReadVersion, ReadPrevHash, Stamp, Conflict, LockError, Running
    <2>2. PICK label \in Running \union {"failed"} : Goto(c, label)
      BY <1>0, <1>6 DEF ReadVersion, ReadPrevHash, Stamp, Conflict, LockError
    <2>3. /\ UNCHANGED TheLog /\ TheAnswer[c] = Told[pc[c]]
          /\ TheAnswer' = [TheAnswer EXCEPT ![c] = Told[label]]
      BY <2>1, <2>2, QuietAnswer
    <2>4. CASE label \in Running
      <3>1. TheAnswer' = TheAnswer
        BY <2>1, <2>3, <2>4, ToldIs DEF TheAnswer
      <3>. QED
        BY <2>3, <3>1 DEF Abstract!logVars
    <2>5. CASE label = "failed"
      BY <2>1, <2>3, <2>5, ToldIs DEF Abstract!Answer
    <2>. QED
      BY <2>4, <2>5
  <1>. QED
    BY <1>1, <1>2, <1>3, <1>4, <1>5, <1>6, CommitIsPut
       DEF Next, Step, Abstract!Next

\* append_commit over the table implements the atomic append-only log, for any
\* number of calls, any retry budget and any interleaving.
THEOREM Refinement == Spec => ImplementsLog
  <1>1. Init => Abstract!Init
    BY ToldIs DEF Init, Abstract!Init, MaxVersion, TheLog, TheAnswer
  <1>2. IInv /\ IInv' /\ [Next]_vars => [Abstract!Next]_(Abstract!logVars)
    BY StepMaps
  <1>. QED
    BY <1>1, <1>2, Invariance, PTL DEF Spec, ImplementsLog, Abstract!Spec
=============================================================================
