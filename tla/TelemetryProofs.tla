-------------------------- MODULE TelemetryProofs ---------------------------
(***************************************************************************)
(* Proofs about the two components that write behind the callers' backs: for *)
(* WriteQueue the queue's invariant, and that every step of its threads is a *)
(* step of AsyncAppends or none, for any calls, waits, stores and capacity;   *)
(* for Rotation, that a record is lost only in its time or by the reuse of a  *)
(* name, for any configuration, sizes, failures and restarts.                 *)
(***************************************************************************)
EXTENDS WriteQueue, Rotation, FiniteSetTheorems, SequenceTheorems, WellFoundedInduction,
        TLAPS

-----------------------------------------------------------------------------
\* The inductive invariant.  That commits are settled in order rests on there being
\* one writer; that there is one, on who may be between the two locks; and what the
\* writer does with a commit, on what its call resolved before it was queued.
Types ==
    /\ TypeOK
    /\ accepted \in Seq(Calls) /\ settled \in Seq(Calls)
    /\ stored \in Seq([call : Calls, store : Routes])
    /\ waiter \in [Waiters -> [pc : {"idle", "waiting", "joined", "gone"}, for : SUBSET Calls]]
    /\ during \in [Calls -> SUBSET Routes]

Critical == {"recheck", "assign", "start"}

LockHeld == \A c \in Calls : pc[c] \in Critical => lock = c

\* A thread that runs is the one published, and a call that publishes one or starts
\* it runs beside no writer.
Resting == {"unstarted", "dead"}

OneWorker ==
    /\ \A w \in Calls : worker[w] \notin Resting => workerThread = w
    /\ \A c \in Calls : /\ pc[c] \in {"assign", "start"} =>
                              \A w \in Calls : worker[w] \in Resting
                        /\ pc[c] = "start" => workerThread = c

\* What a call resolved was routed to while it ran; queued commits are those of
\* calls that have returned.
Resolved(c) == pc[c] = "queued" /\ engine[c] \in during[c]

Routed ==
    /\ \A c \in Calls : pc[c] \in Active => route \in during[c]
    /\ \A c \in Calls : pc[c] = "put" => engine[c] \in during[c]
    /\ \A i \in 1..Len(queue) : Resolved(queue[i])
    /\ \A w \in Calls : worker[w] = "append" => item[w] \in Calls /\ Resolved(item[w])
    /\ \A i \in 1..Len(stored) :
          pc[stored[i].call] = "queued" /\ stored[i].store \in during[stored[i].call]

\* The library's count of unfinished tasks: those queued, and the writer's.
Working == \E w \in Calls : worker[w] \in {"append", "mark", "doom"}
Counted == unfinished = Len(queue) + IF Working THEN 1 ELSE 0

WaitsFor ==
    /\ \A w \in Waiters : waiter[w].pc = "waiting" => waiter[w].for \subseteq ToSet(accepted)
    /\ JoinWaitsForAll

IInv == Types /\ LockHeld /\ OneWorker /\ Routed /\ Counted /\ SettledInOrder /\ WaitsFor

-----------------------------------------------------------------------------
\* A sequence keeps its elements when one is appended.
LEMMA AppendKeeps ==
    ASSUME NEW S, NEW s \in Seq(S), NEW e \in S
    PROVE  /\ Append(s, e) \in Seq(S) /\ Len(Append(s, e)) = Len(s) + 1
           /\ \A i \in 1..Len(s) : Append(s, e)[i] = s[i]
           /\ Append(s, e)[Len(s) + 1] = e
           /\ ToSet(s) \subseteq ToSet(Append(s, e))
  <1>1. /\ Append(s, e) \in Seq(S) /\ Len(Append(s, e)) = Len(s) + 1
        /\ \A i \in 1..Len(s) : Append(s, e)[i] = s[i]
        /\ Append(s, e)[Len(s) + 1] = e
    BY AppendProperties
  <1>2. DOMAIN s = 1..Len(s) /\ DOMAIN Append(s, e) = 1..(Len(s) + 1) /\ Len(s) \in Nat
    BY <1>1, LenProperties
  <1>. QED
    BY <1>1, <1>2 DEF ToSet

LEMMA ToSetType ==
    ASSUME NEW S, NEW s \in Seq(S)
    PROVE  ToSet(s) \subseteq S
  BY LenProperties, ElementOfSeq DEF ToSet

\* What leaves the head of the queue goes to the hand, and from there to the end of
\* what is settled, without changing the order.
LEMMA HeadToHand ==
    ASSUME NEW S, NEW s \in Seq(S), NEW q \in Seq(S), q # <<>>
    PROVE  (s \o <<>>) \o q = (s \o <<Head(q)>>) \o Tail(q)
  <1>1. Head(q) \in S /\ Tail(q) \in Seq(S) /\ <<Head(q)>> \in Seq(S)
    BY HeadTailProperties
  <1>2. q = <<Head(q)>> \o Tail(q)
    <2>1. /\ <<Head(q)>> \o Tail(q) \in Seq(S)
          /\ Len(<<Head(q)>> \o Tail(q)) = Len(q)
      BY <1>1, HeadTailProperties, ConcatProperties, LenProperties
    <2>2. \A i \in 1..Len(q) : (<<Head(q)>> \o Tail(q))[i] = q[i]
      BY <1>1, HeadTailProperties, ConcatProperties, LenProperties
    <2>. QED
      BY <2>1, <2>2, SeqEqual
  <1>. QED
    BY <1>1, <1>2, ConcatEmptySeq, ConcatAssociative

LEMMA HandToSettled ==
    ASSUME NEW S, NEW s \in Seq(S), NEW q \in Seq(S), NEW e \in S
    PROVE  (s \o <<e>>) \o q = (Append(s, e) \o <<>>) \o q
  BY AppendIsConcat, AppendProperties, ConcatEmptySeq

\* Of sequences of calls, quantified, for the steps to instantiate.
LEMMA CallSequences ==
    \A s, q \in Seq(Calls), e \in Calls :
        /\ Append(s \o q, e) = s \o Append(q, e)
        /\ ToSet(s) \subseteq ToSet(Append(s, e))
        /\ s \o q \in Seq(Calls) /\ Len(s \o q) = Len(s) + Len(q)
        /\ Len(s) = 1 => (s \o q)[1] = s[1]
  <1>1. ASSUME NEW s \in Seq(Calls), NEW q \in Seq(Calls), NEW e \in Calls
        PROVE  Append(s \o q, e) = s \o Append(q, e)
    <2>1. s \o q \in Seq(Calls) /\ <<e>> \in Seq(Calls)
      BY ConcatProperties
    <2>2. Append(s \o q, e) = (s \o q) \o <<e>>
      BY <2>1, AppendIsConcat
    <2>3. Append(q, e) = q \o <<e>>
      BY AppendIsConcat
    <2>. QED
      BY <2>1, <2>2, <2>3, ConcatAssociative
  <1>2. \A s \in Seq(Calls), e \in Calls : ToSet(s) \subseteq ToSet(Append(s, e))
    BY AppendKeeps
  <1>3. ASSUME NEW s \in Seq(Calls), NEW q \in Seq(Calls)
        PROVE  /\ s \o q \in Seq(Calls) /\ Len(s \o q) = Len(s) + Len(q)
               /\ Len(s) = 1 => (s \o q)[1] = s[1]
    BY ConcatProperties, LenProperties
  <1>. QED
    BY <1>1, <1>2, <1>3

-----------------------------------------------------------------------------
LEMMA HandType ==
    ASSUME IInv
    PROVE  InHand \in Seq(Calls) /\ Len(InHand) \in {0, 1}
  <1>1. CASE workerThread # Nobody /\ worker[workerThread] = "append"
    <2>1. workerThread \in Calls
      BY <1>1 DEF IInv, Types, TypeOK
    <2>2. item[workerThread] \in Calls
      BY <1>1, <2>1 DEF IInv, Routed
    <2>3. InHand = <<item[workerThread]>>
      BY <1>1 DEF InHand
    <2>. QED
      BY <2>2, <2>3
  <1>2. CASE ~(workerThread # Nobody /\ worker[workerThread] = "append")
    BY <1>2, EmptySeq DEF InHand
  <1>. QED
    BY <1>1, <1>2

LEMMA StoredTypes ==
    ASSUME IInv, NEW i \in 1..Len(stored)
    PROVE  stored[i].call \in Calls /\ stored[i].store \in Routes
  <1>1. stored[i] \in [call : Calls, store : Routes]
    BY ElementOfSeq DEF IInv, Types
  <1>. QED
    BY <1>1

LEMMA InitIInv == Init => IInv
  <1>. SUFFICES ASSUME Init PROVE IInv
    OBVIOUS
  <1>. USE DEF Init
  <1>1. Types
    BY QueueAssumption, EmptySeq DEF Types, TypeOK, Routes, Active
  <1>2. LockHeld /\ OneWorker /\ Routed
    BY DEF LockHeld, OneWorker, Routed, Critical, Active, Resting
  <1>3. Counted
    BY DEF Counted, Working
  <1>4. SettledInOrder
    BY ConcatEmptySeq, EmptySeq DEF SettledInOrder, InHand
  <1>5. WaitsFor
    BY DEF WaitsFor, JoinWaitsForAll
  <1>. QED
    BY <1>1, <1>2, <1>3, <1>4, <1>5 DEF IInv

-----------------------------------------------------------------------------
\* A step of a call that leaves the queue, the writer and the waits alone keeps
\* all but what is said of the lock and of who starts the writer.
LEMMA CallMoves ==
    ASSUME IInv, NEW c \in Calls, NEW l \in Active \union {"raised"},
           pc[c] \in Active, pc' = [pc EXCEPT ![c] = l],
           UNCHANGED <<worker, item, queue, unfinished, stored, accepted, settled,
                       route, during, waiter>>,
           engine' \in [Calls -> Routes],
           \A d \in Calls : d # c => engine'[d] = engine[d],
           l = "put" => engine'[c] = route
    PROVE  /\ pc' \in [Calls -> Active \union {"idle", "queued", "dropped", "raised", "gone"}]
           /\ Routed' /\ Counted' /\ WaitsFor'
           /\ \A d \in Calls : d # c => pc'[d] = pc[d]
           /\ pc'[c] = l
  <1>1. pc \in [Calls -> Active \union {"idle", "queued", "dropped", "raised", "gone"}]
    BY DEF IInv, Types, TypeOK
  <1>2. pc' \in [Calls -> Active \union {"idle", "queued", "dropped", "raised", "gone"}]
    BY <1>1
  <1>3. (\A d \in Calls : d # c => pc'[d] = pc[d]) /\ pc'[c] = l
    BY <1>1
  <1>4. "queued" \notin Active \union {"raised"}
    BY DEF Active
  <1>5. \A d \in Calls : Resolved(d) => Resolved(d)'
    BY <1>3, <1>4 DEF Resolved
  <1>6. Routed'
    <2>1. (\A d \in Calls : pc[d] \in Active => route \in during[d])'
      BY <1>3 DEF IInv, Routed
    <2>2. (\A d \in Calls : pc[d] = "put" => engine[d] \in during[d])'
      BY <1>3 DEF IInv, Routed
    <2>3. (\A i \in 1..Len(queue) : Resolved(queue[i]))'
      <3>1. \A i \in 1..Len(queue) : queue[i] \in Calls
        BY ElementOfSeq DEF IInv, Types, TypeOK
      <3>. QED
        BY <1>5, <3>1 DEF IInv, Routed
    <2>4. (\A w \in Calls : worker[w] = "append" => item[w] \in Calls /\ Resolved(item[w]))'
      BY <1>5 DEF IInv, Routed
    <2>5. (\A i \in 1..Len(stored) :
              pc[stored[i].call] = "queued" /\ stored[i].store \in during[stored[i].call])'
      <3>1. \A i \in 1..Len(stored) : stored[i].call \in Calls
        BY StoredTypes
      <3>. QED
        BY <1>3, <1>4, <3>1 DEF IInv, Routed
    <2>. QED
      BY <2>1, <2>2, <2>3, <2>4, <2>5 DEF Routed
  <1>7. Counted'
    BY DEF IInv, Counted, Working
  <1>8. WaitsFor'
    BY DEF IInv, WaitsFor, JoinWaitsForAll
  <1>. QED
    BY <1>2, <1>3, <1>6, <1>7, <1>8

\* With the writer's thread, its hand and the queue unchanged, the order is too.
LEMMA OrderUntouched ==
    ASSUME SettledInOrder, UNCHANGED <<worker, item, queue, accepted, settled, workerThread>>
    PROVE  SettledInOrder'
  BY DEF SettledInOrder, InHand

LEMMA EnqueueKeeps ==
    ASSUME IInv, NEW c \in Calls, Enqueue(c)
    PROVE  IInv'
  <1>. USE DEF Enqueue, Goto
  <1>1. /\ UNCHANGED <<lock, workerThread, engine, workVars, route, waiter, boundVars>>
        /\ UNCHANGED <<worker, item, queue, unfinished, stored, accepted, settled>>
    BY DEF workVars
  <1>2. /\ \A d \in Calls : d # c => pc'[d] = pc[d] /\ during'[d] = during[d]
        /\ pc[c] = "idle" /\ pc'[c] = "check" /\ during'[c] = {route}
    BY DEF IInv, Types, TypeOK
  <1>3. Types'
    BY <1>1 DEF IInv, Types, TypeOK, Active
  <1>4. LockHeld' /\ OneWorker'
    BY <1>1, <1>2 DEF IInv, LockHeld, OneWorker, Critical
  <1>5. \A d \in Calls : Resolved(d) => Resolved(d)'
    BY <1>1, <1>2 DEF Resolved
  <1>6. Routed'
    <2>1. (\A d \in Calls : pc[d] \in Active => route \in during[d])'
      BY <1>1, <1>2 DEF IInv, Routed
    <2>2. (\A d \in Calls : pc[d] = "put" => engine[d] \in during[d])'
      BY <1>1, <1>2 DEF IInv, Routed
    <2>3. (\A i \in 1..Len(queue) : Resolved(queue[i]))'
      BY <1>1, <1>5, ElementOfSeq DEF IInv, Types, TypeOK, Routed
    <2>4. (\A w \in Calls : worker[w] = "append" => item[w] \in Calls /\ Resolved(item[w]))'
      BY <1>1, <1>5 DEF IInv, Routed
    <2>5. (\A i \in 1..Len(stored) :
              pc[stored[i].call] = "queued" /\ stored[i].store \in during[stored[i].call])'
      BY <1>1, <1>2, StoredTypes DEF IInv, Routed
    <2>. QED
      BY <2>1, <2>2, <2>3, <2>4, <2>5 DEF Routed
  <1>7. Counted' /\ WaitsFor'
    BY <1>1 DEF IInv, Counted, Working, WaitsFor, JoinWaitsForAll
  <1>. QED
    BY <1>1, <1>3, <1>4, <1>6, <1>7, OrderUntouched DEF IInv

LEMMA CheckWorkerKeeps ==
    ASSUME IInv, NEW c \in Calls, CheckWorker(c)
    PROVE  IInv'
  <1>1. PICK l \in {"resolve", "lock"} : pc' = [pc EXCEPT ![c] = l]
    BY DEF CheckWorker, Goto
  <1>2. pc[c] = "check" /\ UNCHANGED <<lock, workerThread, engine, workVars, route, waiter, during>>
    BY DEF CheckWorker
  <1>3. /\ pc' \in [Calls -> Active \union {"idle", "queued", "dropped", "raised", "gone"}]
        /\ Routed' /\ Counted' /\ WaitsFor'
        /\ \A d \in Calls : d # c => pc'[d] = pc[d]
        /\ pc'[c] = l
    <2>. engine' \in [Calls -> Routes] /\ \A d \in Calls : d # c => engine'[d] = engine[d]
      BY <1>2 DEF IInv, Types, TypeOK
    <2>. QED
      BY <1>1, <1>2, CallMoves DEF workVars, Active
  <1>4. Types' /\ LockHeld' /\ OneWorker' /\ SettledInOrder'
    BY <1>2, <1>3, OrderUntouched
    DEF IInv, Types, TypeOK, LockHeld, OneWorker, Critical, workVars
  <1>. QED
    BY <1>3, <1>4 DEF IInv

LEMMA AcquireLockKeeps ==
    ASSUME IInv, NEW c \in Calls, AcquireLock(c)
    PROVE  IInv'
  <1>1. /\ pc[c] = "lock" /\ lock = Nobody /\ lock' = c /\ pc' = [pc EXCEPT ![c] = "recheck"]
        /\ UNCHANGED <<workerThread, engine, workVars, route, waiter, during>>
    BY DEF AcquireLock, Goto
  <1>2. /\ pc' \in [Calls -> Active \union {"idle", "queued", "dropped", "raised", "gone"}]
        /\ Routed' /\ Counted' /\ WaitsFor'
        /\ \A d \in Calls : d # c => pc'[d] = pc[d]
        /\ pc'[c] = "recheck"
    <2>. engine' \in [Calls -> Routes] /\ \A d \in Calls : d # c => engine'[d] = engine[d]
      BY <1>1 DEF IInv, Types, TypeOK
    <2>. QED
      BY <1>1, CallMoves DEF workVars, Active
  <1>3. Types' /\ OneWorker' /\ SettledInOrder'
    BY <1>1, <1>2, OrderUntouched DEF IInv, Types, TypeOK, OneWorker, workVars
  <1>4. LockHeld'
    BY <1>1, <1>2, QueueAssumption DEF IInv, LockHeld
  <1>. QED
    BY <1>2, <1>3, <1>4 DEF IInv

LEMMA RecheckWorkerKeeps ==
    ASSUME IInv, NEW c \in Calls, RecheckWorker(c)
    PROVE  IInv'
  <1>1. /\ pc[c] = "recheck"
        /\ \/ pc' = [pc EXCEPT ![c] = "resolve"] /\ lock' = Nobody
           \/ ~Alive /\ pc' = [pc EXCEPT ![c] = "assign"] /\ lock' = lock
        /\ UNCHANGED <<workerThread, engine, workVars, route, waiter, during>>
    BY DEF RecheckWorker, Goto
  <1>2. PICK l \in {"resolve", "assign"} : pc' = [pc EXCEPT ![c] = l]
    BY <1>1
  <1>3. /\ pc' \in [Calls -> Active \union {"idle", "queued", "dropped", "raised", "gone"}]
        /\ Routed' /\ Counted' /\ WaitsFor'
        /\ \A d \in Calls : d # c => pc'[d] = pc[d]
        /\ pc'[c] = l
    <2>. engine' \in [Calls -> Routes] /\ \A d \in Calls : d # c => engine'[d] = engine[d]
      BY <1>1 DEF IInv, Types, TypeOK
    <2>. QED
      BY <1>1, <1>2, CallMoves DEF workVars, Active
  <1>4. pc \in [Calls -> Active \union {"idle", "queued", "dropped", "raised", "gone"}]
    BY DEF IInv, Types, TypeOK
  <1>5. Types' /\ SettledInOrder'
    BY <1>1, <1>3, OrderUntouched DEF IInv, Types, TypeOK, workVars
  <1>6. \A d \in Calls : pc[d] \in Critical => d = c
    BY <1>1 DEF IInv, LockHeld, Critical
  <1>7. LockHeld'
    BY <1>1, <1>3, <1>4, <1>6 DEF IInv, LockHeld, Critical
  <1>8. OneWorker'
    <2>1. CASE pc'[c] = "resolve"
      BY <1>1, <1>3, <2>1 DEF IInv, OneWorker, workVars
    <2>2. CASE pc'[c] # "resolve"
      <3>1. pc'[c] = "assign" /\ ~Alive
        BY <1>1, <1>4, <2>2
      <3>2. \A w \in Calls : worker[w] \in Resting
        BY <3>1, QueueAssumption DEF IInv, OneWorker, Alive, Resting
      <3>. QED
        BY <1>1, <1>3, <3>1, <3>2 DEF IInv, OneWorker, workVars
    <2>. QED
      BY <2>1, <2>2
  <1>. QED
    BY <1>3, <1>5, <1>7, <1>8 DEF IInv

\* Publishing another thread takes nothing out of a hand: no writer runs.
LEMMA AssignWorkerKeeps ==
    ASSUME IInv, NEW c \in Calls, AssignWorker(c)
    PROVE  IInv'
  <1>1. /\ pc[c] = "assign" /\ workerThread' = c /\ pc' = [pc EXCEPT ![c] = "start"]
        /\ UNCHANGED <<lock, engine, workVars, route, waiter, during>>
    BY DEF AssignWorker, Goto
  <1>2. /\ pc' \in [Calls -> Active \union {"idle", "queued", "dropped", "raised", "gone"}]
        /\ Routed' /\ Counted' /\ WaitsFor'
        /\ \A d \in Calls : d # c => pc'[d] = pc[d]
        /\ pc'[c] = "start"
    <2>. engine' \in [Calls -> Routes] /\ \A d \in Calls : d # c => engine'[d] = engine[d]
      BY <1>1 DEF IInv, Types, TypeOK
    <2>. QED
      BY <1>1, CallMoves DEF workVars, Active
  <1>3. \A w \in Calls : worker[w] \in Resting
    BY <1>1 DEF IInv, OneWorker
  <1>4. \A d \in Calls : pc[d] \in Critical => d = c
    BY <1>1 DEF IInv, LockHeld, Critical
  <1>5. Types'
    BY <1>1, <1>2 DEF IInv, Types, TypeOK, workVars
  <1>6. LockHeld' /\ OneWorker'
    BY <1>1, <1>2, <1>3, <1>4 DEF IInv, LockHeld, OneWorker, Critical, workVars
  <1>7. SettledInOrder'
    <2>1. InHand = <<>>
      BY <1>3, QueueAssumption DEF IInv, Types, TypeOK, InHand, Resting
    <2>2. InHand' = <<>>
      BY <1>1, <1>3 DEF InHand, workVars, Resting
    <2>. QED
      BY <1>1, <2>1, <2>2 DEF IInv, SettledInOrder, workVars
  <1>. QED
    BY <1>2, <1>5, <1>6, <1>7 DEF IInv

LEMMA StartWorkerKeeps ==
    ASSUME IInv, NEW c \in Calls, StartWorker(c)
    PROVE  IInv'
  <1>1. /\ pc[c] = "start" /\ lock' = Nobody
        /\ \/ worker' = [worker EXCEPT ![c] = "get"] /\ pc' = [pc EXCEPT ![c] = "resolve"]
           \/ worker' = worker /\ pc' = [pc EXCEPT ![c] = "raised"]
        /\ UNCHANGED <<workerThread, engine, item, queue, unfinished, stored, accepted,
                       settled, route, waiter, during>>
    BY DEF StartWorker, Goto
  <1>2. PICK l \in {"resolve", "raised"} : pc' = [pc EXCEPT ![c] = l]
    BY <1>1
  <1>3. /\ \A d \in Calls : d # c => pc'[d] = pc[d]
        /\ pc'[c] = l
        /\ pc' \in [Calls -> Active \union {"idle", "queued", "dropped", "raised", "gone"}]
    BY <1>2 DEF IInv, Types, TypeOK, Active
  <1>4. /\ \A w \in Calls : worker[w] \in Resting
        /\ workerThread = c
    BY <1>1 DEF IInv, OneWorker
  <1>5. \A w \in Calls : /\ worker'[w] \in {"unstarted", "get", "dead"}
                         /\ w # c => worker'[w] \in Resting
    BY <1>1, <1>4 DEF IInv, Types, TypeOK, Resting
  <1>6. \A d \in Calls : pc[d] \in Critical => d = c
    BY <1>1 DEF IInv, LockHeld, Critical
  <1>7. Types'
    BY <1>1, <1>3 DEF IInv, Types, TypeOK
  <1>8. LockHeld' /\ OneWorker'
    BY <1>1, <1>3, <1>4, <1>5, <1>6 DEF IInv, LockHeld, OneWorker, Critical
  <1>9. Routed'
    <2>1. \A d \in Calls : Resolved(d) => Resolved(d)'
      BY <1>1, <1>3 DEF Resolved
    <2>2. (\A d \in Calls : pc[d] \in Active => route \in during[d])'
      BY <1>1, <1>3 DEF IInv, Routed, Active
    <2>3. (\A d \in Calls : pc[d] = "put" => engine[d] \in during[d])'
      BY <1>1, <1>3 DEF IInv, Routed
    <2>4. (\A i \in 1..Len(queue) : Resolved(queue[i]))'
      BY <1>1, <2>1, ElementOfSeq DEF IInv, Types, TypeOK, Routed
    <2>5. (\A w \in Calls : worker[w] = "append" => item[w] \in Calls /\ Resolved(item[w]))'
      BY <1>5
    <2>6. (\A i \in 1..Len(stored) :
              pc[stored[i].call] = "queued" /\ stored[i].store \in during[stored[i].call])'
      BY <1>1, <1>3, StoredTypes DEF IInv, Routed
    <2>. QED
      BY <2>2, <2>3, <2>4, <2>5, <2>6 DEF Routed
  <1>10. Counted'
    <2>1. ~Working /\ ~Working'
      BY <1>4, <1>5 DEF Working, Resting
    <2>. QED
      BY <1>1, <2>1 DEF IInv, Counted
  <1>11. SettledInOrder'
    <2>1. InHand = <<>> /\ InHand' = <<>>
      BY <1>1, <1>4, <1>5 DEF InHand, Resting
    <2>. QED
      BY <1>1, <2>1 DEF IInv, SettledInOrder
  <1>12. WaitsFor'
    BY <1>1 DEF IInv, WaitsFor, JoinWaitsForAll
  <1>. QED
    BY <1>7, <1>8, <1>9, <1>10, <1>11, <1>12 DEF IInv

LEMMA ResolveKeeps ==
    ASSUME IInv, NEW c \in Calls, Resolve(c)
    PROVE  IInv'
  <1>1. /\ pc[c] = "resolve"
        /\ UNCHANGED <<lock, workerThread, workVars, route, waiter, during>>
    BY DEF Resolve
  <1>2. route \in Routes
    BY DEF IInv, Types, TypeOK
  <1>3. PICK l \in {"put", "raised"} :
            /\ pc' = [pc EXCEPT ![c] = l]
            /\ l = "put" => engine' = [engine EXCEPT ![c] = route]
            /\ l = "raised" => engine' = engine
    BY DEF Resolve, Goto
  <1>4. /\ engine' \in [Calls -> Routes] /\ \A d \in Calls : d # c => engine'[d] = engine[d]
        /\ l = "put" => engine'[c] = route
    BY <1>2, <1>3 DEF IInv, Types, TypeOK
  <1>5. /\ pc' \in [Calls -> Active \union {"idle", "queued", "dropped", "raised", "gone"}]
        /\ Routed' /\ Counted' /\ WaitsFor'
        /\ \A d \in Calls : d # c => pc'[d] = pc[d]
        /\ pc'[c] = l
    BY <1>1, <1>3, <1>4, CallMoves DEF workVars, Active
  <1>6. Types' /\ LockHeld' /\ OneWorker' /\ SettledInOrder'
    BY <1>1, <1>4, <1>5, OrderUntouched
    DEF IInv, Types, TypeOK, LockHeld, OneWorker, Critical, workVars
  <1>. QED
    BY <1>5, <1>6 DEF IInv

LEMMA PutKeeps ==
    ASSUME IInv, NEW c \in Calls, Put(c)
    PROVE  IInv'
  <1>1. /\ pc[c] = "put"
        /\ UNCHANGED <<lock, workerThread, engine, worker, item, stored, settled, route,
                       waiter, during>>
    BY DEF Put
  <1>2. /\ engine[c] \in during[c]
        /\ queue \in Seq(Calls) /\ accepted \in Seq(Calls) /\ settled \in Seq(Calls)
    BY <1>1 DEF IInv, Routed, Types, TypeOK
  <1>3. PICK l \in {"queued", "dropped", "raised"} :
            /\ pc' = [pc EXCEPT ![c] = l]
            /\ l = "queued" => /\ Len(queue) < Capacity
                               /\ queue' = Append(queue, c) /\ unfinished' = unfinished + 1
                               /\ accepted' = Append(accepted, c)
            /\ l # "queued" => UNCHANGED <<queue, unfinished, accepted>>
    BY DEF Put, Goto
  <1>4. /\ \A d \in Calls : d # c => pc'[d] = pc[d]
        /\ pc'[c] = l
        /\ pc' \in [Calls -> Active \union {"idle", "queued", "dropped", "raised", "gone"}]
    BY <1>3 DEF IInv, Types, TypeOK
  <1>5. \A d \in Calls : Resolved(d) => Resolved(d)'
    BY <1>1, <1>4 DEF Resolved
  <1>6. l = "queued" => Resolved(c)'
    BY <1>1, <1>2, <1>4 DEF Resolved
  <1>7. /\ queue' \in Seq(Calls) /\ accepted' \in Seq(Calls)
        /\ Len(queue') <= Capacity /\ unfinished' \in Nat
        /\ ToSet(accepted) \subseteq ToSet(accepted')
    <2>1. /\ Len(queue) \in Nat /\ Len(queue) <= Capacity /\ unfinished \in Nat
          /\ Capacity \in Nat
      BY <1>2, QueueAssumption, LenProperties DEF IInv, Types, TypeOK
    <2>2. CASE l = "queued"
      <3>1. Append(queue, c) \in Seq(Calls) /\ Len(Append(queue, c)) = Len(queue) + 1
        BY <1>2, AppendKeeps
      <3>2. Append(accepted, c) \in Seq(Calls)
        BY <1>2, AppendKeeps
      <3>3. ToSet(accepted) \subseteq ToSet(Append(accepted, c))
        <4>1. accepted \in Seq(Calls) /\ c \in Calls
          BY <1>2
        <4>. QED
          BY <4>1, CallSequences
      <3>4. /\ queue' = Append(queue, c) /\ accepted' = Append(accepted, c)
            /\ unfinished' = unfinished + 1 /\ Len(queue) < Capacity
        BY <1>3, <2>2
      <3>5. Len(queue') <= Capacity /\ unfinished' \in Nat
        BY <2>1, <3>1, <3>4
      <3>. QED
        BY <3>1, <3>2, <3>3, <3>4, <3>5
    <2>3. CASE l # "queued"
      BY <1>2, <1>3, <2>1, <2>3
    <2>. QED
      BY <2>2, <2>3
  <1>8. Types'
    BY <1>1, <1>4, <1>7 DEF IInv, Types, TypeOK
  <1>9. LockHeld' /\ OneWorker'
    BY <1>1, <1>4 DEF IInv, LockHeld, OneWorker, Critical
  <1>10. Routed'
    <2>1. (\A d \in Calls : pc[d] \in Active => route \in during[d])'
      BY <1>1, <1>4 DEF IInv, Routed, Active
    <2>2. (\A d \in Calls : pc[d] = "put" => engine[d] \in during[d])'
      BY <1>1, <1>4 DEF IInv, Routed
    <2>3. (\A i \in 1..Len(queue) : Resolved(queue[i]))'
      <3>1. \A i \in 1..Len(queue) : queue[i] \in Calls /\ Resolved(queue[i])
        BY <1>2, ElementOfSeq DEF IInv, Routed
      <3>2. CASE l = "queued"
        <4>1. /\ Len(queue') = Len(queue) + 1 /\ queue'[Len(queue) + 1] = c
              /\ \A i \in 1..Len(queue) : queue'[i] = queue[i]
              /\ Len(queue) \in Nat
          BY <1>2, <1>3, <3>2, AppendKeeps, LenProperties
        <4>. QED
          BY <1>5, <1>6, <3>1, <3>2, <4>1
      <3>3. CASE l # "queued"
        BY <1>3, <1>5, <3>1, <3>3
      <3>. QED
        BY <3>2, <3>3
    <2>4. (\A w \in Calls : worker[w] = "append" => item[w] \in Calls /\ Resolved(item[w]))'
      BY <1>1, <1>5 DEF IInv, Routed
    <2>5. (\A i \in 1..Len(stored) :
              pc[stored[i].call] = "queued" /\ stored[i].store \in during[stored[i].call])'
      BY <1>1, <1>4, StoredTypes DEF IInv, Routed
    <2>. QED
      BY <2>1, <2>2, <2>3, <2>4, <2>5 DEF Routed
  <1>11. Counted'
    <2>1. Working' <=> Working
      BY <1>1 DEF Working
    <2>2. l = "queued" => Len(queue') = Len(queue) + 1 /\ Len(queue) \in Nat
      BY <1>2, <1>3, AppendKeeps, LenProperties
    <2>. QED
      BY <1>3, <2>1, <2>2 DEF IInv, Counted
  <1>12. SettledInOrder'
    <2>1. InHand' = InHand
      BY <1>1 DEF InHand
    <2>2. InHand \in Seq(Calls)
      BY HandType
    <2>3. settled \o InHand \in Seq(Calls)
      <3>1. settled \in Seq(Calls)
        BY <1>2
      <3>. QED
        BY <2>2, <3>1, ConcatProperties
    <2>4. Append((settled \o InHand) \o queue, c) = (settled \o InHand) \o Append(queue, c)
      <3>1. queue \in Seq(Calls) /\ c \in Calls
        BY <1>2
      <3>. QED
        BY <2>3, <3>1, CallSequences
    <2>5. accepted = (settled \o InHand) \o queue
      BY DEF IInv, SettledInOrder
    <2>6. CASE l = "queued"
      BY <1>1, <1>3, <2>1, <2>4, <2>5, <2>6 DEF SettledInOrder
    <2>7. CASE l # "queued"
      BY <1>1, <1>3, <2>1, <2>5, <2>7 DEF SettledInOrder
    <2>. QED
      BY <2>6, <2>7
  <1>13. WaitsFor'
    BY <1>1, <1>7 DEF IInv, WaitsFor, JoinWaitsForAll
  <1>. QED
    BY <1>8, <1>9, <1>10, <1>11, <1>12, <1>13 DEF IInv

-----------------------------------------------------------------------------
\* The writer's own steps: it is the one thread that runs.
LEMMA GetKeeps ==
    ASSUME IInv, NEW w \in Calls, Get(w)
    PROVE  IInv'
  <1>1. /\ worker[w] = "get" /\ queue # <<>>
        /\ item' = [item EXCEPT ![w] = Head(queue)]
        /\ queue' = Tail(queue)
        /\ worker' = [worker EXCEPT ![w] = "append"]
        /\ UNCHANGED <<pc, lock, workerThread, engine, unfinished, stored, accepted,
                       settled, route, waiter, during>>
    BY DEF Get, callVars
  <1>2. queue \in Seq(Calls) /\ settled \in Seq(Calls)
    BY DEF IInv, Types, TypeOK
  <1>3. /\ Head(queue) \in Calls /\ queue' \in Seq(Calls)
        /\ Len(queue') = Len(queue) - 1 /\ Len(queue) \in Nat \ {0}
        /\ \A i \in 1..Len(queue') : queue'[i] = queue[i + 1]
        /\ Head(queue) = queue[1]
    BY <1>1, <1>2, HeadTailProperties, EmptySeq
  <1>4. workerThread = w /\ \A v \in Calls : v # w => worker[v] \in Resting
    BY <1>1 DEF IInv, OneWorker, Resting
  <1>5. /\ \A v \in Calls : v # w => worker'[v] = worker[v] /\ item'[v] = item[v]
        /\ worker'[w] = "append" /\ item'[w] = Head(queue)
    BY <1>1 DEF IInv, Types, TypeOK
  <1>6. Types'
    <2>1. worker' \in [Calls -> {"unstarted", "get", "append", "mark", "doom", "ending", "dead"}]
      BY <1>1 DEF IInv, Types, TypeOK
    <2>2. item' \in [Calls -> Calls \union {Nobody}]
      BY <1>1, <1>3 DEF IInv, Types, TypeOK
    <2>3. Len(queue') <= Capacity
      BY <1>3, QueueAssumption DEF IInv, Types, TypeOK
    <2>. QED
      BY <1>1, <1>3, <2>1, <2>2, <2>3 DEF IInv, Types, TypeOK
  <1>7. LockHeld' /\ OneWorker'
    BY <1>1, <1>4, <1>5 DEF IInv, LockHeld, OneWorker, Resting
  <1>8. Routed'
    <2>1. Resolved(Head(queue))
      BY <1>3 DEF IInv, Routed
    <2>2. (\A i \in 1..Len(queue) : Resolved(queue[i]))'
      <3>1. \A i \in 1..Len(queue') : i + 1 \in 1..Len(queue)
        BY <1>3
      <3>. QED
        BY <1>1, <1>3, <3>1 DEF IInv, Routed, Resolved
    <2>3. (\A v \in Calls : worker[v] = "append" => item[v] \in Calls /\ Resolved(item[v]))'
      BY <1>1, <1>3, <1>5, <2>1 DEF IInv, Routed, Resolved
    <2>. QED
      BY <1>1, <2>2, <2>3 DEF IInv, Routed
  <1>9. Counted'
    <2>1. ~Working /\ Working'
      BY <1>1, <1>4, <1>5 DEF Working, Resting
    <2>. QED
      BY <1>1, <1>3, <2>1 DEF IInv, Counted
  <1>10. SettledInOrder'
    <2>1. InHand = <<>> /\ InHand' = <<Head(queue)>>
      BY <1>1, <1>4, <1>5, QueueAssumption DEF InHand
    <2>. QED
      BY <1>1, <1>2, <2>1, HeadToHand DEF IInv, SettledInOrder
  <1>11. WaitsFor'
    BY <1>1 DEF IInv, WaitsFor, JoinWaitsForAll
  <1>. QED
    BY <1>6, <1>7, <1>8, <1>9, <1>10, <1>11 DEF IInv

LEMMA WriteKeeps ==
    ASSUME IInv, NEW w \in Calls, Write(w)
    PROVE  IInv'
  <1>. DEFINE row == [call |-> item[w], store |-> engine[item[w]]]
  <1>1. /\ worker[w] = "append"
        /\ stored' = Append(stored, row) \/ stored' = stored
        /\ settled' = Append(settled, item[w])
        /\ UNCHANGED <<pc, lock, workerThread, engine, item, queue, unfinished, accepted,
                       route, waiter, during>>
    BY DEF Write, callVars
  <1>. PICK l \in {"mark", "doom"} : worker' = [worker EXCEPT ![w] = l]
    BY DEF Write
  <1>2. queue \in Seq(Calls) /\ settled \in Seq(Calls)
    BY DEF IInv, Types, TypeOK
  <1>3. item[w] \in Calls /\ Resolved(item[w]) /\ engine[item[w]] \in Routes
    BY <1>1 DEF IInv, Routed, Types, TypeOK
  <1>4. workerThread = w /\ \A v \in Calls : v # w => worker[v] \in Resting
    BY <1>1 DEF IInv, OneWorker, Resting
  <1>5. /\ \A v \in Calls : v # w => worker'[v] = worker[v]
        /\ worker'[w] = l
        /\ worker' \in [Calls -> {"unstarted", "get", "append", "mark", "doom", "ending", "dead"}]
    BY <1>1 DEF IInv, Types, TypeOK
  <1>6. row \in [call : Calls, store : Routes] /\ row.call = item[w] /\ row.store = engine[item[w]]
    BY <1>3
  <1>. HIDE DEF row
  <1>7. settled' \in Seq(Calls) /\ ToSet(settled) \subseteq ToSet(settled')
    <2>1. /\ Append(settled, item[w]) \in Seq(Calls)
          /\ ToSet(settled) \subseteq ToSet(Append(settled, item[w]))
      BY <1>2, <1>3, AppendKeeps
    <2>. QED
      BY <1>1, <2>1
  <1>8. stored \in Seq([call : Calls, store : Routes])
    BY DEF IInv, Types
  <1>9. stored' \in Seq([call : Calls, store : Routes])
    <2>1. Append(stored, row) \in Seq([call : Calls, store : Routes])
      BY <1>6, <1>8, AppendKeeps
    <2>. QED
      BY <1>1, <1>8, <2>1
  <1>10. Types'
    BY <1>1, <1>5, <1>7, <1>9 DEF IInv, Types, TypeOK
  <1>11. LockHeld' /\ OneWorker'
    BY <1>1, <1>4, <1>5 DEF IInv, LockHeld, OneWorker, Resting
  <1>12. Routed'
    <2>1. (\A v \in Calls : worker[v] = "append" => item[v] \in Calls /\ Resolved(item[v]))'
      BY <1>4, <1>5 DEF Resting
    <2>2. (\A i \in 1..Len(stored) :
              pc[stored[i].call] = "queued" /\ stored[i].store \in during[stored[i].call])'
      <3>1. CASE stored' = stored
        BY <1>1, <3>1 DEF IInv, Routed
      <3>2. CASE stored' = Append(stored, row)
        <4>1. /\ Len(stored') = Len(stored) + 1 /\ stored'[Len(stored) + 1] = row
              /\ \A i \in 1..Len(stored) : stored'[i] = stored[i]
              /\ Len(stored) \in Nat
          BY <1>6, <1>8, <3>2, AppendKeeps, LenProperties
        <4>2. pc[row.call] = "queued" /\ row.store \in during[row.call]
          BY <1>3, <1>6 DEF Resolved
        <4>. QED
          BY <1>1, <4>1, <4>2 DEF IInv, Routed
      <3>. QED
        BY <1>1, <3>1, <3>2
    <2>. QED
      BY <1>1, <2>1, <2>2 DEF IInv, Routed, Resolved
  <1>13. Counted'
    <2>1. Working /\ Working'
      BY <1>1, <1>5 DEF Working
    <2>. QED
      BY <1>1, <2>1 DEF IInv, Counted
  <1>14. SettledInOrder'
    <2>1. InHand = <<item[w]>> /\ InHand' = <<>>
      BY <1>1, <1>4, <1>5, QueueAssumption DEF InHand
    <2>. QED
      BY <1>1, <1>2, <1>3, <2>1, HandToSettled DEF IInv, SettledInOrder
  <1>15. WaitsFor'
    BY <1>1, <1>7 DEF IInv, WaitsFor, JoinWaitsForAll
  <1>. QED
    BY <1>10, <1>11, <1>12, <1>13, <1>14, <1>15 DEF IInv

LEMMA TaskDoneKeeps ==
    ASSUME IInv, NEW w \in Calls, TaskDone(w)
    PROVE  IInv'
  <1>1. /\ worker[w] \in {"mark", "doom"} /\ unfinished' = unfinished - 1
        /\ item' = [item EXCEPT ![w] = Nobody]
        /\ UNCHANGED <<pc, lock, workerThread, engine, queue, stored, accepted, settled,
                       route, waiter, during>>
    BY DEF TaskDone, callVars
  <1>. PICK l \in {"get", "ending"} : worker' = [worker EXCEPT ![w] = l]
    BY DEF TaskDone
  <1>2. workerThread = w /\ \A v \in Calls : v # w => worker[v] \in Resting
    BY <1>1 DEF IInv, OneWorker, Resting
  <1>3. /\ \A v \in Calls : v # w => worker'[v] = worker[v]
        /\ worker'[w] = l
        /\ worker' \in [Calls -> {"unstarted", "get", "append", "mark", "doom", "ending", "dead"}]
    BY <1>1 DEF IInv, Types, TypeOK
  <1>4. Working /\ ~Working'
    BY <1>1, <1>2, <1>3 DEF Working, Resting
  <1>5. Len(queue) \in Nat /\ unfinished = Len(queue) + 1
    BY <1>4, LenProperties DEF IInv, Counted, Types, TypeOK
  <1>6. Types'
    <2>1. item' \in [Calls -> Calls \union {Nobody}]
      BY <1>1 DEF IInv, Types, TypeOK
    <2>. QED
      BY <1>1, <1>3, <1>5, <2>1 DEF IInv, Types, TypeOK
  <1>7. LockHeld' /\ OneWorker'
    BY <1>1, <1>2, <1>3 DEF IInv, LockHeld, OneWorker, Resting
  <1>8. Routed'
    BY <1>1, <1>2, <1>3 DEF IInv, Routed, Resolved, Resting
  <1>9. Counted'
    BY <1>1, <1>4, <1>5 DEF Counted
  <1>10. SettledInOrder'
    <2>1. InHand = <<>> /\ InHand' = <<>>
      BY <1>1, <1>2, <1>3, QueueAssumption DEF InHand
    <2>. QED
      BY <1>1, <2>1 DEF IInv, SettledInOrder
  <1>11. WaitsFor'
    BY <1>1 DEF IInv, WaitsFor, JoinWaitsForAll
  <1>. QED
    BY <1>6, <1>7, <1>8, <1>9, <1>10, <1>11 DEF IInv

LEMMA EndThreadKeeps ==
    ASSUME IInv, NEW w \in Calls, EndThread(w)
    PROVE  IInv'
  <1>1. /\ worker[w] = "ending" /\ worker' = [worker EXCEPT ![w] = "dead"]
        /\ UNCHANGED <<pc, lock, workerThread, engine, item, queue, unfinished, stored,
                       accepted, settled, route, waiter, during>>
    BY DEF EndThread, callVars
  <1>2. /\ \A v \in Calls : v # w => worker'[v] = worker[v]
        /\ worker'[w] = "dead"
        /\ worker' \in [Calls -> {"unstarted", "get", "append", "mark", "doom", "ending", "dead"}]
    BY <1>1 DEF IInv, Types, TypeOK
  <1>3. Types'
    BY <1>1, <1>2 DEF IInv, Types, TypeOK
  <1>4. LockHeld' /\ OneWorker'
    BY <1>1, <1>2 DEF IInv, LockHeld, OneWorker, Resting
  <1>5. Routed'
    BY <1>1, <1>2 DEF IInv, Routed, Resolved
  <1>6. Counted'
    <2>1. Working' <=> Working
      BY <1>1, <1>2 DEF Working
    <2>. QED
      BY <1>1, <2>1 DEF IInv, Counted
  <1>7. SettledInOrder'
    <2>1. InHand' = InHand
      BY <1>1, <1>2 DEF IInv, Types, TypeOK, InHand
    <2>. QED
      BY <1>1, <2>1 DEF IInv, SettledInOrder
  <1>8. WaitsFor'
    BY <1>1 DEF IInv, WaitsFor, JoinWaitsForAll
  <1>. QED
    BY <1>3, <1>4, <1>5, <1>6, <1>7, <1>8 DEF IInv

-----------------------------------------------------------------------------
\* What only the waits and the routing change.
LEMMA WaitKeeps ==
    ASSUME IInv, NEW w \in Waiters, Wait(w)
    PROVE  IInv'
  <1>1. /\ waiter' = [waiter EXCEPT ![w] =
                 [pc |-> "waiting", for |-> ToSet(accepted) \ ToSet(settled)]]
        /\ UNCHANGED <<pc, lock, workerThread, engine, worker, item, queue, unfinished,
                       stored, accepted, settled, route, during>>
    BY DEF Wait, callVars, workVars
  <1>2. ToSet(accepted) \subseteq Calls
    BY ToSetType DEF IInv, Types
  <1>3. Types'
    BY <1>1, <1>2 DEF IInv, Types, TypeOK
  <1>4. WaitsFor'
    <2>1. /\ \A v \in Waiters : v # w => waiter'[v] = waiter[v]
          /\ waiter'[w].pc = "waiting" /\ waiter'[w].for \subseteq ToSet(accepted)
      BY <1>1 DEF IInv, Types
    <2>. QED
      BY <1>1, <2>1 DEF IInv, WaitsFor, JoinWaitsForAll
  <1>5. LockHeld' /\ OneWorker' /\ Routed' /\ Counted'
    BY <1>1 DEF IInv, LockHeld, OneWorker, Routed, Resolved, Counted, Working
  <1>. QED
    BY <1>1, <1>3, <1>4, <1>5, OrderUntouched DEF IInv

\* A join that finds no unfinished task finds all that was accepted settled.
LEMMA JoinedKeeps ==
    ASSUME IInv, NEW w \in Waiters, Joined(w)
    PROVE  IInv'
  <1>1. /\ waiter[w].pc = "waiting" /\ unfinished = 0
        /\ waiter' = [waiter EXCEPT ![w].pc = "joined"]
        /\ UNCHANGED <<pc, lock, workerThread, engine, worker, item, queue, unfinished,
                       stored, accepted, settled, route, during>>
    BY DEF Joined, callVars, workVars
  <1>2. queue \in Seq(Calls) /\ settled \in Seq(Calls)
    BY DEF IInv, Types, TypeOK
  <1>3. ~Working /\ queue = <<>>
    <2>1. Len(queue) \in Nat
      BY <1>2, LenProperties
    <2>2. ~Working /\ Len(queue) = 0
      BY <1>1, <2>1 DEF IInv, Counted
    <2>. QED
      BY <1>2, <2>2, EmptySeq
  <1>4. accepted = settled
    <2>1. InHand = <<>>
      BY <1>3 DEF IInv, Types, TypeOK, InHand, Working
    <2>. QED
      BY <1>2, <1>3, <2>1, ConcatEmptySeq DEF IInv, SettledInOrder
  <1>5. Types'
    BY <1>1 DEF IInv, Types, TypeOK
  <1>6. WaitsFor'
    <2>1. /\ \A v \in Waiters : v # w => waiter'[v] = waiter[v]
          /\ waiter'[w].pc = "joined" /\ waiter'[w].for = waiter[w].for
      BY <1>1 DEF IInv, Types
    <2>2. waiter[w].for \subseteq ToSet(settled)
      BY <1>1, <1>4 DEF IInv, WaitsFor
    <2>. QED
      BY <1>1, <2>1, <2>2 DEF IInv, WaitsFor, JoinWaitsForAll
  <1>7. LockHeld' /\ OneWorker' /\ Routed' /\ Counted'
    BY <1>1 DEF IInv, LockHeld, OneWorker, Routed, Resolved, Counted, Working
  <1>. QED
    BY <1>1, <1>5, <1>6, <1>7, OrderUntouched DEF IInv

LEMMA SetRouteKeeps ==
    ASSUME IInv, SetRoute
    PROVE  IInv'
  <1>1. PICK r \in Routes \ {route} :
            /\ route' = r
            /\ during' = [c \in Calls |->
                             during[c] \union IF pc[c] \in Active THEN {r} ELSE {}]
    BY DEF SetRoute
  <1>2. UNCHANGED <<pc, lock, workerThread, engine, worker, item, queue, unfinished,
                    stored, accepted, settled, waiter>>
    BY DEF SetRoute, callVars, workVars
  <1>3. \A c \in Calls : during[c] \subseteq during'[c] /\ (pc[c] \in Active => r \in during'[c])
    BY <1>1
  <1>4. Types'
    BY <1>1, <1>2 DEF IInv, Types, TypeOK
  <1>5. Routed'
    <2>1. \A c \in Calls : Resolved(c) => Resolved(c)'
      BY <1>2, <1>3 DEF Resolved
    <2>2. (\A c \in Calls : pc[c] \in Active => route \in during[c])'
      BY <1>1, <1>2, <1>3
    <2>3. (\A c \in Calls : pc[c] = "put" => engine[c] \in during[c])'
      BY <1>2, <1>3 DEF IInv, Routed
    <2>4. (\A i \in 1..Len(queue) : Resolved(queue[i]))'
      BY <1>2, <2>1, ElementOfSeq DEF IInv, Types, TypeOK, Routed
    <2>5. (\A w \in Calls : worker[w] = "append" => item[w] \in Calls /\ Resolved(item[w]))'
      BY <1>2, <2>1 DEF IInv, Routed
    <2>6. (\A i \in 1..Len(stored) :
              pc[stored[i].call] = "queued" /\ stored[i].store \in during[stored[i].call])'
      BY <1>2, <1>3, StoredTypes DEF IInv, Routed
    <2>. QED
      BY <2>2, <2>3, <2>4, <2>5, <2>6 DEF Routed
  <1>6. LockHeld' /\ OneWorker' /\ Counted' /\ WaitsFor'
    BY <1>2 DEF IInv, LockHeld, OneWorker, Counted, Working, WaitsFor, JoinWaitsForAll
  <1>. QED
    BY <1>2, <1>4, <1>5, <1>6, OrderUntouched DEF IInv

\* The death of the process loses what was accepted and not settled, and the calls
\* and waits that could have told the difference.
LEMMA CrashKeeps ==
    ASSUME IInv, Crash
    PROVE  IInv'
  <1>. USE DEF Crash
  <1>1. /\ \A c \in Calls : pc'[c] = IF pc[c] \in Active THEN "gone" ELSE pc[c]
        /\ \A c \in Calls : worker'[c] = "unstarted"
        /\ \A w \in Waiters : waiter'[w] = IF waiter[w].pc = "waiting"
                                         THEN [pc |-> "gone", for |-> {}] ELSE waiter[w]
        /\ lock' = Nobody /\ workerThread' = Nobody
        /\ queue' = <<>> /\ unfinished' = 0 /\ accepted' = settled
        /\ UNCHANGED <<engine, stored, settled, route, during>>
    OBVIOUS
  <1>2. settled \in Seq(Calls)
    BY DEF IInv, Types
  <1>3. Types'
    <2>1. /\ queue' \in Seq(Calls) /\ Len(queue') = 0 /\ unfinished' \in Nat
          /\ accepted' \in Seq(Calls)
      BY <1>1, <1>2, EmptySeq
    <2>2. waiter' \in [Waiters -> [pc : {"idle", "waiting", "joined", "gone"},
                                  for : SUBSET Calls]]
      BY DEF IInv, Types
    <2>3. pc' \in [Calls -> Active \union {"idle", "queued", "dropped", "raised", "gone"}]
      BY DEF IInv, Types, TypeOK
    <2>. QED
      BY <1>1, <2>1, <2>2, <2>3, QueueAssumption DEF IInv, Types, TypeOK
  <1>4. LockHeld' /\ OneWorker'
    BY <1>1 DEF LockHeld, OneWorker, Critical, Active, Resting
  <1>5. Routed'
    <2>1. \A c \in Calls : pc'[c] \notin Active /\ pc'[c] # "put"
      BY <1>1 DEF Active
    <2>2. (\A i \in 1..Len(stored) :
              pc[stored[i].call] = "queued" /\ stored[i].store \in during[stored[i].call])'
      BY <1>1, StoredTypes DEF IInv, Routed, Active
    <2>. QED
      BY <1>1, <2>1, <2>2 DEF Routed
  <1>6. Counted'
    BY <1>1 DEF Counted, Working
  <1>7. SettledInOrder'
    BY <1>1, <1>2, ConcatEmptySeq DEF SettledInOrder, InHand
  <1>8. WaitsFor'
    BY <1>1 DEF IInv, WaitsFor, JoinWaitsForAll
  <1>. QED
    BY <1>3, <1>4, <1>5, <1>6, <1>7, <1>8 DEF IInv

LEMMA NextKeepsIInv == IInv /\ [Next]_vars => IInv'
  <1>. SUFFICES ASSUME IInv, [Next]_vars PROVE IInv'
    OBVIOUS
  <1>1. CASE UNCHANGED vars
    <2>. USE <1>1 DEF vars, callVars, workVars
    <2>1. Types' /\ LockHeld' /\ OneWorker'
      BY DEF IInv, Types, TypeOK, LockHeld, OneWorker
    <2>2. Routed' /\ Counted' /\ WaitsFor'
      BY DEF IInv, Routed, Resolved, Counted, Working, WaitsFor, JoinWaitsForAll
    <2>. QED
      BY <2>1, <2>2, OrderUntouched DEF IInv
  <1>2. ASSUME NEW c \in Calls, Enqueue(c) \/ CallStep(c) PROVE IInv'
    BY <1>2, EnqueueKeeps, CheckWorkerKeeps, AcquireLockKeeps, RecheckWorkerKeeps,
       AssignWorkerKeeps, StartWorkerKeeps, ResolveKeeps, PutKeeps DEF CallStep
  <1>3. ASSUME NEW w \in Calls, WorkerStep(w) PROVE IInv'
    BY <1>3, GetKeeps, WriteKeeps, TaskDoneKeeps, EndThreadKeeps DEF WorkerStep
  <1>4. ASSUME NEW w \in Waiters, Wait(w) \/ Joined(w) PROVE IInv'
    BY <1>4, WaitKeeps, JoinedKeeps
  <1>. QED
    BY <1>1, <1>2, <1>3, <1>4, SetRouteKeeps, CrashKeeps DEF Next

\* The strengthening holds of every run of the code.
THEOREM IInvAlways == Spec => []IInv
  BY InitIInv, NextKeepsIInv, PTL DEF Spec

-----------------------------------------------------------------------------
\* Commits are settled in the order they were accepted, none twice and none skipped,
\* each in a store routed to while it was enqueued, and a wait that has returned
\* has seen all accepted before it settled; however many callers race to start the
\* writer, whatever the queue's size, the routing and the deaths of the process.
THEOREM QueueInvAlways == Spec => []QueueInv
  <1>1. IInv => QueueInv
    BY DEF IInv, QueueInv, Types, Routed, WaitsFor, StoredWhereRouted
  <1>. QED
    BY <1>1, IInvAlways, PTL

\* The double-checked locking lets one writer thread run at a time.
OneWriter ==
    \A v, w \in Calls : worker[v] \notin Resting /\ worker[w] \notin Resting => v = w

\* No two callers' threads ever run at once, whatever they interleave with, also when
\* a writer ends in a failing warning and another takes its place.
THEOREM OneWriterAlways == Spec => []OneWriter
  <1>1. IInv => OneWriter
    BY DEF IInv, OneWorker, OneWriter
  <1>. QED
    BY <1>1, IInvAlways, PTL

-----------------------------------------------------------------------------
\* The refinement: every step of the threads is one of the spool, or none.
ViewUnchanged == UNCHANGED <<TheLog, InHand \o queue, TheAnswer>>

\* What is told changes with the calls' places only.
LEMMA AnswerOfStep ==
    ASSUME IInv, NEW c \in Calls, NEW l, pc' = [pc EXCEPT ![c] = l]
    PROVE  TheAnswer' = [TheAnswer EXCEPT ![c] =
               IF l = "idle" THEN "none" ELSE IF l \in Active THEN "running" ELSE l]
  BY DEF IInv, Types, TypeOK, TheAnswer

LEMMA AnswerUntouched ==
    ASSUME IInv, NEW c \in Calls, NEW l \in Active, pc[c] \in Active, pc' = [pc EXCEPT ![c] = l]
    PROVE  TheAnswer' = TheAnswer
  BY DEF IInv, Types, TypeOK, TheAnswer, Active

LEMMA SpoolUntouched ==
    ASSUME UNCHANGED <<stored, worker, item, queue, workerThread>>
    PROVE  TheLog' = TheLog /\ (InHand \o queue)' = InHand \o queue
  BY DEF TheLog, InHand

LEMMA CallStepMaps ==
    ASSUME IInv, NEW c \in Calls, Enqueue(c) \/ CallStep(c)
    PROVE  Abstract!Next \/ ViewUnchanged
  <1>1. CASE Enqueue(c)
    <2>1. /\ pc[c] = "idle" /\ pc' = [pc EXCEPT ![c] = "check"]
          /\ UNCHANGED <<stored, worker, item, queue, workerThread>>
      BY <1>1 DEF Enqueue, Goto, workVars
    <2>2. TheAnswer' = [TheAnswer EXCEPT ![c] = "running"] /\ TheAnswer[c] = "none"
      BY <2>1 DEF IInv, Types, TypeOK, TheAnswer, Active
    <2>3. Abstract!Start(c)
      BY <2>1, <2>2, SpoolUntouched DEF Abstract!Start, Abstract!Tell
    <2>. QED
      BY <2>3 DEF Abstract!Next
  <1>2. CASE CheckWorker(c) \/ AcquireLock(c) \/ RecheckWorker(c)
    <2>1. PICK l \in Active : pc[c] \in Active /\ pc' = [pc EXCEPT ![c] = l]
      BY <1>2 DEF CheckWorker, AcquireLock, RecheckWorker, Goto, Active
    <2>2. UNCHANGED <<stored, worker, item, queue, workerThread>>
      BY <1>2 DEF CheckWorker, AcquireLock, RecheckWorker, workVars
    <2>. QED
      BY <2>1, <2>2, AnswerUntouched, SpoolUntouched DEF ViewUnchanged
  <1>3. CASE AssignWorker(c)
    <2>1. /\ pc[c] = "assign" /\ pc' = [pc EXCEPT ![c] = "start"] /\ workerThread' = c
          /\ UNCHANGED <<stored, worker, item, queue>>
      BY <1>3 DEF AssignWorker, Goto, workVars
    <2>2. \A w \in Calls : worker[w] \in Resting
      BY <2>1 DEF IInv, OneWorker
    <2>3. InHand = <<>> /\ InHand' = <<>>
      BY <2>1, <2>2 DEF IInv, Types, TypeOK, InHand, Resting
    <2>4. TheAnswer' = TheAnswer
      BY <2>1, AnswerUntouched DEF Active
    <2>. QED
      BY <2>1, <2>3, <2>4 DEF ViewUnchanged, TheLog
  <1>4. CASE StartWorker(c)
    <2>1. /\ pc[c] = "start"
          /\ \/ worker' = [worker EXCEPT ![c] = "get"] /\ pc' = [pc EXCEPT ![c] = "resolve"]
             \/ worker' = worker /\ pc' = [pc EXCEPT ![c] = "raised"]
          /\ UNCHANGED <<stored, item, queue, workerThread>>
      BY <1>4 DEF StartWorker, Goto
    <2>2. workerThread = c /\ worker[c] \in Resting
      BY <2>1 DEF IInv, OneWorker
    <2>3. worker'[c] # "append"
      BY <2>1, <2>2 DEF IInv, Types, TypeOK, Resting
    <2>4. InHand = <<>> /\ InHand' = <<>>
      BY <2>1, <2>2, <2>3 DEF InHand, Resting
    <2>5. CASE pc' = [pc EXCEPT ![c] = "resolve"]
      BY <2>1, <2>4, <2>5, AnswerUntouched DEF ViewUnchanged, TheLog, Active
    <2>6. CASE pc' = [pc EXCEPT ![c] = "raised"]
      <3>1. TheAnswer' = [TheAnswer EXCEPT ![c] = "raised"] /\ TheAnswer[c] = "running"
        BY <2>1, <2>6 DEF IInv, Types, TypeOK, TheAnswer, Active
      <3>2. Abstract!Raise(c)
        BY <2>1, <2>4, <3>1 DEF Abstract!Raise, Abstract!Tell, TheLog
      <3>. QED
        BY <3>2 DEF Abstract!Next
    <2>. QED
      BY <2>1, <2>5, <2>6
  <1>5. CASE Resolve(c)
    <2>1. /\ pc[c] = "resolve"
          /\ pc' = [pc EXCEPT ![c] = "put"] \/ pc' = [pc EXCEPT ![c] = "raised"]
          /\ UNCHANGED <<stored, worker, item, queue, workerThread>>
      BY <1>5 DEF Resolve, Goto, workVars
    <2>2. CASE pc' = [pc EXCEPT ![c] = "put"]
      BY <2>1, <2>2, AnswerUntouched, SpoolUntouched DEF ViewUnchanged, Active
    <2>3. CASE pc' = [pc EXCEPT ![c] = "raised"]
      <3>1. TheAnswer' = [TheAnswer EXCEPT ![c] = "raised"] /\ TheAnswer[c] = "running"
        BY <2>1, <2>3 DEF IInv, Types, TypeOK, TheAnswer, Active
      <3>2. Abstract!Raise(c)
        BY <2>1, <3>1, SpoolUntouched DEF Abstract!Raise, Abstract!Tell
      <3>. QED
        BY <3>2 DEF Abstract!Next
    <2>. QED
      BY <2>1, <2>2, <2>3
  <1>6. CASE Put(c)
    <2>1. pc[c] = "put" /\ UNCHANGED <<stored, worker, item, workerThread>>
      BY <1>6 DEF Put
    <2>2. TheLog' = TheLog /\ InHand' = InHand
      BY <2>1 DEF TheLog, InHand
    <2>3. /\ InHand \in Seq(Calls) /\ queue \in Seq(Calls)
          /\ Len(InHand) \in {0, 1} /\ Len(queue) \in Nat /\ Capacity \in Nat
      BY HandType, QueueAssumption, LenProperties DEF IInv, Types, TypeOK
    <2>4. Len(InHand \o queue) = Len(InHand) + Len(queue)
      BY <2>3, ConcatProperties
    <2>5. TheAnswer[c] = "running"
      BY <2>1 DEF TheAnswer, Active
    <2>6. CASE Len(queue) < Capacity
      <3>1. queue' = Append(queue, c) /\ pc' = [pc EXCEPT ![c] = "queued"]
        BY <1>6, <2>6 DEF Put, Goto
      <3>2. (InHand \o queue)' = Append(InHand \o queue, c)
        <4>1. Append(InHand \o queue, c) = InHand \o Append(queue, c)
          BY <2>3, CallSequences
        <4>. QED
          BY <2>2, <3>1, <4>1
      <3>3. TheAnswer' = [TheAnswer EXCEPT ![c] = "queued"]
        BY <3>1, AnswerOfStep DEF Active
      <3>4. Abstract!Accept(c)
        <4>1. Len(InHand \o queue) <= Capacity
          <5>. DEFINE a == Len(InHand)
                      b == Len(queue)
          <5>1. a \in {0, 1} /\ b \in Nat /\ Capacity \in Nat /\ b < Capacity
            BY <2>3, <2>6
          <5>. HIDE DEF a, b
          <5>2. a + b <= Capacity
            BY <5>1
          <5>. QED
            BY <2>4, <5>2 DEF a, b
        <4>. QED
          BY <2>2, <2>5, <3>2, <3>3, <4>1 DEF Abstract!Accept, Abstract!Tell
      <3>. QED
        BY <3>4 DEF Abstract!Next
    <2>7. CASE ~(Len(queue) < Capacity)
      <3>1. queue' = queue
        BY <1>6, <2>7 DEF Put
      <3>2. CASE pc' = [pc EXCEPT ![c] = "dropped"]
        <4>1. TheAnswer' = [TheAnswer EXCEPT ![c] = "dropped"]
          BY <3>2, AnswerOfStep DEF Active
        <4>2. Abstract!Drop(c)
          BY <2>2, <2>3, <2>4, <2>5, <2>7, <3>1, <4>1 DEF Abstract!Drop, Abstract!Tell
        <4>. QED
          BY <4>2 DEF Abstract!Next
      <3>3. CASE pc' = [pc EXCEPT ![c] = "raised"]
        <4>1. TheAnswer' = [TheAnswer EXCEPT ![c] = "raised"]
          BY <3>3, AnswerOfStep DEF Active
        <4>2. Abstract!Raise(c)
          BY <2>2, <2>5, <3>1, <4>1 DEF Abstract!Raise, Abstract!Tell
        <4>. QED
          BY <4>2 DEF Abstract!Next
      <3>. QED
        BY <1>6, <2>7, <3>2, <3>3 DEF Put, Goto
    <2>. QED
      BY <2>6, <2>7
  <1>. QED
    BY <1>1, <1>2, <1>3, <1>4, <1>5, <1>6 DEF CallStep

LEMMA WorkerStepMaps ==
    ASSUME IInv, NEW w \in Calls, WorkerStep(w)
    PROVE  Abstract!Next \/ ViewUnchanged
  <1>1. pc' = pc /\ workerThread' = workerThread /\ TheAnswer' = TheAnswer
    BY DEF WorkerStep, Get, Write, TaskDone, EndThread, callVars, TheAnswer
  <1>2. workerThread = w /\ workerThread # Nobody
    BY QueueAssumption DEF IInv, OneWorker, Resting, WorkerStep, Get, Write, TaskDone, EndThread
  <1>3. queue \in Seq(Calls)
    BY DEF IInv, Types, TypeOK
  <1>4. CASE Get(w)
    <2>1. /\ worker[w] = "get" /\ queue # <<>> /\ queue' = Tail(queue) /\ stored' = stored
          /\ worker'[w] = "append" /\ item'[w] = Head(queue)
      BY <1>4 DEF Get, IInv, Types, TypeOK
    <2>2. InHand = <<>> /\ InHand' = <<Head(queue)>>
      BY <1>1, <1>2, <2>1 DEF InHand
    <2>3. (<<>> \o <<>>) \o queue = (<<>> \o <<Head(queue)>>) \o Tail(queue)
      BY <1>3, <2>1, HeadToHand, EmptySeq
    <2>4. Head(queue) \in Calls
      BY <1>3, <2>1, HeadTailProperties
    <2>5. InHand \o queue = (InHand \o queue)'
      BY <1>3, <2>1, <2>2, <2>3, <2>4, ConcatEmptySeq, EmptySeq
    <2>. QED
      BY <1>1, <2>1, <2>5 DEF ViewUnchanged, TheLog
  <1>5. CASE Write(w)
    <2>. DEFINE row == [call |-> item[w], store |-> engine[item[w]]]
    <2>1. /\ worker[w] = "append" /\ worker'[w] \in {"mark", "doom"} /\ queue' = queue
          /\ stored' = Append(stored, row) \/ stored' = stored
      BY <1>5 DEF Write, IInv, Types, TypeOK
    <2>2. item[w] \in Calls /\ row \in [call : Calls, store : Routes]
      BY <2>1 DEF IInv, Routed, Types, TypeOK
    <2>3. InHand = <<item[w]>> /\ InHand' = <<>>
      BY <1>1, <1>2, <2>1 DEF InHand
    <2>4. InHand \o queue # <<>> /\ Head(InHand \o queue) = item[w]
      <3>1. InHand \in Seq(Calls) /\ Len(InHand) = 1 /\ InHand[1] = item[w]
        BY <2>2, <2>3
      <3>2. /\ Len(InHand \o queue) = 1 + Len(queue) /\ (InHand \o queue)[1] = item[w]
            /\ InHand \o queue \in Seq(Calls)
        BY <1>3, <3>1, CallSequences
      <3>. DEFINE sp == InHand \o queue
      <3>3. sp \in Seq(Calls) /\ Len(sp) > 0 /\ sp[1] = item[w]
        BY <1>3, <3>2, LenProperties
      <3>. HIDE DEF sp
      <3>4. sp # <<>> /\ Head(sp) = item[w]
        BY <3>3, EmptySeq
      <3>. QED
        BY <3>4 DEF sp
    <2>5. Tail(InHand \o queue) = (InHand \o queue)'
      <3>1. Tail(<<item[w]>> \o queue) = queue
        BY <1>3, <2>2, HeadTailAppend
      <3>. QED
        BY <1>3, <2>1, <2>3, <3>1, ConcatEmptySeq
    <2>6. TheLog' = Append(TheLog, item[w]) \/ TheLog' = TheLog
      <3>1. CASE stored' = stored
        BY <3>1 DEF TheLog
      <3>2. CASE stored' = Append(stored, row)
        <4>1. stored \in Seq([call : Calls, store : Routes])
          BY DEF IInv, Types
        <4>2. /\ DOMAIN stored = 1..Len(stored) /\ Len(stored) \in Nat
              /\ DOMAIN stored' = 1..(Len(stored) + 1)
              /\ \A i \in 1..Len(stored) : stored'[i] = stored[i]
              /\ stored'[Len(stored) + 1] = row
          BY <2>2, <3>2, <4>1, AppendKeeps, LenProperties
        <4>3. \A i \in 1..Len(stored) : stored[i].call \in Calls
          BY StoredTypes
        <4>4. TheLog \in Seq(Calls) /\ Len(TheLog) = Len(stored)
          BY <4>2, <4>3 DEF TheLog
        <4>5. TheLog' = [i \in 1..(Len(stored) + 1) |-> stored'[i].call]
          BY <4>2 DEF TheLog
        <4>6. \A i \in 1..Len(stored) : TheLog[i] = stored[i].call
          BY <4>2 DEF TheLog
        <4>7. TheLog' \in Seq(Calls) /\ Len(TheLog') = Len(stored) + 1
          BY <2>2, <4>2, <4>3, <4>5
        <4>8. /\ Append(TheLog, item[w]) \in Seq(Calls)
              /\ Len(Append(TheLog, item[w])) = Len(stored) + 1
              /\ \A i \in 1..Len(stored) : Append(TheLog, item[w])[i] = TheLog[i]
              /\ Append(TheLog, item[w])[Len(stored) + 1] = item[w]
          BY <2>2, <4>4, AppendKeeps
        <4>9. \A i \in 1..(Len(stored) + 1) : TheLog'[i] = Append(TheLog, item[w])[i]
          BY <4>2, <4>5, <4>6, <4>8
        <4>. QED
          BY <4>7, <4>8, <4>9, SeqEqual
      <3>. QED
        BY <2>1, <3>1, <3>2
    <2>7. Abstract!Settle
      BY <1>1, <2>4, <2>5, <2>6 DEF Abstract!Settle
    <2>. QED
      BY <2>7 DEF Abstract!Next
  <1>6. CASE TaskDone(w) \/ EndThread(w)
    <2>1. /\ worker[w] # "append" /\ worker'[w] # "append"
          /\ queue' = queue /\ stored' = stored
      BY <1>6 DEF TaskDone, EndThread, IInv, Types, TypeOK
    <2>2. InHand = <<>> /\ InHand' = <<>>
      BY <1>1, <1>2, <2>1 DEF InHand
    <2>. QED
      BY <1>1, <2>1, <2>2 DEF ViewUnchanged, TheLog
  <1>. QED
    BY <1>4, <1>5, <1>6 DEF WorkerStep

LEMMA CrashMaps ==
    ASSUME IInv, Crash
    PROVE  Abstract!Next
  <1>. USE DEF Crash
  <1>1. TheLog' = TheLog
    BY DEF TheLog
  <1>2. (InHand \o queue)' = <<>>
    BY ConcatEmptySeq, EmptySeq DEF InHand
  <1>3. TheAnswer' = [c \in Calls |-> IF TheAnswer[c] = "running" THEN "gone" ELSE TheAnswer[c]]
    BY DEF IInv, Types, TypeOK, TheAnswer, Active
  <1>4. Abstract!Die
    BY <1>1, <1>2, <1>3 DEF Abstract!Die
  <1>. QED
    BY <1>4 DEF Abstract!Next

\* Callers see an ordered bounded spool, whatever the threads do between: a commit is
\* taken at once or dropped when the spool is full, and goes to the log, in the
\* order of the calls, once or not at all.  That none stays is ImplementsSpool's,
\* and needs fairness.
THEOREM Refinement == Spec => Abstract!Spec
  <1>1. Init => Abstract!Init
    <2>. SUFFICES ASSUME Init PROVE Abstract!Init
      OBVIOUS
    <2>1. TheLog = <<>> /\ InHand \o queue = <<>>
      BY ConcatEmptySeq, EmptySeq DEF Init, TheLog, InHand
    <2>2. TheAnswer = [c \in Calls |-> "none"]
      BY DEF Init, TheAnswer
    <2>. QED
      BY <2>1, <2>2 DEF Abstract!Init
  <1>2. IInv /\ [Next]_vars => [Abstract!Next]_(Abstract!spoolVars)
    <2>. SUFFICES ASSUME IInv, [Next]_vars PROVE Abstract!Next \/ ViewUnchanged
      BY DEF ViewUnchanged, Abstract!spoolVars
    <2>1. CASE UNCHANGED vars
      BY <2>1, SpoolUntouched DEF vars, callVars, workVars, ViewUnchanged, TheAnswer
    <2>2. ASSUME NEW w \in Waiters, Wait(w) \/ Joined(w) PROVE ViewUnchanged
      BY <2>2, SpoolUntouched DEF Wait, Joined, callVars, workVars, ViewUnchanged, TheAnswer
    <2>3. ASSUME SetRoute PROVE ViewUnchanged
      BY <2>3, SpoolUntouched DEF SetRoute, callVars, workVars, ViewUnchanged, TheAnswer
    <2>. QED
      BY <2>1, <2>2, <2>3, CallStepMaps, WorkerStepMaps, CrashMaps DEF Next
  <1>. QED
    BY <1>1, <1>2, IInvAlways, PTL DEF Spec, Abstract!Spec

-----------------------------------------------------------------------------
\* Rotation.  The inductive invariant follows each record that was moved out of the
\* log: how far on its backup is (Ranked), against the rollovers since (Age).
Places == {"idle", "shift", "clear", "rename", "compress", "copy", "remove", "expire",
           "open"}

\* Before the rollover has the backup of its name.
Before == {"shift", "clear", "rename", "compress"}

\* The clock, the time trigger and the log file, which is younger than every name
\* that the time handlers have given.
LogShape ==
    \/ logFile = Missing
    \/ /\ logFile = [exists |-> TRUE, records |-> logFile.records, mtime |-> logFile.mtime]
       /\ logFile.records \in Seq(1..written) /\ logFile.mtime \in rolloverAt - 1..clock

Timed ==
    /\ config \in Configs
    /\ clock \in 1..MaxClock /\ rolloverAt \in 2..clock + 1
    /\ {written, attempts, failures, reopens} \subseteq Nat
    /\ LogShape

Names == IF Numbers THEN 1..BackupCount ELSE 1..rolloverAt - 1

BackupsShape ==
    /\ backups = [n \in DOMAIN backups |-> backups[n]] /\ DOMAIN backups \subseteq Names
    /\ \A n \in DOMAIN backups : backups[n] \in Seq(1..written)

RollShape ==
    /\ roll = [pc |-> roll.pc, record |-> roll.record, name |-> roll.name,
               shift |-> roll.shift, now |-> roll.now]
    /\ roll.pc \in Places
    /\ roll.pc = "idle" => roll.record = 0
    /\ roll.pc # "idle" => /\ roll.record \in 1..written
                           /\ roll.name = IF Numbers THEN 1 ELSE rolloverAt - 1
                           /\ roll.now \in rolloverAt - 1..clock
    /\ roll.pc = "shift" => Numbers /\ roll.shift \in 0..BackupCount - 1
    /\ roll.pc = "clear" /\ Numbers => roll.shift = 0
    /\ roll.pc \in {"compress", "copy", "remove"} => config.gz
    /\ roll.pc = "rename" => ~config.gz

\* What the rollover has done so far: made room for the name it takes, truncated
\* the archive, copied the log into it.
RollConsistent ==
    /\ Numbers /\ ~config.gz /\ roll.pc \in {"shift", "clear"}
          /\ roll.shift < BackupCount - 1 => roll.shift + 1 \notin DOMAIN backups
    /\ roll.pc = "rename" => roll.name \notin DOMAIN backups
    /\ roll.pc = "copy" => roll.name \in DOMAIN backups /\ backups[roll.name] = <<>>
    /\ roll.pc = "remove" =>
          roll.name \in DOMAIN backups /\ backups[roll.name] = logFile.records
    /\ roll.pc \in {"copy", "remove"} => logFile # Missing
    /\ roll.pc \in {"expire", "open"} => logFile = Missing
    /\ roll.pc = "idle" /\ logFile = Missing => failures > 0
    /\ roll.pc \in Before /\ logFile = Missing => failures > 0 /\ config.time

HistoryShape ==
    /\ dropped \subseteq 1..written /\ DOMAIN movedAt \subseteq 1..written
    /\ movedAt = [r \in DOMAIN movedAt |-> movedAt[r]]
    /\ \A r \in DOMAIN movedAt : movedAt[r] \in 0..attempts

Age(r) == attempts - movedAt[r]
Above(n) == {k \in DOMAIN backups : k > n}

\* The backup n is no further on than r is old.
Ranked(n, r) ==
    IF Numbers
    THEN config.gz \/ n <= IF roll.pc \in {"shift", "clear"} /\ n <= roll.shift + 1
                           THEN Age(r) ELSE Age(r) + 1
    ELSE Cardinality(Above(n)) + (IF roll.pc \in Before THEN 1 ELSE 0) <= Age(r)

Placed(r) == \E n \in DOMAIN backups : r \in ToSet(backups[n]) /\ Ranked(n, r)

\* A record that has been moved is in the log again or in a backup, unless it had
\* its time or its backup's name was used again.
Safe(r) ==
    \/ r \in reused \/ r \in ToSet(logFile.records)
    \/ Age(r) >= BackupCount
    \/ Placed(r)

\* Beside the backups of the finished rollovers, one of the one under way.
BackupsCounted ==
    Expiring => Cardinality(DOMAIN backups)
                   <= BackupCount + failures + reopens
                         + IF roll.pc \in {"copy", "remove", "expire"} THEN 1 ELSE 0

RotationIInv ==
    /\ Timed /\ BackupsShape /\ RollShape /\ RollConsistent /\ HistoryShape
    /\ \A r \in DOMAIN movedAt : Safe(r)
    /\ UnmovedIsLive /\ FailureCostsOneRecord /\ BackupsCounted

-----------------------------------------------------------------------------
\* Records of a file.
LEMMA ToSetAppend ==
    ASSUME NEW S, NEW s \in Seq(S), NEW e \in S
    PROVE  /\ Append(s, e) \in Seq(S) /\ Len(Append(s, e)) = Len(s) + 1
           /\ ToSet(Append(s, e)) = ToSet(s) \union {e}
  <1>1. /\ Append(s, e) \in Seq(S) /\ Len(Append(s, e)) = Len(s) + 1
        /\ \A i \in 1..Len(s) : Append(s, e)[i] = s[i]
        /\ Append(s, e)[Len(s) + 1] = e
    BY AppendProperties
  <1>2. DOMAIN s = 1..Len(s) /\ DOMAIN Append(s, e) = 1..(Len(s) + 1) /\ Len(s) \in Nat
    BY <1>1, LenProperties
  <1>3. \A i \in 1..(Len(s) + 1) : i \in 1..Len(s) \/ i = Len(s) + 1
    BY <1>2
  <1>. QED
    BY <1>1, <1>2, <1>3 DEF ToSet

\* The records of a file are numbers of records, finitely many.
LEMMA RecordsOf ==
    ASSUME NEW S, NEW s \in Seq(S)
    PROVE  ToSet(s) \subseteq S /\ Len(s) \in Nat
  BY LenProperties, ElementOfSeq DEF ToSet

\* An empty file has none.
LEMMA NoRecords == ToSet(<<>>) = {} /\ Len(<<>>) = 0 /\ \A S : <<>> \in Seq(S)
  BY DEF ToSet

\* A file of records is one of more records.
LEMMA MoreRecords ==
    ASSUME NEW w \in Nat, NEW s \in Seq(1..w)
    PROVE  s \in Seq(1..w + 1)
  <1>1. 1..w \subseteq 1..w + 1
    OBVIOUS
  <1>. QED
    BY <1>1

\* The log file, and the one that a handler has open.
LEMMA LogFile ==
    ASSUME LogShape, written \in Nat
    PROVE  /\ logFile.exists <=> logFile # Missing
           /\ logFile.records \in Seq(1..written) /\ ToSet(logFile.records) \subseteq 1..written
           /\ Len(logFile.records) \in Nat
           /\ Missing.records = <<>>
  <1>1. Missing.records = <<>> /\ Missing.exists = FALSE
    BY DEF Missing
  <1>2. CASE logFile = Missing
    BY <1>1, <1>2, NoRecords
  <1>3. CASE /\ logFile = [exists |-> TRUE, records |-> logFile.records,
                           mtime |-> logFile.mtime]
             /\ logFile.records \in Seq(1..written)
    <2>1. logFile.exists = TRUE
      BY <1>3
    <2>2. logFile # Missing
      BY <1>1, <2>1
    <2>. QED
      BY <1>1, <1>3, <2>1, <2>2, RecordsOf
  <1>. QED
    BY <1>2, <1>3 DEF LogShape

\* The file that a handler has open is the log, or a new and empty one.
LEMMA OpenedFile ==
    ASSUME LogShape, written \in Nat, clock \in Nat, rolloverAt \in 2..clock + 1
    PROVE  /\ Opened = [exists |-> TRUE, records |-> Opened.records, mtime |-> Opened.mtime]
           /\ Opened.records = logFile.records
           /\ Opened.mtime \in rolloverAt - 1..clock
           /\ Opened # Missing
           /\ logFile # Missing => Opened = logFile
  <1>1. CASE logFile = Missing
    <2>1. Opened = [exists |-> TRUE, records |-> <<>>, mtime |-> clock]
      BY <1>1, LogFile DEF Opened, Fresh
    <2>2. Opened.exists = TRUE /\ Opened.records = <<>> /\ Opened.mtime = clock
      BY <2>1
    <2>3. Opened # Missing
      BY <2>2 DEF Missing
    <2>. QED
      BY <1>1, <2>1, <2>2, <2>3, LogFile
  <1>2. CASE logFile # Missing
    BY <1>2, LogFile DEF LogShape, Opened
  <1>. QED
    BY <1>1, <1>2

\* The log file after a record is written to it.
LEMMA ExtendedFile ==
    ASSUME LogShape, written \in Nat, clock \in Nat, rolloverAt \in 2..clock + 1,
           NEW w \in {written, written + 1}, NEW r \in 1..w,
           NEW f, f = Extended(r)
    PROVE  /\ f = [exists |-> TRUE, records |-> f.records, mtime |-> f.mtime]
           /\ f.records \in Seq(1..w) /\ f.mtime = clock /\ f # Missing
           /\ ToSet(f.records) = ToSet(logFile.records) \union {r}
           /\ Len(f.records) = Len(logFile.records) + 1
  <1>1. PICK s : s = logFile.records
    OBVIOUS
  <1>2. s \in Seq(1..w)
    BY <1>1, LogFile, MoreRecords
  <1>3. f = [exists |-> TRUE, records |-> Append(s, r), mtime |-> clock]
    BY <1>1, OpenedFile DEF Extended
  <1>4. f.exists = TRUE /\ f.records = Append(s, r) /\ f.mtime = clock
    BY <1>3
  <1>5. f # Missing
    BY <1>4 DEF Missing
  <1>6. /\ Append(s, r) \in Seq(1..w) /\ Len(Append(s, r)) = Len(s) + 1
        /\ ToSet(Append(s, r)) = ToSet(s) \union {r}
    <2>1. PICK S : S = 1..w
      OBVIOUS
    <2>2. s \in Seq(S) /\ r \in S
      BY <1>2, <2>1
    <2>. QED
      BY <2>1, <2>2, ToSetAppend
  <1>. QED
    BY <1>1, <1>3, <1>4, <1>5, <1>6

\* The sets of backups are finite, and the counters are numbers.
LEMMA BackupsFinite ==
    ASSUME Timed, BackupsShape, HistoryShape
    PROVE  /\ IsFiniteSet(DOMAIN backups) /\ Cardinality(DOMAIN backups) \in Nat
           /\ \A n : IsFiniteSet(Above(n)) /\ Cardinality(Above(n)) \in Nat
           /\ IsFiniteSet(dropped) /\ Cardinality(dropped) \in Nat
           /\ BackupCount \in Nat \ {0}
           /\ \A r \in DOMAIN movedAt : Age(r) \in Nat
           /\ DOMAIN backups \subseteq Nat
  <1>1. BackupCount \in Nat \ {0} /\ clock \in Nat /\ rolloverAt \in Nat /\ written \in Nat
        /\ attempts \in Nat
    BY RotationAssumption DEF Timed
  <1>2. \E b \in Nat : DOMAIN backups \subseteq 1..b
    <2>1. CASE Numbers
      BY <1>1, <2>1 DEF BackupsShape, Names
    <2>2. CASE ~Numbers
      <3>1. rolloverAt - 1 \in Nat
        BY DEF Timed
      <3>. QED
        BY <2>2, <3>1 DEF BackupsShape, Names
    <2>. QED
      BY <2>1, <2>2
  <1>3. PICK b \in Nat : DOMAIN backups \subseteq 1..b
    BY <1>2
  <1>4. IsFiniteSet(1..b) /\ IsFiniteSet(1..written)
    BY <1>1, FS_Interval
  <1>5. IsFiniteSet(DOMAIN backups) /\ IsFiniteSet(dropped)
    BY <1>3, <1>4, FS_Subset DEF HistoryShape
  <1>6. \A n : Above(n) \subseteq DOMAIN backups
    BY DEF Above
  <1>7. \A n : IsFiniteSet(Above(n))
    BY <1>5, <1>6, FS_Subset
  <1>8. \A r \in DOMAIN movedAt : Age(r) \in Nat
    BY <1>1 DEF HistoryShape, Age
  <1>. QED
    BY <1>1, <1>3, <1>5, <1>7, <1>8, FS_CardinalityType

\* A rollover goes on to the place w.
LEMMA RollTo ==
    ASSUME RollShape, NEW w, roll' = [roll EXCEPT !.pc = w]
    PROVE  /\ roll' = [pc |-> roll'.pc, record |-> roll'.record, name |-> roll'.name,
                       shift |-> roll'.shift, now |-> roll'.now]
           /\ roll'.pc = w /\ roll'.record = roll.record /\ roll'.name = roll.name
           /\ roll'.shift = roll.shift /\ roll'.now = roll.now
  <1>1. PICK a, b, c, d : a = roll.record /\ b = roll.name /\ c = roll.shift /\ d = roll.now
    OBVIOUS
  <1>2. roll = [pc |-> roll.pc, record |-> a, name |-> b, shift |-> c, now |-> d]
    BY <1>1 DEF RollShape
  <1>3. roll' = [pc |-> w, record |-> a, name |-> b, shift |-> c, now |-> d]
    BY <1>2
  <1>. QED
    BY <1>1, <1>3

\* Between two rollovers.
LEMMA IdleIs ==
    /\ Idle = [pc |-> Idle.pc, record |-> Idle.record, name |-> Idle.name,
               shift |-> Idle.shift, now |-> Idle.now]
    /\ Idle.pc = "idle" /\ Idle.record = 0
  BY DEF Idle

\* A rollover that does not begin, and adds no backup, lets every record keep its rank.
LEMMA RankEases ==
    ASSUME Timed, BackupsShape, HistoryShape, NEW n \in DOMAIN backups, NEW r \in DOMAIN movedAt,
           UNCHANGED <<attempts, movedAt, config>>, DOMAIN backups' \subseteq DOMAIN backups,
           roll'.pc \notin {"shift", "clear"}, roll'.pc \in Before => roll.pc \in Before,
           Ranked(n, r)
    PROVE  Ranked(n, r)'
  <1>1. /\ Age(r) \in Nat /\ Cardinality(Above(n)) \in Nat /\ n \in Nat
        /\ Age(r)' = Age(r) /\ Numbers' = Numbers
    BY BackupsFinite DEF Age, Numbers
  <1>2. Cardinality(Above(n)') <= Cardinality(Above(n)) /\ Cardinality(Above(n)') \in Nat
    <2>1. Above(n)' \subseteq Above(n)
      BY DEF Above
    <2>2. IsFiniteSet(Above(n))
      BY BackupsFinite
    <2>. QED
      BY <2>1, <2>2, FS_Subset, FS_CardinalityType
  <1>3. CASE Numbers
    BY <1>1, <1>3 DEF Ranked
  <1>4. CASE ~Numbers
    <2>1. Cardinality(Above(n)) + (IF roll'.pc \in Before THEN 1 ELSE 0) <= Age(r)
      BY <1>1, <1>4 DEF Ranked
    <2>2. Cardinality(Above(n)') + (IF roll'.pc \in Before THEN 1 ELSE 0) <= Age(r)
      BY <1>1, <1>2, <2>1
    <2>. QED
      BY <1>1, <1>4, <2>2 DEF Ranked
  <1>. QED
    BY <1>3, <1>4

\* A step that only goes on keeps every moved record safe.
LEMMA SafeEases ==
    ASSUME RotationIInv, UNCHANGED <<attempts, movedAt, backups, config>>,
           roll'.pc \notin {"shift", "clear"}, roll'.pc \in Before => roll.pc \in Before,
           reused \subseteq reused',
           ToSet(logFile.records) \subseteq ToSet(logFile'.records)
    PROVE  \A r \in DOMAIN movedAt' : Safe(r)'
  <1>. SUFFICES ASSUME NEW r \in DOMAIN movedAt PROVE Safe(r)'
    OBVIOUS
  <1>1. Safe(r) /\ Timed /\ BackupsShape /\ HistoryShape
    BY DEF RotationIInv
  <1>2. Placed(r) => Placed(r)'
    BY <1>1, RankEases DEF Placed
  <1>. QED
    BY <1>1, <1>2 DEF Safe, Age

\* The names before an interval, and the count of backups after a failure.
LEMMA EarlierNames ==
    ASSUME NEW a \in Int, NEW b \in Int, a <= b
    PROVE  1..a - 1 \subseteq 1..b - 1
  OBVIOUS

\* A failure or a restart leaves one backup more at the most.
LEMMA OneMoreBackup ==
    ASSUME NEW m \in Nat, NEW b \in Nat, NEW f \in Nat, NEW r \in Nat, NEW f1 \in Nat,
           NEW r1 \in Nat, NEW k \in {0, 1}, m <= b + f + r + k, f1 + r1 = f + r + 1
    PROVE  m <= b + f1 + r1
  OBVIOUS

\* One more record may be dropped when one more failure or restart is counted.
LEMMA OneMoreDropped ==
    ASSUME RotationIInv, NEW x, dropped' \subseteq dropped \union {x},
           IsFiniteSet(dropped'),
           UNCHANGED config,
           \/ failures' + reopens' = failures + reopens + 1
              /\ failures' >= failures /\ failures' \in Nat /\ reopens' \in Nat
           \/ UNCHANGED <<failures, reopens>> /\ config.gz /\ config.time /\ failures > 0
    PROVE  FailureCostsOneRecord'
  <1>1. /\ IsFiniteSet(dropped) /\ Cardinality(dropped) \in Nat
        /\ failures \in Nat /\ reopens \in Nat
    BY BackupsFinite DEF RotationIInv, Timed
  <1>2. Cardinality(dropped') <= Cardinality(dropped) + 1 /\ Cardinality(dropped') \in Nat
    <2>1. IsFiniteSet(dropped \union {x})
          /\ Cardinality(dropped \union {x}) <= Cardinality(dropped) + 1
      <3>1. CASE x \in dropped
        <4>1. dropped \union {x} = dropped
          BY <3>1
        <4>. QED
          BY <1>1, <4>1
      <3>2. CASE x \notin dropped
        <4>1. IsFiniteSet(dropped \union {x})
              /\ Cardinality(dropped \union {x}) = Cardinality(dropped) + 1
          BY <1>1, <3>2, FS_AddElement
        <4>. QED
          BY <1>1, <4>1
      <3>. QED
        BY <3>1, <3>2
    <2>2. Cardinality(dropped') <= Cardinality(dropped \union {x})
      BY <2>1, FS_Subset
    <2>3. Cardinality(dropped \union {x}) \in Nat /\ Cardinality(dropped') \in Nat
      BY <2>1, FS_CardinalityType
    <2>. QED
      BY <1>1, <2>1, <2>2, <2>3
  <1>. QED
    BY <1>1, <1>2 DEF RotationIInv, FailureCostsOneRecord

\* A handler built on a new file.
LEMMA InitRotation == RotationInit => RotationIInv
  <1>. SUFFICES ASSUME RotationInit PROVE RotationIInv
    OBVIOUS
  <1>. USE DEF RotationInit
  <1>1. logFile = [exists |-> TRUE, records |-> <<>>, mtime |-> 1]
    BY DEF Fresh
  <1>2. logFile.exists = TRUE /\ logFile.records = <<>> /\ logFile.mtime = 1
    BY <1>1
  <1>3. logFile # Missing
    BY <1>2 DEF Missing
  <1>4. Timed
    <2>1. LogShape
      BY <1>1, <1>2, NoRecords DEF LogShape
    <2>. QED
      BY <2>1, RotationAssumption DEF Timed
  <1>5. DOMAIN backups = {} /\ DOMAIN movedAt = {}
    OBVIOUS
  <1>6. BackupsShape
    BY <1>5 DEF BackupsShape
  <1>7. RollShape /\ RollConsistent
    BY <1>3, IdleIs DEF RollShape, Places, RollConsistent, Before
  <1>8. HistoryShape
    BY <1>5 DEF HistoryShape
  <1>9. UnmovedIsLive /\ Cardinality(dropped) = 0 /\ Cardinality(DOMAIN backups) = 0
    BY <1>5, FS_EmptySet DEF UnmovedIsLive
  <1>10. FailureCostsOneRecord /\ BackupsCounted
    <2>1. roll.pc = "idle" /\ BackupCount \in Nat
      BY IdleIs, RotationAssumption
    <2>. QED
      BY <1>9, <2>1 DEF FailureCostsOneRecord, BackupsCounted, Expiring
  <1>. QED
    BY <1>4, <1>5, <1>6, <1>7, <1>8, <1>9, <1>10 DEF RotationIInv

\* The record being emitted is given up: Fail, Reopen and SourceMissing.
LEMMA AbandonKeeps ==
    ASSUME RotationIInv, roll' = Idle,
           UNCHANGED <<config, clock, backups, written, attempts, movedAt, reused>>,
           dropped' = dropped \union ({roll.record} \ {0}),
           rolloverAt' \in rolloverAt..clock + 1, failures' \in Nat, reopens' \in Nat,
           LogShape', ToSet(logFile'.records) = ToSet(logFile.records),
           logFile' = Missing => failures' > 0,
           failures' >= failures, reopens' >= reopens,
           \/ failures' + reopens' = failures + reopens + 1
           \/ /\ UNCHANGED <<failures, reopens>> /\ config.gz /\ config.time /\ failures > 0
              /\ roll.pc \in Before
    PROVE  RotationIInv'
  <1>1. /\ Timed /\ BackupsShape /\ RollShape /\ RollConsistent /\ HistoryShape
        /\ UnmovedIsLive /\ FailureCostsOneRecord /\ BackupsCounted
    BY DEF RotationIInv
  <1>2. /\ written \in Nat /\ attempts \in Nat /\ failures \in Nat /\ reopens \in Nat
        /\ clock \in Nat /\ rolloverAt \in Nat /\ rolloverAt' \in Nat
    BY <1>1, RotationAssumption DEF Timed
  <1>3. Timed'
    BY <1>1, <1>2 DEF Timed
  <1>4. BackupsShape'
    <2>1. Names \subseteq Names'
      <3>1. CASE Numbers
        BY <3>1 DEF Names, Numbers
      <3>2. CASE ~Numbers
        <4>1. rolloverAt <= rolloverAt' /\ rolloverAt \in Int /\ rolloverAt' \in Int
          BY <1>2
        <4>2. 1..rolloverAt - 1 \subseteq 1..rolloverAt' - 1
          BY <4>1, EarlierNames
        <4>. QED
          BY <3>2, <4>2 DEF Names, Numbers
      <3>. QED
        BY <3>1, <3>2
    <2>. QED
      BY <1>1, <2>1 DEF BackupsShape
  <1>5. RollShape' /\ RollConsistent'
    BY IdleIs DEF RollShape, Places, RollConsistent, Before
  <1>6. roll.record \in {0} \union 1..written
    BY <1>1 DEF RollShape
  <1>7. HistoryShape'
    BY <1>1, <1>6 DEF HistoryShape
  <1>8. \A r \in DOMAIN movedAt' : Safe(r)'
    BY SafeEases, IdleIs DEF Before
  <1>9. UnmovedIsLive'
    BY <1>1, <1>2, IdleIs DEF UnmovedIsLive
  <1>10. FailureCostsOneRecord'
    <2>1. dropped' \subseteq 1..written
      BY <1>7 DEF HistoryShape
    <2>2. IsFiniteSet(dropped')
      <3>1. 1 \in Int /\ written \in Int
        BY <1>2
      <3>. QED
        BY <2>1, <3>1, FS_Subset, FS_Interval
    <2>3. PICK x : x = roll.record
      OBVIOUS
    <2>4. dropped' \subseteq dropped \union {x}
      BY <2>3
    <2>. QED
      BY <2>2, <2>4, OneMoreDropped
  <1>11. BackupsCounted'
    <2>1. Cardinality(DOMAIN backups) \in Nat /\ BackupCount \in Nat
      BY <1>1, BackupsFinite
    <2>2. PICK m : m = Cardinality(DOMAIN backups)
      OBVIOUS
    <2>3. Expiring => m <= BackupCount + failures + reopens
                            + IF roll.pc \in {"copy", "remove", "expire"} THEN 1 ELSE 0
      BY <1>1, <2>2 DEF BackupsCounted, Expiring
    <2>4. Expiring => m <= BackupCount + failures' + reopens'
      <3>1. CASE failures' + reopens' = failures + reopens + 1
        <4>1. PICK k \in {0, 1} : Expiring => m <= BackupCount + failures + reopens + k
          BY <2>3
        <4>. QED
          BY <1>2, <2>1, <2>2, <3>1, <4>1, OneMoreBackup
      <3>2. CASE UNCHANGED <<failures, reopens>> /\ roll.pc \in Before
        <4>1. roll.pc \notin {"copy", "remove", "expire"}
          BY <3>2 DEF Before
        <4>. QED
          BY <1>2, <2>1, <2>2, <2>3, <3>2, <4>1
      <3>. QED
        BY <3>1, <3>2
    <2>. QED
      BY <1>2, <2>1, <2>2, <2>4, IdleIs DEF BackupsCounted, Numbers, Expiring
  <1>. QED
    BY <1>3, <1>4, <1>5, <1>7, <1>8, <1>9, <1>10, <1>11 DEF RotationIInv

\* What every step but Reopen and OpenAndWrite needs of the parts of the invariant.
LEMMA Parts ==
    ASSUME RotationIInv
    PROVE  /\ Timed /\ LogShape /\ BackupsShape /\ RollShape /\ RollConsistent /\ HistoryShape
           /\ \A r \in DOMAIN movedAt : Safe(r)
           /\ UnmovedIsLive /\ FailureCostsOneRecord /\ BackupsCounted
           /\ written \in Nat /\ attempts \in Nat /\ failures \in Nat /\ reopens \in Nat
           /\ clock \in Nat /\ clock \in 1..MaxClock /\ rolloverAt \in Nat
           /\ rolloverAt \in 2..clock + 1 /\ BackupCount \in Nat \ {0}
  BY RotationAssumption DEF RotationIInv, Timed

\* The log that is not touched keeps its shape.
LEMMA SameLog ==
    ASSUME LogShape, UNCHANGED <<logFile, written, rolloverAt, clock>>
    PROVE  LogShape'
  BY DEF LogShape, Missing

\* A system call that fails costs the record under way.
LEMMA FailKeeps == RotationIInv /\ Fail => RotationIInv'
  <1>. SUFFICES ASSUME RotationIInv, Fail PROVE RotationIInv'
    OBVIOUS
  <1>1. LogShape'
    BY Parts, SameLog DEF Fail
  <1>2. roll.record \in 1..written /\ written \in Nat
    BY Parts DEF Fail, RollShape
  <1>3. dropped' = dropped \union ({roll.record} \ {0})
    BY <1>2 DEF Fail
  <1>4. /\ failures \in Nat /\ reopens \in Nat /\ failures' = failures + 1 /\ reopens' = reopens
        /\ rolloverAt \in 2..clock + 1 /\ clock \in Nat /\ rolloverAt' = rolloverAt
    BY Parts DEF Fail, env
  <1>5. /\ failures' \in Nat /\ reopens' \in Nat /\ failures' >= failures /\ reopens' >= reopens
        /\ failures' > 0 /\ failures' + reopens' = failures + reopens + 1
    BY <1>4
  <1>6. rolloverAt' \in rolloverAt..clock + 1
    BY <1>4
  <1>7. UNCHANGED <<config, clock, backups, written, attempts, movedAt, reused>>
        /\ roll' = Idle /\ logFile' = logFile
    BY DEF Fail
  <1>. QED
    BY <1>1, <1>3, <1>5, <1>6, <1>7, AbandonKeeps

\* So does a log that was removed before: one more, and only after a failure.
LEMMA SourceMissingKeeps == RotationIInv /\ SourceMissing => RotationIInv'
  <1>. SUFFICES ASSUME RotationIInv, SourceMissing PROVE RotationIInv'
    OBVIOUS
  <1>1. LogShape'
    BY Parts, SameLog DEF SourceMissing
  <1>2. roll.record \in 1..written /\ written \in Nat /\ config.gz
    BY Parts DEF SourceMissing, RollShape
  <1>3. dropped' = dropped \union ({roll.record} \ {0})
    BY <1>2 DEF SourceMissing
  <1>4. /\ failures \in Nat /\ reopens \in Nat /\ failures' = failures /\ reopens' = reopens
        /\ rolloverAt \in 2..clock + 1 /\ clock \in Nat /\ rolloverAt' = rolloverAt
    BY Parts DEF SourceMissing, env
  <1>5. /\ failures' \in Nat /\ reopens' \in Nat /\ failures' >= failures /\ reopens' >= reopens
    BY <1>4
  <1>6. rolloverAt' \in rolloverAt..clock + 1
    BY <1>4
  <1>7. UNCHANGED <<config, clock, backups, written, attempts, movedAt, reused>>
        /\ roll' = Idle /\ logFile' = logFile
    BY DEF SourceMissing, env
  <1>8. roll.pc \in Before /\ failures > 0 /\ config.time
    BY Parts, LogFile DEF SourceMissing, RollConsistent, Before
  <1>. QED
    BY <1>1, <1>2, <1>3, <1>4, <1>5, <1>6, <1>7, <1>8, AbandonKeeps

\* A handler built again takes its interval from the mtime of the file there is.
LEMMA ReopenKeeps == RotationIInv /\ Reopen => RotationIInv'
  <1>. SUFFICES ASSUME RotationIInv, Reopen PROVE RotationIInv'
    OBVIOUS
  <1>1. PICK f : f = Opened
    OBVIOUS
  <1>2. /\ f = [exists |-> TRUE, records |-> f.records, mtime |-> f.mtime]
        /\ f.records = logFile.records /\ f.mtime \in rolloverAt - 1..clock /\ f # Missing
    BY <1>1, Parts, OpenedFile
  <1>3. logFile' = f /\ rolloverAt' = f.mtime + 1
    BY <1>1 DEF Reopen
  <1>4. /\ failures \in Nat /\ reopens \in Nat /\ failures' = failures /\ reopens' = reopens + 1
        /\ rolloverAt \in 2..clock + 1 /\ clock \in Nat /\ written \in Nat
    BY Parts DEF Reopen
  <1>5. /\ failures' \in Nat /\ reopens' \in Nat /\ failures' >= failures /\ reopens' >= reopens
        /\ failures' + reopens' = failures + reopens + 1
    BY <1>4
  <1>6. rolloverAt' \in rolloverAt..clock + 1 /\ f.mtime \in rolloverAt' - 1..clock
    BY <1>2, <1>3, <1>4
  <1>7. UNCHANGED <<config, clock, backups, written, attempts, movedAt, reused>>
        /\ roll' = Idle /\ dropped' = dropped \union ({roll.record} \ {0})
    BY DEF Reopen
  <1>8. f.records \in Seq(1..written)
    BY <1>2, Parts, LogFile
  <1>9. LogShape'
    BY <1>2, <1>3, <1>6, <1>7, <1>8 DEF LogShape
  <1>10. ToSet(logFile'.records) = ToSet(logFile.records) /\ logFile' # Missing
    BY <1>2, <1>3
  <1>. QED
    BY <1>5, <1>6, <1>7, <1>9, <1>10, AbandonKeeps

\* Time passes.
LEMMA TickKeeps == RotationIInv /\ Tick => RotationIInv'
  <1>. SUFFICES ASSUME RotationIInv, Tick PROVE RotationIInv'
    OBVIOUS
  <1>1. /\ clock' \in 1..MaxClock /\ clock' = clock + 1
        /\ UNCHANGED <<config, failures, reopens, rolloverAt, logFile, backups, roll,
                       written, dropped, attempts, movedAt, reused>>
    BY Parts, RotationAssumption DEF Tick, env
  <1>2. LogShape'
    <2>1. CASE logFile = Missing
      BY <1>1, <2>1 DEF LogShape, Missing
    <2>2. CASE logFile # Missing
      <3>1. logFile.mtime \in rolloverAt - 1..clock
        BY <2>2, Parts DEF LogShape
      <3>2. logFile.mtime \in rolloverAt - 1..clock + 1
        BY <3>1, Parts
      <3>. QED
        BY <1>1, <2>2, <3>2, Parts DEF LogShape
    <2>. QED
      BY <2>1, <2>2
  <1>3. Timed'
    <2>1. rolloverAt' \in 2..clock' + 1
      BY <1>1, Parts
    <2>. QED
      BY <1>1, <1>2, <2>1, Parts DEF Timed
  <1>4. BackupsShape'
    BY <1>1, Parts DEF BackupsShape, Names, Numbers
  <1>5. RollShape'
    <2>1. roll.pc # "idle" => roll.now \in rolloverAt - 1..clock + 1
      BY Parts DEF RollShape
    <2>. QED
      BY <1>1, <2>1, Parts DEF RollShape, Numbers
  <1>6. RollConsistent'
    BY <1>1, Parts DEF RollConsistent, Missing, Numbers
  <1>7. HistoryShape'
    BY <1>1, Parts DEF HistoryShape
  <1>8. \A r \in DOMAIN movedAt' : Safe(r)'
    BY <1>1, Parts DEF Safe, Placed, Ranked, Age, Above, Numbers
  <1>9. UnmovedIsLive' /\ FailureCostsOneRecord' /\ BackupsCounted'
    BY <1>1, Parts DEF UnmovedIsLive, FailureCostsOneRecord, BackupsCounted, Numbers, Expiring
  <1>. QED
    BY <1>3, <1>4, <1>5, <1>6, <1>7, <1>8, <1>9 DEF RotationIInv

\* The record is written and the rollover over: SkipRollover and OpenAndWrite.
LEMMA RecordWritten ==
    ASSUME RotationIInv, roll.pc \in {"clear", "open"}, roll' = Idle,
           logFile' = Extended(roll.record), rolloverAt' \in rolloverAt..clock + 1,
           UNCHANGED <<config, failures, reopens, clock, backups, written, dropped,
                       attempts, movedAt, reused>>
    PROVE  RotationIInv'
  <1>1. PICK f : f = Extended(roll.record)
    OBVIOUS
  <1>2. roll.record \in 1..written
    BY Parts DEF RollShape
  <1>3. /\ f = [exists |-> TRUE, records |-> f.records, mtime |-> f.mtime]
        /\ f.records \in Seq(1..written) /\ f.mtime = clock /\ f # Missing
        /\ ToSet(f.records) = ToSet(logFile.records) \union {roll.record}
    <2>1. PICK w, r : w = written /\ r = roll.record
      OBVIOUS
    <2>2. w \in {written, written + 1} /\ r \in 1..w /\ f = Extended(r)
      BY <1>1, <1>2, <2>1
    <2>. QED
      BY <2>1, <2>2, Parts, ExtendedFile
  <1>4. LogShape'
    <2>1. f.mtime \in rolloverAt' - 1..clock
      BY <1>3, Parts
    <2>. QED
      BY <1>1, <1>3, <2>1 DEF LogShape
  <1>5. Timed'
    <2>1. rolloverAt' \in 2..clock + 1
      BY Parts
    <2>. QED
      BY <1>4, <2>1, Parts DEF Timed
  <1>6. BackupsShape'
    <2>1. Names \subseteq Names'
      <3>1. CASE Numbers
        BY <3>1 DEF Names, Numbers
      <3>2. CASE ~Numbers
        <4>1. rolloverAt <= rolloverAt' /\ rolloverAt \in Int /\ rolloverAt' \in Int
          BY Parts
        <4>2. 1..rolloverAt - 1 \subseteq 1..rolloverAt' - 1
          BY <4>1, EarlierNames
        <4>. QED
          BY <3>2, <4>2 DEF Names, Numbers
      <3>. QED
        BY <3>1, <3>2
    <2>. QED
      BY <2>1, Parts DEF BackupsShape
  <1>7. logFile' # Missing
    BY <1>1, <1>3
  <1>8. RollShape' /\ RollConsistent'
    BY <1>7, IdleIs DEF RollShape, Places, RollConsistent, Before, Missing
  <1>9. HistoryShape'
    BY Parts DEF HistoryShape
  <1>10. ToSet(logFile.records) \subseteq ToSet(logFile'.records)
    BY <1>1, <1>3
  <1>11. \A r \in DOMAIN movedAt' : Safe(r)'
    BY <1>10, SafeEases, IdleIs DEF Before
  <1>12. UnmovedIsLive'
    BY <1>1, <1>3, Parts, IdleIs DEF UnmovedIsLive
  <1>13. FailureCostsOneRecord' /\ BackupsCounted'
    BY Parts, IdleIs DEF FailureCostsOneRecord, BackupsCounted, Numbers, Expiring
  <1>. QED
    BY <1>5, <1>6, <1>8, <1>9, <1>11, <1>12, <1>13 DEF RotationIInv

\* The rollover of an interval that has its backup is skipped.
LEMMA SkipRolloverKeeps == RotationIInv /\ SkipRollover => RotationIInv'
  <1>. SUFFICES ASSUME RotationIInv, SkipRollover PROVE RotationIInv'
    OBVIOUS
  <1>1. rolloverAt' \in rolloverAt..clock + 1
    BY Parts DEF SkipRollover
  <1>. QED
    BY <1>1, RecordWritten DEF SkipRollover, env

\* The new log takes the record and ends the rollover.
LEMMA OpenAndWriteKeeps == RotationIInv /\ OpenAndWrite => RotationIInv'
  <1>. SUFFICES ASSUME RotationIInv, OpenAndWrite PROVE RotationIInv'
    OBVIOUS
  <1>1. rolloverAt' \in rolloverAt..clock + 1
    <2>1. roll.now \in rolloverAt - 1..clock
      BY Parts DEF OpenAndWrite, RollShape
    <2>. QED
      BY <2>1, Parts DEF OpenAndWrite
  <1>. QED
    BY <1>1, RecordWritten DEF OpenAndWrite, env

\* A rollover that goes on keeps what is not about its place.
LEMMA StepKeepsShapes ==
    ASSUME RotationIInv, roll.pc # "idle", NEW w \in Places \ {"idle", "shift"},
           roll' = [roll EXCEPT !.pc = w], w \in {"compress", "copy", "remove"} => config.gz,
           w = "rename" => ~config.gz, w = "clear" /\ Numbers => roll.shift = 0,
           UNCHANGED <<config, failures, reopens, clock, rolloverAt, written, dropped,
                       attempts>>
    PROVE  /\ RollShape' /\ FailureCostsOneRecord'
           /\ roll'.pc = w /\ roll'.record = roll.record /\ roll'.name = roll.name
           /\ LogShape' => Timed'
           /\ roll.record \in 1..written /\ roll.record # 0
  <1>1. /\ roll' = [pc |-> roll'.pc, record |-> roll'.record, name |-> roll'.name,
                    shift |-> roll'.shift, now |-> roll'.now]
        /\ roll'.pc = w /\ roll'.record = roll.record /\ roll'.name = roll.name
        /\ roll'.shift = roll.shift /\ roll'.now = roll.now
    BY Parts, RollTo
  <1>2. RollShape'
    BY <1>1, Parts DEF RollShape, Numbers
  <1>3. FailureCostsOneRecord'
    BY Parts DEF FailureCostsOneRecord
  <1>4. LogShape' => Timed'
    BY Parts DEF Timed
  <1>5. roll.record \in 1..written /\ written \in Nat
    BY Parts DEF RollShape
  <1>. QED
    BY <1>1, <1>2, <1>3, <1>4, <1>5

\* One more name among the backups adds at most one above each of them.
LEMMA OneMoreName ==
    ASSUME Timed, BackupsShape, HistoryShape, NEW m,
           DOMAIN backups' \subseteq DOMAIN backups \union {m}
    PROVE  /\ Cardinality(DOMAIN backups') <= Cardinality(DOMAIN backups) + 1
           /\ Cardinality(DOMAIN backups') \in Nat
           /\ \A n : /\ Cardinality(Above(n)') <= Cardinality(Above(n)) + 1
                     /\ Cardinality(Above(n)') \in Nat
  <1>1. \A S, T : IsFiniteSet(S) /\ T \subseteq S \union {m} =>
                    Cardinality(T) <= Cardinality(S) + 1 /\ Cardinality(T) \in Nat
    <2>. SUFFICES ASSUME NEW S, NEW T, IsFiniteSet(S), T \subseteq S \union {m}
                  PROVE  Cardinality(T) <= Cardinality(S) + 1 /\ Cardinality(T) \in Nat
      OBVIOUS
    <2>1. PICK U : U = S \union {m}
      OBVIOUS
    <2>2. Cardinality(S) \in Nat
      BY FS_CardinalityType
    <2>3. IsFiniteSet(U) /\ Cardinality(U) <= Cardinality(S) + 1
      <3>1. CASE m \in S
        <4>1. U = S
          BY <2>1, <3>1
        <4>. QED
          BY <2>2, <4>1
      <3>2. CASE m \notin S
        <4>1. IsFiniteSet(U) /\ Cardinality(U) = Cardinality(S) + 1
          BY <2>1, <3>2, FS_AddElement
        <4>. QED
          BY <2>2, <4>1
      <3>. QED
        BY <3>1, <3>2
    <2>4. IsFiniteSet(T) /\ Cardinality(T) <= Cardinality(U)
      BY <2>1, <2>3, FS_Subset
    <2>5. Cardinality(T) \in Nat /\ Cardinality(U) \in Nat
      BY <2>3, <2>4, FS_CardinalityType
    <2>. QED
      BY <2>2, <2>3, <2>4, <2>5
  <1>2. \A n : Above(n)' \subseteq Above(n) \union {m}
    BY DEF Above
  <1>. QED
    BY <1>1, <1>2, BackupsFinite

\* A backup of the rollover's name is stored.
LEMMA StoreShape ==
    ASSUME RotationIInv, roll.pc # "idle", NEW recs \in Seq(1..written),
           backups' = Store(roll.name, recs), UNCHANGED <<config, written, rolloverAt>>
    PROVE  /\ BackupsShape' /\ DOMAIN backups' = DOMAIN backups \union {roll.name}
           /\ backups'[roll.name] = recs
           /\ \A n \in DOMAIN backups : n # roll.name => backups'[n] = backups[n]
  <1>1. roll.name \in Names
    <2>1. CASE Numbers
      BY <2>1, Parts DEF RollShape, Names
    <2>2. CASE ~Numbers
      <3>1. rolloverAt - 1 \in 1..rolloverAt - 1
        BY Parts
      <3>. QED
        BY <2>2, <3>1, Parts DEF RollShape, Names
    <2>. QED
      BY <2>1, <2>2
  <1>2. PICK D, m : D = DOMAIN backups \union {m} /\ m = roll.name
    OBVIOUS
  <1>3. backups' = [k \in D |-> IF k = m THEN recs ELSE backups[k]]
    BY <1>2 DEF Store
  <1>4. DOMAIN backups' = D /\ backups'[m] = recs
        /\ \A n \in DOMAIN backups : n # m => backups'[n] = backups[n]
    BY <1>2, <1>3
  <1>5. backups' = [n \in DOMAIN backups' |-> backups'[n]]
    BY <1>3, <1>4
  <1>6. D \subseteq Names /\ Names' = Names
    BY <1>1, <1>2, Parts DEF BackupsShape, Names, Numbers
  <1>7. \A n \in D : backups'[n] \in Seq(1..written)
    <2>. SUFFICES ASSUME NEW n \in D PROVE backups'[n] \in Seq(1..written)
      OBVIOUS
    <2>1. CASE n = m
      BY <1>4, <2>1
    <2>2. CASE n # m
      BY <1>2, <1>4, <2>2, Parts DEF BackupsShape
    <2>. QED
      BY <2>1, <2>2
  <1>8. BackupsShape'
    BY <1>4, <1>5, <1>6, <1>7 DEF BackupsShape
  <1>. QED
    BY <1>2, <1>4, <1>8

\* The records of the log are moved out of it.
LEMMA MovedShape ==
    ASSUME RotationIInv, movedAt' = Moved, UNCHANGED <<written, dropped, attempts>>
    PROVE  /\ HistoryShape'
           /\ DOMAIN movedAt' = DOMAIN movedAt \union ToSet(logFile.records)
           /\ \A r \in ToSet(logFile.records) : movedAt'[r] = attempts
           /\ \A r \in DOMAIN movedAt \ ToSet(logFile.records) : movedAt'[r] = movedAt[r]
           /\ ToSet(logFile.records) \subseteq 1..written
  <1>1. PICK L, M : L = ToSet(logFile.records) /\ M = DOMAIN movedAt
    OBVIOUS
  <1>2. L \subseteq 1..written /\ M \subseteq 1..written
    BY <1>1, Parts, LogFile DEF HistoryShape
  <1>3. movedAt' = [r \in M \union L |-> IF r \in L THEN attempts ELSE movedAt[r]]
    BY <1>1 DEF Moved
  <1>4. /\ DOMAIN movedAt' = M \union L
        /\ \A r \in L : movedAt'[r] = attempts
        /\ \A r \in M \ L : movedAt'[r] = movedAt[r]
    BY <1>3
  <1>5. movedAt' = [r \in DOMAIN movedAt' |-> movedAt'[r]]
    BY <1>3, <1>4
  <1>6. \A r \in DOMAIN movedAt' : movedAt'[r] \in 0..attempts
    <2>1. \A r \in L : movedAt'[r] \in 0..attempts
      BY <1>4, Parts
    <2>2. \A r \in M \ L : movedAt'[r] \in 0..attempts
      BY <1>1, <1>4, Parts DEF HistoryShape
    <2>. QED
      BY <1>4, <2>1, <2>2
  <1>7. HistoryShape'
    BY <1>2, <1>4, <1>5, <1>6, Parts DEF HistoryShape
  <1>. QED
    BY <1>1, <1>2, <1>4, <1>7

\* The log is removed when its records are in the newest backup.
LEMMA MovedIsPlaced ==
    ASSUME RotationIInv, roll.pc # "idle", roll'.pc = "expire", BackupsShape', HistoryShape',
           UNCHANGED <<config, rolloverAt, attempts>>, config.gz \/ roll.name \in {1} \/ ~Numbers,
           NEW r, r \in DOMAIN movedAt', movedAt'[r] = attempts,
           roll.name \in DOMAIN backups', r \in ToSet(backups'[roll.name])
    PROVE  Safe(r)'
  <1>1. PICK m : m = roll.name
    OBVIOUS
  <1>2. Age(r)' = 0
    BY Parts DEF Age
  <1>3. Ranked(m, r)'
    <2>1. CASE Numbers
      <3>1. m = 1 /\ Numbers'
        BY <1>1, <2>1, Parts DEF RollShape, Numbers
      <3>. QED
        BY <1>2, <3>1 DEF Ranked
    <2>2. CASE ~Numbers
      <3>1. m = rolloverAt - 1 /\ ~Numbers' /\ rolloverAt \in Nat
        BY <1>1, <2>2, Parts DEF RollShape, Numbers
      <3>2. DOMAIN backups' \subseteq 1..rolloverAt - 1
        BY <3>1 DEF BackupsShape, Names
      <3>3. Above(m)' = {}
        BY <3>1, <3>2 DEF Above
      <3>4. Cardinality(Above(m)') = 0
        BY <3>3, FS_EmptySet
      <3>. QED
        BY <1>2, <3>1, <3>4 DEF Ranked, Before
    <2>. QED
      BY <2>1, <2>2
  <1>. QED
    BY <1>1, <1>3 DEF Safe, Placed

\* The backup in the way is removed: a time handler reuses its name; of numbers, it is
\* there only when one backup is kept, and then has had its time.
LEMMA ClearNameKeeps == RotationIInv /\ ClearName => RotationIInv'
  <1>. SUFFICES ASSUME RotationIInv, ClearName PROVE RotationIInv'
    OBVIOUS
  <1>1. PICK w : w = IF config.gz THEN "compress" ELSE "rename"
    OBVIOUS
  <1>2. /\ roll.pc = "clear" /\ roll' = [roll EXCEPT !.pc = w]
        /\ UNCHANGED <<config, failures, reopens, clock, rolloverAt, logFile, written,
                       dropped, attempts, movedAt, reused>>
    BY <1>1 DEF ClearName, env
  <1>3. /\ RollShape' /\ FailureCostsOneRecord' /\ roll'.pc = w /\ roll'.record = roll.record
        /\ roll'.name = roll.name
        /\ LogShape' => Timed'
    BY <1>1, <1>2, StepKeepsShapes DEF Places
  <1>4. Timed'
    BY <1>2, <1>3, Parts, SameLog
  <1>5. /\ DOMAIN backups' \subseteq DOMAIN backups /\ BackupsShape'
        /\ \A n \in DOMAIN backups' : backups'[n] = backups[n]
        /\ \A n \in DOMAIN backups \ DOMAIN backups' : n = roll.name /\ Taken(n)
        /\ ~config.gz => roll.name \notin DOMAIN backups'
    <2>1. CASE Taken(roll.name)
      <3>1. backups' = [n \in DOMAIN backups \ {roll.name} |-> backups[n]]
        BY <2>1 DEF ClearName, Without, Restrict
      <3>2. /\ DOMAIN backups' = DOMAIN backups \ {roll.name}
            /\ \A n \in DOMAIN backups' : backups'[n] = backups[n]
        BY <3>1
      <3>3. backups' = [n \in DOMAIN backups' |-> backups'[n]]
        BY <3>1, <3>2
      <3>4. Names' = Names
        BY <1>2 DEF Names, Numbers
      <3>5. BackupsShape'
        BY <1>2, <3>2, <3>3, <3>4, Parts DEF BackupsShape
      <3>. QED
        BY <2>1, <3>2, <3>5
    <2>2. CASE ~Taken(roll.name)
      <3>1. backups' = backups
        BY <2>2 DEF ClearName
      <3>2. BackupsShape'
        BY <1>2, <3>1, Parts DEF BackupsShape, Names, Numbers
      <3>. QED
        BY <2>2, <3>1, <3>2 DEF Taken
    <2>. QED
      BY <2>1, <2>2
  <1>6. RollConsistent'
    BY <1>1, <1>2, <1>3, <1>5, Parts DEF RollConsistent, Before, Numbers, Missing
  <1>7. HistoryShape'
    BY <1>2, Parts DEF HistoryShape
  <1>8. ASSUME NEW r \in DOMAIN movedAt PROVE Safe(r)'
    <2>1. Safe(r) /\ Age(r)' = Age(r)
      BY <1>2, Parts DEF Age
    <2>2. CASE Placed(r)
      <3>1. PICK n \in DOMAIN backups : r \in ToSet(backups[n]) /\ Ranked(n, r)
        BY <2>2 DEF Placed
      <3>2. CASE n \in DOMAIN backups'
        <4>1. roll'.pc \notin {"shift", "clear"} /\ (roll'.pc \in Before => roll.pc \in Before)
          BY <1>1, <1>2, <1>3 DEF Before
        <4>2. Ranked(n, r)'
          BY <1>2, <1>5, <3>1, <4>1, Parts, RankEases
        <4>. QED
          BY <1>5, <3>1, <3>2, <4>2 DEF Safe, Placed
      <3>3. CASE n \notin DOMAIN backups'
        <4>1. n = roll.name /\ Taken(n)
          BY <1>5, <3>3
        <4>2. Numbers
          BY <1>2, <4>1 DEF ClearName
        <4>3. Age(r) >= BackupCount
          <5>1. n = 1 /\ ~config.gz /\ roll.shift = 0 /\ 1 \in DOMAIN backups
            BY <1>2, <4>1, <4>2, Parts DEF RollShape, Taken
          <5>2. ~(0 < BackupCount - 1)
            BY <1>2, <4>2, <5>1, Parts DEF RollConsistent
          <5>3. BackupCount = 1
            BY <5>2, Parts
          <5>4. 1 <= Age(r)
            BY <1>2, <3>1, <4>2, <5>1 DEF Ranked
          <5>. QED
            BY <5>3, <5>4
        <4>. QED
          BY <2>1, <4>3 DEF Safe
      <3>. QED
        BY <3>2, <3>3
    <2>. QED
      BY <1>2, <1>5, <2>1, <2>2 DEF Safe
  <1>9. UnmovedIsLive'
    BY <1>2, <1>3, Parts DEF UnmovedIsLive
  <1>10. BackupsCounted'
    <2>1. /\ Cardinality(DOMAIN backups') <= Cardinality(DOMAIN backups)
          /\ Cardinality(DOMAIN backups') \in Nat /\ Cardinality(DOMAIN backups) \in Nat
      BY <1>5, Parts, BackupsFinite, FS_Subset, FS_CardinalityType
    <2>2. Expiring => Cardinality(DOMAIN backups) <= BackupCount + failures + reopens
      BY <1>2, Parts DEF BackupsCounted, Expiring
    <2>3. Expiring => Cardinality(DOMAIN backups') <= BackupCount + failures + reopens
      BY <2>1, <2>2, Parts
    <2>4. w \notin {"copy", "remove", "expire"}
      BY <1>1
    <2>. QED
      BY <1>2, <1>3, <2>3, <2>4, Parts DEF BackupsCounted, Numbers, Expiring
  <1>. QED
    BY <1>2, <1>4, <1>5, <1>3, <1>6, <1>7, <1>8, <1>9, <1>10 DEF RotationIInv

\* The log becomes the newest backup, and every other is one further on.
LEMMA RenameKeeps == RotationIInv /\ Rename => RotationIInv'
  <1>. SUFFICES ASSUME RotationIInv, Rename PROVE RotationIInv'
    OBVIOUS
  <1>1. /\ roll.pc = "rename" /\ roll' = [roll EXCEPT !.pc = "expire"]
        /\ UNCHANGED <<config, failures, reopens, clock, rolloverAt, written, dropped,
                       attempts, reused>>
    BY DEF Rename, env
  <1>2. /\ RollShape' /\ FailureCostsOneRecord' /\ roll'.pc = "expire" /\ roll'.name = roll.name
        /\ roll'.record = roll.record
        /\ LogShape' => Timed'
    BY <1>1, StepKeepsShapes DEF Places
  <1>3. logFile' = Missing
    BY Parts, LogFile DEF Rename
  <1>4. Timed' /\ RollConsistent'
    <2>1. logFile' = Missing'
      BY <1>3 DEF Missing
    <2>2. LogShape'
      BY <2>1 DEF LogShape
    <2>. QED
      BY <1>2, <2>1, <2>2 DEF RollConsistent, Before
  <1>5. PICK L : L = logFile.records
    OBVIOUS
  <1>6. CASE logFile.exists
    <2>1. backups' = Store(roll.name, L) /\ movedAt' = Moved /\ L \in Seq(1..written)
      BY <1>5, <1>6, Parts, LogFile DEF Rename
    <2>2. /\ BackupsShape' /\ DOMAIN backups' = DOMAIN backups \union {roll.name}
          /\ backups'[roll.name] = L
          /\ \A n \in DOMAIN backups : n # roll.name => backups'[n] = backups[n]
      BY <1>1, <2>1, StoreShape
    <2>3. /\ HistoryShape' /\ DOMAIN movedAt' = DOMAIN movedAt \union ToSet(L)
          /\ \A r \in ToSet(L) : movedAt'[r] = attempts
          /\ \A r \in DOMAIN movedAt \ ToSet(L) : movedAt'[r] = movedAt[r]
          /\ ToSet(L) \subseteq 1..written
      BY <1>1, <1>5, <2>1, MovedShape
    <2>4. ASSUME NEW r \in DOMAIN movedAt' PROVE Safe(r)'
      <3>1. CASE r \in ToSet(L)
        <4>1. config.gz \/ roll.name \in {1} \/ ~Numbers
          BY <1>1, Parts DEF RollShape
        <4>2. roll.name \in DOMAIN backups' /\ r \in ToSet(backups'[roll.name])
          BY <2>2, <3>1
        <4>. QED
          BY <1>1, <1>2, <2>2, <2>3, <3>1, <4>1, <4>2, MovedIsPlaced
      <3>2. CASE r \notin ToSet(L)
        <4>1. r \in DOMAIN movedAt /\ movedAt'[r] = movedAt[r] /\ Safe(r)
          BY <2>3, <3>2, Parts
        <4>2. Age(r)' = Age(r) /\ Age(r) \in Nat
          BY <1>1, <4>1, Parts, BackupsFinite DEF Age
        <4>3. CASE Placed(r)
          <5>1. PICK n \in DOMAIN backups : r \in ToSet(backups[n]) /\ Ranked(n, r)
            BY <4>3 DEF Placed
          <5>2. n # roll.name
            BY <1>1, Parts DEF RollConsistent
          <5>3. n \in DOMAIN backups' /\ r \in ToSet(backups'[n])
            BY <2>2, <5>1, <5>2
          <5>4. Ranked(n, r)'
            <6>1. CASE Numbers
              BY <1>1, <1>2, <4>2, <5>1, <6>1 DEF Ranked, Numbers
            <6>2. CASE ~Numbers
              <7>1. Cardinality(Above(n)) + 1 <= Age(r)
                BY <1>1, <5>1, <6>2 DEF Ranked, Before
              <7>2. /\ Cardinality(Above(n)') <= Cardinality(Above(n)) + 1
                    /\ Cardinality(Above(n)') \in Nat /\ Cardinality(Above(n)) \in Nat
                BY <2>2, Parts, OneMoreName, BackupsFinite
              <7>3. Cardinality(Above(n)') <= Age(r)'
                BY <4>2, <7>1, <7>2
              <7>. QED
                BY <1>1, <1>2, <6>2, <7>2, <7>3 DEF Ranked, Numbers, Before
            <6>. QED
              BY <6>1, <6>2
          <5>. QED
            BY <5>3, <5>4 DEF Safe, Placed
        <4>. QED
          BY <1>1, <1>5, <3>2, <4>1, <4>2, <4>3 DEF Safe
      <3>. QED
        BY <3>1, <3>2
    <2>5. UnmovedIsLive'
      BY <1>1, <1>2, <1>5, <2>3, Parts DEF UnmovedIsLive
    <2>6. BackupsCounted'
      <3>1. PICK c, d : c = Cardinality(DOMAIN backups) /\ d = Cardinality(DOMAIN backups')
        OBVIOUS
      <3>2. d <= c + 1 /\ c \in Nat /\ d \in Nat
        BY <2>2, <3>1, Parts, OneMoreName, BackupsFinite
      <3>3. Expiring => c <= BackupCount + failures + reopens
        BY <1>1, <3>1, Parts DEF BackupsCounted, Expiring
      <3>4. Expiring => d <= BackupCount + failures + reopens + 1
        BY <3>2, <3>3, Parts
      <3>. QED
        BY <1>1, <1>2, <3>1, <3>4, Parts DEF BackupsCounted, Numbers, Expiring
    <2>. QED
      BY <1>2, <1>4, <2>2, <2>3, <2>4, <2>5, <2>6 DEF RotationIInv
  <1>7. CASE ~logFile.exists
    <2>1. UNCHANGED <<backups, movedAt, logFile>>
      BY <1>7 DEF Rename
    <2>2. BackupsShape' /\ HistoryShape' /\ UnmovedIsLive'
      BY <1>1, <1>2, <2>1, Parts DEF BackupsShape, Names, Numbers, HistoryShape, UnmovedIsLive
    <2>3. \A r \in DOMAIN movedAt' : Safe(r)'
      BY <1>1, <1>2, <2>1, SafeEases DEF Before
    <2>4. BackupsCounted'
      <3>1. PICK c : c = Cardinality(DOMAIN backups)
        OBVIOUS
      <3>2. c \in Nat
        BY <3>1, Parts, BackupsFinite
      <3>3. Expiring => c <= BackupCount + failures + reopens
        BY <1>1, <3>1, Parts DEF BackupsCounted, Expiring
      <3>4. Expiring => c <= BackupCount + failures + reopens + 1
        BY <3>2, <3>3, Parts
      <3>. QED
        BY <1>1, <1>2, <2>1, <3>1, <3>4, Parts DEF BackupsCounted, Numbers, Expiring
    <2>. QED
      BY <1>2, <1>4, <2>2, <2>3, <2>4 DEF RotationIInv
  <1>. QED
    BY <1>6, <1>7

\* The archive is truncated: what it held and the log does not is reused.
LEMMA OpenArchiveKeeps == RotationIInv /\ OpenArchive => RotationIInv'
  <1>. SUFFICES ASSUME RotationIInv, OpenArchive PROVE RotationIInv'
    OBVIOUS
  <1>1. /\ roll.pc = "compress" /\ roll' = [roll EXCEPT !.pc = "copy"] /\ config.gz
        /\ UNCHANGED <<config, failures, reopens, clock, rolloverAt, logFile, written,
                       dropped, attempts, movedAt>>
    BY Parts DEF OpenArchive, env, RollShape
  <1>2. /\ RollShape' /\ FailureCostsOneRecord' /\ roll'.pc = "copy" /\ roll'.name = roll.name
        /\ roll'.record = roll.record
        /\ LogShape' => Timed'
    BY <1>1, StepKeepsShapes DEF Places
  <1>3. PICK L : L = <<>>
    OBVIOUS
  <1>4. L \in Seq(1..written) /\ backups' = Store(roll.name, L)
    BY <1>3 DEF OpenArchive
  <1>5. /\ BackupsShape' /\ DOMAIN backups' = DOMAIN backups \union {roll.name}
        /\ backups'[roll.name] = L
        /\ \A n \in DOMAIN backups : n # roll.name => backups'[n] = backups[n]
    BY <1>1, <1>4, StoreShape
  <1>6. Timed' /\ logFile # Missing
    BY <1>1, <1>2, Parts, SameLog, LogFile DEF OpenArchive
  <1>7. RollConsistent'
    BY <1>1, <1>2, <1>3, <1>5, <1>6 DEF RollConsistent, Before, Missing
  <1>8. HistoryShape' /\ UnmovedIsLive'
    BY <1>1, <1>2, Parts DEF HistoryShape, UnmovedIsLive
  <1>9. ASSUME NEW r \in DOMAIN movedAt PROVE Safe(r)'
    <2>1. Safe(r) /\ Age(r)' = Age(r) /\ Age(r) \in Nat /\ reused' = Overwritten(roll.name)
      BY <1>1, Parts, BackupsFinite DEF Age, OpenArchive
    <2>2. CASE Placed(r)
      <3>1. PICK n \in DOMAIN backups : r \in ToSet(backups[n]) /\ Ranked(n, r)
        BY <2>2 DEF Placed
      <3>2. CASE n = roll.name
        <4>1. r \in reused' \/ r \in ToSet(logFile.records)
          BY <2>1, <3>1, <3>2 DEF Overwritten
        <4>. QED
          BY <1>1, <4>1 DEF Safe
      <3>3. CASE n # roll.name
        <4>1. n \in DOMAIN backups' /\ r \in ToSet(backups'[n])
          BY <1>5, <3>1, <3>3
        <4>2. Ranked(n, r)'
          <5>1. CASE Numbers
            BY <1>1, <5>1 DEF Ranked, Numbers
          <5>2. CASE ~Numbers
            <6>1. Cardinality(Above(n)) + 1 <= Age(r)
              BY <1>1, <3>1, <5>2 DEF Ranked, Before
            <6>2. /\ Cardinality(Above(n)') <= Cardinality(Above(n)) + 1
                  /\ Cardinality(Above(n)') \in Nat /\ Cardinality(Above(n)) \in Nat
              BY <1>5, Parts, OneMoreName, BackupsFinite
            <6>3. Cardinality(Above(n)') <= Age(r)'
              BY <2>1, <6>1, <6>2
            <6>. QED
              BY <1>1, <1>2, <5>2, <6>2, <6>3 DEF Ranked, Numbers, Before
          <5>. QED
            BY <5>1, <5>2
        <4>. QED
          BY <4>1, <4>2 DEF Safe, Placed
      <3>. QED
        BY <3>2, <3>3
    <2>3. reused \subseteq reused'
      BY <2>1 DEF Overwritten
    <2>. QED
      BY <1>1, <2>1, <2>2, <2>3 DEF Safe
  <1>10. BackupsCounted'
    <2>1. PICK c, d : c = Cardinality(DOMAIN backups) /\ d = Cardinality(DOMAIN backups')
      OBVIOUS
    <2>2. d <= c + 1 /\ c \in Nat /\ d \in Nat
      BY <1>5, <2>1, Parts, OneMoreName, BackupsFinite
    <2>3. Expiring => c <= BackupCount + failures + reopens
      BY <1>1, <2>1, Parts DEF BackupsCounted, Expiring
    <2>4. Expiring => d <= BackupCount + failures + reopens + 1
      BY <2>2, <2>3, Parts
    <2>. QED
      BY <1>1, <1>2, <2>1, <2>4, Parts DEF BackupsCounted, Numbers, Expiring
  <1>. QED
    BY <1>1, <1>2, <1>5, <1>6, <1>7, <1>8, <1>9, <1>10 DEF RotationIInv

\* The log is in the archive and still in its own file.
LEMMA CopyContentsKeeps == RotationIInv /\ CopyContents => RotationIInv'
  <1>. SUFFICES ASSUME RotationIInv, CopyContents PROVE RotationIInv'
    OBVIOUS
  <1>1. /\ roll.pc = "copy" /\ roll' = [roll EXCEPT !.pc = "remove"] /\ config.gz
        /\ UNCHANGED <<config, failures, reopens, clock, rolloverAt, logFile, written,
                       dropped, attempts, movedAt, reused>>
    BY Parts DEF CopyContents, env, RollShape
  <1>2. /\ RollShape' /\ FailureCostsOneRecord' /\ roll'.pc = "remove" /\ roll'.name = roll.name
        /\ roll'.record = roll.record
        /\ LogShape' => Timed'
    BY <1>1, StepKeepsShapes DEF Places
  <1>3. PICK L : L = logFile.records
    OBVIOUS
  <1>4. L \in Seq(1..written) /\ backups' = Store(roll.name, L)
    BY <1>3, Parts, LogFile DEF CopyContents
  <1>5. /\ BackupsShape' /\ DOMAIN backups' = DOMAIN backups \union {roll.name}
        /\ backups'[roll.name] = L
        /\ \A n \in DOMAIN backups : n # roll.name => backups'[n] = backups[n]
    BY <1>1, <1>4, StoreShape
  <1>6. Timed' /\ logFile # Missing
    BY <1>1, <1>2, Parts, SameLog DEF RollConsistent
  <1>7. RollConsistent'
    BY <1>1, <1>2, <1>3, <1>5, <1>6 DEF RollConsistent, Before, Missing
  <1>8. HistoryShape' /\ UnmovedIsLive'
    BY <1>1, <1>2, Parts DEF HistoryShape, UnmovedIsLive
  <1>9. DOMAIN backups' = DOMAIN backups /\ backups[roll.name] = <<>>
    BY <1>1, <1>5, Parts DEF RollConsistent
  <1>10. ASSUME NEW r \in DOMAIN movedAt PROVE Safe(r)'
    <2>1. Safe(r) /\ Age(r)' = Age(r) /\ Age(r) \in Nat
      BY <1>1, Parts, BackupsFinite DEF Age
    <2>2. CASE Placed(r)
      <3>1. PICK n \in DOMAIN backups : r \in ToSet(backups[n]) /\ Ranked(n, r)
        BY <2>2 DEF Placed
      <3>2. n # roll.name
        BY <1>9, <3>1, NoRecords
      <3>3. n \in DOMAIN backups' /\ r \in ToSet(backups'[n])
        BY <1>5, <3>1, <3>2
      <3>4. roll'.pc \notin {"shift", "clear"} /\ (roll'.pc \in Before => roll.pc \in Before)
        BY <1>2 DEF Before
      <3>5. Ranked(n, r)'
        BY <1>1, <1>9, <3>1, <3>4, Parts, RankEases
      <3>. QED
        BY <3>3, <3>5 DEF Safe, Placed
    <2>. QED
      BY <1>1, <2>1, <2>2 DEF Safe
  <1>11. BackupsCounted'
    BY <1>1, <1>2, <1>9, Parts DEF BackupsCounted, Numbers, Expiring
  <1>. QED
    BY <1>1, <1>2, <1>5, <1>6, <1>7, <1>8, <1>10, <1>11 DEF RotationIInv

\* The log is removed when the archive has it.
LEMMA RemoveSourceKeeps == RotationIInv /\ RemoveSource => RotationIInv'
  <1>. SUFFICES ASSUME RotationIInv, RemoveSource PROVE RotationIInv'
    OBVIOUS
  <1>1. /\ roll.pc = "remove" /\ roll' = [roll EXCEPT !.pc = "expire"] /\ config.gz
        /\ movedAt' = Moved /\ logFile' = Missing
        /\ UNCHANGED <<config, failures, reopens, clock, rolloverAt, backups, written,
                       dropped, attempts, reused>>
    BY Parts DEF RemoveSource, env, RollShape
  <1>2. /\ RollShape' /\ FailureCostsOneRecord' /\ roll'.pc = "expire" /\ roll'.name = roll.name
        /\ roll'.record = roll.record
        /\ LogShape' => Timed'
    BY <1>1, StepKeepsShapes DEF Places
  <1>3. logFile' = Missing'
    BY <1>1 DEF Missing
  <1>4. LogShape'
    BY <1>3 DEF LogShape
  <1>5. Timed' /\ RollConsistent'
    BY <1>2, <1>3, <1>4 DEF RollConsistent, Before
  <1>6. BackupsShape'
    BY <1>1, Parts DEF BackupsShape, Names, Numbers
  <1>7. PICK L : L = logFile.records
    OBVIOUS
  <1>8. /\ HistoryShape' /\ DOMAIN movedAt' = DOMAIN movedAt \union ToSet(L)
        /\ \A r \in ToSet(L) : movedAt'[r] = attempts
        /\ \A r \in DOMAIN movedAt \ ToSet(L) : movedAt'[r] = movedAt[r]
        /\ ToSet(L) \subseteq 1..written
    BY <1>1, <1>7, MovedShape
  <1>9. roll.name \in DOMAIN backups' /\ backups'[roll.name] = L
    BY <1>1, <1>7, Parts DEF RollConsistent
  <1>10. ASSUME NEW r \in DOMAIN movedAt' PROVE Safe(r)'
    <2>1. CASE r \in ToSet(L)
      <3>1. r \in ToSet(backups'[roll.name])
        BY <1>9, <2>1
      <3>. QED
        BY <1>1, <1>2, <1>6, <1>8, <1>9, <2>1, <3>1, MovedIsPlaced
    <2>2. CASE r \notin ToSet(L)
      <3>1. r \in DOMAIN movedAt /\ movedAt'[r] = movedAt[r] /\ Safe(r)
        BY <1>8, <2>2, Parts
      <3>2. Age(r)' = Age(r) /\ Age(r) \in Nat
        BY <1>1, <3>1, Parts, BackupsFinite DEF Age
      <3>3. CASE Placed(r)
        <4>1. PICK n \in DOMAIN backups : r \in ToSet(backups[n]) /\ Ranked(n, r)
          BY <3>3 DEF Placed
        <4>2. Ranked(n, r)'
          BY <1>1, <1>2, <3>2, <4>1 DEF Ranked, Numbers, Before, Above
        <4>. QED
          BY <1>1, <4>1, <4>2 DEF Safe, Placed
      <3>. QED
        BY <1>1, <1>7, <2>2, <3>1, <3>2, <3>3 DEF Safe
    <2>. QED
      BY <2>1, <2>2
  <1>11. UnmovedIsLive'
    BY <1>1, <1>2, <1>7, <1>8, Parts DEF UnmovedIsLive
  <1>12. BackupsCounted'
    BY <1>1, <1>2, Parts DEF BackupsCounted, Numbers, Expiring
  <1>. QED
    BY <1>1, <1>2, <1>5, <1>6, <1>8, <1>10, <1>11, <1>12 DEF RotationIInv

\* A set of numbers that is not empty has a least one.
LEMMA LeastName ==
    ASSUME NEW S, S \subseteq Nat, S # {}
    PROVE  \E m \in S : \A k \in S : m <= k
  <1>. DEFINE R == OpToRel(<, Nat)
  <1>1. IsWellFoundedOn(R, Nat)
    BY NatLessThanWellFounded
  <1>. HIDE DEF R
  <1>2. PICK m \in S : \A k \in S : <<k, m>> \notin R
    BY <1>1, WFMin
  <1>3. \A k \in S : ~(k < m)
    BY <1>2 DEF R, OpToRel
  <1>. QED
    BY <1>2, <1>3

\* Of a finite set of names, as many as b have fewer than b above them.
LEMMA LastNames ==
    ASSUME NEW D \in SUBSET Nat, IsFiniteSet(D), NEW b \in Nat,
           NEW K, K = {n \in D : Cardinality({k \in D : k > n}) < b}
    PROVE  Cardinality(K) <= b
  <1>1. CASE K = {}
    <2>1. Cardinality(K) = 0
      BY <1>1, FS_EmptySet
    <2>. QED
      BY <2>1
  <1>2. CASE K # {}
    <2>1. PICK m \in K : \A k \in K : m <= k
      BY <1>2, LeastName
    <2>2. PICK A : A = {k \in D : k > m}
      OBVIOUS
    <2>3. Cardinality(A) < b /\ IsFiniteSet(A) /\ Cardinality(A) \in Nat
      BY <2>1, <2>2, FS_Subset, FS_CardinalityType
    <2>4. PICK B : B = K \ {m}
      OBVIOUS
    <2>5. B \subseteq A
      <3>1. \A k \in B : k \in D /\ k \in Nat /\ m \in Nat /\ m <= k /\ k # m
        BY <2>1, <2>4
      <3>. QED
        BY <2>2, <3>1
    <2>6. IsFiniteSet(B) /\ Cardinality(B) <= Cardinality(A) /\ Cardinality(B) \in Nat
      BY <2>3, <2>5, FS_Subset, FS_CardinalityType
    <2>7. K \subseteq D /\ IsFiniteSet(K) /\ Cardinality(K) \in Nat
      <3>1. K \subseteq D
        OBVIOUS
      <3>. QED
        BY <3>1, FS_Subset, FS_CardinalityType
    <2>8. Cardinality(K) = Cardinality(B) + 1
      <3>1. Cardinality(B) = Cardinality(K) - 1
        BY <2>1, <2>4, <2>7, FS_RemoveElement
      <3>. QED
        BY <2>6, <2>7, <3>1
    <2>. QED
      BY <2>3, <2>6, <2>7, <2>8
  <1>. QED
    BY <1>1, <1>2

\* A backup that expires has backup_count above it, each of a later rollover.
LEMMA ExpireKeeps == RotationIInv /\ Expire => RotationIInv'
  <1>. SUFFICES ASSUME RotationIInv, Expire PROVE RotationIInv'
    OBVIOUS
  <1>1. /\ roll.pc = "expire" /\ roll' = [roll EXCEPT !.pc = "open"]
        /\ UNCHANGED <<config, failures, reopens, clock, rolloverAt, logFile, written,
                       dropped, attempts, movedAt, reused>>
    BY DEF Expire, env
  <1>2. /\ RollShape' /\ FailureCostsOneRecord' /\ roll'.pc = "open" /\ roll'.name = roll.name
        /\ roll'.record = roll.record
        /\ LogShape' => Timed'
    BY <1>1, StepKeepsShapes DEF Places
  <1>3. Timed' /\ logFile = Missing
    BY <1>1, <1>2, Parts, SameLog DEF RollConsistent
  <1>4. RollConsistent'
    BY <1>1, <1>2, <1>3 DEF RollConsistent, Before, Missing
  <1>5. HistoryShape' /\ UnmovedIsLive'
    BY <1>1, <1>2, Parts DEF HistoryShape, UnmovedIsLive
  <1>6. CASE ~Expiring
    <2>1. backups' = backups /\ ~Expiring'
      BY <1>1, <1>6 DEF Expire, Expiring
    <2>2. BackupsShape'
      BY <1>1, <2>1, Parts DEF BackupsShape, Names, Numbers
    <2>3. \A r \in DOMAIN movedAt' : Safe(r)'
      BY <1>1, <1>2, <2>1, SafeEases DEF Before
    <2>4. BackupsCounted'
      BY <2>1 DEF BackupsCounted, Expiring
    <2>. QED
      BY <1>2, <1>3, <1>4, <1>5, <2>2, <2>3, <2>4 DEF RotationIInv
  <1>7. CASE Expiring
    <2>0. ~Numbers
      BY <1>7 DEF Expiring, Numbers
    <2>1. PICK D, K : /\ D = DOMAIN backups
                      /\ K = {n \in D : Cardinality({k \in D : k > n}) < BackupCount}
      OBVIOUS
    <2>2. backups' = [n \in K |-> backups[n]]
      BY <1>7, <2>1 DEF Expire, Restrict
    <2>3. DOMAIN backups' = K /\ K \subseteq D /\ \A n \in K : backups'[n] = backups[n]
      BY <2>1, <2>2
    <2>4. backups' = [n \in DOMAIN backups' |-> backups'[n]]
      BY <2>2, <2>3
    <2>5. BackupsShape'
      <3>1. Names' = Names
        BY <1>1 DEF Names, Numbers
      <3>. QED
        BY <1>1, <2>1, <2>3, <2>4, <3>1, Parts DEF BackupsShape
    <2>6. ASSUME NEW r \in DOMAIN movedAt PROVE Safe(r)'
      <3>1. Safe(r) /\ Age(r)' = Age(r) /\ Age(r) \in Nat
        BY <1>1, Parts, BackupsFinite DEF Age
      <3>2. CASE Placed(r)
        <4>1. PICK n \in D : r \in ToSet(backups[n]) /\ Ranked(n, r)
          BY <2>1, <3>2 DEF Placed
        <4>2. CASE n \in K
          <5>1. roll'.pc \notin {"shift", "clear"} /\ (roll'.pc \in Before => roll.pc \in Before)
            BY <1>2 DEF Before
          <5>2. n \in DOMAIN backups /\ DOMAIN backups' \subseteq DOMAIN backups
            BY <2>1, <2>3, <4>1
          <5>3. Ranked(n, r)'
            BY <1>1, <4>1, <5>1, <5>2, Parts, RankEases
          <5>. QED
            BY <2>3, <4>1, <4>2, <5>3 DEF Safe, Placed
        <4>3. CASE n \notin K
          <5>1. PICK A : A = Above(n)
            OBVIOUS
          <5>2. A = {k \in D : k > n}
            BY <2>1, <5>1 DEF Above
          <5>3. ~(Cardinality({k \in D : k > n}) < BackupCount)
            BY <2>1, <4>1, <4>3
          <5>4. ~(Cardinality(A) < BackupCount)
            BY <5>2, <5>3
          <5>5. Cardinality(A) <= Age(r) /\ Cardinality(A) \in Nat
            BY <1>1, <2>0, <4>1, <5>1, Parts, BackupsFinite DEF Ranked, Before
          <5>6. Age(r) >= BackupCount
            BY <3>1, <5>4, <5>5, Parts
          <5>. QED
            BY <3>1, <5>6 DEF Safe
        <4>. QED
          BY <4>2, <4>3
      <3>. QED
        BY <1>1, <3>1, <3>2 DEF Safe
    <2>7. BackupsCounted'
      <3>1. D \in SUBSET Nat /\ IsFiniteSet(D) /\ BackupCount \in Nat
        BY <2>1, Parts, BackupsFinite
      <3>2. Cardinality(K) <= BackupCount
        BY <2>1, <3>1, LastNames
      <3>3. Cardinality(K) \in Nat
        BY <2>3, <3>1, FS_Subset, FS_CardinalityType
      <3>4. Cardinality(K) <= BackupCount + failures + reopens
        BY <3>1, <3>2, <3>3, Parts
      <3>. QED
        BY <1>1, <1>2, <2>3, <3>4, Parts DEF BackupsCounted, Numbers, Expiring
    <2>. QED
      BY <1>1, <1>2, <1>3, <1>4, <1>5, <2>5, <2>6, <2>7 DEF RotationIInv
  <1>. QED
    BY <1>6, <1>7

\* Each number moves up into one that is free, or off the end in its time.
LEMMA ShiftKeeps == RotationIInv /\ Shift => RotationIInv'
  <1>. SUFFICES ASSUME RotationIInv, Shift PROVE RotationIInv'
    OBVIOUS
  <1>1. /\ roll.pc = "shift" /\ Numbers /\ roll.shift \in 0..BackupCount - 1
        /\ UNCHANGED <<config, failures, reopens, clock, rolloverAt, logFile, written,
                       dropped, attempts, movedAt, reused>>
    BY Parts DEF Shift, env, RollShape
  <1>2. Numbers' /\ (logFile = Missing <=> logFile' = Missing')
    BY <1>1 DEF Numbers, Missing
  <1>3. Timed' /\ HistoryShape' /\ FailureCostsOneRecord' /\ BackupsCounted'
    <2>1. LogShape'
      BY <1>1, Parts, SameLog
    <2>. QED
      BY <1>1, <1>2, <2>1, Parts
      DEF Timed, HistoryShape, FailureCostsOneRecord, BackupsCounted, Expiring, Numbers
  <1>4. PICK i : i = roll.shift
    OBVIOUS
  <1>5. i \in 0..BackupCount - 1 /\ BackupCount \in Nat \ {0}
    BY <1>1, <1>4, Parts
  <1>6. CASE i = 0
    <2>1. roll' = [roll EXCEPT !.pc = "clear"] /\ backups' = backups
      BY <1>4, <1>6 DEF Shift
    <2>2. RollShape' /\ roll'.pc = "clear" /\ roll'.record = roll.record
          /\ roll'.shift = roll.shift
      BY <1>1, <1>4, <1>6, <2>1, Parts, RollTo DEF RollShape, Places, Numbers
    <2>3. RollConsistent'
      BY <1>1, <1>2, <2>1, <2>2, Parts DEF RollConsistent, Before
    <2>4. BackupsShape' /\ UnmovedIsLive'
      BY <1>1, <2>1, <2>2, Parts DEF BackupsShape, Names, Numbers, UnmovedIsLive
    <2>5. \A r \in DOMAIN movedAt' : Safe(r)'
      BY <1>1, <1>2, <2>1, <2>2, Parts DEF Safe, Placed, Ranked, Age
    <2>. QED
      BY <1>3, <2>2, <2>3, <2>4, <2>5 DEF RotationIInv
  <1>7. CASE i # 0
    <2>1. roll' = [roll EXCEPT !.shift = i - 1]
      BY <1>4, <1>7 DEF Shift
    <2>2. /\ roll' = [pc |-> roll'.pc, record |-> roll'.record, name |-> roll'.name,
                      shift |-> roll'.shift, now |-> roll'.now]
          /\ roll'.pc = "shift" /\ roll'.record = roll.record /\ roll'.name = roll.name
          /\ roll'.shift = i - 1 /\ roll'.now = roll.now
      <3>1. PICK p, a, b, c, d : p = roll.pc /\ a = roll.record /\ b = roll.name
                                 /\ c = roll.shift /\ d = roll.now
        OBVIOUS
      <3>2. roll = [pc |-> p, record |-> a, name |-> b, shift |-> c, now |-> d]
        BY <3>1, Parts DEF RollShape
      <3>3. roll' = [pc |-> p, record |-> a, name |-> b, shift |-> i - 1, now |-> d]
        BY <2>1, <3>2
      <3>. QED
        BY <1>1, <3>1, <3>3
    <2>3. RollShape' /\ UnmovedIsLive'
      <3>1. i - 1 \in 0..BackupCount - 1
        BY <1>5, <1>7
      <3>. QED
        BY <1>1, <1>2, <2>2, <3>1, Parts DEF RollShape, Places, UnmovedIsLive
    <2>4. /\ BackupsShape'
          /\ ~config.gz => i \notin DOMAIN backups'
          /\ \A n \in DOMAIN backups : n \notin {i, i + 1} =>
                n \in DOMAIN backups' /\ backups'[n] = backups[n]
          /\ i \in DOMAIN backups =>
                config.gz \/ (i + 1 \in DOMAIN backups' /\ backups'[i + 1] = backups[i])
          /\ config.gz => backups' = backups
          /\ i \notin DOMAIN backups => backups' = backups
      <3>1. CASE Taken(i)
        <4>1. PICK D : D = (DOMAIN backups \ {i}) \union {i + 1}
          OBVIOUS
        <4>2. backups' = [k \in D |-> IF k = i + 1 THEN backups[i] ELSE backups[k]]
          BY <1>4, <1>7, <3>1, <4>1 DEF Shift
        <4>3. i # i + 1 /\ i + 1 \in 1..BackupCount
          BY <1>5, <1>7
        <4>4. DOMAIN backups' = D /\ i \notin D /\ i + 1 \in D /\ backups'[i + 1] = backups[i]
          BY <4>1, <4>2, <4>3
        <4>5. \A n \in DOMAIN backups : n \notin {i, i + 1} =>
                n \in DOMAIN backups' /\ backups'[n] = backups[n]
          BY <4>1, <4>2
        <4>6. backups' = [n \in DOMAIN backups' |-> backups'[n]]
          BY <4>2, <4>4
        <4>7. i \in DOMAIN backups /\ ~config.gz
          BY <3>1 DEF Taken
        <4>8. D \subseteq 1..BackupCount
          BY <1>1, <4>1, <4>3, Parts DEF BackupsShape, Names
        <4>9. \A n \in D : backups'[n] \in Seq(1..written)
          BY <4>1, <4>4, <4>5, <4>7, Parts DEF BackupsShape
        <4>10. BackupsShape'
          BY <1>1, <1>2, <4>4, <4>6, <4>8, <4>9 DEF BackupsShape, Names
        <4>. QED
          BY <4>4, <4>5, <4>7, <4>10
      <3>2. CASE ~Taken(i)
        <4>1. backups' = backups
          BY <1>4, <1>7, <3>2 DEF Shift
        <4>2. BackupsShape'
          BY <1>1, <4>1, Parts DEF BackupsShape, Names, Numbers
        <4>. QED
          BY <3>2, <4>1, <4>2 DEF Taken
      <3>. QED
        BY <3>1, <3>2
    <2>5. RollConsistent'
      <3>1. i - 1 + 1 = i
        BY <1>5
      <3>. QED
        BY <1>1, <1>2, <2>2, <2>4, <3>1, Parts DEF RollConsistent, Before
    <2>6. ASSUME NEW r \in DOMAIN movedAt PROVE Safe(r)'
      <3>1. Safe(r) /\ Age(r)' = Age(r) /\ Age(r) \in Nat
        BY <1>1, Parts, BackupsFinite DEF Age
      <3>2. CASE Placed(r)
        <4>1. PICK n \in DOMAIN backups : r \in ToSet(backups[n]) /\ Ranked(n, r)
          BY <3>2 DEF Placed
        <4>2. n \in Nat
          BY <4>1, Parts, BackupsFinite
        <4>3. CASE config.gz
          <5>1. Ranked(n, r)'
            BY <1>1, <1>2, <4>3 DEF Ranked
          <5>. QED
            BY <2>4, <4>1, <4>3, <5>1 DEF Safe, Placed
        <4>4. CASE ~config.gz
          <5>1. n <= i + 1 => n <= Age(r)
            BY <1>1, <1>4, <4>1, <4>4 DEF Ranked
          <5>2. n > i + 1 => n <= Age(r) + 1
            BY <1>1, <1>4, <1>5, <3>1, <4>1, <4>2, <4>4 DEF Ranked
          <5>3. \A m \in Nat : /\ m <= i => (Ranked(m, r)' <=> m <= Age(r))
                               /\ m > i => (Ranked(m, r)' <=> m <= Age(r) + 1)
            <6>1. ASSUME NEW m \in Nat
                  PROVE  Ranked(m, r)' <=> m <= IF m <= i THEN Age(r) ELSE Age(r) + 1
              BY <1>1, <1>2, <1>5, <2>2, <3>1, <4>4 DEF Ranked
            <6>. QED
              BY <1>5, <6>1
          <5>4. CASE n = i
            <6>1. i + 1 \in DOMAIN backups' /\ backups'[i + 1] = backups[i] /\ i + 1 \in Nat
              BY <1>5, <2>4, <4>1, <4>4, <5>4
            <6>2. i + 1 <= Age(r) + 1 /\ i + 1 > i
              BY <1>5, <3>1, <5>1, <5>4
            <6>3. Ranked(i + 1, r)'
              BY <5>3, <6>1, <6>2
            <6>. QED
              BY <4>1, <5>4, <6>1, <6>3 DEF Safe, Placed
          <5>5. CASE n = i + 1
            <6>1. ~(i < BackupCount - 1)
              BY <1>1, <1>4, <4>1, <4>4, <5>5, Parts DEF RollConsistent
            <6>2. BackupCount <= Age(r)
              BY <1>5, <3>1, <5>1, <5>5, <6>1
            <6>. QED
              BY <1>1, <3>1, <6>2 DEF Safe
          <5>6. CASE n \notin {i, i + 1}
            <6>1. n \in DOMAIN backups' /\ backups'[n] = backups[n]
              BY <2>4, <4>1, <5>6
            <6>2. Ranked(n, r)'
              <7>1. CASE n <= i
                BY <1>5, <4>2, <5>1, <5>3, <7>1
              <7>2. CASE n > i
                <8>1. n > i + 1
                  BY <1>5, <4>2, <5>6, <7>2
                <8>. QED
                  BY <4>2, <5>2, <5>3, <7>2, <8>1
              <7>. QED
                BY <1>5, <4>2, <7>1, <7>2
            <6>. QED
              BY <4>1, <6>1, <6>2 DEF Safe, Placed
          <5>. QED
            BY <5>4, <5>5, <5>6
        <4>. QED
          BY <4>3, <4>4
      <3>. QED
        BY <1>1, <3>1, <3>2 DEF Safe
    <2>. QED
      BY <1>1, <1>3, <2>3, <2>4, <2>5, <2>6 DEF RotationIInv
  <1>. QED
    BY <1>6, <1>7

\* A record is written, or begins a rollover that makes every backup one older.
LEMMA EmitKeeps == RotationIInv /\ Emit => RotationIInv'
  <1>. SUFFICES ASSUME RotationIInv, Emit PROVE RotationIInv'
    OBVIOUS
  <1>1. /\ roll.pc = "idle" /\ roll.record = 0 /\ written' = written + 1 /\ written \in Nat
        /\ UNCHANGED <<config, failures, reopens, clock, rolloverAt, backups, dropped,
                       movedAt, reused>>
    BY Parts DEF Emit, env, RollShape
  <1>2. PICK w : w = written + 1
    OBVIOUS
  <1>3. w \in Nat /\ written' = w /\ 1..written \subseteq 1..w /\ w \in 1..w /\ w # 0
        /\ (1..w) \ {w} \subseteq 1..written
    BY <1>1, <1>2
  <1>4. BackupsShape' /\ Numbers' = Numbers
    <2>1. \A n \in DOMAIN backups : backups[n] \in Seq(1..w)
      BY <1>2, Parts, MoreRecords DEF BackupsShape
    <2>. QED
      BY <1>1, <1>3, <2>1, Parts DEF BackupsShape, Names, Numbers
  <1>5. FailureCostsOneRecord'
    BY <1>1, Parts DEF FailureCostsOneRecord
  <1>6. logFile.records \in Seq(1..w)
    BY <1>2, Parts, LogFile, MoreRecords
  <1>7. CASE ShouldRollover
    <2>1. /\ attempts' = attempts + 1
          /\ logFile' = IF TimeIsUp THEN logFile ELSE Opened
          /\ roll' = [pc |-> IF Numbers THEN "shift" ELSE "clear", record |-> w, now |-> clock,
                      shift |-> BackupCount - 1, name |-> IF Numbers THEN 1 ELSE rolloverAt - 1]
      BY <1>3, <1>7 DEF Emit
    <2>2. /\ roll' = [pc |-> roll'.pc, record |-> roll'.record, name |-> roll'.name,
                      shift |-> roll'.shift, now |-> roll'.now]
          /\ roll'.pc = IF Numbers THEN "shift" ELSE "clear"
          /\ roll'.record = w /\ roll'.now = clock /\ roll'.shift = BackupCount - 1
          /\ roll'.name = IF Numbers THEN 1 ELSE rolloverAt - 1
      BY <2>1
    <2>3. /\ logFile'.records = logFile.records /\ LogShape'
          /\ logFile' = Missing => TimeIsUp /\ logFile = Missing
      <3>1. CASE TimeIsUp
        <4>1. logFile' = logFile
          BY <2>1, <3>1
        <4>2. LogShape'
          BY <1>1, <1>3, <1>6, <4>1, Parts DEF LogShape, Missing
        <4>. QED
          BY <3>1, <4>1, <4>2
      <3>2. CASE ~TimeIsUp
        <4>1. PICK f : f = Opened
          OBVIOUS
        <4>2. /\ f = [exists |-> TRUE, records |-> f.records, mtime |-> f.mtime]
              /\ f.records = logFile.records /\ f.mtime \in rolloverAt - 1..clock /\ f # Missing
          BY <4>1, Parts, OpenedFile
        <4>3. logFile' = f
          BY <2>1, <3>2, <4>1
        <4>. QED
          BY <1>1, <1>3, <1>6, <4>2, <4>3 DEF LogShape
      <3>. QED
        BY <3>1, <3>2
    <2>4. Timed'
      BY <1>1, <1>3, <2>1, <2>3, Parts DEF Timed
    <2>5. RollShape'
      <3>1. clock \in rolloverAt - 1..clock /\ BackupCount - 1 \in 0..BackupCount - 1
        BY Parts
      <3>. QED
        BY <1>1, <1>3, <1>4, <2>2, <3>1 DEF RollShape, Places
    <2>6. RollConsistent'
      <3>1. logFile' = Missing => failures > 0 /\ config.time
        BY <1>1, <2>3, Parts DEF RollConsistent, TimeIsUp
      <3>2. ~(BackupCount - 1 < BackupCount - 1)
        BY Parts
      <3>. QED
        BY <1>1, <1>4, <2>2, <3>1, <3>2 DEF RollConsistent, Before, Missing
    <2>7. HistoryShape'
      <3>1. \A r \in DOMAIN movedAt : movedAt[r] \in 0..attempts + 1
        BY Parts DEF HistoryShape
      <3>. QED
        BY <1>1, <1>3, <2>1, <3>1, Parts DEF HistoryShape
    <2>8. ASSUME NEW r \in DOMAIN movedAt PROVE Safe(r)'
      <3>1. Safe(r) /\ Age(r)' = Age(r) + 1 /\ Age(r) \in Nat
        <4>1. Safe(r) /\ movedAt[r] \in Nat /\ attempts \in Nat
          BY Parts DEF HistoryShape
        <4>. QED
          BY <1>1, <2>1, <4>1, Parts, BackupsFinite DEF Age
      <3>2. CASE Placed(r)
        <4>1. PICK n \in DOMAIN backups : r \in ToSet(backups[n]) /\ Ranked(n, r)
          BY <3>2 DEF Placed
        <4>2. Ranked(n, r)'
          <5>1. CASE Numbers
            <6>1. config.gz \/ n <= Age(r) + 1
              BY <1>1, <4>1, <5>1 DEF Ranked
            <6>2. config.gz \/ (n <= Age(r)' /\ n <= Age(r)' + 1)
              BY <3>1, <4>1, <6>1, Parts, BackupsFinite
            <6>. QED
              BY <1>1, <1>4, <5>1, <6>2 DEF Ranked
          <5>2. CASE ~Numbers
            <6>1. Cardinality(Above(n)) <= Age(r) /\ Cardinality(Above(n)) \in Nat
              BY <1>1, <4>1, <5>2, Parts, BackupsFinite DEF Ranked, Before
            <6>2. Above(n)' = Above(n)
              BY <1>1 DEF Above
            <6>3. Cardinality(Above(n)') + 1 <= Age(r)'
              BY <3>1, <6>1, <6>2
            <6>. QED
              BY <1>4, <2>2, <5>2, <6>3 DEF Ranked, Before
          <5>. QED
            BY <5>1, <5>2
        <4>. QED
          BY <1>1, <4>1, <4>2 DEF Safe, Placed
      <3>3. Age(r) >= BackupCount => Age(r)' >= BackupCount
        BY <3>1, Parts
      <3>. QED
        BY <1>1, <2>3, <3>1, <3>2, <3>3 DEF Safe
    <2>9. UnmovedIsLive'
      BY <1>1, <1>3, <2>2, <2>3, Parts DEF UnmovedIsLive
    <2>10. BackupsCounted'
      BY <1>1, <1>4, <2>2, Parts DEF BackupsCounted, Expiring
    <2>. QED
      BY <1>1, <1>4, <1>5, <2>4, <2>5, <2>6, <2>7, <2>8, <2>9, <2>10 DEF RotationIInv
  <1>8. CASE ~ShouldRollover
    <2>1. UNCHANGED <<roll, attempts>> /\ logFile' = Extended(w)
      BY <1>3, <1>8 DEF Emit
    <2>2. PICK f : f = Extended(w)
      OBVIOUS
    <2>3. /\ f = [exists |-> TRUE, records |-> f.records, mtime |-> f.mtime]
          /\ f.records \in Seq(1..w) /\ f.mtime = clock /\ f # Missing
          /\ ToSet(f.records) = ToSet(logFile.records) \union {w}
      BY <1>2, <1>3, <2>2, Parts, ExtendedFile
    <2>4. LogShape'
      <3>1. f.mtime \in rolloverAt - 1..clock
        BY <2>3, Parts
      <3>. QED
        BY <1>1, <1>3, <2>1, <2>2, <2>3, <3>1 DEF LogShape
    <2>5. Timed'
      BY <1>1, <1>3, <2>1, <2>4, Parts DEF Timed
    <2>6. RollShape' /\ RollConsistent'
      <3>1. logFile' # Missing'
        BY <2>1, <2>2, <2>3 DEF Missing
      <3>. QED
        BY <1>1, <2>1, <3>1, Parts DEF RollShape, RollConsistent, Before
    <2>7. HistoryShape'
      BY <1>1, <1>3, <2>1, Parts DEF HistoryShape
    <2>8. \A r \in DOMAIN movedAt' : Safe(r)'
      <3>1. ToSet(logFile.records) \subseteq ToSet(logFile'.records)
        BY <2>1, <2>2, <2>3
      <3>. QED
        BY <1>1, <2>1, <3>1, SafeEases
    <2>9. UnmovedIsLive'
      BY <1>1, <1>3, <2>1, <2>2, <2>3, Parts DEF UnmovedIsLive
    <2>10. BackupsCounted'
      BY <1>1, <1>4, <2>1, Parts DEF BackupsCounted, Expiring
    <2>. QED
      BY <1>1, <1>4, <1>5, <2>5, <2>6, <2>7, <2>8, <2>9, <2>10 DEF RotationIInv
  <1>. QED
    BY <1>7, <1>8

\* Every step keeps the invariant.
LEMMA RotationKeeps == RotationIInv /\ [RotationNext]_rotationVars => RotationIInv'
  <1>. SUFFICES ASSUME RotationIInv, [RotationNext]_rotationVars PROVE RotationIInv'
    OBVIOUS
  <1>1. CASE UNCHANGED rotationVars
    <2>1. UNCHANGED <<config, failures, reopens, clock, rolloverAt, logFile, backups,
                      roll, written, dropped, attempts, movedAt, reused>>
      BY <1>1 DEF rotationVars, env
    <2>2. LogShape'
      BY <2>1, Parts, SameLog
    <2>3. Timed' /\ BackupsShape' /\ RollShape' /\ HistoryShape'
      BY <2>1, <2>2, Parts DEF Timed, BackupsShape, Names, Numbers, RollShape, HistoryShape
    <2>4. RollConsistent'
      BY <2>1, Parts DEF RollConsistent, Numbers, Missing
    <2>5. \A r \in DOMAIN movedAt' : Safe(r)'
      BY <2>1, Parts DEF Safe, Placed, Ranked, Age, Above, Numbers
    <2>6. UnmovedIsLive' /\ FailureCostsOneRecord' /\ BackupsCounted'
      BY <2>1, Parts DEF UnmovedIsLive, FailureCostsOneRecord, BackupsCounted, Numbers, Expiring
    <2>. QED
      BY <2>3, <2>4, <2>5, <2>6 DEF RotationIInv
  <1>2. CASE Emit
    BY <1>2, EmitKeeps
  <1>3. CASE Shift
    BY <1>3, ShiftKeeps
  <1>4. CASE SkipRollover
    BY <1>4, SkipRolloverKeeps
  <1>5. CASE ClearName
    BY <1>5, ClearNameKeeps
  <1>6. CASE Rename
    BY <1>6, RenameKeeps
  <1>7. CASE GzipRotator
    BY <1>7, SourceMissingKeeps, OpenArchiveKeeps, CopyContentsKeeps, RemoveSourceKeeps
    DEF GzipRotator
  <1>8. CASE Expire
    BY <1>8, ExpireKeeps
  <1>9. CASE OpenAndWrite
    BY <1>9, OpenAndWriteKeeps
  <1>10. CASE Fail
    BY <1>10, FailKeeps
  <1>11. CASE Reopen
    BY <1>11, ReopenKeeps
  <1>12. CASE Tick
    BY <1>12, TickKeeps
  <1>. QED
    BY <1>1, <1>2, <1>3, <1>4, <1>5, <1>6, <1>7, <1>8, <1>9, <1>10, <1>11, <1>12
    DEF RotationNext

\* The strengthening holds of every run of the handlers.
THEOREM RotationIInvAlways == RotationSpec => []RotationIInv
  BY InitRotation, RotationKeeps, PTL DEF RotationSpec

\* The invariant gives what the runs check.
LEMMA RotationIInvGives == RotationIInv => RotationInv /\ LostOnlyByReuse
  <1>. SUFFICES ASSUME RotationIInv PROVE RotationInv /\ LostOnlyByReuse
    OBVIOUS
  <1>1. RotationTypeOK
    <2>0. /\ MaxClock \in Nat /\ clock \in 1..MaxClock /\ rolloverAt \in 2..clock + 1
          /\ rolloverAt \in 1..MaxClock + 1
      <3>1. MaxClock \in Nat
        BY RotationAssumption
      <3>. QED
        BY <3>1, Parts
    <2>1. /\ logFile.exists \in BOOLEAN /\ ToSet(logFile.records) \subseteq 1..written
          /\ logFile.mtime \in 0..MaxClock
      <3>1. CASE logFile = Missing
        <4>1. logFile.exists = FALSE /\ logFile.mtime = 0
          BY <3>1 DEF Missing
        <4>2. logFile.exists \in BOOLEAN
          BY <4>1
        <4>3. logFile.mtime \in 0..MaxClock
          BY <2>0, <4>1
        <4>. QED
          BY <4>2, <4>3, Parts, LogFile
      <3>2. CASE logFile # Missing
        <4>1. logFile.exists = TRUE /\ logFile.mtime \in rolloverAt - 1..clock
          BY <3>2, Parts DEF LogShape
        <4>2. logFile.mtime \in 0..MaxClock
          BY <2>0, <4>1
        <4>. QED
          BY <4>1, <4>2, Parts, LogFile
      <3>. QED
        BY <3>1, <3>2
    <2>3. Names \subseteq 1..MaxClock + BackupCount
      <3>1. \A m \in Nat : m <= MaxClock + BackupCount => 1..m \subseteq 1..MaxClock + BackupCount
        BY Parts, <2>0
      <3>2. BackupCount <= MaxClock + BackupCount /\ rolloverAt - 1 <= MaxClock + BackupCount
            /\ rolloverAt - 1 \in Nat /\ BackupCount \in Nat
        BY Parts, <2>0
      <3>. QED
        BY <3>1, <3>2 DEF Names
    <2>. QED
      BY <2>0, <2>1, <2>3, Parts DEF RotationTypeOK, BackupsShape, RollShape, Places, HistoryShape
  <1>2. BackupsBounded
    <2>1. PICK c : c = Cardinality(DOMAIN backups)
      OBVIOUS
    <2>2. CASE Numbers
      <3>1. DOMAIN backups \subseteq 1..BackupCount
        BY <2>2, Parts DEF BackupsShape, Names
      <3>2. BackupCount \in Nat /\ 1 \in Int
        BY Parts
      <3>3. IsFiniteSet(1..BackupCount) /\ Cardinality(1..BackupCount) = BackupCount
        BY <3>2, FS_Interval
      <3>4. c <= BackupCount /\ c \in Nat
        BY <2>1, <3>1, <3>3, Parts, BackupsFinite, FS_Subset
      <3>5. c <= BackupCount + failures + reopens
        BY <3>4, Parts
      <3>. QED
        BY <2>1, <3>5 DEF BackupsBounded
    <2>3. CASE ~Numbers
      BY <2>3, Parts, BackupsFinite DEF BackupsBounded, BackupsCounted, Expiring
    <2>. QED
      BY <2>2, <2>3
  <1>3. LostOnlyByReuse
    <2>. SUFFICES ASSUME NEW r \in LostEarly PROVE r \in reused
      BY DEF LostOnlyByReuse
    <2>1. r \in DOMAIN movedAt /\ r \notin OnDisk /\ attempts < movedAt[r] + BackupCount
      BY DEF LostEarly
    <2>2. Safe(r) /\ Age(r) \in Nat /\ movedAt[r] \in Nat
      BY <2>1, Parts, BackupsFinite DEF HistoryShape
    <2>3. ~(Age(r) >= BackupCount)
      BY <2>1, <2>2, Parts DEF Age
    <2>4. r \notin ToSet(logFile.records) /\ ~Placed(r)
      BY <2>1 DEF OnDisk, Placed
    <2>. QED
      BY <2>2, <2>3, <2>4 DEF Safe
  <1>. QED
    BY <1>1, <1>2, <1>3, Parts DEF RotationInv

\* What was written and never moved is in the log; no more backups than backup_count
\* and one for each rollover cut off; a failure costs one record, but for the
\* compressing rotator that finds no log: for every configuration and bound.
THEOREM RotationInvAlways == RotationSpec => []RotationInv
  BY RotationIInvAlways, RotationIInvGives, PTL

\* A record is lost before backup_count rollovers came after its own only where the
\* name of its backup was used again, whichever system call fails and whenever the
\* process dies.
THEOREM LostOnlyByReuseAlways == RotationSpec => []LostOnlyByReuse
  BY RotationIInvAlways, RotationIInvGives, PTL

\* A step that lets the log outgrow its size skips a rollover.
LEMMA GrowthOfOneStep ==
    ASSUME RotationIInv, [RotationNext]_rotationVars, config.size,
           Len(logFile'.records) > Len(logFile.records), Len(logFile'.records) >= MaxBytes
    PROVE  ~Numbers /\ Taken(rolloverAt - 1)
  <1>1. PICK l, m : l = Len(logFile.records) /\ m = Len(logFile'.records)
    OBVIOUS
  <1>2. l \in Nat /\ m > l /\ m >= MaxBytes /\ MaxBytes \in Nat \ {0, 1}
    BY <1>1, Parts, LogFile, RotationAssumption
  <1>3. logFile'.records # logFile.records /\ logFile' # Missing /\ logFile' # logFile
        /\ logFile' # Opened
    <2>1. logFile'.records # logFile.records
      BY <1>1, <1>2
    <2>2. logFile'.records # <<>>
      BY <1>1, <1>2, NoRecords
    <2>. QED
      BY <2>1, <2>2, Parts, OpenedFile, LogFile
  <1>4. CASE Emit
    <2>1. ~ShouldRollover
      BY <1>3, <1>4 DEF Emit
    <2>2. PICK w : w = written + 1
      OBVIOUS
    <2>3. logFile' = Extended(w) /\ w \in 1..w /\ w \in {written, written + 1}
      BY <1>4, <2>1, <2>2, Parts DEF Emit
    <2>4. m = l + 1
      BY <1>1, <2>3, Parts, ExtendedFile
    <2>5. l + 1 >= MaxBytes
      BY <1>2, <2>4
    <2>. QED
      BY <1>1, <2>1, <2>5 DEF ShouldRollover
  <1>5. CASE SkipRollover
    BY <1>5, Parts DEF SkipRollover, RollShape
  <1>6. CASE OpenAndWrite
    <2>1. logFile = Missing
      BY <1>6, Parts DEF OpenAndWrite, RollConsistent
    <2>2. l = 0
      BY <1>1, <2>1, NoRecords, Parts, LogFile
    <2>3. PICK w, r : w = written /\ r = roll.record
      OBVIOUS
    <2>4. logFile' = Extended(r) /\ r \in 1..w /\ w \in {written, written + 1}
      BY <1>6, <2>3, Parts DEF OpenAndWrite, RollShape
    <2>5. m = l + 1
      BY <1>1, <2>4, Parts, ExtendedFile
    <2>. QED
      BY <1>2, <2>2, <2>5
  <1>7. CASE \/ Shift \/ ClearName \/ Rename \/ SourceMissing \/ OpenArchive \/ CopyContents
             \/ RemoveSource \/ Expire \/ Fail \/ Reopen \/ Tick \/ UNCHANGED rotationVars
    BY <1>3, <1>7 DEF Shift, ClearName, Rename, SourceMissing, OpenArchive, CopyContents,
       RemoveSource, Expire, Fail, Reopen, Tick, rotationVars
  <1>. QED
    BY <1>4, <1>5, <1>6, <1>7 DEF RotationNext, GzipRotator

\* The log outgrows max_size_mb only where the rollover of an interval is skipped.
THEOREM GrowsOnlyWhenTakenAlways == RotationSpec => GrowsOnlyWhenTaken
  <1>1. RotationIInv /\ [RotationNext]_rotationVars
           => [config.size /\ Len(logFile'.records) > Len(logFile.records) /\
               Len(logFile'.records) >= MaxBytes => ~Numbers /\ Taken(rolloverAt - 1)]_rotationVars
    BY GrowthOfOneStep
  <1>. QED
    BY <1>1, RotationIInvAlways, PTL DEF RotationSpec, GrowsOnlyWhenTaken
=============================================================================
