----------------------------- MODULE WriteQueue -----------------------------
(***************************************************************************)
(* storage.py, enqueue_append: the bounded queue and its one background     *)
(* writer.  A call makes sure the writer runs (double-checked locking),     *)
(* resolves the store it writes to, and hands the commit over without       *)
(* waiting; the writer appends in turn and swallows what fails, unless its   *)
(* warning fails too: that ends the thread, and a later call starts another. *)
(* A call of wait_for_pending_writes blocks until the queue is drained.      *)
(*                                                                         *)
(* append_commit is CommitLog's: one atomic append, or an exception.        *)
(***************************************************************************)
EXTENDS Naturals, Sequences, SequencesExt, FiniteSets

CONSTANTS
    Calls,              \* calls of enqueue_append, each made once
    Waiters,            \* calls of wait_for_pending_writes, each made once
    Stores,             \* the stores a tenant's region can be routed to
    Capacity,           \* maxsize of the queue
    Scopes,             \* bounds, of which a behaviour has one: see scope
    Nobody              \* no thread (None)

ASSUME QueueAssumption ==
    /\ Capacity \in Nat \ {0}
    /\ Scopes \subseteq [routeChanges : Nat, crashes : Nat, ends : Nat,
                  waits : SUBSET Waiters]
    /\ Nobody \notin Calls /\ Nobody \notin Stores

VARIABLES
    pc,                 \* where each call is
    lock,               \* _write_worker_lock
    workerThread,       \* _write_worker_thread, named for the call that made it
    worker,             \* what each thread made so far is doing
    item,               \* the commit each thread has in hand
    queue,              \* _write_queue
    unfinished,         \* the queue's count of unfinished tasks
    route,              \* the store the configuration routes to, if any
    engine,             \* the store each call resolved
    stored,             \* the commits appended, and where
    waiter,             \* the waits: their place, and what they wait for
    accepted,           \* history: the calls whose commit was queued, in order
    settled,            \* history: those appended or failed, in order
    during,             \* history: the routes in force while each call ran
    routeChanges, crashes,  \* history, for the bounds
    scope               \* bounds on the changes of the routing configuration,
                        \* the deaths of the process and the writers that end,
                        \* and the waits made

callVars == <<pc, lock, workerThread, engine>>
workVars == <<worker, item, queue, unfinished, stored, accepted, settled>>
boundVars == <<routeChanges, crashes, scope>>
vars == <<callVars, workVars, route, waiter, during, boundVars>>

Routes == Stores \union {Nobody}
Active == {"check", "lock", "recheck", "assign", "start", "resolve", "put"}

\* _write_worker_thread is not None and is_alive()
Alive == workerThread # Nobody /\ worker[workerThread] \notin {"unstarted", "dead"}

Init ==
    /\ pc = [c \in Calls |-> "idle"]
    /\ lock = Nobody
    /\ workerThread = Nobody
    /\ worker = [c \in Calls |-> "unstarted"]
    /\ item = [c \in Calls |-> Nobody]
    /\ queue = <<>>
    /\ unfinished = 0
    /\ route \in Routes
    /\ engine = [c \in Calls |-> Nobody]
    /\ stored = <<>>
    /\ waiter = [w \in Waiters |-> [pc |-> "idle", for |-> {}]]
    /\ accepted = <<>>
    /\ settled = <<>>
    /\ during = [c \in Calls |-> {}]
    /\ routeChanges = 0
    /\ crashes = 0
    /\ scope \in Scopes

Goto(c, label) == pc' = [pc EXCEPT ![c] = label]

-----------------------------------------------------------------------------
\* enqueue_append, first _ensure_write_worker.
Enqueue(c) ==
    /\ pc[c] = "idle"
    /\ Goto(c, "check")
    /\ during' = [during EXCEPT ![c] = {route}]
    /\ UNCHANGED <<lock, workerThread, engine, workVars, route, waiter, boundVars>>

CheckWorker(c) ==
    /\ pc[c] = "check"
    /\ Goto(c, IF Alive THEN "resolve" ELSE "lock")
    /\ UNCHANGED <<lock, workerThread, engine, workVars, route, waiter, during, boundVars>>

AcquireLock(c) ==
    /\ pc[c] = "lock"
    /\ lock = Nobody
    /\ lock' = c
    /\ Goto(c, "recheck")
    /\ UNCHANGED <<workerThread, engine, workVars, route, waiter, during, boundVars>>

\* Mutants of the actions below, for the runs that must notice them.
RecheckNothing(c) ==           \* locking, but not double-checked
    /\ pc[c] = "recheck"
    /\ Goto(c, "assign")
    /\ UNCHANGED <<lock, workerThread, engine, workVars, route, waiter, during, boundVars>>

PutBlocking(c) ==              \* put for put_nowait
    /\ pc[c] = "put"
    /\ Len(queue) < Capacity
    /\ queue' = Append(queue, c)
    /\ unfinished' = unfinished + 1
    /\ accepted' = Append(accepted, c)
    /\ Goto(c, "queued")
    /\ UNCHANGED <<lock, workerThread, engine, worker, item, stored, settled, route,
                   waiter, during, boundVars>>

WriteLateRoute(w) ==           \* the writer resolves the store itself
    /\ worker[w] = "append"
    /\ stored' = Append(stored, [call |-> item[w], store |-> route])
    /\ settled' = Append(settled, item[w])
    /\ worker' = [worker EXCEPT ![w] = "mark"]
    /\ UNCHANGED <<callVars, item, queue, unfinished, accepted, route, waiter,
                   during, boundVars>>

WriteMarkedFirst(w) ==         \* task_done before the append
    /\ worker[w] = "append"
    /\ unfinished' = unfinished - 1
    /\ worker' = [worker EXCEPT ![w] = "late"]
    /\ UNCHANGED <<callVars, item, queue, stored, accepted, settled, route, waiter,
                   during, boundVars>>

WriteUnmarked(w) ==            \* task_done only after a successful append
    /\ worker[w] = "append"
    /\ settled' = Append(settled, item[w])
    /\ \/ /\ stored' = Append(stored, [call |-> item[w], store |-> engine[item[w]]])
          /\ worker' = [worker EXCEPT ![w] = "mark"]
       \/ worker' = [worker EXCEPT ![w] = "get"] /\ UNCHANGED stored
    /\ UNCHANGED <<callVars, item, queue, unfinished, accepted, route, waiter,
                   during, boundVars>>

-----------------------------------------------------------------------------
RecheckWorker(c) ==
    /\ pc[c] = "recheck"
    /\ IF Alive THEN Goto(c, "resolve") /\ lock' = Nobody
                ELSE Goto(c, "assign") /\ UNCHANGED lock
    /\ UNCHANGED <<workerThread, engine, workVars, route, waiter, during, boundVars>>

\* The thread is published before it is started, both under the lock.
AssignWorker(c) ==
    /\ pc[c] = "assign"
    /\ workerThread' = c
    /\ Goto(c, "start")
    /\ UNCHANGED <<lock, engine, workVars, route, waiter, during, boundVars>>

\* start() may raise (no thread can be created): the call raises, and the
\* next one finds a thread that is not alive.
StartWorker(c) ==
    /\ pc[c] = "start"
    /\ \/ worker' = [worker EXCEPT ![c] = "get"] /\ Goto(c, "resolve")
       \/ Goto(c, "raised") /\ UNCHANGED worker
    /\ lock' = Nobody
    /\ UNCHANGED <<workerThread, engine, item, queue, unfinished, stored, accepted,
                   settled, route, waiter, during, boundVars>>

\* resolve_engine: an unrouted region raises.
Resolve(c) ==
    /\ pc[c] = "resolve"
    /\ IF route = Nobody
       THEN Goto(c, "raised") /\ UNCHANGED engine
       ELSE Goto(c, "put") /\ engine' = [engine EXCEPT ![c] = route]
    /\ UNCHANGED <<lock, workerThread, workVars, route, waiter, during, boundVars>>

\* put_nowait: a full queue drops the commit, with a warning that may raise.
Put(c) ==
    /\ pc[c] = "put"
    /\ IF Len(queue) < Capacity
       THEN /\ queue' = Append(queue, c)
            /\ unfinished' = unfinished + 1
            /\ accepted' = Append(accepted, c)
            /\ Goto(c, "queued")
       ELSE /\ Goto(c, "dropped") \/ Goto(c, "raised")
            /\ UNCHANGED <<queue, unfinished, accepted>>
    /\ UNCHANGED <<lock, workerThread, engine, worker, item, stored, settled, route,
                   waiter, during, boundVars>>

-----------------------------------------------------------------------------
\* _write_worker_loop
Get(w) ==
    /\ worker[w] = "get"
    /\ queue # <<>>
    /\ item' = [item EXCEPT ![w] = Head(queue)]
    /\ queue' = Tail(queue)
    /\ worker' = [worker EXCEPT ![w] = "append"]
    /\ UNCHANGED <<callVars, unfinished, stored, accepted, settled, route, waiter,
                   during, boundVars>>

\* The append lands in the store the caller resolved, or raises (masking, a
\* conflict, a locked file) and is dropped with a warning, which may raise too.
Ended == {v \in Calls : worker[v] \in {"doom", "ending", "dead"}}

Write(w) ==
    /\ worker[w] = "append"
    /\ \/ /\ stored' = Append(stored, [call |-> item[w], store |-> engine[item[w]]])
          /\ worker' = [worker EXCEPT ![w] = "mark"]
       \/ /\ UNCHANGED stored
          /\ \/ worker' = [worker EXCEPT ![w] = "mark"]
             \/ /\ Cardinality(Ended) < scope.ends
                /\ worker' = [worker EXCEPT ![w] = "doom"]
    /\ settled' = Append(settled, item[w])
    /\ UNCHANGED <<callVars, item, queue, unfinished, accepted, route, waiter,
                   during, boundVars>>

\* In the finally, which an exception of the warning passes through.
TaskDone(w) ==
    /\ worker[w] \in {"mark", "doom"}
    /\ unfinished' = unfinished - 1
    /\ item' = [item EXCEPT ![w] = Nobody]
    /\ worker' = [worker EXCEPT ![w] = IF @ = "mark" THEN "get" ELSE "ending"]
    /\ UNCHANGED <<callVars, queue, stored, accepted, settled, route, waiter,
                   during, boundVars>>

EndThread(w) ==
    /\ worker[w] = "ending"
    /\ worker' = [worker EXCEPT ![w] = "dead"]
    /\ UNCHANGED <<callVars, item, queue, unfinished, stored, accepted, settled, route,
                   waiter, during, boundVars>>

\* wait_for_pending_writes: what was queued and not settled when it is called.
Wait(w) ==
    /\ waiter[w].pc = "idle" /\ w \in scope.waits
    /\ waiter' = [waiter EXCEPT ![w] =
                     [pc |-> "waiting", for |-> ToSet(accepted) \ ToSet(settled)]]
    /\ UNCHANGED <<callVars, workVars, route, during, boundVars>>

Joined(w) ==
    /\ waiter[w].pc = "waiting"
    /\ unfinished = 0
    /\ waiter' = [waiter EXCEPT ![w].pc = "joined"]
    /\ UNCHANGED <<callVars, workVars, route, during, boundVars>>

\* set_region_config or register_region by anyone.
SetRoute ==
    /\ routeChanges < scope.routeChanges
    /\ \E r \in Routes \ {route} :
          /\ route' = r
          /\ during' = [c \in Calls |->
                           during[c] \union IF pc[c] \in Active THEN {r} ELSE {}]
    /\ routeChanges' = routeChanges + 1
    /\ UNCHANGED <<callVars, workVars, waiter, crashes, scope>>

\* The process dies with its daemon thread and everything queued.
Crash ==
    /\ crashes < scope.crashes
    /\ crashes' = crashes + 1
    /\ pc' = [c \in Calls |-> IF pc[c] \in Active THEN "gone" ELSE pc[c]]
    /\ lock' = Nobody /\ workerThread' = Nobody
    /\ worker' = [c \in Calls |-> "unstarted"]
    /\ item' = [c \in Calls |-> Nobody]
    /\ queue' = <<>> /\ unfinished' = 0
    /\ waiter' = [w \in Waiters |-> IF waiter[w].pc = "waiting"
                                    THEN [pc |-> "gone", for |-> {}] ELSE waiter[w]]
    /\ accepted' = settled
    /\ UNCHANGED <<engine, stored, settled, route, during, routeChanges, scope>>

CallStep(c) ==
    \/ CheckWorker(c) \/ AcquireLock(c) \/ RecheckWorker(c) \/ AssignWorker(c)
    \/ StartWorker(c) \/ Resolve(c) \/ Put(c)

WorkerStep(w) == Get(w) \/ Write(w) \/ TaskDone(w) \/ EndThread(w)

Next ==
    \/ \E c \in Calls : Enqueue(c) \/ CallStep(c) \/ WorkerStep(c)
    \/ \E w \in Waiters : Wait(w) \/ Joined(w)
    \/ SetRoute \/ Crash

Spec == Init /\ [][Next]_vars

\* Threads that can run get to run; whether anybody calls, reroutes or crashes
\* is left open.
FairSpec ==
    /\ Spec
    /\ \A c \in Calls : WF_vars(CallStep(c)) /\ WF_vars(WorkerStep(c))
    /\ \A w \in Waiters : WF_vars(Joined(w))

-----------------------------------------------------------------------------
\* The commit the writer is appending.
InHand ==
    IF workerThread # Nobody /\ worker[workerThread] = "append"
    THEN <<item[workerThread]>> ELSE <<>>

TypeOK ==
    /\ pc \in [Calls -> Active \union {"idle", "queued", "dropped", "raised", "gone"}]
    /\ lock \in Calls \union {Nobody} /\ workerThread \in Calls \union {Nobody}
    /\ worker \in [Calls -> {"unstarted", "get", "append", "mark", "doom", "ending", "dead"}]
    /\ item \in [Calls -> Calls \union {Nobody}]
    /\ queue \in Seq(Calls) /\ Len(queue) <= Capacity
    /\ unfinished \in Nat
    /\ engine \in [Calls -> Routes] /\ route \in Routes

\* Commits are taken off the queue one at a time and settled in the order
\* they were accepted, none twice and none skipped, however many callers race
\* to start the writer: everything accepted is settled, in hand or queued.
SettledInOrder == accepted = settled \o InHand \o queue

\* A commit lands in the store that was routed to while its enqueue_append
\* ran, whatever the routing has become when the writer gets to it.
StoredWhereRouted ==
    \A i \in 1..Len(stored) : stored[i].store \in during[stored[i].call]

\* wait_for_pending_writes returns only when every commit queued before it was
\* called has been appended or dropped by the writer.
JoinWaitsForAll ==
    \A w \in Waiters : waiter[w].pc = "joined" => waiter[w].for \subseteq ToSet(settled)

\* The types, the order and the store of every commit, and what a wait that
\* returned means.
QueueInv == TypeOK /\ SettledInOrder /\ StoredWhereRouted /\ JoinWaitsForAll

\* enqueue_append never waits for the writer: a call can go on by itself, or
\* waits for the lock and its holder can, with the queue full and the writer
\* in the middle of an append.
EnqueueNeverBlocks ==
    \A c \in Calls :
        pc[c] \in Active =>
            \/ ENABLED CallStep(c)
            \/ pc[c] = "lock" /\ lock # Nobody /\ ENABLED CallStep(lock)

\* Commits are queued behind a writer that a failing warning has ended, until a
\* call starts another.
Stalled == queue # <<>> /\ ~Alive /\ \E v \in Calls : worker[v] = "dead"

\* Unless the process dies, a wait ends, also when appends fail, warnings fail
\* and writers are replaced; only a stall that no later call ends stays.  A commit
\* accepted before it is settled when it does (JoinWaitsForAll), so then no
\* accepted commit stays unsettled either.
JoinReturns ==
    <>[]Stalled \/ \A w \in Waiters : waiter[w].pc = "waiting" ~> waiter[w].pc # "waiting"

-----------------------------------------------------------------------------
\* What AsyncAppends sees: the commits appended, the one in the writer's hand with
\* those behind it, and what the callers were told.
TheLog == [i \in DOMAIN stored |-> stored[i].call]
TheAnswer == [c \in Calls |->
    IF pc[c] = "idle" THEN "none" ELSE IF pc[c] \in Active THEN "running" ELSE pc[c]]

Abstract == INSTANCE AsyncAppends WITH
    log <- TheLog, spool <- InHand \o queue, answer <- TheAnswer

\* "Non-blocking, best-effort append": whatever the threads do, callers see a
\* spool that takes their commit or drops it when full, from which commits go
\* to the log in order, none twice, and in which none stays, but for a stall that
\* no later call ends.
ImplementsSpool == Abstract!Spec /\ (<>[]Stalled \/ Abstract!Progress)
=============================================================================
