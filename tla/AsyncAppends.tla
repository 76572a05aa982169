---------------------------- MODULE AsyncAppends ----------------------------
(***************************************************************************)
(* What enqueue_append promises, without threads, locks or a queue of the   *)
(* library's: a call answers at once, its commit joins a bounded spool or is *)
(* dropped when the spool is full; commits leave the spool in the order they *)
(* joined it, into the log or lost to a failing append.  Where there is      *)
(* progress, every commit in the spool leaves it, unless the process dies.   *)
(* WriteQueue implements this specification (see WriteQueue!Abstract).       *)
(***************************************************************************)
EXTENDS Naturals, Sequences

CONSTANTS
    Calls,              \* the calls of enqueue_append, each made once
    Capacity            \* commits that wait, beside the one being appended

VARIABLES
    log,                \* the commits appended, in order
    spool,              \* those accepted and not yet appended or lost
    answer              \* what each call has told its caller so far

spoolVars == <<log, spool, answer>>

Answers == {"none", "running", "queued", "dropped", "raised", "gone"}

Init == log = <<>> /\ spool = <<>> /\ answer = [c \in Calls |-> "none"]

Tell(c, a) == answer' = [answer EXCEPT ![c] = a]

Start(c) ==
    /\ answer[c] = "none"
    /\ Tell(c, "running")
    /\ UNCHANGED <<log, spool>>

Accept(c) ==
    /\ answer[c] = "running" /\ Len(spool) <= Capacity
    /\ spool' = Append(spool, c)
    /\ Tell(c, "queued")
    /\ UNCHANGED log

Drop(c) ==
    /\ answer[c] = "running" /\ Len(spool) >= Capacity
    /\ Tell(c, "dropped")
    /\ UNCHANGED <<log, spool>>

Raise(c) ==
    /\ answer[c] = "running"
    /\ Tell(c, "raised")
    /\ UNCHANGED <<log, spool>>

\* The oldest commit is appended, or its append fails for good.
Settle ==
    /\ spool # <<>>
    /\ spool' = Tail(spool)
    /\ log' = Append(log, Head(spool)) \/ log' = log
    /\ UNCHANGED answer

Die ==
    /\ spool' = <<>>
    /\ answer' = [c \in Calls |-> IF answer[c] = "running" THEN "gone" ELSE answer[c]]
    /\ UNCHANGED log

Next ==
    \/ \E c \in Calls : Start(c) \/ Accept(c) \/ Drop(c) \/ Raise(c)
    \/ Settle \/ Die

Spec == Init /\ [][Next]_spoolVars

\* Nothing stays in the spool for good.
Progress == WF_spoolVars(Settle)
=============================================================================
