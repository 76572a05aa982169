--------------------------- MODULE AppendOnlyLog ---------------------------
(***************************************************************************)
(* What an append-only stream promises its callers, without versions read  *)
(* from a table, hashes or retries: a call that is running may put its one  *)
(* entry at the end of the log, atomically; a call answers Returned only    *)
(* after it has, Conflict only if it has not and never will.               *)
(* CommitLog implements this specification (see CommitLog!Abstract).       *)
(***************************************************************************)
EXTENDS Naturals, Sequences

CONSTANTS
    Calls,              \* the calls of append_commit, each made once
    Times               \* the times an entry can be stamped with

VARIABLES
    log,                \* the stream: a sequence of [by, stamp] entries
    answer              \* what each call has told its caller so far

logVars == <<log, answer>>

\* A call that raised (Failed) or died with its process (Gone) says nothing
\* about whether its entry is in the log.
Answers == {"none", "running", "Returned", "Conflict", "Failed", "Gone"}

Entry(c, t) == [by |-> c, stamp |-> t]

InLog(c) == \E i \in 1..Len(log) : log[i].by = c

LastStamp == IF log = <<>> THEN 0 ELSE log[Len(log)].stamp

Init == log = <<>> /\ answer = [c \in Calls |-> "none"]

Start(c) ==
    /\ answer[c] = "none"
    /\ \E a \in {"running", "Failed"} : answer' = [answer EXCEPT ![c] = a]
    /\ UNCHANGED log

\* The linearization point: entries never move, and their times never go back.
Put(c) ==
    /\ answer[c] = "running"
    /\ ~ InLog(c)
    /\ \E t \in Times : t >= LastStamp /\ log' = Append(log, Entry(c, t))
    /\ UNCHANGED answer

Answer(c) ==
    /\ answer[c] = "running"
    /\ \/ InLog(c) /\ answer' = [answer EXCEPT ![c] = "Returned"]
       \/ ~ InLog(c) /\ answer' = [answer EXCEPT ![c] = "Conflict"]
       \/ \E a \in {"Failed", "Gone"} : answer' = [answer EXCEPT ![c] = a]
    /\ UNCHANGED log

Next == \E c \in Calls : Start(c) \/ Put(c) \/ Answer(c)

Spec == Init /\ [][Next]_logVars
=============================================================================
