---------------------------- MODULE LogPipeline ----------------------------
(***************************************************************************)
(* logging.py: the process-wide log pipeline, as configure builds and        *)
(* rebuilds it and get_logger configures it on first use.  configure is      *)
(* called from any thread and holds no lock: every read and write of the     *)
(* module's globals, of the root logger and of structlog's configuration is  *)
(* a step.  Handlers are told apart by a number; a closed handler that is    *)
(* still on the root logger opens its file again and writes.                 *)
(***************************************************************************)
EXTENDS Naturals, FiniteSets

CONSTANT
    Callers             \* whatever calls configure or get_logger

VARIABLES
    configured,         \* _configured
    active,             \* _active_file_handler, 0 for None
    root,               \* the handlers of ours on the root logger
    factory,            \* structlog's logger factory: "unset", "print", "stdlib"
    path,               \* log_file_path of the RotationConfig row: "file", "none"
    conf,               \* each thread's configure: place, destination, handler
    built,              \* calls of configure so far; numbers the handlers
    disturbed,          \* history: two calls ran at once, or one was cut off
    sound               \* history: the last call ran alone and returned

log == <<configured, active, root, factory, path, conf, built, disturbed, sound>>

ConfIdle == [pc |-> "idle", dest |-> "none", handler |-> 0, alone |-> TRUE]

LogInit ==
    /\ configured = FALSE /\ active = 0 /\ root = {} /\ factory = "unset"
    /\ path \in {"file", "none"}
    /\ conf = [t \in Callers |-> ConfIdle]
    /\ built = 0 /\ disturbed = FALSE /\ sound = FALSE

\* After a first call has returned, with the row's destination or another.
LogConfigured ==
    /\ configured = TRUE
    /\ \/ path = "none" /\ active = 0 /\ root = {} /\ factory = "print"
       \/ path = "file" /\ active = 1 /\ root = {1} /\ factory = "stdlib"
    /\ conf = [t \in Callers |-> ConfIdle]
    /\ built = 1 /\ disturbed = FALSE /\ sound = TRUE

UnderWay == {t \in Callers : conf[t].pc \notin {"idle", "returned", "raised"}}

\* One step of a call: place pc, then what it changes of the call.
ConfAt(t, pc) == conf[t].pc = pc
ConfTo(t, pc) == conf' = [conf EXCEPT ![t].pc = pc]

-----------------------------------------------------------------------------
\* The RotationConfig is read, and with it the destination settled: the argument
\* ("file") if there is one, else the row's path.
ReadConfig(t, argument) ==
    /\ ConfAt(t, "idle")
    /\ built' = built + 1
    /\ conf' = [u \in Callers |->
          IF u = t THEN [pc |-> "check", handler |-> built', alone |-> UnderWay = {},
                         dest |-> IF argument = "file" THEN "file" ELSE path]
          ELSE IF u \in UnderWay THEN [conf[u] EXCEPT !.alone = FALSE] ELSE conf[u]]
    /\ disturbed' = (disturbed \/ UnderWay # {})
    /\ sound' = FALSE
    /\ UNCHANGED <<configured, active, root, factory, path>>

\* Any step that may raise: the database, the handler that was None after all,
\* the file that cannot be opened.
Raise(t) ==
    /\ ConfTo(t, "raised")
    /\ UNCHANGED <<configured, active, root, factory, path, built, disturbed, sound>>

ConfigFails(t) == ConfAt(t, "idle") /\ Raise(t)

BuildAnew(t) ==                      \* the handler before is left where it is
    /\ ConfAt(t, "check") /\ ConfTo(t, "build")
    /\ UNCHANGED <<configured, active, root, factory, path, built, disturbed, sound>>

CheckActive(t) ==
    /\ ConfAt(t, "check")
    /\ ConfTo(t, IF active # 0 THEN "remove" ELSE "build")
    /\ UNCHANGED <<configured, active, root, factory, path, built, disturbed, sound>>

\* root.removeHandler(_active_file_handler): nothing, if it has become None.
RemoveHandler(t) ==
    /\ ConfAt(t, "remove")
    /\ root' = root \ {active}
    /\ ConfTo(t, "close")
    /\ UNCHANGED <<configured, active, factory, path, built, disturbed, sound>>

\* _active_file_handler.close(): AttributeError, if it has become None.
CloseHandler(t) ==
    /\ ConfAt(t, "close") /\ active # 0
    /\ ConfTo(t, "forget")
    /\ UNCHANGED <<configured, active, root, factory, path, built, disturbed, sound>>

CloseNone(t) == ConfAt(t, "close") /\ active = 0 /\ Raise(t)

ForgetHandler(t) ==
    /\ ConfAt(t, "forget")
    /\ active' = 0
    /\ ConfTo(t, "build")
    /\ UNCHANGED <<configured, root, factory, path, built, disturbed, sound>>

\* build_rotating_handler opens the file, and addHandler makes it the root's.
AddHandler(t) ==
    /\ ConfAt(t, "build") /\ conf[t].dest = "file"
    /\ root' = root \union {conf[t].handler}
    /\ ConfTo(t, "activate")
    /\ UNCHANGED <<configured, active, factory, path, built, disturbed, sound>>

BuildFails(t) == ConfAt(t, "build") /\ conf[t].dest = "file" /\ Raise(t)

ActivateHandler(t) ==
    /\ ConfAt(t, "activate")
    /\ active' = conf[t].handler
    /\ ConfTo(t, "structlog")
    /\ UNCHANGED <<configured, root, factory, path, built, disturbed, sound>>

\* structlog.configure, with the factory of the destination.
ConfigureStructlog(t) ==
    /\ \/ ConfAt(t, "structlog")
       \/ ConfAt(t, "build") /\ conf[t].dest = "none"
    /\ factory' = IF conf[t].dest = "file" THEN "stdlib" ELSE "print"
    /\ ConfTo(t, "flag")
    /\ UNCHANGED <<configured, active, root, path, built, disturbed, sound>>

SetConfigured(t) ==
    /\ ConfAt(t, "flag")
    /\ configured' = TRUE
    /\ sound' = conf[t].alone
    /\ ConfTo(t, "returned")
    /\ UNCHANGED <<active, root, factory, path, built, disturbed>>

\* The call has returned or raised to its caller; or is cut off by a signal.
Release(t) ==
    /\ conf' = [conf EXCEPT ![t] = ConfIdle]
    /\ disturbed' = (disturbed \/ t \in UnderWay)
    /\ UNCHANGED <<configured, active, root, factory, path, built, sound>>

Configure(t) ==
    \/ CheckActive(t) \/ RemoveHandler(t) \/ CloseHandler(t) \/ CloseNone(t)
    \/ ForgetHandler(t) \/ AddHandler(t) \/ ActivateHandler(t)
    \/ ConfigureStructlog(t) \/ SetConfigured(t)

\* set_rotation_config of the row that first use reads.
SetRotationConfig(p) ==
    /\ p # path
    /\ path' = p
    /\ UNCHANGED <<configured, active, root, factory, conf, built, disturbed, sound>>

\* Where an event goes that is logged now: how many lines of the log file, or
\* the console, or nowhere (the standard library's last resort has no INFO).
Lines == IF factory = "stdlib" THEN Cardinality(root) ELSE 0
Heard == factory = "print" \/ Lines > 0

-----------------------------------------------------------------------------
LogTypeOK ==
    /\ {configured, disturbed, sound} \subseteq BOOLEAN
    /\ root \union {active} \subseteq 0..built
    /\ factory \in {"unset", "print", "stdlib"} /\ path \in {"file", "none"}
    /\ built \in Nat

\* "Safe to call more than once": after a call that ran alone, whatever calls
\* failed or overlapped before it, events reach the destination it settled on.
SoundIsHeard == sound => Heard /\ (factory = "stdlib" <=> active # 0)

\* The log file holds a line per event: a second handler on it is left behind
\* only by calls that overlapped, first uses in two threads among them, or by one
\* that a signal cut off.
NoDoubleLines == Cardinality(root) > 1 => disturbed
=============================================================================
