------------------------------- MODULE Spans -------------------------------
(***************************************************************************)
(* instrumentation.py, tracecontext.py and failsafe.py: the spans that tasks *)
(* open and close under context variables, and the emission of each, which   *)
(* goes through the log pipeline (LogPipeline) and the export configuration  *)
(* (ConfigCache) and hands the span to the write queue.  A task is a thread *)
(* or an asyncio task with a Context of its own, copied from the task that   *)
(* spawned it.  Emission awaits nothing, yet runs beside other threads'.     *)
(***************************************************************************)
EXTENDS LogPipeline, ConfigCache, SequencesExt

CONSTANTS
    Tasks,              \* the Lookers, and a subset of Callers
    Hosts,              \* the other threads, which call configure
    Foreign,            \* trace and span of a caller elsewhere
    SpanScopes          \* bounds, of which a behaviour has one: see spanScope

ASSUME SpansAssumption ==
    /\ Tasks \subseteq Lookers /\ Tasks \union Hosts \subseteq Callers
    /\ Tasks \intersect Hosts = {} /\ Foreign \notin Nat
    /\ SpanScopes \subseteq
          [spans : Nat, depth : Nat, kinds : SUBSET {"agent", "tool", "llm"},
           keys : SUBSET Keys, outcomes : SUBSET {"returned", "raised"},
           generators : BOOLEAN, tasks : Nat, spawn : BOOLEAN, headers : Nat,
           faults : Nat, configures : Nat, sets : SUBSET Setters, fresh : BOOLEAN]

Unbound == [trace |-> 0, span |-> 0, state |-> FALSE]

\* The traceparent, with the tracestate, that a caller elsewhere may send.
ForeignHeader == [trace |-> Foreign, span |-> Foreign, state |-> TRUE]

VARIABLES
    ctx,                \* each task's context variables
    frames,             \* its with-blocks not yet left: span, kind, saved context
    emit,               \* its emission: place, block, event and what follows
    spans,              \* the spans, and what became of each
    headers,            \* headers sent to other tasks or processes
    live,               \* tasks running
    base,               \* the context a task began with
    entered,            \* history: the spans each task was ever bound to
    disordered,         \* history: tasks that left a block before an inner one
    faults,
    crashed,            \* history: tasks whose host was given an exception for a block
    spanScope               \* bounds: spans, depth, what may be opened and how left,
                        \* whether a block may be a generator's, tasks at the
                        \* start, whether tasks spawn, headers, faults, calls of
                        \* configure, the sets made, and whether the pipeline is
                        \* yet unconfigured

fixed == <<headers, live, base, crashed, spanScope>>
span == <<ctx, frames, entered, emit, spans, disordered, faults, fixed>>
spansVars == <<span, log, confVars>>

EmitIdle == [at |-> "idle", frame |-> 0, event |-> "span", after |-> "reset"]

SpansInit ==
    /\ spanScope \in SpanScopes
    /\ IF spanScope.fresh THEN LogInit ELSE LogConfigured
    /\ ConfigInit
    /\ ctx = [t \in Tasks |-> Unbound]
    /\ frames = [t \in Tasks |-> <<>>]
    /\ emit = [t \in Tasks |-> EmitIdle]
    /\ spans = <<>> /\ headers = {ForeignHeader}
    /\ live \in {L \in SUBSET Tasks : Cardinality(L) = spanScope.tasks}
    /\ base = [t \in Tasks |-> Unbound] /\ entered = [t \in Tasks |-> {}]
    /\ disordered = {} /\ faults = 0 /\ crashed = {}

Runs(t) == t \in live /\ emit[t].at = "idle"
EmitAt(t, place) == emit[t].at = place
Go(t, place) == emit' = [emit EXCEPT ![t].at = place]
GoWith(t, place, event, after) ==
    emit' = [emit EXCEPT ![t] = [at |-> place, frame |-> emit[t].frame,
                                 event |-> event, after |-> after]]
Frame(t) == frames[t][emit[t].frame]
Span(t) == Frame(t).span

-----------------------------------------------------------------------------
\* asyncio.create_task, or a copied Context: the new task starts from the context
\* as it is; a plain thread starts from an empty one.
Spawn(t, u, copied) ==
    /\ Runs(t) /\ u \notin live /\ spanScope.spawn
    /\ live' = live \union {u}
    /\ base' = [base EXCEPT ![u] = IF copied THEN ctx[t] ELSE Unbound]
    /\ ctx' = [ctx EXCEPT ![u] = base'[u]]
    /\ UNCHANGED <<frames, entered, emit, spans, headers, disordered, faults,
                   crashed, spanScope, log, confVars>>

Enter(t, kind, bound) ==
    /\ frames' = [frames EXCEPT ![t] = Append(@, [span |-> bound.span, kind |-> kind,
                                                  saved |-> ctx[t]])]
    /\ entered' = [entered EXCEPT ![t] = @ \union {bound.span}]

BindKeepingState(t, kind, bound) ==  \* the tracestate is set only when there is one
    /\ Enter(t, kind, bound)
    /\ ctx' = [ctx EXCEPT ![t] = [bound EXCEPT !.state = @ \/ ctx[t].state]]

BindEverywhere(t, kind, bound) ==    \* module globals, not context variables
    /\ Enter(t, kind, bound)
    /\ ctx' = [u \in Tasks |-> bound]

\* bound_trace_context on entry: set the three variables, keeping what they were.
Bind(t, kind, bound) ==
    /\ Enter(t, kind, bound)
    /\ ctx' = [ctx EXCEPT ![t] = bound]

\* agent_step, tool_call, llm_call on entry: the trace that is current or a new
\* one, the current span as parent, and no tracestate.
OpenSpan(t, kind, key) ==
    LET n == Len(spans) + 1
        trace == IF ctx[t].trace = 0 THEN n ELSE ctx[t].trace IN
    /\ Runs(t) /\ n <= spanScope.spans /\ Len(frames[t]) < spanScope.depth
    /\ spans' = Append(spans,
          [task |-> t, key |-> key, trace |-> trace, parent |-> ctx[t].span,
           outcome |-> "open", host |-> "inside", lines |-> 0, stored |-> 0,
           exported |-> FALSE, blamed |-> {},
           enclosed |-> \E i \in DOMAIN frames[t] : frames[t][i].span = ctx[t].span])
    /\ Bind(t, kind, [trace |-> trace, span |-> n, state |-> FALSE])
    /\ UNCHANGED <<emit, disordered, faults, fixed, log, confVars>>

\* An argument that AgentSpan, ToolSpan or LLMSpan does not accept: their
\* ValidationError goes to the host, outside of any fail-open block, and no block
\* is opened.
OpenSpanFails(t) ==
    /\ faults < spanScope.faults /\ faults' = faults + 1
    /\ Runs(t) /\ Len(spans) < spanScope.spans
    /\ crashed' = crashed \union {t}
    /\ UNCHANGED <<ctx, frames, entered, emit, spans, disordered, headers, live, base,
                   spanScope, log, confVars>>

\* extract_traceparent and bound_trace_context around the handling of a request,
\* with or without the tracestate it came with.
BindHeader(t, h, passed) ==
    /\ Runs(t) /\ Len(frames[t]) < spanScope.depth /\ spanScope.headers > 0
    /\ Bind(t, "bound", [h EXCEPT !.state = h.state /\ passed])
    /\ UNCHANGED <<emit, spans, disordered, faults, fixed, log, confVars>>

\* inject_traceparent, and the call that carries the headers.
Inject(t) ==
    /\ Runs(t) /\ ctx[t].trace # 0
    /\ headers' = headers \union {ctx[t]}
    /\ Cardinality(headers') <= spanScope.headers
    /\ UNCHANGED <<ctx, frames, entered, emit, spans, live, base, disordered, faults,
                   crashed, spanScope, log, confVars>>

-----------------------------------------------------------------------------
\* A block is left, normally or by an exception of the host's.  A block in a
\* generator is left when the generator is, maybe before one opened later.
LeaveBlock(t, i, outcome) ==
    LET kind == frames[t][i].kind IN
    /\ Runs(t) /\ (i = Len(frames[t]) \/ spanScope.generators)
    /\ disordered' = IF i = Len(frames[t]) THEN disordered ELSE disordered \union {t}
    /\ emit' = [emit EXCEPT ![t] =
          [at |-> CASE kind = "bound" -> "reset" [] kind = "llm" -> "cost"
                    [] OTHER -> "logger",
           frame |-> i, event |-> "span", after |-> "reset"]]
    /\ spans' = IF kind = "bound" THEN spans
                ELSE [spans EXCEPT ![frames[t][i].span].outcome = outcome]
    /\ UNCHANGED <<ctx, frames, entered, faults, fixed, log, confVars>>

\* _attribute_cost (CostQuota), in a fail-open block of its own.
AttributeCost(t) ==
    /\ EmitAt(t, "cost")
    /\ Go(t, "logger")
    /\ UNCHANGED <<ctx, frames, entered, spans, disordered, faults, fixed, log, confVars>>

\* get_logger: configure the pipeline on first use.
GetLogger(t) ==
    /\ EmitAt(t, "logger") /\ ~configured
    /\ ReadConfig(t, "none")
    /\ Go(t, "configuring")
    /\ UNCHANGED <<ctx, frames, entered, spans, disordered, faults, fixed, confVars>>

SwallowRest(t, blamed, after) ==     \* one fail-open block around the emission
    IF emit[t].event = "warning"
    THEN /\ GoWith(t, emit[t].after, "span", emit[t].after)
         /\ UNCHANGED spans
    ELSE /\ GoWith(t, "logger", "warning", "reset")
         /\ spans' = [spans EXCEPT ![Span(t)].blamed = @ \union {blamed}]

\* fail_open_context: a failure inside the block is logged as a warning, and what
\* comes after the block goes on; a failure of that warning is swallowed.
Swallow(t, blamed, after) ==
    IF emit[t].event = "warning"
    THEN /\ GoWith(t, emit[t].after, "span", emit[t].after)
         /\ UNCHANGED spans
    ELSE /\ GoWith(t, "logger", "warning", after)
         /\ spans' = [spans EXCEPT ![Span(t)].blamed = @ \union {blamed}]

FirstUse(t) ==
    /\ EmitAt(t, "configuring") /\ conf[t].pc \in {"returned", "raised"}
    /\ Release(t)
    /\ IF conf[t].pc = "returned" THEN Go(t, "logger") /\ UNCHANGED spans
       ELSE Swallow(t, "log", "store")
    /\ UNCHANGED <<ctx, frames, entered, disordered, faults, fixed, confVars>>

\* The structured event: on the console, or a line in each handler's file.
Logged(s) == [s EXCEPT !.lines = IF factory = "print" THEN 1 ELSE Lines,
                       !.blamed = IF sound THEN @ ELSE @ \union {"pipeline"}]

Say(t) ==
    /\ EmitAt(t, "logger") /\ configured
    /\ IF emit[t].event = "warning"
       THEN /\ GoWith(t, emit[t].after, "span", emit[t].after)
            /\ UNCHANGED spans
       ELSE /\ Go(t, "export")
            /\ spans' = [spans EXCEPT ![Span(t)] = Logged(@)]
    /\ UNCHANGED <<ctx, frames, entered, disordered, faults, fixed, log, confVars>>

\* export_*_span: nothing without the opt-in, else a span of the OTel SDK's.
BeginExport(t) ==
    /\ EmitAt(t, "export")
    /\ BeginLookup(t, spans[Span(t)].key)
    /\ Go(t, "lookup")
    /\ UNCHANGED <<ctx, frames, entered, spans, disordered, faults, fixed, log>>

EndExport(t) ==
    /\ EmitAt(t, "lookup") /\ look[t].pc = "found"
    /\ EndLookup(t)
    /\ spans' = [spans EXCEPT ![Span(t)].exported = (look[t].value = "in")]
    /\ Go(t, "store")
    /\ UNCHANGED <<ctx, frames, entered, disordered, faults, fixed, log>>

\* isolated_stream_id and enqueue_append (WriteQueue), which drops on a full queue.
StoreSpan(t, full) ==
    /\ EmitAt(t, "store")
    /\ spans' = IF full THEN [spans EXCEPT ![Span(t)].blamed = @ \union {"store"}]
                ELSE [spans EXCEPT ![Span(t)].stored = @ + 1]
    /\ Go(t, "reset")
    /\ UNCHANGED <<ctx, frames, entered, disordered, faults, fixed, log, confVars>>

ResetToBase(t) ==                    \* the variables are cleared, not reset
    /\ EmitAt(t, "reset")
    /\ ctx' = [ctx EXCEPT ![t] = base[t]]
    /\ frames' = [frames EXCEPT ![t] = RemoveAt(@, emit[t].frame)]
    /\ emit' = [emit EXCEPT ![t] = EmitIdle]
    /\ spans' = IF Frame(t).kind = "bound" THEN spans
                ELSE [spans EXCEPT ![Span(t)].host = spans[Span(t)].outcome]
    /\ UNCHANGED <<entered, disordered, faults, fixed, log, confVars>>

\* bound_trace_context on exit: each variable back to what its token kept.  What
\* left the block goes on to the host.
Reset(t) ==
    /\ EmitAt(t, "reset")
    /\ ctx' = [ctx EXCEPT ![t] = Frame(t).saved]
    /\ frames' = [frames EXCEPT ![t] = RemoveAt(@, emit[t].frame)]
    /\ emit' = [emit EXCEPT ![t] = EmitIdle]
    /\ spans' = IF Frame(t).kind = "bound" THEN spans
                ELSE [spans EXCEPT ![Span(t)].host =
                         IF "interrupt" \in spans[Span(t)].blamed THEN "interrupted"
                         ELSE spans[Span(t)].outcome]
    /\ UNCHANGED <<entered, disordered, faults, fixed, log, confVars>>

-----------------------------------------------------------------------------
\* An exception in the cost, the event, the export or the queueing of a span.
EmissionFails(t) ==
    /\ faults < spanScope.faults /\ faults' = faults + 1
    /\ \/ EmitAt(t, "cost") /\ Swallow(t, "cost", "logger") /\ UNCHANGED confVars
       \/ EmitAt(t, "logger") /\ configured /\ Swallow(t, "log", "store") /\ UNCHANGED confVars
       \/ /\ EmitAt(t, "lookup") /\ look[t].pc \in {"tenant", "global", "found"}
          /\ Swallow(t, "export", "store") /\ EndLookup(t)
       \/ EmitAt(t, "store") /\ Swallow(t, "store", "reset") /\ UNCHANGED confVars
    /\ UNCHANGED <<ctx, frames, entered, disordered, fixed, log>>

\* The first use fails to read the configuration.
FirstUseFails(t) ==
    /\ faults < spanScope.faults /\ faults' = faults + 1
    /\ EmitAt(t, "logger") /\ ~configured
    /\ ConfigFails(t) /\ Go(t, "configuring")
    /\ UNCHANGED <<ctx, frames, entered, spans, disordered, fixed, confVars>>

\* A configure, of the host's or of a first use, fails to open the file.
ConfigureFails(t) ==
    /\ faults < spanScope.faults /\ faults' = faults + 1
    /\ BuildFails(t)
    /\ UNCHANGED <<ctx, frames, entered, emit, spans, disordered, fixed, confVars>>

\* KeyboardInterrupt, which no fail-open block catches; the context is reset.
Interrupt(t) ==
    /\ faults < spanScope.faults /\ faults' = faults + 1
    /\ emit[t].at \notin {"idle", "reset"}
    /\ GoWith(t, "reset", "span", emit[t].after)
    /\ spans' = [spans EXCEPT ![Span(t)].blamed = @ \union {"interrupt"}]
    /\ Release(t) /\ EndLookup(t)
    /\ UNCHANGED <<ctx, frames, entered, disordered, fixed>>

-----------------------------------------------------------------------------
\* The host configures the pipeline, and set_export_config.
HostConfigure(h, argument) ==
    /\ built < spanScope.configures /\ ReadConfig(h, argument)
    /\ UNCHANGED <<span, confVars>>

HostSetsRotation(p) ==
    /\ spanScope.configures > 0 /\ SetRotationConfig(p)
    /\ UNCHANGED <<span, confVars>>

HostReturns(h) ==
    /\ conf[h].pc \in {"returned", "raised"} /\ Release(h)
    /\ UNCHANGED <<span, confVars>>

HostSets(s) ==
    /\ s \in spanScope.sets /\ SetConfig(s)
    /\ UNCHANGED <<span, log>>

Emission(t) ==
    \/ AttributeCost(t) \/ GetLogger(t) \/ FirstUse(t) \/ Say(t)
    \/ BeginExport(t) \/ EndExport(t) \/ (\E full \in BOOLEAN : StoreSpan(t, full))
    \/ Reset(t) \/ EmissionFails(t) \/ FirstUseFails(t) \/ Interrupt(t)

TaskStep(t) ==
    \/ \E kind \in spanScope.kinds, key \in spanScope.keys : OpenSpan(t, kind, key)
    \/ OpenSpanFails(t)
    \/ \E i \in DOMAIN frames[t], outcome \in spanScope.outcomes :
          LeaveBlock(t, i, outcome)
    \/ \E u \in Tasks, copied \in BOOLEAN : Spawn(t, u, copied)
    \/ \E h \in headers, passed \in BOOLEAN : BindHeader(t, h, passed)
    \/ Inject(t)
    \/ Emission(t)
    \/ GetConfig(t) /\ UNCHANGED <<span, log>>

SpansNext ==
    \/ \E t \in Tasks : TaskStep(t)
    \/ \E t \in Callers :
          \/ Configure(t) /\ UNCHANGED <<span, confVars>>
          \/ ConfigureFails(t)
    \/ \E h \in Hosts, argument \in {"file", "none"} : HostConfigure(h, argument)
    \/ \E h \in Hosts : HostReturns(h)
    \/ \E p \in {"file", "none"} : HostSetsRotation(p)
    \/ \E s \in Setters : HostSets(s)

SpansSpec == SpansInit /\ [][SpansNext]_spansVars

-----------------------------------------------------------------------------
SpansTypeOK ==
    /\ LogTypeOK /\ ConfigTypeOK
    /\ \A t \in Tasks :
          /\ ctx[t].span \in 0..Len(spans) \union {Foreign}
          /\ ctx[t].trace \in 0..Len(spans) \union {Foreign}
          /\ emit[t].frame \in {0} \union DOMAIN frames[t]
          /\ emit[t].at = "configuring" => conf[t].pc # "idle"

\* The vendor state that goes out with a trace is one that came in with it.
StateOfItsTrace == \A t \in Tasks : ctx[t].state => ctx[t].trace = Foreign

\* Types, the tracestate of outgoing calls (StateOfItsTrace) and the export's
\* cached opt-in, which outdates a set only by a lookup that raced with it
\* (StaleOnlyAfterRace).
SpansInv == SpansTypeOK /\ StateOfItsTrace /\ StaleOnlyAfterRace

\* A span has its parent's trace, and its parent is open around it in its own
\* task, or bound around it from a header, or was current where the task was
\* spawned; only a task that left blocks out of order may still be bound to a
\* span that has ended.  No task is ever given a span of another.
ParentsEnclose ==
    \A s \in DOMAIN spans :
        LET p == spans[s].parent
            t == spans[s].task IN
        /\ p \in DOMAIN spans => p < s /\ spans[p].trace = spans[s].trace
        /\ p = Foreign => spans[s].trace = Foreign
        /\ p = 0 => spans[s].trace = s
        /\ \/ p \in {0, base[t].span}
           \/ spans[s].enclosed
           \/ t \in disordered /\ p \in entered[t]

\* Whatever fails or interrupts an emission, a task that leaves its blocks from
\* the innermost out has the context of the block it is in, and in none the one
\* it began with.
ContextRestored ==
    \A t \in live \ disordered :
        IF frames[t] = <<>> THEN ctx[t] = base[t]
        ELSE ctx[t].span = Last(frames[t]).span

\* "One task's bound context never leaks into another's": the spans of a trace
\* form the tree of the blocks that opened them, however tasks interleave, fail
\* or are interrupted.
TraceIsTheTree == ParentsEnclose /\ ContextRestored

\* The host gets out of a block what it did in it, and each record of the span
\* is made once: a failure of the cost, the event, the export or the queue takes
\* its own record away and, of the event and the export that share a block, the
\* later; the event is in the log once, unless its first use or another
\* configure ran beside it or failed before it.
EmissionFailsOpen ==
    \A s \in DOMAIN spans : spans[s].host # "inside" =>
        LET blamed == spans[s].blamed IN
        /\ spans[s].host = spans[s].outcome \/ "interrupt" \in blamed
        /\ spans[s].stored = 1 \/ blamed \intersect {"store", "interrupt"} # {}
        /\ spans[s].stored <= 1
        /\ blamed \intersect {"log", "pipeline", "interrupt"} = {} =>
              spans[s].lines = 1 \/ (spans[s].lines > 1 /\ disturbed)

\* "Instrumentation never crashes your host application": a block gives the host
\* no exception of its own, on entry or on exit.
HostNeverCrashes ==
    /\ crashed = {}
    /\ \A s \in DOMAIN spans : spans[s].host # "inside" =>
          spans[s].host = spans[s].outcome \/ "interrupt" \in spans[s].blamed

\* configure is "safe to call more than once" (SoundIsHeard), and leaves a second
\* handler behind only when calls overlap or one is cut off (NoDoubleLines).
PipelineSound == SoundIsHeard /\ NoDoubleLines
=============================================================================
