---------------------------- MODULE MCTelemetry ----------------------------
(* Spans and Rotation for TLC.  They share no state and no property relates *)
(* them, so a behaviour is one component's, beside the other at rest in one *)
(* of its initial states.                                                   *)
EXTENDS Spans, MCRotation, TLC

CONSTANTS a, b, h, s1, s2, t1

VARIABLE part           \* the component that a behaviour is of

parts == <<spansVars, rotationVars, part>>

-----------------------------------------------------------------------------
\* Spans: small instances, each with the bounds that its question needs.
AllThreads == Tasks \union Hosts
OneKey == (s1 :> t1) @@ (s2 :> Global)
InThenOut == (s1 :> "in") @@ (s2 :> "out")

Bounded == [spans |-> 2, depth |-> 2, kinds |-> {"agent"}, keys |-> {Global},
            outcomes |-> {"returned"}, generators |-> FALSE, tasks |-> 2,
            spawn |-> FALSE, headers |-> 0, faults |-> 0, configures |-> 0,
            sets |-> {}, fresh |-> FALSE]

\* Nested and sibling blocks of a task and of one it spawns.
Trees == [Bounded EXCEPT !.spans = 3, !.depth = 3, !.tasks = 1, !.spawn = TRUE,
                         !.generators = TRUE]

\* A task that calls the other, and both are called from elsewhere.
Requests == [Bounded EXCEPT !.headers = 2]

\* Every step of an emission may fail or be interrupted.
Failures == [Bounded EXCEPT !.faults = 2, !.tasks = 1, !.generators = TRUE,
                            !.kinds = {"agent", "llm"}, !.outcomes = {"returned", "raised"}]

\* Two tasks whose first spans find the pipeline unconfigured.
FirstUses == [Bounded EXCEPT !.fresh = TRUE, !.depth = 1, !.faults = 2]

\* A host that reconfigures the pipeline while a span is emitted.
Reconfigurations == [Bounded EXCEPT !.fresh = TRUE, !.spans = 1, !.tasks = 1,
                                    !.faults = 1, !.configures = 3]

\* Two tasks that export, for a tenant or none, while the opt-in changes.
Exports == [Bounded EXCEPT !.faults = 1, !.keys = Keys, !.sets = {s1, s2}]

SmallScopes == {Trees, Requests, Failures, FirstUses, Reconfigurations, Exports}

Symmetric == Permutations(Tasks)

-----------------------------------------------------------------------------
TelemetryInit ==
    /\ part \in {"spans", "rotation"}
    /\ SpansInit /\ RotationInit
    /\ part # "spans" => spanScope = Requests /\ path = "file"
    /\ part # "rotation" => {config} = Documented

SpansStep == part = "spans" /\ SpansNext /\ UNCHANGED <<rotationVars, part>>
RotationStep == part = "rotation" /\ RotationNext /\ UNCHANGED <<spansVars, part>>

TelemetrySpec == TelemetryInit /\ [][SpansStep \/ RotationStep]_parts
=============================================================================
