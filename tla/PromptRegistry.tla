--------------------------- MODULE PromptRegistry ---------------------------
(***************************************************************************)
(* prompts.py and evaluation.py for one prompt slot: versions registered    *)
(* under the hash of their content, the golden-set evaluation of what is     *)
(* new, and the slot's aliases, of which production is gated on the          *)
(* evaluations.  Threads of some processes over one database: the golden set  *)
(* is each process's own, each SELECT is a snapshot of its own, each commit  *)
(* is atomic, and the calls interleave between them.  As in Tenancy, the ORM *)
(* updates and deletes by a row's id, writes the columns that differ from    *)
(* what it loaded, and SQLite may give the id of a deleted row again.        *)
(***************************************************************************)
EXTENDS Integers, Sequences, FiniteSetsExt, Functions

CONSTANTS
    Processes,
    Registers,          \* calls of register_prompt_version
    Reruns,             \* calls of run_golden_eval
    Promotes,           \* calls of set_prompt_alias
    Clears,             \* calls of clear_prompt_alias
    Outcomes,           \* the aggregates a runner can produce, in whole units:
                        \* by column: passRate (percent), cost, p95
    PassRateMaxDrop, CostMaxIncrease, P95MaxIncrease,    \* percent
    Scopes,             \* bounds, of which a behaviour has one: see scope
    Absent              \* no version, no summary

Ids == 1..Cardinality(Registers)
Evals == Registers \union Reruns
Columns == {"passRate", "cost", "p95"}

ASSUME PromptAssumption ==
    /\ IsFiniteSet(Registers) /\ Registers # {}
    /\ {PassRateMaxDrop, CostMaxIncrease, P95MaxIncrease} \subseteq Nat
    /\ Outcomes \subseteq [Columns -> Nat] /\ \A o \in Outcomes : o.passRate <= 100
    /\ Absent \notin [Columns -> Nat] /\ Absent \notin Ids
    /\ \A s \in Scopes : /\ DOMAIN s.content = Registers
                         /\ s.suites \subseteq SUBSET Processes

VARIABLES
    versions,           \* PromptVersion, by id: [content, number]
    summary,            \* EvalSummary, by version id
    aliases,            \* PromptAlias, by id: [alias, version]
    suites,             \* the processes whose _suites has a golden set for the slot
    eval,               \* the registrations and reruns: place and locals
    promote,            \* the promotions: place and locals
    clear,              \* the clears: place
    served,             \* history: what its alias named since each promotion began
    steady,             \* history: the versions evaluated by then, and not again
                        \* since
    freed,              \* history: promotions whose row was deleted before their UPDATE
    ungated,            \* history: promotions to production from a process that had
                        \* no golden set as they began
    runnerErrors, suiteChanges, deaths,     \* history, for the bounds
    scope               \* the calls made, the content each registration
                        \* fingerprints, the alias each promotion and clear is
                        \* about, the process of each, the golden sets there
                        \* may be at the start, and bounds on the runs of
                        \* the suite that raise, on the golden sets registered and
                        \* cleared, and on the processes that die; whether the
                        \* registrations are over at the start

bounds == <<runnerErrors, suiteChanges, deaths, scope>>
pointers == <<aliases, served, freed, ungated>>
promptVars == <<versions, summary, pointers, steady, suites, eval, promote, clear, bounds>>

VersionOf(content) == {i \in 1..Len(versions) : versions[i].content = content}
Production == "production"
RowIn(tab, alias) == {k \in DOMAIN tab : tab[k].alias = alias}
NamedIn(tab, alias) ==
    IF RowIn(tab, alias) = {} THEN Absent ELSE tab[Max(RowIn(tab, alias))].version
Named(alias) == NamedIn(aliases, alias)
production == Named(Production)
Holds(call) == scope.process[call] \in suites
NextId(tab) == IF DOMAIN tab = {} THEN 1 ELSE Max(DOMAIN tab) + 1
WithRow(tab, id, row) == [k \in DOMAIN tab \union {id} |-> IF k = id THEN row ELSE tab[k]]

First(ids) == CHOOSE i \in ids : \A j \in ids : i <= j

EvalIdle == [pc |-> "idle", number |-> 0, id |-> Absent, outcome |-> Absent,
             found |-> Absent]
EvalOver == [EvalIdle EXCEPT !.pc = "returned"]
PromoteIdle == [pc |-> "idle", id |-> Absent, current |-> Absent, candidate |-> Absent,
                row |-> 0, loaded |-> Absent]

\* Nothing is registered yet; or each content is, the first was evaluated and
\* the run of the suite raised for another, and the alias canary names the first.
Unregistered ==
    /\ versions = <<>> /\ aliases = <<>>
    /\ summary = [i \in Ids |-> Absent]
    /\ eval = [e \in Evals |-> EvalIdle]
    /\ runnerErrors = 0

AllRegistered ==
    \E order \in {f \in [Ids -> Registers] : IsInjective(f)}, o \in Outcomes :
        /\ versions = [i \in Ids |-> [content |-> scope.content[order[i]], number |-> i]]
        /\ aliases = <<[alias |-> "canary", version |-> 1]>>
        /\ summary = [i \in Ids |-> IF i = 1 THEN o ELSE Absent]
        /\ eval = [e \in Evals |-> IF e \in Registers THEN EvalOver ELSE EvalIdle]
        /\ runnerErrors = Cardinality(Ids) - 1

PromptInit ==
    /\ scope \in Scopes
    /\ IF scope.registered THEN AllRegistered ELSE Unregistered
    /\ suites \in scope.suites
    /\ promote = [p \in Promotes |-> PromoteIdle]
    /\ clear = [c \in Clears |-> [pc |-> "idle", row |-> 0]]
    /\ served = [p \in Promotes |-> {}] /\ freed = {} /\ ungated = {}
    /\ steady = [p \in Promotes |-> {}]
    /\ suiteChanges = 0
    /\ deaths = 0

EvalStep(e, label) == eval' = [eval EXCEPT ![e].pc = label]
EvalBecomes(e, call) == eval' = [eval EXCEPT ![e] = call]
PromoteTo(p, label) == promote' = [promote EXCEPT ![p].pc = label]
PromoteBecomes(p, call) == promote' = [promote EXCEPT ![p] = call]

-----------------------------------------------------------------------------
\* register_prompt_version: link to the row with this content, or count the
\* rows for a number and add one.
FindExisting(g) ==
    LET existing == VersionOf(scope.content[g]) IN
    /\ eval[g].pc = "idle" /\ g \in scope.calls
    /\ EvalBecomes(g, IF existing = {} THEN [eval[g] EXCEPT !.pc = "count"]
                      ELSE [eval[g] EXCEPT !.pc = "returned", !.id = First(existing)])
    /\ UNCHANGED <<versions, summary, suites, promote, clear, pointers, steady, bounds>>

CountVersions(g) ==
    /\ eval[g].pc = "count"
    /\ EvalBecomes(g, [eval[g] EXCEPT !.pc = "insert", !.number = Len(versions) + 1])
    /\ UNCHANGED <<versions, summary, suites, promote, clear, pointers, steady, bounds>>

InsertVersion(g) ==
    /\ eval[g].pc = "insert"
    /\ versions' = Append(versions, [content |-> scope.content[g], number |-> eval[g].number])
    /\ EvalBecomes(g, [eval[g] EXCEPT !.pc = "detect", !.id = Len(versions) + 1])
    /\ UNCHANGED <<summary, suites, promote, clear, pointers, steady, bounds>>

\* maybe_eval_on_detection, on what this call added only.
EvalOnDetection(g) ==
    /\ eval[g].pc = "detect"
    /\ EvalStep(g, IF Holds(g) THEN "run" ELSE "returned")
    /\ UNCHANGED <<versions, summary, suites, promote, clear, pointers, steady, bounds>>

-----------------------------------------------------------------------------
\* run_golden_eval by the host, of some version, and the steps both share: the
\* suite, looked up anew, is run, and the summary's row updated or added.
StartRerun(e) ==
    /\ eval[e].pc = "idle" /\ e \in scope.calls
    /\ \E i \in 1..Len(versions) :
          EvalBecomes(e, [eval[e] EXCEPT !.pc = "run", !.id = i])
    /\ UNCHANGED <<versions, summary, suites, promote, clear, pointers, steady, bounds>>

\* On detection every error is swallowed; a rerun hands it to the host.
Failed(e) == IF e \in Registers THEN "returned" ELSE "raised"

RunSuite(e) ==
    /\ eval[e].pc = "run"
    /\ IF Holds(e)
       THEN \E o \in Outcomes :
               EvalBecomes(e, [eval[e] EXCEPT !.pc = "select", !.outcome = o])
       ELSE EvalStep(e, Failed(e))
    /\ UNCHANGED <<versions, summary, suites, promote, clear, pointers, steady, bounds>>

RunnerRaises(e) ==
    /\ eval[e].pc = "run" /\ Holds(e)
    /\ runnerErrors < scope.errors
    /\ runnerErrors' = runnerErrors + 1
    /\ EvalStep(e, Failed(e))
    /\ UNCHANGED <<versions, summary, suites, promote, clear, pointers, steady,
                   suiteChanges, deaths, scope>>

SelectSummary(e) ==
    /\ eval[e].pc = "select"
    /\ EvalBecomes(e, [eval[e] EXCEPT !.pc = "persist", !.found = summary[eval[e].id]])
    /\ UNCHANGED <<versions, summary, suites, promote, clear, pointers, steady, bounds>>

\* An INSERT of the outcome, or an UPDATE of the columns that differ from the
\* row the SELECT found: where another run wrote since, a row of both.
Written(found, now, outcome) ==
    IF found = Absent THEN outcome
    ELSE [c \in Columns |-> IF outcome[c] = found[c] THEN now[c] ELSE outcome[c]]

\* The summary of version i; the promotions under way see it evaluated again.
Summarise(e, i) ==
    /\ summary' = [summary EXCEPT ![i] = Written(eval[e].found, @, eval[e].outcome)]
    /\ steady' = [p \in Promotes |-> steady[p] \ {i}]

PersistFound(e) ==                   \* only ever an update
    /\ eval[e].pc = "persist"
    /\ IF eval[e].found = Absent THEN UNCHANGED <<summary, steady>>
       ELSE Summarise(e, eval[e].id)
    /\ EvalStep(e, "returned")
    /\ UNCHANGED <<versions, suites, promote, clear, pointers, bounds>>

\* The unique prompt_version_id makes the second of two inserts fail.
PersistSummary(e) ==
    /\ eval[e].pc = "persist"
    /\ IF eval[e].found = Absent /\ summary[eval[e].id] # Absent
       THEN EvalStep(e, Failed(e)) /\ UNCHANGED <<summary, steady>>
       ELSE Summarise(e, eval[e].id) /\ EvalStep(e, "returned")
    /\ UNCHANGED <<versions, suites, promote, clear, pointers, bounds>>

-----------------------------------------------------------------------------
\* assert_production_promotion_allowed: a drop or an increase past its cap; a
\* cost or a latency of 0 in the baseline is unknown and gates nothing.
Regressed(candidate, baseline) ==
    \/ baseline.passRate - candidate.passRate > PassRateMaxDrop
    \/ /\ baseline.cost > 0
       /\ (candidate.cost - baseline.cost) * 100 > CostMaxIncrease * baseline.cost
    \/ /\ baseline.p95 > 0
       /\ (candidate.p95 - baseline.p95) * 100 > P95MaxIncrease * baseline.p95

Alias(call) == scope.alias[call]

\* set_prompt_alias(slot, alias, i) for a version of the slot: production is
\* gated when its process has a golden set.
StartPromotion(p) ==
    /\ promote[p].pc = "idle" /\ p \in scope.calls
    /\ \E i \in 1..Len(versions) :
          PromoteBecomes(p, [promote[p] EXCEPT
             !.pc = IF Holds(p) /\ Alias(p) = Production THEN "candidate" ELSE "alias",
             !.id = i])
    /\ ungated' = IF Alias(p) = Production /\ ~Holds(p) THEN ungated \union {p} ELSE ungated
    /\ served' = [served EXCEPT ![p] = {Named(Alias(p))}]
    /\ steady' = [steady EXCEPT ![p] = {i \in Ids : summary[i] # Absent}]
    /\ UNCHANGED <<versions, summary, aliases, freed, suites, eval, clear, bounds>>

CheckCandidateOpen(p) ==             \* no summary, no gate
    LET candidate == summary[promote[p].id] IN
    /\ promote[p].pc = "candidate"
    /\ PromoteBecomes(p, [promote[p] EXCEPT
          !.pc = IF candidate = Absent THEN "alias" ELSE "current",
          !.candidate = candidate])
    /\ UNCHANGED <<versions, summary, suites, eval, clear, pointers, steady, bounds>>

CheckCandidate(p) ==
    LET candidate == summary[promote[p].id] IN
    /\ promote[p].pc = "candidate"
    /\ PromoteBecomes(p, [promote[p] EXCEPT
          !.pc = IF candidate = Absent THEN "refused" ELSE "current",
          !.candidate = candidate])
    /\ UNCHANGED <<versions, summary, suites, eval, clear, pointers, steady, bounds>>

FindCurrent(p) ==
    /\ promote[p].pc = "current"
    /\ PromoteBecomes(p, [promote[p] EXCEPT
          !.pc = IF production \in {Absent, promote[p].id} THEN "alias" ELSE "baseline",
          !.current = production])
    /\ UNCHANGED <<versions, summary, suites, eval, clear, pointers, steady, bounds>>

CompareBaselineSwapped(p) ==         \* how far the baseline falls short
    LET baseline == summary[promote[p].current] IN
    /\ promote[p].pc = "baseline"
    /\ PromoteTo(p, IF baseline # Absent /\ Regressed(baseline, promote[p].candidate)
                    THEN "refused" ELSE "alias")
    /\ UNCHANGED <<versions, summary, suites, eval, clear, pointers, steady, bounds>>

CompareBaseline(p) ==
    LET baseline == summary[promote[p].current] IN
    /\ promote[p].pc = "baseline"
    /\ PromoteTo(p, IF baseline # Absent /\ Regressed(promote[p].candidate, baseline)
                    THEN "refused" ELSE "alias")
    /\ UNCHANGED <<versions, summary, suites, eval, clear, pointers, steady, bounds>>

\* The row is there, or to be inserted.
Load(p, otherwise) ==
    LET rows == RowIn(aliases, Alias(p)) IN
    PromoteBecomes(p, IF rows = {} THEN [promote[p] EXCEPT !.pc = otherwise]
                      ELSE [promote[p] EXCEPT !.pc = "update", !.row = Max(rows),
                                              !.loaded = Named(Alias(p))])

SelectAlias(p) ==
    /\ promote[p].pc = "alias"
    /\ Load(p, "insert")
    /\ UNCHANGED <<versions, summary, suites, eval, clear, pointers, steady, bounds>>

\* The aliases become tab; the promotions under way see it.
Aliases(tab) ==
    /\ aliases' = tab
    /\ served' = [p \in Promotes |-> served[p] \union {NamedIn(tab, Alias(p))}]

\* A second first insert loses on (slot_name, alias) and reloads the row.
InsertAlias(p) ==
    /\ promote[p].pc = "insert"
    /\ IF Named(Alias(p)) = Absent
       THEN /\ Aliases(WithRow(aliases, NextId(aliases),
                               [alias |-> Alias(p), version |-> promote[p].id]))
            /\ PromoteBecomes(p, [promote[p] EXCEPT !.pc = "refresh",
                                                    !.row = NextId(aliases)])
       ELSE PromoteTo(p, "reload") /\ UNCHANGED <<aliases, served>>
    /\ UNCHANGED <<versions, summary, suites, eval, clear, freed, ungated, steady, bounds>>

ReloadAlias(p) ==
    /\ promote[p].pc = "reload"
    /\ Load(p, "failed")
    /\ UNCHANGED <<versions, summary, suites, eval, clear, pointers, steady, bounds>>

\* UPDATE by id, of the version if it is not the one loaded; raises when no row
\* has the id.  A row inserted since under that id takes the update.
UpdateAlias(p) ==
    LET k == promote[p].row IN
    /\ promote[p].pc = "update"
    /\ IF k \in DOMAIN aliases
       THEN /\ Aliases(IF promote[p].id = promote[p].loaded THEN aliases
                       ELSE WithRow(aliases, k, [alias |-> aliases[k].alias,
                                                 version |-> promote[p].id]))
            /\ PromoteTo(p, "refresh")
       ELSE PromoteTo(p, "failed") /\ UNCHANGED <<aliases, served>>
    /\ UNCHANGED <<versions, summary, suites, eval, clear, freed, ungated, steady, bounds>>

\* The final refresh raises when the row is gone again.
Refresh(p) ==
    /\ promote[p].pc = "refresh"
    /\ PromoteTo(p, IF promote[p].row \in DOMAIN aliases THEN "returned" ELSE "failed")
    /\ UNCHANGED <<versions, summary, suites, eval, clear, pointers, steady, bounds>>

\* clear_prompt_alias: select the row, delete it by its id.
ClearAlias(c) ==
    LET rows == RowIn(aliases, Alias(c)) IN
    /\ \/ /\ clear[c].pc = "idle" /\ c \in scope.calls
          /\ clear' = [clear EXCEPT ![c] = IF rows = {} THEN [pc |-> "returned", row |-> 0]
                                           ELSE [pc |-> "delete", row |-> Max(rows)]]
          /\ UNCHANGED pointers
       \/ /\ clear[c].pc = "delete"
          /\ clear' = [clear EXCEPT ![c].pc = "returned"]
          /\ Aliases(Restrict(aliases, DOMAIN aliases \ {clear[c].row}))
          /\ freed' = freed \union {p \in Promotes : promote[p].pc = "update"
                                                   /\ promote[p].row = clear[c].row}
          /\ UNCHANGED ungated
    /\ UNCHANGED <<versions, summary, suites, eval, promote, steady, bounds>>

-----------------------------------------------------------------------------
\* set_golden_set and clear_golden_set, in one process.
ChangeSuite ==
    /\ suiteChanges < scope.changes
    /\ suiteChanges' = suiteChanges + 1
    /\ \E r \in Processes :
          suites' = IF r \in suites THEN suites \ {r} ELSE suites \union {r}
    /\ UNCHANGED <<versions, summary, eval, promote, clear, pointers, steady,
                   runnerErrors, deaths, scope>>

\* A process dies with its calls and its golden set; the calls not made yet are
\* those of the process started in its place.
Over == {"idle", "returned", "raised", "refused", "failed", "dead"}
Killed(r, calls) ==
    [k \in DOMAIN calls |-> IF scope.process[k] = r /\ calls[k].pc \notin Over
                            THEN [calls[k] EXCEPT !.pc = "dead"] ELSE calls[k]]
Die(r) ==
    /\ deaths < scope.deaths
    /\ deaths' = deaths + 1
    /\ suites' = suites \ {r}
    /\ eval' = Killed(r, eval) /\ promote' = Killed(r, promote)
    /\ clear' = Killed(r, clear)
    /\ UNCHANGED <<versions, summary, pointers, steady, runnerErrors, suiteChanges,
                   scope>>

Register(g) ==
    FindExisting(g) \/ CountVersions(g) \/ InsertVersion(g) \/ EvalOnDetection(g)

Evaluate(e) == RunSuite(e) \/ SelectSummary(e) \/ PersistSummary(e)

Promote(p) ==
    \/ StartPromotion(p) \/ CheckCandidate(p) \/ FindCurrent(p) \/ CompareBaseline(p)
    \/ SelectAlias(p) \/ InsertAlias(p) \/ ReloadAlias(p) \/ UpdateAlias(p)
    \/ Refresh(p)

PromptNext ==
    \/ \E g \in Registers : Register(g)
    \/ \E e \in Reruns : StartRerun(e)
    \/ \E e \in Evals : Evaluate(e) \/ RunnerRaises(e)
    \/ \E p \in Promotes : Promote(p)
    \/ \E c \in Clears : ClearAlias(c)
    \/ ChangeSuite
    \/ \E r \in Processes : Die(r)

PromptSpec == PromptInit /\ [][PromptNext]_promptVars

\* A registration under way runs on, and the host's runner returns.
FairPrompts ==
    /\ PromptSpec
    /\ \A g \in Registers :
          WF_promptVars(eval[g].pc # "idle" /\ (Register(g) \/ Evaluate(g)))

-----------------------------------------------------------------------------
EvalPlaces == {"idle", "count", "insert", "detect", "run", "select", "persist",
               "returned", "raised", "dead"}
PromotePlaces == {"idle", "candidate", "current", "baseline", "alias", "insert",
                  "reload", "update", "refresh", "refused", "failed", "returned", "dead"}

PromptTypeOK ==
    /\ Len(versions) <= Cardinality(Registers)
    /\ \A i \in 1..Len(versions) : /\ versions[i].content \in Range(scope.content)
                                   /\ versions[i].number \in 1..i
    /\ suites \subseteq Processes
    /\ summary \in [Ids -> [Columns -> Nat] \union {Absent}]
    /\ \A k \in DOMAIN aliases : aliases[k].version \in 1..Len(versions)
    /\ \A k, l \in DOMAIN aliases : aliases[k].alias = aliases[l].alias => k = l
    /\ \A e \in Evals : eval[e].pc \in EvalPlaces
    /\ \A p \in Promotes : promote[p].pc \in PromotePlaces
    /\ \A c \in Clears : clear[c].pc \in {"idle", "delete", "returned", "dead"}

\* Nothing reaches production from a process with a golden set that was never
\* evaluated ("fail-closed governance"), however registrations, evaluations that
\* fail, promotions and clears interleave; but for the version of an ungated
\* alias, whose row was deleted before its UPDATE: SQLite then gave the id to
\* production's.
ProductionIsScored ==
    production # Absent =>
        \/ summary[production] # Absent
        \/ \E p \in ungated : promote[p].id = production
        \/ \E p \in freed : Alias(p) # Production /\ promote[p].id = production

\* The gate works for whoever promotes alone, from a process with a golden set:
\* when production still names what it named as the promotion began, and that
\* version and the promoted one had been evaluated by then and not again since,
\* the move does not regress past any cap.
Moves(p) == /\ production' # production
            /\ promote'[p].pc = "refresh" /\ promote[p].pc # "refresh"
            /\ Alias(p) = Production
            /\ served[p] = {production} /\ {production, production'} \subseteq steady[p]

GateHoldsAlone ==
    [][\A p \in Promotes \ ungated :
          Moves(p) => ~Regressed(summary[production'], summary[production])]_promptVars

\* set_prompt_alias returns only when its alias has named its version during
\* the call, also when it lost the first insert to another promotion; unless its
\* row was deleted before its UPDATE.
PromotionTakesEffect ==
    \A p \in Promotes \ freed : promote[p].pc = "returned" => promote[p].id \in served[p]

\* The types with the unique aliases, what production may name, and what a
\* promotion that returned did.
PromptInv == PromptTypeOK /\ ProductionIsScored /\ PromotionTakesEffect

\* Where the processes that register have golden sets, new versions get their
\* evaluations, with reruns of the host racing for its row, unless a process
\* dies, a run raises or a suite is taken away.
DetectedIsScored ==
    (\A g \in Registers : Holds(g)) /\ versions # <<>> ~>
        \/ \A i \in 1..Len(versions) : summary[i] # Absent
        \/ deaths + runnerErrors + suiteChanges > 0

-----------------------------------------------------------------------------
\* "A later process can gate without the original callable still being registered":
\* what EvalSummary's docstring says, and a process without a golden set of its own
\* does not keep.
LaterProcessGates ==
    [][\A p \in Promotes :
          Moves(p) => ~Regressed(summary[production'], summary[production])]_promptVars
=============================================================================
