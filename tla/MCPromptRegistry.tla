-------------------------- MODULE MCPromptRegistry --------------------------
(* PromptRegistry for TLC: the aggregates of the runner, and seven scopes.   *)
EXTENDS PromptRegistry, TLC

CONSTANTS r1, r2, g1, g2, p1, p2, c1, e1, e2

Good == [passRate |-> 100, cost |-> 100, p95 |-> 0]
Dear == [passRate |-> 100, cost |-> 116, p95 |-> 0]
Slow == [passRate |-> 100, cost |-> 100, p95 |-> 200]

SomeOutcomes == {Good, Dear, Slow}

TwoContents == (g1 :> "a") @@ (g2 :> "b")
OneContent == (g1 :> "a") @@ (g2 :> "a")

\* Another process makes one promotion and one rerun.
Calls == Registers \union Reruns \union Promotes \union Clears
TwoProcesses == [call \in Calls |-> IF call \in {p2, e2} THEN r2 ELSE r1]

AllProduction == [call \in Promotes \union Clears |-> Production]

\* Two promotions of two contents, of which one process may have no golden set.
Promotion == [calls |-> Registers \union Promotes, alias |-> AllProduction,
              content |-> TwoContents, process |-> TwoProcesses,
              suites |-> {{r1}, {r1, r2}}, errors |-> 0, changes |-> 0,
              deaths |-> 0, registered |-> FALSE]

\* Two versions of which one is not evaluated: two promotions and a clear of
\* production; and one of production while another alias is promoted and cleared.
Clearing == [Promotion EXCEPT !.calls = Promotes \union Clears, !.errors = 1,
                !.registered = TRUE]
Aliasing == [Clearing EXCEPT
                !.alias = (p1 :> Production) @@ (p2 :> "canary") @@ (c1 :> "canary")]

\* A promotion while the golden set changes, its runner raises and a process dies.
Regovernance == [Promotion EXCEPT !.calls = Registers \union {p1},
                    !.suites = {{}, {r1}}, !.errors = 1, !.changes = 1, !.deaths = 1]

\* Two registrations of one content with a rerun, an error and a death.
Evaluation == [Promotion EXCEPT !.calls = Registers \union {e1},
                  !.content = OneContent, !.errors = 1, !.deaths = 1]

\* Promotions with reruns of the evaluations they compare.
Reevaluation == [Clearing EXCEPT !.calls = Promotes \union {e1}]
Mixing == [Clearing EXCEPT !.calls = {p1} \union Reruns, !.suites = {{r1, r2}}]

SmallScopes == {Promotion, Clearing, Aliasing, Regovernance, Evaluation,
                Reevaluation, Mixing}
=============================================================================
