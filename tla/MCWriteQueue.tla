--------------------------- MODULE MCWriteQueue ---------------------------
(* WriteQueue for TLC, in three small scopes.  No symmetry, which the        *)
(* liveness property would not allow.                                       *)
EXTENDS WriteQueue

\* The route changes under the calls.
Reroute == [routeChanges |-> 1, crashes |-> 0, ends |-> 0, waits |-> {}]

\* A wait, and the death of the process or of a writer.
Drain == [routeChanges |-> 0, crashes |-> 1, ends |-> 0, waits |-> Waiters]
Ending == [routeChanges |-> 0, crashes |-> 0, ends |-> 1, waits |-> Waiters]

SmallScopes == {Reroute, Drain, Ending}
=============================================================================
