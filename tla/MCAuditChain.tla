---------------------------- MODULE MCAuditChain ----------------------------
(* AuditChain for TLC: of three values of a row's columns, two join to one  *)
(* text and are interchangeable, as the anchorings are.                     *)
EXTENDS AuditChain, FiniteSets

CONSTANTS p1, p2, p3, a1, a2

Texts == [c \in Columns |-> IF c = p3 THEN p3 ELSE p1]

\* Bounds, beside the constants: two anchorings of three rows where nothing is changed,
\* or of two of which one is; two changes of three rows without an anchoring.
Begun == {a \in Anchorings : anchor[a].pc # "idle"}

Bounded == Len(rows) + damage + Cardinality(Begun) <= 5
=============================================================================
