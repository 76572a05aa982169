------------------------------ MODULE MCAccess ------------------------------
(* Tenancy and AuditChain for TLC.  They share no state and no property     *)
(* relates them, so a behaviour is one component's, beside the other at     *)
(* rest in one of its initial states.                                       *)
EXTENDS Tenancy, MCAuditChain, TLC

CONSTANTS
    ann, bob, default, stage, m1, m2, n1, n2, g1, g2, g3,
    v1, v2, v3, v4, q1, q2

VARIABLE part           \* the component that a behaviour is of

parts == <<tenancy, vars, part>>

-----------------------------------------------------------------------------
\* Tenancy: two creations name ann and bob.  A grant of ann's membership races the
\* owner's, others are for bob in the default namespace and in one to be created.
Anns == <<ann, TenantWide>>
Bobs == <<bob, default>>
Staged == <<bob, stage>>

Owners == (n1 :> ann) @@ (n2 :> bob)
Race == (g1 :> Anns) @@ (g2 :> Bobs) @@ (g3 :> Staged)
        @@ (v1 :> Anns) @@ (v2 :> Bobs) @@ (v3 :> Staged) @@ (v4 :> Bobs)
RaceRoles == [g \in Grants |-> "viewer"]
TwoQueries == (q1 :> <<bob, stage>>) @@ (q2 :> <<ann, default>>)
OneName == [m \in Makes |-> stage]

Limits(called, exists, appends, dying) ==
    [calls |-> called, exists |-> exists, commits |-> appends, deaths |-> dying]

\* The tenant is created by two processes, with grants and revokes; or one dies.
Creation == Limits(Creates \union {g1, g2, v1, v2}, FALSE, 0, 0)
Death == Limits(Creates \union {g1, g2, v1}, FALSE, 0, 1)

\* A namespace is created by two, with a grant in it, another, and their revokes,
\* and a process dies or a query asks.
Project == Limits(Makes \union {g2, g3, v2, v3}, TRUE, 0, 1)
Viewing == Limits({m1, g2, g3, v2, v3, q1}, TRUE, 1, 0)

\* Bob's membership is revoked twice while ann is granted hers, and asks.
Reuse == Limits({g1, g2, v1, v2, v4, q2}, TRUE, 1, 0)

SmallScopes == {Creation, Death, Project, Viewing, Reuse}

-----------------------------------------------------------------------------
\* Of AuditChain, two values of a row's columns are interchangeable, and the
\* anchorings.
Symmetry == Permutations({p1, p2}) \union Permutations(Anchorings)

-----------------------------------------------------------------------------
AccessInit ==
    /\ part \in {"tenancy", "audit"}
    /\ TenancyInit /\ Init
    /\ part # "tenancy" => scope = Creation

TenancyStep == part = "tenancy" /\ TenancyNext /\ UNCHANGED <<vars, part>>
AuditStep == part = "audit" /\ Next /\ Bounded' /\ UNCHANGED <<tenancy, part>>

AccessSpec == AccessInit /\ [][TenancyStep \/ AuditStep]_parts
=============================================================================
