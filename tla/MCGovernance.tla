---------------------------- MODULE MCGovernance ----------------------------
(* CryptoShred, Residency and CostQuota for TLC.  They share no state and   *)
(* no property relates them, so a behaviour is one component's, beside the   *)
(* others at rest in one of their initial states: the run is the three of   *)
(* them, side by side.                                                      *)
EXTENDS CryptoShred, Residency, CostQuota, TLC

CONSTANTS t1, in, eu, a1, r1, s1, s2, s3

VARIABLE part           \* the component that a behaviour is of

parts == <<vars, residency, quota, part>>

-----------------------------------------------------------------------------
\* Residency: the tenant falls under the global default, or under nothing.
GlobalAssigned == (t1 :> <<>>) @@ (Global :> <<in>>)
NothingAssigned == [k \in Keys |-> <<>>]
EitherAssigned == {GlobalAssigned, NothingAssigned}

\* The tenant appends and reads while two sets give it rows of its own, of the
\* region it has had and of another, and a third sets the global default.
OneTenant == [c \in {a1, r1, s1, s2, s3} |-> IF c = s3 THEN Global ELSE t1]
ThreeRegions == (s1 :> in) @@ (s2 :> eu) @@ (s3 :> eu)

-----------------------------------------------------------------------------
GovernanceInit ==
    /\ part \in {"erasure", "residency", "quota"}
    /\ Init /\ ResidencyInit /\ QuotaInit
    /\ part # "residency" => rows = NothingAssigned

ErasureStep == part = "erasure" /\ Next /\ UNCHANGED <<residency, quota, part>>
ResidencyStep == part = "residency" /\ ResidencyNext /\ UNCHANGED <<vars, quota, part>>
QuotaStep == part = "quota" /\ QuotaNext /\ UNCHANGED <<vars, residency, part>>

GovernanceSpec ==
    GovernanceInit /\ [][ErasureStep \/ ResidencyStep \/ QuotaStep]_parts

\* The encryptions are interchangeable.
Symmetry == Permutations(Encrypts)
=============================================================================
