\* Who may see what; and a growing stream that is anchored twice and damaged twice.
CONSTANTS
    \* creations, grants, revokes and queries, in each of five small scopes
    ann = ann
    bob = bob
    default = default
    stage = stage
    m1 = m1
    m2 = m2
    n1 = n1
    n2 = n2
    g1 = g1
    g2 = g2
    g3 = g3
    v1 = v1
    v2 = v2
    v3 = v3
    v4 = v4
    q1 = q1
    q2 = q2
    Principals = {ann, bob}
    Namespaces = {default, stage}
    DefaultNamespace = default
    Makes = {m1, m2}
    NameOf <- OneName
    Creates = {n1, n2}
    Owner <- Owners
    Grants = {g1, g2, g3}
    Revokes = {v1, v2, v3, v4}
    MembershipOf <- Race
    RoleOf <- RaceRoles
    Queries = {q1, q2}
    AskedBy <- TwoQueries
    Scopes <- SmallScopes
    TenantWide = TenantWide
    NoMember = NoMember
    \* three rows, two anchorings, two changes
    p1 = p1
    p2 = p2
    p3 = p3
    a1 = a1
    a2 = a2
    Columns = {p1, p2, p3}
    Joined <- Texts
    Anchorings = {a1, a2}
    MaxVersion = 3
    MaxDamage = 2
    NoHash = NoHash
SPECIFICATION AccessSpec
SYMMETRY Symmetry
INVARIANTS
    TenancyInv
    QueryAnswersTrue
    RevocationSticks
    AuditInv
    VerificationExact
    AnchoredHistoryStands
    RootNamesHistory
\* everything may have ended
CHECK_DEADLOCK FALSE
