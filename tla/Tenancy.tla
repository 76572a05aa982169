------------------------------ MODULE Tenancy ------------------------------
(***************************************************************************)
(* tenancy.py for one tenant: its creation with the grant to its owner, its  *)
(* namespaces, the membership rows that grant_role and revoke_role maintain, *)
(* and the viewer query, which checks them and then reads.  Processes over   *)
(* one database: each SELECT is a snapshot of its own, each commit is atomic. *)
(* An UPDATE or DELETE of the ORM goes by the row's id, and SQLite gives a   *)
(* new row the id after the highest in the table, so the id of a deleted     *)
(* last row is used again.                                                   *)
(***************************************************************************)
EXTENDS Naturals, FiniteSets, FiniteSetsExt, Functions

CONSTANTS
    Principals, Namespaces,
    DefaultNamespace,   \* the namespace a tenant is created with
    Makes,              \* calls of create_namespace
    NameOf,             \* the namespace of each
    Creates,            \* calls of create_tenant, all of this tenant
    Owner,              \* the principal each names as its owner
    Grants,             \* calls of grant_role
    Revokes,            \* calls of revoke_role
    MembershipOf,       \* the membership each grant and revoke is about
    RoleOf,             \* the role each grant gives
    Queries,            \* calls of query_latest
    AskedBy,            \* the principal and the namespace of each query
    Scopes,             \* bounds, of which a behaviour has one: see scope
    TenantWide, NoMember

Roles == {"viewer", "admin", "owner"}
MemberKeys == Principals \X (Namespaces \union {TenantWide})

ASSUME TenancyAssumption ==
    /\ TenantWide \notin Namespaces /\ DefaultNamespace \in Namespaces
    /\ NameOf \in [Makes -> Namespaces] /\ Creates \cap Grants = {}
    /\ Owner \in [Creates -> Principals]
    /\ MembershipOf \in [Grants \union Revokes -> MemberKeys]
    /\ RoleOf \in [Grants -> Roles]
    /\ AskedBy \in [Queries -> Principals \X Namespaces]
    /\ \A s \in Scopes : s.exists \in BOOLEAN /\ s.commits \in Nat

\* create_tenant grants its owner with a grant_role of its own.
Granting == Creates \union Grants
KeyFor(g) == IF g \in Creates THEN <<Owner[g], TenantWide>> ELSE MembershipOf[g]
RoleFor(g) == IF g \in Creates THEN "owner" ELSE RoleOf[g]

VARIABLES
    tenant,             \* whether the Tenant row exists
    namespaces,         \* Namespace: the names
    make,               \* the creations of namespaces: place
    members,            \* Membership: [key, role] by id
    grant,              \* the grants and creations: place, and the row found
    revoke,             \* the revokes: place, and the row found
    query,              \* the queries: place and answer; and, as history, what was
                        \*   granted, revoked and committed when each began
    log,                \* each namespace's isolated stream: how many commits
    before,             \* history: the grants over when each revoke began
    freed,              \* history: grants whose row was deleted before their UPDATE
    deaths,             \* history, for the bound
    scope               \* the calls made, whether the tenant exists at the start,
                        \* and bounds on commits and on the calls whose process dies

tenants == <<tenant, namespaces, make>>
bounds == <<deaths, scope>>
tenancy == <<tenant, namespaces, make, members, grant, revoke, query, log, before, freed,
             bounds>>

RowOf(key) == {i \in DOMAIN members : members[i].key = key}
NextId(tab) == IF DOMAIN tab = {} THEN 1 ELSE Max(DOMAIN tab) + 1

\* The rows with one more, for the call g.
RowsWith(g) ==
    [i \in DOMAIN members \union {NextId(members)} |->
        IF i \in DOMAIN members THEN members[i]
        ELSE [key |-> KeyFor(g), role |-> RoleFor(g)]]

\* The memberships that let a query see its namespace, and whether there is one.
Asked(q) == {AskedBy[q][1]} \X {AskedBy[q][2], TenantWide}
Covers(q) == \E i \in DOMAIN members : members[i].key \in Asked(q)

TenancyInit ==
    /\ scope \in Scopes
    /\ tenant = scope.exists
    /\ namespaces = IF tenant THEN {DefaultNamespace} ELSE {}
    /\ make = [m \in Makes |-> "idle"]
    /\ members = <<>>
    /\ grant = [g \in Granting |-> [pc |-> "idle", id |-> NoMember, role |-> NoMember]]
    /\ revoke = [r \in Revokes |-> [pc |-> "idle", id |-> NoMember]]
    /\ query = [q \in Queries |-> [pc |-> "idle", granted |-> {}, revoked |-> {},
                                   from |-> 0, to |-> 0]]
    /\ log = [n \in Namespaces |-> 0]
    /\ before = [r \in Revokes |-> {}]
    /\ freed = {}
    /\ deaths = 0

GrantTo(g, label) == grant' = [grant EXCEPT ![g].pc = label]

-----------------------------------------------------------------------------
\* create_tenant: refuse an existing tenant, commit the rows, and then grant.
FindTenant(c) ==
    /\ grant[c].pc = "idle" /\ c \in scope.calls
    /\ GrantTo(c, IF tenant THEN "refused" ELSE "create")
    /\ UNCHANGED <<tenants, members, revoke, query, log, before, freed, bounds>>

Mint == tenant' = TRUE /\ namespaces' = namespaces \union {DefaultNamespace}

InsertTenantAgain(c) ==              \* the unique tenant_id is gone
    /\ grant[c].pc = "create"
    /\ GrantTo(c, "select")
    /\ Mint
    /\ UNCHANGED <<make, members, revoke, query, log, before, freed, bounds>>

InsertTenantOnly(c) ==               \* the grant is left to the host
    /\ grant[c].pc = "create"
    /\ GrantTo(c, IF tenant THEN "failed" ELSE "returned")
    /\ Mint
    /\ UNCHANGED <<make, members, revoke, query, log, before, freed, bounds>>

InsertTenant(c) ==
    /\ grant[c].pc = "create"
    /\ IF tenant THEN GrantTo(c, "failed") ELSE GrantTo(c, "select")
    /\ Mint
    /\ UNCHANGED <<make, members, revoke, query, log, before, freed, bounds>>

\* grant_role: an unknown tenant or namespace is refused, then find the
\* membership's row.
StartGrant(g) ==
    /\ grant[g].pc = "idle" /\ g \in scope.calls
    /\ GrantTo(g, IF ~tenant THEN "refused"
                  ELSE IF MembershipOf[g][2] = TenantWide THEN "select" ELSE "namespace")
    /\ UNCHANGED <<tenants, members, revoke, query, log, before, freed, bounds>>

NamespaceUnchecked(g) ==             \* any name will do
    /\ grant[g].pc = "namespace"
    /\ GrantTo(g, "select")
    /\ UNCHANGED <<tenants, members, revoke, query, log, before, freed, bounds>>

CheckNamespace(g) ==
    /\ grant[g].pc = "namespace"
    /\ GrantTo(g, IF MembershipOf[g][2] \in namespaces THEN "select" ELSE "refused")
    /\ UNCHANGED <<tenants, members, revoke, query, log, before, freed, bounds>>

FindRowOfPrincipal(g) ==             \* the namespace is not asked for
    LET found == {i \in DOMAIN members : members[i].key[1] = KeyFor(g)[1]} IN
    /\ grant[g].pc = "select"
    /\ grant' = [grant EXCEPT ![g] =
          IF found = {} THEN [@ EXCEPT !.pc = "insert"]
          ELSE [pc |-> "update", id |-> Max(found), role |-> members[Max(found)].role]]
    /\ UNCHANGED <<tenants, members, revoke, query, log, before, freed, bounds>>

FindRow(g) ==
    LET found == RowOf(KeyFor(g)) IN
    /\ grant[g].pc = "select"
    /\ grant' = [grant EXCEPT ![g] =
          IF found = {} THEN [@ EXCEPT !.pc = "insert"]
          ELSE [pc |-> "update", id |-> Max(found), role |-> members[Max(found)].role]]
    /\ UNCHANGED <<tenants, members, revoke, query, log, before, freed, bounds>>

InsertRowTwice(g) ==                 \* no unique constraint
    /\ grant[g].pc = "insert"
    /\ members' = RowsWith(g)
    /\ grant' = [grant EXCEPT ![g].pc = "refresh", ![g].id = NextId(members)]
    /\ UNCHANGED <<tenants, revoke, query, log, before, freed, bounds>>

\* The unique constraint raises for the second of two first grants.
InsertRow(g) ==
    /\ grant[g].pc = "insert"
    /\ IF RowOf(KeyFor(g)) # {}
       THEN GrantTo(g, "failed") /\ UNCHANGED members
       ELSE /\ members' = RowsWith(g)
            /\ grant' = [grant EXCEPT ![g].pc = "refresh", ![g].id = NextId(members)]
    /\ UNCHANGED <<tenants, revoke, query, log, before, freed, bounds>>

\* UPDATE by id of what changed since the row was loaded; StaleDataError when
\* no row has the id.
UpdateRow(g) ==
    LET i == grant[g].id IN
    /\ grant[g].pc = "update"
    /\ IF i \notin DOMAIN members
       THEN GrantTo(g, "failed") /\ UNCHANGED members
       ELSE /\ members' = IF RoleFor(g) = grant[g].role THEN members
                          ELSE [members EXCEPT ![i].role = RoleFor(g)]
            /\ GrantTo(g, "refresh")
    /\ UNCHANGED <<tenants, revoke, query, log, before, freed, bounds>>

\* The final refresh loads the row by its id, and raises when it is gone.
Refresh(g) ==
    /\ grant[g].pc = "refresh"
    /\ GrantTo(g, IF grant[g].id \in DOMAIN members THEN "returned" ELSE "failed")
    /\ UNCHANGED <<tenants, members, revoke, query, log, before, freed, bounds>>

-----------------------------------------------------------------------------
\* create_namespace: an unknown tenant and a name that is there are refused, and
\* the unique (tenant_id, name) makes the second of two insertions fail.
MakeTo(m, label) ==
    /\ make' = [make EXCEPT ![m] = label]
    /\ UNCHANGED <<tenant, members, grant, revoke, query, log, before, freed, bounds>>

FindTenantOf(m) ==
    /\ make[m] = "idle" /\ m \in scope.calls
    /\ MakeTo(m, IF tenant THEN "find" ELSE "refused")
    /\ UNCHANGED namespaces

FindNamespace(m) ==
    /\ make[m] = "find"
    /\ MakeTo(m, IF NameOf[m] \in namespaces THEN "refused" ELSE "insert")
    /\ UNCHANGED namespaces

InsertNamespaceAgain(m) ==           \* the unique name is gone
    /\ make[m] = "insert"
    /\ MakeTo(m, "returned")
    /\ namespaces' = namespaces \union {NameOf[m]}

InsertNamespace(m) ==
    /\ make[m] = "insert"
    /\ MakeTo(m, IF NameOf[m] \in namespaces THEN "failed" ELSE "returned")
    /\ namespaces' = namespaces \union {NameOf[m]}

-----------------------------------------------------------------------------
\* revoke_role: find the membership's row, delete it by its id.  No row with
\* the id left is not an error.
FindRevoked(r) ==
    LET found == RowOf(MembershipOf[r]) IN
    /\ revoke[r].pc = "idle" /\ r \in scope.calls
    /\ revoke' = [revoke EXCEPT ![r] =
          IF found = {} THEN [@ EXCEPT !.pc = "returned"]
          ELSE [pc |-> "delete", id |-> Max(found)]]
    /\ before' = [before EXCEPT ![r] =
          {g \in Granting : grant[g].pc \in {"returned", "failed", "refused", "dead"}}]
    /\ UNCHANGED <<tenants, members, grant, query, log, freed, bounds>>

DeleteRow(r) ==
    /\ revoke[r].pc = "delete"
    /\ members' = Restrict(members, DOMAIN members \ {revoke[r].id})
    /\ revoke' = [revoke EXCEPT ![r].pc = "returned"]
    /\ freed' = freed \union {g \in Granting : grant[g].pc = "update"
                                           /\ grant[g].id = revoke[r].id}
    /\ UNCHANGED <<tenants, grant, query, log, before, bounds>>

\* query_latest: resolve_role in one SELECT; AccessDeniedError, or then the read of
\* the isolated stream in statements of its own.
StartQuery(q) ==
    /\ query[q].pc = "idle" /\ q \in scope.calls
    /\ query' = [query EXCEPT ![q] =
          [pc |-> "check", to |-> 0, from |-> log[AskedBy[q][2]],
           granted |-> {g \in Granting : grant[g].pc = "returned"},
           revoked |-> {r \in Revokes : revoke[r].pc = "returned"}]]
    /\ UNCHANGED <<tenants, members, grant, revoke, log, before, freed, bounds>>

CheckAccessAnywhere(q) ==            \* the namespace is not asked for
    /\ query[q].pc = "check"
    /\ query' = [query EXCEPT ![q].pc =
          IF \E i \in DOMAIN members : members[i].key[1] = AskedBy[q][1]
          THEN "read" ELSE "denied"]
    /\ UNCHANGED <<tenants, members, grant, revoke, log, before, freed, bounds>>

CheckAccess(q) ==
    /\ query[q].pc = "check"
    /\ query' = [query EXCEPT ![q].pc = IF Covers(q) THEN "read" ELSE "denied"]
    /\ UNCHANGED <<tenants, members, grant, revoke, log, before, freed, bounds>>

\* read_latest: whatever became of the membership since.
ReadLatest(q) ==
    /\ query[q].pc = "read"
    /\ query' = [query EXCEPT ![q].pc = "answered", ![q].to = log[AskedBy[q][2]]]
    /\ UNCHANGED <<tenants, members, grant, revoke, log, before, freed, bounds>>

\* append_commit to the stream of the namespace n.
CommitAppended(n) ==
    /\ log[n] < scope.commits
    /\ log' = [log EXCEPT ![n] = @ + 1]
    /\ UNCHANGED <<tenants, members, grant, revoke, query, before, freed, bounds>>

\* A process dies between two statements of a creation or a grant.
Die(g) ==
    /\ grant[g].pc \in {"create", "namespace", "select", "insert", "update", "refresh"}
    /\ deaths < scope.deaths
    /\ deaths' = deaths + 1
    /\ GrantTo(g, "dead")
    /\ UNCHANGED <<tenants, members, revoke, query, log, before, freed, scope>>

CreateNamespace(m) == FindTenantOf(m) \/ FindNamespace(m) \/ InsertNamespace(m)

GrantRole(g) == FindRow(g) \/ InsertRow(g) \/ UpdateRow(g) \/ Refresh(g)

TenancyNext ==
    \/ \E c \in Creates : FindTenant(c) \/ InsertTenant(c)
    \/ \E m \in Makes : CreateNamespace(m)
    \/ \E g \in Grants : StartGrant(g) \/ CheckNamespace(g)
    \/ \E g \in Granting : GrantRole(g) \/ Die(g)
    \/ \E r \in Revokes : FindRevoked(r) \/ DeleteRow(r)
    \/ \E q \in Queries : StartQuery(q) \/ CheckAccess(q) \/ ReadLatest(q)
    \/ \E q \in Queries : CommitAppended(AskedBy[q][2])

TenancySpec == TenancyInit /\ [][TenancyNext]_tenancy

-----------------------------------------------------------------------------
GrantPlaces == {"idle", "create", "namespace", "select", "insert", "update", "refresh",
                "returned", "failed", "refused", "dead"}

TenancyTypeOK ==
    /\ tenant \in BOOLEAN /\ namespaces \subseteq Namespaces
    /\ make \in [Makes -> {"idle", "find", "insert", "refused", "failed", "returned"}]
    /\ \A i \in DOMAIN members :
          i \in Nat /\ members[i].key \in MemberKeys /\ members[i].role \in Roles
    /\ \A g \in Granting : grant[g].pc \in GrantPlaces
    /\ \A r \in Revokes : revoke[r].pc \in {"idle", "delete", "returned"}
    /\ \A q \in Queries : query[q].pc \in {"idle", "check", "read", "denied", "answered"}
    /\ \A i, j \in DOMAIN members : members[i].key = members[j].key => i = j

\* The membership key was taken away by a revocation of it, or SQLite had given away
\* the id of a row that two revocations of one membership had both found.
TakenAway(key) ==
    \E r, s \in Revokes :
        /\ revoke[r].pc = "returned" /\ revoke[s].pc = "returned"
        /\ MembershipOf[r] = MembershipOf[s] /\ (r # s \/ MembershipOf[r] = key)

\* A query answers from before it to no grant that was revoked before it: it reads
\* only if a grant covers it that no revocation over when it began came after, and
\* is denied only if every grant over when it began, and covering it, was taken away.
\* The read comes later than the check, and has at least what was committed before.
QueryAnswersTrue ==
    \A q \in Queries :
        /\ query[q].pc \in {"read", "answered"} =>
              \E g \in Granting :
                  /\ KeyFor(g) \in Asked(q)
                  /\ grant[g].pc \in {"refresh", "returned", "failed", "dead"}
                  /\ \A r \in query[q].revoked :
                        MembershipOf[r] = KeyFor(g) => g \notin before[r]
        /\ query[q].pc = "denied" =>
              \A g \in query[q].granted : KeyFor(g) \in Asked(q) => TakenAway(KeyFor(g))
        /\ query[q].pc = "answered" => query[q].to \in query[q].from..log[AskedBy[q][2]]

\* A revocation sticks: once it has returned, its membership is gone for good
\* unless a grant of it was under way or came later.  Of two first grants that
\* race, the loser leaves no second row behind for the revocation to miss.
RevocationSticks ==
    \A r \in Revokes :
        /\ revoke[r].pc = "returned"
        /\ \A g \in Granting : KeyFor(g) = MembershipOf[r] =>
               g \in before[r] \/ grant[g].pc = "idle"
        => RowOf(MembershipOf[r]) = {}

\* A tenant is created once, whoever races to create it, and so is a namespace.
CreatedOnce ==
    /\ Cardinality({c \in Creates :
          grant[c].pc \in {"select", "insert", "update", "refresh", "returned"}}) <= 1
    /\ \A n \in Namespaces :
          Cardinality({m \in Makes : make[m] = "returned" /\ NameOf[m] = n}) <= 1

\* "unknown namespace": no membership is in a namespace that was not created, not
\* even by an update that meets another's row.
MembersHaveNamespace ==
    \A i \in DOMAIN members : members[i].key[2] \in namespaces \union {TenantWide}

\* A created tenant has its owner once all calls are over, whoever raced to
\* create it, unless a process died or the owner's membership was granted or
\* anything was revoked meanwhile.
TenantHasOwner ==
    LET owners == {KeyFor(c) : c \in Creates} IN
    /\ tenant /\ ~scope.exists /\ deaths = 0
    /\ \A g \in Granting : grant[g].pc \in {"idle", "returned", "failed", "refused"}
    /\ \A g \in Grants : MembershipOf[g] \in owners => grant[g].pc = "idle"
    /\ \A r \in Revokes : revoke[r].pc = "idle"
    => \E i \in DOMAIN members : members[i].key \in owners /\ members[i].role = "owner"

\* "Upsert a membership": the role in a membership's row is one a grant of that
\* membership gave it, unless it comes from a grant of another whose own row was
\* deleted before its UPDATE: SQLite then gave the id away.
RolesAreGranted ==
    \A i \in DOMAIN members :
        \E g \in Granting : /\ (KeyFor(g) = members[i].key \/ g \in freed)
                            /\ RoleFor(g) = members[i].role
                            /\ grant[g].pc \in {"refresh", "returned", "failed", "dead"}

\* The types with the unique membership rows, the one creation of each thing, the
\* owner, the roles and the namespaces.
TenancyInv ==
    TenancyTypeOK /\ CreatedOnce /\ TenantHasOwner /\ RolesAreGranted /\ MembersHaveNamespace
=============================================================================
