--------------------------- MODULE TenancyProofs ---------------------------
(***************************************************************************)
(* Proofs about Tenancy, for any sets of principals, namespaces and calls:   *)
(* types and unique memberships, the one creation and the owner it leaves,   *)
(* the roles in the rows, revocation, and the answers of queries.            *)
(***************************************************************************)
EXTENDS Tenancy, FiniteSetTheorems, WellFoundedInduction, TLAPS

-----------------------------------------------------------------------------
\* What Max is applied to has one.
LEMMA MaxExists ==
    ASSUME NEW n \in Nat, NEW S, S \subseteq 1..n, S # {}
    PROVE  Max(S) \in S /\ \A x \in S : Max(S) >= x
  <1>. DEFINE R == OpToRel(<, Nat)
              T == {n - x : x \in S}
  <1>1. IsWellFoundedOn(R, Nat)
    BY NatLessThanWellFounded
  <1>2. T \subseteq Nat /\ T # {}
    <2>1. \A x \in S : n - x \in Nat /\ n - x \in T
      OBVIOUS
    <2>. QED
      BY <2>1
  <1>. HIDE DEF R, T
  <1>3. PICK t \in T : \A u \in T : <<u, t>> \notin R
    BY <1>1, <1>2, WFMin
  <1>4. \A u \in T : ~(u < t)
    BY <1>2, <1>3 DEF R, OpToRel
  <1>5. PICK m \in S : t = n - m
    BY DEF T
  <1>6. \A x \in S : m >= x
    <2>. SUFFICES ASSUME NEW x \in S PROVE m >= x
      OBVIOUS
    <2>1. n - x \in T
      BY DEF T
    <2>2. ~(n - x < n - m)
      BY <1>4, <1>5, <2>1
    <2>. QED
      BY <2>2
  <1>. QED
    BY <1>6 DEF Max

-----------------------------------------------------------------------------
\* The inductive invariant.
Over == {"returned", "failed", "refused", "dead"}
Writing == {"select", "insert", "update", "refresh"}
Created == Writing \union {"returned"}       \* of a creation: its tenant is there

Membership == [key : MemberKeys, role : Roles]

Types ==
    /\ TenancyTypeOK
    /\ members \in [DOMAIN members -> Membership]
    /\ \E n \in Nat : DOMAIN members \subseteq 1..n
    /\ grant \in [Granting -> [pc : GrantPlaces, id : Nat \union {NoMember},
                              role : Roles \union {NoMember}]]
    /\ revoke \in [Revokes -> [pc : {"idle", "delete", "returned"}, id : Nat \union {NoMember}]]
    /\ query \in [Queries -> [pc : {"idle", "check", "read", "denied", "answered"},
                             granted : SUBSET Granting, revoked : SUBSET Revokes,
                             from : Nat, to : Nat]]
    /\ log \in [Namespaces -> Nat]
    /\ before \in [Revokes -> SUBSET Granting]
    /\ freed \subseteq Granting /\ deaths \in Nat /\ scope \in Scopes

\* At most one creation got past the unique tenant_id, and none, nor any grant,
\* before there is a tenant.
OneCreation ==
    /\ \A c, d \in Creates : grant[c].pc \in Created /\ grant[d].pc \in Created => c = d
    /\ \A g \in Granting : grant[g].pc \in Writing \union {"namespace", "returned"} => tenant
    /\ DOMAIN members # {} => tenant

\* What create_namespace returned is there, and was returned to no other.
MadeOnce ==
    /\ \A m \in Makes : make[m] = "returned" => NameOf[m] \in namespaces
    /\ \A m, p \in Makes : /\ make[m] = "returned" /\ make[p] = "returned"
                           /\ NameOf[m] = NameOf[p]
                           => m = p

\* A call that writes has found its namespace; at its UPDATE the row it found is
\* that of its membership, unless the row was deleted meanwhile.
GrantConsistent(g) ==
    /\ grant[g].pc \in Writing => KeyFor(g)[2] \in namespaces \union {TenantWide}
    /\ grant[g].pc = "update" =>
          \/ g \in freed
          \/ grant[g].id \in DOMAIN members /\ members[grant[g].id].key = KeyFor(g)

\* Nothing is freed before a revocation.
FreedByRevokes == (\A r \in Revokes : revoke[r].pc = "idle") => freed = {}

\* What TenantHasOwner sets aside, but that the calls are over.
Undisturbed ==
    /\ tenant /\ ~scope.exists /\ deaths = 0
    /\ \A g \in Grants : MembershipOf[g] \in {KeyFor(c) : c \in Creates} => grant[g].pc = "idle"
    /\ \A r \in Revokes : revoke[r].pc = "idle"

\* The creation that made the tenant has its owner's membership to write, or wrote it.
OwnerComes ==
    Undisturbed =>
        \E c \in Creates :
            \/ /\ grant[c].pc \in {"select", "insert"}
               /\ \A i \in DOMAIN members : members[i].key \notin {KeyFor(d) : d \in Creates}
            \/ /\ grant[c].pc \in {"refresh", "returned"}
               /\ grant[c].id \in DOMAIN members
               /\ members[grant[c].id].key = KeyFor(c) /\ members[grant[c].id].role = "owner"

\* Every grant of r's membership was over when r began, or has not begun.
Quiet(r) ==
    \A g \in Granting : KeyFor(g) = MembershipOf[r] => g \in before[r] \/ grant[g].pc = "idle"

\* A revocation has found the only row there is of its membership.
RevokeConsistent(r) ==
    /\ \A g \in before[r] : grant[g].pc \in Over
    /\ revoke[r].pc = "delete" /\ Quiet(r) => RowOf(MembershipOf[r]) \subseteq {revoke[r].id}
    /\ revoke[r].pc = "returned" /\ Quiet(r) => RowOf(MembershipOf[r]) = {}

\* A row has a grant that wrote its membership and that every revocation that came
\* later has still to undo.
RowStands(i) ==
    \E g \in Granting :
        /\ KeyFor(g) = members[i].key /\ grant[g].pc \in {"refresh", "returned", "failed", "dead"}
        /\ \A r \in Revokes : MembershipOf[r] = members[i].key /\ g \in before[r]
                => revoke[r].pc = "delete" /\ revoke[r].id = i

\* Two revocations of one membership are over: the second may have met another's row.
Doubled ==
    \E r, s \in Revokes : /\ r # s /\ MembershipOf[r] = MembershipOf[s]
                          /\ revoke[r].pc = "returned" /\ revoke[s].pc = "returned"

\* What a revocation is to delete is its membership's row, unless another was there.
DeletesItsOwn(r) ==
    revoke[r].pc = "delete" =>
        \/ revoke[r].id \in DOMAIN members /\ members[revoke[r].id].key = MembershipOf[r]
        \/ \E s \in Revokes : s # r /\ revoke[s].pc = "returned" /\ MembershipOf[s] = MembershipOf[r]
        \/ Doubled

\* A membership that was found or written is there, or was taken away.
GrantStands(g) ==
    grant[g].pc \in {"update", "refresh", "returned"} =>
        RowOf(KeyFor(g)) # {} \/ TakenAway(KeyFor(g))

\* What a query began after is so still; and its answer.
QueryConsistent(q) ==
    /\ \A g \in query[q].granted : grant[g].pc = "returned"
    /\ \A r \in query[q].revoked : revoke[r].pc = "returned"
    /\ query[q].pc # "idle" => query[q].from <= log[AskedBy[q][2]]
    /\ query[q].pc \in {"read", "answered"} =>
          \E g \in Granting :
              /\ KeyFor(g) \in Asked(q)
              /\ grant[g].pc \in {"refresh", "returned", "failed", "dead"}
              /\ \A r \in query[q].revoked : MembershipOf[r] = KeyFor(g) => g \notin before[r]
    /\ query[q].pc = "denied" =>
          \A g \in query[q].granted : KeyFor(g) \in Asked(q) => TakenAway(KeyFor(g))
    /\ query[q].pc = "answered" => query[q].to \in query[q].from..log[AskedBy[q][2]]

IInv ==
    /\ Types /\ OneCreation /\ MadeOnce
    /\ \A g \in Granting : GrantConsistent(g)
    /\ RolesAreGranted /\ MembersHaveNamespace
    /\ FreedByRevokes /\ OwnerComes
    /\ \A r \in Revokes : RevokeConsistent(r)
    /\ \A i \in DOMAIN members : RowStands(i)
    /\ \A r \in Revokes : DeletesItsOwn(r)
    /\ \A g \in Granting : GrantStands(g)
    /\ \A q \in Queries : QueryConsistent(q)

-----------------------------------------------------------------------------
\* The rows and the calls, and what one statement does to them.
GrantRecord == [pc : GrantPlaces, id : Nat \union {NoMember}, role : Roles \union {NoMember}]

LEMMA CallTypes ==
    ASSUME NEW g \in Granting
    PROVE  KeyFor(g) \in MemberKeys /\ RoleFor(g) \in Roles
  <1>1. MemberKeys = Principals \X (Namespaces \union {TenantWide})
    BY DEF MemberKeys
  <1>2. CASE g \in Creates
    BY <1>1, <1>2, TenancyAssumption DEF KeyFor, RoleFor, Roles
  <1>3. CASE g \notin Creates
    BY <1>3, TenancyAssumption DEF KeyFor, RoleFor, Granting
  <1>. QED
    BY <1>2, <1>3

\* The id a new row gets is that of no row.
LEMMA NextIdIsNew ==
    ASSUME Types
    PROVE  /\ NextId(members) \in Nat /\ NextId(members) \notin DOMAIN members
           /\ \E n \in Nat : DOMAIN members \union {NextId(members)} \subseteq 1..n
  <1>1. PICK n \in Nat : DOMAIN members \subseteq 1..n
    BY DEF Types
  <1>2. CASE DOMAIN members = {}
    <2>1. NextId(members) = 1
      BY <1>2 DEF NextId
    <2>2. DOMAIN members \union {NextId(members)} \subseteq 1..1
      BY <1>2, <2>1
    <2>. QED
      BY <1>2, <2>1, <2>2
  <1>3. CASE DOMAIN members # {}
    <2>. DEFINE top == Max(DOMAIN members)
    <2>1. top \in DOMAIN members /\ \A x \in DOMAIN members : top >= x
      BY <1>1, <1>3, MaxExists
    <2>2. NextId(members) = top + 1
      BY <1>3 DEF NextId
    <2>. HIDE DEF top
    <2>3. top \in 1..n
      BY <1>1, <2>1
    <2>4. top + 1 \notin DOMAIN members
      BY <1>1, <2>1, <2>3
    <2>5. DOMAIN members \union {top + 1} \subseteq 1..(n + 1)
      BY <1>1, <2>3
    <2>6. n + 1 \in Nat /\ top + 1 \in Nat
      BY <2>3
    <2>. QED
      BY <2>2, <2>4, <2>5, <2>6
  <1>. QED
    BY <1>2, <1>3

\* A SELECT by membership finds the one row there is.
LEMMA FoundIsTheRow ==
    ASSUME Types, NEW key \in MemberKeys, RowOf(key) # {}
    PROVE  /\ Max(RowOf(key)) \in DOMAIN members /\ Max(RowOf(key)) \in Nat
           /\ members[Max(RowOf(key))].key = key /\ members[Max(RowOf(key))].role \in Roles
           /\ RowOf(key) = {Max(RowOf(key))}
  <1>1. PICK n \in Nat : DOMAIN members \subseteq 1..n
    BY DEF Types
  <1>2. RowOf(key) \subseteq 1..n
    BY <1>1 DEF RowOf
  <1>3. Max(RowOf(key)) \in RowOf(key)
    BY <1>2, MaxExists
  <1>4. \A i, j \in DOMAIN members : members[i].key = members[j].key => i = j
    BY DEF Types, TenancyTypeOK
  <1>5. \A i \in DOMAIN members : i \in Nat /\ members[i].role \in Roles
    BY DEF Types, TenancyTypeOK
  <1>6. \A i : i \in RowOf(key) <=> i \in DOMAIN members /\ members[i].key = key
    BY DEF RowOf
  <1>7. PICK m : m = Max(RowOf(key))
    OBVIOUS
  <1>8. \A i \in RowOf(key) : i = m
    BY <1>3, <1>4, <1>6, <1>7
  <1>. QED
    BY <1>3, <1>5, <1>6, <1>7, <1>8

\* INSERT adds a row of the caller's and leaves the others alone.
LEMMA Inserted ==
    ASSUME Types, NEW g \in Granting, members' = RowsWith(g)
    PROVE  /\ DOMAIN members' = DOMAIN members \union {NextId(members)}
           /\ NextId(members) \notin DOMAIN members
           /\ members'[NextId(members)].key = KeyFor(g)
           /\ members'[NextId(members)].role = RoleFor(g)
           /\ \A i \in DOMAIN members : members'[i] = members[i]
           /\ members' \in [DOMAIN members' -> Membership]
  <1>. DEFINE new == [key |-> KeyFor(g), role |-> RoleFor(g)]
              id == NextId(members)
  <1>1. id \notin DOMAIN members /\ id \in Nat
    BY NextIdIsNew
  <1>2. new \in Membership
    BY CallTypes DEF Membership
  <1>3. members \in [DOMAIN members -> Membership]
    BY DEF Types
  <1>4. members' = [i \in DOMAIN members \union {id} |-> IF i \in DOMAIN members THEN members[i] ELSE new]
    BY DEF RowsWith
  <1>. HIDE DEF new, id
  <1>5. DOMAIN members' = DOMAIN members \union {id} /\ members'[id] = new
        /\ \A i \in DOMAIN members : members'[i] = members[i]
    BY <1>1, <1>4
  <1>6. members' \in [DOMAIN members' -> Membership]
    BY <1>2, <1>3, <1>4, <1>5
  <1>. QED
    BY <1>1, <1>5, <1>6 DEF new, id

\* UPDATE changes at most the role of the row it names.
LEMMA Updated ==
    ASSUME Types, NEW g \in Granting, grant[g].id \in DOMAIN members,
           members' = IF RoleFor(g) = grant[g].role THEN members
                   ELSE [members EXCEPT ![grant[g].id].role = RoleFor(g)]
    PROVE  /\ DOMAIN members' = DOMAIN members
           /\ \A i \in DOMAIN members : members'[i].key = members[i].key
           /\ \A i \in DOMAIN members :
                 \/ members'[i] = members[i]
                 \/ i = grant[g].id /\ members'[i].role = RoleFor(g)
           /\ members' \in [DOMAIN members' -> Membership]
  <1>1. members \in [DOMAIN members -> Membership]
    BY DEF Types
  <1>2. CASE RoleFor(g) = grant[g].role
    BY <1>1, <1>2
  <1>3. CASE RoleFor(g) # grant[g].role
    <2>. DEFINE i == grant[g].id
                new == [members[i] EXCEPT !.role = RoleFor(g)]
    <2>1. new \in Membership /\ new.key = members[i].key /\ new.role = RoleFor(g)
      BY <1>1, CallTypes DEF Membership
    <2>2. members' = [members EXCEPT ![i] = new]
      BY <1>3
    <2>3. i \in DOMAIN members
      OBVIOUS
    <2>. HIDE DEF new, i
    <2>4. /\ DOMAIN members' = DOMAIN members /\ members'[i] = new
          /\ \A j \in DOMAIN members : j # i => members'[j] = members[j]
          /\ members' \in [DOMAIN members -> Membership]
      BY <1>1, <2>1, <2>2, <2>3
    <2>. QED
      BY <2>1, <2>4 DEF i
  <1>. QED
    BY <1>2, <1>3

\* DELETE leaves the other rows alone.
LEMMA Deleted ==
    ASSUME Types, NEW i, members' = Restrict(members, DOMAIN members \ {i})
    PROVE  /\ DOMAIN members' = DOMAIN members \ {i}
           /\ \A j \in DOMAIN members' : members'[j] = members[j]
           /\ members' \in [DOMAIN members' -> Membership]
  <1>1. members \in [DOMAIN members -> Membership]
    BY DEF Types
  <1>2. members' = [x \in DOMAIN members \ {i} |-> members[x]]
    BY DEF Restrict
  <1>. QED
    BY <1>1, <1>2

\* What a grant is after a statement of it, the others being as they were.
LEMMA GrantSet ==
    ASSUME Types, NEW g \in Granting, NEW v \in GrantRecord,
           grant' = [grant EXCEPT ![g] = v]
    PROVE  /\ grant' \in [Granting -> GrantRecord] /\ grant'[g] = v
           /\ \A h \in Granting : h # g => grant'[h] = grant[h]
  BY DEF Types, GrantRecord

LEMMA GrantMoves ==
    ASSUME Types, NEW g \in Granting, NEW label \in GrantPlaces, GrantTo(g, label)
    PROVE  /\ grant' \in [Granting -> GrantRecord]
           /\ grant'[g].pc = label
           /\ grant'[g].id = grant[g].id /\ grant'[g].role = grant[g].role
           /\ \A h \in Granting : h # g => grant'[h] = grant[h]
  <1>. DEFINE v == [grant[g] EXCEPT !.pc = label]
  <1>0. grant \in [Granting -> GrantRecord]
    BY DEF Types, GrantRecord
  <1>1. grant[g] \in GrantRecord
    BY <1>0
  <1>2. /\ v \in GrantRecord /\ v.pc = label
        /\ v.id = grant[g].id /\ v.role = grant[g].role
    BY <1>1 DEF GrantRecord
  <1>3. grant' = [grant EXCEPT ![g] = v]
    BY DEF GrantTo
  <1>. HIDE DEF v
  <1>. QED
    BY <1>2, <1>3, GrantSet

-----------------------------------------------------------------------------
\* Types.
LEMMA InitIInv == TenancyInit => IInv
  <1>. SUFFICES ASSUME TenancyInit PROVE IInv
    OBVIOUS
  <1>1. DOMAIN members = {} /\ members \in [DOMAIN members -> Membership]
    BY DEF TenancyInit
  <1>2. DOMAIN members \subseteq 1..0 /\ 0 \in Nat
    BY <1>1
  <1>3. /\ \A g \in Granting : grant[g].pc = "idle"
        /\ \A r \in Revokes : revoke[r].pc = "idle" /\ before[r] = {}
        /\ \A q \in Queries : /\ query[q].pc = "idle"
                               /\ query[q].granted = {} /\ query[q].revoked = {}
        /\ \A m \in Makes : make[m] = "idle"
    BY DEF TenancyInit
  <1>4. Types
    <2>1. scope.exists \in BOOLEAN
      BY TenancyAssumption DEF TenancyInit
    <2>2. TenancyTypeOK
      BY <1>1, <2>1, TenancyAssumption DEF TenancyInit, TenancyTypeOK, GrantPlaces
    <2>3. grant \in [Granting -> [pc : GrantPlaces, id : Nat \union {NoMember},
                                 role : Roles \union {NoMember}]]
      BY DEF TenancyInit, GrantPlaces
    <2>. QED
      BY <1>1, <1>2, <2>2, <2>3 DEF TenancyInit, Types
  <1>5. OneCreation /\ MadeOnce
    BY <1>1, <1>3 DEF OneCreation, MadeOnce, Writing, Created, Granting
  <1>6. \A g \in Granting : GrantConsistent(g)
    BY <1>3 DEF GrantConsistent, Writing
  <1>7. RolesAreGranted /\ MembersHaveNamespace
    BY <1>1 DEF RolesAreGranted, MembersHaveNamespace
  <1>8. FreedByRevokes
    BY DEF TenancyInit, FreedByRevokes
  <1>9. OwnerComes
    BY DEF TenancyInit, OwnerComes, Undisturbed
  <1>10. \A r \in Revokes : RevokeConsistent(r)
    BY <1>3 DEF RevokeConsistent
  <1>11. \A q \in Queries : QueryConsistent(q)
    BY <1>3 DEF QueryConsistent
  <1>12. /\ \A i \in DOMAIN members : RowStands(i)
         /\ \A r \in Revokes : DeletesItsOwn(r)
         /\ \A g \in Granting : GrantStands(g)
    BY <1>1, <1>3 DEF DeletesItsOwn, GrantStands
  <1>. QED
    BY <1>4, <1>5, <1>6, <1>7, <1>8, <1>9, <1>10, <1>11, <1>12 DEF IInv

\* The three ways a step changes the rows.
Insertion(g) ==
    /\ grant[g].pc = "insert" /\ RowOf(KeyFor(g)) = {}
    /\ members' = RowsWith(g)

Update(g) ==
    /\ grant[g].pc = "update" /\ grant[g].id \in DOMAIN members
    /\ members' = IF RoleFor(g) = grant[g].role THEN members
               ELSE [members EXCEPT ![grant[g].id].role = RoleFor(g)]

Deletion(r) ==
    /\ revoke[r].pc = "delete"
    /\ members' = Restrict(members, DOMAIN members \ {revoke[r].id})

RowsStep ==
    \/ members' = members
    \/ \E g \in Granting : Insertion(g) \/ Update(g)
    \/ \E r \in Revokes : Deletion(r)

RowsTyped ==
    /\ members \in [DOMAIN members -> Membership]
    /\ \E n \in Nat : DOMAIN members \subseteq 1..n
    /\ \A i, j \in DOMAIN members : members[i].key = members[j].key => i = j

LEMMA RowsStepTyped ==
    ASSUME Types, RowsStep
    PROVE  RowsTyped'
  <1>1. RowsTyped
    BY DEF Types, TenancyTypeOK, RowsTyped
  <1>2. CASE members' = members
    BY <1>1, <1>2 DEF RowsTyped
  <1>3. ASSUME NEW g \in Granting, Insertion(g) PROVE RowsTyped'
    <2>0. members' = RowsWith(g)
      BY <1>3 DEF Insertion
    <2>1. /\ DOMAIN members' = DOMAIN members \union {NextId(members)}
          /\ members'[NextId(members)].key = KeyFor(g)
          /\ \A i \in DOMAIN members : members'[i] = members[i]
          /\ members' \in [DOMAIN members' -> Membership]
      BY <2>0, Inserted
    <2>2. \E n \in Nat : DOMAIN members' \subseteq 1..n
      BY <2>1, NextIdIsNew
    <2>3. \A i \in DOMAIN members : members[i].key # KeyFor(g)
      BY <1>3 DEF Insertion, RowOf
    <2>4. \A i, j \in DOMAIN members' : members'[i].key = members'[j].key => i = j
      <3>. SUFFICES ASSUME NEW i \in DOMAIN members', NEW j \in DOMAIN members',
                           members'[i].key = members'[j].key
                    PROVE  i = j
        OBVIOUS
      <3>1. CASE i \in DOMAIN members /\ j \in DOMAIN members
        BY <1>1, <2>1, <3>1 DEF RowsTyped
      <3>2. CASE i = NextId(members) /\ j \in DOMAIN members
        BY <2>1, <2>3, <3>2
      <3>3. CASE i \in DOMAIN members /\ j = NextId(members)
        BY <2>1, <2>3, <3>3
      <3>. QED
        BY <2>1, <3>1, <3>2, <3>3
    <2>. QED
      BY <2>1, <2>2, <2>4 DEF RowsTyped
  <1>4. ASSUME NEW g \in Granting, Update(g) PROVE RowsTyped'
    <2>1. /\ DOMAIN members' = DOMAIN members
          /\ \A i \in DOMAIN members : members'[i].key = members[i].key
          /\ members' \in [DOMAIN members' -> Membership]
      BY <1>4, Updated DEF Update
    <2>. QED
      BY <1>1, <2>1 DEF RowsTyped
  <1>5. ASSUME NEW r \in Revokes, Deletion(r) PROVE RowsTyped'
    <2>1. /\ DOMAIN members' \subseteq DOMAIN members
          /\ \A i \in DOMAIN members' : members'[i] = members[i]
          /\ members' \in [DOMAIN members' -> Membership]
      BY <1>5, Deleted DEF Deletion
    <2>. QED
      BY <1>1, <2>1 DEF RowsTyped
  <1>. QED
    BY <1>2, <1>3, <1>4, <1>5 DEF RowsStep

RevokeRecord == [pc : {"idle", "delete", "returned"}, id : Nat \union {NoMember}]
MakePlaces == {"idle", "find", "insert", "refused", "failed", "returned"}
QueryRecord == [pc : {"idle", "check", "read", "denied", "answered"},
                granted : SUBSET Granting, revoked : SUBSET Revokes, from : Nat, to : Nat]

\* Types, taken apart and put together again.
Typed ==
    /\ tenant \in BOOLEAN /\ namespaces \subseteq Namespaces
    /\ make \in [Makes -> MakePlaces]
    /\ RowsTyped
    /\ grant \in [Granting -> GrantRecord]
    /\ revoke \in [Revokes -> RevokeRecord]
    /\ query \in [Queries -> QueryRecord]
    /\ log \in [Namespaces -> Nat]
    /\ before \in [Revokes -> SUBSET Granting]
    /\ freed \subseteq Granting /\ deaths \in Nat /\ scope \in Scopes

LEMMA TypedIsTypes == Typed <=> Types
  <1>1. ASSUME Types PROVE Typed
    BY <1>1 DEF Types, TenancyTypeOK, Typed, RowsTyped, GrantRecord, RevokeRecord, MakePlaces,
       QueryRecord
  <1>2. ASSUME Typed PROVE Types
    <2>1. \A i \in DOMAIN members : i \in Nat /\ members[i].key \in MemberKeys /\ members[i].role \in Roles
      BY <1>2 DEF Typed, RowsTyped, Membership
    <2>2. \A g \in Granting : grant[g].pc \in GrantPlaces
      BY <1>2 DEF Typed, GrantRecord
    <2>3. \A r \in Revokes : revoke[r].pc \in {"idle", "delete", "returned"}
      BY <1>2 DEF Typed, RevokeRecord
    <2>5. \A q \in Queries : query[q].pc \in {"idle", "check", "read", "denied", "answered"}
      BY <1>2 DEF Typed, QueryRecord
    <2>4. TenancyTypeOK
      BY <1>2, <2>1, <2>2, <2>3, <2>5 DEF TenancyTypeOK, Typed, RowsTyped, MakePlaces
    <2>. QED
      BY <1>2, <2>4 DEF Types, Typed, RowsTyped, GrantRecord, RevokeRecord, QueryRecord
  <1>. QED
    BY <1>1, <1>2

LEMMA AskedIsNamed == \A q \in Queries : AskedBy[q][2] \in Namespaces
  BY TenancyAssumption

\* What the steps of a query make of it.
LEMMA QuerySteps ==
    ASSUME Types, NEW q \in Queries, StartQuery(q) \/ CheckAccess(q) \/ ReadLatest(q)
    PROVE  \E v \in QueryRecord :
              /\ query' = [query EXCEPT ![q] = v] /\ query' \in [Queries -> QueryRecord]
              /\ query'[q] = v /\ \A p \in Queries : p # q => query'[p] = query[p]
              /\ \/ /\ v.pc = "check" /\ v.from = log[AskedBy[q][2]]
                    /\ v.granted = {g \in Granting : grant[g].pc = "returned"}
                    /\ v.revoked = {r \in Revokes : revoke[r].pc = "returned"}
                 \/ /\ v.granted = query[q].granted /\ v.revoked = query[q].revoked
                    /\ v.from = query[q].from
                    /\ \/ /\ query[q].pc = "check"
                          /\ v.pc = IF Covers(q) THEN "read" ELSE "denied"
                       \/ /\ query[q].pc = "read" /\ v.pc = "answered"
                          /\ v.to = log[AskedBy[q][2]]
  <1>0. query \in [Queries -> QueryRecord] /\ log \in [Namespaces -> Nat]
    BY TypedIsTypes DEF Typed
  <1>1. query[q] \in QueryRecord /\ log[AskedBy[q][2]] \in Nat
    BY <1>0, AskedIsNamed
  <1>2. ASSUME NEW v \in QueryRecord, query' = [query EXCEPT ![q] = v]
        PROVE  /\ query' \in [Queries -> QueryRecord] /\ query'[q] = v
               /\ \A p \in Queries : p # q => query'[p] = query[p]
    BY <1>0, <1>2
  <1>3. CASE StartQuery(q)
    <2>. DEFINE v == [pc |-> "check", to |-> 0, from |-> log[AskedBy[q][2]],
                      granted |-> {g \in Granting : grant[g].pc = "returned"},
                      revoked |-> {r \in Revokes : revoke[r].pc = "returned"}]
    <2>1. v \in QueryRecord
      BY <1>1 DEF QueryRecord
    <2>2. query' = [query EXCEPT ![q] = v]
      BY <1>3 DEF StartQuery
    <2>3. /\ v.pc = "check" /\ v.from = log[AskedBy[q][2]]
          /\ v.granted = {g \in Granting : grant[g].pc = "returned"}
          /\ v.revoked = {r \in Revokes : revoke[r].pc = "returned"}
      OBVIOUS
    <2>. HIDE DEF v
    <2>. QED
      BY <1>2, <2>1, <2>2, <2>3
  <1>4. CASE CheckAccess(q)
    <2>. DEFINE v == [query[q] EXCEPT !.pc = IF Covers(q) THEN "read" ELSE "denied"]
    <2>1. v \in QueryRecord
      BY <1>1 DEF QueryRecord
    <2>2. query[q].pc = "check" /\ query' = [query EXCEPT ![q] = v]
      BY <1>4 DEF CheckAccess
    <2>3. /\ v.pc = IF Covers(q) THEN "read" ELSE "denied"
          /\ v.granted = query[q].granted /\ v.revoked = query[q].revoked
          /\ v.from = query[q].from
      BY <1>1 DEF QueryRecord
    <2>. HIDE DEF v
    <2>. QED
      BY <1>2, <2>1, <2>2, <2>3
  <1>5. CASE ReadLatest(q)
    <2>. DEFINE v == [query[q] EXCEPT !.pc = "answered", !.to = log[AskedBy[q][2]]]
    <2>1. v \in QueryRecord
      BY <1>1 DEF QueryRecord
    <2>2. query[q].pc = "read" /\ query' = [query EXCEPT ![q] = v]
      BY <1>5 DEF ReadLatest
    <2>3. /\ v.pc = "answered" /\ v.to = log[AskedBy[q][2]]
          /\ v.granted = query[q].granted /\ v.revoked = query[q].revoked
          /\ v.from = query[q].from
      BY <1>1 DEF QueryRecord
    <2>. HIDE DEF v
    <2>. QED
      BY <1>2, <2>1, <2>2, <2>3
  <1>. QED
    BY <1>3, <1>4, <1>5

LEMMA NextKeepsTypes == Types /\ [TenancyNext]_tenancy => Types'
  <1>. SUFFICES ASSUME Types, [TenancyNext]_tenancy PROVE Typed'
    BY TypedIsTypes, PTL
  <1>0. Typed
    BY TypedIsTypes
  <1>1. ASSUME NEW g \in Granting, NEW label \in GrantPlaces, GrantTo(g, label),
               tenant' \in BOOLEAN, namespaces' \subseteq Namespaces, deaths' \in Nat,
               UNCHANGED <<make, members, revoke, query, log, before, freed, scope>>
        PROVE  Typed'
    BY <1>0, <1>1, GrantMoves DEF Typed, RowsTyped
  <1>2. Granting = Creates \union Grants /\ DefaultNamespace \in Namespaces
    BY TenancyAssumption DEF Granting
  <1>3. ASSUME NEW c \in Creates, FindTenant(c) PROVE Typed'
    <2>1. PICK label \in {"refused", "create"} : GrantTo(c, label)
      BY <1>3 DEF FindTenant
    <2>. QED
      BY <1>0, <1>1, <1>2, <1>3, <2>1 DEF FindTenant, Typed, tenants, bounds, GrantPlaces
  <1>4. ASSUME NEW c \in Creates, InsertTenant(c) PROVE Typed'
    <2>1. PICK label \in {"failed", "select"} : GrantTo(c, label)
      BY <1>4 DEF InsertTenant
    <2>. QED
      BY <1>0, <1>1, <1>2, <1>4, <2>1 DEF InsertTenant, Mint, Typed, bounds, GrantPlaces
  <1>5. ASSUME NEW m \in Makes, CreateNamespace(m) PROVE Typed'
    <2>1. PICK label \in MakePlaces : MakeTo(m, label)
      BY <1>5 DEF CreateNamespace, FindTenantOf, FindNamespace, InsertNamespace, MakePlaces
    <2>2. namespaces' \subseteq Namespaces
      BY <1>0, <1>5, TenancyAssumption DEF CreateNamespace, FindTenantOf, FindNamespace,
         InsertNamespace, Typed
    <2>. QED
      BY <1>0, <2>1, <2>2 DEF MakeTo, Typed, RowsTyped, bounds
  <1>6. ASSUME NEW g \in Grants, StartGrant(g) \/ CheckNamespace(g) PROVE Typed'
    <2>1. PICK label \in {"refused", "select", "namespace"} : GrantTo(g, label)
      BY <1>6 DEF StartGrant, CheckNamespace
    <2>. QED
      BY <1>0, <1>1, <1>2, <1>6, <2>1 DEF StartGrant, CheckNamespace, Typed, tenants, bounds,
         GrantPlaces
  <1>7. ASSUME NEW g \in Granting, FindRow(g) PROVE Typed'
    <2>. DEFINE found == RowOf(KeyFor(g))
                row == [pc |-> "update", id |-> Max(found), role |-> members[Max(found)].role]
    <2>1. PICK v \in GrantRecord : grant' = [grant EXCEPT ![g] = v]
      <3>1. CASE found = {}
        <4>1. [grant[g] EXCEPT !.pc = "insert"] \in GrantRecord
          BY <1>0 DEF Typed, GrantRecord, GrantPlaces
        <4>. QED
          BY <1>7, <3>1, <4>1 DEF FindRow
      <3>2. CASE found # {}
        <4>1. Max(found) \in Nat /\ members[Max(found)].role \in Roles
          BY <3>2, CallTypes, FoundIsTheRow
        <4>2. row \in GrantRecord
          BY <4>1 DEF GrantRecord, GrantPlaces
        <4>. QED
          BY <1>7, <3>2, <4>2 DEF FindRow
      <3>. QED
        BY <3>1, <3>2
    <2>2. grant' \in [Granting -> GrantRecord]
      BY <2>1, GrantSet
    <2>. QED
      BY <1>0, <1>7, <2>2 DEF FindRow, Typed, RowsTyped, tenants, bounds
  <1>8. ASSUME NEW g \in Granting, InsertRow(g) PROVE Typed'
    <2>1. CASE RowOf(KeyFor(g)) # {}
      <3>1. GrantTo(g, "failed")
        BY <1>8, <2>1 DEF InsertRow
      <3>. QED
        BY <1>0, <1>1, <1>8, <2>1, <3>1 DEF InsertRow, Typed, tenants, bounds, GrantPlaces
    <2>2. CASE RowOf(KeyFor(g)) = {}
      <3>1. Insertion(g)
        BY <1>8, <2>2 DEF InsertRow, Insertion
      <3>. DEFINE v == [grant[g] EXCEPT !.pc = "refresh", !.id = NextId(members)]
      <3>2. v \in GrantRecord
        BY <1>0, NextIdIsNew DEF Typed, GrantRecord, GrantPlaces
      <3>3. grant' = [grant EXCEPT ![g] = v]
        BY <1>8, <2>2 DEF InsertRow
      <3>. HIDE DEF v
      <3>4. grant' \in [Granting -> GrantRecord]
        BY <3>2, <3>3, GrantSet
      <3>5. RowsTyped'
        BY <3>1, RowsStepTyped DEF RowsStep
      <3>. QED
        BY <1>0, <1>8, <3>4, <3>5 DEF InsertRow, Typed, tenants, bounds
    <2>. QED
      BY <2>1, <2>2
  <1>9. ASSUME NEW g \in Granting, UpdateRow(g) PROVE Typed'
    <2>1. CASE grant[g].id \notin DOMAIN members
      <3>1. GrantTo(g, "failed")
        BY <1>9, <2>1 DEF UpdateRow
      <3>. QED
        BY <1>0, <1>1, <1>9, <2>1, <3>1 DEF UpdateRow, Typed, tenants, bounds, GrantPlaces
    <2>2. CASE grant[g].id \in DOMAIN members
      <3>2. Update(g) /\ GrantTo(g, "refresh")
        BY <1>9, <2>2 DEF UpdateRow, Update
      <3>3. grant' \in [Granting -> GrantRecord]
        BY <3>2, GrantMoves DEF GrantPlaces
      <3>4. RowsTyped'
        BY <3>2, RowsStepTyped DEF RowsStep
      <3>. QED
        BY <1>0, <1>9, <3>3, <3>4 DEF UpdateRow, Typed, tenants, bounds
    <2>. QED
      BY <2>1, <2>2
  <1>10. ASSUME NEW g \in Granting, Refresh(g) \/ Die(g) PROVE Typed'
    <2>1. PICK label \in {"returned", "failed", "dead"} : GrantTo(g, label)
      BY <1>10 DEF Refresh, Die
    <2>. QED
      BY <1>0, <1>1, <1>10, <2>1 DEF Refresh, Die, Typed, tenants, bounds, GrantPlaces
  <1>11. ASSUME NEW r \in Revokes, FindRevoked(r) PROVE Typed'
    <2>. DEFINE found == RowOf(MembershipOf[r])
    <2>1. PICK v \in RevokeRecord : revoke' = [revoke EXCEPT ![r] = v]
      <3>1. CASE found = {}
        <4>1. [revoke[r] EXCEPT !.pc = "returned"] \in RevokeRecord
          BY <1>0 DEF Typed, RevokeRecord
        <4>. QED
          BY <1>11, <3>1, <4>1 DEF FindRevoked
      <3>2. CASE found # {}
        <4>1. Max(found) \in Nat
          BY <3>2, FoundIsTheRow, TenancyAssumption
        <4>2. [pc |-> "delete", id |-> Max(found)] \in RevokeRecord
          BY <4>1 DEF RevokeRecord
        <4>. QED
          BY <1>11, <3>2, <4>2 DEF FindRevoked
      <3>. QED
        BY <3>1, <3>2
    <2>2. revoke' \in [Revokes -> RevokeRecord]
      BY <1>0, <2>1 DEF Typed
    <2>3. before' \in [Revokes -> SUBSET Granting]
      BY <1>0, <1>11 DEF Typed, FindRevoked
    <2>. QED
      BY <1>0, <1>11, <2>2, <2>3 DEF FindRevoked, Typed, RowsTyped, tenants, bounds
  <1>12. ASSUME NEW r \in Revokes, DeleteRow(r) PROVE Typed'
    <2>2. Deletion(r)
      BY <1>12 DEF DeleteRow, Deletion
    <2>3. revoke' \in [Revokes -> RevokeRecord]
      <3>. DEFINE v == [revoke[r] EXCEPT !.pc = "returned"]
      <3>1. v \in RevokeRecord
        BY <1>0 DEF Typed, RevokeRecord
      <3>2. revoke' = [revoke EXCEPT ![r] = v]
        BY <1>12 DEF DeleteRow
      <3>. HIDE DEF v
      <3>. QED
        BY <1>0, <3>1, <3>2 DEF Typed
    <2>4. RowsTyped'
      BY <2>2, RowsStepTyped DEF RowsStep
    <2>5. freed' \subseteq Granting
      BY <1>0, <1>12 DEF DeleteRow, Typed
    <2>. QED
      BY <1>0, <1>12, <2>3, <2>4, <2>5 DEF DeleteRow, Typed, tenants, bounds
  <1>13. ASSUME NEW q \in Queries, StartQuery(q) \/ CheckAccess(q) \/ ReadLatest(q)
         PROVE  Typed'
    <2>1. query' \in [Queries -> QueryRecord]
      BY <1>0, <1>13, QuerySteps DEF Typed
    <2>. QED
      BY <1>0, <1>13, <2>1 DEF StartQuery, CheckAccess, ReadLatest, Typed, RowsTyped, tenants,
         bounds
  <1>14. ASSUME NEW n \in Namespaces, CommitAppended(n) PROVE Typed'
    BY <1>0, <1>14 DEF CommitAppended, Typed, RowsTyped, tenants, bounds
  <1>15. CASE UNCHANGED tenancy
    BY <1>0, <1>15 DEF tenancy, bounds, Typed, RowsTyped
  <1>. QED
    BY <1>3, <1>4, <1>5, <1>6, <1>7, <1>8, <1>9, <1>10, <1>11, <1>12, <1>13, <1>14, <1>15,
       AskedIsNamed DEF TenancyNext, GrantRole

-----------------------------------------------------------------------------
\* The statements of a creation or a grant, each by the places it leads between.
Statement(g) ==
    LET from == grant[g].pc
        to == grant'[g].pc
        id == grant'[g].id
    IN
    \/ /\ from = "idle" /\ to \in {"refused", "create"} /\ g \in Creates
       /\ UNCHANGED <<tenant, members, deaths>>
    \/ /\ from = "create" /\ to = (IF tenant THEN "failed" ELSE "select")
       /\ g \in Creates /\ tenant' /\ UNCHANGED <<members, deaths>>
    \/ /\ from = "idle" /\ to \in {"refused", "namespace", "select"} /\ g \in Grants
       /\ to # "refused" => tenant
       /\ to = "select" => MembershipOf[g][2] = TenantWide
       /\ UNCHANGED <<tenant, members, deaths>>
    \/ /\ from = "namespace" /\ to \in {"refused", "select"} /\ g \in Grants
       /\ to = "select" => MembershipOf[g][2] \in namespaces
       /\ UNCHANGED <<tenant, members, deaths>>
    \/ /\ from = "select" /\ to = "insert" /\ RowOf(KeyFor(g)) = {}
       /\ UNCHANGED <<tenant, members, deaths>>
    \/ /\ from = "select" /\ to = "update" /\ id \in RowOf(KeyFor(g))
       /\ UNCHANGED <<tenant, members, deaths>>
    \/ /\ from = "insert" /\ to = "failed" /\ RowOf(KeyFor(g)) # {}
       /\ UNCHANGED <<tenant, members, deaths>>
    \/ /\ Insertion(g) /\ to = "refresh" /\ id = NextId(members)
       /\ UNCHANGED <<tenant, deaths>>
    \/ /\ from = "update" /\ to = "failed"
       /\ UNCHANGED <<tenant, members, deaths>>
    \/ /\ Update(g) /\ to = "refresh" /\ id = grant[g].id
       /\ UNCHANGED <<tenant, deaths>>
    \/ /\ from = "refresh" /\ id = grant[g].id
       /\ to = (IF id \in DOMAIN members THEN "returned" ELSE "failed")
       /\ UNCHANGED <<tenant, members, deaths>>
    \/ /\ from \in Writing \union {"create", "namespace"} /\ to = "dead"
       /\ deaths' = deaths + 1 /\ UNCHANGED <<tenant, members>>

CallStep(g) ==
    /\ Statement(g)
    /\ \A h \in Granting : h # g => grant'[h] = grant[h]
    /\ namespaces \subseteq namespaces'
    /\ UNCHANGED <<make, revoke, query, log, before, freed, scope>>

\* The steps of the other calls change no grant, and only a revocation the rows.
OtherStep ==
    /\ namespaces \subseteq namespaces'
    /\ UNCHANGED <<tenant, grant, deaths, scope>>
    /\ \/ UNCHANGED <<members, freed>>
       \/ \E r \in Revokes : DeleteRow(r) /\ Deletion(r)

LEMMA NextIsStep ==
    ASSUME Types, [TenancyNext]_tenancy
    PROVE  (\E g \in Granting : CallStep(g)) \/ OtherStep
  <1>0. Typed
    BY TypedIsTypes
  <1>1. Granting = Creates \union Grants
    BY DEF Granting
  <1>2. ASSUME NEW c \in Creates, FindTenant(c) PROVE CallStep(c)
    <2>1. PICK label \in {"refused", "create"} : GrantTo(c, label)
      BY <1>2 DEF FindTenant
    <2>2. grant'[c].pc = label /\ \A h \in Granting : h # c => grant'[h] = grant[h]
      BY <1>1, <2>1, GrantMoves DEF GrantPlaces
    <2>3. Statement(c)
      BY <1>2, <2>2 DEF FindTenant, Statement, tenants, bounds
    <2>. QED
      BY <1>2, <2>2, <2>3 DEF FindTenant, CallStep, tenants, bounds
  <1>3. ASSUME NEW c \in Creates, InsertTenant(c) PROVE CallStep(c)
    <2>1. GrantTo(c, IF tenant THEN "failed" ELSE "select")
      BY <1>3 DEF InsertTenant
    <2>2. /\ grant'[c].pc = IF tenant THEN "failed" ELSE "select"
          /\ \A h \in Granting : h # c => grant'[h] = grant[h]
      BY <1>1, <2>1, GrantMoves DEF GrantPlaces
    <2>3. Statement(c)
      BY <1>1, <1>3, <2>2 DEF InsertTenant, Mint, Statement, bounds
    <2>. QED
      BY <1>3, <2>2, <2>3 DEF InsertTenant, Mint, CallStep, bounds
  <1>4. ASSUME NEW g \in Grants, StartGrant(g) PROVE CallStep(g)
    <2>1. PICK label \in {"refused", "select", "namespace"} :
             /\ GrantTo(g, label)
             /\ label # "refused" => tenant
             /\ label = "select" => MembershipOf[g][2] = TenantWide
      BY <1>4 DEF StartGrant
    <2>2. grant'[g].pc = label /\ \A h \in Granting : h # g => grant'[h] = grant[h]
      BY <1>1, <2>1, GrantMoves DEF GrantPlaces
    <2>3. Statement(g)
      BY <1>4, <2>1, <2>2 DEF StartGrant, Statement, tenants, bounds
    <2>. QED
      BY <1>4, <2>2, <2>3 DEF StartGrant, CallStep, tenants, bounds
  <1>5. ASSUME NEW g \in Grants, CheckNamespace(g) PROVE CallStep(g)
    <2>1. PICK label \in {"refused", "select"} :
             GrantTo(g, label) /\ (label = "select" => MembershipOf[g][2] \in namespaces)
      BY <1>5 DEF CheckNamespace
    <2>2. grant'[g].pc = label /\ \A h \in Granting : h # g => grant'[h] = grant[h]
      BY <1>1, <2>1, GrantMoves DEF GrantPlaces
    <2>3. Statement(g)
      BY <1>5, <2>1, <2>2 DEF CheckNamespace, Statement, tenants, bounds
    <2>. QED
      BY <1>5, <2>2, <2>3 DEF CheckNamespace, CallStep, tenants, bounds
  <1>6. ASSUME NEW g \in Granting, FindRow(g) PROVE CallStep(g)
    <2>. DEFINE found == RowOf(KeyFor(g))
                row == [pc |-> "update", id |-> Max(found), role |-> members[Max(found)].role]
                none == [grant[g] EXCEPT !.pc = "insert"]
    <2>1. PICK v \in GrantRecord :
             /\ grant' = [grant EXCEPT ![g] = v]
             /\ \/ found = {} /\ v.pc = "insert"
                \/ v.pc = "update" /\ v.id \in found
      <3>1. CASE found = {}
        <4>1. none \in GrantRecord /\ none.pc = "insert"
          BY <1>0 DEF Typed, GrantRecord, GrantPlaces
        <4>. QED
          BY <1>6, <3>1, <4>1 DEF FindRow
      <3>2. CASE found # {}
        <4>1. Max(found) \in Nat /\ members[Max(found)].role \in Roles /\ Max(found) \in found
          BY <3>2, CallTypes, FoundIsTheRow
        <4>2. row \in GrantRecord /\ row.pc = "update" /\ row.id \in found
          BY <4>1 DEF GrantRecord, GrantPlaces
        <4>. QED
          BY <1>6, <3>2, <4>2 DEF FindRow
      <3>. QED
        BY <3>1, <3>2
    <2>2. grant'[g] = v /\ \A h \in Granting : h # g => grant'[h] = grant[h]
      BY <2>1, GrantSet
    <2>3. grant[g].pc = "select" /\ UNCHANGED <<tenant, members, deaths>>
      BY <1>6 DEF FindRow, tenants, bounds
    <2>4. Statement(g)
      BY <2>1, <2>2, <2>3 DEF Statement
    <2>. QED
      BY <1>6, <2>2, <2>4 DEF FindRow, CallStep, tenants, bounds
  <1>7. ASSUME NEW g \in Granting, InsertRow(g) PROVE CallStep(g)
    <2>1. CASE RowOf(KeyFor(g)) # {}
      <3>1. GrantTo(g, "failed") /\ UNCHANGED <<tenant, members, deaths>> /\ grant[g].pc = "insert"
        BY <1>7, <2>1 DEF InsertRow, tenants, bounds
      <3>2. grant'[g].pc = "failed" /\ \A h \in Granting : h # g => grant'[h] = grant[h]
        BY <3>1, GrantMoves DEF GrantPlaces
      <3>3. Statement(g)
        BY <2>1, <3>1, <3>2 DEF Statement
      <3>. QED
        BY <1>7, <3>2, <3>3 DEF InsertRow, CallStep, tenants, bounds
    <2>2. CASE RowOf(KeyFor(g)) = {}
      <3>1. Insertion(g) /\ UNCHANGED <<tenant, deaths>>
        BY <1>7, <2>2 DEF InsertRow, Insertion, tenants, bounds
      <3>. DEFINE v == [grant[g] EXCEPT !.pc = "refresh", !.id = NextId(members)]
      <3>2. v \in GrantRecord /\ v.pc = "refresh" /\ v.id = NextId(members)
        BY <1>0, NextIdIsNew DEF Typed, GrantRecord, GrantPlaces
      <3>3. grant' = [grant EXCEPT ![g] = v]
        BY <1>7, <2>2 DEF InsertRow
      <3>. HIDE DEF v
      <3>4. grant'[g] = v /\ \A h \in Granting : h # g => grant'[h] = grant[h]
        BY <3>2, <3>3, GrantSet
      <3>5. Statement(g)
        BY <3>1, <3>2, <3>4 DEF Statement
      <3>. QED
        BY <1>7, <3>4, <3>5 DEF InsertRow, CallStep, tenants, bounds
    <2>. QED
      BY <2>1, <2>2
  <1>8. ASSUME NEW g \in Granting, UpdateRow(g) PROVE CallStep(g)
    <2>1. CASE grant[g].id \notin DOMAIN members
      <3>1. GrantTo(g, "failed") /\ UNCHANGED <<tenant, members, deaths>> /\ grant[g].pc = "update"
        BY <1>8, <2>1 DEF UpdateRow, tenants, bounds
      <3>2. grant'[g].pc = "failed" /\ \A h \in Granting : h # g => grant'[h] = grant[h]
        BY <3>1, GrantMoves DEF GrantPlaces
      <3>3. Statement(g)
        BY <3>1, <3>2 DEF Statement
      <3>. QED
        BY <1>8, <3>2, <3>3 DEF UpdateRow, CallStep, tenants, bounds
    <2>2. CASE grant[g].id \in DOMAIN members
      <3>1. Update(g) /\ GrantTo(g, "refresh") /\ UNCHANGED <<tenant, deaths>>
        BY <1>8, <2>2 DEF UpdateRow, Update, tenants, bounds
      <3>2. /\ grant'[g].pc = "refresh" /\ grant'[g].id = grant[g].id
            /\ \A h \in Granting : h # g => grant'[h] = grant[h]
        BY <3>1, GrantMoves DEF GrantPlaces
      <3>3. Statement(g)
        BY <3>1, <3>2 DEF Statement
      <3>. QED
        BY <1>8, <3>2, <3>3 DEF UpdateRow, CallStep, tenants, bounds
    <2>. QED
      BY <2>1, <2>2
  <1>9. ASSUME NEW g \in Granting, Refresh(g) PROVE CallStep(g)
    <2>1. GrantTo(g, IF grant[g].id \in DOMAIN members THEN "returned" ELSE "failed")
      BY <1>9 DEF Refresh
    <2>2. /\ grant'[g].pc = IF grant[g].id \in DOMAIN members THEN "returned" ELSE "failed"
          /\ grant'[g].id = grant[g].id
          /\ \A h \in Granting : h # g => grant'[h] = grant[h]
      BY <2>1, GrantMoves DEF GrantPlaces
    <2>3. Statement(g)
      BY <1>9, <2>2 DEF Refresh, Statement, tenants, bounds
    <2>. QED
      BY <1>9, <2>2, <2>3 DEF Refresh, CallStep, tenants, bounds
  <1>10. ASSUME NEW g \in Granting, Die(g) PROVE CallStep(g)
    <2>1. GrantTo(g, "dead")
      BY <1>10 DEF Die
    <2>2. grant'[g].pc = "dead" /\ \A h \in Granting : h # g => grant'[h] = grant[h]
      BY <2>1, GrantMoves DEF GrantPlaces
    <2>3. Statement(g)
      BY <1>10, <2>2 DEF Die, Statement, Writing, tenants
    <2>. QED
      BY <1>10, <2>2, <2>3 DEF Die, CallStep, tenants
  <1>11. ASSUME NEW m \in Makes, CreateNamespace(m) PROVE OtherStep
    BY <1>11 DEF CreateNamespace, FindTenantOf, FindNamespace, InsertNamespace, MakeTo,
       OtherStep, bounds
  <1>12. ASSUME NEW r \in Revokes, FindRevoked(r) PROVE OtherStep
    BY <1>12 DEF FindRevoked, OtherStep, tenants, bounds
  <1>13. ASSUME NEW r \in Revokes, DeleteRow(r) PROVE OtherStep
    <2>1. Deletion(r)
      BY <1>13 DEF DeleteRow, Deletion
    <2>2. namespaces \subseteq namespaces' /\ UNCHANGED <<tenant, grant, deaths, scope>>
      BY <1>13 DEF DeleteRow, tenants, bounds
    <2>. QED
      BY <1>13, <2>1, <2>2 DEF OtherStep
  <1>14. ASSUME NEW q \in Queries,
                StartQuery(q) \/ CheckAccess(q) \/ ReadLatest(q) \/ CommitAppended(AskedBy[q][2])
         PROVE  OtherStep
    BY <1>14 DEF StartQuery, CheckAccess, ReadLatest, CommitAppended, OtherStep, tenants, bounds
  <1>15. CASE UNCHANGED tenancy
    BY <1>15 DEF tenancy, bounds, OtherStep
  <1>. QED
    BY <1>1, <1>2, <1>3, <1>4, <1>5, <1>6, <1>7, <1>8, <1>9, <1>10, <1>11, <1>12, <1>13,
       <1>14, <1>15 DEF TenancyNext, GrantRole

-----------------------------------------------------------------------------
\* One creation of each thing.
LEMMA NextKeepsOneCreation ==
    ASSUME Types, OneCreation, [TenancyNext]_tenancy
    PROVE  OneCreation'
  <1>1. CASE OtherStep
    <2>1. UNCHANGED <<tenant, grant>>
      BY <1>1 DEF OtherStep
    <2>2. DOMAIN members' \subseteq DOMAIN members
      <3>1. ASSUME NEW r \in Revokes, Deletion(r) PROVE DOMAIN members' \subseteq DOMAIN members
        BY <3>1, Deleted DEF Deletion
      <3>. QED
        BY <1>1, <3>1 DEF OtherStep
    <2>. QED
      BY <2>1, <2>2 DEF OneCreation
  <1>2. ASSUME NEW g \in Granting, CallStep(g) PROVE OneCreation'
    <2>1. Creates \subseteq Granting /\ Creates \cap Grants = {}
      BY TenancyAssumption DEF Granting
    <2>2. tenant \in BOOLEAN /\ (tenant => tenant')
      BY <1>2 DEF CallStep, Statement, Types, TenancyTypeOK
    <2>3. g \in Creates /\ grant'[g].pc \in Created => grant[g].pc \in Created \/ ~tenant
      BY <1>2, <2>1, <2>2 DEF CallStep, Statement, Insertion, Update, Created, Writing
    <2>4. grant'[g].pc \in Writing \union {"namespace", "returned"} => tenant'
      BY <1>2, <2>2 DEF CallStep, Statement, Insertion, Update, OneCreation, Writing
    <2>5. DOMAIN members' # {} => tenant'
      <3>1. CASE members' = members
        BY <2>2, <3>1 DEF OneCreation
      <3>2. CASE Insertion(g)
        BY <2>2, <3>2 DEF OneCreation, Insertion, Writing
      <3>3. CASE Update(g)
        BY <2>2, <3>3 DEF OneCreation, Update, Writing
      <3>. QED
        BY <1>2, <3>1, <3>2, <3>3 DEF CallStep, Statement
    <2>6. \A h \in Granting : h # g => grant'[h] = grant[h]
      BY <1>2 DEF CallStep
    <2>7. \A h \in Granting :
             grant'[h].pc \in Writing \union {"namespace", "returned"} => tenant'
      BY <2>2, <2>4, <2>6 DEF OneCreation
    <2>8. \A c \in Creates : grant[c].pc \in Created => tenant
      BY <2>1 DEF OneCreation, Created
    <2>9. \A c, d \in Creates : grant'[c].pc \in Created /\ grant'[d].pc \in Created => c = d
      <3>. SUFFICES ASSUME NEW c \in Creates, NEW d \in Creates, c # d,
                           grant'[c].pc \in Created, grant'[d].pc \in Created
                    PROVE  FALSE
        OBVIOUS
      <3>1. CASE c = g
        <4>1. grant[d].pc \in Created
          BY <2>1, <2>6, <3>1
        <4>. QED
          BY <2>3, <2>8, <3>1, <4>1 DEF OneCreation
      <3>2. CASE d = g
        <4>1. grant[c].pc \in Created
          BY <2>1, <2>6, <3>2
        <4>. QED
          BY <2>3, <2>8, <3>2, <4>1 DEF OneCreation
      <3>3. CASE c # g /\ d # g
        BY <2>1, <2>6, <3>3 DEF OneCreation
      <3>. QED
        BY <3>1, <3>2, <3>3
    <2>. QED
      BY <2>5, <2>7, <2>9 DEF OneCreation
  <1>. QED
    BY <1>1, <1>2, NextIsStep

LEMMA NextKeepsMadeOnce ==
    ASSUME Types, MadeOnce, [TenancyNext]_tenancy
    PROVE  MadeOnce'
  <1>1. make \in [Makes -> MakePlaces]
    BY TypedIsTypes DEF Typed
  <1>2. namespaces \subseteq namespaces'
    BY NextIsStep DEF CallStep, OtherStep
  <1>3. CASE UNCHANGED make
    BY <1>2, <1>3 DEF MadeOnce
  <1>4. ASSUME NEW m \in Makes, CreateNamespace(m) PROVE MadeOnce'
    <2>1. /\ \A p \in Makes : p # m => make'[p] = make[p]
          /\ make'[m] = "returned" => /\ NameOf[m] \notin namespaces
                                      /\ NameOf[m] \in namespaces'
      BY <1>1, <1>4 DEF CreateNamespace, FindTenantOf, FindNamespace, InsertNamespace, MakeTo
    <2>. QED
      BY <1>2, <2>1 DEF MadeOnce
  <1>5. UNCHANGED make \/ \E m \in Makes : CreateNamespace(m)
    <2>1. CASE TenancyNext
      BY <2>1 DEF TenancyNext, GrantRole, FindTenant, InsertTenant, StartGrant, CheckNamespace,
         FindRow, InsertRow, UpdateRow, Refresh, Die, FindRevoked, DeleteRow, StartQuery,
         CheckAccess, ReadLatest, CommitAppended, tenants
    <2>2. CASE UNCHANGED tenancy
      BY <2>2 DEF tenancy
    <2>. QED
      BY <2>1, <2>2
  <1>. QED
    BY <1>3, <1>4, <1>5

\* A set with no two members is counted once.
LEMMA AtMostOne ==
    ASSUME NEW S, \A x, y \in S : x = y
    PROVE  Cardinality(S) <= 1
  <1>1. CASE S = {}
    BY <1>1, FS_EmptySet
  <1>2. ASSUME NEW x \in S PROVE Cardinality(S) <= 1
    <2>1. S = {x}
      BY <1>2
    <2>. QED
      BY <2>1, FS_Singleton
  <1>. QED
    BY <1>1, <1>2

LEMMA OnceEach == OneCreation /\ MadeOnce => CreatedOnce
  <1>. SUFFICES ASSUME OneCreation, MadeOnce PROVE CreatedOnce
    OBVIOUS
  <1>. DEFINE made == {c \in Creates : grant[c].pc \in {"select", "insert", "update",
                                                       "refresh", "returned"}}
              Named(n) == {m \in Makes : make[m] = "returned" /\ NameOf[m] = n}
  <1>1. Cardinality(made) <= 1
    <2>1. \A x, y \in made : x = y
      BY DEF OneCreation, Created, Writing
    <2>. HIDE DEF made
    <2>. QED
      BY <2>1, AtMostOne
  <1>2. ASSUME NEW n \in Namespaces PROVE Cardinality(Named(n)) <= 1
    <2>1. PICK S : S = Named(n)
      OBVIOUS
    <2>2. \A x, y \in S : x = y
      BY <2>1 DEF MadeOnce
    <2>. QED
      BY <2>1, <2>2, AtMostOne
  <1>. QED
    BY <1>1, <1>2 DEF CreatedOnce

-----------------------------------------------------------------------------
\* What is in the rows.
LEMMA CallKeepsRows ==
    ASSUME Types, NEW g \in Granting, CallStep(g)
    PROVE  /\ DOMAIN members \subseteq DOMAIN members'
           /\ \A i \in DOMAIN members : members'[i].key = members[i].key
           /\ \A i \in DOMAIN members' :
                 \/ i \in DOMAIN members
                 \/ /\ Insertion(g) /\ i = NextId(members)
                    /\ members'[i].key = KeyFor(g) /\ members'[i].role = RoleFor(g)
           /\ \A i \in DOMAIN members :
                 \/ members'[i] = members[i]
                 \/ Update(g) /\ i = grant[g].id /\ members'[i].role = RoleFor(g)
  <1>1. CASE members' = members
    BY <1>1
  <1>2. CASE Insertion(g)
    <2>1. members' = RowsWith(g)
      BY <1>2 DEF Insertion
    <2>2. /\ DOMAIN members' = DOMAIN members \union {NextId(members)}
          /\ members'[NextId(members)].key = KeyFor(g)
          /\ members'[NextId(members)].role = RoleFor(g)
          /\ \A i \in DOMAIN members : members'[i] = members[i]
      BY <2>1, Inserted
    <2>. QED
      BY <1>2, <2>2
  <1>3. CASE Update(g)
    <2>1. /\ DOMAIN members' = DOMAIN members
          /\ \A i \in DOMAIN members : members'[i].key = members[i].key
          /\ \A i \in DOMAIN members :
                \/ members'[i] = members[i]
                \/ i = grant[g].id /\ members'[i].role = RoleFor(g)
      BY <1>3, Updated DEF Update
    <2>. QED
      BY <1>3, <2>1
  <1>. QED
    BY <1>1, <1>2, <1>3 DEF CallStep, Statement

LEMMA NextKeepsGrantConsistent ==
    ASSUME Types, [TenancyNext]_tenancy, \A g \in Granting : GrantConsistent(g)
    PROVE  (\A g \in Granting : GrantConsistent(g))'
  <1>1. ASSUME NEW g \in Granting, CallStep(g), NEW h \in Granting PROVE GrantConsistent(h)'
    <2>1. namespaces \subseteq namespaces' /\ freed' = freed
      BY <1>1 DEF CallStep
    <2>2. /\ DOMAIN members \subseteq DOMAIN members'
          /\ \A i \in DOMAIN members : members'[i].key = members[i].key
      BY <1>1, CallKeepsRows
    <2>3. CASE h # g
      <3>1. grant'[h] = grant[h]
        BY <1>1, <2>3 DEF CallStep
      <3>. QED
        BY <2>1, <2>2, <3>1 DEF GrantConsistent
    <2>4. CASE h = g
      <3>1. KeyFor(g)[2] = IF g \in Creates THEN TenantWide ELSE MembershipOf[g][2]
        BY DEF KeyFor
      <3>2. Creates \cap Grants = {}
        BY TenancyAssumption
      <3>3. grant'[g].pc \in Writing => KeyFor(g)[2] \in namespaces' \union {TenantWide}
        BY <1>1, <2>1, <3>1, <3>2
           DEF CallStep, Statement, Insertion, Update, GrantConsistent, Writing
      <3>4. grant'[g].pc = "update" => grant'[g].id \in RowOf(KeyFor(g)) /\ members' = members
        BY <1>1 DEF CallStep, Statement, Writing
      <3>. QED
        BY <2>4, <3>3, <3>4 DEF GrantConsistent, RowOf
    <2>. QED
      BY <2>3, <2>4
  <1>2. CASE OtherStep
    <2>1. namespaces \subseteq namespaces' /\ UNCHANGED grant
      BY <1>2 DEF OtherStep
    <2>2. CASE UNCHANGED <<members, freed>>
      BY <2>1, <2>2 DEF GrantConsistent
    <2>3. ASSUME NEW r \in Revokes, DeleteRow(r), Deletion(r), NEW g \in Granting
          PROVE  GrantConsistent(g)'
      <3>1. /\ freed \subseteq freed'
            /\ grant[g].pc = "update" /\ grant[g].id = revoke[r].id => g \in freed'
        BY <2>3 DEF DeleteRow
      <3>2. /\ DOMAIN members' = DOMAIN members \ {revoke[r].id}
            /\ \A i \in DOMAIN members' : members'[i] = members[i]
        BY <2>3, Deleted DEF Deletion
      <3>. QED
        BY <2>1, <3>1, <3>2 DEF GrantConsistent
    <2>. QED
      BY <1>2, <2>2, <2>3 DEF OtherStep
  <1>. QED
    BY <1>1, <1>2, NextIsStep

LEMMA NextKeepsNamespaces ==
    ASSUME Types, [TenancyNext]_tenancy, \A g \in Granting : GrantConsistent(g), MembersHaveNamespace
    PROVE  MembersHaveNamespace'
  <1>1. ASSUME NEW g \in Granting, CallStep(g), NEW i \in DOMAIN members'
        PROVE  members'[i].key[2] \in namespaces' \union {TenantWide}
    <2>1. namespaces \subseteq namespaces'
      BY <1>1 DEF CallStep
    <2>2. CASE i \in DOMAIN members
      <3>1. members'[i].key = members[i].key
        BY <1>1, <2>2, CallKeepsRows
      <3>. QED
        BY <2>1, <2>2, <3>1 DEF MembersHaveNamespace
    <2>3. CASE Insertion(g) /\ members'[i].key = KeyFor(g)
      <3>1. KeyFor(g)[2] \in namespaces \union {TenantWide}
        BY <2>3 DEF Insertion, GrantConsistent, Writing
      <3>. QED
        BY <2>1, <2>3, <3>1
    <2>. QED
      BY <1>1, <2>2, <2>3, CallKeepsRows
  <1>2. CASE OtherStep
    <2>1. namespaces \subseteq namespaces'
      BY <1>2 DEF OtherStep
    <2>2. \A i \in DOMAIN members' : i \in DOMAIN members /\ members'[i] = members[i]
      <3>1. ASSUME NEW r \in Revokes, Deletion(r)
            PROVE  \A i \in DOMAIN members' : i \in DOMAIN members /\ members'[i] = members[i]
        BY <3>1, Deleted DEF Deletion
      <3>. QED
        BY <1>2, <3>1 DEF OtherStep
    <2>. QED
      BY <2>1, <2>2 DEF MembersHaveNamespace
  <1>. QED
    BY <1>1, <1>2, NextIsStep DEF MembersHaveNamespace

\* The call g gave the role in row: RolesAreGranted, of one row.
Wrote == {"refresh", "returned", "failed", "dead"}
GaveRole(g, row) ==
    (KeyFor(g) = row.key \/ g \in freed) /\ RoleFor(g) = row.role /\ grant[g].pc \in Wrote

LEMMA NextKeepsRoles ==
    ASSUME Types, [TenancyNext]_tenancy, \A g \in Granting : GrantConsistent(g), RolesAreGranted
    PROVE  RolesAreGranted'
  <1>1. freed \subseteq freed'
    BY NextIsStep DEF CallStep, OtherStep, DeleteRow
  <1>2. \A h \in Granting : grant[h].pc \in Wrote => grant'[h].pc \in Wrote
    BY NextIsStep DEF CallStep, OtherStep, Statement, Insertion, Update, Writing, Wrote
  <1>3. \A i \in DOMAIN members : \E h \in Granting : GaveRole(h, members[i])
    BY DEF RolesAreGranted, GaveRole, Wrote
  <1>4. ASSUME NEW i \in DOMAIN members', i \in DOMAIN members, members'[i] = members[i]
        PROVE  \E h \in Granting : GaveRole(h, members[i])'
    BY <1>1, <1>2, <1>3, <1>4 DEF GaveRole
  <1>5. ASSUME NEW g \in Granting, CallStep(g), NEW i \in DOMAIN members'
        PROVE  \E h \in Granting : GaveRole(h, members[i])'
    <2>1. CASE Insertion(g) /\ i = NextId(members)
      <3>1. /\ members'[i].key = KeyFor(g) /\ members'[i].role = RoleFor(g)
        <4>1. members' = RowsWith(g)
          BY <2>1 DEF Insertion
        <4>. QED
          BY <2>1, <4>1, Inserted
      <3>2. grant'[g].pc \in Wrote
        BY <1>5, <2>1 DEF CallStep, Statement, Insertion, Update, Wrote, Writing
      <3>. QED
        BY <3>1, <3>2 DEF GaveRole
    <2>2. CASE i \in DOMAIN members /\ members'[i] = members[i]
      BY <1>4, <2>2
    <2>3. CASE /\ i \in DOMAIN members /\ Update(g)
               /\ i = grant[g].id /\ members'[i].role = RoleFor(g)
      <3>1. g \in freed' \/ members'[i].key = KeyFor(g)
        <4>1. members'[i].key = members[i].key /\ freed' = freed
          BY <1>5, <2>3, CallKeepsRows DEF CallStep
        <4>2. g \in freed \/ members[i].key = KeyFor(g)
          BY <2>3 DEF GrantConsistent, Update
        <4>. QED
          BY <4>1, <4>2
      <3>2. CASE grant'[g].pc \in Wrote
        BY <2>3, <3>1, <3>2 DEF GaveRole
      <3>3. CASE grant'[g].pc \notin Wrote
        BY <1>5, <2>3, <3>3 DEF CallStep, Statement, Insertion, Update, Wrote, Writing
      <3>. QED
        BY <3>2, <3>3
    <2>. QED
      BY <1>5, <2>1, <2>2, <2>3, CallKeepsRows
  <1>6. ASSUME OtherStep, NEW i \in DOMAIN members'
        PROVE  \E h \in Granting : GaveRole(h, members[i])'
    <2>1. i \in DOMAIN members /\ members'[i] = members[i]
      <3>1. ASSUME NEW r \in Revokes, Deletion(r)
            PROVE  i \in DOMAIN members /\ members'[i] = members[i]
        BY <1>6, <3>1, Deleted DEF Deletion
      <3>. QED
        BY <1>6, <3>1 DEF OtherStep
    <2>. QED
      BY <1>4, <2>1
  <1>7. \A i \in DOMAIN members' : \E h \in Granting : GaveRole(h, members[i])'
    BY <1>5, <1>6, NextIsStep
  <1>. QED
    BY <1>7 DEF RolesAreGranted, GaveRole, Wrote

\* What the two statements of a revocation do to it.
LEMMA FindRevokedMoves ==
    ASSUME Types, NEW r \in Revokes, FindRevoked(r)
    PROVE  /\ \/ RowOf(MembershipOf[r]) = {} /\ revoke'[r].pc = "returned"
              \/ RowOf(MembershipOf[r]) = {revoke'[r].id} /\ revoke'[r].pc = "delete"
           /\ \A s \in Revokes : s # r => revoke'[s] = revoke[s] /\ before'[s] = before[s]
           /\ before'[r] = {g \in Granting : grant[g].pc \in Over}
           /\ UNCHANGED <<members, grant>>
  <1>0. revoke \in [Revokes -> RevokeRecord] /\ before \in [Revokes -> SUBSET Granting]
    BY TypedIsTypes DEF Typed
  <1>. DEFINE found == RowOf(MembershipOf[r])
  <1>1. PICK v \in RevokeRecord :
           /\ revoke' = [revoke EXCEPT ![r] = v]
           /\ \/ found = {} /\ v.pc = "returned"
              \/ found = {v.id} /\ v.pc = "delete"
    <2>1. CASE found = {}
      <3>1. /\ [revoke[r] EXCEPT !.pc = "returned"] \in RevokeRecord
            /\ [revoke[r] EXCEPT !.pc = "returned"].pc = "returned"
        BY <1>0 DEF RevokeRecord
      <3>. QED
        BY <2>1, <3>1 DEF FindRevoked
    <2>2. CASE found # {}
      <3>1. Max(found) \in Nat /\ found = {Max(found)}
        BY <2>2, FoundIsTheRow, TenancyAssumption
      <3>2. [pc |-> "delete", id |-> Max(found)] \in RevokeRecord
        BY <3>1 DEF RevokeRecord
      <3>. QED
        BY <2>2, <3>1, <3>2 DEF FindRevoked
    <2>. QED
      BY <2>1, <2>2
  <1>2. revoke'[r] = v /\ \A s \in Revokes : s # r => revoke'[s] = revoke[s]
    BY <1>0, <1>1
  <1>3. /\ before'[r] = {g \in Granting : grant[g].pc \in Over}
        /\ \A s \in Revokes : s # r => before'[s] = before[s]
    BY <1>0 DEF FindRevoked, Over
  <1>. QED
    BY <1>1, <1>2, <1>3 DEF FindRevoked

LEMMA DeleteRowMoves ==
    ASSUME Types, NEW r \in Revokes, DeleteRow(r)
    PROVE  /\ revoke[r].pc = "delete"
           /\ revoke'[r].pc = "returned"
           /\ \A s \in Revokes : s # r => revoke'[s] = revoke[s]
           /\ DOMAIN members' = DOMAIN members \ {revoke[r].id}
           /\ \A i \in DOMAIN members' : members'[i] = members[i]
           /\ UNCHANGED <<grant, before>>
  <1>0. revoke \in [Revokes -> RevokeRecord]
    BY TypedIsTypes DEF Typed
  <1>. DEFINE v == [revoke[r] EXCEPT !.pc = "returned"]
  <1>1. v.pc = "returned"
    BY <1>0 DEF RevokeRecord
  <1>2. revoke' = [revoke EXCEPT ![r] = v]
    BY DEF DeleteRow
  <1>. HIDE DEF v
  <1>3. revoke'[r].pc = "returned" /\ \A s \in Revokes : s # r => revoke'[s] = revoke[s]
    BY <1>0, <1>1, <1>2
  <1>4. members' = Restrict(members, DOMAIN members \ {revoke[r].id})
    BY DEF DeleteRow
  <1>. QED
    BY <1>3, <1>4, Deleted DEF DeleteRow

LEMMA NextKeepsFreed ==
    ASSUME Types, [TenancyNext]_tenancy, FreedByRevokes
    PROVE  FreedByRevokes'
  <1>1. CASE UNCHANGED <<revoke, freed>>
    BY <1>1 DEF FreedByRevokes
  <1>2. ASSUME NEW r \in Revokes, FindRevoked(r) \/ DeleteRow(r) PROVE FreedByRevokes'
    <2>1. revoke'[r].pc # "idle"
      BY <1>2, FindRevokedMoves, DeleteRowMoves
    <2>. QED
      BY <2>1 DEF FreedByRevokes
  <1>3. CASE TenancyNext
    BY <1>1, <1>2, <1>3 DEF TenancyNext, GrantRole, CreateNamespace, FindTenant, InsertTenant,
       StartGrant, CheckNamespace, FindRow, InsertRow, UpdateRow, Refresh, Die,
       FindTenantOf, FindNamespace, InsertNamespace, MakeTo, StartQuery, CheckAccess,
       ReadLatest, CommitAppended
  <1>4. CASE UNCHANGED tenancy
    BY <1>1, <1>4 DEF tenancy
  <1>. QED
    BY <1>3, <1>4

-----------------------------------------------------------------------------
\* Revocation.
LEMMA NextRevokes ==
    ASSUME [TenancyNext]_tenancy
    PROVE  \/ UNCHANGED <<revoke, before>>
           \/ \E r \in Revokes : FindRevoked(r) \/ DeleteRow(r)
  <1>1. CASE TenancyNext
    BY <1>1 DEF TenancyNext, GrantRole, CreateNamespace, FindTenant, InsertTenant,
       StartGrant, CheckNamespace, FindRow, InsertRow, UpdateRow, Refresh, Die,
       FindTenantOf, FindNamespace, InsertNamespace, MakeTo, StartQuery, CheckAccess,
       ReadLatest, CommitAppended
  <1>2. CASE UNCHANGED tenancy
    BY <1>2 DEF tenancy
  <1>. QED
    BY <1>1, <1>2

\* A grant that is over stays so, and one that began does not become idle again.
LEMMA GrantsGoOn ==
    ASSUME Types, [TenancyNext]_tenancy, NEW g \in Granting
    PROVE  /\ grant[g].pc \in Over => grant'[g].pc \in Over
           /\ grant'[g].pc = "idle" => grant[g].pc = "idle"
  BY NextIsStep DEF CallStep, OtherStep, Statement, Insertion, Update, Writing, Over

\* A grant whose membership r revokes does not write while r is quiet.
LEMMA NextKeepsRevokeConsistent ==
    ASSUME Types, [TenancyNext]_tenancy, \A r \in Revokes : RevokeConsistent(r)
    PROVE  (\A r \in Revokes : RevokeConsistent(r))'
  <1>. SUFFICES ASSUME NEW r \in Revokes PROVE RevokeConsistent(r)'
    OBVIOUS
  <1>1. ASSUME NEW s \in Revokes, FindRevoked(s) PROVE RevokeConsistent(r)'
    <2>1. UNCHANGED <<members, grant>>
      BY <1>1, FindRevokedMoves
    <2>2. CASE s = r
      <3>1. \A g \in before'[r] : grant'[g].pc \in Over
        BY <1>1, <2>1, <2>2, FindRevokedMoves
      <3>2. \/ RowOf(MembershipOf[r])' = {} /\ revoke'[r].pc = "returned"
            \/ RowOf(MembershipOf[r])' = {revoke'[r].id} /\ revoke'[r].pc = "delete"
        BY <1>1, <2>1, <2>2, FindRevokedMoves DEF RowOf
      <3>. QED
        BY <3>1, <3>2 DEF RevokeConsistent
    <2>3. CASE s # r
      <3>1. revoke'[r] = revoke[r] /\ before'[r] = before[r]
        BY <1>1, <2>3, FindRevokedMoves
      <3>. QED
        BY <2>1, <3>1 DEF RevokeConsistent, Quiet, RowOf
    <2>. QED
      BY <2>2, <2>3
  <1>2. ASSUME NEW s \in Revokes, DeleteRow(s) PROVE RevokeConsistent(r)'
    <2>1. UNCHANGED <<grant, before>>
      BY <1>2, DeleteRowMoves
    <2>2. \A i \in RowOf(MembershipOf[r])' : i \in RowOf(MembershipOf[r]) /\ i # revoke[s].id
      BY <1>2, DeleteRowMoves DEF RowOf
    <2>3. CASE s = r
      <3>1. revoke[r].pc = "delete" /\ revoke'[r].pc = "returned"
        BY <1>2, <2>3, DeleteRowMoves
      <3>2. Quiet(r)' => RowOf(MembershipOf[r]) \subseteq {revoke[r].id}
        BY <2>1, <3>1 DEF RevokeConsistent, Quiet
      <3>. QED
        BY <2>1, <2>2, <2>3, <3>1, <3>2 DEF RevokeConsistent
    <2>4. CASE s # r
      <3>1. revoke'[r] = revoke[r]
        BY <1>2, <2>4, DeleteRowMoves
      <3>. QED
        BY <2>1, <2>2, <3>1 DEF RevokeConsistent, Quiet
    <2>. QED
      BY <2>3, <2>4
  <1>3. CASE UNCHANGED <<revoke, before>> /\ OtherStep /\ members' = members
    BY <1>3 DEF OtherStep, RevokeConsistent, Quiet, RowOf
  <1>4. ASSUME UNCHANGED <<revoke, before>>, NEW g \in Granting, CallStep(g)
        PROVE  RevokeConsistent(r)'
    <2>1. before[r] \subseteq Granting
      BY TypedIsTypes DEF Typed
    <2>2. \A h \in before[r] : grant'[h].pc \in Over
      BY <2>1, GrantsGoOn DEF RevokeConsistent
    <2>3. Quiet(r)' => Quiet(r)
      BY <1>4, GrantsGoOn DEF Quiet
    <2>4. Quiet(r)' /\ revoke[r].pc # "idle" => RowOf(MembershipOf[r])' \subseteq RowOf(MembershipOf[r])
      <3>. SUFFICES ASSUME Quiet(r)', revoke[r].pc # "idle", NEW i \in RowOf(MembershipOf[r])'
                    PROVE  i \in RowOf(MembershipOf[r])
        OBVIOUS
      <3>1. i \in DOMAIN members' /\ members'[i].key = MembershipOf[r]
        BY DEF RowOf
      <3>2. CASE i \in DOMAIN members
        <4>1. members'[i].key = members[i].key
          BY <1>4, <3>2, CallKeepsRows
        <4>. QED
          BY <3>1, <3>2, <4>1 DEF RowOf
      <3>3. CASE Insertion(g) /\ members'[i].key = KeyFor(g)
        <4>1. grant[g].pc = "insert"
          BY <3>3 DEF Insertion
        <4>2. g \in before[r] \/ grant[g].pc = "idle"
          BY <2>3, <3>1, <3>3 DEF Quiet
        <4>3. grant[g].pc \notin Over
          BY <4>1 DEF Over
        <4>. QED
          BY <4>1, <4>2, <4>3 DEF RevokeConsistent
      <3>. QED
        BY <1>4, <3>1, <3>2, <3>3, CallKeepsRows
    <2>. QED
      BY <1>4, <2>2, <2>3, <2>4 DEF RevokeConsistent
  <1>5. CASE UNCHANGED <<revoke, before>>
    <2>1. \A s \in Revokes : ~DeleteRow(s) \/ RevokeConsistent(r)'
      BY <1>2
    <2>. QED
      BY <1>3, <1>4, <1>5, <2>1, NextIsStep DEF OtherStep
  <1>. QED
    BY <1>1, <1>2, <1>5, NextRevokes

-----------------------------------------------------------------------------
\* Memberships that stand, and those taken away.
LEMMA ReturnedStays ==
    ASSUME Types, [TenancyNext]_tenancy
    PROVE  /\ \A r \in Revokes : revoke[r].pc = "returned" =>
                  revoke'[r].pc = "returned" /\ before'[r] = before[r]
           /\ Doubled => Doubled'
           /\ \A key : TakenAway(key) => TakenAway(key)'
  <1>1. ASSUME NEW r \in Revokes, revoke[r].pc = "returned"
        PROVE  revoke'[r].pc = "returned" /\ before'[r] = before[r]
    <2>1. ASSUME NEW s \in Revokes, FindRevoked(s)
          PROVE  revoke'[r].pc = "returned" /\ before'[r] = before[r]
      <3>1. s # r
        BY <1>1, <2>1 DEF FindRevoked
      <3>. QED
        BY <1>1, <2>1, <3>1, FindRevokedMoves
    <2>2. ASSUME NEW s \in Revokes, DeleteRow(s)
          PROVE  revoke'[r].pc = "returned" /\ before'[r] = before[r]
      BY <1>1, <2>2, DeleteRowMoves
    <2>. QED
      BY <1>1, <2>1, <2>2, NextRevokes
  <1>. QED
    BY <1>1 DEF Doubled, TakenAway

\* The grants that wrote stay so.
LEMMA WroteStays ==
    ASSUME Types, [TenancyNext]_tenancy, NEW g \in Granting
    PROVE  /\ grant[g].pc \in Wrote => grant'[g].pc \in Wrote
           /\ grant[g].pc = "returned" => grant'[g].pc = "returned"
  BY NextIsStep DEF CallStep, OtherStep, Statement, Insertion, Update, Writing, Wrote

\* A row that was there stays, with the grant that wrote it, unless it is deleted.
LEMMA NextKeepsRowsStanding ==
    ASSUME Types, [TenancyNext]_tenancy, \A r \in Revokes : RevokeConsistent(r),
           \A i \in DOMAIN members : RowStands(i)
    PROVE  (\A i \in DOMAIN members : RowStands(i))'
  <1>. DEFINE Stands(g, i) ==
         /\ KeyFor(g) = members[i].key /\ grant[g].pc \in Wrote
         /\ \A r \in Revokes : MembershipOf[r] = members[i].key /\ g \in before[r]
                => revoke[r].pc = "delete" /\ revoke[r].id = i
  <1>0. \A i \in DOMAIN members : \E g \in Granting : Stands(g, i)
    BY DEF RowStands, Wrote
  <1>. SUFFICES ASSUME NEW i \in DOMAIN members' PROVE \E g \in Granting : Stands(g, i)'
    BY DEF RowStands, Wrote
  <1>1. CASE UNCHANGED <<revoke, before>> /\ i \in DOMAIN members /\ members'[i].key = members[i].key
    <2>1. PICK g \in Granting : Stands(g, i)
      BY <1>0, <1>1
    <2>2. grant'[g].pc \in Wrote
      BY <2>1, WroteStays
    <2>. QED
      BY <1>1, <2>1, <2>2
  <1>2. ASSUME NEW g \in Granting, CallStep(g), i \notin DOMAIN members
        PROVE  Stands(g, i)'
    <2>1. Insertion(g) /\ members'[i].key = KeyFor(g) /\ UNCHANGED <<revoke, before>>
      BY <1>2, CallKeepsRows DEF CallStep
    <2>2. grant[g].pc = "insert" /\ grant'[g].pc \in Wrote
      BY <1>2, <2>1 DEF CallStep, Statement, Insertion, Update, Wrote, Writing
    <2>3. \A r \in Revokes : g \notin before[r]
      BY <2>2 DEF RevokeConsistent, Over
    <2>. QED
      BY <2>1, <2>2, <2>3
  <1>3. ASSUME NEW s \in Revokes, FindRevoked(s) PROVE \E g \in Granting : Stands(g, i)'
    <2>1. UNCHANGED <<members, grant>>
      BY <1>3, FindRevokedMoves
    <2>2. PICK g \in Granting : Stands(g, i)
      BY <1>0, <2>1
    <2>3. ASSUME NEW r \in Revokes, MembershipOf[r] = members'[i].key, g \in before'[r]
          PROVE  revoke'[r].pc = "delete" /\ revoke'[r].id = i
      <3>1. CASE r # s
        <4>1. revoke'[r] = revoke[r] /\ before'[r] = before[r]
          BY <1>3, <3>1, FindRevokedMoves
        <4>. QED
          BY <2>1, <2>2, <2>3, <4>1
      <3>2. CASE r = s
        <4>1. i \in RowOf(MembershipOf[s])
          BY <2>1, <2>3, <3>2 DEF RowOf
        <4>2. RowOf(MembershipOf[s]) = {revoke'[s].id} /\ revoke'[s].pc = "delete"
          BY <1>3, <4>1, FindRevokedMoves
        <4>. QED
          BY <3>2, <4>1, <4>2
      <3>. QED
        BY <3>1, <3>2
    <2>. QED
      BY <2>1, <2>2, <2>3
  <1>4. ASSUME NEW s \in Revokes, DeleteRow(s) PROVE \E g \in Granting : Stands(g, i)'
    <2>1. /\ UNCHANGED <<grant, before>> /\ i # revoke[s].id
          /\ i \in DOMAIN members /\ members'[i] = members[i]
          /\ \A r \in Revokes : r # s => revoke'[r] = revoke[r]
      BY <1>4, DeleteRowMoves
    <2>2. PICK g \in Granting : Stands(g, i)
      BY <1>0, <2>1
    <2>3. ASSUME NEW r \in Revokes, MembershipOf[r] = members'[i].key, g \in before'[r]
          PROVE  revoke'[r].pc = "delete" /\ revoke'[r].id = i
      <3>1. revoke[r].pc = "delete" /\ revoke[r].id = i
        BY <2>1, <2>2, <2>3
      <3>2. r # s
        BY <2>1, <3>1
      <3>. QED
        BY <2>1, <3>1, <3>2
    <2>. QED
      BY <2>1, <2>2, <2>3
  <1>5. CASE UNCHANGED <<revoke, before>>
    <2>1. ASSUME NEW g \in Granting, CallStep(g) PROVE \E h \in Granting : Stands(h, i)'
      <3>1. CASE i \in DOMAIN members
        <4>1. members'[i].key = members[i].key
          BY <2>1, <3>1, CallKeepsRows
        <4>. QED
          BY <1>1, <1>5, <3>1, <4>1
      <3>2. CASE i \notin DOMAIN members
        BY <1>2, <2>1, <3>2
      <3>. QED
        BY <3>1, <3>2
    <2>2. CASE OtherStep
      <3>1. CASE members' = members
        BY <1>1, <1>5, <3>1
      <3>2. CASE \E r \in Revokes : DeleteRow(r)
        BY <1>4, <3>2
      <3>. QED
        BY <2>2, <3>1, <3>2 DEF OtherStep
    <2>. QED
      BY <2>1, <2>2, NextIsStep
  <1>. QED
    BY <1>3, <1>4, <1>5, NextRevokes

\* A revocation that is to delete another's row comes after one of the same
\* membership: only that could have deleted the row it found.
LEMMA NextKeepsDeletions ==
    ASSUME Types, [TenancyNext]_tenancy, \A r \in Revokes : DeletesItsOwn(r)
    PROVE  (\A r \in Revokes : DeletesItsOwn(r))'
  <1>. SUFFICES ASSUME NEW r \in Revokes, revoke'[r].pc = "delete"
                PROVE  \/ revoke'[r].id \in DOMAIN members' /\ members'[revoke'[r].id].key = MembershipOf[r]
                       \/ \E s \in Revokes : /\ s # r /\ revoke'[s].pc = "returned"
                                             /\ MembershipOf[s] = MembershipOf[r]
                       \/ Doubled'
    BY DEF DeletesItsOwn
  <1>1. ASSUME NEW s \in Revokes, FindRevoked(s), s = r
        PROVE  revoke'[r].id \in DOMAIN members' /\ members'[revoke'[r].id].key = MembershipOf[r]
    <2>1. RowOf(MembershipOf[r]) = {revoke'[r].id} /\ members' = members
      BY <1>1, FindRevokedMoves
    <2>. QED
      BY <2>1 DEF RowOf
  <1>2. ASSUME revoke'[r] = revoke[r],
               \/ ~(revoke[r].id \in DOMAIN members /\ members[revoke[r].id].key = MembershipOf[r])
               \/ revoke[r].id \in DOMAIN members' /\ members'[revoke[r].id].key = MembershipOf[r]
        PROVE  \/ revoke'[r].id \in DOMAIN members' /\ members'[revoke'[r].id].key = MembershipOf[r]
               \/ \E s \in Revokes : /\ s # r /\ revoke'[s].pc = "returned"
                                     /\ MembershipOf[s] = MembershipOf[r]
               \/ Doubled'
    BY <1>2, ReturnedStays DEF DeletesItsOwn
  <1>3. ASSUME NEW s \in Revokes, FindRevoked(s), s # r
        PROVE  revoke'[r] = revoke[r] /\ members' = members
    BY <1>3, FindRevokedMoves
  <1>4. ASSUME NEW s \in Revokes, DeleteRow(s)
        PROVE  \/ revoke'[r].id \in DOMAIN members' /\ members'[revoke'[r].id].key = MembershipOf[r]
               \/ \E t \in Revokes : /\ t # r /\ revoke'[t].pc = "returned"
                                     /\ MembershipOf[t] = MembershipOf[r]
               \/ Doubled'
    <2>1. /\ s # r /\ revoke'[r] = revoke[r] /\ revoke'[s].pc = "returned"
          /\ revoke[s].pc = "delete" /\ DOMAIN members' = DOMAIN members \ {revoke[s].id}
          /\ \A i \in DOMAIN members' : members'[i] = members[i]
      BY <1>4, DeleteRowMoves
    <2>2. CASE revoke[s].id # revoke[r].id
      BY <1>2, <2>1, <2>2
    <2>3. CASE revoke[s].id = revoke[r].id /\ members[revoke[r].id].key = MembershipOf[r]
               /\ revoke[r].id \in DOMAIN members
      <3>1. CASE MembershipOf[s] = MembershipOf[r]
        BY <2>1, <3>1
      <3>2. CASE \E t \in Revokes : t # s /\ revoke[t].pc = "returned" /\ MembershipOf[t] = MembershipOf[s]
        <4>1. Doubled'
          BY <2>1, <3>2, ReturnedStays DEF Doubled
        <4>. QED
          BY <4>1
      <3>3. CASE Doubled
        BY <3>3, ReturnedStays
      <3>. QED
        BY <2>1, <2>3, <3>1, <3>2, <3>3 DEF DeletesItsOwn
    <2>. QED
      BY <1>2, <2>1, <2>2, <2>3
  <1>5. CASE UNCHANGED <<revoke, before>>
    <2>1. ASSUME NEW g \in Granting, CallStep(g), revoke[r].id \in DOMAIN members
          PROVE  revoke[r].id \in DOMAIN members' /\ members'[revoke[r].id].key = members[revoke[r].id].key
      BY <2>1, CallKeepsRows
    <2>2. CASE OtherStep /\ members' = members
      BY <1>2, <1>5, <2>2
    <2>. QED
      BY <1>2, <1>4, <1>5, <2>1, <2>2, NextIsStep DEF OtherStep
  <1>. QED
    BY <1>1, <1>2, <1>3, <1>4, <1>5, NextRevokes

\* A membership that was found or written is there until it is taken away.
LEMMA NextKeepsGrantsStanding ==
    ASSUME Types, [TenancyNext]_tenancy, \A r \in Revokes : DeletesItsOwn(r),
           \A g \in Granting : GrantStands(g)
    PROVE  (\A g \in Granting : GrantStands(g))'
  <1>. SUFFICES ASSUME NEW g \in Granting,
                       grant'[g].pc \in {"update", "refresh", "returned"},
                       ~TakenAway(KeyFor(g))'
                PROVE  \E i \in DOMAIN members' : members'[i].key = KeyFor(g)
    BY DEF GrantStands, RowOf
  <1>1. ~TakenAway(KeyFor(g))
    BY ReturnedStays
  <1>2. ASSUME grant[g].pc \in {"update", "refresh", "returned"}
        PROVE  \E i \in DOMAIN members : members[i].key = KeyFor(g)
    BY <1>1, <1>2 DEF GrantStands, RowOf
  <1>3. ASSUME NEW h \in Granting, CallStep(h)
        PROVE  \E i \in DOMAIN members' : members'[i].key = KeyFor(g)
    <2>1. ASSUME NEW i \in DOMAIN members, members[i].key = KeyFor(g)
          PROVE  i \in DOMAIN members' /\ members'[i].key = KeyFor(g)
      BY <1>3, <2>1, CallKeepsRows
    <2>2. CASE grant[g].pc \in {"update", "refresh", "returned"}
      BY <1>2, <2>1, <2>2
    <2>3. CASE grant[g].pc \notin {"update", "refresh", "returned"}
      <3>1. h = g
        BY <1>3, <2>3 DEF CallStep
      <3>2. Insertion(g) \/ grant'[g].id \in RowOf(KeyFor(g))
        BY <1>3, <2>3, <3>1 DEF CallStep, Statement, Update, Writing
      <3>3. CASE Insertion(g)
        <4>1. members' = RowsWith(g)
          BY <3>3 DEF Insertion
        <4>. QED
          BY <4>1, Inserted
      <3>4. CASE grant'[g].id \in RowOf(KeyFor(g))
        BY <2>1, <3>4 DEF RowOf
      <3>. QED
        BY <3>2, <3>3, <3>4
    <2>. QED
      BY <2>2, <2>3
  <1>4. ASSUME OtherStep, NEW r \in Revokes, DeleteRow(r)
        PROVE  \E i \in DOMAIN members' : members'[i].key = KeyFor(g)
    <2>1. PICK i \in DOMAIN members : members[i].key = KeyFor(g)
      BY <1>2, <1>4 DEF OtherStep
    <2>2. /\ revoke[r].pc = "delete" /\ revoke'[r].pc = "returned"
          /\ DOMAIN members' = DOMAIN members \ {revoke[r].id}
          /\ \A j \in DOMAIN members' : members'[j] = members[j]
      BY <1>4, DeleteRowMoves
    <2>3. CASE revoke[r].id = i
      <3>1. MembershipOf[r] # KeyFor(g)
        BY <2>2 DEF TakenAway
      <3>2. CASE \E s \in Revokes : s # r /\ revoke[s].pc = "returned" /\ MembershipOf[s] = MembershipOf[r]
        BY <2>2, <3>2, ReturnedStays DEF TakenAway
      <3>3. CASE Doubled
        BY <1>1, <3>3 DEF Doubled, TakenAway
      <3>. QED
        BY <2>1, <2>2, <2>3, <3>1, <3>2, <3>3 DEF DeletesItsOwn
    <2>4. CASE revoke[r].id # i
      BY <2>1, <2>2, <2>4
    <2>. QED
      BY <2>3, <2>4
  <1>5. CASE OtherStep /\ members' = members
    BY <1>2, <1>5 DEF OtherStep
  <1>. QED
    BY <1>3, <1>4, <1>5, NextIsStep DEF OtherStep

-----------------------------------------------------------------------------
\* The answers of queries.
LEMMA NextQueries ==
    ASSUME [TenancyNext]_tenancy
    PROVE  \/ UNCHANGED <<query, log>>
           \/ /\ \E q \in Queries : StartQuery(q) \/ CheckAccess(q) \/ ReadLatest(q)
              /\ UNCHANGED <<members, grant, revoke, before, log>>
           \/ /\ \E q \in Queries : CommitAppended(AskedBy[q][2])
              /\ UNCHANGED <<members, grant, revoke, before, query>>
  <1>1. CASE TenancyNext
    BY <1>1 DEF TenancyNext, GrantRole, CreateNamespace, FindTenant, InsertTenant,
       StartGrant, CheckNamespace, FindRow, InsertRow, UpdateRow, Refresh, Die, FindTenantOf,
       FindNamespace, InsertNamespace, MakeTo, FindRevoked, DeleteRow, StartQuery, CheckAccess,
       ReadLatest, CommitAppended
  <1>2. CASE UNCHANGED tenancy
    BY <1>2 DEF tenancy
  <1>. QED
    BY <1>1, <1>2

\* A grant that covers the query q, and that nothing over before q revoked.
Allows(g, q) ==
    /\ KeyFor(g) \in Asked(q) /\ grant[g].pc \in Wrote
    /\ \A r \in query[q].revoked : MembershipOf[r] = KeyFor(g) => g \notin before[r]

\* No grant over before q covers it and stands.
Refuses(q) == \A g \in query[q].granted : KeyFor(g) \in Asked(q) => TakenAway(KeyFor(g))

Began(q) ==
    /\ \A g \in query[q].granted : grant[g].pc = "returned"
    /\ \A r \in query[q].revoked : revoke[r].pc = "returned"

LEMMA QueryConsistentIs ==
    ASSUME NEW q
    PROVE  QueryConsistent(q) <=>
             /\ Began(q)
             /\ query[q].pc # "idle" => query[q].from <= log[AskedBy[q][2]]
             /\ query[q].pc \in {"read", "answered"} => \E g \in Granting : Allows(g, q)
             /\ query[q].pc = "denied" => Refuses(q)
             /\ query[q].pc = "answered" =>
                   query[q].to \in query[q].from..log[AskedBy[q][2]]
  BY DEF QueryConsistent, Began, Allows, Refuses, Wrote

\* A query that no step is of keeps what it has.
LEMMA OtherQueries ==
    ASSUME Types, [TenancyNext]_tenancy, NEW q \in Queries, QueryConsistent(q), query'[q] = query[q],
           log[AskedBy[q][2]] <= log'[AskedBy[q][2]], log'[AskedBy[q][2]] \in Nat
    PROVE  QueryConsistent(q)'
  <1>0. /\ query[q] \in QueryRecord /\ log[AskedBy[q][2]] \in Nat
    BY TypedIsTypes, AskedIsNamed DEF Typed
  <1>1. /\ query[q].granted \subseteq Granting /\ query[q].revoked \subseteq Revokes
        /\ query[q].from \in Nat /\ query[q].to \in Nat
    BY <1>0 DEF QueryRecord
  <1>2. Began(q)'
    BY <1>1, QueryConsistentIs, WroteStays, ReturnedStays DEF Began
  <1>3. ASSUME NEW g \in Granting, Allows(g, q) PROVE Allows(g, q)'
    <2>1. grant'[g].pc \in Wrote
      BY <1>3, WroteStays DEF Allows
    <2>2. \A r \in query[q].revoked : before'[r] = before[r]
      BY <1>1, QueryConsistentIs, ReturnedStays DEF Began
    <2>. QED
      BY <1>3, <2>1, <2>2 DEF Allows, Asked
  <1>4. Refuses(q) => Refuses(q)'
    BY ReturnedStays DEF Refuses, Asked
  <1>. QED
    BY <1>0, <1>1, <1>2, <1>3, <1>4, QueryConsistentIs DEF QueryConsistent, Began, Allows, Refuses, Wrote

LEMMA NextKeepsQueryConsistent ==
    ASSUME Types, [TenancyNext]_tenancy, \A q \in Queries : QueryConsistent(q),
           \A i \in DOMAIN members : RowStands(i), \A g \in Granting : GrantStands(g)
    PROVE  (\A q \in Queries : QueryConsistent(q))'
  <1>. SUFFICES ASSUME NEW q \in Queries PROVE QueryConsistent(q)'
    OBVIOUS
  <1>0. /\ query \in [Queries -> QueryRecord] /\ log \in [Namespaces -> Nat]
        /\ AskedBy[q][2] \in Namespaces /\ query[q] \in QueryRecord
    BY TypedIsTypes, AskedIsNamed DEF Typed
  <1>1. CASE UNCHANGED <<query, log>>
    BY <1>0, <1>1, OtherQueries
  <1>2. ASSUME NEW p \in Queries, CommitAppended(AskedBy[p][2]), query' = query
        PROVE  QueryConsistent(q)'
    <2>1. log'[AskedBy[q][2]] \in Nat /\ log[AskedBy[q][2]] <= log'[AskedBy[q][2]]
      BY <1>0, <1>2, AskedIsNamed DEF CommitAppended
    <2>. QED
      BY <1>2, <2>1, OtherQueries
  <1>3. ASSUME NEW p \in Queries, StartQuery(p) \/ CheckAccess(p) \/ ReadLatest(p),
               UNCHANGED <<members, grant, revoke, before, log>>
        PROVE  QueryConsistent(q)'
    <2>1. PICK v \in QueryRecord :
              /\ query' = [query EXCEPT ![p] = v] /\ query' \in [Queries -> QueryRecord]
              /\ query'[p] = v /\ \A o \in Queries : o # p => query'[o] = query[o]
              /\ \/ /\ v.pc = "check" /\ v.from = log[AskedBy[p][2]]
                    /\ v.granted = {g \in Granting : grant[g].pc = "returned"}
                    /\ v.revoked = {r \in Revokes : revoke[r].pc = "returned"}
                 \/ /\ v.granted = query[p].granted /\ v.revoked = query[p].revoked
                    /\ v.from = query[p].from
                    /\ \/ /\ query[p].pc = "check"
                          /\ v.pc = IF Covers(p) THEN "read" ELSE "denied"
                       \/ /\ query[p].pc = "read" /\ v.pc = "answered"
                          /\ v.to = log[AskedBy[p][2]]
      BY <1>3, QuerySteps
    <2>2. CASE p # q
      BY <1>0, <1>3, <2>1, <2>2, OtherQueries
    <2>3. CASE p = q /\ v.pc = "check"
      <3>1. Began(q)' /\ query'[q].from <= log'[AskedBy[q][2]]
        BY <1>0, <1>3, <2>1, <2>3 DEF Began
      <3>. QED
        BY <2>1, <2>3, <3>1 DEF QueryConsistent, Began
    <2>4. CASE p = q /\ v.pc # "check"
      <3>1. /\ query'[q].granted = query[q].granted /\ query'[q].revoked = query[q].revoked
            /\ query'[q].from = query[q].from
        BY <2>1, <2>4
      <3>2. Began(q) /\ query[q].from <= log[AskedBy[q][2]]
        BY <2>1, <2>4, QueryConsistentIs
      <3>3. Began(q)' /\ query'[q].from <= log'[AskedBy[q][2]]
        BY <1>3, <3>1, <3>2 DEF Began
      <3>4. CASE v.pc = "read" /\ Covers(q)
        <4>1. PICK i \in DOMAIN members : members[i].key \in Asked(q)
          BY <3>4 DEF Covers
        <4>2. PICK g \in Granting :
                 /\ KeyFor(g) = members[i].key /\ grant[g].pc \in Wrote
                 /\ \A r \in Revokes : MembershipOf[r] = members[i].key /\ g \in before[r]
                       => revoke[r].pc = "delete" /\ revoke[r].id = i
          BY DEF RowStands, Wrote
        <4>3. query[q].revoked \subseteq Revokes
          BY <1>0 DEF QueryRecord
        <4>4. \A r \in query[q].revoked : MembershipOf[r] = KeyFor(g) => g \notin before[r]
          BY <3>2, <4>2, <4>3 DEF Began
        <4>5. Allows(g, q)'
          BY <1>3, <3>1, <4>1, <4>2, <4>4 DEF Allows, Asked
        <4>. QED
          BY <2>1, <2>4, <3>3, <3>4, <4>5 DEF QueryConsistent, Began, Allows, Wrote
      <3>5. CASE v.pc = "denied" /\ ~Covers(q)
        <4>1. query[q].granted \subseteq Granting
          BY <1>0 DEF QueryRecord
        <4>2. ASSUME NEW g \in query[q].granted, KeyFor(g) \in Asked(q)
              PROVE  TakenAway(KeyFor(g))
          <5>1. RowOf(KeyFor(g)) = {}
            BY <3>5, <4>2 DEF Covers, RowOf
          <5>. QED
            BY <3>2, <4>1, <5>1 DEF Began, GrantStands
        <4>3. Refuses(q)'
          BY <1>3, <3>1, <4>2 DEF Refuses, Asked, TakenAway
        <4>. QED
          BY <2>1, <2>4, <3>3, <3>5, <4>3 DEF QueryConsistent, Began, Refuses
      <3>6. CASE query[q].pc = "read" /\ v.pc = "answered" /\ v.to = log[AskedBy[q][2]]
        <4>1. PICK g \in Granting : Allows(g, q)
          BY <3>6, QueryConsistentIs
        <4>2. Allows(g, q)'
          BY <1>3, <3>1, <4>1 DEF Allows, Asked
        <4>3. query'[q].to \in query'[q].from..log'[AskedBy[q][2]]
          <5>1. log[AskedBy[q][2]] \in Nat /\ query[q].from \in Nat
            BY <1>0 DEF QueryRecord
          <5>. QED
            BY <1>3, <2>1, <2>4, <3>1, <3>2, <3>6, <5>1
        <4>. QED
          BY <2>1, <2>4, <3>3, <3>6, <4>2, <4>3 DEF QueryConsistent, Began, Allows, Wrote
      <3>. QED
        BY <2>1, <2>4, <3>4, <3>5, <3>6
    <2>. QED
      BY <2>2, <2>3, <2>4
  <1>. QED
    BY <1>1, <1>2, <1>3, NextQueries

-----------------------------------------------------------------------------
\* The owner.
OwnerKeys == {KeyFor(c) : c \in Creates}

\* The creation c is about to write its owner's membership, or has written it.
Awaits(c) ==
    /\ grant[c].pc \in {"select", "insert"}
    /\ \A i \in DOMAIN members : members[i].key \notin OwnerKeys

HasOwner(c) ==
    /\ grant[c].pc \in {"refresh", "returned"}
    /\ grant[c].id \in DOMAIN members
    /\ members[grant[c].id].key = KeyFor(c) /\ members[grant[c].id].role = "owner"

LEMMA OwnerComesIs == OwnerComes <=> (Undisturbed => \E c \in Creates : Awaits(c) \/ HasOwner(c))
  BY DEF OwnerComes, Awaits, HasOwner, OwnerKeys

\* While nothing disturbs it, the tenant's creation has no other row in its way.
LEMMA NextKeepsOwnerComes ==
    ASSUME Types, OneCreation, \A g \in Granting : GrantConsistent(g), FreedByRevokes,
           OwnerComes, [TenancyNext]_tenancy
    PROVE  OwnerComes'
  <1>. SUFFICES ASSUME Undisturbed' PROVE \E c \in Creates : Awaits(c)' \/ HasOwner(c)'
    BY DEF OwnerComes, Awaits, HasOwner, OwnerKeys
  <1>0. /\ Creates \subseteq Granting /\ Grants \subseteq Granting
        /\ Creates \cap Grants = {} /\ Granting = Creates \union Grants
    BY TenancyAssumption DEF Granting
  <1>1. deaths \in Nat /\ deaths' = 0
    BY DEF Types, Undisturbed
  <1>2. \A r \in Revokes : ~DeleteRow(r)
    BY DeleteRowMoves DEF Undisturbed
  <1>3. \A r \in Revokes : ~FindRevoked(r)
    BY FindRevokedMoves DEF Undisturbed
  <1>4. \A r \in Revokes : revoke[r].pc = "idle"
    BY <1>2, <1>3, NextRevokes DEF Undisturbed
  <1>5. freed = {}
    BY <1>4 DEF FreedByRevokes
  <1>6. \A g \in Grants : KeyFor(g) = MembershipOf[g]
    BY <1>0 DEF KeyFor
  <1>7. \A g \in Grants : KeyFor(g) \in OwnerKeys => grant'[g].pc = "idle" /\ grant[g].pc = "idle"
    BY <1>0, <1>6, GrantsGoOn DEF Undisturbed, OwnerKeys
  <1>8. ASSUME tenant, scope' = scope, deaths = 0 PROVE Undisturbed
    BY <1>4, <1>6, <1>7, <1>8 DEF Undisturbed, OwnerKeys
  <1>9. CASE OtherStep
    <2>1. UNCHANGED <<tenant, grant, deaths, scope, members>>
      BY <1>2, <1>9 DEF OtherStep
    <2>2. Undisturbed
      BY <1>1, <1>8, <2>1 DEF Undisturbed
    <2>3. PICK c \in Creates : Awaits(c) \/ HasOwner(c)
      BY <2>2, OwnerComesIs
    <2>. QED
      BY <2>1, <2>3 DEF Awaits, HasOwner
  <1>10. ASSUME NEW g \in Granting, CallStep(g)
         PROVE  \E c \in Creates : Awaits(c)' \/ HasOwner(c)'
    <2>1. deaths = 0 /\ scope' = scope
      BY <1>1, <1>10 DEF CallStep, Statement
    <2>2. CASE ~tenant
      <3>1. DOMAIN members = {} /\ grant[g].pc \notin Writing
        BY <2>2 DEF OneCreation
      <3>2. grant'[g].pc = "select" /\ g \in Creates /\ members' = members
        BY <1>10, <2>2, <3>1 DEF CallStep, Statement, Insertion, Update, Writing, Undisturbed
      <3>. QED
        BY <3>1, <3>2 DEF Awaits
    <2>3. CASE tenant
      <3>1. PICK c \in Creates : Awaits(c) \/ HasOwner(c)
        BY <1>8, <2>1, <2>3, OwnerComesIs
      <3>2. CASE g # c
        <4>1. grant'[c] = grant[c]
          BY <1>0, <1>10, <3>2 DEF CallStep
        <4>2. grant[c].pc \in Created
          BY <3>1 DEF Awaits, HasOwner, Created, Writing
        <4>3. g \in Creates => grant[g].pc \notin Created
          BY <3>2, <4>2 DEF OneCreation
        <4>4. g \in Grants /\ KeyFor(g) \in OwnerKeys => grant[g].pc = "idle"
          BY <1>7
        <4>5. Insertion(g) \/ Update(g) => KeyFor(g) \notin OwnerKeys
          BY <1>0, <4>3, <4>4 DEF Insertion, Update, Created, Writing
        <4>6. Update(g) => members[grant[g].id].key = KeyFor(g)
          BY <1>5 DEF Update, GrantConsistent
        <4>7. CASE Awaits(c)
          <5>1. \A i \in DOMAIN members' : members'[i].key \notin OwnerKeys
            BY <1>10, <4>5, <4>7, CallKeepsRows DEF Awaits
          <5>. QED
            BY <4>1, <4>7, <5>1 DEF Awaits
        <4>8. CASE HasOwner(c)
          <5>. DEFINE i == grant[c].id
          <5>1. KeyFor(c) \in OwnerKeys
            BY DEF OwnerKeys
          <5>2. i \in DOMAIN members /\ members[i].key = KeyFor(c) /\ members[i].role = "owner"
            BY <4>8 DEF HasOwner
          <5>3. i \in DOMAIN members' /\ members'[i] = members[i]
            BY <1>10, <4>5, <4>6, <5>1, <5>2, CallKeepsRows
          <5>. QED
            BY <4>1, <4>8, <5>2, <5>3 DEF HasOwner
        <4>. QED
          BY <3>1, <4>7, <4>8
      <3>3. CASE g = c /\ Awaits(c)
        <4>1. KeyFor(c) \in OwnerKeys /\ RoleFor(c) = "owner"
          BY DEF OwnerKeys, RoleFor
        <4>2. RowOf(KeyFor(c)) = {}
          BY <3>3, <4>1 DEF Awaits, RowOf
        <4>3. CASE Insertion(g) /\ grant'[g].pc = "refresh" /\ grant'[g].id = NextId(members)
          <5>1. members' = RowsWith(c)
            BY <3>3, <4>3 DEF Insertion
          <5>2. /\ NextId(members) \in DOMAIN members'
                /\ members'[NextId(members)].key = KeyFor(c)
                /\ members'[NextId(members)].role = "owner"
            BY <1>0, <4>1, <5>1, Inserted
          <5>. QED
            BY <3>3, <4>3, <5>2 DEF HasOwner
        <4>4. CASE grant'[g].pc = "insert" /\ members' = members
          BY <3>3, <4>4 DEF Awaits
        <4>. QED
          BY <1>1, <1>10, <2>1, <3>3, <4>2, <4>3, <4>4
             DEF CallStep, Statement, Awaits, Update, Writing
      <3>4. CASE g = c /\ HasOwner(c)
        <4>1. grant'[c].pc = "returned" /\ grant'[c].id = grant[c].id /\ members' = members
          BY <1>1, <1>10, <2>1, <3>4 DEF CallStep, Statement, Insertion, Update, Writing, HasOwner
        <4>. QED
          BY <3>4, <4>1 DEF HasOwner
      <3>. QED
        BY <3>1, <3>2, <3>3, <3>4
    <2>. QED
      BY <2>2, <2>3
  <1>. QED
    BY <1>9, <1>10, NextIsStep

\* Once the calls are over, it is there.
LEMMA OwnerIsThere == OwnerComes => TenantHasOwner
  <1>. SUFFICES ASSUME OwnerComes, Undisturbed,
                       \A g \in Granting : grant[g].pc \in {"idle", "returned", "failed", "refused"}
                PROVE  \E i \in DOMAIN members : /\ members[i].key \in {KeyFor(c) : c \in Creates}
                                                 /\ members[i].role = "owner"
    BY DEF TenantHasOwner, Undisturbed
  <1>1. PICK c \in Creates : Awaits(c) \/ HasOwner(c)
    BY OwnerComesIs
  <1>2. c \in Granting
    BY DEF Granting
  <1>3. HasOwner(c)
    BY <1>1, <1>2 DEF Awaits
  <1>. QED
    BY <1>3 DEF HasOwner

-----------------------------------------------------------------------------
LEMMA NextKeepsIInv == IInv /\ [TenancyNext]_tenancy => IInv'
  <1>. SUFFICES ASSUME IInv, [TenancyNext]_tenancy PROVE IInv'
    OBVIOUS
  <1>1. Types' /\ OneCreation' /\ MadeOnce'
    BY NextKeepsTypes, NextKeepsOneCreation, NextKeepsMadeOnce DEF IInv
  <1>2. (\A g \in Granting : GrantConsistent(g))'
    BY NextKeepsGrantConsistent DEF IInv
  <1>3. RolesAreGranted' /\ MembersHaveNamespace'
    BY NextKeepsRoles, NextKeepsNamespaces DEF IInv
  <1>4. FreedByRevokes' /\ OwnerComes'
    BY NextKeepsFreed, NextKeepsOwnerComes DEF IInv
  <1>5. (\A r \in Revokes : RevokeConsistent(r))'
    BY NextKeepsRevokeConsistent DEF IInv
  <1>6. /\ (\A i \in DOMAIN members : RowStands(i))'
        /\ (\A r \in Revokes : DeletesItsOwn(r))'
        /\ (\A g \in Granting : GrantStands(g))'
    BY NextKeepsRowsStanding, NextKeepsDeletions, NextKeepsGrantsStanding DEF IInv
  <1>7. (\A q \in Queries : QueryConsistent(q))'
    BY NextKeepsQueryConsistent DEF IInv
  <1>. QED
    BY <1>1, <1>2, <1>3, <1>4, <1>5, <1>6, <1>7 DEF IInv

LEMMA IInvAlways == TenancySpec => []IInv
  BY InitIInv, NextKeepsIInv, PTL DEF TenancySpec

-----------------------------------------------------------------------------
\* The membership rows of tenancy.py are unique, a tenant and a namespace are
\* created once, an undisturbed creation leaves its owner, roles come from grants of
\* the membership, and no membership is in an unknown namespace.
THEOREM TenancyInvAlways == TenancySpec => []TenancyInv
  <1>1. IInv => TenancyInv
    BY OnceEach, OwnerIsThere DEF IInv, Types, TenancyInv
  <1>. QED
    BY <1>1, IInvAlways, PTL

\* query_latest answers no principal whose grants were all revoked before it, denies
\* none whose membership stood unrevoked from before it, and reads what was committed.
THEOREM QueryAnswersTrueAlways == TenancySpec => []QueryAnswersTrue
  <1>1. IInv => QueryAnswersTrue
    BY DEF IInv, QueryConsistent, QueryAnswersTrue
  <1>. QED
    BY <1>1, IInvAlways, PTL

\* What revoke_role has revoked stays so, unless a grant of it ran meanwhile or later.
THEOREM RevocationSticksAlways == TenancySpec => []RevocationSticks
  <1>1. IInv => RevocationSticks
    BY DEF IInv, RevokeConsistent, Quiet, RevocationSticks
  <1>. QED
    BY <1>1, IInvAlways, PTL
=============================================================================
