-------------------------- MODULE GovernanceProofs --------------------------
(***************************************************************************)
(* Proofs about the two components that decide what may be read and what    *)
(* may be served.  CryptoShred, for any finite set of encryptions and any   *)
(* sets of confirmations and requests: types, erasure for good, and the     *)
(* audit trail.  PromptRegistry, for any finite set of registrations and    *)
(* any reruns, promotions, clears, outcomes, caps and scopes: the types and *)
(* the unique aliases, that production is scored, that a promotion takes    *)
(* effect, and that the gate holds for whoever promotes alone.              *)
(***************************************************************************)
EXTENDS CryptoShred, PromptRegistry, FiniteSetTheorems, WellFoundedInduction, TLAPS

-----------------------------------------------------------------------------
\* What Max is applied to has one.
LEMMA MaxExists ==
    ASSUME NEW n \in Nat, NEW S, S \subseteq 1..n, S # {}
    PROVE  Max(S) \in S /\ \A x \in S : Max(S) >= x
  <1>. DEFINE R == OpToRel(<, Nat)
              T == {n - x : x \in S}
  <1>1. IsWellFoundedOn(R, Nat)
    BY NatLessThanWellFounded
  <1>2. T \subseteq Nat /\ T # {}
    <2>1. \A x \in S : n - x \in Nat /\ n - x \in T
      OBVIOUS
    <2>. QED
      BY <2>1
  <1>. HIDE DEF R, T
  <1>3. PICK t \in T : \A u \in T : <<u, t>> \notin R
    BY <1>1, <1>2, WFMin
  <1>4. \A u \in T : ~(u < t)
    BY <1>2, <1>3 DEF R, OpToRel
  <1>5. PICK m \in S : t = n - m
    BY DEF T
  <1>6. \A x \in S : m >= x
    <2>. SUFFICES ASSUME NEW x \in S PROVE m >= x
      OBVIOUS
    <2>1. n - x \in T
      BY DEF T
    <2>2. ~(n - x < n - m)
      BY <1>4, <1>5, <2>1
    <2>. QED
      BY <2>2
  <1>. QED
    BY <1>6 DEF Max

-----------------------------------------------------------------------------
\* The inductive invariant.  The properties speak of confirmations that have
\* committed and of encryptions that have returned; what makes them inductive is
\* what the calls under way have read, and who made which generation.
EncPlaces == {"idle", "create", "insert", "done", "raised"}
ConfPlaces == {"idle", "refused", "select", "commit", "append", "done", "raised"}

Types ==
    /\ TypeOK
    /\ keys \in [Generations -> [state : {"none", "live", "destroyed"},
                                 material : Encrypts \union {None}]]
    /\ enc \in [Encrypts -> [pc : EncPlaces, generation : {0} \union Generations,
                             material : Encrypts \union {None}]]
    /\ conf \in [Confirms -> [pc : ConfPlaces, request : Requests \union {None},
                              selected : SUBSET Generations]]
    /\ liveAtStart \in [Confirms -> SUBSET Generations]

\* The encryption e has returned with generation g, which it made.
Made(e, g) == enc[e].pc = "done" /\ enc[e].generation = g /\ enc[e].material = e

\* The rows are the generations 1..m, and each was made by a call of its own: so
\* there are no more than calls, and numbers are never given out twice.
Numbered ==
    /\ \E m \in {0} \union Generations : KeyRows = 1..m
    /\ \A g \in KeyRows : \E e \in Encrypts : Made(e, g)

\* A generation about to be inserted comes next, or has been taken meanwhile.
EncConsistent(e) ==
    enc[e].pc = "insert" =>
        /\ enc[e].material = e /\ enc[e].generation \in Generations
        /\ enc[e].generation = 1 \/ enc[e].generation - 1 \in KeyRows

\* What was live at the start of a confirmation is a row when it selects, selected
\* or destroyed when it commits, and destroyed after.
ConfConsistent(c) ==
    LET k == conf[c] IN
    /\ k.pc \in {"select", "commit", "append", "done"} => k.request \in Requests
    /\ k.pc = "select" => liveAtStart[c] \subseteq KeyRows
    /\ k.pc = "commit" =>
          /\ k.selected \subseteq KeyRows
          /\ \A g \in liveAtStart[c] : g \in k.selected \/ keys[g] = Destroyed
    /\ k.pc \in {"append", "done"} =>
          /\ status[k.request] = "Confirmed"
          /\ \A g \in k.selected \union liveAtStart[c] : keys[g] = Destroyed

FactsConsistent ==
    \A f \in facts : conf[f.by].pc = "done" /\ conf[f.by].request = f.request

IInv ==
    /\ Types /\ Numbered
    /\ \A e \in Encrypts : EncConsistent(e)
    /\ \A c \in Confirms : ConfConsistent(c)
    /\ FactsConsistent /\ ReturnedHasFact /\ TokensFindTheirKey

-----------------------------------------------------------------------------
\* The states of a key row are apart.
LEMMA Distinct ==
    /\ NoKey.state = "none" /\ Destroyed.state = "destroyed"
    /\ \A e : Live(e).state = "live" /\ Live(e).material = e
  BY DEF NoKey, Destroyed, Live

\* Generations are numbers, as many as there are encryptions.
LEMMA GenerationsFinite ==
    /\ Cardinality(Encrypts) \in Nat
    /\ \A m \in Generations : m \in Nat /\ m > 0
    /\ \A m \in Nat : m \in Generations <=> 0 < m /\ m <= Cardinality(Encrypts)
  <1>1. Cardinality(Encrypts) \in Nat
    BY ShredAssumption, FS_CardinalityType
  <1>. QED
    BY <1>1 DEF Generations

\* While a call has not returned, the generations are not used up: those there are
\* were made by the others.
LEMMA RoomForOneMore ==
    ASSUME Types, Numbered, NEW e \in Encrypts, enc[e].pc # "done",
           NEW m \in {0} \union Generations, KeyRows = 1..m
    PROVE  m + 1 \in Generations
  <1>1. m \in Nat
    BY GenerationsFinite
  <1>. DEFINE Others == Encrypts \ {e}
              f == [g \in 1..m |-> CHOOSE d \in Encrypts : Made(d, g)]
  <1>2. \A g \in 1..m : f[g] \in Encrypts /\ Made(f[g], g)
    BY DEF Numbered
  <1>. HIDE DEF f
  <1>3. f \in Injection(1..m, Others)
    <2>1. f \in [1..m -> Others]
      <3>1. \A g \in 1..m : f[g] \in Others
        BY <1>2 DEF Made
      <3>2. f = [g \in 1..m |-> f[g]]
        BY DEF f
      <3>. QED
        BY <3>1, <3>2
    <2>2. \A g, h \in 1..m : f[g] = f[h] => g = h
      BY <1>2 DEF Made
    <2>. QED
      BY <2>1, <2>2 DEF Injection, IsInjective
  <1>4. IsFiniteSet(Others) /\ Cardinality(Others) = Cardinality(Encrypts) - 1
    BY ShredAssumption, FS_RemoveElement
  <1>5. Cardinality(1..m) <= Cardinality(Others)
    BY <1>3, <1>4, FS_Injection
  <1>6. Cardinality(1..m) = m
    BY <1>1, FS_Interval
  <1>. QED
    BY <1>1, <1>4, <1>5, <1>6, GenerationsFinite DEF Generations

-----------------------------------------------------------------------------
\* The invariant holds at the start.
LEMMA InitIInv == Init => IInv
  <1>. SUFFICES ASSUME Init PROVE IInv
    OBVIOUS
  <1>1. KeyRows = {}
    BY DEF Init, KeyRows, NoKey
  <1>2. Types
    BY ShredAssumption DEF Init, Types, TypeOK, EncPlaces, ConfPlaces, NoKey
  <1>3. Numbered
    <2>1. KeyRows = 1..0
      BY <1>1
    <2>. QED
      BY <1>1, <2>1 DEF Numbered
  <1>4. /\ \A e \in Encrypts : EncConsistent(e)
        /\ \A c \in Confirms : ConfConsistent(c)
        /\ FactsConsistent /\ ReturnedHasFact /\ TokensFindTheirKey
    BY DEF Init, EncConsistent, ConfConsistent, FactsConsistent, ReturnedHasFact,
           TokensFindTheirKey
  <1>. QED
    BY <1>2, <1>3, <1>4 DEF IInv

-----------------------------------------------------------------------------
\* What a returned token's generation holds.
LEMMA TokensAreKeyed ==
    ASSUME IInv, NEW e \in Encrypts, enc[e].pc = "done"
    PROVE  /\ enc[e].generation \in KeyRows
           /\ enc[e].generation \in LiveKeys =>
                 keys[enc[e].generation].material = enc[e].material
  <1>1. /\ enc[e].generation \in KeyRows
        /\ enc[e].generation \in LiveKeys =>
              DecryptForSubject(enc[e].generation, enc[e].material) = "plaintext"
    BY DEF IInv, TokensFindTheirKey
  <1>2. "InvalidToken" # "plaintext"
    OBVIOUS
  <1>. QED
    BY <1>1, <1>2 DEF DecryptForSubject, LiveKeys

\* An encryption that looks for a key changes no row.
LEMMA GetActiveKeyKeeps ==
    ASSUME IInv, NEW e \in Encrypts, GetActiveKey(e)
    PROVE  IInv'
  <1>. USE DEF GetActiveKey
  <1>0. UNCHANGED <<keys, status, facts, conf, liveAtStart, failures>>
    OBVIOUS
  <1>1. KeyRows' = KeyRows /\ LiveKeys' = LiveKeys
    BY DEF KeyRows, LiveKeys
  <1>2. CASE LiveKeys = {}
    <2>1. enc' = [enc EXCEPT ![e].pc = "create"]
      BY <1>2
    <2>2. Types'
      BY <2>1 DEF IInv, Types, TypeOK, EncPlaces
    <2>3. /\ \A d \in Encrypts : d # e => enc'[d] = enc[d]
          /\ enc[e].pc = "idle" /\ enc'[e].pc = "create"
      BY <2>1 DEF IInv, Types
    <2>4. Numbered'
      BY <2>3, <1>1 DEF IInv, Numbered, Made
    <2>5. (\A d \in Encrypts : EncConsistent(d))'
      BY <2>3, <1>1 DEF IInv, EncConsistent
    <2>6. (\A c \in Confirms : ConfConsistent(c))' /\ FactsConsistent' /\ ReturnedHasFact'
      BY <1>1 DEF IInv, ConfConsistent, FactsConsistent, ReturnedHasFact
    <2>7. TokensFindTheirKey'
      BY <2>3, <1>1 DEF IInv, TokensFindTheirKey, DecryptForSubject, LiveKeys
    <2>. QED
      BY <2>2, <2>4, <2>5, <2>6, <2>7 DEF IInv
  <1>3. CASE LiveKeys # {}
    <2>. DEFINE g == Max(LiveKeys)
    <2>1. g \in LiveKeys
      BY <1>3, MaxExists, GenerationsFinite DEF LiveKeys, Generations
    <2>. HIDE DEF g
    <2>2. g \in Generations /\ keys[g].state = "live" /\ g \in KeyRows
      BY <2>1 DEF LiveKeys, KeyRows
    <2>3. enc' = [enc EXCEPT ![e] = [pc |-> "done", generation |-> g,
                                     material |-> keys[g].material]]
      BY <1>3 DEF g
    <2>4. /\ \A d \in Encrypts : d # e => enc'[d] = enc[d]
          /\ enc[e].pc = "idle"
          /\ enc'[e] = [pc |-> "done", generation |-> g, material |-> keys[g].material]
      BY <2>3 DEF IInv, Types
    <2>5. Types'
      BY <2>2, <2>3 DEF IInv, Types, TypeOK, EncPlaces
    <2>6. Numbered'
      BY <2>4, <1>1 DEF IInv, Numbered, Made
    <2>7. (\A d \in Encrypts : EncConsistent(d))'
      BY <2>4, <1>1 DEF IInv, EncConsistent
    <2>8. (\A c \in Confirms : ConfConsistent(c))' /\ FactsConsistent' /\ ReturnedHasFact'
      BY <1>1 DEF IInv, ConfConsistent, FactsConsistent, ReturnedHasFact
    <2>9. TokensFindTheirKey'
      <3>. SUFFICES ASSUME NEW d \in Encrypts, enc'[d].pc = "done"
                    PROVE  /\ enc'[d].generation \in KeyRows
                           /\ enc'[d].generation \in LiveKeys =>
                                 keys[enc'[d].generation].material = enc'[d].material
        BY <1>0, <1>1 DEF TokensFindTheirKey, DecryptForSubject, LiveKeys
      <3>1. CASE d = e
        BY <2>2, <2>4, <3>1
      <3>2. CASE d # e
        BY <2>4, <3>2, TokensAreKeyed
      <3>. QED
        BY <3>1, <3>2
    <2>. QED
      BY <2>5, <2>6, <2>7, <2>8, <2>9 DEF IInv
  <1>. QED
    BY <1>2, <1>3

\* The generation to come is looked up.
LEMMA LastGenerationKeeps ==
    ASSUME IInv, NEW e \in Encrypts, LastGeneration(e)
    PROVE  IInv'
  <1>. USE DEF LastGeneration
  <1>1. KeyRows' = KeyRows
    BY DEF KeyRows
  <1>2. PICK m \in {0} \union Generations : KeyRows = 1..m
    BY DEF IInv, Numbered
  <1>. DEFINE g == 1 + IF KeyRows = {} THEN 0 ELSE Max(KeyRows)
  <1>3. g = m + 1
    <2>. m \in Nat
      BY GenerationsFinite
    <2>1. CASE m = 0
      BY <1>2, <2>1
    <2>2. CASE m > 0
      <3>1. KeyRows # {} /\ m \in KeyRows /\ \A x \in KeyRows : x <= m
        BY <1>2, <2>2
      <3>2. Max(KeyRows) \in 1..m /\ Max(KeyRows) >= m
        BY <1>2, <3>1, MaxExists
      <3>. QED
        BY <3>1, <3>2
    <2>. QED
      BY <2>1, <2>2
  <1>4. g \in Generations
    BY <1>2, <1>3, RoomForOneMore DEF IInv
  <1>5. g = 1 \/ g - 1 \in KeyRows
    <2>. m \in Nat
      BY GenerationsFinite
    <2>. QED
      BY <1>2, <1>3
  <1>6. enc' = [enc EXCEPT ![e] = [pc |-> "insert", material |-> e, generation |-> g]]
    OBVIOUS
  <1>. HIDE DEF g
  <1>7. /\ \A d \in Encrypts : d # e => enc'[d] = enc[d]
        /\ enc[e].pc = "create"
        /\ enc'[e] = [pc |-> "insert", material |-> e, generation |-> g]
    BY <1>6 DEF IInv, Types
  <1>8. Types'
    BY <1>4, <1>6 DEF IInv, Types, TypeOK, EncPlaces
  <1>9. Numbered'
    BY <1>1, <1>7 DEF IInv, Numbered, Made
  <1>10. (\A d \in Encrypts : EncConsistent(d))'
    BY <1>1, <1>4, <1>5, <1>7 DEF IInv, EncConsistent
  <1>11. (\A c \in Confirms : ConfConsistent(c))' /\ FactsConsistent' /\ ReturnedHasFact'
    BY <1>1 DEF IInv, ConfConsistent, FactsConsistent, ReturnedHasFact
  <1>12. TokensFindTheirKey'
    BY <1>1, <1>7 DEF IInv, TokensFindTheirKey, DecryptForSubject, LiveKeys
  <1>. QED
    BY <1>8, <1>9, <1>10, <1>11, <1>12 DEF IInv

\* The unique index: a generation is inserted only where it comes next.
LEMMA InsertKeyKeeps ==
    ASSUME IInv, NEW e \in Encrypts, InsertKey(e)
    PROVE  IInv'
  <1>. USE DEF InsertKey
  <1>. DEFINE g == enc[e].generation
  <1>1. PICK m \in {0} \union Generations : KeyRows = 1..m
    BY DEF IInv, Numbered
  <1>2. m \in Nat
    BY GenerationsFinite
  <1>3. /\ enc[e].pc = "insert" /\ enc[e].material = e /\ g \in Generations
        /\ g = 1 \/ g - 1 \in KeyRows
    BY DEF IInv, EncConsistent
  <1>4. g \in Nat /\ g > 0
    BY <1>3, GenerationsFinite
  <1>. HIDE DEF g
  <1>5. CASE g \in KeyRows
    <2>1. enc' = [enc EXCEPT ![e] = [pc |-> "raised", generation |-> 0, material |-> None]]
      BY <1>5 DEF g
    <2>2. UNCHANGED <<keys, status, facts, conf, liveAtStart, failures>>
      BY <1>5 DEF g
    <2>3. KeyRows' = KeyRows
      BY <2>2 DEF KeyRows
    <2>4. /\ \A d \in Encrypts : d # e => enc'[d] = enc[d]
          /\ enc'[e].pc = "raised"
      BY <2>1 DEF IInv, Types
    <2>5. Types'
      BY <2>1, <2>2 DEF IInv, Types, TypeOK, EncPlaces
    <2>6. Numbered'
      BY <2>3, <2>4, <1>3 DEF IInv, Numbered, Made
    <2>7. (\A d \in Encrypts : EncConsistent(d))'
      BY <2>3, <2>4 DEF IInv, EncConsistent
    <2>8. (\A c \in Confirms : ConfConsistent(c))' /\ FactsConsistent' /\ ReturnedHasFact'
      BY <2>2, <2>3 DEF IInv, ConfConsistent, FactsConsistent, ReturnedHasFact
    <2>9. TokensFindTheirKey'
      BY <2>2, <2>3, <2>4 DEF IInv, TokensFindTheirKey, DecryptForSubject, LiveKeys
    <2>. QED
      BY <2>5, <2>6, <2>7, <2>8, <2>9 DEF IInv
  <1>6. CASE g \notin KeyRows
    <2>1. /\ enc' = [enc EXCEPT ![e].pc = "done"]
          /\ keys' = [keys EXCEPT ![g] = Live(e)]
      BY <1>3, <1>6 DEF g
    <2>2. UNCHANGED <<status, facts, conf, liveAtStart, failures>>
      BY <1>6 DEF g
    <2>3. g = m + 1
      BY <1>1, <1>2, <1>3, <1>4, <1>6
    <2>4. /\ \A d \in Encrypts : d # e => enc'[d] = enc[d]
          /\ enc'[e].pc = "done" /\ enc'[e].generation = g /\ enc'[e].material = e
      BY <2>1, <1>3 DEF IInv, Types, g
    <2>5. /\ \A h \in Generations : h # g => keys'[h] = keys[h]
          /\ keys'[g] = Live(e)
      BY <2>1, <1>3 DEF IInv, Types
    <2>6. KeyRows' = KeyRows \union {g}
      <3>1. keys'[g].state # "none"
        BY <2>5, Distinct
      <3>. QED
        BY <1>3, <2>5, <3>1 DEF KeyRows
    <2>7. KeyRows' = 1..g
      BY <1>1, <1>2, <2>3, <2>6
    <2>8. Types'
      <3>1. Live(e) \in [state : {"none", "live", "destroyed"},
                         material : Encrypts \union {None}]
        BY DEF Live
      <3>2. \A h \in Generations :
                keys'[h] \in {NoKey, Destroyed} \union {Live(d) : d \in Encrypts}
        <4>. SUFFICES ASSUME NEW h \in Generations
                      PROVE  keys'[h] \in {NoKey, Destroyed} \union {Live(d) : d \in Encrypts}
          OBVIOUS
        <4>1. CASE h = g
          BY <2>5, <4>1
        <4>2. CASE h # g
          BY <2>5, <4>2 DEF IInv, Types, TypeOK
        <4>. QED
          BY <4>1, <4>2
      <3>3. \A d \in Encrypts : enc'[d].generation \in {0} \union Generations
        BY <1>3, <2>4 DEF IInv, Types
      <3>4. TypeOK'
        BY <2>2, <3>2, <3>3 DEF IInv, Types, TypeOK
      <3>. QED
        <4>1. keys' \in [Generations -> [state : {"none", "live", "destroyed"},
                                         material : Encrypts \union {None}]]
          BY <2>1, <3>1 DEF IInv, Types
        <4>2. enc' \in [Encrypts -> [pc : EncPlaces, generation : {0} \union Generations,
                                     material : Encrypts \union {None}]]
          BY <2>1 DEF IInv, Types, EncPlaces
        <4>. QED
          BY <2>2, <3>4, <4>1, <4>2 DEF IInv, Types
    <2>9. Numbered'
      <3>1. ASSUME NEW h \in KeyRows' PROVE \E d \in Encrypts : Made(d, h)'
        <4>1. CASE h = g
          BY <2>4, <4>1 DEF Made
        <4>2. CASE h \in KeyRows
          <5>1. PICK d \in Encrypts : Made(d, h)
            BY <4>2 DEF IInv, Numbered
          <5>2. d # e
            BY <1>3, <5>1 DEF Made
          <5>. QED
            BY <2>4, <5>1, <5>2 DEF Made
        <4>. QED
          BY <2>6, <4>1, <4>2
      <3>. QED
        BY <1>3, <2>7, <3>1 DEF Numbered
    <2>10. (\A d \in Encrypts : EncConsistent(d))'
      BY <2>4, <2>6 DEF IInv, EncConsistent
    <2>11. \A h \in Generations : h \in KeyRows => keys'[h] = keys[h] /\ h \in KeyRows'
      BY <1>6, <2>5, <2>6
    <2>12. \A h \in Generations : keys[h] = Destroyed => keys'[h] = Destroyed
      BY <2>11, Distinct DEF KeyRows
    <2>13. (\A c \in Confirms : ConfConsistent(c))'
      <3>. SUFFICES ASSUME NEW c \in Confirms PROVE ConfConsistent(c)'
        OBVIOUS
      <3>1. ConfConsistent(c) /\ conf' = conf /\ liveAtStart' = liveAtStart /\ status' = status
        BY <2>2 DEF IInv
      <3>2. conf[c].selected \subseteq Generations /\ liveAtStart[c] \subseteq Generations
        BY DEF IInv, Types
      <3>. QED
        BY <2>6, <2>12, <3>1, <3>2 DEF ConfConsistent
    <2>14. FactsConsistent' /\ ReturnedHasFact'
      BY <2>2 DEF IInv, FactsConsistent, ReturnedHasFact
    <2>15. TokensFindTheirKey'
      <3>. SUFFICES ASSUME NEW d \in Encrypts, enc'[d].pc = "done"
                    PROVE  /\ enc'[d].generation \in KeyRows'
                           /\ enc'[d].generation \in LiveKeys' =>
                                 keys'[enc'[d].generation].material = enc'[d].material
        BY DEF TokensFindTheirKey, DecryptForSubject, LiveKeys
      <3>1. CASE d = e
        BY <2>4, <2>5, <2>6, <3>1, Distinct
      <3>2. CASE d # e
        <4>1. /\ enc[d].generation \in KeyRows
              /\ enc[d].generation \in LiveKeys =>
                    keys[enc[d].generation].material = enc[d].material
          BY <2>4, <3>2, TokensAreKeyed
        <4>2. keys'[enc[d].generation] = keys[enc[d].generation]
          BY <2>11, <4>1 DEF KeyRows
        <4>. QED
          BY <2>4, <2>6, <3>2, <4>1, <4>2 DEF LiveKeys
      <3>. QED
        BY <3>1, <3>2
    <2>. QED
      BY <2>8, <2>9, <2>10, <2>13, <2>14, <2>15 DEF IInv
  <1>. QED
    BY <1>5, <1>6

-----------------------------------------------------------------------------
\* What only a step of a confirmation or of the requests touches.
LEMMA KeysUntouched ==
    ASSUME IInv, UNCHANGED <<keys, enc>>
    PROVE  /\ KeyRows' = KeyRows /\ Numbered' /\ TokensFindTheirKey'
           /\ (\A e \in Encrypts : EncConsistent(e))'
  <1>1. KeyRows' = KeyRows
    BY DEF KeyRows
  <1>. QED
    BY <1>1 DEF IInv, Numbered, Made, EncConsistent, TokensFindTheirKey, DecryptForSubject, LiveKeys

\* An erasure is requested.
LEMMA RequestErasureKeeps ==
    ASSUME IInv, NEW r \in Requests, RequestErasure(r)
    PROVE  IInv'
  <1>. USE DEF RequestErasure
  <1>1. Types'
    BY DEF IInv, Types, TypeOK
  <1>2. (\A c \in Confirms : ConfConsistent(c))'
    <2>1. \A q \in Requests : status[q] = "Confirmed" => status'[q] = "Confirmed"
      BY DEF IInv, Types, TypeOK
    <2>. QED
      BY <2>1, KeysUntouched DEF IInv, ConfConsistent
  <1>3. FactsConsistent' /\ ReturnedHasFact'
    BY DEF IInv, FactsConsistent, ReturnedHasFact
  <1>. QED
    BY <1>1, <1>2, <1>3, KeysUntouched DEF IInv

\* A confirmation finds its request, or is refused.
LEMMA CheckRequestKeeps ==
    ASSUME IInv, NEW c \in Confirms, CheckRequest(c)
    PROVE  IInv'
  <1>1. PICK r \in Requests :
            conf' = [conf EXCEPT ![c] =
                [pc |-> IF status[r] = "Requested" THEN "select" ELSE "refused",
                 request |-> r, selected |-> {}]]
    BY DEF CheckRequest
  <1>2. /\ UNCHANGED <<keys, status, facts, enc, failures>>
        /\ conf[c].pc = "idle"
        /\ liveAtStart' = [liveAtStart EXCEPT ![c] = LiveKeys]
    BY DEF CheckRequest
  <1>3. /\ \A d \in Confirms : d # c => conf'[d] = conf[d] /\ liveAtStart'[d] = liveAtStart[d]
        /\ conf'[c].pc \in {"select", "refused"} /\ conf'[c].request = r
        /\ liveAtStart'[c] = LiveKeys
    BY <1>1, <1>2 DEF IInv, Types
  <1>4. LiveKeys \subseteq KeyRows /\ LiveKeys \subseteq Generations
    BY DEF LiveKeys, KeyRows
  <1>5. Types'
    BY <1>1, <1>2, <1>4 DEF IInv, Types, TypeOK, ConfPlaces
  <1>6. (\A d \in Confirms : ConfConsistent(d))'
    BY <1>2, <1>3, <1>4, KeysUntouched DEF IInv, ConfConsistent
  <1>7. FactsConsistent' /\ ReturnedHasFact'
    BY <1>2, <1>3 DEF IInv, Types, TypeOK, FactsConsistent, ReturnedHasFact
  <1>. QED
    BY <1>2, <1>5, <1>6, <1>7, KeysUntouched DEF IInv

\* It selects the live keys, which were live when it began.
LEMMA SelectKeysKeeps ==
    ASSUME IInv, NEW c \in Confirms, SelectKeys(c)
    PROVE  IInv'
  <1>. USE DEF SelectKeys
  <1>1. /\ \A d \in Confirms : d # c => conf'[d] = conf[d]
        /\ conf[c].pc = "select" /\ conf'[c].pc = "commit"
        /\ conf'[c].request = conf[c].request /\ conf'[c].selected = LiveKeys
    BY DEF IInv, Types
  <1>2. LiveKeys \subseteq KeyRows /\ LiveKeys \subseteq Generations
    BY DEF LiveKeys, KeyRows
  <1>3. Types'
    <2>. DEFINE k == [conf EXCEPT ![c].pc = "commit"]
    <2>1. k \in [Confirms -> [pc : ConfPlaces, request : Requests \union {None},
                              selected : SUBSET Generations]]
      BY DEF IInv, Types, ConfPlaces
    <2>2. conf' = [k EXCEPT ![c].selected = LiveKeys]
      OBVIOUS
    <2>. HIDE DEF k
    <2>3. conf' \in [Confirms -> [pc : ConfPlaces, request : Requests \union {None},
                                  selected : SUBSET Generations]]
      BY <1>2, <2>1, <2>2
    <2>. QED
      BY <2>3 DEF IInv, Types, TypeOK
  <1>4. \A g \in liveAtStart[c] : g \in LiveKeys \/ keys[g] = Destroyed
    <2>1. \A g \in KeyRows : keys[g] \in {Destroyed} \union {Live(e) : e \in Encrypts}
      BY DEF IInv, Types, TypeOK, KeyRows, NoKey
    <2>2. \A g \in KeyRows : g \in LiveKeys \/ keys[g] = Destroyed
      BY <2>1, Distinct DEF LiveKeys, KeyRows
    <2>. QED
      BY <1>1, <2>2 DEF IInv, ConfConsistent
  <1>5. (\A d \in Confirms : ConfConsistent(d))'
    BY <1>1, <1>2, <1>4, KeysUntouched DEF IInv, ConfConsistent
  <1>6. FactsConsistent' /\ ReturnedHasFact'
    BY <1>1 DEF IInv, Types, TypeOK, FactsConsistent, ReturnedHasFact
  <1>. QED
    BY <1>3, <1>5, <1>6, KeysUntouched DEF IInv

\* The commit destroys every generation that was live when the call began.
LEMMA CommitErasureKeeps ==
    ASSUME IInv, NEW c \in Confirms, CommitErasure(c)
    PROVE  IInv'
  <1>. USE DEF CommitErasure
  <1>. DEFINE S == conf[c].selected
              r == conf[c].request
  <1>1. /\ \A d \in Confirms : d # c => conf'[d] = conf[d]
        /\ conf[c].pc = "commit" /\ conf'[c].pc = "append"
        /\ conf'[c].request = r /\ conf'[c].selected = S
        /\ r \in Requests /\ S \subseteq KeyRows /\ S \subseteq Generations
    BY DEF IInv, Types, ConfConsistent
  <1>2. /\ \A g \in Generations : keys'[g] = IF g \in S THEN Destroyed ELSE keys[g]
        /\ \A q \in Requests : status[q] = "Confirmed" => status'[q] = "Confirmed"
        /\ status'[r] = "Confirmed"
    BY <1>1 DEF IInv, Types, TypeOK
  <1>3. KeyRows' = KeyRows
    BY <1>1, <1>2, Distinct DEF KeyRows
  <1>4. Types'
    <2>1. Destroyed \in [state : {"none", "live", "destroyed"},
                         material : Encrypts \union {None}]
      BY DEF Destroyed
    <2>2. \A g \in Generations :
              keys'[g] \in {NoKey, Destroyed} \union {Live(e) : e \in Encrypts}
      BY <1>2 DEF IInv, Types, TypeOK
    <2>3. TypeOK'
      BY <1>1, <2>2 DEF IInv, Types, TypeOK
    <2>. QED
      BY <1>1, <2>1, <2>3 DEF IInv, Types, ConfPlaces
  <1>5. \A g \in Generations : keys[g] = Destroyed => keys'[g] = Destroyed
    BY <1>2
  <1>6. Numbered' /\ (\A e \in Encrypts : EncConsistent(e))'
    BY <1>3 DEF IInv, Numbered, Made, EncConsistent
  <1>7. (\A d \in Confirms : ConfConsistent(d))'
    <2>. SUFFICES ASSUME NEW d \in Confirms PROVE ConfConsistent(d)'
      OBVIOUS
    <2>1. /\ ConfConsistent(d) /\ liveAtStart' = liveAtStart
          /\ conf[d].selected \subseteq Generations /\ liveAtStart[d] \subseteq Generations
      BY DEF IInv, Types
    <2>2. CASE d = c
      <3>1. \A g \in S \union liveAtStart[c] : keys'[g] = Destroyed
        BY <1>1, <1>2, <2>1, <2>2 DEF ConfConsistent
      <3>. QED
        BY <1>1, <1>2, <2>1, <2>2, <3>1 DEF ConfConsistent
    <2>3. CASE d # c
      BY <1>1, <1>2, <1>3, <1>5, <2>1, <2>3 DEF ConfConsistent
    <2>. QED
      BY <2>2, <2>3
  <1>8. FactsConsistent' /\ ReturnedHasFact'
    BY <1>1 DEF IInv, Types, TypeOK, FactsConsistent, ReturnedHasFact
  <1>9. TokensFindTheirKey'
    <2>. SUFFICES ASSUME NEW e \in Encrypts, enc[e].pc = "done"
                  PROVE  /\ enc[e].generation \in KeyRows'
                         /\ enc[e].generation \in LiveKeys' =>
                               keys'[enc[e].generation].material = enc[e].material
      BY DEF TokensFindTheirKey, DecryptForSubject, LiveKeys
    <2>1. /\ enc[e].generation \in KeyRows
          /\ enc[e].generation \in LiveKeys =>
                keys[enc[e].generation].material = enc[e].material
      BY TokensAreKeyed
    <2>2. \A g \in LiveKeys' : g \in LiveKeys /\ keys'[g] = keys[g]
      BY <1>2, Distinct DEF LiveKeys
    <2>. QED
      BY <1>3, <2>1, <2>2
  <1>. QED
    BY <1>4, <1>6, <1>7, <1>8, <1>9 DEF IInv

\* It appends the erasure's fact.
LEMMA AppendFactKeeps ==
    ASSUME IInv, NEW c \in Confirms, AppendFact(c)
    PROVE  IInv'
  <1>. USE DEF AppendFact
  <1>. DEFINE f == [by |-> c, request |-> conf[c].request]
  <1>1. /\ \A d \in Confirms : d # c => conf'[d] = conf[d]
        /\ conf[c].pc = "append" /\ conf'[c].pc = "done"
        /\ conf'[c].request = conf[c].request /\ conf'[c].selected = conf[c].selected
    BY DEF IInv, Types
  <1>2. conf[c].request \in Requests
    BY <1>1 DEF IInv, ConfConsistent
  <1>3. facts' = facts \union {f}
    OBVIOUS
  <1>4. f \in [by : Confirms, request : Requests] /\ f.by = c /\ f.request = conf[c].request
    BY <1>2
  <1>. HIDE DEF f
  <1>5. Types'
    BY <1>3, <1>4 DEF IInv, Types, TypeOK, ConfPlaces
  <1>6. (\A d \in Confirms : ConfConsistent(d))'
    BY <1>1, KeysUntouched DEF IInv, ConfConsistent
  <1>7. FactsConsistent'
    BY <1>1, <1>3, <1>4 DEF IInv, Types, TypeOK, FactsConsistent
  <1>8. ReturnedHasFact'
    BY <1>1, <1>3 DEF IInv, ReturnedHasFact, f
  <1>. QED
    BY <1>5, <1>6, <1>7, <1>8, KeysUntouched DEF IInv

\* It fails before either.
LEMMA ConfirmFailsKeeps ==
    ASSUME IInv, NEW c \in Confirms, ConfirmFails(c)
    PROVE  IInv'
  <1>. USE DEF ConfirmFails
  <1>1. /\ \A d \in Confirms : d # c => conf'[d] = conf[d]
        /\ conf[c].pc # "done" /\ conf'[c].pc = "raised"
    BY DEF IInv, Types
  <1>2. Types'
    <2>1. failures' \in 0..MaxFailures
      BY ShredAssumption DEF IInv, Types, TypeOK
    <2>. QED
      BY <2>1 DEF IInv, Types, TypeOK, ConfPlaces
  <1>3. (\A d \in Confirms : ConfConsistent(d))'
    BY <1>1, KeysUntouched DEF IInv, ConfConsistent
  <1>4. FactsConsistent' /\ ReturnedHasFact'
    BY <1>1 DEF IInv, Types, TypeOK, FactsConsistent, ReturnedHasFact
  <1>. QED
    BY <1>2, <1>3, <1>4, KeysUntouched DEF IInv

\* Every step keeps the invariant.
LEMMA NextKeepsIInv == IInv /\ [Next]_vars => IInv'
  <1>. SUFFICES ASSUME IInv, [Next]_vars PROVE IInv'
    OBVIOUS
  <1>1. CASE UNCHANGED vars
    <2>1. (\A c \in Confirms : ConfConsistent(c))' /\ FactsConsistent' /\ ReturnedHasFact'
      BY <1>1, KeysUntouched
      DEF vars, IInv, ConfConsistent, FactsConsistent, ReturnedHasFact
    <2>2. Types'
      BY <1>1 DEF vars, IInv, Types, TypeOK
    <2>. QED
      BY <1>1, <2>1, <2>2, KeysUntouched DEF vars, IInv
  <1>2. ASSUME NEW e \in Encrypts, GetActiveKey(e) \/ LastGeneration(e) \/ InsertKey(e)
        PROVE  IInv'
    BY <1>2, GetActiveKeyKeeps, LastGenerationKeeps, InsertKeyKeeps
  <1>3. ASSUME NEW r \in Requests, RequestErasure(r) PROVE IInv'
    BY <1>3, RequestErasureKeeps
  <1>4. ASSUME NEW c \in Confirms, Confirm(c) \/ ConfirmFails(c) PROVE IInv'
    BY <1>4, CheckRequestKeeps, SelectKeysKeeps, CommitErasureKeeps, AppendFactKeeps,
       ConfirmFailsKeeps DEF Confirm
  <1>. QED
    BY <1>1, <1>2, <1>3, <1>4 DEF Next

\* The strengthening holds of every run of the code.
THEOREM IInvAlways == Spec => []IInv
  BY InitIInv, NextKeepsIInv, PTL DEF Spec

-----------------------------------------------------------------------------
\* The audit trail of erasures: a fact is in the log only for a confirmed request
\* and after the keys it counts are gone, confirm_erasure returns only with its
\* fact there, and every token handed out finds its key or none; for any number
\* of calls, however they interleave and fail.
THEOREM ShredInvAlways == Spec => []ShredInv
  <1>1. IInv => ShredInv
    <2>. SUFFICES ASSUME IInv PROVE FactsAreTrue
      BY DEF IInv, ShredInv, Types
    <2>. SUFFICES ASSUME NEW f \in facts
                  PROVE  /\ status[f.request] = "Confirmed"
                         /\ \A g \in conf[f.by].selected : keys[g] = Destroyed
      BY DEF FactsAreTrue
    <2>1. f.by \in Confirms /\ conf[f.by].pc = "done" /\ conf[f.by].request = f.request
      BY DEF IInv, Types, TypeOK, FactsConsistent
    <2>. QED
      BY <2>1 DEF IInv, ConfConsistent
  <1>. QED
    BY <1>1, IInvAlways, PTL

\* Once confirm_erasure has committed, no generation that was live when it began
\* decrypts, whatever encryptions and other confirmations run beside it.
THEOREM ErasedIsUnreadableAlways == Spec => []ErasedIsUnreadable
  <1>1. IInv => ErasedIsUnreadable
    BY DEF IInv, ConfConsistent, ErasedIsUnreadable
  <1>. QED
    BY <1>1, IInvAlways, PTL

\* No step revives a destroyed generation or gives a live one another key.
THEOREM ShreddedForGoodAlways == Spec => ShreddedForGood
  <1>. DEFINE Lasting ==
          \A g \in Generations :
              /\ keys[g].state = "destroyed" => keys'[g] = keys[g]
              /\ keys[g].state = "live" => keys'[g] \in {keys[g], Destroyed}
  <1>1. ASSUME IInv, [Next]_vars PROVE [Lasting]_vars
    <2>1. CASE UNCHANGED keys
      BY <2>1
    <2>2. ASSUME NEW e \in Encrypts, InsertKey(e) PROVE Lasting
      <3>1. \/ keys' = keys
            \/ /\ enc[e].generation \notin KeyRows
               /\ keys' = [keys EXCEPT ![enc[e].generation] = Live(enc[e].material)]
        BY <2>2 DEF InsertKey
      <3>2. \A g \in Generations : g \in KeyRows => keys'[g] = keys[g]
        <4>. SUFFICES ASSUME NEW g \in Generations, g \in KeyRows PROVE keys'[g] = keys[g]
          OBVIOUS
        <4>1. enc[e].generation # g => [keys EXCEPT ![enc[e].generation]
                                           = Live(enc[e].material)][g] = keys[g]
          BY <1>1 DEF IInv, Types
        <4>. QED
          BY <3>1, <4>1
      <3>. QED
        BY <3>2 DEF KeyRows
    <2>3. ASSUME NEW c \in Confirms, CommitErasure(c) PROVE Lasting
      <3>1. \A g \in Generations : keys'[g] \in {keys[g], Destroyed}
        BY <2>3 DEF CommitErasure
      <3>2. \A g \in Generations : keys[g].state = "destroyed" => keys[g] = Destroyed
        <4>. SUFFICES ASSUME NEW g \in Generations, keys[g].state = "destroyed"
                      PROVE  keys[g] = Destroyed
          OBVIOUS
        <4>1. keys[g] \in {NoKey, Destroyed} \union {Live(e) : e \in Encrypts}
          BY <1>1 DEF IInv, Types, TypeOK
        <4>2. keys[g] # NoKey /\ \A e \in Encrypts : keys[g] # Live(e)
          BY Distinct
        <4>. QED
          BY <4>1, <4>2
      <3>. QED
        BY <3>1, <3>2
    <2>. QED
      BY <1>1, <2>1, <2>2, <2>3 DEF Next, vars, Confirm, GetActiveKey, LastGeneration,
         RequestErasure, CheckRequest, SelectKeys, AppendFact, ConfirmFails
  <1>. QED
    <2>1. IInv /\ [Next]_vars => [Lasting]_vars
      BY <1>1
    <2>. QED
      BY <2>1, IInvAlways, PTL DEF Spec, ShreddedForGood, Lasting

-----------------------------------------------------------------------------
\* The prompt registry.  The inductive invariant says what the registrations,
\* evaluations and promotions under way have read, and what the gate found of it.
\* A table of aliases: finitely many rows by id, one for an alias.
Table(tab) ==
    /\ tab = [k \in DOMAIN tab |-> tab[k]]
    /\ \E n \in Nat : DOMAIN tab \subseteq 1..n
    /\ \A k, l \in DOMAIN tab : tab[k].alias = tab[l].alias => k = l

EvalShape(e) ==
    LET k == eval[e] IN
    k = [pc |-> k.pc, number |-> k.number, id |-> k.id, outcome |-> k.outcome,
         found |-> k.found]

PromoteShape(p) ==
    LET k == promote[p] IN
    k = [pc |-> k.pc, id |-> k.id, current |-> k.current, candidate |-> k.candidate,
         row |-> k.row, loaded |-> k.loaded]

\* The registrations that may have added a version.
Added == {g \in Registers : eval[g].pc \notin {"idle", "count", "insert"}}

\* A registration about to insert counted no more versions than there are; an
\* evaluation is of a version, and about to persist has an outcome, and the row
\* it found is there.
EvalConsistent(e) ==
    /\ EvalShape(e) /\ eval[e].pc \in EvalPlaces
    /\ eval[e].pc = "insert" => eval[e].number \in 1..Len(versions) + 1
    /\ eval[e].pc \in {"detect", "run", "select", "persist"} => eval[e].id \in Ids
    /\ eval[e].pc \in {"select", "persist"} => eval[e].outcome \in Outcomes
    /\ eval[e].pc = "persist" /\ eval[e].found # Absent => summary[eval[e].id] # Absent

EvalsConsistent ==
    /\ eval = [e \in Evals |-> eval[e]] /\ \A e \in Evals : EvalConsistent(e)
    /\ Len(versions) <= Cardinality(Added)

Registered ==
    /\ versions \in Seq([content : Range(scope.content), number : Nat])
    /\ \A i \in 1..Len(versions) : versions[i].number \in 1..i

\* A promotion saw what its alias names; at its UPDATE the row it found is its
\* alias's, unless the row was deleted meanwhile; and past it, its version was named.
PromoteConsistent(p) ==
    LET k == promote[p] IN
    /\ PromoteShape(p) /\ k.pc \in PromotePlaces
    /\ k.pc # "idle" => k.id \in 1..Len(versions) /\ Named(Alias(p)) \in served[p]
    /\ p \in freed \union ungated => k.pc # "idle"
    /\ k.pc = "update" => /\ k.loaded \in served[p]
                          /\ \/ p \in freed
                             \/ k.row \in DOMAIN aliases /\ aliases[k.row].alias = Alias(p)
    /\ k.pc \in {"refresh", "returned"} => p \in freed \/ k.id \in served[p]
    /\ steady[p] \subseteq {i \in Ids : summary[i] # Absent}

\* What the gate let through for p did not regress against a version that its
\* alias named meanwhile.
Passed(p) ==
    \E c \in served[p] :
        \/ c \in {Absent, promote[p].id}
        \/ {c, promote[p].id} \subseteq steady[p]
              => ~Regressed(summary[promote[p].id], summary[c])

\* A promotion to production from a process with a golden set, past the gate's
\* first look, is of an evaluated version.
GateConsistent(p) ==
    LET k == promote[p] IN
    p \notin ungated /\ Alias(p) = Production =>
        /\ k.pc \in {"current", "baseline", "alias", "insert", "reload", "update"}
              => summary[k.id] # Absent
        /\ k.pc \in {"current", "baseline"} /\ k.id \in steady[p] =>
              k.candidate = summary[k.id]
        /\ k.pc = "baseline" => k.current \in served[p]
        /\ k.pc \in {"alias", "insert", "reload", "update"} => Passed(p)

PromotesConsistent ==
    /\ promote = [p \in Promotes |-> promote[p]]
    /\ \A p \in Promotes : PromoteConsistent(p) /\ GateConsistent(p)

AliasesNameVersions == \A k \in DOMAIN aliases : aliases[k].version \in 1..Len(versions)

PromptFrame ==
    /\ summary \in [Ids -> [Columns -> Nat] \union {Absent}]
    /\ clear = [c \in Clears |-> [pc |-> clear[c].pc, row |-> clear[c].row]]
    /\ \A c \in Clears : clear[c].pc \in {"idle", "delete", "returned", "dead"}
    /\ served = [p \in Promotes |-> served[p]] /\ steady = [p \in Promotes |-> steady[p]]
    /\ freed \subseteq Promotes /\ ungated \subseteq Promotes
    /\ scope \in Scopes /\ suites \subseteq Processes

PromptIInv ==
    /\ PromptFrame /\ Registered /\ EvalsConsistent
    /\ Table(aliases) /\ AliasesNameVersions
    /\ PromotesConsistent /\ ProductionIsScored

-----------------------------------------------------------------------------
\* Lookups in a table, and what one statement does to it.
LEMMA NamedIsTheRow ==
    ASSUME NEW tab, Table(tab), NEW k \in DOMAIN tab
    PROVE  NamedIn(tab, tab[k].alias) = tab[k].version /\ RowIn(tab, tab[k].alias) = {k}
  <1>1. PICK n \in Nat : DOMAIN tab \subseteq 1..n
    BY DEF Table
  <1>2. RowIn(tab, tab[k].alias) = {k}
    BY DEF Table, RowIn
  <1>3. {k} \subseteq 1..n /\ {k} # {}
    BY <1>1
  <1>4. Max({k}) = k
    BY <1>3, MaxExists
  <1>. QED
    BY <1>2, <1>4 DEF NamedIn

\* An alias without a row names nothing.
LEMMA NamedIsAbsent ==
    ASSUME NEW tab, NEW a, \A k \in DOMAIN tab : tab[k].alias # a
    PROVE  NamedIn(tab, a) = Absent /\ RowIn(tab, a) = {}
  BY DEF NamedIn, RowIn

\* A row of an alias, or none.
LEMMA RowOrNone ==
    ASSUME NEW tab, Table(tab), NEW a
    PROVE  \/ RowIn(tab, a) = {} /\ NamedIn(tab, a) = Absent
           \/ \E k \in DOMAIN tab :
                 /\ tab[k].alias = a /\ RowIn(tab, a) = {k} /\ Max(RowIn(tab, a)) = k
                 /\ NamedIn(tab, a) = tab[k].version
  <1>1. CASE \A k \in DOMAIN tab : tab[k].alias # a
    BY <1>1, NamedIsAbsent
  <1>2. ASSUME NEW k \in DOMAIN tab, tab[k].alias = a
        PROVE  /\ RowIn(tab, a) = {k} /\ Max(RowIn(tab, a)) = k
               /\ NamedIn(tab, a) = tab[k].version
    <2>1. PICK n \in Nat : DOMAIN tab \subseteq 1..n
      BY DEF Table
    <2>2. {k} \subseteq 1..n /\ {k} # {}
      BY <2>1
    <2>3. Max({k}) = k
      BY <2>2, MaxExists
    <2>. QED
      BY <1>2, <2>3, NamedIsTheRow
  <1>. QED
    BY <1>1, <1>2

\* The id of a new alias is free, and the ids stay finite.
LEMMA AliasIdIsNew ==
    ASSUME NEW tab, Table(tab)
    PROVE  /\ NextId(tab) \notin DOMAIN tab
           /\ \E n \in Nat : DOMAIN tab \union {NextId(tab)} \subseteq 1..n
  <1>1. PICK n \in Nat : DOMAIN tab \subseteq 1..n
    BY DEF Table
  <1>2. CASE DOMAIN tab = {}
    <2>1. NextId(tab) = 1
      BY <1>2 DEF NextId
    <2>. QED
      BY <1>2, <2>1
  <1>3. CASE DOMAIN tab # {}
    <2>1. PICK m : m = Max(DOMAIN tab)
      OBVIOUS
    <2>2. m \in DOMAIN tab /\ \A x \in DOMAIN tab : m >= x
      BY <1>1, <1>3, <2>1, MaxExists
    <2>3. NextId(tab) = m + 1 /\ m \in 1..n
      BY <1>1, <1>3, <2>1, <2>2 DEF NextId
    <2>4. m + 1 \notin DOMAIN tab
      BY <1>1, <2>2, <2>3
    <2>5. DOMAIN tab \union {m + 1} \subseteq 1..(n + 1)
      BY <1>1, <2>3
    <2>. QED
      BY <2>3, <2>4, <2>5
  <1>. QED
    BY <1>2, <1>3

\* INSERT of an alias that has no row.
LEMMA RowInserted ==
    ASSUME NEW tab, Table(tab), NEW a, NEW v, NamedIn(tab, a) = Absent,
           \A k \in DOMAIN tab : tab[k].version # Absent,
           NEW new, new = WithRow(tab, NextId(tab), [alias |-> a, version |-> v])
    PROVE  /\ Table(new) /\ NamedIn(new, a) = v
           /\ \A b : b # a => NamedIn(new, b) = NamedIn(tab, b)
           /\ DOMAIN new = DOMAIN tab \union {NextId(tab)}
           /\ new[NextId(tab)] = [alias |-> a, version |-> v]
           /\ \A k \in DOMAIN tab : new[k] = tab[k]
  <1>1. PICK d : d = NextId(tab)
    OBVIOUS
  <1>2. d \notin DOMAIN tab /\ \E n \in Nat : DOMAIN tab \union {d} \subseteq 1..n
    BY <1>1, AliasIdIsNew
  <1>3. RowIn(tab, a) = {}
    BY RowOrNone
  <1>4. new = [k \in DOMAIN tab \union {d} |-> IF k = d THEN [alias |-> a, version |-> v]
                                               ELSE tab[k]]
    BY <1>1 DEF WithRow
  <1>5. /\ DOMAIN new = DOMAIN tab \union {d} /\ new[d] = [alias |-> a, version |-> v]
        /\ \A k \in DOMAIN tab : new[k] = tab[k]
    BY <1>2, <1>4
  <1>6. new[d].alias = a /\ new[d].version = v
    BY <1>5
  <1>7. \A k \in DOMAIN tab : tab[k].alias # a
    BY <1>3 DEF RowIn
  <1>8. Table(new)
    <2>1. new = [k \in DOMAIN new |-> new[k]]
      BY <1>4
    <2>2. ASSUME NEW k \in DOMAIN new, NEW l \in DOMAIN new, new[k].alias = new[l].alias
          PROVE  k = l
      BY <1>5, <1>6, <1>7, <2>2 DEF Table
    <2>. QED
      BY <1>2, <1>5, <2>1, <2>2 DEF Table
  <1>9. NamedIn(new, a) = v
    BY <1>5, <1>6, <1>8, NamedIsTheRow
  <1>10. ASSUME NEW b, b # a PROVE NamedIn(new, b) = NamedIn(tab, b)
    <2>1. RowIn(new, b) = RowIn(tab, b)
      BY <1>5, <1>6, <1>10 DEF RowIn
    <2>2. CASE RowIn(tab, b) = {}
      BY <2>1, <2>2 DEF NamedIn
    <2>3. ASSUME NEW k \in DOMAIN tab, tab[k].alias = b
          PROVE  NamedIn(new, b) = NamedIn(tab, b)
      BY <1>5, <1>8, <2>3, NamedIsTheRow
    <2>. QED
      BY <2>2, <2>3 DEF RowIn
  <1>. QED
    BY <1>1, <1>5, <1>8, <1>9, <1>10

\* UPDATE of the row k.
LEMMA RowUpdated ==
    ASSUME NEW tab, Table(tab), NEW k \in DOMAIN tab, NEW v, NEW new,
           new = WithRow(tab, k, [alias |-> tab[k].alias, version |-> v])
    PROVE  /\ Table(new) /\ NamedIn(new, tab[k].alias) = v
           /\ \A b : b # tab[k].alias => NamedIn(new, b) = NamedIn(tab, b)
           /\ DOMAIN new = DOMAIN tab /\ new[k].version = v
           /\ \A l \in DOMAIN tab : /\ new[l].alias = tab[l].alias
                                    /\ l # k => new[l] = tab[l]
  <1>1. new = [l \in DOMAIN tab |-> IF l = k THEN [alias |-> tab[k].alias, version |-> v]
                                    ELSE tab[l]]
    <2>1. DOMAIN tab \union {k} = DOMAIN tab
      OBVIOUS
    <2>. QED
      BY <2>1 DEF WithRow
  <1>2. /\ DOMAIN new = DOMAIN tab
        /\ new[k].alias = tab[k].alias /\ new[k].version = v
        /\ \A l \in DOMAIN tab : l # k => new[l] = tab[l]
    BY <1>1
  <1>3. \A l \in DOMAIN tab : new[l].alias = tab[l].alias
    BY <1>2
  <1>4. Table(new)
    <2>1. new = [l \in DOMAIN new |-> new[l]]
      BY <1>1
    <2>. QED
      BY <1>2, <1>3, <2>1 DEF Table
  <1>5. NamedIn(new, tab[k].alias) = v
    BY <1>2, <1>4, NamedIsTheRow
  <1>6. ASSUME NEW b, b # tab[k].alias PROVE NamedIn(new, b) = NamedIn(tab, b)
    <2>1. RowIn(new, b) = RowIn(tab, b)
      BY <1>2, <1>3 DEF RowIn
    <2>2. CASE RowIn(tab, b) = {}
      BY <2>1, <2>2 DEF NamedIn
    <2>3. ASSUME NEW l \in DOMAIN tab, tab[l].alias = b
          PROVE  NamedIn(new, b) = NamedIn(tab, b)
      <3>1. l # k /\ new[l] = tab[l] /\ l \in DOMAIN new /\ new[l].alias = b
        BY <1>2, <1>6, <2>3
      <3>2. NamedIn(tab, b) = tab[l].version
        BY <2>3, NamedIsTheRow
      <3>3. NamedIn(new, b) = new[l].version
        BY <1>4, <3>1, NamedIsTheRow
      <3>. QED
        BY <3>1, <3>2, <3>3
    <2>. QED
      BY <2>2, <2>3 DEF RowIn
  <1>. QED
    BY <1>2, <1>3, <1>4, <1>5, <1>6

\* DELETE of all but the rows in kept.
LEMMA RowDeleted ==
    ASSUME NEW tab, Table(tab), NEW kept, kept \subseteq DOMAIN tab, NEW new,
           new = Restrict(tab, kept)
    PROVE  /\ Table(new)
           /\ \A b : NamedIn(new, b) \in {Absent, NamedIn(tab, b)}
           /\ DOMAIN new = kept
           /\ \A l \in kept : new[l] = tab[l]
  <1>1. new = [l \in kept |-> tab[l]]
    BY DEF Restrict
  <1>2. DOMAIN new = kept /\ \A l \in DOMAIN new : l \in DOMAIN tab /\ new[l] = tab[l]
    BY <1>1
  <1>3. Table(new)
    <2>1. new = [l \in DOMAIN new |-> new[l]]
      BY <1>1
    <2>2. \E n \in Nat : DOMAIN new \subseteq 1..n
      BY <1>2 DEF Table
    <2>3. ASSUME NEW l \in DOMAIN new, NEW m \in DOMAIN new, new[l].alias = new[m].alias
          PROVE  l = m
      <3>1. /\ l \in DOMAIN tab /\ m \in DOMAIN tab
            /\ new[l] = tab[l] /\ new[m] = tab[m]
        BY <1>2
      <3>. QED
        BY <2>3, <3>1 DEF Table
    <2>. QED
      BY <2>1, <2>2, <2>3 DEF Table
  <1>4. ASSUME NEW b PROVE NamedIn(new, b) \in {Absent, NamedIn(tab, b)}
    <2>1. CASE \A l \in DOMAIN new : new[l].alias # b
      BY <2>1, NamedIsAbsent
    <2>2. ASSUME NEW l \in DOMAIN new, new[l].alias = b
          PROVE  NamedIn(new, b) = NamedIn(tab, b)
      <3>1. NamedIn(new, b) = new[l].version
        BY <1>3, <2>2, NamedIsTheRow
      <3>2. l \in DOMAIN tab /\ tab[l].alias = b
        BY <1>2, <2>2
      <3>3. NamedIn(tab, b) = tab[l].version
        BY <3>2, NamedIsTheRow
      <3>. QED
        BY <1>2, <3>1, <3>3
    <2>. QED
      BY <2>1, <2>2
  <1>. QED
    BY <1>2, <1>3, <1>4

-----------------------------------------------------------------------------
\* There are as many ids as registrations.
LEMMA IdsAre ==
    /\ Cardinality(Registers) \in Nat /\ Ids = 1..Cardinality(Registers)
    /\ 1 \in Ids /\ Absent \notin Ids /\ Absent \notin Outcomes
  <1>1. Cardinality(Registers) \in Nat
    BY PromptAssumption, FS_CardinalityType
  <1>2. Cardinality(Registers) # 0
    BY PromptAssumption, FS_EmptySet
  <1>. QED
    BY <1>1, <1>2, PromptAssumption DEF Ids

\* The invariant holds at the start, with nothing or everything registered.
LEMMA InitPrompt == PromptInit => PromptIInv
  <1>. SUFFICES ASSUME PromptInit PROVE PromptIInv
    OBVIOUS
  <1>. USE DEF PromptInit
  <1>1. PICK N \in Nat : N = Cardinality(Registers)
    BY IdsAre
  <1>2. scope \in Scopes /\ DOMAIN scope.content = Registers
    BY PromptAssumption
  <1>3. summary \in [Ids -> [Columns -> Nat] \union {Absent}]
    BY PromptAssumption DEF Unregistered, AllRegistered
  <1>31. suites \subseteq Processes
    BY PromptAssumption
  <1>4. PromptFrame
    BY <1>2, <1>3, <1>31 DEF PromptFrame
  <1>5. Registered /\ Len(versions) \in {0, N}
    <2>1. CASE Unregistered
      BY <2>1 DEF Unregistered, Registered
    <2>2. CASE AllRegistered
      <3>1. PICK order \in [Ids -> Registers] :
               versions = [i \in Ids |-> [content |-> scope.content[order[i]], number |-> i]]
        BY <2>2 DEF AllRegistered
      <3>2. versions = [i \in 1..N |-> [content |-> scope.content[order[i]], number |-> i]]
        BY <3>1, <1>1, IdsAre
      <3>3. \A i \in 1..N : scope.content[order[i]] \in Range(scope.content)
        BY <3>1, <1>1, <1>2, IdsAre DEF Range
      <3>4. \A i \in 1..N : versions[i] \in [content : Range(scope.content), number : Nat]
                            /\ versions[i].number = i
        BY <3>2, <3>3
      <3>5. /\ versions \in Seq([content : Range(scope.content), number : Nat])
            /\ Len(versions) = N
        BY <3>2, <3>4
      <3>. QED
        BY <3>4, <3>5 DEF Registered
    <2>. QED
      BY <2>1, <2>2
  <1>6. EvalsConsistent
    <2>1. /\ eval = [e \in Evals |-> eval[e]]
          /\ \A e \in Evals : eval[e] \in {EvalIdle, EvalOver}
      BY DEF Unregistered, AllRegistered
    <2>2. \A e \in Evals : EvalConsistent(e)
      BY <2>1 DEF EvalConsistent, EvalShape, EvalIdle, EvalOver, EvalPlaces
    <2>3. Added \subseteq Registers /\ IsFiniteSet(Added) /\ Cardinality(Added) \in Nat
      BY PromptAssumption, FS_Subset, FS_CardinalityType DEF Added
    <2>4. Len(versions) <= Cardinality(Added)
      <3>1. CASE Unregistered
        BY <3>1, <2>3 DEF Unregistered
      <3>2. CASE AllRegistered
        <4>1. \A e \in Registers : eval[e] = EvalOver
          BY <3>2 DEF AllRegistered, Evals
        <4>2. Added = Registers
          BY <4>1 DEF Added, EvalOver, EvalIdle
        <4>. QED
          BY <4>2, <1>1, <1>5, <2>3
      <3>. QED
        BY <3>1, <3>2
    <2>. QED
      BY <2>1, <2>2, <2>4 DEF EvalsConsistent
  <1>7. Table(aliases) /\ AliasesNameVersions /\ production = Absent
    <2>1. CASE Unregistered
      <3>1. DOMAIN aliases = {} /\ aliases = [k \in DOMAIN aliases |-> aliases[k]]
        BY <2>1 DEF Unregistered
      <3>2. DOMAIN aliases \subseteq 1..0
        BY <3>1
      <3>3. NamedIn(aliases, Production) = Absent
        BY <3>1, NamedIsAbsent
      <3>. QED
        BY <3>1, <3>2, <3>3 DEF Table, AliasesNameVersions, production, Named
    <2>2. CASE AllRegistered
      <3>1. /\ DOMAIN aliases = 1..1 /\ aliases = [k \in DOMAIN aliases |-> aliases[k]]
            /\ aliases[1].alias = "canary" /\ aliases[1].version = 1
        BY <2>2 DEF AllRegistered
      <3>2. Len(versions) = N /\ 1 \in 1..N
        <4>1. PICK order \in [Ids -> Registers] :
               versions = [i \in Ids |-> [content |-> scope.content[order[i]], number |-> i]]
          BY <2>2 DEF AllRegistered
        <4>2. DOMAIN versions = Ids
          BY <4>1
        <4>. QED
          BY <4>2, <1>1, <1>5, IdsAre DEF Registered
      <3>3. \A k \in DOMAIN aliases : aliases[k].alias # Production
        BY <3>1 DEF Production
      <3>4. NamedIn(aliases, Production) = Absent
        BY <3>3, NamedIsAbsent
      <3>5. Table(aliases)
        BY <3>1 DEF Table
      <3>6. AliasesNameVersions
        BY <3>1, <3>2 DEF AliasesNameVersions
      <3>. QED
        BY <3>4, <3>5, <3>6 DEF production, Named
    <2>. QED
      BY <2>1, <2>2
  <1>8. PromotesConsistent
    <2>1. \A p \in Promotes : promote[p] = PromoteIdle /\ p \notin freed \union ungated
                              /\ steady[p] = {}
      OBVIOUS
    <2>2. ASSUME NEW p \in Promotes PROVE promote[p].pc = "idle" /\ PromoteShape(p)
      BY <2>1 DEF PromoteShape, PromoteIdle
    <2>3. \A p \in Promotes : PromoteConsistent(p)
      BY <2>1, <2>2 DEF PromoteConsistent, PromotePlaces
    <2>4. \A p \in Promotes : GateConsistent(p)
      BY <2>2 DEF GateConsistent
    <2>. QED
      BY <2>3, <2>4 DEF PromotesConsistent
  <1>. QED
    BY <1>4, <1>5, <1>6, <1>7, <1>8 DEF PromptIInv, ProductionIsScored

-----------------------------------------------------------------------------
\* Registrations and evaluations.
\* The call e becomes the given record, and the other calls stay.
EvalGoes(e, label, number, id, outcome, found) ==
    /\ eval'[e] = [pc |-> label, number |-> number, id |-> id, outcome |-> outcome,
                   found |-> found]
    /\ eval' = [d \in Evals |-> eval'[d]]
    /\ \A d \in Evals \ {e} : eval'[d] = eval[d]

\* The forms an evaluation's assignment takes in the model, field by field.
LEMMA EvalGoesWhenSet ==
    ASSUME EvalsConsistent, NEW e \in Evals, NEW label, NEW number, NEW id, NEW outcome,
           NEW found,
           eval' = [eval EXCEPT ![e] = [pc |-> label, number |-> number, id |-> id,
                                        outcome |-> outcome, found |-> found]]
    PROVE  EvalGoes(e, label, number, id, outcome, found)
  BY DEF EvalsConsistent, EvalGoes

\* Only its place changes.
LEMMA EvalGoesByLabel ==
    ASSUME EvalsConsistent, NEW e \in Evals, NEW label, EvalStep(e, label)
    PROVE  EvalGoes(e, label, eval[e].number, eval[e].id, eval[e].outcome, eval[e].found)
  <1>1. PICK k : k = eval[e]
    OBVIOUS
  <1>2. k = [pc |-> k.pc, number |-> k.number, id |-> k.id, outcome |-> k.outcome,
             found |-> k.found]
    BY <1>1 DEF EvalsConsistent, EvalConsistent, EvalShape
  <1>3. PICK n, i, o, f : n = k.number /\ i = k.id /\ o = k.outcome /\ f = k.found
    OBVIOUS
  <1>4. [k EXCEPT !.pc = label] =
            [pc |-> label, number |-> n, id |-> i, outcome |-> o, found |-> f]
    BY <1>2, <1>3
  <1>5. eval' = [eval EXCEPT ![e] = [k EXCEPT !.pc = label]]
    BY <1>1 DEF EvalStep
  <1>. QED
    BY <1>1, <1>3, <1>4, <1>5, EvalGoesWhenSet

\* Its place and its number.
LEMMA EvalGoesByNumber ==
    ASSUME EvalsConsistent, NEW e \in Evals, NEW label, NEW n,
           EvalBecomes(e, [eval[e] EXCEPT !.pc = label, !.number = n])
    PROVE  EvalGoes(e, label, n, eval[e].id, eval[e].outcome, eval[e].found)
  <1>1. PICK k : k = eval[e]
    OBVIOUS
  <1>2. k = [pc |-> k.pc, number |-> k.number, id |-> k.id, outcome |-> k.outcome,
             found |-> k.found]
    BY <1>1 DEF EvalsConsistent, EvalConsistent, EvalShape
  <1>3. PICK i, o, f : i = k.id /\ o = k.outcome /\ f = k.found
    OBVIOUS
  <1>4. [k EXCEPT !.pc = label, !.number = n] =
            [pc |-> label, number |-> n, id |-> i, outcome |-> o, found |-> f]
    <2>1. PICK r : r = [k EXCEPT !.pc = label, !.number = n]
      OBVIOUS
    <2>2. DOMAIN r = {"pc", "number", "id", "outcome", "found"}
      BY <1>2, <1>3, <2>1
    <2>3. r.pc = label /\ r.number = n /\ r.id = i /\ r.outcome = o /\ r.found = f
      BY <1>2, <1>3, <2>1
    <2>4. r = [z \in {"pc", "number", "id", "outcome", "found"} |-> r[z]]
      BY <2>1, <2>2
    <2>. QED
      BY <2>1, <2>3, <2>4
  <1>5. eval' = [eval EXCEPT ![e] = [k EXCEPT !.pc = label, !.number = n]]
    BY <1>1 DEF EvalBecomes
  <1>. QED
    BY <1>1, <1>3, <1>4, <1>5, EvalGoesWhenSet

\* Its place and its version.
LEMMA EvalGoesById ==
    ASSUME EvalsConsistent, NEW e \in Evals, NEW label, NEW i,
           EvalBecomes(e, [eval[e] EXCEPT !.pc = label, !.id = i])
    PROVE  EvalGoes(e, label, eval[e].number, i, eval[e].outcome, eval[e].found)
  <1>1. PICK k : k = eval[e]
    OBVIOUS
  <1>2. k = [pc |-> k.pc, number |-> k.number, id |-> k.id, outcome |-> k.outcome,
             found |-> k.found]
    BY <1>1 DEF EvalsConsistent, EvalConsistent, EvalShape
  <1>3. PICK n, o, f : n = k.number /\ o = k.outcome /\ f = k.found
    OBVIOUS
  <1>4. [k EXCEPT !.pc = label, !.id = i] =
            [pc |-> label, number |-> n, id |-> i, outcome |-> o, found |-> f]
    <2>1. PICK r : r = [k EXCEPT !.pc = label, !.id = i]
      OBVIOUS
    <2>2. DOMAIN r = {"pc", "number", "id", "outcome", "found"}
      BY <1>2, <1>3, <2>1
    <2>3. r.pc = label /\ r.number = n /\ r.id = i /\ r.outcome = o /\ r.found = f
      BY <1>2, <1>3, <2>1
    <2>4. r = [z \in {"pc", "number", "id", "outcome", "found"} |-> r[z]]
      BY <2>1, <2>2
    <2>. QED
      BY <2>1, <2>3, <2>4
  <1>5. eval' = [eval EXCEPT ![e] = [k EXCEPT !.pc = label, !.id = i]]
    BY <1>1 DEF EvalBecomes
  <1>. QED
    BY <1>1, <1>3, <1>4, <1>5, EvalGoesWhenSet

\* Its place and its outcome.
LEMMA EvalGoesByOutcome ==
    ASSUME EvalsConsistent, NEW e \in Evals, NEW label, NEW o,
           EvalBecomes(e, [eval[e] EXCEPT !.pc = label, !.outcome = o])
    PROVE  EvalGoes(e, label, eval[e].number, eval[e].id, o, eval[e].found)
  <1>1. PICK k : k = eval[e]
    OBVIOUS
  <1>2. k = [pc |-> k.pc, number |-> k.number, id |-> k.id, outcome |-> k.outcome,
             found |-> k.found]
    BY <1>1 DEF EvalsConsistent, EvalConsistent, EvalShape
  <1>3. PICK n, i, f : n = k.number /\ i = k.id /\ f = k.found
    OBVIOUS
  <1>4. [k EXCEPT !.pc = label, !.outcome = o] =
            [pc |-> label, number |-> n, id |-> i, outcome |-> o, found |-> f]
    <2>1. PICK r : r = [k EXCEPT !.pc = label, !.outcome = o]
      OBVIOUS
    <2>2. DOMAIN r = {"pc", "number", "id", "outcome", "found"}
      BY <1>2, <1>3, <2>1
    <2>3. r.pc = label /\ r.number = n /\ r.id = i /\ r.outcome = o /\ r.found = f
      BY <1>2, <1>3, <2>1
    <2>4. r = [z \in {"pc", "number", "id", "outcome", "found"} |-> r[z]]
      BY <2>1, <2>2
    <2>. QED
      BY <2>1, <2>3, <2>4
  <1>5. eval' = [eval EXCEPT ![e] = [k EXCEPT !.pc = label, !.outcome = o]]
    BY <1>1 DEF EvalBecomes
  <1>. QED
    BY <1>1, <1>3, <1>4, <1>5, EvalGoesWhenSet

\* Its place and the summary it found.
LEMMA EvalGoesByFound ==
    ASSUME EvalsConsistent, NEW e \in Evals, NEW label, NEW f,
           EvalBecomes(e, [eval[e] EXCEPT !.pc = label, !.found = f])
    PROVE  EvalGoes(e, label, eval[e].number, eval[e].id, eval[e].outcome, f)
  <1>1. PICK k : k = eval[e]
    OBVIOUS
  <1>2. k = [pc |-> k.pc, number |-> k.number, id |-> k.id, outcome |-> k.outcome,
             found |-> k.found]
    BY <1>1 DEF EvalsConsistent, EvalConsistent, EvalShape
  <1>3. PICK n, i, o : n = k.number /\ i = k.id /\ o = k.outcome
    OBVIOUS
  <1>4. [k EXCEPT !.pc = label, !.found = f] =
            [pc |-> label, number |-> n, id |-> i, outcome |-> o, found |-> f]
    <2>1. PICK r : r = [k EXCEPT !.pc = label, !.found = f]
      OBVIOUS
    <2>2. DOMAIN r = {"pc", "number", "id", "outcome", "found"}
      BY <1>2, <1>3, <2>1
    <2>3. r.pc = label /\ r.number = n /\ r.id = i /\ r.outcome = o /\ r.found = f
      BY <1>2, <1>3, <2>1
    <2>4. r = [z \in {"pc", "number", "id", "outcome", "found"} |-> r[z]]
      BY <2>1, <2>2
    <2>. QED
      BY <2>1, <2>3, <2>4
  <1>5. eval' = [eval EXCEPT ![e] = [k EXCEPT !.pc = label, !.found = f]]
    BY <1>1 DEF EvalBecomes
  <1>. QED
    BY <1>1, <1>3, <1>4, <1>5, EvalGoesWhenSet

\* Places before the version is added, which no call returns to.
Early == {"idle", "count", "insert"}

\* No more versions were added than there are registrations.
LEMMA AddedIsFinite ==
    ASSUME EvalsConsistent
    PROVE  IsFiniteSet(Added) /\ Cardinality(Added) \in Nat
           /\ Cardinality(Added) <= Cardinality(Registers)
  <1>1. Added \subseteq Registers
    BY DEF Added
  <1>. QED
    BY <1>1, PromptAssumption, FS_Subset, FS_CardinalityType

\* A move of one evaluation, which adds no version.
LEMMA EvalKeeps ==
    ASSUME EvalsConsistent, NEW e \in Evals, NEW label \in EvalPlaces, NEW number, NEW id,
           NEW outcome, NEW found, EvalGoes(e, label, number, id, outcome, found),
           Len(versions) \in Nat, UNCHANGED versions,
           label = "insert" => number \in 1..Len(versions) + 1,
           label \in {"detect", "run", "select", "persist"} => id \in Ids,
           label \in {"select", "persist"} => outcome \in Outcomes,
           label = "persist" /\ found # Absent => summary'[id] # Absent,
           \A j \in Ids : summary[j] # Absent => summary'[j] # Absent,
           label \in Early => eval[e].pc \in Early
    PROVE  EvalsConsistent'
  <1>. USE DEF EvalGoes
  <1>1. EvalConsistent(e)'
    BY DEF EvalConsistent, EvalShape
  <1>2. ASSUME NEW d \in Evals \ {e} PROVE EvalConsistent(d)'
    BY DEF EvalsConsistent, EvalConsistent, EvalShape
  <1>3. Added \subseteq Added' /\ Added' \subseteq Registers
    <2>1. \A g \in Added : g \in Evals /\ (g = e \/ eval'[g] = eval[g])
      BY DEF Added, Evals
    <2>2. e \in Added => label \notin Early
      BY DEF Added, Early
    <2>. QED
      BY <2>1, <2>2 DEF Added, Early
  <1>4. IsFiniteSet(Added')
    BY <1>3, PromptAssumption, FS_Subset
  <1>5. Cardinality(Added) <= Cardinality(Added') /\ Cardinality(Added') \in Nat
    BY <1>3, <1>4, FS_Subset, FS_CardinalityType
  <1>6. Len(versions)' <= Cardinality(Added)'
    BY <1>5, AddedIsFinite DEF EvalsConsistent
  <1>. QED
    BY <1>1, <1>2, <1>6 DEF EvalsConsistent

\* What a step of an evaluation leaves alone.
EvalQuiet ==
    UNCHANGED <<versions, summary, suites, promote, clear, pointers, steady, scope>>

\* Such a move keeps the whole invariant.
LEMMA EvalQuietKeeps ==
    ASSUME PromptIInv, EvalQuiet, EvalsConsistent'
    PROVE  PromptIInv'
  <1>1. /\ PromptFrame' /\ Registered' /\ Table(aliases)' /\ AliasesNameVersions'
        /\ ProductionIsScored'
    BY DEF PromptIInv, EvalQuiet, pointers, PromptFrame, Registered, Table,
           AliasesNameVersions, ProductionIsScored, production, Named, Alias
  <1>2. PromotesConsistent'
    <2>1. \A p \in Promotes : PromoteConsistent(p)'
      BY DEF PromptIInv, EvalQuiet, pointers, PromotesConsistent, PromoteConsistent,
             PromoteShape, Named, Alias
    <2>2. \A p \in Promotes : GateConsistent(p)'
      BY DEF PromptIInv, EvalQuiet, pointers, PromotesConsistent, GateConsistent,
             Passed, Alias
    <2>. QED
      BY <2>1, <2>2 DEF PromptIInv, EvalQuiet, PromotesConsistent
  <1>. QED
    BY <1>1, <1>2 DEF PromptIInv

\* There are no more versions than ids.
LEMMA LengthIsNat ==
    ASSUME PromptIInv
    PROVE  Len(versions) \in Nat /\ 1..Len(versions) \subseteq Ids
  <1>1. Len(versions) \in Nat
    BY DEF PromptIInv, Registered
  <1>2. Len(versions) <= Cardinality(Registers)
    BY <1>1, AddedIsFinite, IdsAre DEF PromptIInv, EvalsConsistent
  <1>. QED
    BY <1>1, <1>2, IdsAre

\* A registration finds its content, or goes on to count.
LEMMA FindExistingKeeps ==
    ASSUME PromptIInv, NEW g \in Registers, FindExisting(g)
    PROVE  PromptIInv'
  <1>1. EvalQuiet /\ g \in Evals /\ EvalsConsistent /\ Len(versions) \in Nat
    BY LengthIsNat DEF FindExisting, EvalQuiet, bounds, Evals, PromptIInv
  <1>2. eval[g].pc \in Early
    BY DEF FindExisting, Early
  <1>3. \/ EvalStep(g, "count")
        \/ \E i : EvalBecomes(g, [eval[g] EXCEPT !.pc = "returned", !.id = i])
    BY DEF FindExisting, EvalStep, EvalBecomes
  <1>4. EvalsConsistent'
    <2>1. CASE EvalStep(g, "count")
      <3>1. EvalGoes(g, "count", eval[g].number, eval[g].id, eval[g].outcome, eval[g].found)
        BY <1>1, <2>1, EvalGoesByLabel
      <3>2. "count" \in EvalPlaces
        BY DEF EvalPlaces
      <3>. QED
        BY <1>1, <1>2, <3>1, <3>2, EvalKeeps DEF EvalQuiet
    <2>2. ASSUME NEW i, EvalBecomes(g, [eval[g] EXCEPT !.pc = "returned", !.id = i])
          PROVE  EvalsConsistent'
      <3>1. EvalGoes(g, "returned", eval[g].number, i, eval[g].outcome, eval[g].found)
        BY <1>1, <2>2, EvalGoesById
      <3>2. "returned" \in EvalPlaces /\ "returned" \notin Early
        BY DEF EvalPlaces, Early
      <3>. QED
        BY <1>1, <3>1, <3>2, EvalKeeps DEF EvalQuiet
    <2>. QED
      BY <1>3, <2>1, <2>2
  <1>. QED
    BY <1>1, <1>4, EvalQuietKeeps

\* The count is at most one more than the versions there are.
LEMMA CountVersionsKeeps ==
    ASSUME PromptIInv, NEW g \in Registers, CountVersions(g)
    PROVE  PromptIInv'
  <1>1. EvalQuiet /\ g \in Evals /\ EvalsConsistent /\ Len(versions) \in Nat
    BY LengthIsNat DEF CountVersions, EvalQuiet, bounds, Evals, PromptIInv
  <1>2. eval[g].pc \in Early
    BY DEF CountVersions, Early
  <1>3. EvalGoes(g, "insert", Len(versions) + 1, eval[g].id, eval[g].outcome, eval[g].found)
    BY <1>1, EvalGoesByNumber DEF CountVersions
  <1>4. "insert" \in EvalPlaces /\ Len(versions) + 1 \in 1..Len(versions) + 1
    BY <1>1 DEF EvalPlaces
  <1>5. EvalsConsistent'
    BY <1>1, <1>2, <1>3, <1>4, EvalKeeps DEF EvalQuiet
  <1>. QED
    BY <1>1, <1>5, EvalQuietKeeps

\* A step that only moves an evaluation past the registration.
LEMMA EvalStepKeeps ==
    ASSUME PromptIInv, NEW e \in Evals, NEW label \in EvalPlaces \ Early, EvalStep(e, label),
           label \notin {"detect", "select", "persist"}, EvalQuiet,
           label = "run" => eval[e].pc = "detect"
    PROVE  PromptIInv'
  <1>1. EvalsConsistent /\ Len(versions) \in Nat
    BY LengthIsNat DEF PromptIInv
  <1>2. EvalGoes(e, label, eval[e].number, eval[e].id, eval[e].outcome, eval[e].found)
    BY <1>1, EvalGoesByLabel
  <1>3. label = "run" => eval[e].id \in Ids
    BY <1>1 DEF EvalsConsistent, EvalConsistent
  <1>4. EvalsConsistent'
    BY <1>1, <1>2, <1>3, EvalKeeps DEF EvalQuiet, Early
  <1>. QED
    BY <1>4, EvalQuietKeeps

\* A rerun is of some version.
LEMMA StartRerunKeeps ==
    ASSUME PromptIInv, NEW e \in Evals, StartRerun(e)
    PROVE  PromptIInv'
  <1>1. EvalQuiet /\ EvalsConsistent /\ Len(versions) \in Nat
    BY LengthIsNat DEF StartRerun, EvalQuiet, bounds, PromptIInv
  <1>2. PICK i \in Ids : EvalBecomes(e, [eval[e] EXCEPT !.pc = "run", !.id = i])
    BY LengthIsNat DEF StartRerun
  <1>3. EvalGoes(e, "run", eval[e].number, i, eval[e].outcome, eval[e].found)
    BY <1>1, <1>2, EvalGoesById
  <1>4. "run" \in EvalPlaces /\ "run" \notin Early
    BY DEF EvalPlaces, Early
  <1>5. EvalsConsistent'
    BY <1>1, <1>3, <1>4, EvalKeeps DEF EvalQuiet
  <1>. QED
    BY <1>1, <1>5, EvalQuietKeeps

\* The suite gives an outcome, or is gone.
LEMMA RunSuiteKeeps ==
    ASSUME PromptIInv, NEW e \in Evals, RunSuite(e)
    PROVE  PromptIInv'
  <1>1. EvalQuiet /\ EvalsConsistent /\ Len(versions) \in Nat
    BY LengthIsNat DEF RunSuite, EvalQuiet, bounds, PromptIInv
  <1>2. CASE EvalStep(e, Failed(e))
    <2>1. Failed(e) \in EvalPlaces \ Early /\ Failed(e) \notin {"detect", "run", "select", "persist"}
      BY DEF Failed, EvalPlaces, Early
    <2>. QED
      BY <1>1, <1>2, <2>1, EvalStepKeeps
  <1>3. ASSUME NEW o \in Outcomes,
               EvalBecomes(e, [eval[e] EXCEPT !.pc = "select", !.outcome = o])
        PROVE  PromptIInv'
    <2>1. EvalGoes(e, "select", eval[e].number, eval[e].id, o, eval[e].found)
      BY <1>1, <1>3, EvalGoesByOutcome
    <2>2. "select" \in EvalPlaces /\ "select" \notin Early /\ eval[e].id \in Ids
      BY <1>1 DEF EvalPlaces, Early, RunSuite, EvalsConsistent, EvalConsistent
    <2>3. EvalsConsistent'
      BY <1>1, <2>1, <2>2, EvalKeeps DEF EvalQuiet
    <2>. QED
      BY <1>1, <2>3, EvalQuietKeeps
  <1>. QED
    BY <1>2, <1>3 DEF RunSuite

\* The outcome stays while the summary is looked up.
LEMMA SelectSummaryKeeps ==
    ASSUME PromptIInv, NEW e \in Evals, SelectSummary(e)
    PROVE  PromptIInv'
  <1>1. EvalQuiet /\ EvalsConsistent /\ Len(versions) \in Nat
    BY LengthIsNat DEF SelectSummary, EvalQuiet, bounds, PromptIInv
  <1>2. PICK f : /\ EvalBecomes(e, [eval[e] EXCEPT !.pc = "persist", !.found = f])
                 /\ f = summary[eval[e].id]
    BY DEF SelectSummary
  <1>3. EvalGoes(e, "persist", eval[e].number, eval[e].id, eval[e].outcome, f)
    BY <1>1, <1>2, EvalGoesByFound
  <1>4. /\ "persist" \in EvalPlaces /\ "persist" \notin Early
        /\ eval[e].outcome \in Outcomes /\ eval[e].id \in Ids
    BY DEF EvalPlaces, Early, SelectSummary, PromptIInv, EvalsConsistent, EvalConsistent
  <1>5. EvalsConsistent'
    BY <1>1, <1>2, <1>3, <1>4, EvalKeeps DEF EvalQuiet
  <1>. QED
    BY <1>1, <1>5, EvalQuietKeeps

\* A runner that raises ends the evaluation.
LEMMA RunnerRaisesKeeps ==
    ASSUME PromptIInv, NEW e \in Evals, RunnerRaises(e)
    PROVE  PromptIInv'
  <1>1. EvalQuiet /\ EvalStep(e, Failed(e))
    BY DEF RunnerRaises, EvalQuiet
  <1>2. Failed(e) \in EvalPlaces \ Early /\ Failed(e) \notin {"detect", "run", "select", "persist"}
    BY DEF Failed, EvalPlaces, Early
  <1>. QED
    BY <1>1, <1>2, EvalStepKeeps

\* What was added goes on to the suite, if there is one.
LEMMA EvalOnDetectionKeeps ==
    ASSUME PromptIInv, NEW g \in Registers, EvalOnDetection(g)
    PROVE  PromptIInv'
  <1>1. EvalQuiet /\ g \in Evals /\ eval[g].pc = "detect"
    BY DEF EvalOnDetection, EvalQuiet, bounds, Evals
  <1>2. EvalStep(g, "run") \/ EvalStep(g, "returned")
    BY DEF EvalOnDetection
  <1>3. {"run", "returned"} \subseteq EvalPlaces \ Early
    BY DEF EvalPlaces, Early
  <1>. QED
    BY <1>1, <1>2, <1>3, EvalStepKeeps

\* A version is added: one more registration has added, and its number is at
\* most its id.
LEMMA InsertVersionKeeps ==
    ASSUME PromptIInv, NEW g \in Registers, InsertVersion(g)
    PROVE  PromptIInv'
  <1>1. PICK N \in Nat : N = Len(versions)
    BY LengthIsNat
  <1>2. /\ g \in Evals /\ EvalsConsistent /\ eval[g].pc = "insert"
        /\ UNCHANGED <<summary, suites, promote, clear, pointers, steady, scope>>
        /\ versions' = Append(versions, [content |-> scope.content[g],
                                         number |-> eval[g].number])
        /\ EvalBecomes(g, [eval[g] EXCEPT !.pc = "detect", !.id = Len(versions) + 1])
    BY DEF InsertVersion, bounds, Evals, PromptIInv
  <1>3. EvalGoes(g, "detect", eval[g].number, N + 1, eval[g].outcome, eval[g].found)
    BY <1>1, <1>2, EvalGoesById
  <1>4. PICK n : n = eval[g].number /\ n \in 1..N + 1
    BY <1>1, <1>2 DEF EvalsConsistent, EvalConsistent
  <1>5. PICK c : c = scope.content[g] /\ c \in Range(scope.content)
    BY PromptAssumption DEF PromptIInv, PromptFrame, Range
  <1>6. /\ versions' = Append(versions, [content |-> c, number |-> n])
        /\ versions \in Seq([content : Range(scope.content), number : Nat])
    BY <1>2, <1>4, <1>5 DEF PromptIInv, Registered
  <1>7. /\ versions' \in Seq([content : Range(scope.content), number : Nat])
        /\ Len(versions') = N + 1 /\ versions'[N + 1].number = n
        /\ \A i \in 1..N : versions'[i] = versions[i]
    BY <1>1, <1>4, <1>5, <1>6
  <1>8. Registered'
    <2>1. ASSUME NEW i \in 1..N + 1 PROVE versions'[i].number \in 1..i
      <3>1. CASE i = N + 1
        BY <1>4, <1>7, <3>1
      <3>2. CASE i \in 1..N
        BY <1>1, <1>7, <3>2 DEF PromptIInv, Registered
      <3>. QED
        BY <3>1, <3>2
    <2>. QED
      BY <1>2, <1>7, <2>1 DEF Registered
  <1>9. EvalsConsistent'
    <2>. USE DEF EvalGoes
    <2>2. ASSUME NEW d \in Evals \ {g} PROVE EvalConsistent(d)'
      <3>1. eval'[d] = eval[d] /\ EvalConsistent(d)
        BY <1>2, <1>3 DEF EvalsConsistent
      <3>2. eval[d].number \in 1..N + 1 => eval[d].number \in 1..(N + 1) + 1
        OBVIOUS
      <3>. QED
        BY <1>1, <1>2, <1>7, <3>1, <3>2 DEF EvalConsistent, EvalShape
    <2>3. Added' = Added \union {g} /\ g \notin Added
      <3>1. eval'[g].pc = "detect"
        BY <1>3
      <3>2. \A d \in Registers \ {g} : eval'[d] = eval[d]
        BY <1>3 DEF Evals
      <3>. QED
        BY <1>2, <3>1, <3>2 DEF Added
    <2>4. Cardinality(Added') = Cardinality(Added) + 1
      BY <2>3, <1>2, AddedIsFinite, FS_AddElement
    <2>5. Len(versions)' <= Cardinality(Added)'
      BY <1>1, <1>2, <1>7, <2>4, AddedIsFinite DEF EvalsConsistent
    <2>6. N + 1 \in Ids
      <3>1. Added' \subseteq Registers
        BY DEF Added
      <3>2. Cardinality(Added') <= Cardinality(Registers) /\ Cardinality(Added') \in Nat
        BY <3>1, PromptAssumption, FS_Subset, FS_CardinalityType
      <3>. QED
        BY <1>7, <2>5, <3>2, IdsAre
    <2>1. EvalConsistent(g)'
      BY <1>3, <2>6 DEF EvalConsistent, EvalShape, EvalPlaces
    <2>. QED
      BY <1>3, <2>1, <2>2, <2>5 DEF EvalsConsistent
  <1>10. PromptFrame' /\ Table(aliases)' /\ ProductionIsScored'
    BY <1>2 DEF PromptIInv, pointers, PromptFrame, Table, ProductionIsScored, production,
                Named, Alias
  <1>11. \A i \in 1..Len(versions) : i \in 1..Len(versions')
    BY <1>1, <1>7
  <1>12. AliasesNameVersions'
    BY <1>2, <1>11 DEF PromptIInv, pointers, AliasesNameVersions
  <1>13. PromotesConsistent'
    <2>1. ASSUME NEW p \in Promotes PROVE PromoteConsistent(p)'
      <3>1. PromoteConsistent(p)
        BY DEF PromptIInv, PromotesConsistent
      <3>. QED
        BY <1>2, <1>11, <3>1 DEF pointers, PromoteConsistent, PromoteShape, Named, Alias
    <2>2. \A p \in Promotes : GateConsistent(p)'
      BY <1>2 DEF PromptIInv, pointers, PromotesConsistent, GateConsistent,
                  Passed, Alias
    <2>. QED
      BY <1>2, <2>1, <2>2 DEF PromptIInv, PromotesConsistent
  <1>. QED
    BY <1>8, <1>9, <1>10, <1>12, <1>13 DEF PromptIInv

\* What is named is a version.
LEMMA NamedIsVersion ==
    ASSUME PromptIInv, NEW a
    PROVE  Named(a) = Absent \/ Named(a) \in 1..Len(versions)
  <1>1. Table(aliases)
    BY DEF PromptIInv
  <1>. QED
    BY <1>1, RowOrNone DEF PromptIInv, AliasesNameVersions, Named

\* A summary is stored: what was scored stays scored, and the promotions under
\* way lose the version from what is steady for them.
LEMMA PersistSummaryKeeps ==
    ASSUME PromptIInv, NEW e \in Evals, PersistSummary(e)
    PROVE  PromptIInv'
  <1>1. EvalsConsistent /\ Len(versions) \in Nat /\ 1..Len(versions) \subseteq Ids
    BY LengthIsNat DEF PromptIInv
  <1>2. CASE EvalStep(e, Failed(e)) /\ UNCHANGED <<summary, steady>>
    <2>1. EvalQuiet
      BY <1>2 DEF PersistSummary, EvalQuiet, bounds
    <2>2. Failed(e) \in EvalPlaces \ Early /\ Failed(e) \notin {"detect", "run", "select", "persist"}
      BY DEF Failed, EvalPlaces, Early
    <2>. QED
      BY <1>2, <2>1, <2>2, EvalStepKeeps
  <1>3. CASE Summarise(e, eval[e].id) /\ EvalStep(e, "returned")
    <2>1. PICK i, o : i = eval[e].id /\ o = Written(eval[e].found, summary[i], eval[e].outcome)
      OBVIOUS
    <2>2. o \in [Columns -> Nat] /\ o # Absent
      <3>1. /\ eval[e].outcome \in [Columns -> Nat] /\ i \in Ids
            /\ eval[e].found # Absent => summary[i] \in [Columns -> Nat]
        BY <2>1, PromptAssumption
           DEF PersistSummary, PromptIInv, PromptFrame, EvalsConsistent, EvalConsistent
      <3>2. o \in [Columns -> Nat]
        BY <2>1, <3>1 DEF Written
      <3>. QED
        BY <3>2, PromptAssumption
    <2>3. /\ summary' = [summary EXCEPT ![i] = o]
          /\ steady' = [p \in Promotes |-> steady[p] \ {i}]
          /\ UNCHANGED <<versions, suites, promote, clear, pointers, scope>>
      BY <1>3, <2>1 DEF Summarise, PersistSummary, bounds
    <2>4. summary \in [Ids -> [Columns -> Nat] \union {Absent}]
      BY DEF PromptIInv, PromptFrame
    <2>5. \A j \in Ids : /\ summary[j] # Absent => summary'[j] # Absent
                         /\ j # i => summary'[j] = summary[j]
      BY <2>2, <2>3, <2>4
    <2>6. PromptFrame'
      BY <2>2, <2>3 DEF PromptIInv, PromptFrame, pointers
    <2>7. EvalsConsistent'
      <3>1. EvalGoes(e, "returned", eval[e].number, eval[e].id, eval[e].outcome, eval[e].found)
        BY <1>1, <1>3, EvalGoesByLabel
      <3>2. "returned" \in EvalPlaces /\ "returned" \notin Early
        BY DEF EvalPlaces, Early
      <3>. QED
        BY <1>1, <2>3, <2>5, <3>1, <3>2, EvalKeeps
    <2>8. Registered' /\ Table(aliases)' /\ AliasesNameVersions'
      BY <2>3 DEF PromptIInv, pointers, Registered, Table, AliasesNameVersions
    <2>9. ProductionIsScored'
      <3>1. production = Absent \/ production \in Ids
        BY <1>1, NamedIsVersion DEF production
      <3>2. production' = production
        BY <2>3 DEF pointers, production, Named
      <3>. QED
        BY <2>3, <2>5, <3>1, <3>2 DEF PromptIInv, pointers, ProductionIsScored, Alias
    <2>10. ASSUME NEW p \in Promotes PROVE PromoteConsistent(p)' /\ GateConsistent(p)'
      <3>1. PromoteConsistent(p) /\ GateConsistent(p)
        BY DEF PromptIInv, PromotesConsistent
      <3>2. steady'[p] = steady[p] \ {i} /\ steady[p] \subseteq {j \in Ids : summary[j] # Absent}
        BY <2>3, <3>1 DEF PromoteConsistent
      <3>3. steady'[p] \subseteq {j \in Ids : summary'[j] # Absent}
        BY <2>5, <3>2
      <3>4. PromoteConsistent(p)'
        BY <2>3, <3>1, <3>3 DEF pointers, PromoteConsistent, PromoteShape, Named, Alias
      <3>5. \A j \in steady'[p] : j \in steady[p] /\ summary'[j] = summary[j]
        BY <2>5, <3>2
      <3>6. promote[p].pc # "idle" => promote[p].id \in Ids
        BY <1>1, <3>1 DEF PromoteConsistent
      <3>7. Passed(p) => Passed(p)'
        BY <2>3, <3>5 DEF pointers, Passed
      <3>8. promote[p].pc # "idle" /\ summary[promote[p].id] # Absent
               => summary'[promote[p].id] # Absent
        BY <2>5, <3>6
      <3>9. promote'[p] = promote[p] /\ served'[p] = served[p] /\ Alias(p)' = Alias(p)
            /\ UNCHANGED ungated
        BY <2>3 DEF pointers, Alias
      <3>10. GateConsistent(p)'
        BY <3>1, <3>5, <3>7, <3>8, <3>9 DEF GateConsistent
      <3>. QED
        BY <3>4, <3>10
    <2>11. PromotesConsistent'
      BY <2>3, <2>10 DEF PromptIInv, PromotesConsistent
    <2>. QED
      BY <2>6, <2>7, <2>8, <2>9, <2>11 DEF PromptIInv
  <1>. QED
    BY <1>2, <1>3 DEF PersistSummary

-----------------------------------------------------------------------------
\* Promotions.
\* The promotion p becomes the given record, and the others stay.
PromoteGoes(p, label, id, current, candidate, row, loaded) ==
    /\ promote'[p] = [pc |-> label, id |-> id, current |-> current,
                      candidate |-> candidate, row |-> row, loaded |-> loaded]
    /\ promote' = [q \in Promotes |-> promote'[q]]
    /\ \A q \in Promotes \ {p} : promote'[q] = promote[q]

\* The forms a promotion's assignment takes in the model, field by field.
LEMMA PromoteGoesWhenSet ==
    ASSUME PromotesConsistent, NEW p \in Promotes, NEW label, NEW id, NEW current,
           NEW candidate, NEW row, NEW loaded,
           promote' = [promote EXCEPT ![p] =
               [pc |-> label, id |-> id, current |-> current, candidate |-> candidate,
                row |-> row, loaded |-> loaded]]
    PROVE  PromoteGoes(p, label, id, current, candidate, row, loaded)
  BY DEF PromotesConsistent, PromoteGoes

\* Only its place changes.
LEMMA PromoteGoesByLabel ==
    ASSUME PromotesConsistent, NEW p \in Promotes, NEW label, PromoteTo(p, label)
    PROVE  PromoteGoes(p, label, promote[p].id, promote[p].current, promote[p].candidate,
                       promote[p].row, promote[p].loaded)
  <1>1. PICK k : k = promote[p]
    OBVIOUS
  <1>2. k = [pc |-> k.pc, id |-> k.id, current |-> k.current, candidate |-> k.candidate,
             row |-> k.row, loaded |-> k.loaded]
    BY <1>1 DEF PromotesConsistent, PromoteConsistent, PromoteShape
  <1>3. PICK i, c, d, r, l : /\ i = k.id /\ c = k.current /\ d = k.candidate
                             /\ r = k.row /\ l = k.loaded
    OBVIOUS
  <1>4. [k EXCEPT !.pc = label] =
            [pc |-> label, id |-> i, current |-> c, candidate |-> d, row |-> r, loaded |-> l]
    BY <1>2, <1>3
  <1>5. promote' = [promote EXCEPT ![p] = [k EXCEPT !.pc = label]]
    BY <1>1 DEF PromoteTo
  <1>. QED
    BY <1>1, <1>3, <1>4, <1>5, PromoteGoesWhenSet

\* Its place and its version.
LEMMA PromoteGoesById ==
    ASSUME PromotesConsistent, NEW p \in Promotes, NEW label, NEW i,
           PromoteBecomes(p, [promote[p] EXCEPT !.pc = label, !.id = i])
    PROVE  PromoteGoes(p, label, i, promote[p].current, promote[p].candidate,
                       promote[p].row, promote[p].loaded)
  <1>1. PICK k : k = promote[p]
    OBVIOUS
  <1>2. k = [pc |-> k.pc, id |-> k.id, current |-> k.current, candidate |-> k.candidate,
             row |-> k.row, loaded |-> k.loaded]
    BY <1>1 DEF PromotesConsistent, PromoteConsistent, PromoteShape
  <1>3. PICK c, d, r, l : c = k.current /\ d = k.candidate /\ r = k.row /\ l = k.loaded
    OBVIOUS
  <1>4. [k EXCEPT !.pc = label, !.id = i] =
            [pc |-> label, id |-> i, current |-> c, candidate |-> d, row |-> r, loaded |-> l]
    <2>1. PICK m : m = [k EXCEPT !.pc = label, !.id = i]
      OBVIOUS
    <2>2. DOMAIN m = {"pc", "id", "current", "candidate", "row", "loaded"}
      BY <1>2, <1>3, <2>1
    <2>3. /\ m.pc = label /\ m.id = i /\ m.current = c /\ m.candidate = d
          /\ m.row = r /\ m.loaded = l
      BY <1>2, <1>3, <2>1
    <2>4. m = [z \in {"pc", "id", "current", "candidate", "row", "loaded"} |-> m[z]]
      BY <2>1, <2>2
    <2>. QED
      BY <2>1, <2>3, <2>4
  <1>5. promote' = [promote EXCEPT ![p] = [k EXCEPT !.pc = label, !.id = i]]
    BY <1>1 DEF PromoteBecomes
  <1>. QED
    BY <1>1, <1>3, <1>4, <1>5, PromoteGoesWhenSet

\* Its place and what production named.
LEMMA PromoteGoesByCurrent ==
    ASSUME PromotesConsistent, NEW p \in Promotes, NEW label, NEW c,
           PromoteBecomes(p, [promote[p] EXCEPT !.pc = label, !.current = c])
    PROVE  PromoteGoes(p, label, promote[p].id, c, promote[p].candidate,
                       promote[p].row, promote[p].loaded)
  <1>1. PICK k : k = promote[p]
    OBVIOUS
  <1>2. k = [pc |-> k.pc, id |-> k.id, current |-> k.current, candidate |-> k.candidate,
             row |-> k.row, loaded |-> k.loaded]
    BY <1>1 DEF PromotesConsistent, PromoteConsistent, PromoteShape
  <1>3. PICK i, d, r, l : i = k.id /\ d = k.candidate /\ r = k.row /\ l = k.loaded
    OBVIOUS
  <1>4. [k EXCEPT !.pc = label, !.current = c] =
            [pc |-> label, id |-> i, current |-> c, candidate |-> d, row |-> r, loaded |-> l]
    <2>1. PICK m : m = [k EXCEPT !.pc = label, !.current = c]
      OBVIOUS
    <2>2. DOMAIN m = {"pc", "id", "current", "candidate", "row", "loaded"}
      BY <1>2, <1>3, <2>1
    <2>3. /\ m.pc = label /\ m.id = i /\ m.current = c /\ m.candidate = d
          /\ m.row = r /\ m.loaded = l
      BY <1>2, <1>3, <2>1
    <2>4. m = [z \in {"pc", "id", "current", "candidate", "row", "loaded"} |-> m[z]]
      BY <2>1, <2>2
    <2>. QED
      BY <2>1, <2>3, <2>4
  <1>5. promote' = [promote EXCEPT ![p] = [k EXCEPT !.pc = label, !.current = c]]
    BY <1>1 DEF PromoteBecomes
  <1>. QED
    BY <1>1, <1>3, <1>4, <1>5, PromoteGoesWhenSet

\* Its place and the summary of its version.
LEMMA PromoteGoesByCandidate ==
    ASSUME PromotesConsistent, NEW p \in Promotes, NEW label, NEW d,
           PromoteBecomes(p, [promote[p] EXCEPT !.pc = label, !.candidate = d])
    PROVE  PromoteGoes(p, label, promote[p].id, promote[p].current, d,
                       promote[p].row, promote[p].loaded)
  <1>1. PICK k : k = promote[p]
    OBVIOUS
  <1>2. k = [pc |-> k.pc, id |-> k.id, current |-> k.current, candidate |-> k.candidate,
             row |-> k.row, loaded |-> k.loaded]
    BY <1>1 DEF PromotesConsistent, PromoteConsistent, PromoteShape
  <1>3. PICK i, c, r, l : i = k.id /\ c = k.current /\ r = k.row /\ l = k.loaded
    OBVIOUS
  <1>4. [k EXCEPT !.pc = label, !.candidate = d] =
            [pc |-> label, id |-> i, current |-> c, candidate |-> d, row |-> r, loaded |-> l]
    <2>1. PICK m : m = [k EXCEPT !.pc = label, !.candidate = d]
      OBVIOUS
    <2>2. DOMAIN m = {"pc", "id", "current", "candidate", "row", "loaded"}
      BY <1>2, <1>3, <2>1
    <2>3. /\ m.pc = label /\ m.id = i /\ m.current = c /\ m.candidate = d
          /\ m.row = r /\ m.loaded = l
      BY <1>2, <1>3, <2>1
    <2>4. m = [z \in {"pc", "id", "current", "candidate", "row", "loaded"} |-> m[z]]
      BY <2>1, <2>2
    <2>. QED
      BY <2>1, <2>3, <2>4
  <1>5. promote' = [promote EXCEPT ![p] = [k EXCEPT !.pc = label, !.candidate = d]]
    BY <1>1 DEF PromoteBecomes
  <1>. QED
    BY <1>1, <1>3, <1>4, <1>5, PromoteGoesWhenSet

\* Its place and its row.
LEMMA PromoteGoesByRow ==
    ASSUME PromotesConsistent, NEW p \in Promotes, NEW label, NEW r,
           PromoteBecomes(p, [promote[p] EXCEPT !.pc = label, !.row = r])
    PROVE  PromoteGoes(p, label, promote[p].id, promote[p].current, promote[p].candidate,
                       r, promote[p].loaded)
  <1>1. PICK k : k = promote[p]
    OBVIOUS
  <1>2. k = [pc |-> k.pc, id |-> k.id, current |-> k.current, candidate |-> k.candidate,
             row |-> k.row, loaded |-> k.loaded]
    BY <1>1 DEF PromotesConsistent, PromoteConsistent, PromoteShape
  <1>3. PICK i, c, d, l : i = k.id /\ c = k.current /\ d = k.candidate /\ l = k.loaded
    OBVIOUS
  <1>4. [k EXCEPT !.pc = label, !.row = r] =
            [pc |-> label, id |-> i, current |-> c, candidate |-> d, row |-> r, loaded |-> l]
    <2>1. PICK m : m = [k EXCEPT !.pc = label, !.row = r]
      OBVIOUS
    <2>2. DOMAIN m = {"pc", "id", "current", "candidate", "row", "loaded"}
      BY <1>2, <1>3, <2>1
    <2>3. /\ m.pc = label /\ m.id = i /\ m.current = c /\ m.candidate = d
          /\ m.row = r /\ m.loaded = l
      BY <1>2, <1>3, <2>1
    <2>4. m = [z \in {"pc", "id", "current", "candidate", "row", "loaded"} |-> m[z]]
      BY <2>1, <2>2
    <2>. QED
      BY <2>1, <2>3, <2>4
  <1>5. promote' = [promote EXCEPT ![p] = [k EXCEPT !.pc = label, !.row = r]]
    BY <1>1 DEF PromoteBecomes
  <1>. QED
    BY <1>1, <1>3, <1>4, <1>5, PromoteGoesWhenSet

\* Its place, its row and the version loaded with the row.
LEMMA PromoteGoesByLoaded ==
    ASSUME PromotesConsistent, NEW p \in Promotes, NEW label, NEW r, NEW l,
           PromoteBecomes(p, [promote[p] EXCEPT !.pc = label, !.row = r, !.loaded = l])
    PROVE  PromoteGoes(p, label, promote[p].id, promote[p].current, promote[p].candidate, r, l)
  <1>1. PICK k : k = promote[p]
    OBVIOUS
  <1>2. k = [pc |-> k.pc, id |-> k.id, current |-> k.current, candidate |-> k.candidate,
             row |-> k.row, loaded |-> k.loaded]
    BY <1>1 DEF PromotesConsistent, PromoteConsistent, PromoteShape
  <1>3. PICK i, c, d : i = k.id /\ c = k.current /\ d = k.candidate
    OBVIOUS
  <1>4. [k EXCEPT !.pc = label, !.row = r, !.loaded = l] =
            [pc |-> label, id |-> i, current |-> c, candidate |-> d, row |-> r, loaded |-> l]
    <2>1. PICK m : m = [k EXCEPT !.pc = label, !.row = r, !.loaded = l]
      OBVIOUS
    <2>2. DOMAIN m = {"pc", "id", "current", "candidate", "row", "loaded"}
      BY <1>2, <1>3, <2>1
    <2>3. /\ m.pc = label /\ m.id = i /\ m.current = c /\ m.candidate = d
          /\ m.row = r /\ m.loaded = l
      BY <1>2, <1>3, <2>1
    <2>4. m = [z \in {"pc", "id", "current", "candidate", "row", "loaded"} |-> m[z]]
      BY <2>1, <2>2
    <2>. QED
      BY <2>1, <2>3, <2>4
  <1>5. promote' = [promote EXCEPT ![p] = [k EXCEPT !.pc = label, !.row = r, !.loaded = l]]
    BY <1>1 DEF PromoteBecomes
  <1>. QED
    BY <1>1, <1>3, <1>4, <1>5, PromoteGoesWhenSet

\* What a step that only moves a promotion leaves alone.
PromoteQuiet ==
    UNCHANGED <<versions, summary, suites, eval, clear, pointers, steady, scope>>

\* A move of one promotion, which changes no table.
LEMMA PromoteQuietKeeps ==
    ASSUME PromptIInv, NEW p \in Promotes, PromoteQuiet,
           promote' = [q \in Promotes |-> promote'[q]],
           \A q \in Promotes \ {p} : promote'[q] = promote[q],
           promote'[p].id = promote[p].id,
           PromoteConsistent(p)', GateConsistent(p)'
    PROVE  PromptIInv'
  <1>. USE DEF PromoteQuiet, pointers
  <1>1. /\ PromptFrame' /\ Registered' /\ Table(aliases)' /\ AliasesNameVersions'
    BY DEF PromptIInv, PromptFrame, Registered, Table, AliasesNameVersions
  <1>2. EvalsConsistent'
    BY DEF PromptIInv, EvalsConsistent, EvalConsistent, EvalShape, Added
  <1>3. ProductionIsScored'
    <2>1. \A q \in Promotes : promote'[q].id = promote[q].id
      OBVIOUS
    <2>2. freed \subseteq Promotes /\ ungated \subseteq Promotes
      BY DEF PromptIInv, PromptFrame
    <2>. QED
      BY <2>1, <2>2 DEF PromptIInv, ProductionIsScored, production, Named, Alias
  <1>4. ASSUME NEW q \in Promotes \ {p} PROVE PromoteConsistent(q)' /\ GateConsistent(q)'
    <2>1. PromoteConsistent(q) /\ GateConsistent(q) /\ promote'[q] = promote[q]
      BY DEF PromptIInv, PromotesConsistent
    <2>2. PromoteConsistent(q)'
      BY <2>1 DEF PromoteConsistent, PromoteShape, Named, Alias
    <2>3. GateConsistent(q)'
      BY <2>1 DEF GateConsistent, Passed, Alias
    <2>. QED
      BY <2>2, <2>3
  <1>5. PromotesConsistent'
    BY <1>4 DEF PromotesConsistent
  <1>. QED
    BY <1>1, <1>2, <1>3, <1>5 DEF PromptIInv

\* A promotion at work has a version.
LEMMA PromotesAVersion ==
    ASSUME PromptIInv, NEW p \in Promotes, promote[p].pc # "idle"
    PROVE  promote[p].id \in 1..Len(versions) /\ promote[p].id \in Ids
  BY LengthIsNat DEF PromptIInv, PromotesConsistent, PromoteConsistent

\* What the gate has found of p when it goes on to the place label.
Through(p, label, current, candidate) ==
    p \notin ungated /\ Alias(p) = Production =>
        /\ label # "refused" => summary[promote[p].id] # Absent
        /\ label \in {"current", "baseline"} /\ promote[p].id \in steady[p]
              => candidate = summary[promote[p].id]
        /\ label = "baseline" => current \in served[p]
        /\ label = "alias" => Passed(p)

\* CheckCandidate, FindCurrent and CompareBaseline: a promotion at the gate.
LEMMA GateStepKeeps ==
    ASSUME PromptIInv, NEW p \in Promotes, PromoteQuiet,
           promote[p].pc \in {"candidate", "current", "baseline"},
           NEW label, NEW current, NEW candidate,
           label \in {"current", "baseline", "alias", "refused"},
           PromoteGoes(p, label, promote[p].id, current, candidate, promote[p].row,
                       promote[p].loaded),
           Through(p, label, current, candidate)
    PROVE  PromptIInv'
  <1>1. PromoteConsistent(p)
    BY DEF PromptIInv, PromotesConsistent
  <1>2. /\ promote'[p].pc = label /\ promote'[p].id = promote[p].id
        /\ promote'[p].candidate = candidate /\ promote'[p].current = current
        /\ PromoteShape(p)'
    BY DEF PromoteGoes, PromoteShape
  <1>3. PromoteConsistent(p)'
    BY <1>1, <1>2 DEF PromoteConsistent, PromotePlaces, PromoteQuiet, pointers, Named, Alias
  <1>4. Passed(p) => Passed(p)'
    BY <1>2 DEF Passed, PromoteQuiet, pointers
  <1>5. GateConsistent(p)'
    BY <1>2, <1>4 DEF Through, GateConsistent, PromoteQuiet, pointers, Alias
  <1>. QED
    BY <1>2, <1>3, <1>5, PromoteQuietKeeps DEF PromoteGoes

\* Past the first look, its version is scored.
LEMMA CheckCandidateKeeps ==
    ASSUME PromptIInv, NEW p \in Promotes, CheckCandidate(p)
    PROVE  PromptIInv'
  <1>1. PICK d, w : /\ d = summary[promote[p].id]
                    /\ w = IF d = Absent THEN "refused" ELSE "current"
    OBVIOUS
  <1>2. /\ promote[p].pc = "candidate" /\ PromoteQuiet /\ PromotesConsistent
        /\ PromoteBecomes(p, [promote[p] EXCEPT !.pc = w, !.candidate = d])
    BY <1>1 DEF CheckCandidate, PromoteQuiet, bounds, PromptIInv
  <1>3. PromoteGoes(p, w, promote[p].id, promote[p].current, d, promote[p].row,
                    promote[p].loaded)
    BY <1>2, PromoteGoesByCandidate
  <1>4. PICK c : c = promote[p].current
    OBVIOUS
  <1>5. PromoteGoes(p, w, promote[p].id, c, d, promote[p].row, promote[p].loaded)
    BY <1>3, <1>4
  <1>6. w \in {"current", "baseline", "alias", "refused"}
    BY <1>1
  <1>7. Through(p, w, c, d)
    BY <1>1 DEF Through
  <1>. QED
    BY <1>2, <1>5, <1>6, <1>7, GateStepKeeps

\* What production names now was named during the promotion.
LEMMA FindCurrentKeeps ==
    ASSUME PromptIInv, NEW p \in Promotes, FindCurrent(p)
    PROVE  PromptIInv'
  <1>1. PICK c, w : /\ c = production
                    /\ w = IF c \in {Absent, promote[p].id} THEN "alias" ELSE "baseline"
    OBVIOUS
  <1>2. /\ promote[p].pc = "current" /\ PromoteQuiet /\ PromotesConsistent
        /\ PromoteBecomes(p, [promote[p] EXCEPT !.pc = w, !.current = c])
    BY <1>1 DEF FindCurrent, PromoteQuiet, bounds, PromptIInv
  <1>3. PromoteGoes(p, w, promote[p].id, c, promote[p].candidate, promote[p].row,
                    promote[p].loaded)
    BY <1>2, PromoteGoesByCurrent
  <1>4. Alias(p) = Production => c \in served[p]
    BY <1>1, <1>2 DEF PromotesConsistent, PromoteConsistent, production
  <1>5. p \notin ungated /\ Alias(p) = Production =>
              /\ summary[promote[p].id] # Absent
              /\ promote[p].id \in steady[p] => promote[p].candidate = summary[promote[p].id]
    BY <1>2 DEF PromotesConsistent, GateConsistent
  <1>6. Alias(p) = Production /\ w = "alias" => Passed(p)
    BY <1>1, <1>4 DEF Passed
  <1>7. PICK d : d = promote[p].candidate
    OBVIOUS
  <1>8. PromoteGoes(p, w, promote[p].id, c, d, promote[p].row, promote[p].loaded)
    BY <1>3, <1>7
  <1>9. w \in {"current", "baseline", "alias", "refused"}
    BY <1>1
  <1>10. Through(p, w, c, d)
    BY <1>4, <1>5, <1>6, <1>7 DEF Through
  <1>. QED
    BY <1>2, <1>8, <1>9, <1>10, GateStepKeeps

\* What the comparison let through does not regress.
LEMMA CompareBaselineKeeps ==
    ASSUME PromptIInv, NEW p \in Promotes, CompareBaseline(p)
    PROVE  PromptIInv'
  <1>1. PICK b, w : /\ b = summary[promote[p].current]
                    /\ w = IF b # Absent /\ Regressed(promote[p].candidate, b)
                           THEN "refused" ELSE "alias"
    OBVIOUS
  <1>2. /\ promote[p].pc = "baseline" /\ PromoteQuiet /\ PromotesConsistent
        /\ PromoteTo(p, w)
    BY <1>1 DEF CompareBaseline, PromoteQuiet, bounds, PromptIInv
  <1>3. PromoteGoes(p, w, promote[p].id, promote[p].current, promote[p].candidate,
                    promote[p].row, promote[p].loaded)
    BY <1>2, PromoteGoesByLabel
  <1>4. p \notin ungated /\ Alias(p) = Production =>
              /\ summary[promote[p].id] # Absent
              /\ promote[p].id \in steady[p] => promote[p].candidate = summary[promote[p].id]
              /\ promote[p].current \in served[p]
    BY <1>2 DEF PromotesConsistent, GateConsistent
  <1>5. steady[p] \subseteq {i \in Ids : summary[i] # Absent}
    BY <1>2 DEF PromotesConsistent, PromoteConsistent
  <1>6. p \notin ungated /\ Alias(p) = Production /\ w = "alias" => Passed(p)
    <2>. SUFFICES ASSUME p \notin ungated, Alias(p) = Production, w = "alias",
                         {promote[p].current, promote[p].id} \subseteq steady[p]
                  PROVE  ~Regressed(summary[promote[p].id], summary[promote[p].current])
      BY <1>4 DEF Passed
    <2>1. b # Absent /\ promote[p].candidate = summary[promote[p].id]
      BY <1>1, <1>4, <1>5
    <2>. QED
      BY <1>1, <2>1
  <1>7. PICK c, d : c = promote[p].current /\ d = promote[p].candidate
    OBVIOUS
  <1>8. PromoteGoes(p, w, promote[p].id, c, d, promote[p].row, promote[p].loaded)
    BY <1>3, <1>7
  <1>9. w \in {"current", "baseline", "alias", "refused"}
    BY <1>1
  <1>10. Through(p, w, c, d)
    BY <1>4, <1>6, <1>7 DEF Through
  <1>. QED
    BY <1>2, <1>8, <1>9, <1>10, GateStepKeeps

\* SelectAlias, ReloadAlias and Refresh, and what did not succeed: a promotion
\* past the gate, with the row it found if it found one.
LEMMA PointerStepKeeps ==
    ASSUME PromptIInv, NEW p \in Promotes, PromoteQuiet, NEW label, NEW row, NEW loaded,
           \/ promote[p].pc \in {"alias", "insert", "reload"}
           \/ label \in {"returned", "failed"} /\ promote[p].pc \in {"update", "refresh"},
           label \in {"insert", "reload", "update", "failed", "returned"},
           PromoteGoes(p, label, promote[p].id, promote[p].current, promote[p].candidate,
                       row, loaded),
           label = "update" => /\ loaded \in served[p]
                               /\ row \in DOMAIN aliases /\ aliases[row].alias = Alias(p),
           label = "returned" => promote[p].pc = "refresh"
    PROVE  PromptIInv'
  <1>1. PromoteConsistent(p) /\ GateConsistent(p)
    BY DEF PromptIInv, PromotesConsistent
  <1>2. /\ promote'[p].pc = label /\ promote'[p].id = promote[p].id
        /\ promote'[p].row = row /\ promote'[p].loaded = loaded
        /\ PromoteShape(p)'
    BY DEF PromoteGoes, PromoteShape
  <1>3. PromoteConsistent(p)'
    BY <1>1, <1>2 DEF PromoteConsistent, PromotePlaces, PromoteQuiet, pointers, Named, Alias
  <1>4. Passed(p) => Passed(p)'
    BY <1>2 DEF Passed, PromoteQuiet, pointers
  <1>5. GateConsistent(p)'
    BY <1>1, <1>2, <1>4 DEF GateConsistent, PromoteQuiet, pointers, Alias
  <1>. QED
    BY <1>2, <1>3, <1>5, PromoteQuietKeeps DEF PromoteGoes

\* The row found is the alias's, and what it names was named meanwhile.
LEMMA LoadKeeps ==
    ASSUME PromptIInv, NEW p \in Promotes, PromoteQuiet, NEW otherwise,
           promote[p].pc \in {"alias", "reload"}, otherwise \in {"insert", "failed"},
           Load(p, otherwise)
    PROVE  PromptIInv'
  <1>1. Table(aliases) /\ PromotesConsistent
    BY DEF PromptIInv
  <1>2. CASE RowIn(aliases, Alias(p)) = {}
    <2>1. PromoteTo(p, otherwise)
      BY <1>2 DEF Load, PromoteBecomes, PromoteTo
    <2>2. PromoteGoes(p, otherwise, promote[p].id, promote[p].current, promote[p].candidate,
                      promote[p].row, promote[p].loaded)
      BY <1>1, <2>1, PromoteGoesByLabel
    <2>. QED
      BY <2>2, PointerStepKeeps
  <1>3. CASE RowIn(aliases, Alias(p)) # {}
    <2>1. PICK r, l : r = Max(RowIn(aliases, Alias(p))) /\ l = Named(Alias(p))
      OBVIOUS
    <2>2. PromoteBecomes(p, [promote[p] EXCEPT !.pc = "update", !.row = r, !.loaded = l])
      BY <1>3, <2>1 DEF Load
    <2>3. PromoteGoes(p, "update", promote[p].id, promote[p].current, promote[p].candidate,
                      r, l)
      BY <1>1, <2>2, PromoteGoesByLoaded
    <2>4. r \in DOMAIN aliases /\ aliases[r].alias = Alias(p)
      BY <1>1, <1>3, <2>1, RowOrNone
    <2>5. l \in served[p]
      BY <1>1, <2>1 DEF PromotesConsistent, PromoteConsistent
    <2>. QED
      BY <2>3, <2>4, <2>5, PointerStepKeeps
  <1>. QED
    BY <1>2, <1>3

\* A promotion whose row is gone, or that is over.
LEMMA PointerToKeeps ==
    ASSUME PromptIInv, NEW p \in Promotes, PromoteQuiet, NEW label,
           \/ promote[p].pc = "insert" /\ label = "reload"
           \/ label = "failed" /\ promote[p].pc \in {"update", "refresh"}
           \/ label = "returned" /\ promote[p].pc = "refresh",
           PromoteTo(p, label)
    PROVE  PromptIInv'
  <1>1. PromotesConsistent
    BY DEF PromptIInv
  <1>2. PromoteGoes(p, label, promote[p].id, promote[p].current, promote[p].candidate,
                    promote[p].row, promote[p].loaded)
    BY <1>1, PromoteGoesByLabel
  <1>. QED
    BY <1>2, PointerStepKeeps

\* The first look at the alias's row.
LEMMA SelectAliasKeeps ==
    ASSUME PromptIInv, NEW p \in Promotes, SelectAlias(p)
    PROVE  PromptIInv'
  <1>1. PromoteQuiet /\ promote[p].pc = "alias" /\ Load(p, "insert")
    BY DEF SelectAlias, PromoteQuiet, bounds
  <1>. QED
    BY <1>1, LoadKeeps

\* The second one, after a lost insert.
LEMMA ReloadAliasKeeps ==
    ASSUME PromptIInv, NEW p \in Promotes, ReloadAlias(p)
    PROVE  PromptIInv'
  <1>1. PromoteQuiet /\ promote[p].pc = "reload" /\ Load(p, "failed")
    BY DEF ReloadAlias, PromoteQuiet, bounds
  <1>. QED
    BY <1>1, LoadKeeps

\* The last one, after the change.
LEMMA RefreshKeeps ==
    ASSUME PromptIInv, NEW p \in Promotes, Refresh(p)
    PROVE  PromptIInv'
  <1>1. PromoteQuiet /\ promote[p].pc = "refresh"
    BY DEF Refresh, PromoteQuiet, bounds
  <1>2. PromoteTo(p, "returned") \/ PromoteTo(p, "failed")
    BY DEF Refresh
  <1>. QED
    BY <1>1, <1>2, PointerToKeeps

\* What no step of a promotion or of a clear touches.
Ground == UNCHANGED <<versions, summary, suites, eval, scope>>

\* What does not depend on the aliases stays.
LEMMA GroundKeeps ==
    ASSUME PromptIInv, Ground
    PROVE  Registered' /\ EvalsConsistent'
           /\ (\A p : Alias(p)' = Alias(p))
  BY DEF PromptIInv, Ground, Registered, EvalsConsistent, EvalConsistent, EvalShape, Added, Alias

\* A promotion starts: its alias names something, and it is not gated yet.
LEMMA StartPromotionKeeps ==
    ASSUME PromptIInv, NEW p \in Promotes, StartPromotion(p)
    PROVE  PromptIInv'
  <1>1. PICK i \in 1..Len(versions) :
           PromoteBecomes(p, [promote[p] EXCEPT
             !.pc = IF Holds(p) /\ Alias(p) = Production THEN "candidate" ELSE "alias",
             !.id = i])
    BY DEF StartPromotion
  <1>2. PICK w : w = IF Holds(p) /\ Alias(p) = Production THEN "candidate" ELSE "alias"
    OBVIOUS
  <1>3. /\ promote[p].pc = "idle" /\ Ground /\ PromotesConsistent
        /\ UNCHANGED <<aliases, freed, clear>>
        /\ ungated' = IF Alias(p) = Production /\ ~Holds(p) THEN ungated \union {p}
                      ELSE ungated
        /\ served' = [served EXCEPT ![p] = {Named(Alias(p))}]
        /\ steady' = [steady EXCEPT ![p] = {j \in Ids : summary[j] # Absent}]
    BY DEF StartPromotion, Ground, bounds, PromptIInv
  <1>4. PromoteGoes(p, w, i, promote[p].current, promote[p].candidate, promote[p].row,
                    promote[p].loaded)
    BY <1>1, <1>2, <1>3, PromoteGoesById
  <1>5. /\ promote'[p].pc = w /\ promote'[p].id = i /\ PromoteShape(p)'
        /\ promote' = [q \in Promotes |-> promote'[q]]
        /\ \A q \in Promotes \ {p} : promote'[q] = promote[q]
    BY <1>4 DEF PromoteGoes, PromoteShape
  <1>6. /\ served = [q \in Promotes |-> served[q]] /\ steady = [q \in Promotes |-> steady[q]]
        /\ freed \subseteq Promotes /\ ungated \subseteq Promotes
    BY DEF PromptIInv, PromptFrame
  <1>7. /\ served'[p] = {Named(Alias(p))} /\ steady'[p] = {j \in Ids : summary[j] # Absent}
        /\ \A q \in Promotes \ {p} : served'[q] = served[q] /\ steady'[q] = steady[q]
        /\ served' = [q \in Promotes |-> served'[q]]
        /\ steady' = [q \in Promotes |-> steady'[q]]
    BY <1>3, <1>6
  <1>8. PromptFrame' /\ Table(aliases)' /\ AliasesNameVersions'
    BY <1>3, <1>6, <1>7 DEF PromptIInv, PromptFrame, Ground, Table, AliasesNameVersions
  <1>9. p \notin freed /\ p \notin ungated
    BY <1>3 DEF PromotesConsistent, PromoteConsistent
  <1>10. ProductionIsScored'
    <2>1. \A q \in freed \union ungated : promote'[q].id = promote[q].id
      BY <1>5, <1>6, <1>9
    <2>2. freed' = freed /\ ungated \subseteq ungated'
      BY <1>3
    <2>. QED
      BY <1>3, <2>1, <2>2 DEF PromptIInv, Ground, ProductionIsScored, production, Named, Alias
  <1>11. PromoteConsistent(p)'
    BY <1>2, <1>3, <1>5, <1>7, <1>9 DEF PromoteConsistent, PromotePlaces, Ground, Named, Alias
  <1>12. GateConsistent(p)'
    <2>1. p \notin ungated' /\ Alias(p) = Production => w = "candidate"
      BY <1>2, <1>3
    <2>. QED
      BY <1>2, <1>3, <1>5, <2>1 DEF GateConsistent, Ground, Alias
  <1>13. ASSUME NEW q \in Promotes \ {p} PROVE PromoteConsistent(q)' /\ GateConsistent(q)'
    <2>1. PromoteConsistent(q) /\ GateConsistent(q)
      BY <1>3 DEF PromotesConsistent
    <2>2. PromoteConsistent(q)'
      BY <1>3, <1>5, <1>7, <2>1 DEF PromoteConsistent, PromoteShape, Ground, Named, Alias
    <2>3. GateConsistent(q)'
      BY <1>3, <1>5, <1>7, <2>1 DEF GateConsistent, Passed, Ground, Alias
    <2>. QED
      BY <2>2, <2>3
  <1>14. PromotesConsistent'
    BY <1>5, <1>11, <1>12, <1>13 DEF PromotesConsistent
  <1>. QED
    BY <1>3, <1>8, <1>10, <1>14, GroundKeeps DEF PromptIInv

-----------------------------------------------------------------------------
\* Steps that change the aliases.
LEMMA AliasesKeep ==
    ASSUME PromptIInv, NEW tab, Aliases(tab), Table(tab), Ground, UNCHANGED <<steady, ungated>>,
           \A k \in DOMAIN tab : tab[k].version \in 1..Len(versions),
           freed' \subseteq Promotes,
           clear' = [c \in Clears |-> [pc |-> clear'[c].pc, row |-> clear'[c].row]],
           \A c \in Clears : clear'[c].pc \in {"idle", "delete", "returned", "dead"}
    PROVE  /\ PromptFrame' /\ Table(aliases)' /\ AliasesNameVersions'
           /\ \A q \in Promotes : served'[q] = served[q] \union {NamedIn(tab, Alias(q))}
  <1>1. aliases' = tab /\ served' = [p \in Promotes |-> served[p] \union {NamedIn(tab, Alias(p))}]
    BY DEF Aliases
  <1>2. Table(aliases)'
    BY <1>1 DEF Table
  <1>. QED
    BY <1>1, <1>2 DEF Ground, PromptIInv, PromptFrame, AliasesNameVersions

\* A promotion that such a step is not of.
LEMMA BystanderKeeps ==
    ASSUME PromptIInv, NEW q \in Promotes, Ground, UNCHANGED <<steady, ungated>>,
           promote'[q] = promote[q], served'[q] = served[q] \union {Named(Alias(q))'},
           freed \subseteq freed', q \in freed' => q \in freed \/ promote[q].pc = "update",
           NEW tab, aliases' = tab,
           promote[q].pc = "update" /\ promote[q].row \in DOMAIN aliases =>
               \/ q \in freed'
               \/ promote[q].row \in DOMAIN tab
                  /\ tab[promote[q].row].alias = aliases[promote[q].row].alias
    PROVE  PromoteConsistent(q)' /\ GateConsistent(q)'
  <1>1. PromoteConsistent(q) /\ GateConsistent(q)
    BY DEF PromptIInv, PromotesConsistent
  <1>2. PromoteConsistent(q)'
    BY <1>1 DEF PromoteConsistent, PromoteShape, Ground, Alias
  <1>3. Passed(q) => Passed(q)'
    BY DEF Passed, Ground
  <1>4. GateConsistent(q)'
    BY <1>1, <1>3 DEF GateConsistent, Ground, Alias
  <1>. QED
    BY <1>2, <1>4

\* The alias gets its row, of a version the gate let through; or another
\* promotion was first.
LEMMA InsertAliasKeeps ==
    ASSUME PromptIInv, NEW p \in Promotes, InsertAlias(p)
    PROVE  PromptIInv'
  <1>1. CASE Named(Alias(p)) # Absent
    <2>1. PromoteQuiet /\ promote[p].pc = "insert" /\ PromoteTo(p, "reload")
      BY <1>1 DEF InsertAlias, PromoteQuiet, pointers, bounds
    <2>. QED
      BY <2>1, PointerToKeeps
  <1>2. CASE Named(Alias(p)) = Absent
    <2>1. PICK id, i : id = NextId(aliases) /\ i = promote[p].id
      OBVIOUS
    <2>2. PICK tab : tab = WithRow(aliases, NextId(aliases), [alias |-> Alias(p), version |-> i])
      OBVIOUS
    <2>3. /\ promote[p].pc = "insert" /\ Ground /\ PromotesConsistent /\ Table(aliases)
          /\ UNCHANGED <<clear, freed, ungated, steady>> /\ Aliases(tab)
          /\ PromoteBecomes(p, [promote[p] EXCEPT !.pc = "refresh", !.row = id])
      BY <1>2, <2>1, <2>2 DEF InsertAlias, Ground, bounds, PromptIInv
    <2>4. PromoteGoes(p, "refresh", i, promote[p].current, promote[p].candidate, id,
                      promote[p].loaded)
      BY <2>1, <2>3, PromoteGoesByRow
    <2>5. /\ promote'[p].pc = "refresh" /\ promote'[p].id = i /\ PromoteShape(p)'
          /\ promote' = [q \in Promotes |-> promote'[q]]
          /\ \A q \in Promotes \ {p} : promote'[q] = promote[q]
      BY <2>4 DEF PromoteGoes, PromoteShape
    <2>6. i \in 1..Len(versions) /\ i \in Ids
      BY <2>1, <2>3, PromotesAVersion
    <2>7. \A k \in DOMAIN aliases :
             aliases[k].version \in 1..Len(versions)
      BY DEF PromptIInv, AliasesNameVersions
    <2>18. \A k \in DOMAIN aliases : aliases[k].version # Absent
      BY <2>7, LengthIsNat, IdsAre
    <2>8. PICK a : a = Alias(p)
      OBVIOUS
    <2>9. NamedIn(aliases, a) = Absent /\ tab = WithRow(aliases, NextId(aliases),
                                                        [alias |-> a, version |-> i])
      BY <1>2, <2>2, <2>8 DEF Named
    <2>10. /\ Table(tab) /\ NamedIn(tab, a) = i
           /\ \A b : b # a => NamedIn(tab, b) = NamedIn(aliases, b)
           /\ DOMAIN tab = DOMAIN aliases \union {id} /\ tab[id].version = i
           /\ \A k \in DOMAIN aliases : tab[k] = aliases[k]
      <3>1. /\ Table(tab) /\ NamedIn(tab, a) = i
            /\ \A b : b # a => NamedIn(tab, b) = NamedIn(aliases, b)
            /\ DOMAIN tab = DOMAIN aliases \union {NextId(aliases)}
            /\ tab[NextId(aliases)] = [alias |-> a, version |-> i]
            /\ \A k \in DOMAIN aliases : tab[k] = aliases[k]
        BY <2>3, <2>18, <2>9, RowInserted
      <3>. QED
        BY <2>1, <3>1
    <2>11. \A k \in DOMAIN tab : tab[k].version \in 1..Len(versions)
      BY <2>6, <2>7, <2>10
    <2>12. /\ PromptFrame' /\ Table(aliases)' /\ AliasesNameVersions'
           /\ \A q \in Promotes : served'[q] = served[q] \union {NamedIn(tab, Alias(q))}
      <3>1. /\ freed' \subseteq Promotes
            /\ clear' = [c \in Clears |-> [pc |-> clear'[c].pc, row |-> clear'[c].row]]
            /\ \A c \in Clears : clear'[c].pc \in {"idle", "delete", "returned", "dead"}
        BY <2>3 DEF PromptIInv, PromptFrame
      <3>. QED
        BY <2>3, <2>10, <2>11, <3>1, AliasesKeep
    <2>13. aliases' = tab /\ (\A b : Named(b)' = NamedIn(tab, b))
      BY <2>3 DEF Aliases, Named
    <2>14. PromoteConsistent(p)' /\ GateConsistent(p)'
      <3>1. i \in served'[p] /\ Alias(p)' = a
        BY <2>3, <2>8, <2>10, <2>12 DEF Ground, Alias
      <3>2. Named(Alias(p))' = i
        BY <2>10, <2>13, <3>1
      <3>3. steady'[p] \subseteq {v \in Ids : summary'[v] # Absent}
        BY <2>3 DEF Ground, PromotesConsistent, PromoteConsistent
      <3>. QED
        BY <2>3, <2>5, <2>6, <3>1, <3>2, <3>3
           DEF PromoteConsistent, PromotePlaces, GateConsistent, Ground
    <2>15. ASSUME NEW q \in Promotes \ {p} PROVE PromoteConsistent(q)' /\ GateConsistent(q)'
      <3>1. served'[q] = served[q] \union {Named(Alias(q))'}
        BY <2>3, <2>12, <2>13 DEF Ground, Alias
      <3>. QED
        BY <2>3, <2>5, <2>10, <2>13, <3>1, BystanderKeeps
    <2>16. PromotesConsistent'
      BY <2>5, <2>14, <2>15 DEF PromotesConsistent
    <2>17. ProductionIsScored'
      <3>1. \A q \in Promotes : promote'[q].id = promote[q].id
        BY <2>1, <2>5
      <3>2. freed \subseteq Promotes /\ ungated \subseteq Promotes
        BY DEF PromptIInv, PromptFrame
      <3>3. CASE a = Production
        <4>1. production' = i
          BY <2>10, <2>13, <3>3 DEF production
        <4>2. p \notin ungated => summary[i] # Absent
          BY <2>1, <2>3, <2>8, <3>3 DEF PromotesConsistent, GateConsistent
        <4>3. promote'[p].id = i /\ ungated' = ungated
          BY <2>3, <2>5
        <4>. QED
          BY <2>3, <4>1, <4>2, <4>3 DEF ProductionIsScored, Ground
      <3>4. CASE a # Production
        <4>1. production' = production
          BY <2>10, <2>13, <3>4 DEF production, Named
        <4>. QED
          BY <2>3, <3>1, <3>2, <4>1 DEF PromptIInv, ProductionIsScored, Ground, Alias
      <3>. QED
        BY <3>3, <3>4
    <2>. QED
      BY <2>3, <2>12, <2>16, <2>17, GroundKeeps DEF PromptIInv
  <1>. QED
    BY <1>1, <1>2

\* The UPDATE of p's row, if it is there: its alias names p's version.
LEMMA UpdatedTable ==
    ASSUME PromptIInv, NEW p \in Promotes, promote[p].pc = "update",
           NEW i, i = promote[p].id, NEW k \in DOMAIN aliases,
           NEW j, j = promote[p].loaded, NEW tab,
           tab = IF i = j THEN aliases
                 ELSE WithRow(aliases, k, [alias |-> aliases[k].alias, version |-> i])
    PROVE  /\ Table(tab) /\ DOMAIN tab = DOMAIN aliases
           /\ \A l \in DOMAIN tab : /\ tab[l].alias = aliases[l].alias
                                    /\ tab[l].version \in 1..Len(versions)
           /\ \A b : \/ NamedIn(tab, b) = NamedIn(aliases, b)
                     \/ /\ b = aliases[k].alias /\ NamedIn(tab, b) = i
                        /\ i # j
           /\ i = j \/ NamedIn(tab, aliases[k].alias) = i
  <1>1. /\ Table(aliases)
        /\ \A l \in DOMAIN aliases : aliases[l].version \in 1..Len(versions)
        /\ i \in 1..Len(versions)
    BY PromotesAVersion DEF PromptIInv, AliasesNameVersions
  <1>2. CASE i = j
    BY <1>1, <1>2
  <1>3. CASE i # j
    <2>1. tab = WithRow(aliases, k, [alias |-> aliases[k].alias, version |-> i])
      BY <1>3
    <2>2. /\ Table(tab) /\ NamedIn(tab, aliases[k].alias) = i
          /\ \A b : b # aliases[k].alias => NamedIn(tab, b) = NamedIn(aliases, b)
          /\ DOMAIN tab = DOMAIN aliases /\ tab[k].version = i
          /\ \A l \in DOMAIN aliases : /\ tab[l].alias = aliases[l].alias
                                       /\ l # k => tab[l] = aliases[l]
      BY <1>1, <2>1, RowUpdated
    <2>. QED
      BY <1>1, <1>3, <2>2
  <1>. QED
    BY <1>2, <1>3

\* The row gets the version, which the gate let through when the row is still
\* the promotion's; a row of another alias gets it only if the promotion's was
\* deleted.
LEMMA UpdateAliasKeeps ==
    ASSUME PromptIInv, NEW p \in Promotes, UpdateAlias(p)
    PROVE  PromptIInv'
  <1>1. CASE promote[p].row \notin DOMAIN aliases
    <2>1. PromoteQuiet /\ promote[p].pc = "update" /\ PromoteTo(p, "failed")
      BY <1>1 DEF UpdateAlias, PromoteQuiet, pointers, bounds
    <2>. QED
      BY <2>1, PointerToKeeps
  <1>2. CASE promote[p].row \in DOMAIN aliases
    <2>1. PICK k, i, j : /\ k = promote[p].row /\ i = promote[p].id
                         /\ j = promote[p].loaded
      OBVIOUS
    <2>2. PICK tab : tab = IF i = j THEN aliases
                 ELSE WithRow(aliases, k, [alias |-> aliases[k].alias, version |-> i])
      OBVIOUS
    <2>3. /\ promote[p].pc = "update" /\ Ground /\ PromotesConsistent /\ Table(aliases)
          /\ UNCHANGED <<clear, freed, ungated, steady>> /\ Aliases(tab)
          /\ PromoteTo(p, "refresh") /\ k \in DOMAIN aliases
      BY <1>2, <2>1, <2>2 DEF UpdateAlias, Ground, bounds, PromptIInv
    <2>4. PromoteGoes(p, "refresh", i, promote[p].current, promote[p].candidate,
                      promote[p].row, promote[p].loaded)
      BY <2>1, <2>3, PromoteGoesByLabel
    <2>5. /\ promote'[p].pc = "refresh" /\ promote'[p].id = i /\ PromoteShape(p)'
          /\ promote' = [q \in Promotes |-> promote'[q]]
          /\ \A q \in Promotes \ {p} : promote'[q] = promote[q]
      BY <2>4 DEF PromoteGoes, PromoteShape
    <2>6. i \in 1..Len(versions) /\ i \in Ids
      BY <2>1, <2>3, PromotesAVersion
    <2>7. /\ Table(tab) /\ DOMAIN tab = DOMAIN aliases
          /\ \A l \in DOMAIN tab : /\ tab[l].alias = aliases[l].alias
                                   /\ tab[l].version \in 1..Len(versions)
          /\ \A b : \/ NamedIn(tab, b) = NamedIn(aliases, b)
                    \/ /\ b = aliases[k].alias /\ NamedIn(tab, b) = i
                       /\ i # j
          /\ i = j \/ NamedIn(tab, aliases[k].alias) = i
      <3>1. promote[p].pc = "update" /\ i = promote[p].id /\ j = promote[p].loaded
        BY <2>1, <2>3
      <3>. QED
        BY <2>2, <2>3, <3>1, UpdatedTable
    <2>8. /\ PromptFrame' /\ Table(aliases)' /\ AliasesNameVersions'
          /\ \A q \in Promotes : served'[q] = served[q] \union {NamedIn(tab, Alias(q))}
      <3>1. /\ freed' \subseteq Promotes
            /\ clear' = [c \in Clears |-> [pc |-> clear'[c].pc, row |-> clear'[c].row]]
            /\ \A c \in Clears : clear'[c].pc \in {"idle", "delete", "returned", "dead"}
        BY <2>3 DEF PromptIInv, PromptFrame
      <3>. QED
        BY <2>3, <2>7, <3>1, AliasesKeep
    <2>9. aliases' = tab /\ (\A b : Named(b)' = NamedIn(tab, b))
      BY <2>3 DEF Aliases, Named
    <2>10. /\ j \in served[p]
           /\ p \in freed \/ aliases[k].alias = Alias(p)
      BY <2>1, <2>3 DEF PromotesConsistent, PromoteConsistent
    <2>11. PromoteConsistent(p)' /\ GateConsistent(p)'
      <3>1. Alias(p)' = Alias(p) /\ Named(Alias(p))' \in served'[p]
        BY <2>3, <2>8, <2>9 DEF Ground, Alias
      <3>2. p \in freed \/ i \in served'[p]
        BY <2>7, <2>8, <2>10
      <3>3. steady'[p] \subseteq {v \in Ids : summary'[v] # Absent}
        BY <2>3 DEF Ground, PromotesConsistent, PromoteConsistent
      <3>. QED
        BY <2>3, <2>5, <2>6, <3>1, <3>2, <3>3
           DEF PromoteConsistent, PromotePlaces, GateConsistent, Ground
    <2>12. ASSUME NEW q \in Promotes \ {p} PROVE PromoteConsistent(q)' /\ GateConsistent(q)'
      <3>1. served'[q] = served[q] \union {Named(Alias(q))'}
        BY <2>3, <2>8, <2>9 DEF Ground, Alias
      <3>. QED
        BY <2>3, <2>5, <2>7, <2>9, <3>1, BystanderKeeps
    <2>13. PromotesConsistent'
      BY <2>5, <2>11, <2>12 DEF PromotesConsistent
    <2>14. ProductionIsScored'
      <3>1. \A q \in Promotes : promote'[q].id = promote[q].id
        BY <2>1, <2>5
      <3>2. freed \subseteq Promotes /\ ungated \subseteq Promotes
        BY DEF PromptIInv, PromptFrame
      <3>3. CASE production' = production
        BY <2>3, <3>1, <3>2, <3>3 DEF PromptIInv, ProductionIsScored, Ground, Alias
      <3>4. CASE production' # production
        <4>1. aliases[k].alias = Production /\ production' = i
          BY <2>7, <2>9, <3>4 DEF production, Named
        <4>2. CASE Alias(p) = Production
          <5>1. p \notin ungated => summary[i] # Absent
            BY <2>1, <2>3, <4>2 DEF PromotesConsistent, GateConsistent
          <5>2. promote'[p].id = production' /\ ungated' = ungated
            BY <2>3, <2>5, <4>1
          <5>. QED
            BY <2>3, <4>1, <5>1, <5>2 DEF ProductionIsScored, Ground
        <4>3. CASE Alias(p) # Production
          <5>1. p \in freed' /\ Alias(p)' # Production /\ promote'[p].id = production'
            BY <2>3, <2>5, <2>10, <4>1, <4>3 DEF Ground, Alias
          <5>. QED
            BY <5>1 DEF ProductionIsScored
        <4>. QED
          BY <4>2, <4>3
      <3>. QED
        BY <3>3, <3>4
    <2>. QED
      BY <2>3, <2>8, <2>13, <2>14, GroundKeeps DEF PromptIInv
  <1>. QED
    BY <1>1, <1>2

\* The row goes, and the promotions about to update it are known to have lost it.
LEMMA ClearAliasKeeps ==
    ASSUME PromptIInv, NEW c \in Clears, ClearAlias(c)
    PROVE  PromptIInv'
  <1>1. Ground /\ UNCHANGED <<promote, steady, ungated>>
    BY DEF ClearAlias, Ground, bounds, pointers
  <1>2. /\ clear = [d \in Clears |-> [pc |-> clear[d].pc, row |-> clear[d].row]]
        /\ \A d \in Clears : clear[d].pc \in {"idle", "delete", "returned", "dead"}
    BY DEF PromptIInv, PromptFrame
  <1>3. CASE clear[c].pc = "idle"
    <2>1. /\ UNCHANGED pointers
          /\ \E w, r : /\ w \in {"returned", "delete"}
                       /\ clear' = [clear EXCEPT ![c] = [pc |-> w, row |-> r]]
      BY <1>3 DEF ClearAlias
    <2>2. PICK w, r : /\ w \in {"returned", "delete"}
                      /\ clear' = [clear EXCEPT ![c] = [pc |-> w, row |-> r]]
      BY <2>1
    <2>3. /\ clear' = [d \in Clears |-> [pc |-> clear'[d].pc, row |-> clear'[d].row]]
          /\ \A d \in Clears : clear'[d].pc \in {"idle", "delete", "returned", "dead"}
      BY <1>2, <2>2
    <2>4. PromptFrame'
      BY <1>1, <2>1, <2>3 DEF PromptIInv, PromptFrame, Ground, pointers
    <2>5. Table(aliases)' /\ AliasesNameVersions' /\ ProductionIsScored'
      BY <1>1, <2>1 DEF PromptIInv, Ground, pointers, Table, AliasesNameVersions,
                        ProductionIsScored, production, Named, Alias
    <2>6. ASSUME NEW q \in Promotes PROVE PromoteConsistent(q)' /\ GateConsistent(q)'
      <3>1. PromoteConsistent(q) /\ GateConsistent(q)
        BY DEF PromptIInv, PromotesConsistent
      <3>2. PromoteConsistent(q)'
        BY <1>1, <2>1, <3>1 DEF PromoteConsistent, PromoteShape, Ground, pointers, Named, Alias
      <3>3. GateConsistent(q)'
        BY <1>1, <2>1, <3>1 DEF GateConsistent, Passed, Ground, pointers, Alias
      <3>. QED
        BY <3>2, <3>3
    <2>7. PromotesConsistent'
      BY <1>1, <2>6 DEF PromptIInv, PromotesConsistent
    <2>. QED
      BY <1>1, <2>4, <2>5, <2>7, GroundKeeps DEF PromptIInv
  <1>4. CASE clear[c].pc = "delete"
    <2>1. PICK k, tab : k = clear[c].row /\ tab = Restrict(aliases, DOMAIN aliases \ {k})
      OBVIOUS
    <2>2. /\ Aliases(tab) /\ clear' = [clear EXCEPT ![c].pc = "returned"]
          /\ freed' = freed \union {q \in Promotes : promote[q].pc = "update"
                                                     /\ promote[q].row = k}
      BY <1>4, <2>1 DEF ClearAlias
    <2>3. /\ Table(tab) /\ (\A b : NamedIn(tab, b) \in {Absent, NamedIn(aliases, b)})
          /\ DOMAIN tab = DOMAIN aliases \ {k} /\ \A l \in DOMAIN tab : tab[l] = aliases[l]
      <3>1. PICK kept : kept = DOMAIN aliases \ {k}
        OBVIOUS
      <3>2. Table(aliases) /\ tab = Restrict(aliases, kept) /\ kept \subseteq DOMAIN aliases
        BY <2>1, <3>1 DEF PromptIInv
      <3>3. /\ Table(tab) /\ (\A b : NamedIn(tab, b) \in {Absent, NamedIn(aliases, b)})
            /\ DOMAIN tab = kept /\ \A l \in kept : tab[l] = aliases[l]
        BY <3>2, RowDeleted
      <3>. QED
        BY <3>1, <3>3
    <2>4. \A l \in DOMAIN tab : tab[l].version \in 1..Len(versions)
      BY <2>3 DEF PromptIInv, AliasesNameVersions
    <2>5. /\ clear' = [d \in Clears |-> [pc |-> clear'[d].pc, row |-> clear'[d].row]]
          /\ \A d \in Clears : clear'[d].pc \in {"idle", "delete", "returned", "dead"}
      <3>1. PICK m, r : m = clear[c] /\ r = m.row
        OBVIOUS
      <3>2. m = [pc |-> m.pc, row |-> r]
        BY <1>2, <3>1
      <3>3. [m EXCEPT !.pc = "returned"] = [pc |-> "returned", row |-> r]
        BY <3>2
      <3>4. clear' = [clear EXCEPT ![c] = [m EXCEPT !.pc = "returned"]]
        BY <2>2, <3>1
      <3>5. clear' = [clear EXCEPT ![c] = [pc |-> "returned", row |-> r]]
        BY <3>3, <3>4
      <3>. QED
        BY <1>2, <3>5
    <2>6. freed' \subseteq Promotes
      BY <2>2 DEF PromptIInv, PromptFrame
    <2>7. /\ PromptFrame' /\ Table(aliases)' /\ AliasesNameVersions'
          /\ \A q \in Promotes : served'[q] = served[q] \union {NamedIn(tab, Alias(q))}
      BY <1>1, <2>2, <2>3, <2>4, <2>5, <2>6, AliasesKeep
    <2>8. aliases' = tab /\ (\A b : Named(b)' = NamedIn(tab, b))
      BY <2>2 DEF Aliases, Named
    <2>9. ASSUME NEW q \in Promotes PROVE PromoteConsistent(q)' /\ GateConsistent(q)'
      <3>1. served'[q] = served[q] \union {Named(Alias(q))'}
        BY <1>1, <2>7, <2>8 DEF Ground, Alias
      <3>2. freed \subseteq freed' /\ (q \in freed' => q \in freed \/ promote[q].pc = "update")
        BY <2>2
      <3>3. promote[q].pc = "update" /\ promote[q].row \in DOMAIN aliases =>
               \/ q \in freed'
               \/ promote[q].row \in DOMAIN tab
                  /\ tab[promote[q].row].alias = aliases[promote[q].row].alias
        BY <2>2, <2>3
      <3>. QED
        BY <1>1, <2>8, <3>1, <3>2, <3>3, BystanderKeeps
    <2>10. PromotesConsistent'
      BY <1>1, <2>9 DEF PromptIInv, PromotesConsistent
    <2>11. ProductionIsScored'
      <3>1. production' \in {Absent, production} /\ freed \subseteq freed'
        BY <2>2, <2>3, <2>8 DEF production, Named
      <3>. QED
        BY <1>1, <3>1 DEF PromptIInv, ProductionIsScored, Ground, Alias
    <2>. QED
      BY <1>1, <2>7, <2>10, <2>11, GroundKeeps DEF PromptIInv
  <1>. QED
    BY <1>3, <1>4 DEF ClearAlias

\* What a change of some golden sets, or the end of some calls, leaves.
LEMMA CallsEndKeeps ==
    ASSUME PromptIInv, UNCHANGED <<versions, summary, pointers, steady, scope>>,
           suites' \subseteq Processes,
           eval' = [e \in Evals |-> eval'[e]], promote' = [p \in Promotes |-> promote'[p]],
           clear' = [c \in Clears |-> [pc |-> clear'[c].pc, row |-> clear'[c].row]],
           \A e \in Evals : eval'[e] = eval[e] \/ (EvalShape(e)' /\ eval'[e].pc = "dead"),
           \A p \in Promotes :
               \/ promote'[p] = promote[p]
               \/ /\ PromoteShape(p)' /\ promote'[p].pc = "dead"
                  /\ promote'[p].id = promote[p].id /\ promote[p].pc # "idle",
           \A c \in Clears : clear'[c] = clear[c] \/ clear'[c].pc = "dead"
    PROVE  PromptIInv'
  <1>. USE DEF pointers
  <1>1. PromptFrame' /\ Registered' /\ Table(aliases)' /\ AliasesNameVersions'
    <2>1. \A c \in Clears : clear'[c].pc \in {"idle", "delete", "returned", "dead"}
      BY DEF PromptIInv, PromptFrame
    <2>. QED
      BY <2>1 DEF PromptIInv, PromptFrame, Registered, Table, AliasesNameVersions
  <1>2. EvalsConsistent'
    <2>1. ASSUME NEW e \in Evals PROVE EvalConsistent(e)'
      <3>1. EvalConsistent(e)
        BY DEF PromptIInv, EvalsConsistent
      <3>. QED
        BY <3>1 DEF EvalConsistent, EvalShape, EvalPlaces
    <2>2. Added \subseteq Added' /\ Added' \subseteq Registers
      BY DEF Added, Evals
    <2>3. Len(versions)' <= Cardinality(Added)'
      <3>1. IsFiniteSet(Added')
        BY <2>2, PromptAssumption, FS_Subset
      <3>2. Cardinality(Added) <= Cardinality(Added') /\ Cardinality(Added') \in Nat
        BY <2>2, <3>1, FS_Subset, FS_CardinalityType
      <3>. QED
        BY <3>2, AddedIsFinite, LengthIsNat DEF PromptIInv, EvalsConsistent
    <2>. QED
      BY <2>1, <2>3 DEF EvalsConsistent
  <1>3. \A p \in Promotes : promote'[p].id = promote[p].id
    OBVIOUS
  <1>4. ProductionIsScored'
    <2>1. freed \subseteq Promotes /\ ungated \subseteq Promotes
      BY DEF PromptIInv, PromptFrame
    <2>. QED
      BY <1>3, <2>1 DEF PromptIInv, ProductionIsScored, production, Named, Alias
  <1>5. ASSUME NEW p \in Promotes PROVE PromoteConsistent(p)' /\ GateConsistent(p)'
    <2>1. PromoteConsistent(p) /\ GateConsistent(p)
      BY DEF PromptIInv, PromotesConsistent
    <2>2. PromoteConsistent(p)'
      BY <1>3, <2>1 DEF PromoteConsistent, PromotePlaces, PromoteShape, Named, Alias
    <2>3. Passed(p)' = Passed(p)
      BY <1>3 DEF Passed
    <2>4. GateConsistent(p)'
      BY <1>3, <2>1, <2>3 DEF GateConsistent, Alias
    <2>. QED
      BY <2>2, <2>4
  <1>. QED
    BY <1>1, <1>2, <1>4, <1>5 DEF PromptIInv, PromotesConsistent

\* The golden set of a process comes or goes.
LEMMA ChangeSuiteKeeps ==
    ASSUME PromptIInv, ChangeSuite
    PROVE  PromptIInv'
  <1>1. UNCHANGED <<versions, summary, eval, promote, clear, pointers, steady, scope>>
    BY DEF ChangeSuite
  <1>2. suites' \subseteq Processes
    BY DEF ChangeSuite, PromptIInv, PromptFrame
  <1>. QED
    BY <1>1, <1>2, CallsEndKeeps
       DEF PromptIInv, PromptFrame, EvalsConsistent, PromotesConsistent

\* A process dies with its calls.
LEMMA DieKeeps ==
    ASSUME PromptIInv, NEW r, Die(r)
    PROVE  PromptIInv'
  <1>1. /\ UNCHANGED <<versions, summary, pointers, steady, scope>>
        /\ suites' = suites \ {r}
        /\ eval' = Killed(r, eval) /\ promote' = Killed(r, promote)
        /\ clear' = Killed(r, clear)
    BY DEF Die
  <1>2. suites' \subseteq Processes
    BY <1>1 DEF PromptIInv, PromptFrame
  <1>3. DOMAIN eval = Evals /\ DOMAIN promote = Promotes /\ DOMAIN clear = Clears
    BY DEF PromptIInv, PromptFrame, EvalsConsistent, PromotesConsistent
  <1>4. /\ eval' = [e \in Evals |-> eval'[e]]
        /\ \A e \in Evals : eval'[e] = eval[e] \/ (EvalShape(e)' /\ eval'[e].pc = "dead")
    <2>1. ASSUME NEW e \in Evals
          PROVE  eval'[e] = eval[e] \/ (EvalShape(e)' /\ eval'[e].pc = "dead")
      <3>1. eval'[e] = eval[e] \/ eval'[e] = [eval[e] EXCEPT !.pc = "dead"]
        BY <1>1, <1>3 DEF Killed
      <3>2. PICK k : k = eval[e]
        OBVIOUS
      <3>3. k = [pc |-> k.pc, number |-> k.number, id |-> k.id, outcome |-> k.outcome,
                 found |-> k.found]
        BY <3>2 DEF PromptIInv, EvalsConsistent, EvalConsistent, EvalShape
      <3>4. PICK n, i, o, f : n = k.number /\ i = k.id /\ o = k.outcome /\ f = k.found
        OBVIOUS
      <3>5. [k EXCEPT !.pc = "dead"] =
                [pc |-> "dead", number |-> n, id |-> i, outcome |-> o, found |-> f]
        BY <3>3, <3>4
      <3>. QED
        BY <3>1, <3>2, <3>5 DEF EvalShape
    <2>. QED
      BY <1>1, <1>3, <2>1 DEF Killed
  <1>5. /\ promote' = [p \in Promotes |-> promote'[p]]
        /\ \A p \in Promotes :
               \/ promote'[p] = promote[p]
               \/ /\ PromoteShape(p)' /\ promote'[p].pc = "dead"
                  /\ promote'[p].id = promote[p].id /\ promote[p].pc # "idle"
    <2>1. ASSUME NEW p \in Promotes
          PROVE  \/ promote'[p] = promote[p]
                 \/ /\ PromoteShape(p)' /\ promote'[p].pc = "dead"
                    /\ promote'[p].id = promote[p].id /\ promote[p].pc # "idle"
      <3>1. \/ promote'[p] = promote[p]
            \/ promote'[p] = [promote[p] EXCEPT !.pc = "dead"] /\ promote[p].pc # "idle"
        BY <1>1, <1>3 DEF Killed, Over
      <3>2. PICK k : k = promote[p]
        OBVIOUS
      <3>3. k = [pc |-> k.pc, id |-> k.id, current |-> k.current,
                 candidate |-> k.candidate, row |-> k.row, loaded |-> k.loaded]
        BY <3>2 DEF PromptIInv, PromotesConsistent, PromoteConsistent, PromoteShape
      <3>4. PICK i, c, d, w, l : /\ i = k.id /\ c = k.current /\ d = k.candidate
                                 /\ w = k.row /\ l = k.loaded
        OBVIOUS
      <3>5. [k EXCEPT !.pc = "dead"] =
                [pc |-> "dead", id |-> i, current |-> c, candidate |-> d, row |-> w,
                 loaded |-> l]
        BY <3>3, <3>4
      <3>. QED
        BY <3>1, <3>2, <3>4, <3>5 DEF PromoteShape
    <2>. QED
      BY <1>1, <1>3, <2>1 DEF Killed
  <1>6. /\ clear' = [c \in Clears |-> [pc |-> clear'[c].pc, row |-> clear'[c].row]]
        /\ \A c \in Clears : clear'[c] = clear[c] \/ clear'[c].pc = "dead"
    <2>1. ASSUME NEW c \in Clears
          PROVE  \/ clear'[c] = clear[c]
                 \/ clear'[c] = [pc |-> "dead", row |-> clear[c].row]
      <3>1. clear'[c] = clear[c] \/ clear'[c] = [clear[c] EXCEPT !.pc = "dead"]
        BY <1>1, <1>3 DEF Killed
      <3>2. PICK k, w : k = clear[c] /\ w = k.row
        OBVIOUS
      <3>3. k = [pc |-> k.pc, row |-> w]
        BY <3>2 DEF PromptIInv, PromptFrame
      <3>4. [k EXCEPT !.pc = "dead"] = [pc |-> "dead", row |-> w]
        BY <3>3
      <3>. QED
        BY <3>1, <3>2, <3>4
    <2>2. clear' = [c \in Clears |-> clear'[c]]
      BY <1>1, <1>3 DEF Killed
    <2>3. ASSUME NEW c \in Clears
          PROVE  clear'[c] = [pc |-> clear'[c].pc, row |-> clear'[c].row]
      <3>1. clear[c] = [pc |-> clear[c].pc, row |-> clear[c].row]
        BY DEF PromptIInv, PromptFrame
      <3>2. PICK q, w : clear'[c] = [pc |-> q, row |-> w]
        BY <2>1, <3>1
      <3>. QED
        BY <3>2
    <2>. QED
      BY <2>1, <2>2, <2>3
  <1>. QED
    BY <1>1, <1>2, <1>4, <1>5, <1>6, CallsEndKeeps

-----------------------------------------------------------------------------
\* A step of a call of p changes no other promotion.
LEMMA OthersStay ==
    ASSUME PromotesConsistent, NEW q \in Promotes, NEW p \in Promotes \ {q},
           InsertAlias(q) \/ UpdateAlias(q)
    PROVE  promote'[p] = promote[p]
  <1>1. \E r : promote' = [promote EXCEPT ![q] = r]
    BY DEF InsertAlias, UpdateAlias, PromoteBecomes, PromoteTo
  <1>2. PICK r : promote' = [promote EXCEPT ![q] = r]
    BY <1>1
  <1>. QED
    BY <1>2 DEF PromotesConsistent

\* Every step of the slot keeps the invariant.
LEMMA PromptNextKeeps == PromptIInv /\ [PromptNext]_promptVars => PromptIInv'
  <1>. SUFFICES ASSUME PromptIInv, [PromptNext]_promptVars PROVE PromptIInv'
    OBVIOUS
  <1>1. ASSUME NEW g \in Registers, Register(g) PROVE PromptIInv'
    BY <1>1, FindExistingKeeps, CountVersionsKeeps, InsertVersionKeeps, EvalOnDetectionKeeps
       DEF Register
  <1>2. ASSUME NEW e \in Evals, StartRerun(e) PROVE PromptIInv'
    BY <1>2, StartRerunKeeps
  <1>3. ASSUME NEW e \in Evals, Evaluate(e) \/ RunnerRaises(e) PROVE PromptIInv'
    BY <1>3, RunSuiteKeeps, SelectSummaryKeeps, PersistSummaryKeeps, RunnerRaisesKeeps
       DEF Evaluate
  <1>4. ASSUME NEW p \in Promotes, Promote(p) PROVE PromptIInv'
    BY <1>4, StartPromotionKeeps, CheckCandidateKeeps, FindCurrentKeeps, CompareBaselineKeeps,
       SelectAliasKeeps, InsertAliasKeeps, ReloadAliasKeeps, UpdateAliasKeeps, RefreshKeeps
       DEF Promote
  <1>5. ASSUME NEW c \in Clears, ClearAlias(c) PROVE PromptIInv'
    BY <1>5, ClearAliasKeeps
  <1>6. CASE ChangeSuite
    BY <1>6, ChangeSuiteKeeps
  <1>8. ASSUME NEW r \in Processes, Die(r) PROVE PromptIInv'
    BY <1>8, DieKeeps
  <1>7. CASE UNCHANGED promptVars
    <2>. USE DEF promptVars, pointers, bounds
    <2>1. PromptFrame' /\ Registered' /\ EvalsConsistent' /\ Table(aliases)'
          /\ AliasesNameVersions' /\ ProductionIsScored'
      BY <1>7 DEF PromptIInv, PromptFrame, Registered, EvalsConsistent, EvalConsistent,
           EvalShape, Added, Table, AliasesNameVersions, ProductionIsScored, production, Named,
           Alias
    <2>2. ASSUME NEW p \in Promotes PROVE PromoteConsistent(p)' /\ GateConsistent(p)'
      <3>1. PromoteConsistent(p) /\ GateConsistent(p)
        BY DEF PromptIInv, PromotesConsistent
      <3>2. PromoteConsistent(p)'
        BY <1>7, <3>1 DEF PromoteConsistent, PromoteShape, Named, Alias
      <3>3. GateConsistent(p)'
        BY <1>7, <3>1 DEF GateConsistent, Passed, Alias
      <3>. QED
        BY <3>2, <3>3
    <2>3. PromotesConsistent'
      BY <1>7, <2>2 DEF PromptIInv, PromotesConsistent
    <2>. QED
      BY <2>1, <2>3 DEF PromptIInv
  <1>. QED
    BY <1>1, <1>2, <1>3, <1>4, <1>5, <1>6, <1>7, <1>8 DEF PromptNext, Evals

\* The inductive invariant holds throughout.
LEMMA PromptIInvAlways == PromptSpec => []PromptIInv
  BY InitPrompt, PromptNextKeeps, PTL DEF PromptSpec

\* It implies the invariant the run checks.
LEMMA PromptIInvImpliesInv == PromptIInv => PromptInv
  <1>. SUFFICES ASSUME PromptIInv PROVE PromptInv
    OBVIOUS
  <1>. USE DEF PromptIInv
  <1>1. Len(versions) <= Cardinality(Registers)
    BY LengthIsNat, AddedIsFinite, IdsAre DEF EvalsConsistent
  <1>2. \A i \in 1..Len(versions) : versions[i].content \in Range(scope.content)
    <2>1. PICK R : R = [content : Range(scope.content), number : Nat]
      OBVIOUS
    <2>2. versions \in Seq(R)
      BY <2>1 DEF Registered
    <2>3. \A i \in 1..Len(versions) : versions[i] \in R
      BY <2>2
    <2>. QED
      BY <2>1, <2>3
  <1>3. PromptTypeOK
    <2>1. \A i \in 1..Len(versions) : versions[i].number \in 1..i
      BY DEF Registered
    <2>2. /\ summary \in [Ids -> [Columns -> Nat] \union {Absent}]
          /\ suites \subseteq Processes
      BY DEF PromptFrame
    <2>3. /\ \A k \in DOMAIN aliases : aliases[k].version \in 1..Len(versions)
          /\ \A k, l \in DOMAIN aliases : aliases[k].alias = aliases[l].alias => k = l
      BY DEF Table, AliasesNameVersions
    <2>4. /\ \A e \in Evals : eval[e].pc \in EvalPlaces
          /\ \A p \in Promotes : promote[p].pc \in PromotePlaces
          /\ \A c \in Clears : clear[c].pc \in {"idle", "delete", "returned", "dead"}
      BY DEF EvalsConsistent, EvalConsistent, PromotesConsistent, PromoteConsistent,
         PromptFrame
    <2>. QED
      BY <1>1, <1>2, <2>1, <2>2, <2>3, <2>4 DEF PromptTypeOK
  <1>4. PromotionTakesEffect
    BY DEF PromotionTakesEffect, PromotesConsistent, PromoteConsistent
  <1>. QED
    BY <1>3, <1>4 DEF PromptInv

\* The types and the unique aliases; production names only what was scored while
\* the golden set stays, and a promotion that returned took effect, but where its
\* row was deleted under it.
THEOREM PromptInvAlways == PromptSpec => []PromptInv
  BY PromptIInvImpliesInv, PromptIInvAlways, PTL

\* What a promotion to production that moves it found.
LEMMA MoveIsGated ==
    ASSUME PromptIInv, PromptNext, NEW p \in Promotes \ ungated, Moves(p)
    PROVE  ~Regressed(summary[production'], summary[production])
  <1>. USE DEF Moves
  <1>1. PromotesConsistent /\ PromoteConsistent(p) /\ GateConsistent(p) /\ Table(aliases)
    BY DEF PromptIInv, PromotesConsistent
  <1>2. production # Absent
    BY <1>1, IdsAre DEF PromoteConsistent
  <1>3. ASSUME aliases' = aliases PROVE FALSE
    BY <1>3 DEF production, Named
  <1>4. ASSUME promote' = promote PROVE FALSE
    BY <1>4
  <1>5. ASSUME InsertAlias(p) PROVE FALSE
    BY <1>2, <1>3, <1>5 DEF InsertAlias, production
  <1>6. CASE UpdateAlias(p)
    <2>1. PICK k, i, j : /\ k = promote[p].row /\ i = promote[p].id
                         /\ j = promote[p].loaded
      OBVIOUS
    <2>2. PICK tab : tab = IF i = j THEN aliases
                 ELSE WithRow(aliases, k, [alias |-> aliases[k].alias, version |-> i])
      OBVIOUS
    <2>3. /\ promote[p].pc = "update" /\ k \in DOMAIN aliases /\ aliases' = tab
      BY <1>3, <1>6, <2>1, <2>2 DEF UpdateAlias, Aliases
    <2>4. \A b : \/ NamedIn(tab, b) = NamedIn(aliases, b)
                 \/ b = aliases[k].alias /\ NamedIn(tab, b) = i /\ i # j
      <3>1. promote[p].pc = "update" /\ i = promote[p].id /\ j = promote[p].loaded
        BY <2>1, <2>3
      <3>. QED
        BY <2>2, <2>3, <3>1, UpdatedTable
    <2>5. production' = i
      BY <2>3, <2>4 DEF production, Named
    <2>6. Passed(p)
      BY <1>1, <2>3 DEF GateConsistent
    <2>7. PICK c \in served[p] :
             \/ c \in {Absent, promote[p].id}
             \/ {c, promote[p].id} \subseteq steady[p]
                   => ~Regressed(summary[promote[p].id], summary[c])
      BY <2>6 DEF Passed
    <2>8. c = production /\ promote[p].id = production'
      BY <2>1, <2>5, <2>7
    <2>. QED
      BY <1>2, <2>7, <2>8
  <1>7. ASSUME NEW q \in Promotes \ {p}, Promote(q) PROVE FALSE
    <2>1. InsertAlias(q) \/ UpdateAlias(q)
      BY <1>3, <1>7 DEF Promote, StartPromotion, CheckCandidate, FindCurrent,
         CompareBaseline, SelectAlias, ReloadAlias, Refresh, pointers
    <2>. QED
      BY <1>1, <2>1, OthersStay
  <1>8. ASSUME Promote(p), ~UpdateAlias(p) PROVE FALSE
    BY <1>3, <1>5, <1>8 DEF Promote, StartPromotion, CheckCandidate, FindCurrent,
         CompareBaseline, SelectAlias, ReloadAlias, Refresh, pointers
  <1>9. ASSUME NEW g \in Registers, Register(g) PROVE FALSE
    BY <1>4, <1>9 DEF Register, FindExisting, CountVersions, InsertVersion, EvalOnDetection
  <1>10. ASSUME NEW e \in Evals, StartRerun(e) \/ Evaluate(e) \/ RunnerRaises(e)
         PROVE  FALSE
    BY <1>4, <1>10 DEF StartRerun, Evaluate, RunSuite, SelectSummary, PersistSummary,
         RunnerRaises
  <1>11. ASSUME NEW c \in Clears, ClearAlias(c) PROVE FALSE
    BY <1>4, <1>11 DEF ClearAlias
  <1>12. ASSUME ChangeSuite PROVE FALSE
    BY <1>4, <1>12 DEF ChangeSuite
  <1>13. ASSUME NEW r \in Processes, Die(r) PROVE FALSE
    BY <1>3, <1>13 DEF Die, pointers
  <1>. QED
    BY <1>6, <1>7, <1>8, <1>9, <1>10, <1>11, <1>12, <1>13 DEF PromptNext, Evals

\* A promotion to production that nobody interferes with does not regress past
\* a cap (assert_production_promotion_allowed).
THEOREM GateHolds == PromptSpec => GateHoldsAlone
  <1> DEFINE Gated ==
      \A p \in Promotes \ ungated :
          Moves(p) => ~Regressed(summary[production'], summary[production])
  <1>1. PromptIInv /\ PromptNext => Gated
    BY MoveIsGated
  <1>2. PromptIInv /\ [PromptNext]_promptVars => [Gated]_promptVars
    BY <1>1
  <1>. QED
    BY PromptIInvAlways, <1>2, PTL DEF PromptSpec, GateHoldsAlone
=============================================================================
