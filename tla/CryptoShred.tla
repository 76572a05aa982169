---------------------------- MODULE CryptoShred ----------------------------
(***************************************************************************)
(* crypto_shred.py for one data subject: encryption under the newest live   *)
(* key generation, made on first use, and the two-phase erasure that        *)
(* destroys the live generations, confirms the request and appends the      *)
(* erasure fact.  Every SELECT is a snapshot of its own and every commit is  *)
(* atomic; the fact goes into the log with an append_commit of its own       *)
(* (CommitLog), after the erasure has committed.                            *)
(***************************************************************************)
EXTENDS Naturals, FiniteSets, FiniteSetsExt

CONSTANTS
    Encrypts,           \* calls of encrypt_for_subject, each made once
    Confirms,           \* calls of confirm_erasure, each made once
    Requests,           \* erasure requests for the subject
    MaxFailures,        \* bound on the steps that raise or die
    None

ASSUME ShredAssumption ==
    /\ IsFiniteSet(Encrypts) /\ None \notin Encrypts \union Requests
    /\ MaxFailures \in Nat

Generations == 1..Cardinality(Encrypts)

VARIABLES
    keys,               \* the SubjectKey rows: [state, material] per generation
    status,             \* the ErasureRequest rows
    facts,              \* the erasure facts in the log: [by, request]
    enc,                \* the encryptions: place, generation, key material held
    conf,               \* the confirmations: place, request, generations selected
    liveAtStart,        \* history: the generations live when each began
    failures            \* history, for the bound

vars == <<keys, status, facts, enc, conf, liveAtStart, failures>>

\* A key's material is named for the call that generated it.
NoKey == [state |-> "none", material |-> None]
Live(e) == [state |-> "live", material |-> e]
Destroyed == [state |-> "destroyed", material |-> None]

LiveKeys == {g \in Generations : keys[g].state = "live"}
KeyRows == {g \in Generations : keys[g].state # "none"}

Init ==
    /\ keys = [g \in Generations |-> NoKey]
    /\ status = [r \in Requests |-> "none"]
    /\ facts = {}
    /\ enc = [e \in Encrypts |-> [pc |-> "idle", generation |-> 0, material |-> None]]
    /\ conf = [c \in Confirms |-> [pc |-> "idle", request |-> None, selected |-> {}]]
    /\ liveAtStart = [c \in Confirms |-> {}]
    /\ failures = 0

-----------------------------------------------------------------------------
\* get_active_subject_key: the newest live generation, if there is one.
GetActiveKey(e) ==
    /\ enc[e].pc = "idle"
    /\ enc' = [enc EXCEPT ![e] =
          IF LiveKeys = {} THEN [@ EXCEPT !.pc = "create"]
          ELSE [pc |-> "done", generation |-> Max(LiveKeys),
                material |-> keys[Max(LiveKeys)].material]]
    /\ UNCHANGED <<keys, status, facts, conf, liveAtStart, failures>>

\* Mutants of the actions below, for the runs that must notice them.
InsertIgnored(e) ==            \* INSERT OR IGNORE
    /\ enc[e].pc = "insert"
    /\ enc' = [enc EXCEPT ![e].pc = "done"]
    /\ keys' = IF enc[e].generation \in KeyRows THEN keys
               ELSE [keys EXCEPT ![enc[e].generation] = Live(enc[e].material)]
    /\ UNCHANGED <<status, facts, conf, liveAtStart, failures>>

InsertUpsert(e) ==             \* INSERT OR REPLACE
    /\ enc[e].pc = "insert"
    /\ enc' = [enc EXCEPT ![e].pc = "done"]
    /\ keys' = [keys EXCEPT ![enc[e].generation] = Live(enc[e].material)]
    /\ UNCHANGED <<status, facts, conf, liveAtStart, failures>>

SelectNewest(c) ==             \* shred the active key only
    /\ conf[c].pc = "select"
    /\ conf' = [conf EXCEPT ![c].pc = "commit",
                   ![c].selected = IF LiveKeys = {} THEN {} ELSE {Max(LiveKeys)}]
    /\ UNCHANGED <<keys, status, facts, enc, liveAtStart, failures>>

FactEnqueued(c) ==             \* enqueue_append for append_commit
    /\ conf[c].pc = "append"
    /\ conf' = [conf EXCEPT ![c].pc = "done"]
    /\ facts' \in {facts, facts \union {[by |-> c, request |-> conf[c].request]}}
    /\ UNCHANGED <<keys, status, enc, liveAtStart, failures>>

-----------------------------------------------------------------------------
\* MAX(generation) + 1, with fresh material.
LastGeneration(e) ==
    /\ enc[e].pc = "create"
    /\ enc' = [enc EXCEPT ![e] = [pc |-> "insert", material |-> e,
                  generation |-> 1 + IF KeyRows = {} THEN 0 ELSE Max(KeyRows)]]
    /\ UNCHANGED <<keys, status, facts, conf, liveAtStart, failures>>

\* uq_subject_key_subject_generation: of two calls with one generation the
\* second raises IntegrityError to its caller.
InsertKey(e) ==
    /\ enc[e].pc = "insert"
    /\ IF enc[e].generation \in KeyRows
       THEN /\ enc' = [enc EXCEPT ![e] = [pc |-> "raised", generation |-> 0,
                                          material |-> None]]
            /\ UNCHANGED keys
       ELSE /\ enc' = [enc EXCEPT ![e].pc = "done"]
            /\ keys' = [keys EXCEPT ![enc[e].generation] = Live(enc[e].material)]
    /\ UNCHANGED <<status, facts, conf, liveAtStart, failures>>

\* decrypt_for_subject, of a token made with a generation's number and a key.
DecryptForSubject(generation, material) ==
    IF keys[generation].state # "live" THEN None
    ELSE IF keys[generation].material = material THEN "plaintext" ELSE "InvalidToken"

-----------------------------------------------------------------------------
RequestErasure(r) ==
    /\ status[r] = "none"
    /\ status' = [status EXCEPT ![r] = "Requested"]
    /\ UNCHANGED <<keys, facts, enc, conf, liveAtStart, failures>>

\* confirm_erasure reads the request and refuses one that is missing or not
\* "Requested".
CheckRequest(c) ==
    /\ conf[c].pc = "idle"
    /\ \E r \in Requests :
          conf' = [conf EXCEPT ![c] =
              [pc |-> IF status[r] = "Requested" THEN "select" ELSE "refused",
               request |-> r, selected |-> {}]]
    /\ liveAtStart' = [liveAtStart EXCEPT ![c] = LiveKeys]
    /\ UNCHANGED <<keys, status, facts, enc, failures>>

SelectKeys(c) ==
    /\ conf[c].pc = "select"
    /\ conf' = [conf EXCEPT ![c].pc = "commit", ![c].selected = LiveKeys]
    /\ UNCHANGED <<keys, status, facts, enc, liveAtStart, failures>>

\* Destroy the selected keys and confirm the request, in one transaction.
CommitErasure(c) ==
    /\ conf[c].pc = "commit"
    /\ keys' = [g \in Generations |->
                   IF g \in conf[c].selected THEN Destroyed ELSE keys[g]]
    /\ status' = [status EXCEPT ![conf[c].request] = "Confirmed"]
    /\ conf' = [conf EXCEPT ![c].pc = "append"]
    /\ UNCHANGED <<facts, enc, liveAtStart, failures>>

AppendFact(c) ==
    /\ conf[c].pc = "append"
    /\ facts' = facts \union {[by |-> c, request |-> conf[c].request]}
    /\ conf' = [conf EXCEPT ![c].pc = "done"]
    /\ UNCHANGED <<keys, status, enc, liveAtStart, failures>>

\* A locked database, an append that raises, or the death of the process.
ConfirmFails(c) ==
    /\ conf[c].pc \in {"select", "commit", "append"}
    /\ failures < MaxFailures
    /\ failures' = failures + 1
    /\ conf' = [conf EXCEPT ![c].pc = "raised"]
    /\ UNCHANGED <<keys, status, facts, enc, liveAtStart>>

Confirm(c) == CheckRequest(c) \/ SelectKeys(c) \/ CommitErasure(c) \/ AppendFact(c)

Next ==
    \/ \E e \in Encrypts : GetActiveKey(e) \/ LastGeneration(e) \/ InsertKey(e)
    \/ \E r \in Requests : RequestErasure(r)
    \/ \E c \in Confirms : Confirm(c) \/ ConfirmFails(c)

Spec == Init /\ [][Next]_vars

-----------------------------------------------------------------------------
TypeOK ==
    /\ \A g \in Generations :
          keys[g] \in {NoKey, Destroyed} \union {Live(e) : e \in Encrypts}
    /\ status \in [Requests -> {"none", "Requested", "Confirmed"}]
    /\ facts \subseteq [by : Confirms, request : Requests]
    /\ \A e \in Encrypts : enc[e].generation \in {0} \union Generations
    /\ failures \in 0..MaxFailures

\* A destroyed generation never decrypts again: no later encryption revives
\* it, and generations are never given out twice.
ShreddedForGood ==
    [][\A g \in Generations :
          /\ keys[g].state = "destroyed" => keys'[g] = keys[g]
          /\ keys[g].state = "live" => keys'[g] \in {keys[g], Destroyed}]_vars

\* Once a confirmation has committed, nothing encrypted before it began can be
\* decrypted, although encryptions that race can leave several generations
\* live at once.
ErasedIsUnreadable ==
    \A c \in Confirms :
        conf[c].pc \in {"append", "done"} =>
            \A g \in liveAtStart[c] : keys[g] = Destroyed

\* A ciphertext handed out decrypts for as long as its generation is live: the
\* generation's row is there, and never holds another call's key.
TokensFindTheirKey ==
    \A e \in Encrypts :
        enc[e].pc = "done" =>
            /\ enc[e].generation \in KeyRows
            /\ enc[e].generation \in LiveKeys =>
                  DecryptForSubject(enc[e].generation, enc[e].material) = "plaintext"

\* The audit trail never claims what did not happen: a fact is there only for
\* a confirmed request, and the keys it counts are gone.
FactsAreTrue ==
    \A f \in facts : /\ status[f.request] = "Confirmed"
                     /\ \A g \in conf[f.by].selected : keys[g] = Destroyed

\* confirm_erasure returns only with its fact in the log.
ReturnedHasFact ==
    \A c \in Confirms :
        conf[c].pc = "done" => [by |-> c, request |-> conf[c].request] \in facts

\* The types, the audit trail (no fact is false, and none that was reported is
\* missing), and the keys of what was handed out.
ShredInv == TypeOK /\ FactsAreTrue /\ ReturnedHasFact /\ TokensFindTheirKey

-----------------------------------------------------------------------------
\* "Confirmation is a one-way, one-time transition", a second one raises: what
\* confirm_erasure's docstring says, and two that overlap do not keep.
ConfirmedOnce ==
    \A c, d \in Confirms :
        conf[c].pc = "done" /\ conf[d].pc = "done" /\ conf[c].request = conf[d].request
        => c = d
=============================================================================
