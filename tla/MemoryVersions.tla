--------------------------- MODULE MemoryVersions ---------------------------
(***************************************************************************)
(* The memory store (features/memory/services/memory_service.py): one row  *)
(* per memory with its status, its current version and, while it is        *)
(* active, the hash of the fact it states; immutable versions with their   *)
(* text and search terms; one mutation per change, under the caller's      *)
(* idempotency key.                                                        *)
(*                                                                         *)
(* A request is one transaction.  Its plain reads see the snapshot its     *)
(* authorization opened (MySQL, REPEATABLE READ), its FOR UPDATE reads and *)
(* unique indexes see what is committed; a row it locked or an index entry *)
(* it wrote holds up the others until it commits or rolls back.            *)
(***************************************************************************)
EXTENDS Naturals, FiniteSets, Sequences

CONSTANTS
    Memories,   \* identifiers, ordered as their strings are
    Facts,      \* hashes of a semantic key within a scope
    NoFact,
    Keys,       \* idempotency keys
    Requests,   \* the requests clients make
    Clients,
    MaxVersion, \* bound: versions of a memory
    MaxRequests \* bound: requests made

Creates == [op : {"create"}, key : Keys, status : {"candidate", "active"},
            fact : Facts \cup {NoFact}, replaces : Memories \cup {0}]
Updates == [op : {"update"}, m : Memories, key : Keys, expects : 1..MaxVersion,
            corrects : BOOLEAN, status : {"keep", "active", "rejected"},
            fact : Facts \cup {NoFact, "keep"}, replaces : Memories \cup {0}]
Deletes == [op : {"delete"}, m : Memories]

\* What the schemas admit: MemoryCreate, MemoryUpdate.
Valid(q) ==
    \/ q \in Creates /\ (q.replaces # 0 => q.status = "active" /\ q.fact # NoFact)
    \/ /\ q \in Updates
       /\ q.corrects \/ q.status # "keep" \/ q.fact # "keep"
       /\ q.replaces # 0 => q.status = "active" /\ q.fact \in Facts
    \/ q \in Deletes

ASSUME MemoryVersionsAssumption ==
    /\ Memories \subseteq Nat \ {0}
    /\ NoFact \notin Facts /\ "keep" \notin Facts
    /\ \A q \in Requests : Valid(q)
    /\ MaxVersion \in Nat \ {0} /\ MaxRequests \in Nat

VARIABLES
    memory,   \* identifier -> [status, version, fact, active, request]
    versions, \* identifier -> its versions: the key that made each, its text, its terms
    changes,  \* identifier -> the requests its mutations record, its creation included
    client,   \* client -> its transaction and its answer
    requests  \* requests made

vars == <<memory, versions, changes, client, requests>>

NoRequest == [op |-> "none"]
Absent == [status |-> "none", version |-> 0, fact |-> NoFact, active |-> NoFact,
           request |-> NoRequest]
Idle == [at |-> "idle", req |-> NoRequest, id |-> 0, before |-> 0, replay |-> {}, sees |-> 0,
         holds |-> {}, answer |-> "none"]

\* Type correctness.
TypeOK ==
    /\ memory \in [Memories -> [status : {"none", "candidate", "active", "superseded",
                                          "rejected", "deleted"},
                                version : 0..MaxVersion, fact : Facts \cup {NoFact},
                                active : Facts \cup {NoFact},
                                request : Requests \cup {NoRequest}]]
    /\ versions \in [Memories -> Seq([key : Keys, text : BOOLEAN, terms : BOOLEAN])]
    /\ changes \in [Memories -> SUBSET Requests]
    /\ client \in [Clients -> [at : {"idle", "look", "lock", "supersede", "flush", "commit",
                                     "answered"},
                               req : Requests \cup {NoRequest}, id : Memories \cup {0},
                               before : Memories \cup {0}, replay : SUBSET Requests,
                               sees : 0..MaxVersion, holds : SUBSET Memories,
                               answer : {"none", "done", "replayed", "refused",
                                         "error"}]]
    /\ requests \in 0..MaxRequests

Init ==
    /\ memory = [m \in Memories |-> Absent]
    /\ versions = [m \in Memories |-> <<>>]
    /\ changes = [m \in Memories |-> {}]
    /\ client = [c \in Clients |-> Idle]
    /\ requests = 0

Exists(m) == memory[m].status # "none"
Version(k) == [key |-> k, text |-> TRUE, terms |-> TRUE]

\* The memory a transaction writes, and the one it replaces.
Own(c) == IF client[c].req.op = "create" THEN client[c].id ELSE client[c].req.m

Status(c) ==
    LET q == client[c].req IN
    IF q.op = "create" THEN q.status
    ELSE IF q.status = "keep" THEN memory[q.m].status ELSE q.status

Fact(c) ==
    LET q == client[c].req IN
    IF q.op = "update" /\ q.fact = "keep" THEN memory[q.m].fact ELSE q.fact

\* The entry of the unique index over active_semantic_key_hash.
Claim(c) ==
    IF client[c].req.op # "delete" /\ Status(c) = "active" THEN Fact(c) ELSE NoFact

Others(c) == Clients \ {c}
Held(c, m) == \E d \in Others(c) : m \in client[d].holds
Written(c) == {d \in Others(c) : client[d].at = "commit"}

Goes(c, at) == client' = [client EXCEPT ![c].at = at]

\* The end of a request; a refusal rolls back.
Answer(c, a) ==
    client' = [client EXCEPT ![c] = [Idle EXCEPT !.at = "answered", !.req = client[c].req,
                                                 !.answer = a]]

Read == UNCHANGED <<memory, versions, changes, requests>>

Keyed(k) == {m \in Memories : Exists(m) /\ memory[m].request.key = k}

\* What a plain look-up of the creation's key finds.
CreationSeen(q) == IF Keyed(q.key) = {} THEN 0 ELSE CHOOSE m \in Keyed(q.key) : TRUE

-----------------------------------------------------------------------------
\* A request is authorized, which opens its snapshot.
Begin(c, q) ==
    /\ client[c].at \in {"idle", "answered"}
    /\ requests < MaxRequests /\ requests' = requests + 1
    /\ q.op # "create" => Exists(q.m)
    /\ client' = [client EXCEPT ![c] =
          IF q.op = "create"
          THEN [Idle EXCEPT !.at = "look", !.req = q, !.before = CreationSeen(q)]
          ELSE [Idle EXCEPT !.at = "lock", !.req = q, !.sees = memory[q.m].version,
                            !.replay = IF q.op = "delete" THEN {}
                                       ELSE {r \in changes[q.m] : r.key = q.key}]]
    /\ UNCHANGED <<memory, versions, changes>>

\* Mutant: the stored request is not compared.
ReplayedUnchecked(c, q, stored) == Answer(c, "replayed")

\* An earlier use of the key answers for the same request only.
Replayed(c, q, stored) == Answer(c, IF stored = q THEN "replayed" ELSE "refused")

\* create_memory: an earlier use of the key, or a new identifier.
LookUp(c) ==
    LET q == client[c].req IN
    /\ client[c].at = "look"
    /\ IF client[c].before # 0 THEN Replayed(c, q, memory[client[c].before].request)
       ELSE \E m \in Memories :
               /\ ~Exists(m) /\ \A d \in Clients : client[d].id # m
               /\ client' = [client EXCEPT ![c].id = m, ![c].at =
                                IF q.replaces = 0 THEN "flush" ELSE "supersede"]
    /\ Read

\* validate_memory_status_transition, and corrections of live memories only.
Allowed(m, q) ==
    LET s == memory[m].status IN
    /\ q.corrects => s \in {"candidate", "active"}
    /\ q.status \in {"keep", s} \/ (s = "candidate" /\ q.status \in {"active", "rejected"})

\* Mutant: optimistic on the request's word alone.
CurrentAnyVersion(c, q) == memory[q.m].status # "deleted"

\* The version the request expects is the one in the row and in the snapshot.
Current(c, q) ==
    /\ memory[q.m].status # "deleted"
    /\ memory[q.m].version = q.expects
    /\ client[c].sees = memory[q.m].version

Locked(c, m) ==
    LET q == client[c].req IN
    client' = [client EXCEPT ![c].holds = {m}, ![c].at =
                  CASE q.op = "delete" -> "commit"
                    [] q.op = "update" /\ q.replaces # 0 -> "supersede"
                    [] OTHER -> "flush"]

\* _update_memory_transaction, up to the replacement.
LockForUpdate(c) ==
    LET q == client[c].req IN
    /\ client[c].at = "lock" /\ q.op = "update"
    /\ ~Held(c, q.m)
    /\ IF client[c].replay # {}
       THEN Replayed(c, q, CHOOSE r \in client[c].replay : TRUE)
       ELSE IF Current(c, q) /\ Allowed(q.m, q) THEN Locked(c, q.m) ELSE Answer(c, "refused")
    /\ Read

LockForDelete(c) ==
    LET q == client[c].req IN
    /\ client[c].at = "lock" /\ q.op = "delete"
    /\ ~Held(c, q.m)
    /\ IF memory[q.m].status = "deleted" THEN Answer(c, "done") ELSE Locked(c, q.m)
    /\ Read

\* _supersede_replaced_memory: the named memory, if it is the active one for the fact.
Active(f) == {m \in Memories : memory[m].active = f}

FactBusy(c, f) == \E d \in Written(c) : Claim(d) = f

Supersede(c) ==
    LET q == client[c].req
        existing == Active(Fact(c)) \ {Own(c)} IN
    /\ client[c].at = "supersede"
    /\ ~FactBusy(c, Fact(c)) /\ \A m \in existing : ~Held(c, m)
    /\ IF existing = {q.replaces}
       THEN client' = [client EXCEPT ![c].holds = @ \cup existing, ![c].at = "flush"]
       ELSE Answer(c, "refused")
    /\ Read

\* The flush writes changed rows in the order of their identifiers, then new rows: a
\* memory that becomes active must not meet the entry of the one it replaces.
Gone(c, m) ==
    LET q == client[c].req IN m = q.replaces /\ (q.op = "create" \/ m < Own(c))

FactTaken(c) ==
    Claim(c) # NoFact /\ \E m \in Active(Claim(c)) \ {Own(c)} : ~Gone(c, m)

KeyTaken(c) ==
    LET q == client[c].req IN
    IF q.op = "create" THEN Keyed(q.key) # {} ELSE \E r \in changes[q.m] : r.key = q.key

\* An entry another transaction wrote, and has not committed, is waited for.
Waits(c) ==
    LET q == client[c].req IN
    \/ Claim(c) # NoFact
       /\ (FactBusy(c, Claim(c))
           \/ \E m \in Active(Claim(c)) : \E d \in Written(c) : m \in client[d].holds)
    \/ q.op = "create"
       /\ \E d \in Written(c) : client[d].req.op = "create" /\ client[d].req.key = q.key

Flush(c) ==
    /\ client[c].at = "flush" /\ ~Waits(c)
    /\ ~FactTaken(c) /\ ~KeyTaken(c)
    /\ Goes(c, "commit")
    /\ Read

\* IntegrityError: a creation looks again, in a new snapshot, for its key.
FlushRefused(c) ==
    LET q == client[c].req IN
    /\ client[c].at = "flush" /\ ~Waits(c)
    /\ FactTaken(c) \/ KeyTaken(c)
    /\ IF q.op = "create" /\ KeyTaken(c)
       THEN Replayed(c, q, memory[CreationSeen(q)].request)
       ELSE Answer(c, "refused")
    /\ Read

\* Lock wait timeout or deadlock: OperationalError, a stable conflict, but for a creation
\* that locks the memory it replaces: it does so before its try, and answers an error.
LockFails(c) ==
    /\ \/ client[c].at = "lock" /\ Held(c, client[c].req.m)
       \/ client[c].at = "supersede"
          /\ (FactBusy(c, Fact(c)) \/ \E m \in Active(Fact(c)) \ {Own(c)} : Held(c, m))
       \/ client[c].at = "flush" /\ Waits(c)
    /\ Answer(c, IF client[c].req.op = "create" /\ client[c].at = "supersede"
                 THEN "error" ELSE "refused")
    /\ Read

\* Mutant: the entry of the index follows the status only.
WrittenRowKeepsEntry(c) ==
    LET q == client[c].req IN
    IF q.op = "create"
    THEN [status |-> q.status, version |-> 1, fact |-> q.fact, active |-> Claim(c), request |-> q]
    ELSE [memory[q.m] EXCEPT !.status = Status(c), !.fact = Fact(c),
                             !.version = IF q.corrects THEN @ + 1 ELSE @,
                             !.active = IF memory[q.m].status = Status(c) THEN @ ELSE Claim(c)]

\* The row as the transaction writes it.
WrittenRow(c) ==
    LET q == client[c].req IN
    IF q.op = "create"
    THEN [status |-> q.status, version |-> 1, fact |-> q.fact, active |-> Claim(c), request |-> q]
    ELSE [memory[q.m] EXCEPT !.status = Status(c), !.fact = Fact(c),
                             !.version = IF q.corrects THEN @ + 1 ELSE @,
                             !.active = Claim(c)]

Superseded(m) == [memory[m] EXCEPT !.status = "superseded", !.active = NoFact]

CommitWrite(c) ==
    LET q == client[c].req IN
    /\ client[c].at = "commit" /\ q.op # "delete"
    /\ q.op = "update" /\ q.corrects => memory[q.m].version < MaxVersion
    /\ memory' = [m \in Memories |->
          CASE m = Own(c) -> WrittenRow(c)
            [] m # Own(c) /\ m = q.replaces -> Superseded(m)
            [] OTHER -> memory[m]]
    /\ versions' = [versions EXCEPT ![Own(c)] =
          IF q.op = "create" \/ q.corrects THEN Append(@, Version(q.key)) ELSE @]
    /\ changes' = [changes EXCEPT ![Own(c)] = @ \cup {q}]
    /\ Answer(c, "done")
    /\ UNCHANGED requests

\* Mutant: the current version only.
ErasedCurrent(m) ==
    [v \in DOMAIN versions[m] |->
        IF v = memory[m].version THEN [versions[m][v] EXCEPT !.text = FALSE, !.terms = FALSE]
        ELSE versions[m][v]]

Erased(m) ==
    [v \in DOMAIN versions[m] |-> [versions[m][v] EXCEPT !.text = FALSE, !.terms = FALSE]]

\* _delete_memory_transaction.
CommitDelete(c) ==
    LET q == client[c].req IN
    /\ client[c].at = "commit" /\ q.op = "delete"
    /\ memory' = [memory EXCEPT ![q.m].status = "deleted", ![q.m].active = NoFact]
    /\ versions' = [versions EXCEPT ![q.m] = Erased(q.m)]
    /\ Answer(c, "done")
    /\ UNCHANGED <<changes, requests>>

\* The process or the connection dies: nothing of the transaction remains.
Dies(c) ==
    /\ client[c].at \notin {"idle", "answered"}
    /\ client' = [client EXCEPT ![c] = Idle]
    /\ Read

Next ==
    \E c \in Clients :
       \/ \E q \in Requests : Begin(c, q)
       \/ LookUp(c) \/ LockForUpdate(c) \/ LockForDelete(c) \/ Supersede(c)
       \/ Flush(c) \/ FlushRefused(c) \/ LockFails(c)
       \/ CommitWrite(c) \/ CommitDelete(c) \/ Dies(c)

Spec == Init /\ [][Next]_vars

-----------------------------------------------------------------------------
(* Properties *)

\* A fact has at most one active memory, and the index says which: a memory is in it
\* exactly while it is active, under the fact it states now (the unique index alone
\* does not keep a correction or a replacement from leaving the entry behind).
OneActiveFact ==
    \A m \in Memories :
       /\ memory[m].active = IF memory[m].status = "active" THEN memory[m].fact ELSE NoFact
       /\ \A n \in Memories \ {m} : memory[m].active # NoFact => memory[n].active # memory[m].active

\* Each correction was made on the version its caller had read: the versions after the
\* first are those of the recorded corrections, in the order they expected.
CorrectionsInOrder ==
    \A m \in Memories :
       LET corrections == {r \in changes[m] : r.op = "update" /\ r.corrects} IN
       /\ Cardinality(corrections) = Len(versions[m]) - (IF Exists(m) THEN 1 ELSE 0)
       /\ \A r \in corrections :
             r.expects + 1 \in DOMAIN versions[m] /\ versions[m][r.expects + 1].key = r.key

\* A deleted memory keeps no text and no search term in any version, whichever
\* correction was under way.
ErasedStays ==
    \A m \in Memories : memory[m].status = "deleted" =>
       \A v \in DOMAIN versions[m] : ~versions[m][v].text /\ ~versions[m][v].terms

\* An answer tells the truth: what was done or replayed is recorded under that key with
\* that very request.
AnswersRecorded ==
    \A c \in Clients : client[c].answer \in {"done", "replayed"} =>
       LET q == client[c].req IN
       CASE q.op = "create" -> \E m \in Memories : memory[m].request = q
         [] q.op = "update" -> q \in changes[q.m]
         [] OTHER -> memory[q.m].status = "deleted"

=============================================================================
