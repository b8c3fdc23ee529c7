----------------------- MODULE MemoryVersions_proofs -----------------------
(***************************************************************************)
(* Proofs about MemoryVersions for any number of memories, facts, keys,    *)
(* clients and requests.  IInv adds to the properties what a transaction   *)
(* that is not over knows: which rows it has to itself, and that what it   *)
(* has checked about them still holds when it commits.                     *)
(***************************************************************************)
EXTENDS MemoryVersions, FiniteSetTheorems, SequenceTheorems, TLAPS

-----------------------------------------------------------------------------
(* The inductive invariant *)

Corrections(S) == {r \in S : r.op = "update" /\ r.corrects}

\* What belongs together in the rows of one memory.
RowsAgree ==
    \A m \in Memories :
       /\ Exists(m) <=> memory[m].version > 0
       /\ Len(versions[m]) = memory[m].version
       /\ ~Exists(m) => changes[m] = {} /\ memory[m].request = NoRequest
       /\ IsFiniteSet(changes[m])

\* A transaction under way.
Busy(c) == client[c].at \in {"supersede", "flush", "commit"}

\* Where each request may stand, and that one that is over keeps nothing.
Positions ==
    \A c \in Clients :
       /\ client[c].at # "idle" => client[c].req \in Requests
       /\ client[c].at = "look" => client[c].req.op = "create"
       /\ client[c].at = "lock" => /\ client[c].req.op \in {"update", "delete"}
                                  /\ Exists(client[c].req.m)
       /\ client[c].at \in {"supersede", "flush"} => client[c].req.op \in {"create", "update"}
       /\ client[c].at = "supersede" => client[c].req.replaces # 0
       /\ client[c].id # 0 => Busy(c) /\ client[c].req.op = "create"
       /\ client[c].holds # {} => Busy(c)
       /\ client[c].at # "answered" => client[c].answer = "none"

\* A new memory's identifier is nobody else's.
Chosen ==
    \A c \in Clients : Busy(c) /\ client[c].req.op = "create" =>
       /\ client[c].id \in Memories
       /\ ~Exists(client[c].id)
       /\ \A d \in Others(c) : client[d].id # client[c].id

\* A locked row exists and has one holder.
Locks ==
    \A c \in Clients : \A m \in client[c].holds : Exists(m) /\ ~Held(c, m)

\* What an update or a deletion has checked of its own row.
OwnKnown ==
    \A c \in Clients : Busy(c) /\ client[c].req.op # "create" =>
       /\ client[c].req.m \in client[c].holds
       /\ client[c].req.op = "update" =>
             /\ memory[client[c].req.m].status # "deleted"
             /\ memory[client[c].req.m].version = client[c].req.expects

\* What it has checked of the memory it replaces.
ReplacedKnown ==
    \A c \in Clients :
       /\ client[c].at \in {"flush", "commit"} /\ client[c].req.op # "delete"
       /\ client[c].req.replaces # 0
       => /\ client[c].req.replaces \in client[c].holds
          /\ client[c].req.replaces # Own(c)
          /\ memory[client[c].req.replaces].status # "deleted"

\* The entry of the index a transaction has written is its own.
Claims ==
    \A c \in Clients : client[c].at = "commit" /\ Claim(c) # NoFact =>
       /\ \A m \in Active(Claim(c)) : m = Own(c) \/ m = client[c].req.replaces
       /\ \A d \in Others(c) : client[d].at = "commit" => Claim(d) # Claim(c)

\* So is its key.
KeysFree ==
    \A c \in Clients : client[c].at = "commit" /\ client[c].req.op = "update" =>
       \A r \in changes[client[c].req.m] : r.key # client[c].req.key

\* What a request was told of an earlier use of its key was there.
ReplaysKnown ==
    \A c \in Clients :
       /\ client[c].at = "look" /\ client[c].before # 0 => Exists(client[c].before)
       /\ client[c].at = "lock" => client[c].replay \subseteq changes[client[c].req.m]

Transactions ==
    /\ Positions /\ Chosen /\ Locks /\ OwnKnown /\ ReplacedKnown
    /\ Claims /\ KeysFree /\ ReplaysKnown

Promised == OneActiveFact /\ CorrectionsInOrder /\ ErasedStays /\ AnswersRecorded

IInv == TypeOK /\ RowsAgree /\ Transactions /\ Promised

-----------------------------------------------------------------------------
(* Requests, and steps of one client *)

Rows == <<memory, versions, changes>>

LEMMA RequestShape ==
    ASSUME NEW q \in Requests
    PROVE /\ q.op \in {"create", "update", "delete"}
          /\ q.op = "create" =>
                /\ q.key \in Keys /\ q.status \in {"candidate", "active"}
                /\ q.fact \in Facts \cup {NoFact} /\ q.replaces \in Memories \cup {0}
                /\ q.replaces # 0 => q.fact # NoFact
          /\ q.op = "update" =>
                /\ q.m \in Memories /\ q.key \in Keys /\ q.expects \in 1..MaxVersion
                /\ q.corrects \in BOOLEAN /\ q.status \in {"keep", "active", "rejected"}
                /\ q.fact \in Facts \cup {NoFact, "keep"}
                /\ q.replaces \in Memories \cup {0}
                /\ q.replaces # 0 => q.fact \in Facts
          /\ q.op = "delete" => q.m \in Memories
BY MemoryVersionsAssumption DEF Valid, Creates, Updates, Deletes

\* The steps that commit nothing, and the two that do.
Reads(c) ==
    \/ \E q \in Requests : Begin(c, q)
    \/ LookUp(c) \/ LockForUpdate(c) \/ LockForDelete(c) \/ Supersede(c)
    \/ Flush(c) \/ FlushRefused(c) \/ LockFails(c) \/ Dies(c)

LEMMA StepKinds ==
    ASSUME [Next]_vars
    PROVE \/ UNCHANGED vars
          \/ \E c \in Clients : Reads(c) \/ CommitWrite(c) \/ CommitDelete(c)
BY DEF Next, Reads

\* A read leaves the rows alone, and every step the other clients.
LEMMA ReadsOnly ==
    ASSUME NEW c \in Clients, Reads(c)
    PROVE UNCHANGED Rows
BY DEF Reads, Rows, Begin, LookUp, LockForUpdate, LockForDelete, Supersede, Flush,
       FlushRefused, LockFails, Dies, Read

LEMMA OneClient ==
    ASSUME TypeOK, NEW c \in Clients, Reads(c) \/ CommitWrite(c) \/ CommitDelete(c)
    PROVE \A d \in Others(c) : client'[d] = client[d]
BY DEF Reads, Begin, LookUp, LockForUpdate, LockForDelete, Supersede, Flush,
       FlushRefused, LockFails, Dies, CommitWrite, CommitDelete, Replayed, Locked,
       Answer, Goes, Others, TypeOK

-----------------------------------------------------------------------------
(* Types *)

ClientRecord == [at : {"idle", "look", "lock", "supersede", "flush", "commit", "answered"},
                 req : Requests \cup {NoRequest}, id : Memories \cup {0},
                 before : Memories \cup {0}, replay : SUBSET Requests,
                 sees : 0..MaxVersion, holds : SUBSET Memories,
                 answer : {"none", "done", "replayed", "refused", "error"}]

MemoryRecord == [status : {"none", "candidate", "active", "superseded", "rejected", "deleted"},
                 version : 0..MaxVersion, fact : Facts \cup {NoFact},
                 active : Facts \cup {NoFact}, request : Requests \cup {NoRequest}]

VersionRecord == [key : Keys, text : BOOLEAN, terms : BOOLEAN]

LEMMA TypeOKSplit ==
    TypeOK <=> /\ memory \in [Memories -> MemoryRecord]
               /\ versions \in [Memories -> Seq(VersionRecord)]
               /\ changes \in [Memories -> SUBSET Requests]
               /\ client \in [Clients -> ClientRecord]
               /\ requests \in 0..MaxRequests
BY DEF TypeOK, MemoryRecord, VersionRecord, ClientRecord

LEMMA IdleIsClient == Idle \in ClientRecord
BY MemoryVersionsAssumption DEF Idle, ClientRecord

\* A request that is over keeps nothing but its answer.
Ends(c) ==
    /\ client[c].at # "idle"
    /\ \/ client' = [client EXCEPT ![c] = Idle]
       \/ \E a \in {"done", "replayed", "refused", "error"} : Answer(c, a)

LEMMA EndsType ==
    ASSUME TypeOK, NEW c \in Clients, Ends(c)
    PROVE client' \in [Clients -> ClientRecord]
<1>1. ASSUME NEW a \in {"done", "replayed", "refused", "error"}
      PROVE [Idle EXCEPT !.at = "answered", !.req = client[c].req, !.answer = a]
               \in ClientRecord
  BY IdleIsClient, TypeOKSplit DEF ClientRecord, Idle
<1> QED BY <1>1, IdleIsClient, TypeOKSplit DEF Ends, Answer

\* A creation that found no earlier use of its key has an identifier of its own.
Chooses(c) ==
    /\ client[c].at = "look"
    /\ \E m \in Memories :
          /\ ~Exists(m) /\ \A d \in Clients : client[d].id # m
          /\ client' = [client EXCEPT ![c].id = m, ![c].at =
                           IF client[c].req.replaces = 0 THEN "flush" ELSE "supersede"]

\* An update or deletion has its row to itself.
Takes(c) ==
    /\ client[c].at = "lock"
    /\ ~Held(c, client[c].req.m)
    /\ client[c].req.op = "update" =>
          /\ client[c].replay = {}
          /\ Current(c, client[c].req)
    /\ Locked(c, client[c].req.m)

Gains(c) ==
    /\ client[c].at = "supersede"
    /\ Active(Fact(c)) \ {Own(c)} = {client[c].req.replaces}
    /\ ~Held(c, client[c].req.replaces)
    /\ client' = [client EXCEPT ![c].holds = @ \cup {client[c].req.replaces},
                                ![c].at = "flush"]

LEMMA ReadKinds ==
    ASSUME NEW c \in Clients, Reads(c)
    PROVE \/ Ends(c) \/ Chooses(c) \/ Takes(c) \/ Gains(c) \/ Flush(c)
          \/ \E q \in Requests : Begin(c, q)
<1>1. CASE LookUp(c)
  BY <1>1 DEF LookUp, Replayed, Ends, Chooses
<1>2. CASE LockForUpdate(c)
  BY <1>2 DEF LockForUpdate, Replayed, Ends, Takes
<1>3. CASE LockForDelete(c)
  BY <1>3 DEF LockForDelete, Ends, Takes
<1>4. CASE Supersede(c)
  BY <1>4 DEF Supersede, Ends, Gains
<1>5. CASE FlushRefused(c)
  BY <1>5 DEF FlushRefused, Replayed, Ends
<1>6. CASE LockFails(c) \/ Dies(c)
  BY <1>6 DEF LockFails, Dies, Ends
<1> QED BY <1>1, <1>2, <1>3, <1>4, <1>5, <1>6 DEF Reads

LEMMA ReadsType ==
    ASSUME TypeOK, Positions, NEW c \in Clients, Reads(c)
    PROVE TypeOK'
<1>1. client[c] \in ClientRecord
  BY TypeOKSplit
<1>2. client[c].at # "idle" => client[c].req \in Requests
  BY DEF Positions
<1>3. client' \in [Clients -> ClientRecord]
  <2>1. CASE Ends(c)
    BY <2>1, EndsType
  <2>2. CASE Chooses(c)
    <3>1. PICK m \in Memories :
             client' = [client EXCEPT ![c].id = m, ![c].at =
                          IF client[c].req.replaces = 0 THEN "flush" ELSE "supersede"]
      BY <2>2 DEF Chooses
    <3>2. PICK at \in {"flush", "supersede"} : client' = [client EXCEPT ![c].id = m, ![c].at = at]
      BY <3>1
    <3>3. [client[c] EXCEPT !.id = m, !.at = at] \in ClientRecord
      BY <1>1 DEF ClientRecord
    <3> QED BY <3>2, <3>3, TypeOKSplit
  <2>3. CASE Takes(c)
    <3>1. client[c].req.op = "delete" \/ client[c].req.op = "update"
      BY <2>3 DEF Takes, Positions
    <3>2. client[c].req.m \in Memories
      BY <1>2, <2>3, <3>1, RequestShape DEF Takes
    <3>3. PICK at \in {"commit", "supersede", "flush"} :
             client' = [client EXCEPT ![c].holds = {client[c].req.m}, ![c].at = at]
      BY <2>3 DEF Takes, Locked
    <3>4. [client[c] EXCEPT !.holds = {client[c].req.m}, !.at = at] \in ClientRecord
      BY <1>1, <3>2 DEF ClientRecord
    <3> QED BY <3>3, <3>4, TypeOKSplit
  <2>4. CASE Gains(c)
    <3>1. client[c].req.replaces \in Memories
      BY <2>4 DEF Gains, Active
    <3>2. [client[c] EXCEPT !.holds = @ \cup {client[c].req.replaces}, !.at = "flush"]
             \in ClientRecord
      BY <1>1, <3>1 DEF ClientRecord
    <3> QED BY <2>4, <3>2, TypeOKSplit DEF Gains
  <2>5. CASE Flush(c)
    <3>1. [client[c] EXCEPT !.at = "commit"] \in ClientRecord
      BY <1>1 DEF ClientRecord
    <3> QED BY <2>5, <3>1, TypeOKSplit DEF Flush, Goes
  <2>6. ASSUME NEW q \in Requests, Begin(c, q)
        PROVE client' \in [Clients -> ClientRecord]
    <3>1. CASE q.op = "create"
      <4>1. CreationSeen(q) \in Memories \cup {0}
        BY DEF CreationSeen, Keyed
      <4> QED BY <2>6, <3>1, <4>1, IdleIsClient, TypeOKSplit DEF Begin, ClientRecord, Idle
    <3>2. CASE q.op # "create"
      <4>1. q.m \in Memories
        BY <3>2, RequestShape
      <4>2. memory[q.m].version \in 0..MaxVersion /\ changes[q.m] \subseteq Requests
        BY <4>1, TypeOKSplit DEF MemoryRecord
      <4> DEFINE told == IF q.op = "delete" THEN {} ELSE {r \in changes[q.m] : r.key = q.key}
      <4>3. told \in SUBSET Requests
        BY <4>2
      <4>4. client' = [client EXCEPT ![c] =
                  [Idle EXCEPT !.at = "lock", !.req = q, !.sees = memory[q.m].version,
                               !.replay = told]]
        BY <2>6, <3>2 DEF Begin
      <4> HIDE DEF told
      <4> QED BY <4>2, <4>3, <4>4, IdleIsClient, TypeOKSplit DEF ClientRecord, Idle
    <3> QED BY <3>1, <3>2
  <2> QED BY <2>1, <2>2, <2>3, <2>4, <2>5, <2>6, ReadKinds
<1>4. requests' \in 0..MaxRequests
  <2>1. \/ requests' = requests
        \/ requests < MaxRequests /\ requests' = requests + 1
    <3>1. CASE \E q \in Requests : Begin(c, q)
      BY <3>1 DEF Begin
    <3>2. CASE requests' = requests
      BY <3>2
    <3> QED BY <3>1, <3>2 DEF Reads, LookUp, LockForUpdate, LockForDelete, Supersede, Flush,
                              FlushRefused, LockFails, Dies, Read
  <2> QED BY <2>1, MemoryVersionsAssumption DEF TypeOK
<1> QED BY <1>3, <1>4, ReadsOnly, TypeOKSplit DEF Rows, TypeOK, ClientRecord

\* What a commit is about.
LEMMA CommitShape ==
    ASSUME TypeOK, Transactions, NEW c \in Clients, client[c].at = "commit"
    PROVE /\ client[c].req \in Requests
          /\ client[c].req.op \in {"create", "update", "delete"}
          /\ Own(c) \in Memories
          /\ client[c].req.op # "create" => Own(c) = client[c].req.m
          /\ client[c].req.op = "create" => Own(c) = client[c].id
BY RequestShape DEF Transactions, Positions, Chosen, Busy, Own

LEMMA FactType ==
    ASSUME TypeOK, NEW c \in Clients, client[c].req \in Requests,
           client[c].req.op \in {"create", "update"}
    PROVE Fact(c) \in Facts \cup {NoFact}
BY RequestShape, TypeOKSplit DEF Fact, MemoryRecord

LEMMA ClaimType ==
    ASSUME TypeOK, NEW c \in Clients, client[c].req \in Requests
    PROVE Claim(c) \in Facts \cup {NoFact}
BY RequestShape, FactType DEF Claim

LEMMA WrittenType ==
    ASSUME TypeOK, Transactions, NEW c \in Clients, CommitWrite(c)
    PROVE WrittenRow(c) \in MemoryRecord
<1>1. client[c].at = "commit" /\ client[c].req.op # "delete"
  BY DEF CommitWrite
<1>2. client[c].req \in Requests /\ client[c].req.op \in {"create", "update"}
  BY <1>1, CommitShape
<1>3. Claim(c) \in Facts \cup {NoFact} /\ Fact(c) \in Facts \cup {NoFact}
  BY <1>2, ClaimType, FactType
<1>4. CASE client[c].req.op = "create"
  BY <1>2, <1>3, <1>4, RequestShape, MemoryVersionsAssumption DEF WrittenRow, MemoryRecord
<1>5. CASE client[c].req.op = "update"
  <2> DEFINE q == client[c].req
             n == IF q.corrects THEN memory[q.m].version + 1 ELSE memory[q.m].version
  <2>1. q.m \in Memories /\ memory[q.m] \in MemoryRecord /\ q.corrects \in BOOLEAN
    BY <1>2, <1>5, RequestShape, TypeOKSplit
  <2>2. n \in 0..MaxVersion
    BY <1>5, <2>1, MemoryVersionsAssumption DEF CommitWrite, MemoryRecord
  <2>3. Status(c) \in {"none", "candidate", "active", "superseded", "rejected", "deleted"}
    BY <1>2, <1>5, <2>1, RequestShape DEF Status, MemoryRecord
  <2>4. WrittenRow(c) = [memory[q.m] EXCEPT !.status = Status(c), !.fact = Fact(c),
                                            !.version = n, !.active = Claim(c)]
    BY <1>5, <2>1 DEF WrittenRow, MemoryRecord
  <2> HIDE DEF q, n
  <2> QED BY <1>3, <2>1, <2>2, <2>3, <2>4 DEF MemoryRecord
<1> QED BY <1>2, <1>4, <1>5

\* The rows after the two commits, one memory at a time.
LEMMA WriteRows ==
    ASSUME TypeOK, Transactions, NEW c \in Clients, CommitWrite(c), NEW m \in Memories
    PROVE /\ m = Own(c) => memory'[m] = WrittenRow(c)
          /\ m # Own(c) /\ m = client[c].req.replaces => memory'[m] = Superseded(m)
          /\ m # Own(c) /\ m # client[c].req.replaces => memory'[m] = memory[m]
          /\ versions'[m] = IF m = Own(c) /\ (client[c].req.op = "create"
                                               \/ client[c].req.corrects)
                            THEN Append(versions[m], Version(client[c].req.key))
                            ELSE versions[m]
          /\ changes'[m] = IF m = Own(c) THEN changes[m] \cup {client[c].req} ELSE changes[m]
BY TypeOKSplit DEF CommitWrite

LEMMA DeleteRows ==
    ASSUME TypeOK, Transactions, NEW c \in Clients, CommitDelete(c), NEW m \in Memories
    PROVE /\ m = Own(c) => /\ memory'[m] = [memory[m] EXCEPT !.status = "deleted",
                                                             !.active = NoFact]
                           /\ versions'[m] = Erased(m)
          /\ m # Own(c) => memory'[m] = memory[m] /\ versions'[m] = versions[m]
          /\ changes'[m] = changes[m]
<1>1. client[c].at = "commit" /\ client[c].req.op = "delete"
  BY DEF CommitDelete
<1>2. Own(c) = client[c].req.m /\ Own(c) \in Memories
  BY <1>1, CommitShape
<1> QED BY <1>2, TypeOKSplit DEF CommitDelete, MemoryRecord

LEMMA ErasedType ==
    ASSUME TypeOK, NEW m \in Memories
    PROVE /\ Erased(m) \in Seq(VersionRecord)
          /\ Len(Erased(m)) = Len(versions[m])
          /\ DOMAIN Erased(m) = DOMAIN versions[m]
          /\ \A v \in DOMAIN versions[m] :
                /\ ~Erased(m)[v].text /\ ~Erased(m)[v].terms
                /\ Erased(m)[v].key = versions[m][v].key
<1>1. versions[m] \in Seq(VersionRecord)
  BY TypeOKSplit
<1>2. PICK n \in Nat : versions[m] \in [1..n -> VersionRecord]
  BY <1>1, SeqDef
<1>3. \A v \in 1..n : versions[m][v] \in VersionRecord
  BY <1>2
<1>4. \A v \in 1..n :
         /\ [versions[m][v] EXCEPT !.text = FALSE, !.terms = FALSE] \in VersionRecord
         /\ [versions[m][v] EXCEPT !.text = FALSE, !.terms = FALSE].text = FALSE
         /\ [versions[m][v] EXCEPT !.text = FALSE, !.terms = FALSE].terms = FALSE
         /\ [versions[m][v] EXCEPT !.text = FALSE, !.terms = FALSE].key = versions[m][v].key
  BY <1>3 DEF VersionRecord
<1>5. Erased(m) \in [1..n -> VersionRecord]
  BY <1>2, <1>4 DEF Erased
<1>6. Erased(m) \in Seq(VersionRecord)
  BY <1>5, SeqDef
<1>7. Len(Erased(m)) = n /\ Len(versions[m]) = n
  BY <1>1, <1>2, <1>5, <1>6, LenProperties
<1> QED BY <1>2, <1>4, <1>5, <1>6, <1>7 DEF Erased

LEMMA CommitEnds ==
    ASSUME NEW c \in Clients, CommitWrite(c) \/ CommitDelete(c)
    PROVE Ends(c) /\ Answer(c, "done") /\ UNCHANGED requests /\ client[c].at = "commit"
BY DEF CommitWrite, CommitDelete, Ends

LEMMA CommitsType ==
    ASSUME TypeOK, Transactions, NEW c \in Clients, CommitWrite(c) \/ CommitDelete(c)
    PROVE TypeOK'
<1>1. client' \in [Clients -> ClientRecord] /\ requests' \in 0..MaxRequests
  BY CommitEnds, EndsType, TypeOKSplit
<1>2. CASE CommitWrite(c)
  <2> DEFINE q == client[c].req
  <2>1. q \in Requests /\ Own(c) \in Memories /\ q.op \in {"create", "update"}
    BY <1>2, CommitShape DEF CommitWrite
  <2>2. memory' \in [Memories -> MemoryRecord]
    <3>1. \A m \in Memories : Superseded(m) \in MemoryRecord
      BY TypeOKSplit DEF Superseded, MemoryRecord
    <3>2. \A m \in Memories : memory'[m] \in MemoryRecord
      BY <1>2, <3>1, WriteRows, WrittenType, TypeOKSplit
    <3> QED BY <1>2, <3>2 DEF CommitWrite
  <2>3. versions' \in [Memories -> Seq(VersionRecord)]
    <3>1. Version(q.key) \in VersionRecord
      BY <2>1, RequestShape DEF Version, VersionRecord
    <3>2. \A m \in Memories : Append(versions[m], Version(q.key)) \in Seq(VersionRecord)
      BY <3>1, AppendProperties, TypeOKSplit
    <3> HIDE DEF q
    <3>3. versions' \in [Memories -> Seq(VersionRecord)]
            <=> \A m \in Memories : versions'[m] \in Seq(VersionRecord)
      BY <1>2, TypeOKSplit DEF CommitWrite
    <3> QED BY <1>2, <3>2, <3>3, WriteRows, TypeOKSplit DEF q
  <2>4. changes' \in [Memories -> SUBSET Requests]
    BY <1>2, <2>1, TypeOKSplit DEF CommitWrite
  <2> QED BY <1>1, <2>2, <2>3, <2>4, TypeOKSplit DEF TypeOK, MemoryRecord, VersionRecord,
            ClientRecord
<1>3. CASE CommitDelete(c)
  <2> DEFINE q == client[c].req
  <2>1. q.m \in Memories
    BY <1>3, CommitShape, RequestShape DEF CommitDelete
  <2>2. memory' \in [Memories -> MemoryRecord]
    <3>1. [memory[q.m] EXCEPT !.status = "deleted", !.active = NoFact] \in MemoryRecord
      <4>1. memory[q.m] \in MemoryRecord
        BY <2>1, TypeOKSplit
      <4> QED BY <4>1 DEF MemoryRecord
    <3>2. memory' = [memory EXCEPT ![q.m] =
                       [memory[q.m] EXCEPT !.status = "deleted", !.active = NoFact]]
      BY <1>3, <2>1, TypeOKSplit DEF CommitDelete
    <3> QED BY <3>1, <3>2, TypeOKSplit
  <2>3. versions' \in [Memories -> Seq(VersionRecord)]
    <3>1. Erased(q.m) \in Seq(VersionRecord)
      BY <2>1, ErasedType
    <3> QED BY <1>3, <3>1, TypeOKSplit DEF CommitDelete
  <2>4. changes' = changes
    BY <1>3 DEF CommitDelete
  <2> QED BY <1>1, <2>2, <2>3, <2>4, TypeOKSplit DEF TypeOK, MemoryRecord, VersionRecord,
            ClientRecord
<1> QED BY <1>2, <1>3

-----------------------------------------------------------------------------
(* Steps that commit nothing *)

\* Where the client stands after a step.
LEMMA EndsAfter ==
    ASSUME TypeOK, NEW c \in Clients, Ends(c)
    PROVE /\ client'[c].at \in {"idle", "answered"}
          /\ client'[c].id = 0 /\ client'[c].holds = {}
          /\ client'[c].at = "answered" => client'[c].req = client[c].req
          /\ client'[c].at = "idle" => client'[c].answer = "none"
<1>1. client \in [Clients -> ClientRecord]
  BY TypeOKSplit
<1>2. CASE client' = [client EXCEPT ![c] = Idle]
  BY <1>1, <1>2 DEF Idle
<1>3. ASSUME NEW a, Answer(c, a)
      PROVE /\ client'[c].at = "answered" /\ client'[c].id = 0 /\ client'[c].holds = {}
            /\ client'[c].req = client[c].req
  <2>1. client'[c] = [Idle EXCEPT !.at = "answered", !.req = client[c].req, !.answer = a]
    BY <1>1, <1>3 DEF Answer
  <2> QED BY <2>1 DEF Idle
<1> QED BY <1>2, <1>3 DEF Ends

LEMMA ChoosesAfter ==
    ASSUME TypeOK, NEW c \in Clients, Chooses(c)
    PROVE \E m \in Memories :
             /\ ~Exists(m) /\ \A d \in Clients : client[d].id # m
             /\ client'[c].at = IF client[c].req.replaces = 0 THEN "flush" ELSE "supersede"
             /\ client'[c].id = m /\ client'[c].holds = client[c].holds
             /\ client'[c].req = client[c].req /\ client'[c].answer = client[c].answer
BY TypeOKSplit DEF Chooses, ClientRecord

LEMMA TakesAfter ==
    ASSUME TypeOK, NEW c \in Clients, Takes(c)
    PROVE /\ client'[c].holds = {client[c].req.m}
          /\ client'[c].at \in {"commit", "supersede", "flush"}
          /\ client'[c].at = "commit" <=> client[c].req.op = "delete"
          /\ client'[c].at = "supersede" => client[c].req.replaces # 0
          /\ client'[c].at = "flush" => (client[c].req.op = "update" => client[c].req.replaces = 0)
          /\ client'[c].id = client[c].id
          /\ client'[c].req = client[c].req /\ client'[c].answer = client[c].answer
BY TypeOKSplit DEF Takes, Locked, ClientRecord

LEMMA GainsAfter ==
    ASSUME TypeOK, NEW c \in Clients, Gains(c)
    PROVE /\ client'[c].holds = client[c].holds \cup {client[c].req.replaces}
          /\ client'[c].at = "flush" /\ client'[c].id = client[c].id
          /\ client'[c].req = client[c].req /\ client'[c].answer = client[c].answer
BY TypeOKSplit DEF Gains, ClientRecord

LEMMA FlushAfter ==
    ASSUME TypeOK, NEW c \in Clients, Flush(c)
    PROVE /\ client'[c].holds = client[c].holds
          /\ client'[c].at = "commit" /\ client'[c].id = client[c].id
          /\ client'[c].req = client[c].req /\ client'[c].answer = client[c].answer
BY TypeOKSplit DEF Flush, Goes, ClientRecord

LEMMA BeginAfter ==
    ASSUME TypeOK, NEW c \in Clients, NEW q \in Requests, Begin(c, q)
    PROVE /\ client'[c].holds = {} /\ client'[c].id = 0 /\ client'[c].req = q
          /\ client'[c].answer = "none"
          /\ client'[c].at = IF q.op = "create" THEN "look" ELSE "lock"
          /\ q.op = "create" => client'[c].before = CreationSeen(q)
          /\ q.op # "create" => client'[c].replay = IF q.op = "delete" THEN {}
                                       ELSE {r \in changes[q.m] : r.key = q.key}
BY TypeOKSplit DEF Begin, Idle, ClientRecord

LEMMA ReadsKeepPositions ==
    ASSUME IInv, NEW c \in Clients, Reads(c)
    PROVE Positions'
<1>1. TypeOK /\ Positions /\ \A d \in Others(c) : client'[d] = client[d]
  BY OneClient DEF IInv, Transactions
<1> DEFINE Placed(d) ==
       /\ client'[d].at # "idle" => client'[d].req \in Requests
       /\ client'[d].at = "look" => client'[d].req.op = "create"
       /\ client'[d].at = "lock" => /\ client'[d].req.op \in {"update", "delete"}
                                   /\ Exists(client'[d].req.m)
       /\ client'[d].at \in {"supersede", "flush"} => client'[d].req.op \in {"create", "update"}
       /\ client'[d].at = "supersede" => client'[d].req.replaces # 0
       /\ client'[d].id # 0 => Busy(d)' /\ client'[d].req.op = "create"
       /\ client'[d].holds # {} => Busy(d)'
       /\ client'[d].at # "answered" => client'[d].answer = "none"
<1>2. ASSUME NEW d \in Others(c) PROVE Placed(d)
  BY <1>1, <1>2 DEF Positions, Others, Busy
<1>4. \A m : Exists(m)' <=> Exists(m)
  BY ReadsOnly DEF Rows, Exists
<1>3. Placed(c)
  <2>1. CASE Ends(c)
    BY <1>1, <2>1, EndsAfter DEF Positions, Busy, Ends
  <2>2. CASE Chooses(c)
    BY <1>1, <2>2, ChoosesAfter DEF Positions, Busy, Chooses
  <2>3. CASE Takes(c)
    BY <1>1, <2>3, TakesAfter DEF Positions, Busy, Takes
  <2>4. CASE Gains(c)
    <3>1. /\ client[c].at = "supersede"
          /\ client[c].req \in Requests /\ client[c].req.op \in {"create", "update"}
          /\ client[c].id # 0 => client[c].req.op = "create"
          /\ client[c].answer = "none"
      BY <1>1, <2>4 DEF Positions, Gains
    <3> QED BY <1>1, <2>4, <3>1, GainsAfter DEF Busy
  <2>5. CASE Flush(c)
    BY <1>1, <2>5, FlushAfter DEF Positions, Busy, Flush
  <2>6. ASSUME NEW q \in Requests, Begin(c, q) PROVE Placed(c)
    <3>1. q.op \in {"create", "update", "delete"}
      BY RequestShape
    <3>2. q.op # "create" => Exists(q.m)
      BY <2>6 DEF Begin
    <3> QED BY <1>1, <2>6, <3>1, <3>2, BeginAfter DEF Busy
  <2> QED BY <2>1, <2>2, <2>3, <2>4, <2>5, <2>6, ReadKinds
<1>5. \A d \in Clients : Placed(d)
  BY <1>2, <1>3 DEF Others
<1> QED BY <1>4, <1>5 DEF Positions

\* The replaced memory is another one, and it is active.
LEMMA GainsKnows ==
    ASSUME TypeOK, Positions, OneActiveFact, NEW c \in Clients, Gains(c)
    PROVE /\ client[c].req.replaces \in Memories \ {Own(c)}
          /\ memory[client[c].req.replaces].status = "active"
          /\ client[c].req.op \in {"create", "update"}
<1> DEFINE q == client[c].req
<1>1. q \in Requests /\ q.op \in {"create", "update"} /\ q.replaces # 0
  BY DEF Gains, Positions
<1>2. q.replaces \in Memories \ {Own(c)} /\ memory[q.replaces].active = Fact(c)
  BY DEF Gains, Active
<1>3. Fact(c) # NoFact
  BY <1>1, RequestShape, MemoryVersionsAssumption DEF Fact
<1>4. memory[q.replaces].status = "active"
  BY <1>2, <1>3 DEF OneActiveFact
<1> QED BY <1>1, <1>2, <1>4

LEMMA ReadsKeepChosen ==
    ASSUME IInv, NEW c \in Clients, Reads(c)
    PROVE Chosen'
<1>1. TypeOK /\ Positions /\ Chosen /\ \A d \in Others(c) : client'[d] = client[d]
  BY OneClient DEF IInv, Transactions
<1>2. \A m : Exists(m)' <=> Exists(m)
  BY ReadsOnly DEF Rows, Exists
<1>3. \/ client'[c].id = 0
      \/ client'[c].id = client[c].id /\ Busy(c) /\ client'[c].req = client[c].req
      \/ /\ client'[c].id \in Memories /\ ~Exists(client'[c].id)
         /\ \A d \in Others(c) : client[d].id # client'[c].id
  <2>1. CASE Ends(c)
    BY <1>1, <2>1, EndsAfter
  <2>2. CASE Chooses(c)
    BY <1>1, <2>2, ChoosesAfter DEF Others
  <2>3. CASE Takes(c)
    BY <1>1, <2>3, TakesAfter DEF Positions, Busy, Takes
  <2>4. CASE Gains(c)
    BY <1>1, <2>4, GainsAfter DEF Busy, Gains
  <2>5. CASE Flush(c)
    BY <1>1, <2>5, FlushAfter DEF Busy, Flush
  <2>6. ASSUME NEW q \in Requests, Begin(c, q) PROVE client'[c].id = 0
    BY <1>1, <2>6, BeginAfter
  <2> QED BY <2>1, <2>2, <2>3, <2>4, <2>5, <2>6, ReadKinds
<1>4. Busy(c)' /\ client'[c].req.op = "create" => client'[c].id # 0
  <2>1. CASE Ends(c)
    BY <1>1, <2>1, EndsAfter DEF Busy
  <2>2. CASE Chooses(c)
    BY <1>1, <2>2, ChoosesAfter, MemoryVersionsAssumption
  <2>3. CASE Takes(c)
    BY <1>1, <2>3, TakesAfter DEF Positions, Takes
  <2>4. CASE Gains(c)
    BY <1>1, <2>4, GainsAfter, MemoryVersionsAssumption DEF Busy, Gains, Chosen
  <2>5. CASE Flush(c)
    BY <1>1, <2>5, FlushAfter, MemoryVersionsAssumption DEF Busy, Flush, Chosen
  <2>6. ASSUME NEW q \in Requests, Begin(c, q) PROVE ~Busy(c)'
    BY <1>1, <2>6, BeginAfter DEF Busy
  <2> QED BY <2>1, <2>2, <2>3, <2>4, <2>5, <2>6, ReadKinds
<1>5. ASSUME NEW d \in Clients, Busy(d)', client'[d].req.op = "create"
      PROVE /\ client'[d].id \in Memories /\ ~Exists(client'[d].id)
            /\ \A e \in Others(d) : client'[e].id # client'[d].id
  <2>1. CASE d = c
    <3>1. /\ client'[c].id \in Memories /\ ~Exists(client'[c].id)
          /\ \A e \in Others(c) : client[e].id # client'[c].id
      <4>1. client'[c].id # 0
        BY <1>4, <1>5, <2>1
      <4>2. client[c].id # 0 => client[c].req.op = "create"
        BY <1>1 DEF Positions
      <4> QED BY <1>1, <1>3, <4>1, <4>2 DEF Chosen
    <3> QED BY <1>1, <2>1, <3>1
  <2>2. CASE d # c
    <3>1. d \in Others(c) /\ client'[d] = client[d] /\ Busy(d)
      BY <1>1, <1>5, <2>2 DEF Others, Busy
    <3>2. /\ client[d].id \in Memories /\ ~Exists(client[d].id)
          /\ \A e \in Others(d) : client[e].id # client[d].id
      BY <1>1, <1>5, <3>1 DEF Chosen
    <3>3. client'[c].id # client[d].id
      BY <1>3, <2>2, <3>1, <3>2, MemoryVersionsAssumption DEF Others
    <3>4. \A e \in Others(d) : client'[e].id # client[d].id
      BY <1>1, <3>2, <3>3 DEF Others
    <3> QED BY <3>1, <3>2, <3>4
  <2> QED BY <2>1, <2>2
<1> QED BY <1>2, <1>5 DEF Chosen, Others

LEMMA ReadsKeepLocks ==
    ASSUME IInv, NEW c \in Clients, Reads(c)
    PROVE Locks'
<1>1. TypeOK /\ Positions /\ Locks /\ OneActiveFact
      /\ \A d \in Others(c) : client'[d] = client[d]
  BY OneClient DEF IInv, Transactions, Promised
<1>2. \A m : Exists(m)' <=> Exists(m)
  BY ReadsOnly DEF Rows, Exists
<1>3. \A m \in client'[c].holds : Exists(m) /\ ~Held(c, m)
  <2>1. CASE Ends(c)
    BY <1>1, <2>1, EndsAfter
  <2>2. CASE Chooses(c)
    BY <1>1, <2>2, ChoosesAfter DEF Locks
  <2>3. CASE Takes(c)
    BY <1>1, <2>3, TakesAfter DEF Takes, Positions
  <2>4. CASE Gains(c)
    <3>1. Exists(client[c].req.replaces) /\ ~Held(c, client[c].req.replaces)
      BY <1>1, <2>4, GainsKnows DEF Gains, Exists
    <3> QED BY <1>1, <2>4, <3>1, GainsAfter DEF Locks
  <2>5. CASE Flush(c)
    BY <1>1, <2>5, FlushAfter DEF Locks
  <2>6. ASSUME NEW q \in Requests, Begin(c, q) PROVE client'[c].holds = {}
    BY <1>1, <2>6, BeginAfter
  <2> QED BY <2>1, <2>2, <2>3, <2>4, <2>5, <2>6, ReadKinds
<1>4. ASSUME NEW d \in Clients, NEW m \in client'[d].holds
      PROVE Exists(m)' /\ ~Held(d, m)'
  BY <1>1, <1>2, <1>3 DEF Locks, Held, Others
<1> QED BY <1>4 DEF Locks

LEMMA ReadsKeepOwnKnown ==
    ASSUME IInv, NEW c \in Clients, Reads(c)
    PROVE OwnKnown'
<1>1. TypeOK /\ Positions /\ OwnKnown /\ \A d \in Others(c) : client'[d] = client[d]
  BY OneClient DEF IInv, Transactions
<1>2. memory' = memory
  BY ReadsOnly DEF Rows
<1> DEFINE Knows(d) ==
       Busy(d)' /\ client'[d].req.op # "create" =>
          /\ client'[d].req.m \in client'[d].holds
          /\ client'[d].req.op = "update" =>
                /\ memory[client'[d].req.m].status # "deleted"
                /\ memory[client'[d].req.m].version = client'[d].req.expects
<1>3. ASSUME NEW d \in Others(c) PROVE Knows(d)
  BY <1>1, <1>3 DEF OwnKnown, Others, Busy
<1>4. Knows(c)
  <2>1. CASE Ends(c)
    BY <1>1, <2>1, EndsAfter DEF Busy
  <2>2. CASE Chooses(c)
    BY <1>1, <2>2, ChoosesAfter DEF Positions, Chooses
  <2>3. CASE Takes(c)
    BY <1>1, <2>3, TakesAfter DEF Takes, Current
  <2>4. CASE Gains(c)
    BY <1>1, <2>4, GainsAfter DEF OwnKnown, Busy, Gains
  <2>5. CASE Flush(c)
    BY <1>1, <2>5, FlushAfter DEF OwnKnown, Busy, Flush
  <2>6. ASSUME NEW q \in Requests, Begin(c, q) PROVE ~Busy(c)'
    BY <1>1, <2>6, BeginAfter DEF Busy
  <2> QED BY <2>1, <2>2, <2>3, <2>4, <2>5, <2>6, ReadKinds
<1>5. \A d \in Clients : Knows(d)
  BY <1>3, <1>4 DEF Others
<1> QED BY <1>2, <1>5 DEF OwnKnown

LEMMA ReadsKeepReplacedKnown ==
    ASSUME IInv, NEW c \in Clients, Reads(c)
    PROVE ReplacedKnown'
<1>1. /\ TypeOK /\ Positions /\ OneActiveFact /\ ReplacedKnown
      /\ \A d \in Others(c) : client'[d] = client[d]
  BY OneClient DEF IInv, Transactions, Promised
<1>2. memory' = memory
  BY ReadsOnly DEF Rows
<1> DEFINE Knows(d) ==
       /\ client'[d].at \in {"flush", "commit"} /\ client'[d].req.op # "delete"
       /\ client'[d].req.replaces # 0
       => /\ client'[d].req.replaces \in client'[d].holds
          /\ client'[d].req.replaces # Own(d)'
          /\ memory[client'[d].req.replaces].status # "deleted"
<1>3. ASSUME NEW d \in Others(c) PROVE Knows(d)
  BY <1>1, <1>3 DEF ReplacedKnown, Others, Own
<1>4. Knows(c)
  <2>1. CASE Ends(c)
    BY <1>1, <2>1, EndsAfter
  <2>2. CASE Chooses(c)
    BY <1>1, <2>2, ChoosesAfter
  <2>3. CASE Takes(c)
    BY <1>1, <2>3, TakesAfter DEF Takes, Positions
  <2>4. CASE Gains(c)
    BY <1>1, <2>4, GainsAfter, GainsKnows DEF Own
  <2>5. CASE Flush(c)
    BY <1>1, <2>5, FlushAfter DEF ReplacedKnown, Flush, Own
  <2>6. ASSUME NEW q \in Requests, Begin(c, q) PROVE client'[c].at \in {"look", "lock"}
    BY <1>1, <2>6, BeginAfter
  <2> QED BY <2>1, <2>2, <2>3, <2>4, <2>5, <2>6, ReadKinds
<1>5. \A d \in Clients : Knows(d)
  BY <1>3, <1>4 DEF Others
<1> QED BY <1>2, <1>5 DEF ReplacedKnown

\* Only a flush or the lock of a deletion leads to a commit.
LEMMA IntoCommit ==
    ASSUME IInv, NEW c \in Clients, Reads(c), client'[c].at = "commit"
    PROVE Flush(c) \/ client'[c].req.op = "delete"
<1>1. TypeOK /\ Positions
  BY DEF IInv, Transactions
<1>2. CASE Ends(c)
  BY <1>1, <1>2, EndsAfter
<1>3. CASE Chooses(c)
  BY <1>1, <1>3, ChoosesAfter
<1>4. CASE Takes(c)
  BY <1>1, <1>4, TakesAfter
<1>5. CASE Gains(c)
  BY <1>1, <1>5, GainsAfter
<1>6. ASSUME NEW q \in Requests, Begin(c, q) PROVE FALSE
  BY <1>1, <1>6, BeginAfter
<1> QED BY <1>2, <1>3, <1>4, <1>5, <1>6, ReadKinds

LEMMA ReadsKeepClaims ==
    ASSUME IInv, NEW c \in Clients, Reads(c)
    PROVE Claims'
<1>1. /\ TypeOK /\ Claims /\ \A d \in Others(c) : client'[d] = client[d]
  BY OneClient DEF IInv, Transactions, Promised
<1>2. memory' = memory
  BY ReadsOnly DEF Rows
<1>3. \A d \in Others(c) : Own(d)' = Own(d) /\ Claim(d)' = Claim(d)
  BY <1>1, <1>2 DEF Own, Claim, Status, Fact
<1>4. \A f : Active(f)' = Active(f)
  BY <1>2 DEF Active
<1>5. ASSUME client'[c].at = "commit", Claim(c)' # NoFact
      PROVE /\ Own(c)' = Own(c) /\ Claim(c)' = Claim(c) /\ client'[c].req = client[c].req
            /\ \A m \in Active(Claim(c)) : m = Own(c) \/ m = client[c].req.replaces
            /\ \A d \in Others(c) : client[d].at = "commit" => Claim(d) # Claim(c)
  <2>1. Flush(c)
    BY <1>5, IntoCommit DEF Claim
  <2>2. client'[c].req = client[c].req /\ client'[c].id = client[c].id
    BY <1>1, <2>1, FlushAfter
  <2>3. Own(c)' = Own(c) /\ Claim(c)' = Claim(c)
    BY <1>2, <2>2 DEF Own, Claim, Status, Fact
  <2>4. \A m \in Active(Claim(c)) : m = Own(c) \/ m = client[c].req.replaces
    BY <1>5, <2>1, <2>3 DEF Flush, FactTaken, Gone
  <2>5. \A d \in Others(c) : client[d].at = "commit" => Claim(d) # Claim(c)
    BY <1>5, <2>1, <2>3 DEF Flush, Waits, FactBusy, Written
  <2> QED BY <2>2, <2>3, <2>4, <2>5
<1>6. ASSUME NEW d \in Clients, client'[d].at = "commit", Claim(d)' # NoFact
      PROVE /\ \A m \in Active(Claim(d)') : m = Own(d)' \/ m = client'[d].req.replaces
            /\ \A e \in Others(d) : client'[e].at = "commit" => Claim(e)' # Claim(d)'
  <2>1. CASE d = c
    BY <1>1, <1>3, <1>5, <1>6, <2>1
  <2>2. CASE d # c
    <3>1. /\ d \in Others(c) /\ client[d].at = "commit" /\ Claim(d)' = Claim(d)
          /\ Own(d)' = Own(d)
      BY <1>1, <1>3, <1>6, <2>2 DEF Others
    <3>2. /\ \A m \in Active(Claim(d)) : m = Own(d) \/ m = client[d].req.replaces
          /\ \A e \in Others(d) : client[e].at = "commit" => Claim(e) # Claim(d)
      BY <1>1, <1>6, <3>1 DEF Claims
    <3>3. client'[c].at = "commit" => Claim(c)' # Claim(d)
      BY <1>5, <1>6, <3>1
    <3> QED BY <1>1, <1>3, <3>1, <3>2, <3>3 DEF Others
  <2> QED BY <2>1, <2>2
<1> QED BY <1>4, <1>6 DEF Claims, Others

LEMMA ReadsKeepKeysFree ==
    ASSUME IInv, NEW c \in Clients, Reads(c)
    PROVE KeysFree'
<1>1. /\ TypeOK /\ KeysFree /\ \A d \in Others(c) : client'[d] = client[d]
  BY OneClient DEF IInv, Transactions
<1>2. changes' = changes
  BY ReadsOnly DEF Rows
<1>3. ASSUME client'[c].at = "commit", client'[c].req.op = "update"
      PROVE \A r \in changes[client'[c].req.m] : r.key # client'[c].req.key
  <2>1. Flush(c)
    BY <1>3, IntoCommit
  <2>2. client'[c].req = client[c].req
    BY <1>1, <2>1, FlushAfter
  <2> QED BY <1>3, <2>1, <2>2 DEF Flush, KeyTaken
<1> QED BY <1>1, <1>2, <1>3 DEF KeysFree, Others

LEMMA ReadsKeepReplaysKnown ==
    ASSUME IInv, NEW c \in Clients, Reads(c)
    PROVE ReplaysKnown'
<1>1. /\ TypeOK /\ ReplaysKnown /\ \A d \in Others(c) : client'[d] = client[d]
  BY OneClient DEF IInv, Transactions
<1>2. changes' = changes /\ \A m : Exists(m)' <=> Exists(m)
  BY ReadsOnly DEF Rows, Exists
<1> DEFINE Knows(d) ==
       /\ client'[d].at = "look" /\ client'[d].before # 0 => Exists(client'[d].before)
       /\ client'[d].at = "lock" => client'[d].replay \subseteq changes[client'[d].req.m]
<1>3. ASSUME NEW d \in Others(c) PROVE Knows(d)
  BY <1>1, <1>3 DEF ReplaysKnown, Others
<1>4. Knows(c)
  <2>1. CASE Ends(c)
    BY <1>1, <2>1, EndsAfter
  <2>2. CASE Chooses(c)
    BY <1>1, <2>2, ChoosesAfter
  <2>3. CASE Takes(c)
    BY <1>1, <2>3, TakesAfter
  <2>4. CASE Gains(c)
    BY <1>1, <2>4, GainsAfter
  <2>5. CASE Flush(c)
    BY <1>1, <2>5, FlushAfter
  <2>6. ASSUME NEW q \in Requests, Begin(c, q) PROVE Knows(c)
    <3>1. CreationSeen(q) # 0 => Exists(CreationSeen(q))
      BY DEF CreationSeen, Keyed
    <3>2. CASE q.op = "create"
      BY <1>1, <2>6, <3>1, <3>2, BeginAfter
    <3>3. CASE q.op # "create"
      <4>1. /\ client'[c].req = q /\ client'[c].at = "lock"
            /\ client'[c].replay = IF q.op = "delete" THEN {}
                                   ELSE {r \in changes[q.m] : r.key = q.key}
        BY <1>1, <2>6, <3>3, BeginAfter
      <4> QED BY <4>1
    <3> QED BY <3>2, <3>3
  <2> QED BY <2>1, <2>2, <2>3, <2>4, <2>5, <2>6, ReadKinds
<1>5. \A d \in Clients : Knows(d)
  BY <1>3, <1>4 DEF Others
<1> QED BY <1>2, <1>5 DEF ReplaysKnown

\* What a request was told, of its own rows.
Recorded(q) ==
    CASE q.op = "create" -> \E m \in Memories : memory[m].request = q
      [] q.op = "update" -> q \in changes[q.m]
      [] OTHER -> memory[q.m].status = "deleted"

LEMMA AnsweredNow ==
    ASSUME TypeOK, NEW c \in Clients, NEW a, Answer(c, a)
    PROVE client'[c].req = client[c].req /\ client'[c].answer = a
<1>1. client'[c] = [Idle EXCEPT !.at = "answered", !.req = client[c].req, !.answer = a]
  BY TypeOKSplit DEF Answer
<1> QED BY <1>1 DEF Idle

LEMMA ReadsKeepAnswersRecorded ==
    ASSUME IInv, NEW c \in Clients, Reads(c)
    PROVE AnswersRecorded'
<1>1. /\ TypeOK /\ AnswersRecorded /\ Positions /\ ReplaysKnown
      /\ \A d \in Others(c) : client'[d] = client[d]
  BY OneClient DEF IInv, Transactions, Promised
<1>2. memory' = memory /\ changes' = changes
  BY ReadsOnly DEF Rows
<1> DEFINE q == client[c].req
<1>3. ASSUME NEW stored, Replayed(c, q, stored), stored = q => Recorded(q)
      PROVE client'[c].answer \in {"done", "replayed"} => Recorded(client'[c].req)
  <2>1. (Answer(c, "replayed") /\ stored = q) \/ Answer(c, "refused")
    BY <1>3 DEF Replayed
  <2> QED BY <1>1, <1>3, <2>1, AnsweredNow
<1>4. client'[c].answer \in {"done", "replayed"} => Recorded(client'[c].req)
  <2>1. CASE LookUp(c)
    <3>1. CASE client[c].before # 0
      <4>1. client[c].before \in Memories
        BY <3>1, TypeOKSplit, <1>1 DEF ClientRecord
      <4>2. Replayed(c, q, memory[client[c].before].request)
        BY <2>1, <3>1 DEF LookUp
      <4>3. q.op = "create"
        BY <1>1, <2>1 DEF LookUp, Positions
      <4> QED BY <1>3, <4>1, <4>2, <4>3 DEF Recorded
    <3>2. CASE client[c].before = 0
      <4>1. Chooses(c)
        BY <2>1, <3>2 DEF LookUp, Chooses
      <4>2. client'[c].answer = "none"
        BY <1>1, <4>1, ChoosesAfter DEF Positions, Chooses
      <4> QED BY <4>2
    <3> QED BY <3>1, <3>2
  <2>2. CASE LockForUpdate(c)
    <3>1. CASE client[c].replay # {}
      <4> DEFINE r == CHOOSE r \in client[c].replay : TRUE
      <4>1. r \in client[c].replay
        BY <3>1
      <4>2. r \in changes[q.m] /\ q.op = "update"
        BY <1>1, <2>2, <4>1 DEF LockForUpdate, ReplaysKnown
      <4>3. Replayed(c, q, r)
        BY <2>2, <3>1 DEF LockForUpdate
      <4> QED BY <1>3, <4>2, <4>3 DEF Recorded
    <3>2. CASE client[c].replay = {}
      <4>1. Answer(c, "refused") \/ Takes(c)
        BY <2>2, <3>2 DEF LockForUpdate, Takes
      <4>2. client'[c].answer \in {"refused", "none"}
        BY <1>1, <2>2, <4>1, AnsweredNow, TakesAfter DEF Positions, LockForUpdate
      <4> QED BY <4>2
    <3> QED BY <3>1, <3>2
  <2>3. CASE LockForDelete(c)
    <3>1. \/ Answer(c, "done") /\ memory[q.m].status = "deleted" /\ q.op = "delete"
          \/ Takes(c)
      BY <2>3 DEF LockForDelete, Takes
    <3> QED BY <1>1, <2>3, <3>1, AnsweredNow, TakesAfter DEF Positions, LockForDelete, Recorded
  <2>4. CASE FlushRefused(c)
    <3>1. CASE q.op = "create" /\ KeyTaken(c)
      <4>1. CreationSeen(q) \in Memories
        BY <3>1 DEF KeyTaken, CreationSeen, Keyed
      <4>2. Replayed(c, q, memory[CreationSeen(q)].request)
        BY <2>4, <3>1 DEF FlushRefused
      <4> QED BY <1>3, <3>1, <4>1, <4>2 DEF Recorded
    <3>2. CASE ~(q.op = "create" /\ KeyTaken(c))
      BY <1>1, <2>4, <3>2, AnsweredNow DEF FlushRefused
    <3> QED BY <3>1, <3>2
  <2>5. CASE Supersede(c)
    <3>1. Answer(c, "refused") \/ Gains(c)
      BY <2>5 DEF Supersede, Gains
    <3>2. client'[c].answer \in {"refused", "none"}
      BY <1>1, <2>5, <3>1, AnsweredNow, GainsAfter DEF Positions, Supersede
    <3> QED BY <3>2
  <2>6. CASE Flush(c)
    BY <1>1, <2>6, FlushAfter DEF Positions, Flush
  <2>7. CASE LockFails(c)
    BY <1>1, <2>7, AnsweredNow DEF LockFails
  <2>8. CASE Dies(c)
    <3>1. client'[c] = Idle
      BY <1>1, <2>8, TypeOKSplit DEF Dies
    <3> QED BY <3>1 DEF Idle
  <2>9. ASSUME NEW r \in Requests, Begin(c, r)
        PROVE client'[c].answer = "none"
    BY <1>1, <2>9, BeginAfter
  <2> QED BY <2>1, <2>2, <2>3, <2>4, <2>5, <2>6, <2>7, <2>8, <2>9 DEF Reads
<1>5. ASSUME NEW d \in Clients, client'[d].answer \in {"done", "replayed"}
      PROVE Recorded(client'[d].req)
  BY <1>1, <1>4, <1>5 DEF AnswersRecorded, Recorded, Others
<1> QED BY <1>2, <1>5 DEF AnswersRecorded, Recorded

LEMMA ReadsStep ==
    ASSUME IInv, NEW c \in Clients, Reads(c)
    PROVE IInv'
<1>1. TypeOK'
  BY ReadsType DEF IInv, Transactions
<1>2. UNCHANGED Rows
  BY ReadsOnly
<1>3. RowsAgree' /\ OneActiveFact' /\ CorrectionsInOrder' /\ ErasedStays'
  BY <1>2 DEF IInv, Promised, Rows, RowsAgree, Exists, OneActiveFact, CorrectionsInOrder,
              ErasedStays
<1> QED
  BY <1>1, <1>3, ReadsKeepPositions, ReadsKeepChosen, ReadsKeepLocks, ReadsKeepOwnKnown,
     ReadsKeepReplacedKnown, ReadsKeepClaims, ReadsKeepKeysFree, ReadsKeepReplaysKnown,
     ReadsKeepAnswersRecorded DEF IInv, Transactions, Promised

-----------------------------------------------------------------------------
(* The two commits *)

Commits(c) == CommitWrite(c) \/ CommitDelete(c)

\* What a commit writes, it has to itself: its row does not exist or it holds it, and
\* it holds the row it replaces.
LEMMA CommitHolds ==
    ASSUME IInv, NEW c \in Clients, Commits(c), NEW m \in Memories,
           \/ m = Own(c)
           \/ client[c].req.op # "delete" /\ m = client[c].req.replaces
    PROVE \/ m = Own(c) /\ client[c].req.op = "create" /\ ~Exists(m)
          \/ m \in client[c].holds /\ Exists(m)
<1>1. client[c].at = "commit" /\ Busy(c)
  BY CommitEnds DEF Commits, Busy
<1>2. TypeOK /\ Transactions
  BY DEF IInv
<1>3. \/ client[c].req.op = "create" /\ Own(c) = client[c].id
      \/ client[c].req.op \in {"update", "delete"} /\ Own(c) = client[c].req.m
  BY <1>1, <1>2, CommitShape
<1>4. CASE m = Own(c)
  BY <1>1, <1>2, <1>3, <1>4 DEF Transactions, Chosen, OwnKnown, Locks
<1>5. CASE client[c].req.op # "delete" /\ m = client[c].req.replaces
  <2>1. client[c].req.replaces # 0
    BY <1>5, MemoryVersionsAssumption
  <2> QED BY <1>1, <1>2, <1>5, <2>1 DEF Transactions, ReplacedKnown, Locks
<1> QED BY <1>4, <1>5

LEMMA OtherRows ==
    ASSUME IInv, NEW c \in Clients, Commits(c), NEW m \in Memories, m # Own(c),
           client[c].req.op = "delete" \/ m # client[c].req.replaces
    PROVE memory'[m] = memory[m] /\ versions'[m] = versions[m] /\ changes'[m] = changes[m]
<1>1. TypeOK /\ Transactions
  BY DEF IInv
<1>2. CASE CommitWrite(c)
  <2>1. client[c].req.op # "delete"
    BY <1>2 DEF CommitWrite
  <2> QED BY <1>1, <1>2, <2>1, WriteRows
<1>3. CASE CommitDelete(c)
  BY <1>1, <1>3, DeleteRows
<1> QED BY <1>2, <1>3 DEF Commits

\* So a commit disturbs no other transaction.
LEMMA HeldStands ==
    ASSUME IInv, NEW c \in Clients, Commits(c), NEW d \in Others(c),
           NEW m \in client[d].holds
    PROVE /\ m \in Memories
          /\ memory'[m] = memory[m] /\ versions'[m] = versions[m] /\ changes'[m] = changes[m]
<1>1. m \in Memories
  BY TypeOKSplit DEF IInv, Others, ClientRecord
<1>2. Exists(m) /\ m \notin client[c].holds
  BY DEF IInv, Transactions, Locks, Held, Others
<1> QED BY <1>1, <1>2, CommitHolds, OtherRows

LEMMA ChosenStands ==
    ASSUME IInv, NEW c \in Clients, Commits(c), NEW d \in Others(c),
           Busy(d), client[d].req.op = "create"
    PROVE memory'[client[d].id] = memory[client[d].id]
<1>1. client[d].id \in Memories /\ ~Exists(client[d].id) /\ client[d].id # client[c].id
  BY DEF IInv, Transactions, Chosen, Others
<1>2. client[d].id # Own(c) \/ client[c].req.op # "create"
  BY <1>1 DEF Own
<1> QED BY <1>1, <1>2, CommitHolds, OtherRows

\* What a commit leaves of a memory that exists.
LEMMA MemoryStands ==
    ASSUME IInv, NEW c \in Clients, Commits(c), NEW m \in Memories, Exists(m)
    PROVE /\ Exists(m)'
          /\ memory[m].status = "deleted" => memory'[m].status = "deleted"
          /\ memory'[m].request = memory[m].request
          /\ changes[m] \subseteq changes'[m]
<1>1. TypeOK /\ Transactions /\ memory[m] \in MemoryRecord
  BY TypeOKSplit DEF IInv
<1>2. CASE m # Own(c) /\ (client[c].req.op = "delete" \/ m # client[c].req.replaces)
  BY <1>2, OtherRows DEF Exists
<1>3. CASE m # Own(c) /\ client[c].req.op # "delete" /\ m = client[c].req.replaces
  <2>1. CommitWrite(c)
    BY <1>3 DEF Commits, CommitDelete
  <2>2. memory'[m] = Superseded(m) /\ changes'[m] = changes[m]
    BY <1>1, <1>3, <2>1, WriteRows
  <2>3. memory[m].status # "deleted"
    BY <1>1, <1>3, <2>1, MemoryVersionsAssumption DEF Transactions, ReplacedKnown, CommitWrite
  <2> QED BY <1>1, <2>2, <2>3 DEF Superseded, MemoryRecord, Exists
<1>4. CASE m = Own(c) /\ CommitDelete(c)
  <2>1. /\ memory'[m] = [memory[m] EXCEPT !.status = "deleted", !.active = NoFact]
        /\ changes'[m] = changes[m]
    BY <1>1, <1>4, DeleteRows
  <2> QED BY <1>1, <2>1 DEF MemoryRecord, Exists
<1>5. CASE m = Own(c) /\ CommitWrite(c)
  <2> DEFINE q == client[c].req
  <2>1. q \in Requests /\ q.op = "update" /\ m = q.m
    BY <1>1, <1>5, CommitHolds, CommitShape DEF CommitWrite, Commits, IInv, Transactions, Chosen,
       Busy, Own
  <2>2. memory[m].status # "deleted"
    BY <1>1, <1>5, <2>1 DEF Transactions, OwnKnown, Busy, CommitWrite
  <2>3. Status(c) # "none"
    BY <2>1, RequestShape DEF Status, Exists
  <2>4. memory'[m] = WrittenRow(c) /\ changes[m] \subseteq changes'[m]
    BY <1>1, <1>5, WriteRows
  <2>5. WrittenRow(c).status = Status(c) /\ WrittenRow(c).request = memory[m].request
    BY <1>1, <2>1 DEF WrittenRow, MemoryRecord
  <2> QED BY <2>2, <2>3, <2>4, <2>5 DEF Exists
<1> QED BY <1>2, <1>3, <1>4, <1>5 DEF Commits

LEMMA AfterCommit ==
    ASSUME IInv, NEW c \in Clients, Commits(c)
    PROVE /\ \A d \in Others(c) : client'[d] = client[d]
          /\ client'[c].at \in {"idle", "answered"}
          /\ client'[c].id = 0 /\ client'[c].holds = {}
          /\ client'[c].req = client[c].req /\ client'[c].answer = "done"
          /\ client'[c].at = "idle" => client'[c].answer = "none"
<1>1. TypeOK /\ Ends(c) /\ Answer(c, "done")
  BY CommitEnds DEF IInv, Commits
<1> QED BY <1>1, EndsAfter, AnsweredNow, OneClient DEF Commits

LEMMA CommitsKeepPositions ==
    ASSUME IInv, NEW c \in Clients, Commits(c)
    PROVE Positions'
<1>1. TypeOK /\ Positions
  BY DEF IInv, Transactions
<1>2. client[c].req \in Requests
  BY <1>1, CommitEnds DEF Positions, Commits
<1>3. ASSUME NEW d \in Others(c), client[d].at = "lock"
      PROVE Exists(client[d].req.m)'
  <2>1. client[d].req.m \in Memories
    <3>1. client[d].req \in Requests /\ client[d].req.op \in {"update", "delete"}
      BY <1>1, <1>3 DEF Positions, Others
    <3> QED BY <3>1, RequestShape
  <2>2. Exists(client[d].req.m) /\ client'[d] = client[d]
    BY <1>1, <1>3, AfterCommit DEF Positions, Others
  <2>3. memory'[client[d].req.m].status # "none"
    BY <2>1, <2>2, MemoryStands DEF Exists
  <2> QED BY <2>2, <2>3 DEF Exists
<1>4. Positions!(c)'
  BY <1>2, AfterCommit DEF Busy
<1>5. ASSUME NEW d \in Others(c) PROVE Positions!(d)'
  BY <1>1, <1>3, <1>5, AfterCommit DEF Positions, Busy, Others
<1> QED BY <1>4, <1>5 DEF Positions, Others

LEMMA CommitsKeepChosen ==
    ASSUME IInv, NEW c \in Clients, Commits(c)
    PROVE Chosen'
<1>1. ASSUME NEW d \in Clients, Busy(d)', client'[d].req.op = "create"
      PROVE /\ client'[d].id \in Memories
            /\ memory'[client'[d].id].status = "none"
            /\ \A e \in Others(d) : client'[e].id # client'[d].id
  <2>1. d \in Others(c) /\ client'[d] = client[d] /\ Busy(d)
    BY <1>1, AfterCommit DEF Busy, Others
  <2>2. /\ client[d].id \in Memories /\ ~Exists(client[d].id)
        /\ \A e \in Others(d) : client[e].id # client[d].id
    BY <1>1, <2>1 DEF IInv, Transactions, Chosen
  <2>3. memory'[client[d].id] = memory[client[d].id]
    BY <1>1, <2>1, ChosenStands
  <2>4. \A e \in Others(d) : client'[e].id # client[d].id
    BY <2>2, AfterCommit, MemoryVersionsAssumption DEF Others
  <2> QED BY <2>1, <2>2, <2>3, <2>4 DEF Exists
<1> QED BY <1>1 DEF Chosen, Others, Exists

LEMMA CommitsKeepLocks ==
    ASSUME IInv, NEW c \in Clients, Commits(c)
    PROVE Locks'
<1>1. ASSUME NEW d \in Clients, NEW m \in client'[d].holds
      PROVE memory'[m].status # "none" /\ ~Held(d, m)'
  <2>1. d \in Others(c) /\ client'[d] = client[d]
    BY <1>1, AfterCommit DEF Others
  <2>2. Exists(m) /\ ~Held(d, m)
    BY <1>1, <2>1 DEF IInv, Transactions, Locks, Others
  <2>3. memory'[m] = memory[m]
    BY <1>1, <2>1, HeldStands
  <2> QED BY <2>1, <2>2, <2>3, AfterCommit DEF Exists, Held, Others
<1> QED BY <1>1 DEF Locks, Exists

LEMMA CommitsKeepOwnKnown ==
    ASSUME IInv, NEW c \in Clients, Commits(c)
    PROVE OwnKnown'
<1>1. ASSUME NEW d \in Clients, Busy(d)', client'[d].req.op # "create"
      PROVE /\ client'[d].req.m \in client'[d].holds
            /\ client'[d].req.op = "update" =>
                  /\ memory'[client'[d].req.m].status # "deleted"
                  /\ memory'[client'[d].req.m].version = client'[d].req.expects
  <2>1. d \in Others(c) /\ client'[d] = client[d] /\ Busy(d)
    BY <1>1, AfterCommit DEF Busy, Others
  <2>2. /\ client[d].req.m \in client[d].holds
        /\ client[d].req.op = "update" =>
              /\ memory[client[d].req.m].status # "deleted"
              /\ memory[client[d].req.m].version = client[d].req.expects
    BY <1>1, <2>1 DEF IInv, Transactions, OwnKnown, Others
  <2> QED BY <2>1, <2>2, HeldStands
<1> QED BY <1>1 DEF OwnKnown

LEMMA CommitsKeepReplacedKnown ==
    ASSUME IInv, NEW c \in Clients, Commits(c)
    PROVE ReplacedKnown'
<1>1. ASSUME NEW d \in Clients, client'[d].at \in {"flush", "commit"},
             client'[d].req.op # "delete", client'[d].req.replaces # 0
      PROVE /\ client'[d].req.replaces \in client'[d].holds
            /\ client'[d].req.replaces # Own(d)'
            /\ memory'[client'[d].req.replaces].status # "deleted"
  <2>1. d \in Others(c) /\ client'[d] = client[d] /\ Own(d)' = Own(d)
    BY <1>1, AfterCommit DEF Others, Own
  <2>2. /\ client[d].req.replaces \in client[d].holds
        /\ client[d].req.replaces # Own(d)
        /\ memory[client[d].req.replaces].status # "deleted"
    BY <1>1, <2>1 DEF IInv, Transactions, ReplacedKnown, Others
  <2> QED BY <2>1, <2>2, HeldStands
<1> QED BY <1>1 DEF ReplacedKnown

\* The claim of a transaction that has flushed depends on nothing others write.
LEMMA ClaimStands ==
    ASSUME IInv, NEW c \in Clients, Commits(c), NEW d \in Others(c),
           client[d].at = "commit"
    PROVE Own(d)' = Own(d) /\ Claim(d)' = Claim(d)
<1>1. client'[d] = client[d] /\ d \in Clients /\ Busy(d)
  BY AfterCommit DEF Others, Busy
<1>2. CASE client[d].req.op # "update"
  <2>1. client[d].req.op \in {"create", "delete"}
    BY <1>1, <1>2, CommitShape DEF IInv
  <2>2. CASE client[d].req.op = "create"
    BY <1>1, <2>2 DEF Own, Claim, Status, Fact
  <2>3. CASE client[d].req.op = "delete"
    BY <1>1, <2>3 DEF Own, Claim
  <2> QED BY <2>1, <2>2, <2>3
<1>3. CASE client[d].req.op = "update"
  <2>1. client[d].req.m \in client[d].holds
    BY <1>1, <1>3 DEF IInv, Transactions, OwnKnown
  <2>2. memory'[client[d].req.m] = memory[client[d].req.m]
    BY <2>1, HeldStands
  <2> QED BY <1>1, <1>3, <2>2 DEF Own, Claim, Status, Fact
<1> QED BY <1>2, <1>3

\* A memory that is in the index after a commit was there before, or is the one the
\* commit has claimed the entry for.
LEMMA ActiveAfter ==
    ASSUME IInv, NEW c \in Clients, Commits(c), NEW m \in Memories,
           memory'[m].active # NoFact
    PROVE \/ m = Own(c) /\ memory'[m].active = Claim(c) /\ client[c].at = "commit"
          \/ /\ memory'[m].active = memory[m].active
             /\ m # Own(c)
             /\ client[c].req.op = "delete" \/ m # client[c].req.replaces
<1>1. TypeOK /\ Transactions /\ memory[m] \in MemoryRecord
  BY TypeOKSplit DEF IInv
<1>2. CASE CommitWrite(c)
  <2>1. WrittenRow(c).active = Claim(c)
    <3>1. client[c].req.op # "create" =>
             client[c].req.m \in Memories /\ memory[client[c].req.m] \in MemoryRecord
      BY <1>1, <1>2, CommitShape, TypeOKSplit DEF CommitWrite
    <3> QED BY <3>1 DEF WrittenRow, MemoryRecord
  <2>2. Superseded(m).active = NoFact
    BY <1>1 DEF Superseded, MemoryRecord
  <2> QED BY <1>1, <1>2, <2>1, <2>2, WriteRows DEF CommitWrite
<1>3. CASE CommitDelete(c)
  <2>1. m # Own(c)
    <3>1. [memory[m] EXCEPT !.status = "deleted", !.active = NoFact].active = NoFact
      BY <1>1 DEF MemoryRecord
    <3> QED BY <1>1, <1>3, <3>1, DeleteRows
  <2> QED BY <1>1, <1>3, <2>1, DeleteRows DEF CommitDelete
<1> QED BY <1>2, <1>3 DEF Commits

LEMMA CommitsKeepClaims ==
    ASSUME IInv, NEW c \in Clients, Commits(c)
    PROVE Claims'
<1>1. ASSUME NEW d \in Clients, client'[d].at = "commit", Claim(d)' # NoFact
      PROVE /\ \A m \in Memories : memory'[m].active = Claim(d)' =>
                   m = Own(d)' \/ m = client'[d].req.replaces
            /\ \A e \in Others(d) : client'[e].at = "commit" => Claim(e)' # Claim(d)'
  <2>1. d \in Others(c) /\ client'[d] = client[d]
    BY <1>1, AfterCommit DEF Others
  <2>2. Own(d)' = Own(d) /\ Claim(d)' = Claim(d)
    BY <1>1, <2>1, ClaimStands
  <2>3. /\ \A m \in Active(Claim(d)) : m = Own(d) \/ m = client[d].req.replaces
        /\ \A e \in Others(d) : client[e].at = "commit" => Claim(e) # Claim(d)
    BY <1>1, <2>1, <2>2 DEF IInv, Transactions, Claims
  <2>4. ASSUME NEW m \in Memories, memory'[m].active = Claim(d)
        PROVE m = Own(d) \/ m = client[d].req.replaces
    <3>1. memory'[m].active # NoFact /\ c \in Others(d)
      BY <1>1, <2>1, <2>2, <2>4 DEF Others
    <3>2. memory[m].active = Claim(d)
      BY <2>3, <2>4, <3>1, ActiveAfter
    <3> QED BY <2>3, <3>2 DEF Active
  <2>5. ASSUME NEW e \in Others(d), client'[e].at = "commit" PROVE Claim(e)' # Claim(d)
    <3>1. e \in Others(c) /\ client'[e] = client[e]
      BY <2>5, AfterCommit DEF Others
    <3>2. Claim(e)' = Claim(e)
      BY <2>5, <3>1, ClaimStands
    <3> QED BY <2>3, <2>5, <3>1, <3>2
  <2> QED BY <2>1, <2>2, <2>4, <2>5
<1> QED BY <1>1 DEF Claims, Active, Others

LEMMA CommitsKeepKeys ==
    ASSUME IInv, NEW c \in Clients, Commits(c)
    PROVE KeysFree' /\ ReplaysKnown'
<1>1. ASSUME NEW d \in Clients, client'[d].at = "commit", client'[d].req.op = "update"
      PROVE \A r \in changes'[client'[d].req.m] : r.key # client'[d].req.key
  <2>1. d \in Others(c) /\ client'[d] = client[d] /\ Busy(d)
    BY <1>1, AfterCommit DEF Others, Busy
  <2>2. /\ client[d].req.m \in client[d].holds
        /\ \A r \in changes[client[d].req.m] : r.key # client[d].req.key
    BY <1>1, <2>1 DEF IInv, Transactions, OwnKnown, KeysFree
  <2> QED BY <2>1, <2>2, HeldStands
<1>2. ASSUME NEW d \in Clients, client'[d].at = "look", client'[d].before # 0
      PROVE memory'[client'[d].before].status # "none"
  <2>1. client'[d] = client[d]
    BY <1>2, AfterCommit DEF Others
  <2>2. client[d].before \in Memories /\ Exists(client[d].before)
    BY <1>2, <2>1, TypeOKSplit DEF IInv, Transactions, ReplaysKnown, ClientRecord
  <2> QED BY <2>1, <2>2, MemoryStands DEF Exists
<1>3. ASSUME NEW d \in Clients, client'[d].at = "lock"
      PROVE client'[d].replay \subseteq changes'[client'[d].req.m]
  <2>1. client'[d] = client[d]
    BY <1>3, AfterCommit DEF Others
  <2>2. /\ client[d].req \in Requests /\ client[d].req.op \in {"update", "delete"}
        /\ Exists(client[d].req.m)
        /\ client[d].replay \subseteq changes[client[d].req.m]
    BY <1>3, <2>1 DEF IInv, Transactions, Positions, ReplaysKnown
  <2> QED BY <2>1, <2>2, RequestShape, MemoryStands
<1> QED BY <1>1, <1>2, <1>3 DEF KeysFree, ReplaysKnown, Exists

LEMMA CommitsKeepRowsAgree ==
    ASSUME IInv, NEW c \in Clients, Commits(c)
    PROVE RowsAgree'
<1> DEFINE q == client[c].req
<1>1. TypeOK /\ Transactions /\ RowsAgree
  BY DEF IInv
<1>2. ASSUME NEW m \in Memories
      PROVE /\ memory'[m].status # "none" <=> memory'[m].version > 0
            /\ Len(versions'[m]) = memory'[m].version
            /\ memory'[m].status = "none" => changes'[m] = {} /\ memory'[m].request = NoRequest
            /\ IsFiniteSet(changes'[m])
  <2>1. /\ Exists(m) <=> memory[m].version > 0
        /\ Len(versions[m]) = memory[m].version
        /\ ~Exists(m) => changes[m] = {} /\ memory[m].request = NoRequest
        /\ IsFiniteSet(changes[m])
    BY <1>1 DEF RowsAgree
  <2>2. memory[m] \in MemoryRecord /\ versions[m] \in Seq(VersionRecord)
    BY <1>1, TypeOKSplit
  <2>3. CASE m # Own(c) /\ (q.op = "delete" \/ m # q.replaces)
    BY <2>1, <2>3, OtherRows DEF Exists
  <2>4. CASE m # Own(c) /\ q.op # "delete" /\ m = q.replaces
    <3>1. CommitWrite(c)
      BY <2>4 DEF Commits, CommitDelete
    <3>2. memory'[m] = Superseded(m) /\ versions'[m] = versions[m] /\ changes'[m] = changes[m]
      BY <1>1, <2>4, <3>1, WriteRows
    <3>3. Exists(m)
      BY <2>4, CommitHolds
    <3> QED BY <2>1, <2>2, <3>2, <3>3 DEF Superseded, MemoryRecord, Exists
  <2>5. CASE m = Own(c) /\ CommitDelete(c)
    <3>1. /\ memory'[m] = [memory[m] EXCEPT !.status = "deleted", !.active = NoFact]
          /\ versions'[m] = Erased(m) /\ changes'[m] = changes[m]
      BY <1>1, <2>5, DeleteRows
    <3>2. Exists(m)
      BY <2>5, CommitHolds DEF CommitDelete
    <3>3. Len(Erased(m)) = Len(versions[m])
      BY <1>1, ErasedType
    <3> QED BY <2>1, <2>2, <3>1, <3>2, <3>3 DEF MemoryRecord, Exists
  <2>6. CASE m = Own(c) /\ CommitWrite(c)
    <3>1. q \in Requests /\ q.op \in {"create", "update"}
      BY <1>1, <2>6, CommitShape DEF CommitWrite
    <3>2. /\ memory'[m] = WrittenRow(c) /\ changes'[m] = changes[m] \cup {q}
          /\ versions'[m] = IF q.op = "create" \/ q.corrects
                            THEN Append(versions[m], Version(q.key)) ELSE versions[m]
      BY <1>1, <2>6, WriteRows
    <3>3. Version(q.key) \in VersionRecord
      BY <3>1, RequestShape DEF Version, VersionRecord
    <3>4. Len(Append(versions[m], Version(q.key))) = Len(versions[m]) + 1
      BY <2>2, <3>3, AppendProperties
    <3>5. IsFiniteSet(changes'[m])
      BY <2>1, <3>2, FS_AddElement
    <3>6. CASE q.op = "create"
      <4>1. ~Exists(m) /\ memory[m].version = 0
        <5>1. ~Exists(m)
          BY <1>1, <2>6, <3>6 DEF Own, Transactions, Chosen, Busy, CommitWrite
        <5> QED BY <2>1, <2>2, <5>1 DEF MemoryRecord
      <4>2. WrittenRow(c).status \in {"candidate", "active"} /\ WrittenRow(c).version = 1
        BY <3>1, <3>6, RequestShape DEF WrittenRow
      <4> QED BY <2>1, <3>2, <3>4, <3>5, <3>6, <4>1, <4>2
    <3>7. CASE q.op = "update"
      <4>1. m = q.m /\ Exists(m) /\ q.corrects \in BOOLEAN
        BY <2>6, <3>1, <3>7, CommitHolds, RequestShape DEF Own, Commits
      <4>2. Status(c) # "none"
        BY <3>1, <3>7, <4>1, RequestShape DEF Status, Exists
      <4>3. /\ WrittenRow(c).status = Status(c)
            /\ WrittenRow(c).version = IF q.corrects THEN memory[m].version + 1
                                       ELSE memory[m].version
        BY <2>2, <3>7, <4>1 DEF WrittenRow, MemoryRecord
      <4>4. memory[m].version \in Nat
        BY <2>2 DEF MemoryRecord
      <4> HIDE DEF q
      <4> QED BY <2>1, <3>2, <3>4, <3>5, <3>7, <4>1, <4>2, <4>3, <4>4
    <3> QED BY <3>1, <3>6, <3>7
  <2> QED BY <2>3, <2>4, <2>5, <2>6 DEF Commits
<1> QED BY <1>2 DEF RowsAgree, Exists

LEMMA CommitsKeepOneActiveFact ==
    ASSUME IInv, NEW c \in Clients, Commits(c)
    PROVE OneActiveFact'
<1> DEFINE q == client[c].req
<1>1. TypeOK /\ Transactions /\ OneActiveFact
  BY DEF IInv, Promised
<1>2. ASSUME NEW m \in Memories
      PROVE memory'[m].active = IF memory'[m].status = "active" THEN memory'[m].fact ELSE NoFact
  <2>1. memory[m] \in MemoryRecord
    BY <1>1, TypeOKSplit
  <2>2. CASE m # Own(c) /\ (q.op = "delete" \/ m # q.replaces)
    BY <1>1, <2>2, OtherRows DEF OneActiveFact
  <2>3. CASE m # Own(c) /\ q.op # "delete" /\ m = q.replaces
    <3>1. memory'[m] = Superseded(m)
      BY <1>1, <2>3, WriteRows DEF Commits, CommitDelete
    <3> QED BY <2>1, <3>1 DEF Superseded, MemoryRecord
  <2>4. CASE m = Own(c) /\ CommitDelete(c)
    <3>1. memory'[m] = [memory[m] EXCEPT !.status = "deleted", !.active = NoFact]
      BY <1>1, <2>4, DeleteRows
    <3> QED BY <2>1, <3>1 DEF MemoryRecord
  <2>5. CASE m = Own(c) /\ CommitWrite(c)
    <3>1. q \in Requests /\ q.op \in {"create", "update"} /\ memory'[m] = WrittenRow(c)
      BY <1>1, <2>5, CommitShape, WriteRows DEF CommitWrite
    <3>2. q.op = "update" => memory[q.m] \in MemoryRecord
      BY <1>1, <3>1, RequestShape, TypeOKSplit
    <3>3. /\ WrittenRow(c).active = Claim(c)
          /\ WrittenRow(c).status = Status(c) /\ WrittenRow(c).fact = Fact(c)
      <4>1. CASE q.op = "create"
        BY <4>1 DEF WrittenRow, Status, Fact
      <4>2. CASE q.op = "update"
        BY <3>2, <4>2 DEF WrittenRow, MemoryRecord
      <4> QED BY <3>1, <4>1, <4>2
    <3> QED BY <3>1, <3>3 DEF Claim
  <2> QED BY <2>2, <2>3, <2>4, <2>5 DEF Commits
<1>3. ASSUME NEW m \in Memories, NEW n \in Memories \ {m}, memory'[m].active # NoFact
      PROVE memory'[n].active # memory'[m].active
  <2>1. SUFFICES ASSUME memory'[n].active = memory'[m].active
                 PROVE FALSE
    OBVIOUS
  <2>2. memory'[n].active # NoFact
    BY <1>3, <2>1
  <2>3. CASE m = Own(c)
    <3>1. memory'[m].active = Claim(c) /\ client[c].at = "commit"
      BY <1>3, <2>3, ActiveAfter
    <3>2. memory[n].active = Claim(c) /\ n # Own(c) /\ (q.op = "delete" \/ n # q.replaces)
      BY <2>1, <2>2, <2>3, <3>1, ActiveAfter
    <3> QED BY <1>1, <1>3, <3>1, <3>2 DEF Transactions, Claims, Active, Claim
  <2>4. CASE n = Own(c)
    <3>1. memory'[n].active = Claim(c) /\ client[c].at = "commit"
      BY <2>2, <2>4, ActiveAfter
    <3>2. memory[m].active = Claim(c) /\ m # Own(c) /\ (q.op = "delete" \/ m # q.replaces)
      BY <1>3, <2>1, <2>4, <3>1, ActiveAfter
    <3> QED BY <1>1, <1>3, <2>1, <3>1, <3>2 DEF Transactions, Claims, Active, Claim
  <2>5. CASE m # Own(c) /\ n # Own(c)
    <3>1. memory'[m].active = memory[m].active /\ memory'[n].active = memory[n].active
      BY <1>3, <2>2, <2>5, ActiveAfter
    <3> QED BY <1>1, <1>3, <2>1, <3>1 DEF OneActiveFact
  <2> QED BY <2>3, <2>4, <2>5
<1> QED BY <1>2, <1>3 DEF OneActiveFact

LEMMA CommitsKeepCorrectionsInOrder ==
    ASSUME IInv, NEW c \in Clients, Commits(c)
    PROVE CorrectionsInOrder'
<1> DEFINE q == client[c].req
<1>1. TypeOK /\ Transactions /\ RowsAgree
  BY DEF IInv
<1>2. ASSUME NEW m \in Memories
      PROVE /\ Cardinality(Corrections(changes'[m]))
                  = Len(versions'[m]) - (IF memory'[m].status # "none" THEN 1 ELSE 0)
            /\ \A r \in Corrections(changes'[m]) :
                  /\ r.expects + 1 \in DOMAIN versions'[m]
                  /\ versions'[m][r.expects + 1].key = r.key
  <2>1. /\ Cardinality(Corrections(changes[m])) = Len(versions[m]) - (IF Exists(m) THEN 1 ELSE 0)
        /\ \A r \in Corrections(changes[m]) :
              r.expects + 1 \in DOMAIN versions[m] /\ versions[m][r.expects + 1].key = r.key
    BY DEF IInv, Promised, CorrectionsInOrder, Corrections
  <2>2. /\ memory[m] \in MemoryRecord /\ versions[m] \in Seq(VersionRecord)
        /\ changes[m] \subseteq Requests
        /\ Len(versions[m]) = memory[m].version
        /\ ~Exists(m) => changes[m] = {} /\ memory[m].version = 0
        /\ IsFiniteSet(changes[m])
    BY <1>1, TypeOKSplit DEF RowsAgree, MemoryRecord
  <2>3. CASE m # Own(c) /\ (q.op = "delete" \/ m # q.replaces)
    BY <2>1, <2>3, OtherRows DEF Exists
  <2>4. CASE m # Own(c) /\ q.op # "delete" /\ m = q.replaces
    <3>1. CommitWrite(c)
      BY <2>4 DEF Commits, CommitDelete
    <3>2. memory'[m] = Superseded(m) /\ versions'[m] = versions[m] /\ changes'[m] = changes[m]
      BY <1>1, <2>4, <3>1, WriteRows
    <3>3. Exists(m) /\ Superseded(m).status = "superseded"
      BY <2>2, <2>4, CommitHolds DEF Superseded, MemoryRecord
    <3> QED BY <2>1, <3>2, <3>3
  <2>5. CASE m = Own(c) /\ CommitDelete(c)
    <3>1. /\ memory'[m] = [memory[m] EXCEPT !.status = "deleted", !.active = NoFact]
          /\ versions'[m] = Erased(m) /\ changes'[m] = changes[m]
      BY <1>1, <2>5, DeleteRows
    <3>2. Exists(m)
      BY <2>5, CommitHolds DEF CommitDelete
    <3>3. memory'[m].status = "deleted"
      BY <2>2, <3>1 DEF MemoryRecord
    <3> QED BY <1>1, <2>1, <3>1, <3>2, <3>3, ErasedType
  <2>6. CASE m = Own(c) /\ CommitWrite(c)
    <3>1. q \in Requests /\ q.op \in {"create", "update"}
      BY <1>1, <2>6, CommitShape DEF CommitWrite
    <3>2. /\ memory'[m] = WrittenRow(c) /\ changes'[m] = changes[m] \cup {q}
          /\ versions'[m] = IF q.op = "create" \/ q.corrects
                            THEN Append(versions[m], Version(q.key)) ELSE versions[m]
      BY <1>1, <2>6, WriteRows
    <3>3. Version(q.key) \in VersionRecord /\ Version(q.key).key = q.key
      BY <3>1, RequestShape DEF Version, VersionRecord
    <3> DEFINE longer == Append(versions[m], Version(q.key))
    <3>4. /\ longer \in Seq(VersionRecord)
          /\ Len(longer) = Len(versions[m]) + 1 /\ Len(versions[m]) \in Nat
          /\ \A i \in 1..Len(versions[m]) : longer[i] = versions[m][i]
          /\ longer[Len(versions[m]) + 1] = Version(q.key)
      BY <2>2, <3>3, AppendProperties, LenProperties
    <3>5. /\ DOMAIN longer = 1..(Len(versions[m]) + 1)
          /\ DOMAIN versions[m] = 1..Len(versions[m])
      BY <2>2, <3>4, LenProperties
    <3>6. CASE q.op = "create"
      <4>1. ~Exists(m)
        BY <1>1, <2>6, <3>6 DEF Own, Transactions, Chosen, Busy, CommitWrite
      <4>2. Corrections(changes'[m]) = {}
        BY <2>2, <3>2, <3>6, <4>1 DEF Corrections
      <4>3. memory'[m].status # "none"
        BY <3>1, <3>2, <3>6, RequestShape DEF WrittenRow
      <4>4. Len(versions'[m]) = 1
        BY <2>2, <3>2, <3>4, <3>6, <4>1
      <4> QED BY <4>2, <4>3, <4>4, FS_EmptySet
    <3>7. CASE q.op = "update"
      <4>1. m = q.m /\ Exists(m) /\ q.corrects \in BOOLEAN
        BY <2>6, <3>1, <3>7, CommitHolds, RequestShape DEF Own, Commits
      <4>2. Status(c) # "none"
        BY <3>1, <3>7, <4>1, RequestShape DEF Status, Exists
      <4>3. memory'[m].status # "none"
        BY <2>2, <3>2, <3>7, <4>1, <4>2 DEF WrittenRow, MemoryRecord
      <4>4. CASE ~q.corrects
        <5>1. Corrections(changes'[m]) = Corrections(changes[m])
          BY <3>2, <4>4 DEF Corrections
        <5> QED BY <2>1, <3>2, <3>7, <4>1, <4>3, <4>4, <5>1
      <4>5. CASE q.corrects
        <5>1. q \notin changes[m]
          BY <1>1, <2>6, <3>7, <4>1 DEF Transactions, KeysFree, CommitWrite
        <5>2. Corrections(changes'[m]) = Corrections(changes[m]) \cup {q}
          BY <3>2, <3>7, <4>5 DEF Corrections
        <5>3. IsFiniteSet(Corrections(changes[m]))
          BY <2>2, FS_Subset DEF Corrections
        <5>4. Cardinality(Corrections(changes[m]) \cup {q})
                = Cardinality(Corrections(changes[m])) + 1
          BY <5>1, <5>3, FS_AddElement DEF Corrections
        <5>5. q.expects = Len(versions[m])
          BY <1>1, <2>2, <2>6, <3>7, <4>1 DEF Transactions, OwnKnown, Busy, CommitWrite
        <5>6. versions'[m] = longer
          BY <3>2, <4>5
        <5>7. q.expects + 1 \in DOMAIN longer /\ longer[q.expects + 1].key = q.key
          BY <3>3, <3>4, <3>5, <5>5
        <5>8. ASSUME NEW r \in Corrections(changes[m])
              PROVE r.expects + 1 \in DOMAIN longer /\ longer[r.expects + 1].key = r.key
          <6>1. r.expects + 1 \in 1..Len(versions[m]) /\ versions[m][r.expects + 1].key = r.key
            BY <2>1, <3>5
          <6> QED BY <3>4, <3>5, <6>1
        <5>9. Cardinality(Corrections(changes'[m])) = Len(versions'[m]) - 1
          <6>1. Len(versions'[m]) = Len(versions[m]) + 1 /\ Len(versions[m]) \in Nat
            BY <3>4, <5>6
          <6>2. Cardinality(Corrections(changes[m])) = Len(versions[m]) - 1
            BY <2>1, <4>1
          <6>3. Cardinality(Corrections(changes'[m])) = Len(versions[m]) - 1 + 1
            BY <5>2, <5>4, <6>2
          <6> HIDE DEF longer, q
          <6> QED BY <6>1, <6>3
        <5> QED BY <4>3, <5>2, <5>6, <5>7, <5>8, <5>9
      <4> QED BY <4>1, <4>4, <4>5
    <3> QED BY <3>1, <3>6, <3>7
  <2> QED BY <2>3, <2>4, <2>5, <2>6 DEF Commits
<1> QED BY <1>2 DEF CorrectionsInOrder, Corrections, Exists

LEMMA CommitsKeepErasedStays ==
    ASSUME IInv, NEW c \in Clients, Commits(c)
    PROVE ErasedStays'
<1> DEFINE q == client[c].req
<1>1. TypeOK /\ Transactions /\ ErasedStays
  BY DEF IInv, Promised
<1>2. ASSUME NEW m \in Memories, memory'[m].status = "deleted"
      PROVE \A v \in DOMAIN versions'[m] : ~versions'[m][v].text /\ ~versions'[m][v].terms
  <2>1. memory[m] \in MemoryRecord
    BY <1>1, TypeOKSplit
  <2>2. CASE m # Own(c) /\ (q.op = "delete" \/ m # q.replaces)
    BY <1>1, <1>2, <2>2, OtherRows DEF ErasedStays
  <2>3. CASE m # Own(c) /\ q.op # "delete" /\ m = q.replaces
    <3>1. memory'[m] = Superseded(m)
      BY <1>1, <2>3, WriteRows DEF Commits, CommitDelete
    <3> QED BY <1>2, <2>1, <3>1 DEF Superseded, MemoryRecord
  <2>4. CASE m = Own(c) /\ CommitDelete(c)
    <3>1. versions'[m] = Erased(m)
      BY <1>1, <2>4, DeleteRows
    <3> QED BY <1>1, <3>1, ErasedType
  <2>5. CASE m = Own(c) /\ CommitWrite(c)
    <3>1. q \in Requests /\ q.op \in {"create", "update"} /\ memory'[m] = WrittenRow(c)
      BY <1>1, <2>5, CommitShape, WriteRows DEF CommitWrite
    <3>2. CASE q.op = "create"
      BY <1>2, <3>1, <3>2, RequestShape DEF WrittenRow
    <3>3. CASE q.op = "update"
      <4>1. m = q.m /\ memory[m].status # "deleted"
        BY <1>1, <2>5, <3>3 DEF Transactions, OwnKnown, Busy, CommitWrite, Own
      <4>2. Status(c) # "deleted"
        BY <3>1, <3>3, <4>1, RequestShape DEF Status
      <4> QED BY <1>2, <2>1, <3>1, <3>3, <4>1, <4>2 DEF WrittenRow, MemoryRecord
    <3> QED BY <3>1, <3>2, <3>3
  <2> QED BY <2>2, <2>3, <2>4, <2>5 DEF Commits
<1> QED BY <1>2 DEF ErasedStays

LEMMA CommitsKeepAnswersRecorded ==
    ASSUME IInv, NEW c \in Clients, Commits(c)
    PROVE AnswersRecorded'
<1>1. TypeOK /\ Transactions /\ RowsAgree /\ AnswersRecorded
  BY DEF IInv, Promised
<1>2. Recorded(client[c].req)'
  <2> DEFINE q == client[c].req
  <2>1. q \in Requests /\ q.op \in {"create", "update", "delete"} /\ Own(c) \in Memories
    BY <1>1, CommitShape, CommitEnds DEF Commits
  <2>2. client'[c].req = q
    BY AfterCommit
  <2>3. CASE q.op = "create"
    <3>1. memory'[Own(c)] = WrittenRow(c)
      BY <1>1, <2>1, <2>3, WriteRows DEF Commits, CommitDelete
    <3>2. memory'[Own(c)].request = q
      BY <2>3, <3>1 DEF WrittenRow
    <3> QED BY <2>1, <2>2, <2>3, <3>2 DEF Recorded
  <2>4. CASE q.op = "update"
    <3>1. q \in changes'[Own(c)] /\ Own(c) = q.m
      BY <1>1, <2>1, <2>4, WriteRows DEF Commits, CommitDelete, Own
    <3> QED BY <2>2, <2>4, <3>1 DEF Recorded
  <2>5. CASE q.op = "delete"
    <3>1. memory[Own(c)] \in MemoryRecord /\ Own(c) = q.m
      BY <2>1, <2>5, <1>1, TypeOKSplit DEF Own
    <3>2. memory'[Own(c)] = [memory[Own(c)] EXCEPT !.status = "deleted", !.active = NoFact]
      BY <1>1, <2>1, <2>5, DeleteRows DEF Commits, CommitWrite
    <3>3. memory'[q.m].status = "deleted"
      BY <3>1, <3>2 DEF MemoryRecord
    <3> QED BY <2>2, <2>5, <3>3 DEF Recorded
  <2> QED BY <2>1, <2>3, <2>4, <2>5
<1>3. ASSUME NEW d \in Others(c), client[d].answer \in {"done", "replayed"}
      PROVE Recorded(client[d].req)'
  <2> DEFINE q == client[d].req
  <2>1. q \in Requests /\ d \in Clients /\ Recorded(q)
    BY <1>1, <1>3 DEF Transactions, Positions, AnswersRecorded, Recorded, Others
  <2>2. client'[d].req = q /\ q.op \in {"create", "update", "delete"}
    BY <2>1, AfterCommit, RequestShape
  <2>3. CASE q.op = "create"
    <3>1. PICK m \in Memories : memory[m].request = q
      BY <2>1, <2>3 DEF Recorded
    <3>2. Exists(m)
      BY <1>1, <2>3, <3>1 DEF RowsAgree, NoRequest
    <3>3. memory'[m].request = q
      BY <3>1, <3>2, MemoryStands
    <3> QED BY <2>2, <2>3, <3>3 DEF Recorded
  <2>4. CASE q.op = "update"
    <3>1. q \in changes[q.m] /\ q.m \in Memories
      BY <2>1, <2>4, RequestShape DEF Recorded
    <3>2. Exists(q.m)
      BY <1>1, <3>1 DEF RowsAgree
    <3>3. q \in changes'[q.m]
      BY <3>1, <3>2, MemoryStands
    <3> QED BY <2>2, <2>4, <3>3 DEF Recorded
  <2>5. CASE q.op = "delete"
    <3>1. memory[q.m].status = "deleted" /\ q.m \in Memories
      BY <2>1, <2>5, RequestShape DEF Recorded
    <3>2. memory'[q.m].status = "deleted"
      BY <3>1, MemoryStands DEF Exists
    <3> QED BY <2>2, <2>5, <3>2 DEF Recorded
  <2> QED BY <2>2, <2>3, <2>4, <2>5
<1>4. ASSUME NEW d \in Clients, client'[d].answer \in {"done", "replayed"}
      PROVE Recorded(client[d].req)' /\ client'[d].req = client[d].req
  BY <1>2, <1>3, <1>4, AfterCommit DEF Others
<1> QED BY <1>4 DEF AnswersRecorded, Recorded

LEMMA CommitsStep ==
    ASSUME IInv, NEW c \in Clients, Commits(c)
    PROVE IInv'
<1>1. TypeOK'
  BY CommitsType DEF IInv, Commits
<1> QED
  BY <1>1, CommitsKeepRowsAgree, CommitsKeepPositions, CommitsKeepChosen, CommitsKeepLocks,
     CommitsKeepOwnKnown, CommitsKeepReplacedKnown, CommitsKeepClaims, CommitsKeepKeys,
     CommitsKeepOneActiveFact, CommitsKeepCorrectionsInOrder, CommitsKeepErasedStays,
     CommitsKeepAnswersRecorded DEF IInv, Transactions, Promised

-----------------------------------------------------------------------------
(* The theorems *)

LEMMA InitInv ==
    ASSUME Init
    PROVE IInv
<1>1. TypeOK
  <2>1. Absent \in MemoryRecord /\ Idle \in ClientRecord /\ <<>> \in Seq(VersionRecord)
    BY IdleIsClient, MemoryVersionsAssumption, EmptySeq DEF Absent, MemoryRecord
  <2> QED BY <2>1, MemoryVersionsAssumption, TypeOKSplit DEF Init
<1>2. RowsAgree
  BY FS_EmptySet DEF Init, RowsAgree, Exists, Absent
<1>3. Transactions
  BY DEF Init, Idle, Transactions, Positions, Chosen, Locks, OwnKnown, ReplacedKnown, Claims,
         KeysFree, ReplaysKnown, Busy
<1>4. Promised
  <2>1. \A m \in Memories : Corrections(changes[m]) = {}
    BY DEF Init, Corrections
  <2>2. CorrectionsInOrder
    BY <2>1, FS_EmptySet DEF Init, CorrectionsInOrder, Corrections, Exists, Absent
  <2> QED BY <2>2 DEF Init, Promised, OneActiveFact, ErasedStays, AnswersRecorded, Absent, Idle
<1> QED BY <1>1, <1>2, <1>3, <1>4 DEF IInv

LEMMA Stutters ==
    ASSUME IInv, UNCHANGED vars
    PROVE IInv'
<1> USE DEF vars
<1>1. TypeOK'
  BY DEF IInv, TypeOK
<1>2. RowsAgree'
  BY DEF IInv, RowsAgree, Exists
<1>3. Positions' /\ Chosen' /\ Locks' /\ OwnKnown'
  BY DEF IInv, Transactions, Positions, Chosen, Locks, OwnKnown, Exists, Busy, Others, Held
<1>4. ReplacedKnown' /\ KeysFree' /\ ReplaysKnown'
  BY DEF IInv, Transactions, ReplacedKnown, KeysFree, ReplaysKnown, Exists, Own
<1>5. Claims'
  BY DEF IInv, Transactions, Claims, Own, Claim, Status, Fact, Active, Others
<1>6. Promised'
  BY DEF IInv, Promised, OneActiveFact, CorrectionsInOrder, ErasedStays, AnswersRecorded, Exists
<1> QED BY <1>1, <1>2, <1>3, <1>4, <1>5, <1>6 DEF IInv, Transactions

LEMMA Inductive == Spec => []IInv
<1>1. IInv /\ [Next]_vars => IInv'
  BY StepKinds, ReadsStep, CommitsStep, Stutters DEF Commits
<1> QED BY <1>1, InitInv, PTL DEF Spec

\* Every variable has its type: the versions of a memory stay within the schema's, and no
\* transaction holds anything but memories.
THEOREM TypeCorrect == Spec => []TypeOK
<1>1. IInv => TypeOK
  BY DEF IInv
<1> QED BY <1>1, Inductive, PTL

\* However creations, corrections, replacements and deletions interleave, a fact has one
\* active memory, and a memory is in the unique index exactly while it is active.
THEOREM OneActive == Spec => []OneActiveFact
<1>1. IInv => OneActiveFact
  BY DEF IInv, Promised
<1> QED BY <1>1, Inductive, PTL

\* No correction is lost or made on a version its caller had not read.
THEOREM Ordered == Spec => []CorrectionsInOrder
<1>1. IInv => CorrectionsInOrder
  BY DEF IInv, Promised
<1> QED BY <1>1, Inductive, PTL

\* No correction or replacement under way brings back the text of a deleted memory.
THEOREM ErasedForGood == Spec => []ErasedStays
<1>1. IInv => ErasedStays
  BY DEF IInv, Promised
<1> QED BY <1>1, Inductive, PTL

\* Whatever a client was told was done, or had been done before, is on record.
THEOREM Truthful == Spec => []AnswersRecorded
<1>1. IInv => AnswersRecorded
  BY DEF IInv, Promised
<1> QED BY <1>1, Inductive, PTL
=============================================================================
