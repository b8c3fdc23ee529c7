----------------------- MODULE ProductMemory_proofs -----------------------
(***************************************************************************)
(* Proofs about ProductMemory for any number of entries, keys, clients,    *)
(* versions and requests.  IInv adds to the properties how entry, history, *)
(* grant and disclosures belong together, what a request is let in with,   *)
(* and which approval stands behind each grant, disclosure and consent.    *)
(***************************************************************************)
EXTENDS ProductMemory, FiniteSetTheorems, SequenceTheorems, TLAPS

-----------------------------------------------------------------------------
(* The inductive invariant *)

\* A version that can be read has a text, and none on record is absent.
Recorded(row) ==
    /\ row.status # "absent"
    /\ row.status \in {"candidate", "active"} => row.text \in Texts

\* What belongs together in the rows of one entry.
RowsAgree ==
    \A e \in Entries :
       /\ Exists(e) \/ (entry[e] = Absent /\ history[e] = <<>> /\ grant[e] = NoGrant)
       /\ \A i \in DOMAIN history[e] : Recorded(history[e][i])
       /\ IF grant[e].version > 0 THEN grant[e].fields \in Fields ELSE grant[e] = NoGrant
       /\ grant[e].confirmed <= entry[e].version

\* A disclosure to the native Run is of a version on record, under some grant.
DisclosuresAgree ==
    \A d \in disclosures : d.run = "native" =>
       grant[d.entry].version > 0 /\ d.version <= entry[d.entry].version

\* What an operation made is not newer than the entry.
AppliedBefore ==
    \A k \in Keys, e \in Entries :
       operations[k].entry = e => operations[k].applied <= entry[e].version

\* A request that was let in.
Known(q) ==
    /\ q.action \in Keyed \cup Shares
    /\ IF q.action \in Keyed THEN q.key \in Keys ELSE q.key = NoKey
    /\ q.action \in Targeted \cup Shares => q.entry \in Entries /\ Exists(q.entry)
    /\ q.action \in Created \cup {"correct"} => q.text \in Texts
    /\ q.action = "grant_share" => q.fields \in Fields

RequestsKnown ==
    \A c \in Clients : client[c].at # "idle" => Known(client[c].req)

\* The version a snapshot showed as shared is on record and was active.
SeenKnown ==
    \A c \in Clients : client[c].at = "asked" /\ client[c].seen.shared =>
       /\ client[c].req.action = "disclose_shared"
       /\ client[c].seen.version <= entry[client[c].req.entry].version
       /\ history[client[c].req.entry][client[c].seen.version + 1].status = "active"

\* The approval behind a grant, behind a disclosure under it, and behind the consent.
Granted(e) == grant[e].version > 0 /\ ~grant[e].revoked

GrantsApproved ==
    \A e \in Entries : Granted(e) =>
       <<"share", e, history[e][grant[e].confirmed + 1].text, grant[e].fields>> \in approved

DisclosuresApproved ==
    \A d \in disclosures : d.run = "native" /\ ~d.revoked /\ Granted(d.entry) =>
       <<"model", d.entry, history[d.entry][d.version + 1].text, d.fields>> \in approved

ConsentApproved ==
    /\ scope.consent <= link.version
    /\ link.active /\ scope.consent = link.version => <<"recall">> \in approved

RowInv == RowsAgree /\ DisclosuresAgree /\ AppliedBefore /\ AppliedOnce
ClientInv == RequestsKnown /\ SeenKnown /\ ToldIsRecorded
ApprovedInv == GrantsApproved /\ DisclosuresApproved /\ ConsentApproved

IInv == TypeOK /\ RowInv /\ ClientInv /\ ApprovedInv

-----------------------------------------------------------------------------
(* Steps, sorted by what they touch *)

Quiet(c) ==
    \/ \E o \in Offers[c] : \E q \in Asks(o) : Ask(c, q)
    \/ Again(c) \/ Replay(c) \/ Refuse(c)

Overwrites(c) == Correct(c) \/ Undo(c) \/ Forget(c) \/ Confirm(c)
Marks(c) == Disclose(c) \/ Settings(c) \/ AutomaticSharing(c)
Sharing(c) == GrantShare(c) \/ RevokeShare(c) \/ DiscloseShared(c)
Outside == RevokeLink \/ ConfirmLink \/ \E r \in Ending : EndRun(r)

LEMMA StepKinds ==
    ASSUME [Next]_vars
    PROVE \/ UNCHANGED vars
          \/ \E c \in Clients : Quiet(c) \/ Overwrites(c) \/ Save(c) \/ Marks(c) \/ Sharing(c)
          \/ Outside
BY DEF Next, Quiet, Overwrites, Marks, Sharing, Outside

\* What a client asks for is a request, and one that can be let in.
LEMMA AsksAreKnown ==
    ASSUME TypeOK, RowsAgree, NEW c \in Clients, NEW o \in Offers[c], NEW q \in Asks(o)
    PROVE q \in Request /\ Known(q)
<1>1. PICK k \in (IF o.action \in Keyed THEN Keys ELSE {NoKey}),
           e \in (IF o.action \in Targeted \cup Shares THEN {x \in Entries : Exists(x)}
                  ELSE {NoEntry}) : q = Filled(o, k, e)
  BY DEF Asks
<1>2. Valid(o)
  BY ProductMemoryAssumption
<1>3. o \in Request /\ o.action # "none"
  BY <1>2 DEF Valid
<1>4. Version(o.action, e) \in Nat
  <2>1. CASE o.action \in Created
    BY <2>1 DEF Version, Created, Switches, Targeted
  <2>2. CASE o.action \in Switches
    BY <2>2 DEF Version, Created, Switches, Targeted, TypeOK
  <2>3. CASE o.action \in Targeted \cup Shares
    <3>1. e \in Entries
      BY <1>1, <2>3
    <3>2. entry[e].version \in Nat /\ grant[e].version \in Nat
      BY <3>1, ProductMemoryAssumption DEF TypeOK, Row
    <3> QED BY <3>2, <2>3 DEF Version, Created, Switches, Targeted, Shares
  <2> QED BY <1>3, <2>1, <2>2, <2>3 DEF Request, Keyed
<1>5. q = [o EXCEPT !.key = k, !.entry = e, !.expected = Version(o.action, e)]
  BY <1>1 DEF Filled
<1>6. k \in Keys \cup {NoKey} /\ e \in Entries \cup {NoEntry}
  BY <1>1
<1>7. q \in Request
  BY <1>3, <1>4, <1>5, <1>6 DEF Request
<1>8. q.action = o.action /\ q.key = k /\ q.entry = e /\ q.text = o.text /\ q.fields = o.fields
  BY <1>3, <1>5 DEF Request
<1>9. Known(q)
  <2>1. q.text \in Texts \cup {NoText} /\ q.fields \in Fields \cup {NoFields}
    BY <1>7 DEF Request
  <2> QED
    BY <1>1, <1>2, <1>3, <1>8, <2>1, ProductMemoryAssumption
    DEF Known, Valid, Request, Keyed, Created, Targeted, Switches, Shares
<1> QED BY <1>7, <1>9

\* What its snapshot shows of it.
LEMMA FoundType ==
    ASSUME TypeOK, NEW q \in Request, Known(q)
    PROVE Found(q) \in Seen
<1>1. q.action = "disclose_shared" => entry[q.entry].version \in 0..MaxVersion
  BY DEF Known, Shares, TypeOK, Row
<1> DEFINE v == IF q.action = "disclose_shared" THEN entry[q.entry].version ELSE 0
<1>2. v \in 0..MaxVersion
  BY <1>1, ProductMemoryAssumption
<1>3. Shared(q.entry) \in BOOLEAN /\ link.active \in BOOLEAN
  BY DEF Shared, TypeOK
<1> HIDE DEF v
<1>4. Found(q) = [NothingFound EXCEPT
      !.used = q.key \in Keys /\ operations[q.key] # NoOperation,
      !.room = q.action \in Created /\ Cardinality(Unforgotten) < Capacity,
      !.disclosed = q.action = "disclose" /\ OwnDisclosure(q.entry) \in disclosures,
      !.linked = q.action \in {"grant_share", "automatic_sharing"} /\ link.active,
      !.shared = q.action = "disclose_shared" /\ Shared(q.entry),
      !.version = v]
  BY DEF Found, v
<1> QED BY <1>2, <1>3, <1>4 DEF NothingFound, Seen

LEMMA QuietKinds ==
    ASSUME TypeOK, RowsAgree, RequestsKnown, NEW c \in Clients, Quiet(c)
    PROVE \/ \E q \in Request : Known(q) /\ Found(q) \in Seen /\ Ask(c, q)
          \/ Replay(c) \/ Refuse(c)
<1>1. CASE \E o \in Offers[c] : \E q \in Asks(o) : Ask(c, q)
  <2>1. PICK o \in Offers[c] : \E q \in Asks(o) : Ask(c, q)
    BY <1>1
  <2>2. PICK q \in Asks(o) : Ask(c, q)
    BY <2>1
  <2>3. q \in Request /\ Known(q)
    BY AsksAreKnown
  <2> QED BY <2>2, <2>3, FoundType
<1>2. CASE Again(c)
  <2>1. Ask(c, client[c].req) /\ client[c].at = "done"
    BY <1>2 DEF Again
  <2>2. Known(client[c].req) /\ client[c].req \in Request
    BY <2>1 DEF TypeOK, RequestsKnown
  <2> QED BY <2>1, <2>2, FoundType
<1> QED BY <1>1, <1>2 DEF Quiet

LEMMA AskedKnown ==
    ASSUME TypeOK, RequestsKnown, NEW c \in Clients, client[c].at = "asked"
    PROVE Known(client[c].req) /\ client[c].req \in Request
BY DEF TypeOK, RequestsKnown

LEMMA NothingSeen == NothingFound \in Seen
BY ProductMemoryAssumption DEF NothingFound, Seen

LEMMA NoRequestShape == NoRequest \in Request
BY DEF NoRequest, Request

\* The row a client overwrites an entry with is one that can be on record.
LEMMA OverwriteRow ==
    ASSUME TypeOK, RowInv, RequestsKnown, NEW c \in Clients, Overwrites(c)
    PROVE LET q == client[c].req IN
          /\ client[c].at = "asked" /\ Known(q) /\ q.action \in Targeted \ {"disclose"}
          /\ KeyFree(q, client[c].seen)
          /\ q.entry \in Entries /\ Exists(q.entry)
          /\ \E row \in Row :
                /\ Recorded(row) /\ Write(c, q.entry, row)
                /\ ~scope.enabled /\ row.status = "active" => entry[q.entry].status = "active"
<1> DEFINE q == client[c].req
           e == q.entry
<1>1. /\ client[c].at = "asked"
      /\ q.action \in {"correct", "undo", "forget", "confirm"}
      /\ KeyFree(q, client[c].seen) /\ Permitted(q, client[c].seen)
  BY DEF Overwrites, Correct, Undo, Forget, Confirm, Proceeds, Asked
<1>2. Known(q) /\ q \in Request
  BY <1>1, AskedKnown
<1>3. e \in Entries /\ Exists(e)
  BY <1>1, <1>2 DEF Known, Targeted
<1>4. entry[e] \in Row /\ history[e] \in Seq(Row)
  BY <1>3 DEF TypeOK
<1>5. Len(history[e]) = entry[e].version + 1 /\ history[e][entry[e].version + 1] = entry[e]
  BY <1>3 DEF RowInv, AppliedOnce, HistoryFaithful
<1>6. entry[e].version \in Nat
  BY <1>4 DEF Row
<1>7. Recorded(entry[e])
  <2>1. entry[e].version + 1 \in DOMAIN history[e]
    BY <1>4, <1>5, <1>6
  <2> QED BY <1>3, <1>5, <2>1 DEF RowInv, RowsAgree
<1>8. Target(q)
  BY <1>1 DEF Permitted, Targeted, Created
<1>9. CASE Correct(c)
  <2> DEFINE row == [entry[e] EXCEPT !.text = q.text, !.sensitive = @ \/ q.text \in Sensitive]
  <2>1. q.action = "correct" /\ Write(c, e, row)
    BY <1>9 DEF Correct, Proceeds, Asked
  <2>2. q.text \in Texts
    BY <1>2, <2>1 DEF Known
  <2>3. row \in Row /\ row.status = entry[e].status /\ row.text = q.text
    BY <1>4, <2>2 DEF Row
  <2>4. Recorded(row)
    BY <1>7, <2>2, <2>3 DEF Recorded
  <2> HIDE DEF row
  <2> QED BY <1>1, <1>2, <1>3, <2>1, <2>3, <2>4 DEF Targeted
<1>10. CASE Undo(c)
  <2> DEFINE row == history[e][entry[e].version]
  <2>1. q.action = "undo" /\ Write(c, e, row)
    BY <1>10 DEF Undo, Proceeds, Asked
  <2>2. entry[e].version \in DOMAIN history[e] /\ (row.status = "active" => scope.enabled)
    BY <1>8, <2>1 DEF Target, Undoable
  <2>3. row \in Row /\ Recorded(row)
    BY <1>3, <1>4, <2>2 DEF RowInv, RowsAgree
  <2> HIDE DEF row
  <2> QED BY <1>1, <1>2, <1>3, <2>1, <2>2, <2>3 DEF Targeted
<1>11. CASE Forget(c)
  <2> DEFINE row == [entry[e] EXCEPT !.status = "forgotten", !.text = NoText]
  <2>1. q.action = "forget" /\ Write(c, e, row)
    BY <1>11 DEF Forget, Proceeds, Asked
  <2>2. row \in Row /\ Recorded(row) /\ row.status = "forgotten"
    BY <1>4 DEF Row, Recorded
  <2> HIDE DEF row
  <2> QED BY <1>1, <1>2, <1>3, <2>1, <2>2 DEF Targeted
<1>12. CASE Confirm(c)
  <2> DEFINE row == [entry[e] EXCEPT !.status = "active"]
  <2>1. q.action = "confirm" /\ Write(c, e, row)
    BY <1>12 DEF Confirm, Proceeds, Asked
  <2>2. entry[e].status = "candidate" /\ scope.enabled
    BY <1>1, <1>8, <2>1 DEF Target, Permitted, Enabled
  <2>3. row \in Row /\ Recorded(row)
    BY <1>4, <1>7, <2>2 DEF Row, Recorded
  <2> HIDE DEF row
  <2> QED BY <1>1, <1>2, <1>3, <2>1, <2>2, <2>3 DEF Targeted
<1> QED BY <1>9, <1>10, <1>11, <1>12 DEF Overwrites

\* Writing keeps the versions there are and records one more.
LEMMA WriteRecords ==
    ASSUME TypeOK, RowInv, NEW c \in Clients, NEW e \in Entries, Exists(e),
           NEW row \in Row, Write(c, e, row)
    PROVE LET new == [row EXCEPT !.version = entry[e].version + 1] IN
          /\ new \in Row /\ entry[e].version < MaxVersion
          /\ entry' = [entry EXCEPT ![e] = new]
          /\ history' = [history EXCEPT ![e] = Append(history[e], new)]
<1> DEFINE new == [row EXCEPT !.version = entry[e].version + 1]
<1>1. entry[e] \in Row /\ entry[e].version < MaxVersion
  BY DEF Write, TypeOK
<1>2. new \in Row /\ new.version = entry[e].version + 1
  BY <1>1, ProductMemoryAssumption DEF Row
<1>3. Len(history[e]) = entry[e].version + 1
  BY DEF RowInv, AppliedOnce, HistoryFaithful
<1>4. Retained(e, new) = Append(history[e], new)
  BY <1>1, <1>2, <1>3 DEF Retained, Row
<1> QED BY <1>1, <1>2, <1>4 DEF Write

-----------------------------------------------------------------------------
(* Types *)

ScopeType == [enabled : BOOLEAN, version : Nat, consent : 0..MaxLink]
OperationType == [request : Request, entry : Entries \cup {NoEntry}, applied : 0..MaxVersion]
GrantType == [version : 0..MaxVersion, confirmed : 0..MaxVersion,
              fields : Fields \cup {NoFields}, automatic : BOOLEAN, revoked : BOOLEAN]
ClientType == [at : {"idle", "asked", "done"}, req : Request, seen : Seen]

LEMMA TypesUnfolded ==
    TypeOK <=>
       /\ scope \in ScopeType
       /\ entry \in [Entries -> Row]
       /\ history \in [Entries -> Seq(Row)]
       /\ operations \in [Keys -> OperationType]
       /\ grant \in [Entries -> GrantType]
       /\ disclosures \subseteq Disclosure
       /\ link \in [active : BOOLEAN, version : 1..MaxLink]
       /\ running \in [{"own", "native"} -> BOOLEAN]
       /\ client \in [Clients -> ClientType]
       /\ asks \in 0..MaxAsks
       /\ approved \subseteq Approval
BY DEF TypeOK, ScopeType, OperationType, GrantType, ClientType

LEMMA DoneType ==
    ASSUME TypeOK, NEW c \in Clients, Done(c)
    PROVE client' \in [Clients -> ClientType]
<1>1. client \in [Clients -> ClientType]
  BY TypesUnfolded
<1>2. [client[c] EXCEPT !.at = "done", !.seen = NothingFound] \in ClientType
  BY <1>1, NothingSeen DEF ClientType
<1>3. client' = [client EXCEPT ![c] = [client[c] EXCEPT !.at = "done", !.seen = NothingFound]]
  BY <1>1 DEF Done
<1> QED BY <1>1, <1>2, <1>3

LEMMA RefusedType ==
    ASSUME TypeOK, NEW c \in Clients, Refused(c)
    PROVE client' \in [Clients -> ClientType]
<1>1. Idle \in ClientType
  BY NothingSeen, NoRequestShape DEF Idle, ClientType
<1> QED BY <1>1 DEF TypeOK, Refused, ClientType

LEMMA CommitType ==
    ASSUME TypeOK, NEW c \in Clients, client[c].req.key \in Keys,
           NEW new \in ScopeType, NEW e \in Entries \cup {NoEntry}, NEW v \in 0..MaxVersion,
           Commit(c, new, e, v)
    PROVE /\ scope' \in ScopeType
          /\ operations' \in [Keys -> OperationType]
          /\ client' \in [Clients -> ClientType]
          /\ UNCHANGED <<link, running, asks>>
<1>1. scope' \in ScopeType
  <2>1. scope' = [new EXCEPT !.version = scope.version + 1] /\ scope.version + 1 \in Nat
    BY DEF Commit, TypeOK
  <2> QED BY <2>1 DEF ScopeType
<1>2. operations' \in [Keys -> OperationType]
  <2>1. client[c].req \in Request
    BY DEF TypeOK
  <2> QED BY <2>1 DEF Commit, OperationType, TypeOK
<1>3. client' \in [Clients -> ClientType]
  BY DoneType DEF Commit
<1> QED BY <1>1, <1>2, <1>3 DEF Commit

LEMMA QuietType ==
    ASSUME TypeOK, RowsAgree, RequestsKnown, NEW c \in Clients, Quiet(c)
    PROVE TypeOK'
<1>1. UNCHANGED <<rows, link, running, approved>>
  BY DEF Quiet, Again, Ask, Replay, Refuse
<1>2. client' \in [Clients -> ClientType] /\ asks' \in 0..MaxAsks
  <2>1. ASSUME NEW q \in Request, Found(q) \in Seen, Ask(c, q)
        PROVE client' \in [Clients -> ClientType] /\ asks' \in 0..MaxAsks
    BY <2>1, ProductMemoryAssumption DEF Ask, TypeOK, ClientType
  <2>2. CASE Replay(c)
    BY <2>2, DoneType, RefusedType DEF Replay, TypeOK
  <2>3. CASE Refuse(c)
    BY <2>3, RefusedType DEF Refuse, TypeOK
  <2> QED BY <2>1, <2>2, <2>3, QuietKinds
<1> QED BY <1>1, <1>2 DEF TypeOK, rows, ClientType

LEMMA OverwriteType ==
    ASSUME TypeOK, RowInv, RequestsKnown, NEW c \in Clients, Overwrites(c)
    PROVE TypeOK'
<1> DEFINE q == client[c].req
           e == q.entry
<1>1. /\ q.key \in Keys /\ e \in Entries /\ Exists(e)
      /\ \E row \in Row : Write(c, e, row)
  BY OverwriteRow DEF Known, Keyed
<1>2. PICK row \in Row : Write(c, e, row)
  BY <1>1
<1> DEFINE new == [row EXCEPT !.version = entry[e].version + 1]
<1>3. /\ new \in Row /\ entry' = [entry EXCEPT ![e] = new]
      /\ history' = [history EXCEPT ![e] = Append(history[e], new)]
  BY <1>1, <1>2, WriteRecords
<1>4. entry' \in [Entries -> Row] /\ history' \in [Entries -> Seq(Row)]
  <2>1. Append(history[e], new) \in Seq(Row)
    BY <1>1, <1>3 DEF TypeOK
  <2> HIDE DEF new
  <2> QED BY <1>1, <1>3, <2>1 DEF TypeOK
<1>5. new.version \in 0..MaxVersion
  BY <1>3 DEF Row
<1>6. Commit(c, scope, e, new.version) /\ UNCHANGED <<grant, disclosures, approved>>
  BY <1>2 DEF Write
<1>7. scope \in ScopeType
  BY TypesUnfolded
<1> HIDE DEF new
<1> QED BY <1>1, <1>4, <1>5, <1>6, <1>7, CommitType, TypesUnfolded
        DEF TypeOK, OperationType, ScopeType, ClientType

LEMMA SaveType ==
    ASSUME TypeOK, RequestsKnown, NEW c \in Clients, Save(c)
    PROVE TypeOK'
<1> DEFINE q == client[c].req
<1>1. PICK action \in Created, e \in Entries :
         /\ Proceeds(c, action)
         /\ LET row == [version |-> 1, status |-> IF action = "save" THEN "active" ELSE "candidate",
                        text |-> q.text, sensitive |-> q.text \in Sensitive]
                none == [Absent EXCEPT !.status = "forgotten", !.sensitive = row.sensitive] IN
            /\ entry' = [entry EXCEPT ![e] = row]
            /\ history' = [history EXCEPT ![e] = <<none, row>>]
            /\ Commit(c, scope, e, 1)
         /\ UNCHANGED <<grant, disclosures, approved>>
  BY DEF Save
<1> DEFINE row == [version |-> 1, status |-> IF action = "save" THEN "active" ELSE "candidate",
                   text |-> q.text, sensitive |-> q.text \in Sensitive]
           none == [Absent EXCEPT !.status = "forgotten", !.sensitive = row.sensitive]
<1>2. Known(q) /\ q.action = action
  BY <1>1, AskedKnown DEF Proceeds, Asked
<1>3. q.text \in Texts /\ q.key \in Keys
  BY <1>2 DEF Known, Keyed
<1>4. row \in Row /\ none \in Row
  <2> DEFINE secret == q.text \in Sensitive
             status == IF action = "save" THEN "active" ELSE "candidate"
  <2>1. secret \in BOOLEAN /\ status \in {"active", "candidate"}
    OBVIOUS
  <2>2. /\ row = [version |-> 1, status |-> status, text |-> q.text, sensitive |-> secret]
        /\ none = [Absent EXCEPT !.status = "forgotten", !.sensitive = secret]
    BY Zenon
  <2> HIDE DEF secret, status, row, none
  <2>3. row \in Row
    BY <1>3, <2>1, <2>2, ProductMemoryAssumption DEF Row
  <2>4. Absent \in Row
    BY ProductMemoryAssumption DEF Row, Absent
  <2>5. none \in Row
    BY <2>1, <2>2, <2>4 DEF Row
  <2> QED BY <2>3, <2>5
<1>5. entry' = [entry EXCEPT ![e] = row] /\ history' = [history EXCEPT ![e] = <<none, row>>]
  BY <1>1
<1>6. Commit(c, scope, e, 1) /\ UNCHANGED <<grant, disclosures, approved>>
  BY <1>1
<1> HIDE DEF row, none
<1>7. entry' \in [Entries -> Row] /\ history' \in [Entries -> Seq(Row)]
  <2>1. <<none, row>> \in Seq(Row)
    BY <1>4
  <2> QED BY <1>4, <1>5, <2>1 DEF TypeOK
<1>8. scope \in ScopeType /\ 1 \in 0..MaxVersion
  BY TypesUnfolded, ProductMemoryAssumption
<1> QED BY <1>3, <1>6, <1>7, <1>8, CommitType, TypesUnfolded
        DEF TypeOK, OperationType, ScopeType, ClientType

\* The newest version is the row.
LEMMA Newest ==
    ASSUME TypeOK, RowInv, NEW e \in Entries, Exists(e)
    PROVE /\ entry[e] \in Row /\ entry[e].version \in Nat /\ entry[e].version > 0
          /\ history[e] \in Seq(Row) /\ Len(history[e]) = entry[e].version + 1
          /\ history[e][entry[e].version + 1] = entry[e]
          /\ Recorded(entry[e])
<1>1. entry[e] \in Row /\ history[e] \in Seq(Row)
  BY DEF TypeOK
<1>2. entry[e].version \in Nat /\ entry[e].version > 0
  BY <1>1 DEF Row, Exists
<1>3. Len(history[e]) = entry[e].version + 1 /\ history[e][entry[e].version + 1] = entry[e]
  BY DEF RowInv, AppliedOnce, HistoryFaithful
<1>4. entry[e].version + 1 \in DOMAIN history[e]
  BY <1>1, <1>2, <1>3
<1> QED BY <1>1, <1>2, <1>3, <1>4 DEF RowInv, RowsAgree

LEMMA MarksKnown ==
    ASSUME TypeOK, RequestsKnown, NEW c \in Clients, Marks(c)
    PROVE LET q == client[c].req IN
          /\ client[c].at = "asked" /\ Known(q) /\ q \in Request /\ q.key \in Keys
          /\ KeyFree(q, client[c].seen)
          /\ UNCHANGED <<entry, history, grant>>
          /\ \E e \in Entries \cup {NoEntry}, new \in ScopeType :
                /\ Commit(c, new, e, IF Disclose(c) THEN entry[e].version ELSE 0)
                /\ Disclose(c) => e = q.entry /\ e \in Entries /\ Exists(e) /\ new = scope
                /\ ~Disclose(c) => e = NoEntry
                /\ new.consent = scope.consent \/ AutomaticSharing(c)
<1> DEFINE q == client[c].req
<1>1. /\ client[c].at = "asked" /\ q.action \in {"disclose", "settings", "automatic_sharing"}
      /\ KeyFree(q, client[c].seen) /\ UNCHANGED <<entry, history, grant>>
  BY DEF Marks, Disclose, Settings, AutomaticSharing, Proceeds, Asked
<1>2. Known(q) /\ q \in Request
  BY <1>1, AskedKnown
<1>3. q.key \in Keys
  BY <1>1, <1>2 DEF Known, Keyed, Targeted, Switches
<1>4. scope \in ScopeType
  BY TypesUnfolded
<1>5. CASE Disclose(c)
  <2>1. q.action = "disclose" /\ Commit(c, scope, q.entry, entry[q.entry].version)
    BY <1>5 DEF Disclose, Proceeds, Asked
  <2>2. q.entry \in Entries /\ Exists(q.entry)
    BY <1>2, <2>1 DEF Known, Targeted
  <2> QED BY <1>1, <1>2, <1>3, <1>4, <1>5, <2>1, <2>2
<1>6. CASE Settings(c)
  <2> DEFINE new == [scope EXCEPT !.enabled = q.yes]
  <2>1. new \in ScopeType /\ new.consent = scope.consent
    BY <1>2, <1>4 DEF ScopeType, Request
  <2>2. Commit(c, new, NoEntry, 0) /\ q.action # "disclose"
    BY <1>6 DEF Settings, Proceeds, Asked
  <2>3. ~Disclose(c)
    BY <2>2 DEF Disclose, Proceeds, Asked
  <2> HIDE DEF new
  <2> QED BY <1>1, <1>2, <1>3, <2>1, <2>2, <2>3
<1>7. CASE AutomaticSharing(c)
  <2> DEFINE consent == IF q.yes THEN link.version ELSE 0
             new == [scope EXCEPT !.consent = consent]
  <2>1. consent \in 0..MaxLink
    BY ProductMemoryAssumption DEF TypeOK
  <2>2. new \in ScopeType
    BY <1>4, <2>1 DEF ScopeType
  <2>3. Commit(c, new, NoEntry, 0) /\ q.action # "disclose"
    BY <1>7 DEF AutomaticSharing, Proceeds, Asked
  <2>4. ~Disclose(c)
    BY <2>3 DEF Disclose, Proceeds, Asked
  <2> HIDE DEF new
  <2> QED BY <1>1, <1>2, <1>3, <1>7, <2>2, <2>3, <2>4
<1> QED BY <1>5, <1>6, <1>7 DEF Marks

LEMMA MarksType ==
    ASSUME TypeOK, RequestsKnown, NEW c \in Clients, Marks(c)
    PROVE TypeOK'
<1> DEFINE q == client[c].req
<1>1. PICK e \in Entries \cup {NoEntry}, new \in ScopeType :
         /\ Commit(c, new, e, IF Disclose(c) THEN entry[e].version ELSE 0)
         /\ Disclose(c) => e = q.entry /\ e \in Entries /\ Exists(e)
  BY MarksKnown
<1>2. q.key \in Keys /\ UNCHANGED <<entry, history, grant>>
  BY MarksKnown
<1> DEFINE v == IF Disclose(c) THEN entry[e].version ELSE 0
<1>3. v \in 0..MaxVersion
  BY <1>1, ProductMemoryAssumption DEF TypeOK, Row
<1>4. disclosures' \subseteq Disclosure
  <2>1. CASE Disclose(c)
    <3>1. OwnDisclosure(q.entry) \in Disclosure
      BY <1>1, <2>1 DEF OwnDisclosure, Disclosure, TypeOK, Row
    <3> QED BY <2>1, <3>1 DEF Disclose, TypeOK
  <2>2. CASE Settings(c) \/ AutomaticSharing(c)
    BY <2>2 DEF Settings, AutomaticSharing, TypeOK
  <2> QED BY <2>1, <2>2 DEF Marks
<1>5. approved' \subseteq Approval
  <2>1. <<"recall">> \in Approval
    BY DEF Approval
  <2>2. CASE AutomaticSharing(c)
    <3>1. approved' \subseteq approved \cup {<<"recall">>}
      BY <2>2, Zenon DEF AutomaticSharing
    <3> QED BY <2>1, <3>1 DEF TypeOK
  <2>3. CASE Disclose(c) \/ Settings(c)
    BY <2>3 DEF Settings, Disclose, TypeOK
  <2> QED BY <2>2, <2>3 DEF Marks
<1> HIDE DEF v
<1>6. Commit(c, new, e, v)
  BY <1>1 DEF v
<1> QED
  BY <1>1, <1>2, <1>3, <1>4, <1>5, <1>6, CommitType, TypesUnfolded
 
        DEF TypeOK, OperationType, ScopeType, ClientType

LEMMA SharingKnown ==
    ASSUME TypeOK, RequestsKnown, NEW c \in Clients, Sharing(c)
    PROVE LET q == client[c].req IN
          /\ client[c].at = "asked" /\ Known(q) /\ q \in Request
          /\ q.key = NoKey /\ q.entry \in Entries /\ Exists(q.entry)
          /\ GrantShare(c) => q.fields \in Fields
          /\ Done(c)
          /\ UNCHANGED <<scope, entry, history, operations, link, running, asks>>
<1> DEFINE q == client[c].req
<1>1. /\ client[c].at = "asked" /\ q.action \in Shares /\ Done(c)
      /\ GrantShare(c) => q.action = "grant_share"
      /\ UNCHANGED <<scope, entry, history, operations, link, running, asks>>
  BY Zenon DEF Sharing, GrantShare, RevokeShare, DiscloseShared, Asked, Shares
<1>2. Known(q) /\ q \in Request
  BY <1>1, AskedKnown
<1>3. q.action \notin Keyed
  BY <1>1 DEF Keyed, Created, Targeted, Switches, Shares
<1> QED BY <1>1, <1>2, <1>3 DEF Known

LEMMA RevokedDisclosure ==
    ASSUME NEW d \in Disclosure
    PROVE [d EXCEPT !.revoked = TRUE] \in Disclosure
BY DEF Disclosure

LEMMA InvalidatedType ==
    ASSUME TypeOK, NEW e \in Entries
    PROVE Invalidated(e, disclosures) \subseteq Disclosure
<1>1. ASSUME NEW d \in disclosures
      PROVE d \in Disclosure /\ [d EXCEPT !.revoked = TRUE] \in Disclosure
  <2>1. d \in Disclosure
    BY DEF TypeOK
  <2> QED BY <2>1, RevokedDisclosure
<1> QED BY <1>1, Zenon DEF Invalidated

LEMMA OneKind ==
    ASSUME NEW c \in Clients
    PROVE /\ GrantShare(c) => client[c].req.action = "grant_share"
          /\ RevokeShare(c) => client[c].req.action = "revoke_share"
          /\ DiscloseShared(c) => client[c].req.action = "disclose_shared"
BY Zenon DEF GrantShare, RevokeShare, DiscloseShared, Asked

\* What a step of sharing does to the grants.
LEMMA SharingGrants ==
    ASSUME TypeOK, RowInv, RequestsKnown, NEW c \in Clients, Sharing(c)
    PROVE LET e == client[c].req.entry IN
          /\ grant' \in [Entries -> GrantType]
          /\ \A x \in Entries : x # e => grant'[x] = grant[x]
          /\ DiscloseShared(c) => grant' = grant
          /\ RevokeShare(c) => \/ grant[e].revoked /\ grant' = grant
                               \/ grant' = [grant EXCEPT ![e].revoked = TRUE, ![e].version = @ + 1]
          /\ GrantShare(c) =>
                /\ entry[e].status = "active" /\ entry[e].text \in Texts
                /\ grant'[e].fields = client[c].req.fields
                /\ grant'[e].confirmed = entry[e].version
                /\ ~grant'[e].revoked
                /\ grant'[e].version > 0
<1> DEFINE q == client[c].req
           e == q.entry
<1>1. /\ q \in Request /\ e \in Entries /\ Exists(e)
      /\ GrantShare(c) => q.fields \in Fields
  BY SharingKnown
<1>2. grant \in [Entries -> GrantType] /\ grant[e] \in GrantType
  BY <1>1, TypesUnfolded
<1>3. entry[e].version \in 0..MaxVersion /\ Recorded(entry[e])
  BY <1>1, Newest DEF Row
<1>4. CASE GrantShare(c)
  <2> DEFINE new == [version |-> 1, confirmed |-> entry[e].version, fields |-> q.fields,
                     automatic |-> q.yes, revoked |-> FALSE]
             same == grant[e] = [new EXCEPT !.version = grant[e].version]
             next == IF same THEN grant[e] ELSE [new EXCEPT !.version = grant[e].version + 1]
  <2>1. new \in GrantType
    BY <1>1, <1>3, <1>4, ProductMemoryAssumption DEF GrantType, Request
  <2>2. grant' = [grant EXCEPT ![e] = next] /\ grant[e].version < MaxVersion
    BY <1>4 DEF GrantShare
  <2>3. [new EXCEPT !.version = grant[e].version + 1] \in GrantType
    <3>1. grant[e].version + 1 \in 0..MaxVersion
      BY <1>2, <2>2, ProductMemoryAssumption DEF GrantType
    <3> HIDE DEF new
    <3> QED BY <2>1, <3>1 DEF GrantType
  <2>4. entry[e].status = "active" /\ entry[e].text \in Texts
    BY <1>3, <1>4 DEF GrantShare, Recorded
  <2>5. grant[e].version \in Nat /\ entry[e].version \in Nat
    BY <1>2, <1>3 DEF GrantType
  <2>6. CASE same
    <3>1. grant[e].fields = q.fields /\ grant[e].confirmed = entry[e].version /\ ~grant[e].revoked
      BY <2>6
    <3>2. grant[e].version > 0
      BY <1>1, <1>4, <3>1, ProductMemoryAssumption DEF RowInv, RowsAgree, NoGrant
    <3>3. grant' = grant
      BY <1>2, <2>2, <2>6
    <3>4. ~RevokeShare(c)
      BY <1>4, OneKind
    <3> HIDE DEF same, new
    <3> QED BY <1>1, <1>2, <2>4, <2>5, <3>1, <3>2, <3>3, <3>4
  <2>7. CASE ~same
    <3>1. grant' = [grant EXCEPT ![e] = [new EXCEPT !.version = grant[e].version + 1]]
      BY <2>2, <2>7
    <3>2. ~RevokeShare(c) /\ ~DiscloseShared(c)
      BY <1>4, OneKind
    <3> DEFINE made == [new EXCEPT !.version = grant[e].version + 1]
    <3>3. /\ made.fields = q.fields /\ made.confirmed = entry[e].version /\ ~made.revoked
          /\ made.version = grant[e].version + 1
      OBVIOUS
    <3>4. made \in GrantType /\ grant' = [grant EXCEPT ![e] = made]
      BY <2>3, <3>1
    <3>5. made.version > 0
      BY <2>5, <3>3
    <3> HIDE DEF same, new, made
    <3> QED BY <1>1, <1>2, <2>4, <3>2, <3>3, <3>4, <3>5
  <2> QED BY <2>6, <2>7
<1>5. CASE RevokeShare(c)
  <2>1. ~GrantShare(c) /\ ~DiscloseShared(c)
    BY <1>5, OneKind
  <2>2. \/ grant[e].revoked /\ grant' = grant
        \/ grant' = [grant EXCEPT ![e].revoked = TRUE, ![e].version = @ + 1]
    BY <1>5 DEF RevokeShare
  <2>3. grant[e].version + 1 \in 0..MaxVersion
    BY <1>2, <1>5, ProductMemoryAssumption DEF RevokeShare, GrantType
  <2> QED BY <1>1, <1>2, <2>1, <2>2, <2>3 DEF GrantType
<1>6. CASE DiscloseShared(c)
  <2>1. ~GrantShare(c) /\ ~RevokeShare(c)
    BY <1>6, OneKind
  <2>2. grant' = grant
    BY <1>6 DEF DiscloseShared
  <2> QED BY <1>2, <2>1, <2>2, Zenon
<1> QED BY <1>4, <1>5, <1>6 DEF Sharing

\* The version that is disclosed is on record and has a text.
LEMMA DisclosedVersion ==
    ASSUME TypeOK, RowInv, RequestsKnown, SeenKnown, NEW c \in Clients, DiscloseShared(c)
    PROVE LET e == client[c].req.entry
              v == client[c].seen.version IN
          /\ v \in 0..MaxVersion /\ v <= entry[e].version
          /\ grant[e].version > 0 /\ grant[e].fields \in Fields
          /\ history[e][v + 1].text \in Texts
<1> DEFINE e == client[c].req.entry
           v == client[c].seen.version
<1>1. /\ e \in Entries /\ Exists(e) /\ client[c].at = "asked"
      /\ client[c].seen.shared /\ grant[e].version > 0
  BY SharingKnown, Zenon DEF Sharing, DiscloseShared
<1>2. v \in 0..MaxVersion
  BY DEF TypeOK, Seen
<1>3. v <= entry[e].version /\ history[e][v + 1].status = "active"
  BY <1>1 DEF SeenKnown
<1>4. v + 1 \in DOMAIN history[e]
  BY <1>1, <1>2, <1>3, Newest, ProductMemoryAssumption
<1>5. Recorded(history[e][v + 1]) /\ grant[e].fields \in Fields
  BY <1>1, <1>4 DEF RowInv, RowsAgree
<1>6. history[e][v + 1].text \in Texts
  BY <1>3, <1>5 DEF Recorded
<1> QED BY <1>1, <1>2, <1>3, <1>5, <1>6, Zenon

LEMMA SharingType ==
    ASSUME TypeOK, RowInv, RequestsKnown, SeenKnown, NEW c \in Clients, Sharing(c)
    PROVE TypeOK'
<1> DEFINE q == client[c].req
           e == q.entry
<1>1. /\ q \in Request /\ e \in Entries /\ Done(c)
      /\ GrantShare(c) => q.fields \in Fields
      /\ UNCHANGED <<scope, entry, history, operations, link, running, asks>>
  BY SharingKnown
<1>2. grant' \in [Entries -> GrantType]
      /\ (GrantShare(c) => entry[e].text \in Texts)
  BY SharingGrants
<1>3. client' \in [Clients -> ClientType]
  BY <1>1, DoneType
<1>4. disclosures' \subseteq Disclosure /\ approved' \subseteq Approval
  <2>1. CASE GrantShare(c)
    <3>1. disclosures' \in {disclosures, Invalidated(e, disclosures)}
      BY <2>1 DEF GrantShare
    <3>2. approved' \subseteq approved \cup {<<"share", e, entry[e].text, q.fields>>}
      BY <2>1 DEF GrantShare
    <3>3. <<"share", e, entry[e].text, q.fields>> \in Approval
      BY <1>1, <1>2, <2>1 DEF Approval
    <3> QED BY <1>1, <3>1, <3>2, <3>3, InvalidatedType DEF TypeOK
  <2>2. CASE RevokeShare(c)
    <3>1. disclosures' \in {disclosures, Invalidated(e, disclosures)} /\ approved' \subseteq approved
      BY <2>2 DEF RevokeShare
    <3> QED BY <1>1, <3>1, InvalidatedType DEF TypeOK
  <2>3. CASE DiscloseShared(c)
    <3> DEFINE v == client[c].seen.version
               d == [entry |-> e, version |-> v, run |-> "native", fields |-> grant[e].fields,
                     revoked |-> FALSE]
               a == <<"model", e, history[e][v + 1].text, grant[e].fields>>
    <3>1. /\ v \in 0..MaxVersion /\ grant[e].fields \in Fields
          /\ history[e][v + 1].text \in Texts
      BY <2>3, DisclosedVersion
    <3>2. d \in Disclosure /\ a \in Approval
      BY <1>1, <3>1 DEF Disclosure, Approval
    <3>3. disclosures' \subseteq disclosures \cup {d} /\ approved' = approved \cup {a}
      BY <2>3 DEF DiscloseShared
    <3> HIDE DEF d, a
    <3> QED BY <3>2, <3>3 DEF TypeOK
  <2> QED BY <2>1, <2>2, <2>3 DEF Sharing
<1> QED BY <1>1, <1>2, <1>3, <1>4, TypesUnfolded DEF TypeOK, GrantType, ClientType

LEMMA OutsideType ==
    ASSUME TypeOK, Outside
    PROVE TypeOK'
<1>1. CASE RevokeLink
  <2>1. grant' \in [Entries -> GrantType]
    <3>1. ASSUME NEW e \in Entries
          PROVE WithoutLink(grant[e]) \in GrantType
      <4>1. grant[e] \in GrantType /\ grant[e].version < MaxVersion
        BY <1>1, TypesUnfolded DEF RevokeLink
      <4>2. grant[e].version + 1 \in 0..MaxVersion
        BY <4>1, ProductMemoryAssumption DEF GrantType
      <4> QED BY <4>1, <4>2 DEF WithoutLink, GrantType
    <3> QED BY <1>1, <3>1 DEF RevokeLink
  <2>2. link' \in [active : BOOLEAN, version : 1..MaxLink]
    BY <1>1, ProductMemoryAssumption DEF RevokeLink, TypeOK
  <2> QED BY <1>1, <2>1, <2>2 DEF RevokeLink, TypeOK, GrantType
<1>2. CASE ConfirmLink
  BY <1>2, ProductMemoryAssumption DEF ConfirmLink, TypeOK, rows
<1>3. CASE \E r \in Ending : EndRun(r)
  <2>1. PICK r \in Ending : EndRun(r)
    BY <1>3
  <2>2. running' = [running EXCEPT ![r] = FALSE]
        /\ UNCHANGED <<rows, link, client, asks, approved>>
    BY <2>1 DEF EndRun
  <2> QED BY <2>2 DEF TypeOK, rows
<1> QED BY <1>1, <1>2, <1>3 DEF Outside

LEMMA TypeStep ==
    ASSUME TypeOK, RowInv, ClientInv, [Next]_vars
    PROVE TypeOK'
<1>1. CASE UNCHANGED vars
  BY <1>1 DEF vars, rows, TypeOK
<1>2. ASSUME NEW c \in Clients, Quiet(c) \/ Overwrites(c) \/ Save(c) \/ Marks(c) \/ Sharing(c)
      PROVE TypeOK'
  BY <1>2, QuietType, OverwriteType, SaveType, MarksType, SharingType DEF RowInv, ClientInv
<1> QED BY <1>1, <1>2, OutsideType, StepKinds

-----------------------------------------------------------------------------
(* Rows, versions and operations *)

Used == {k \in Keys : operations[k] # NoOperation}
Counted == scope.version = Cardinality(Used)
MadeOnce ==
    \A e \in Entries : \A v \in 1..entry[e].version :
       \E k \in Keys : \A j \in Keys : Makes(j, e, v) <=> j = k

LEMMA AppliedOnceUnfolded == AppliedOnce <=> Counted /\ MadeOnce /\ HistoryFaithful
BY DEF AppliedOnce, Counted, MadeOnce, Used

\* Recording an operation: it takes a key that was free, and makes at most one version,
\* the one after the newest.
LEMMA OperationStep ==
    ASSUME TypeOK, RowInv, NEW c \in Clients,
           Known(client[c].req), client[c].req.key \in Keys,
           KeyFree(client[c].req, client[c].seen),
           NEW e \in Entries \cup {NoEntry}, NEW v \in Nat, NEW new,
           Commit(c, new, e, v),
           \A x \in Entries : entry'[x].version =
              IF x = e /\ client[c].req.action # "disclose" THEN v ELSE entry[x].version,
           e \in Entries =>
              v = IF client[c].req.action = "disclose" THEN entry[e].version
                  ELSE entry[e].version + 1,
           scope \in ScopeType, new \in ScopeType
    PROVE AppliedBefore' /\ Counted' /\ MadeOnce'
<1> DEFINE q == client[c].req
           k == q.key
           made == [request |-> q, entry |-> e, applied |-> v]
<1>1. operations' = [operations EXCEPT ![k] = made] /\ operations \in [Keys -> OperationType]
  BY TypesUnfolded DEF Commit
<1>2. operations[k] = NoOperation
  BY DEF KeyFree
<1>3. made # NoOperation
  <2>1. q.action # "none"
    BY DEF Known, Keyed, Shares, Created, Targeted, Switches
  <2> QED BY <2>1 DEF NoOperation, NoRequest
<1>4. \A x \in Entries : entry[x].version \in Nat
  BY DEF TypeOK, Row
<1>5. AppliedBefore'
  <2>1. AppliedBefore
    BY DEF RowInv
  <2>2. SUFFICES ASSUME NEW j \in Keys, NEW x \in Entries, operations'[j].entry = x
                 PROVE operations'[j].applied <= entry'[x].version
    BY DEF AppliedBefore
  <2>3. CASE j = k
    <3>1. operations'[j] = made
      BY <1>1, <2>3
    <3>2. e = x /\ operations'[j].applied = v
      BY <2>2, <3>1
    <3> QED BY <1>4, <3>2
  <2>4. CASE j # k
    <3>1. operations'[j] = operations[j]
      BY <1>1, <2>4
    <3>2. operations[j].applied <= entry[x].version
      BY <2>1, <2>2, <3>1 DEF AppliedBefore
    <3>3. operations[j].applied \in Nat
      BY <1>1, ProductMemoryAssumption DEF OperationType
    <3> QED BY <1>4, <3>1, <3>2, <3>3
  <2> QED BY <2>3, <2>4
<1>6. Counted'
  <2>1. IsFiniteSet(Used) /\ Used' = Used \cup {k} /\ k \notin Used
    <3>1. IsFiniteSet(Used)
      BY ProductMemoryAssumption, FS_Subset DEF Used
    <3> HIDE DEF made
    <3> QED BY <1>1, <1>2, <1>3, <3>1 DEF Used
  <2>2. Cardinality(Used') = Cardinality(Used) + 1
    BY <2>1, FS_AddElement
  <2>3. scope'.version = scope.version + 1
    BY DEF Commit, ScopeType
  <2> QED BY <2>2, <2>3, AppliedOnceUnfolded DEF RowInv, Counted
<1>7. MadeOnce'
  <2>1. \A j \in Keys, x \in Entries, w \in Nat : j # k => (Makes(j, x, w)' <=> Makes(j, x, w))
    BY <1>1 DEF Makes
  <2>2. \A x \in Entries, w \in Nat : ~Makes(k, x, w)
    BY <1>2, ProductMemoryAssumption DEF Makes, NoOperation
  <2>3. \A j \in Keys, x \in Entries, w \in Nat : j = k =>
           (Makes(j, x, w)' <=> x = e /\ w = v /\ q.action # "disclose")
    <3>1. operations'[k] = made
      BY <1>1
    <3>2. made.entry = e /\ made.applied = v /\ made.request = q
      OBVIOUS
    <3> HIDE DEF made, q, k
    <3> QED BY <3>1, <3>2 DEF Makes
  <2>4. \A j \in Keys, x \in Entries, w \in Nat : w > entry[x].version => ~Makes(j, x, w)
    <3>1. \A j \in Keys : operations[j].applied \in Nat
      BY <1>1, ProductMemoryAssumption DEF OperationType
    <3> QED BY <1>4, <3>1 DEF Makes, RowInv, AppliedBefore
  <2>5. SUFFICES ASSUME NEW x \in Entries, NEW w \in 1..entry'[x].version
                 PROVE \E i \in Keys : \A j \in Keys : Makes(j, x, w)' <=> j = i
    BY DEF MadeOnce
  <2>6. w \in Nat
    BY <1>4
  <2>7. CASE x = e /\ q.action # "disclose" /\ w = v
    <3>1. \A j \in Keys : ~Makes(j, x, w)
      BY <1>4, <2>4, <2>6, <2>7
    <3>2. \A j \in Keys : Makes(j, x, w)' <=> j = k
      <4> TAKE j \in Keys
      <4>1. CASE j = k
        BY <2>3, <2>6, <2>7, <4>1
      <4>2. CASE j # k
        BY <2>1, <2>6, <3>1, <4>2
      <4> QED BY <4>1, <4>2
    <3> QED BY <3>2
  <2>8. CASE ~(x = e /\ q.action # "disclose" /\ w = v)
    <3>1. w \in 1..entry[x].version
      BY <1>4, <2>8
    <3>2. PICK i \in Keys : \A j \in Keys : Makes(j, x, w) <=> j = i
      BY <3>1, AppliedOnceUnfolded DEF RowInv, MadeOnce
    <3>3. i # k /\ \A j \in Keys : j = k => ~Makes(j, x, w)'
      BY <2>2, <2>3, <2>6, <2>8, <3>2
    <3>4. \A j \in Keys : Makes(j, x, w)' <=> j = i
      <4> TAKE j \in Keys
      <4>1. CASE j = k
        BY <3>3, <4>1
      <4>2. CASE j # k
        BY <2>1, <2>6, <3>2, <4>2
      <4> QED BY <4>1, <4>2
    <3> QED BY <3>4
  <2> QED BY <2>7, <2>8
<1> QED BY <1>5, <1>6, <1>7

LEMMA OperationsKept ==
    ASSUME RowInv, UNCHANGED <<entry, operations>>, scope'.version = scope.version
    PROVE AppliedBefore' /\ Counted' /\ MadeOnce'
<1>1. AppliedBefore /\ Counted /\ MadeOnce
  BY AppliedOnceUnfolded DEF RowInv
<1> QED BY <1>1 DEF AppliedBefore, Counted, Used, MadeOnce, Makes

\* An entry gets a new row, and its versions stay a faithful record.
LEMMA RowChanged ==
    ASSUME TypeOK, RowInv, NEW e \in Entries, NEW new \in Row, NEW h \in Seq(Row),
           entry' = [entry EXCEPT ![e] = new], history' = [history EXCEPT ![e] = h],
           UNCHANGED <<grant, disclosures>>,
           new.version > 0, new.version >= entry[e].version,
           Len(h) = new.version + 1, h[new.version + 1] = new,
           \A i \in DOMAIN h : h[i].version = i - 1 /\ Recorded(h[i])
    PROVE HistoryFaithful' /\ RowsAgree' /\ DisclosuresAgree'
<1>1. /\ entry'[e] = new /\ history'[e] = h
      /\ \A x \in Entries : x # e => entry'[x] = entry[x] /\ history'[x] = history[x]
  BY DEF TypeOK
<1>2. HistoryFaithful /\ RowsAgree /\ DisclosuresAgree
  BY DEF RowInv, AppliedOnce
<1>3. \A x \in Entries : entry[x].version \in Nat
  BY DEF TypeOK, Row
<1>4. new.version \in Nat /\ entry[e].version \in Nat
  BY <1>3 DEF Row
<1>5. HistoryFaithful'
  <2>1. \A v \in 0..new.version : h[v + 1].version = v
    <3> TAKE v \in 0..new.version
    <3>1. v + 1 \in DOMAIN h
      BY <1>4
    <3> QED BY <1>4, <3>1
  <2>2. SUFFICES ASSUME NEW x \in Entries, Exists(x)'
                 PROVE /\ Len(history'[x]) = entry'[x].version + 1
                       /\ \A v \in 0..entry'[x].version : history'[x][v + 1].version = v
                       /\ history'[x][entry'[x].version + 1] = entry'[x]
    BY DEF HistoryFaithful
  <2>3. CASE x = e
    BY <1>1, <2>1, <2>3
  <2>4. CASE x # e
    BY <1>1, <1>2, <2>2, <2>4 DEF HistoryFaithful, Exists
  <2> QED BY <2>3, <2>4
<1>6. RowsAgree'
  <2>1. SUFFICES ASSUME NEW x \in Entries
                 PROVE /\ entry'[x].version > 0 \/
                             (entry'[x] = Absent /\ history'[x] = <<>> /\ grant'[x] = NoGrant)
                       /\ \A i \in DOMAIN history'[x] : Recorded(history'[x][i])
                       /\ IF grant'[x].version > 0 THEN grant'[x].fields \in Fields
                                                   ELSE grant'[x] = NoGrant
                       /\ grant'[x].confirmed <= entry'[x].version
    BY DEF RowsAgree, Exists, Recorded
  <2>2. CASE x = e
    <3>1. grant[e].confirmed <= entry[e].version /\ grant[e].confirmed \in Nat
      BY <1>2, ProductMemoryAssumption DEF RowsAgree, TypeOK
    <3>2. grant[e].confirmed <= new.version
      BY <1>4, <3>1
    <3> QED BY <1>1, <1>2, <2>2, <3>2 DEF RowsAgree
  <2>3. CASE x # e
    BY <1>1, <1>2, <2>3 DEF RowsAgree, Exists
  <2> QED BY <2>2, <2>3
<1>7. DisclosuresAgree'
  <2>1. SUFFICES ASSUME NEW d \in disclosures, d.run = "native"
                 PROVE grant[d.entry].version > 0 /\ d.version <= entry'[d.entry].version
    BY DEF DisclosuresAgree
  <2>2. d.entry \in Entries /\ d.version \in Nat
    BY ProductMemoryAssumption DEF TypeOK, Disclosure
  <2>3. grant[d.entry].version > 0 /\ d.version <= entry[d.entry].version
    BY <1>2, <2>1 DEF DisclosuresAgree
  <2> QED BY <1>1, <1>3, <1>4, <2>2, <2>3
<1> QED BY <1>5, <1>6, <1>7

\* The rows stay; grants and disclosures change.
LEMMA RowsStay ==
    ASSUME TypeOK, RowInv, UNCHANGED <<entry, history>>,
           \A x \in Entries : grant'[x] = grant[x] \/
              ( /\ Exists(x) /\ grant'[x].version > 0 /\ grant'[x].fields \in Fields
                /\ grant'[x].confirmed <= entry[x].version ),
           \A d \in disclosures' : d.run = "native" =>
              /\ d.entry \in Entries
              /\ grant[d.entry].version > 0 /\ d.version <= entry[d.entry].version
    PROVE HistoryFaithful' /\ RowsAgree' /\ DisclosuresAgree'
<1>1. HistoryFaithful /\ RowsAgree
  BY DEF RowInv, AppliedOnce
<1>2. HistoryFaithful'
  BY <1>1 DEF HistoryFaithful, Exists
<1>3. RowsAgree'
  <2>1. SUFFICES ASSUME NEW x \in Entries
                 PROVE /\ entry[x].version > 0 \/
                             (entry[x] = Absent /\ history[x] = <<>> /\ grant'[x] = NoGrant)
                       /\ \A i \in DOMAIN history[x] : Recorded(history[x][i])
                       /\ IF grant'[x].version > 0 THEN grant'[x].fields \in Fields
                                                   ELSE grant'[x] = NoGrant
                       /\ grant'[x].confirmed <= entry[x].version
    BY DEF RowsAgree, Exists, Recorded
  <2> QED BY <1>1 DEF RowsAgree, Exists
<1>4. DisclosuresAgree'
  BY DEF DisclosuresAgree
<1> QED BY <1>2, <1>3, <1>4

LEMMA RowInvNext ==
    ASSUME HistoryFaithful' /\ RowsAgree' /\ DisclosuresAgree',
           AppliedBefore' /\ Counted' /\ MadeOnce'
    PROVE RowInv'
<1>1. AppliedOnce'
  BY DEF AppliedOnce, Counted, Used, MadeOnce
<1> QED BY <1>1 DEF RowInv

\* Versions on record, with one more, and the first two.
LEMMA AppendRecords ==
    ASSUME NEW n \in Nat, NEW h \in Seq(Row), Len(h) = n + 1,
           \A i \in DOMAIN h : h[i].version = i - 1 /\ Recorded(h[i]),
           NEW new \in Row, new.version = n + 1, Recorded(new)
    PROVE LET g == Append(h, new) IN
          /\ g \in Seq(Row) /\ Len(g) = new.version + 1 /\ g[new.version + 1] = new
          /\ \A i \in DOMAIN g : g[i].version = i - 1 /\ Recorded(g[i])
          /\ new.version > 0 /\ new.version >= n
<1> DEFINE g == Append(h, new)
<1>1. /\ g \in Seq(Row) /\ Len(g) = n + 2 /\ g[n + 2] = new
      /\ \A i \in 1..(n + 1) : g[i] = h[i]
  BY AppendProperties
<1> HIDE DEF g
<1>2. ASSUME NEW i \in DOMAIN g
      PROVE g[i].version = i - 1 /\ Recorded(g[i])
  <2>1. i \in 1..(n + 2)
    BY <1>1
  <2>2. CASE i = n + 2
    BY <1>1, <2>2
  <2>3. CASE i \in 1..(n + 1)
    <3>1. i \in DOMAIN h /\ g[i] = h[i]
      BY <1>1, <2>3
    <3> QED BY <3>1
  <2> QED BY <2>1, <2>2, <2>3
<1>3. new.version + 1 = n + 2 /\ new.version > 0 /\ new.version >= n
  OBVIOUS
<1> QED BY <1>1, <1>2, <1>3 DEF g

LEMMA FirstRecords ==
    ASSUME NEW none \in Row, NEW row \in Row, none.version = 0, row.version = 1,
           Recorded(none), Recorded(row)
    PROVE LET h == <<none, row>> IN
          /\ h \in Seq(Row) /\ Len(h) = row.version + 1 /\ h[row.version + 1] = row
          /\ \A i \in DOMAIN h : h[i].version = i - 1 /\ Recorded(h[i])
          /\ row.version > 0 /\ row.version >= 0
OBVIOUS

LEMMA NoneRecorded ==
    ASSUME NEW s \in BOOLEAN
    PROVE LET none == [Absent EXCEPT !.status = "forgotten", !.sensitive = s] IN
          none \in Row /\ Recorded(none) /\ none.version = 0
<1> DEFINE none == [Absent EXCEPT !.status = "forgotten", !.sensitive = s]
<1>1. Absent \in Row /\ Absent.version = 0
  BY ProductMemoryAssumption DEF Row, Absent
<1>2. none \in Row /\ none.status = "forgotten" /\ none.version = 0
  BY <1>1 DEF Row
<1> HIDE DEF none
<1>3. Recorded(none)
  BY <1>2 DEF Recorded
<1> QED BY <1>2, <1>3 DEF none

LEMMA VersionsRecorded ==
    ASSUME TypeOK, RowInv, NEW e \in Entries, Exists(e)
    PROVE \A i \in DOMAIN history[e] : history[e][i].version = i - 1 /\ Recorded(history[e][i])
<1>1. /\ history[e] \in Seq(Row) /\ entry[e].version \in Nat
      /\ Len(history[e]) = entry[e].version + 1
  BY Newest
<1> TAKE i \in DOMAIN history[e]
<1>2. i - 1 \in 0..entry[e].version /\ (i - 1) + 1 = i
  <2>1. DOMAIN history[e] = 1..(entry[e].version + 1)
    BY <1>1
  <2>2. i \in 1..(entry[e].version + 1)
    BY <2>1
  <2> QED BY <1>1, <2>2
<1>3. history[e][(i - 1) + 1].version = i - 1
  BY <1>2 DEF RowInv, AppliedOnce, HistoryFaithful
<1> QED BY <1>2, <1>3 DEF RowInv, RowsAgree

LEMMA OverwriteRows ==
    ASSUME TypeOK, RowInv, RequestsKnown, NEW c \in Clients, Overwrites(c)
    PROVE RowInv'
<1> DEFINE q == client[c].req
           e == q.entry
<1>1. /\ Known(q) /\ q.action \in Targeted \ {"disclose"} /\ KeyFree(q, client[c].seen)
      /\ e \in Entries /\ Exists(e)
      /\ \E row \in Row : Recorded(row) /\ Write(c, e, row)
  BY OverwriteRow
<1>2. PICK row \in Row : Recorded(row) /\ Write(c, e, row)
  BY <1>1
<1> DEFINE new == [row EXCEPT !.version = entry[e].version + 1]
           h == Append(history[e], new)
<1>3. /\ new \in Row /\ entry' = [entry EXCEPT ![e] = new]
      /\ history' = [history EXCEPT ![e] = h]
  BY <1>1, <1>2, WriteRecords
<1>4. /\ entry[e].version \in Nat /\ history[e] \in Seq(Row)
      /\ Len(history[e]) = entry[e].version + 1
  BY <1>1, Newest
<1>5. new.version = entry[e].version + 1 /\ Recorded(new)
  BY <1>2 DEF Row, Recorded
<1>6. Commit(c, scope, e, new.version) /\ UNCHANGED <<grant, disclosures>>
  BY <1>2 DEF Write
<1> HIDE DEF new
<1>7. \A i \in DOMAIN history[e] : history[e][i].version = i - 1 /\ Recorded(history[e][i])
  BY <1>1, VersionsRecorded
<1>8. /\ h \in Seq(Row) /\ Len(h) = new.version + 1 /\ h[new.version + 1] = new
      /\ \A i \in DOMAIN h : h[i].version = i - 1 /\ Recorded(h[i])
      /\ new.version > 0 /\ new.version >= entry[e].version
  BY <1>3, <1>4, <1>5, <1>7, AppendRecords
<1> HIDE DEF h
<1>9. HistoryFaithful' /\ RowsAgree' /\ DisclosuresAgree'
  BY <1>1, <1>3, <1>6, <1>8, RowChanged
<1>10. AppliedBefore' /\ Counted' /\ MadeOnce'
  <2>1. q.key \in Keys /\ q.action # "disclose"
    BY <1>1 DEF Known, Keyed
  <2>2. new.version \in Nat
    BY <1>4, <1>5
  <2>3. \A x \in Entries : entry'[x].version = IF x = e /\ q.action # "disclose" THEN new.version
                                               ELSE entry[x].version
    BY <1>3, <2>1 DEF TypeOK
  <2>4. scope \in ScopeType
    BY TypesUnfolded
  <2> QED BY <1>1, <1>5, <1>6, <2>1, <2>2, <2>3, <2>4, OperationStep
<1> QED BY <1>9, <1>10, RowInvNext

\* What a new entry is made of.
LEMMA SaveRecords ==
    ASSUME TypeOK, RequestsKnown, NEW c \in Clients, Save(c)
    PROVE LET q == client[c].req IN
          /\ client[c].at = "asked" /\ Known(q) /\ q.action \in Created
          /\ KeyFree(q, client[c].seen) /\ scope.enabled
          /\ UNCHANGED <<grant, disclosures, approved>>
          /\ \E e \in Entries, row \in Row, none \in Row :
                /\ ~Exists(e) /\ Recorded(row) /\ row.version = 1
                /\ Recorded(none) /\ none.version = 0
                /\ entry' = [entry EXCEPT ![e] = row]
                /\ history' = [history EXCEPT ![e] = <<none, row>>]
                /\ Commit(c, scope, e, 1)
<1> DEFINE q == client[c].req
<1>1. PICK action \in Created, e \in Entries :
         /\ Proceeds(c, action) /\ ~Exists(e)
         /\ LET row == [version |-> 1, status |-> IF action = "save" THEN "active" ELSE "candidate",
                        text |-> q.text, sensitive |-> q.text \in Sensitive]
                none == [Absent EXCEPT !.status = "forgotten", !.sensitive = row.sensitive] IN
            /\ entry' = [entry EXCEPT ![e] = row]
            /\ history' = [history EXCEPT ![e] = <<none, row>>]
            /\ Commit(c, scope, e, 1)
         /\ UNCHANGED <<grant, disclosures, approved>>
  BY DEF Save
<1> DEFINE secret == q.text \in Sensitive
           status == IF action = "save" THEN "active" ELSE "candidate"
           row == [version |-> 1, status |-> status, text |-> q.text, sensitive |-> secret]
           none == [Absent EXCEPT !.status = "forgotten", !.sensitive = secret]
<1>2. /\ client[c].at = "asked" /\ Known(q) /\ q.action = action
      /\ KeyFree(q, client[c].seen) /\ scope.enabled
  <2>1. client[c].at = "asked" /\ q.action = action /\ KeyFree(q, client[c].seen) /\ Enabled(q)
    BY <1>1 DEF Proceeds, Asked, Permitted
  <2> QED BY <2>1, AskedKnown DEF Enabled
<1>3. q.text \in Texts
  BY <1>2 DEF Known
<1>4. /\ entry' = [entry EXCEPT ![e] = row]
      /\ history' = [history EXCEPT ![e] = <<none, row>>]
      /\ Commit(c, scope, e, 1)
  BY <1>1
<1>5. secret \in BOOLEAN /\ status \in {"active", "candidate"}
  OBVIOUS
<1> HIDE DEF secret, status
<1>6. row \in Row /\ Recorded(row) /\ row.version = 1
  BY <1>3, <1>5, ProductMemoryAssumption DEF Row, Recorded
<1>7. none \in Row /\ Recorded(none) /\ none.version = 0
  BY <1>5, NoneRecorded
<1> HIDE DEF row, none
<1> QED BY <1>1, <1>2, <1>4, <1>6, <1>7

LEMMA SaveRows ==
    ASSUME TypeOK, RowInv, RequestsKnown, NEW c \in Clients, Save(c)
    PROVE RowInv'
<1> DEFINE q == client[c].req
<1>1. /\ Known(q) /\ q.action \in Created /\ KeyFree(q, client[c].seen)
      /\ UNCHANGED <<grant, disclosures>>
  BY SaveRecords
<1>2. PICK e \in Entries, row \in Row, none \in Row :
         /\ ~Exists(e) /\ Recorded(row) /\ row.version = 1
         /\ Recorded(none) /\ none.version = 0
         /\ entry' = [entry EXCEPT ![e] = row]
         /\ history' = [history EXCEPT ![e] = <<none, row>>]
         /\ Commit(c, scope, e, 1)
  BY SaveRecords
<1>3. entry[e].version = 0
  BY <1>2, ProductMemoryAssumption DEF Exists, TypeOK, Row
<1> DEFINE h == <<none, row>>
<1>4. /\ h \in Seq(Row) /\ Len(h) = row.version + 1 /\ h[row.version + 1] = row
      /\ \A i \in DOMAIN h : h[i].version = i - 1 /\ Recorded(h[i])
      /\ row.version > 0 /\ row.version >= entry[e].version
  BY <1>2, <1>3, FirstRecords
<1> HIDE DEF h
<1>5. HistoryFaithful' /\ RowsAgree' /\ DisclosuresAgree'
  <2>1. history' = [history EXCEPT ![e] = h]
    BY <1>2 DEF h
  <2> QED BY <1>1, <1>2, <1>4, <2>1, RowChanged
<1>6. AppliedBefore' /\ Counted' /\ MadeOnce'
  <2>1. q.key \in Keys /\ q.action # "disclose"
    BY <1>1 DEF Known, Keyed, Created
  <2>2. \A x \in Entries : entry'[x].version = IF x = e /\ q.action # "disclose"
                                               THEN row.version ELSE entry[x].version
    BY <1>2, <2>1 DEF TypeOK
  <2>3. scope \in ScopeType
    BY TypesUnfolded
  <2>4. row.version = IF q.action = "disclose" THEN entry[e].version ELSE entry[e].version + 1
    BY <1>2, <1>3, <2>1
  <2>5. Commit(c, scope, e, row.version) /\ row.version \in Nat
    BY <1>2
  <2> QED BY <1>1, <2>1, <2>2, <2>3, <2>4, <2>5, OperationStep
<1> QED BY <1>5, <1>6, RowInvNext

LEMMA MarksRows ==
    ASSUME TypeOK, RowInv, RequestsKnown, NEW c \in Clients, Marks(c)
    PROVE RowInv'
<1> DEFINE q == client[c].req
<1>1. /\ Known(q) /\ q.key \in Keys /\ KeyFree(q, client[c].seen)
      /\ UNCHANGED <<entry, history, grant>>
  BY MarksKnown
<1>2. PICK e \in Entries \cup {NoEntry}, new \in ScopeType :
         /\ Commit(c, new, e, IF Disclose(c) THEN entry[e].version ELSE 0)
         /\ Disclose(c) => e = q.entry /\ e \in Entries /\ Exists(e) /\ new = scope
         /\ ~Disclose(c) => e = NoEntry
  BY MarksKnown
<1> DEFINE v == IF Disclose(c) THEN entry[e].version ELSE 0
<1>3. Disclose(c) => q.action = "disclose"
  BY DEF Disclose, Proceeds, Asked
<1>4. v \in Nat
  BY <1>2, ProductMemoryAssumption DEF TypeOK, Row
<1>5. AppliedBefore' /\ Counted' /\ MadeOnce'
  <2>1. e \in Entries => Disclose(c)
    BY <1>2, ProductMemoryAssumption
  <2>2. Commit(c, new, e, v)
    BY <1>2
  <2>3. e \in Entries => v = entry[e].version /\ q.action = "disclose"
    BY <1>3, <2>1
  <2>4. \A x \in Entries : entry'[x].version = IF x = e /\ q.action # "disclose" THEN v
                                               ELSE entry[x].version
    BY <1>1, <2>3
  <2>5. scope \in ScopeType
    BY TypesUnfolded
  <2> HIDE DEF v
  <2> QED BY <1>1, <1>4, <2>2, <2>3, <2>4, <2>5, OperationStep
<1>6. HistoryFaithful' /\ RowsAgree' /\ DisclosuresAgree'
  <2>1. \A d \in disclosures' : d \in disclosures \/ d.run = "own"
    BY DEF Marks, Disclose, Settings, AutomaticSharing, OwnDisclosure
  <2>2. \A d \in disclosures' : d.run = "native" =>
           d.entry \in Entries /\ grant[d.entry].version > 0 /\ d.version <= entry[d.entry].version
    BY <2>1 DEF TypeOK, Disclosure, RowInv, DisclosuresAgree
  <2> QED BY <1>1, <2>2, RowsStay
<1> QED BY <1>5, <1>6, RowInvNext

\* A disclosure that is revoked stays the disclosure of the same version.
LEMMA InvalidatedFrom ==
    ASSUME TypeOK, NEW e, NEW d \in Invalidated(e, disclosures)
    PROVE \E o \in disclosures :
             /\ d.entry = o.entry /\ d.version = o.version /\ d.run = o.run
             /\ d.fields = o.fields
             /\ IF o.entry = e /\ o.run = "native" THEN d.revoked ELSE d = o
<1>1. PICK o \in disclosures :
         d = IF o.entry = e /\ o.run = "native" THEN [o EXCEPT !.revoked = TRUE] ELSE o
  BY Zenon DEF Invalidated
<1>2. o \in Disclosure
  BY DEF TypeOK
<1>3. /\ d.entry = o.entry /\ d.version = o.version /\ d.run = o.run /\ d.fields = o.fields
      /\ IF o.entry = e /\ o.run = "native" THEN d.revoked ELSE d = o
  BY <1>1, <1>2 DEF Disclosure
<1> QED BY <1>3

LEMMA SharingRows ==
    ASSUME TypeOK, RowInv, RequestsKnown, SeenKnown, NEW c \in Clients, Sharing(c)
    PROVE RowInv'
<1> DEFINE e == client[c].req.entry
<1>1. /\ e \in Entries /\ Exists(e)
      /\ UNCHANGED <<scope, entry, history, operations, link, running, asks>>
      /\ GrantShare(c) => client[c].req.fields \in Fields
  BY SharingKnown
<1>2. AppliedBefore' /\ Counted' /\ MadeOnce'
  BY <1>1, OperationsKept
<1>3. RowsAgree /\ DisclosuresAgree
  BY DEF RowInv
<1>4. \A x \in Entries : grant'[x] = grant[x] \/
         ( /\ Exists(x) /\ grant'[x].version > 0 /\ grant'[x].fields \in Fields
           /\ grant'[x].confirmed <= entry[x].version )
  <2>1. \A x \in Entries : x # e => grant'[x] = grant[x]
    BY SharingGrants
  <2>2. grant'[e] = grant[e] \/
         ( /\ grant'[e].version > 0 /\ grant'[e].fields \in Fields
           /\ grant'[e].confirmed <= entry[e].version )
    <3>1. CASE GrantShare(c)
      <4>1. /\ grant'[e].fields = client[c].req.fields /\ grant'[e].version > 0
            /\ grant'[e].confirmed = entry[e].version
        BY <3>1, SharingGrants
      <4>2. entry[e].version \in Nat
        BY <1>1, Newest
      <4> QED BY <1>1, <3>1, <4>1, <4>2
    <3>2. CASE RevokeShare(c)
      <4>1. grant[e].version > 0 /\ grant[e].version \in Nat /\ grant[e] \in GrantType
        BY <1>1, <3>2, TypesUnfolded, ProductMemoryAssumption DEF RevokeShare, GrantType
      <4>2. grant[e].fields \in Fields /\ grant[e].confirmed <= entry[e].version
        BY <1>1, <1>3, <4>1 DEF RowsAgree
      <4>3. CASE grant' = grant
        BY <4>3
      <4>4. CASE grant' = [grant EXCEPT ![e].revoked = TRUE, ![e].version = @ + 1]
        <5>1. /\ grant'[e].version = grant[e].version + 1 /\ grant'[e].fields = grant[e].fields
              /\ grant'[e].confirmed = grant[e].confirmed
          BY <1>1, <4>1, <4>4, TypesUnfolded DEF GrantType
        <5> QED BY <4>1, <4>2, <5>1
      <4> QED BY <3>2, <4>3, <4>4, SharingGrants
    <3>3. CASE DiscloseShared(c)
      BY <3>3, SharingGrants
    <3> QED BY <3>1, <3>2, <3>3 DEF Sharing
  <2> QED BY <1>1, <2>1, <2>2
<1>5. \A d \in disclosures' : d.run = "native" =>
         d.entry \in Entries /\ grant[d.entry].version > 0 /\ d.version <= entry[d.entry].version
  <2>1. \A d \in disclosures : d.run = "native" =>
         d.entry \in Entries /\ grant[d.entry].version > 0 /\ d.version <= entry[d.entry].version
    BY <1>3 DEF TypeOK, Disclosure, DisclosuresAgree
  <2>2. CASE GrantShare(c) \/ RevokeShare(c)
    <3>1. disclosures' \in {disclosures, Invalidated(e, disclosures)}
      BY <2>2, Zenon DEF GrantShare, RevokeShare
    <3>2. ASSUME NEW d \in disclosures', d.run = "native"
          PROVE \E o \in disclosures : o.entry = d.entry /\ o.version = d.version /\ o.run = d.run
      BY <3>1, InvalidatedFrom
    <3> QED BY <2>1, <3>2
  <2>3. CASE DiscloseShared(c)
    <3> DEFINE v == client[c].seen.version
               d == [entry |-> e, version |-> v, run |-> "native", fields |-> grant[e].fields,
                     revoked |-> FALSE]
    <3>1. v <= entry[e].version /\ grant[e].version > 0
      BY <2>3, DisclosedVersion
    <3>2. d.entry = e /\ d.version = v
      OBVIOUS
    <3>3. disclosures' \subseteq disclosures \cup {d}
      BY <2>3 DEF DiscloseShared
    <3> HIDE DEF d, v, e
    <3> QED BY <1>1, <2>1, <3>1, <3>2, <3>3
  <2> QED BY <2>2, <2>3 DEF Sharing
<1>6. HistoryFaithful' /\ RowsAgree' /\ DisclosuresAgree'
  BY <1>1, <1>4, <1>5, RowsStay
<1> QED BY <1>2, <1>6, RowInvNext

LEMMA OutsideRows ==
    ASSUME TypeOK, RowInv, Outside
    PROVE RowInv'
<1>1. UNCHANGED <<scope, entry, history, operations, disclosures>>
  BY DEF Outside, RevokeLink, ConfirmLink, EndRun, rows
<1>2. AppliedBefore' /\ Counted' /\ MadeOnce'
  BY <1>1, OperationsKept
<1>3. RowsAgree /\ DisclosuresAgree
  BY DEF RowInv
<1>4. \A x \in Entries : grant'[x] = grant[x] \/
         ( /\ Exists(x) /\ grant'[x].version > 0 /\ grant'[x].fields \in Fields
           /\ grant'[x].confirmed <= entry[x].version )
  <2>1. CASE RevokeLink
    <3>1. SUFFICES ASSUME NEW x \in Entries, grant'[x] # grant[x]
                   PROVE /\ Exists(x) /\ grant'[x].version > 0 /\ grant'[x].fields \in Fields
                         /\ grant'[x].confirmed <= entry[x].version
      OBVIOUS
    <3>2. grant[x].version > 0 /\ grant'[x] = [grant[x] EXCEPT !.revoked = TRUE, !.version = @ + 1]
      <4>1. grant'[x] = WithoutLink(grant[x])
        BY <2>1 DEF RevokeLink
      <4> QED BY <3>1, <4>1, Zenon DEF WithoutLink
    <3>3. grant[x] \in GrantType /\ grant[x].version \in Nat
      BY TypesUnfolded, ProductMemoryAssumption DEF GrantType
    <3>4. /\ Exists(x) /\ grant[x].fields \in Fields /\ grant[x].confirmed <= entry[x].version
      BY <1>3, <3>2 DEF RowsAgree, NoGrant
    <3>5. /\ grant'[x].version = grant[x].version + 1 /\ grant'[x].fields = grant[x].fields
          /\ grant'[x].confirmed = grant[x].confirmed
      BY <3>2, <3>3 DEF GrantType
    <3> QED BY <3>2, <3>3, <3>4, <3>5
  <2>2. CASE ConfirmLink \/ \E r \in Ending : EndRun(r)
    BY <2>2 DEF ConfirmLink, EndRun, rows
  <2> QED BY <2>1, <2>2 DEF Outside
<1>5. \A d \in disclosures' : d.run = "native" =>
         d.entry \in Entries /\ grant[d.entry].version > 0 /\ d.version <= entry[d.entry].version
  BY <1>1, <1>3 DEF TypeOK, Disclosure, DisclosuresAgree
<1>6. HistoryFaithful' /\ RowsAgree' /\ DisclosuresAgree'
  BY <1>1, <1>4, <1>5, RowsStay
<1> QED BY <1>2, <1>6, RowInvNext

LEMMA RowsUnchanged ==
    ASSUME RowInv, UNCHANGED rows
    PROVE RowInv'
BY DEF rows, RowInv, RowsAgree, DisclosuresAgree, AppliedBefore, AppliedOnce, HistoryFaithful,
       Makes, Exists, Recorded

LEMMA RowStep ==
    ASSUME TypeOK, RowInv, ClientInv, [Next]_vars
    PROVE RowInv'
<1>1. CASE UNCHANGED vars
  BY <1>1, RowsUnchanged DEF vars
<1>2. ASSUME NEW c \in Clients, Quiet(c) \/ Overwrites(c) \/ Save(c) \/ Marks(c) \/ Sharing(c)
      PROVE RowInv'
  <2>1. Quiet(c) => UNCHANGED rows
    BY DEF Quiet, Again, Ask, Replay, Refuse
  <2> QED
    BY <1>2, <2>1, RowsUnchanged, OverwriteRows, SaveRows, MarksRows, SharingRows DEF ClientInv
<1> QED BY <1>1, <1>2, OutsideRows, StepKinds

-----------------------------------------------------------------------------
(* Clients *)

\* Entries are never removed and what is on record never changes.
Grows ==
    \A e \in Entries : Exists(e) =>
       /\ entry'[e].version >= entry[e].version
       /\ \A i \in 1..(entry[e].version + 1) : history'[e][i] = history[e][i]

LEMMA StayGrows ==
    ASSUME TypeOK, UNCHANGED <<entry, history>>
    PROVE Grows
BY DEF Grows, TypeOK, Row

LEMMA OverwriteGrows ==
    ASSUME TypeOK, RowInv, RequestsKnown, NEW c \in Clients, Overwrites(c)
    PROVE Grows
<1> DEFINE e == client[c].req.entry
<1>1. e \in Entries /\ Exists(e) /\ \E row \in Row : Write(c, e, row)
  BY OverwriteRow
<1>2. PICK row \in Row : Write(c, e, row)
  BY <1>1
<1> DEFINE new == [row EXCEPT !.version = entry[e].version + 1]
<1>3. /\ entry' = [entry EXCEPT ![e] = new]
      /\ history' = [history EXCEPT ![e] = Append(history[e], new)]
  BY <1>1, <1>2, WriteRecords
<1>4. new.version = entry[e].version + 1
  BY DEF Row
<1> HIDE DEF new
<1>5. SUFFICES ASSUME NEW x \in Entries, Exists(x)
               PROVE /\ entry'[x].version >= entry[x].version
                     /\ \A i \in 1..(entry[x].version + 1) : history'[x][i] = history[x][i]
  BY DEF Grows
<1>6. /\ entry[x].version \in Nat /\ history[x] \in Seq(Row)
      /\ Len(history[x]) = entry[x].version + 1
  BY <1>5, Newest
<1>7. CASE x = e
  <2>1. entry'[e] = new /\ history'[e] = Append(history[e], new)
    BY <1>1, <1>3 DEF TypeOK
  <2> QED BY <1>4, <1>6, <1>7, <2>1
<1>8. CASE x # e
  BY <1>3, <1>6, <1>8 DEF TypeOK
<1> QED BY <1>7, <1>8

LEMMA SaveGrows ==
    ASSUME TypeOK, RequestsKnown, NEW c \in Clients, Save(c)
    PROVE Grows
<1>1. PICK e \in Entries, row \in Row, none \in Row :
         /\ ~Exists(e)
         /\ entry' = [entry EXCEPT ![e] = row]
         /\ history' = [history EXCEPT ![e] = <<none, row>>]
  BY SaveRecords
<1> QED BY <1>1 DEF Grows, TypeOK, Row

LEMMA StepGrows ==
    ASSUME TypeOK, RowInv, RequestsKnown, [Next]_vars
    PROVE Grows
<1>1. CASE UNCHANGED vars
  BY <1>1, StayGrows DEF vars, rows
<1>2. ASSUME NEW c \in Clients, Quiet(c) \/ Overwrites(c) \/ Save(c) \/ Marks(c) \/ Sharing(c)
      PROVE Grows
  <2>1. Quiet(c) => UNCHANGED <<entry, history>>
    BY DEF Quiet, Again, Ask, Replay, Refuse, rows
  <2>2. Marks(c) \/ Sharing(c) => UNCHANGED <<entry, history>>
    BY MarksKnown, SharingKnown
  <2> QED BY <1>2, <2>1, <2>2, StayGrows, OverwriteGrows, SaveGrows
<1>3. CASE Outside
  BY <1>3, StayGrows DEF Outside, RevokeLink, ConfirmLink, EndRun, rows
<1> QED BY <1>1, <1>2, <1>3, StepKinds

\* What may happen to the clients and the recorded operations in a step.
ClientsMove ==
    \/ UNCHANGED <<client, operations>>
    \/ \E c \in Clients :
          \/ /\ \E q \in Request : Known(q) /\ Ask(c, q)
             /\ UNCHANGED operations
          \/ Refused(c) /\ UNCHANGED operations
          \/ /\ client[c].at = "asked" /\ Done(c) /\ UNCHANGED operations
             /\ client[c].req.key # NoKey =>
                  operations[client[c].req.key].request = client[c].req
          \/ /\ client[c].at = "asked" /\ client[c].req.key \in Keys
             /\ KeyFree(client[c].req, client[c].seen)
             /\ \E new, e, v : Commit(c, new, e, v)

LEMMA StepMoves ==
    ASSUME TypeOK, RowInv, ClientInv, [Next]_vars
    PROVE ClientsMove
<1>1. CASE UNCHANGED vars
  BY <1>1 DEF vars, rows, ClientsMove
<1>2. ASSUME NEW c \in Clients, Quiet(c) \/ Overwrites(c) \/ Save(c) \/ Marks(c) \/ Sharing(c)
      PROVE ClientsMove
  <2>1. RequestsKnown /\ RowsAgree
    BY DEF ClientInv, RowInv
  <2>2. CASE Quiet(c)
    <3>1. UNCHANGED operations
      BY <2>2 DEF Quiet, Again, Ask, Replay, Refuse, rows
    <3>2. (\E q \in Request : Known(q) /\ Ask(c, q)) \/ Replay(c) \/ Refuse(c)
      BY <2>1, <2>2, QuietKinds
    <3>3. CASE Replay(c)
      BY <3>1, <3>3 DEF Replay, ClientsMove
    <3> QED BY <3>1, <3>2, <3>3 DEF Refuse, ClientsMove
  <2>3. CASE Overwrites(c)
    <3> DEFINE q == client[c].req
    <3>1. /\ client[c].at = "asked" /\ Known(q) /\ q.action \in Targeted
          /\ KeyFree(q, client[c].seen) /\ \E row \in Row : Write(c, q.entry, row)
      BY <2>1, <2>3, OverwriteRow
    <3>2. q.key \in Keys
      BY <3>1 DEF Known, Keyed
    <3>3. \E new, e, v : Commit(c, new, e, v)
      BY <3>1 DEF Write
    <3> QED BY <3>1, <3>2, <3>3 DEF ClientsMove
  <2>4. CASE Save(c)
    <3> DEFINE q == client[c].req
    <3>1. /\ client[c].at = "asked" /\ Known(q) /\ q.action \in Created
          /\ KeyFree(q, client[c].seen) /\ \E e \in Entries : Commit(c, scope, e, 1)
      BY <2>1, <2>4, SaveRecords
    <3>2. q.key \in Keys
      BY <3>1 DEF Known, Keyed
    <3> QED BY <3>1, <3>2 DEF ClientsMove
  <2>5. CASE Marks(c)
    <3>1. /\ client[c].at = "asked" /\ client[c].req.key \in Keys
          /\ KeyFree(client[c].req, client[c].seen)
          /\ \E e \in Entries \cup {NoEntry}, new \in ScopeType :
                Commit(c, new, e, IF Disclose(c) THEN entry[e].version ELSE 0)
      BY <2>1, <2>5, MarksKnown
    <3> QED BY <3>1 DEF ClientsMove
  <2>6. CASE Sharing(c)
    <3>1. /\ client[c].at = "asked" /\ client[c].req.key = NoKey /\ Done(c)
          /\ UNCHANGED operations
      BY <2>1, <2>6, SharingKnown
    <3> QED BY <3>1 DEF ClientsMove
  <2> QED BY <1>2, <2>2, <2>3, <2>4, <2>5, <2>6
<1>3. CASE Outside
  BY <1>3 DEF Outside, RevokeLink, ConfirmLink, EndRun, rows, ClientsMove
<1> QED BY <1>1, <1>2, <1>3, StepKinds

LEMMA KnownGrows ==
    ASSUME TypeOK, Grows, NEW q, Known(q), entry' \in [Entries -> Row]
    PROVE Known(q)'
<1>1. \A e \in Entries : Exists(e) => Exists(e)'
  BY ProductMemoryAssumption DEF Grows, Exists, TypeOK, Row
<1> QED BY <1>1 DEF Known

\* The requests of the clients stay known.
LEMMA RequestsStep ==
    ASSUME TypeOK, TypeOK', RowInv, ClientInv, [Next]_vars
    PROVE RequestsKnown'
<1>1. Grows /\ ClientsMove /\ RequestsKnown /\ entry' \in [Entries -> Row]
  BY StepGrows, StepMoves DEF ClientInv, TypeOK
<1>2. SUFFICES ASSUME NEW c \in Clients, client'[c].at # "idle"
               PROVE Known(client'[c].req)
  BY <1>1, KnownGrows DEF RequestsKnown, Known, Exists
<1>3. \/ client'[c].req = client[c].req /\ client[c].at # "idle"
      \/ Known(client'[c].req)
  <2>1. CASE UNCHANGED client
    BY <1>2, <2>1
  <2>2. ASSUME NEW b \in Clients, NEW q \in Request, Known(q), Ask(b, q)
        PROVE \/ client'[c].req = client[c].req /\ client[c].at # "idle"
              \/ Known(client'[c].req)
    BY <1>2, <2>2 DEF Ask, TypeOK
  <2>3. ASSUME NEW b \in Clients, Refused(b)
        PROVE \/ client'[c].req = client[c].req /\ client[c].at # "idle"
              \/ Known(client'[c].req)
    BY <1>2, <2>3 DEF Refused, Idle, TypeOK
  <2>4. ASSUME NEW b \in Clients, client[b].at = "asked", Done(b)
        PROVE \/ client'[c].req = client[c].req /\ client[c].at # "idle"
              \/ Known(client'[c].req)
    BY <1>2, <2>4 DEF Done, TypeOK
  <2> QED BY <1>1, <2>1, <2>2, <2>3, <2>4 DEF ClientsMove, Commit
<1> QED BY <1>1, <1>3 DEF RequestsKnown

\* What a snapshot showed stays true of what is on record.
LEMMA SeenStep ==
    ASSUME TypeOK, RowInv, ClientInv, [Next]_vars
    PROVE SeenKnown'
<1>1. Grows /\ ClientsMove /\ SeenKnown /\ RequestsKnown
  BY StepGrows, StepMoves DEF ClientInv
<1>2. ASSUME NEW c \in Clients, client'[c].at = "asked", client'[c].seen.shared,
             client'[c].req = client[c].req, client'[c].seen = client[c].seen,
             client[c].at = "asked"
      PROVE /\ client'[c].req.action = "disclose_shared"
            /\ client'[c].seen.version <= entry'[client'[c].req.entry].version
            /\ history'[client'[c].req.entry][client'[c].seen.version + 1].status = "active"
  <2> DEFINE e == client[c].req.entry
             v == client[c].seen.version
  <2>1. /\ client[c].req.action = "disclose_shared" /\ v <= entry[e].version
        /\ history[e][v + 1].status = "active"
    BY <1>1, <1>2 DEF SeenKnown
  <2>2. e \in Entries /\ Exists(e)
    BY <1>1, <1>2, <2>1 DEF RequestsKnown, Known, Shares
  <2>3. v \in Nat /\ entry[e].version \in Nat
    BY <2>2, ProductMemoryAssumption DEF TypeOK, Seen, Row
  <2>4. entry'[e].version >= entry[e].version /\ history'[e][v + 1] = history[e][v + 1]
    BY <1>1, <2>1, <2>2, <2>3 DEF Grows
  <2>5. v <= entry'[e].version
    <3>1. entry'[e].version \in Nat
      <4>1. TypeOK'
        BY TypeStep
      <4> QED BY <2>2, <4>1, ProductMemoryAssumption DEF TypeOK, Row
    <3> QED BY <2>1, <2>3, <2>4, <3>1
  <2> QED BY <1>2, <2>1, <2>4, <2>5
<1>3. SUFFICES ASSUME NEW c \in Clients, client'[c].at = "asked", client'[c].seen.shared
               PROVE /\ client'[c].req.action = "disclose_shared"
                     /\ client'[c].seen.version <= entry'[client'[c].req.entry].version
                     /\ history'[client'[c].req.entry][client'[c].seen.version + 1].status = "active"
  BY DEF SeenKnown
<1>4. CASE \E q \in Request : Known(q) /\ Ask(c, q)
  <2>1. PICK q \in Request : Known(q) /\ Ask(c, q)
    BY <1>4
  <2>2. client'[c].req = q /\ client'[c].seen = Found(q) /\ UNCHANGED <<entry, history>>
    BY <2>1 DEF Ask, TypeOK, rows
  <2>3. q.action = "disclose_shared" /\ Shared(q.entry) /\ client'[c].seen.version = entry[q.entry].version
    BY <1>3, <2>2 DEF Found, NothingFound
  <2>4. q.entry \in Entries /\ Exists(q.entry)
    BY <2>1, <2>3 DEF Known, Shares
  <2>5. entry[q.entry].status = "active" /\ entry[q.entry].version \in Nat
        /\ history[q.entry][entry[q.entry].version + 1] = entry[q.entry]
    BY <2>3, <2>4, Newest DEF Shared
  <2> QED BY <2>2, <2>3, <2>5
<1>5. CASE ~\E q \in Request : Known(q) /\ Ask(c, q)
  <2>1. client'[c] = client[c]
    <3>1. ASSUME NEW b \in Clients, NEW q \in Request, Known(q), Ask(b, q)
          PROVE client'[c] = client[c]
      BY <1>5, <3>1 DEF Ask, TypeOK
    <3>2. ASSUME NEW b \in Clients, Refused(b)
          PROVE client'[c] = client[c]
      BY <1>3, <3>2 DEF Refused, Idle, TypeOK
    <3>3. ASSUME NEW b \in Clients, Done(b)
          PROVE client'[c] = client[c]
      BY <1>3, <3>3 DEF Done, TypeOK
    <3> QED BY <1>1, <3>1, <3>2, <3>3 DEF ClientsMove, Commit
  <2> QED BY <1>2, <1>3, <2>1
<1> QED BY <1>4, <1>5

\* A recorded operation is never overwritten, so what a client was told stays true.
LEMMA ToldStep ==
    ASSUME TypeOK, RowInv, ClientInv, [Next]_vars
    PROVE ToldIsRecorded'
<1>1. ClientsMove /\ ToldIsRecorded /\ RequestsKnown
  BY StepMoves DEF ClientInv
<1>2. SUFFICES ASSUME NEW c \in Clients, client'[c].at = "done", client'[c].req.key # NoKey
               PROVE operations'[client'[c].req.key].request = client'[c].req
  BY DEF ToldIsRecorded
<1>3. ASSUME client'[c] = client[c], UNCHANGED operations
      PROVE operations'[client'[c].req.key].request = client'[c].req
  BY <1>1, <1>2, <1>3 DEF ToldIsRecorded
<1>4. CASE UNCHANGED <<client, operations>>
  BY <1>3, <1>4
<1>5. ASSUME NEW b \in Clients, NEW q \in Request, Known(q), Ask(b, q), UNCHANGED operations
      PROVE operations'[client'[c].req.key].request = client'[c].req
  <2>1. c # b /\ client'[c] = client[c]
    BY <1>2, <1>5 DEF Ask, TypeOK
  <2> QED BY <1>3, <1>5, <2>1
<1>6. ASSUME NEW b \in Clients, Refused(b), UNCHANGED operations
      PROVE operations'[client'[c].req.key].request = client'[c].req
  <2>1. c # b /\ client'[c] = client[c]
    BY <1>2, <1>6 DEF Refused, Idle, TypeOK
  <2> QED BY <1>3, <1>6, <2>1
<1>7. ASSUME NEW b \in Clients, Done(b), UNCHANGED operations,
             client[b].req.key # NoKey => operations[client[b].req.key].request = client[b].req
      PROVE operations'[client'[c].req.key].request = client'[c].req
  <2>1. CASE c = b
    <3>1. client'[c].req = client[c].req
      BY <1>7, <2>1 DEF Done, TypeOK
    <3> QED BY <1>2, <1>7, <2>1, <3>1
  <2>2. CASE c # b
    <3>1. client'[c] = client[c]
      BY <1>7, <2>2 DEF Done, TypeOK
    <3> QED BY <1>3, <1>7, <3>1
  <2> QED BY <2>1, <2>2
<1>8. ASSUME NEW b \in Clients, client[b].req.key \in Keys,
             KeyFree(client[b].req, client[b].seen), NEW new, NEW e, NEW v,
             Commit(b, new, e, v)
      PROVE operations'[client'[c].req.key].request = client'[c].req
  <2> DEFINE k == client[b].req.key
  <2>1. /\ operations' = [operations EXCEPT ![k] =
                            [request |-> client[b].req, entry |-> e, applied |-> v]]
        /\ operations \in [Keys -> OperationType]
    BY <1>8, TypesUnfolded DEF Commit
  <2>2. operations'[k].request = client[b].req
    BY <1>8, <2>1
  <2>3. CASE c = b
    <3>1. client'[c].req = client[b].req
      BY <1>8, <2>3 DEF Commit, Done, TypeOK
    <3> QED BY <2>2, <3>1
  <2>4. CASE c # b
    <3>1. client'[c] = client[c]
      BY <1>8, <2>4 DEF Commit, Done, TypeOK
    <3>2. operations[client[c].req.key].request = client[c].req /\ client[c].req.action # "none"
      <4>1. Known(client[c].req)
        BY <1>1, <1>2, <3>1 DEF RequestsKnown
      <4> QED BY <1>1, <1>2, <3>1, <4>1
        DEF ToldIsRecorded, Known, Keyed, Shares, Created, Targeted, Switches
    <3>3. operations[k] = NoOperation
      BY <1>8 DEF KeyFree
    <3>4. client[c].req.key # k
      BY <3>2, <3>3 DEF NoOperation, NoRequest
    <3>5. client[c].req.key \in Keys
      BY <1>2, <3>1 DEF TypeOK, Request
    <3>6. operations'[client[c].req.key] = operations[client[c].req.key]
      <4> HIDE DEF k
      <4> QED BY <2>1, <3>4, <3>5
    <3> QED BY <3>1, <3>2, <3>6
  <2> QED BY <2>3, <2>4
<1> QED BY <1>1, <1>4, <1>5, <1>6, <1>7, <1>8 DEF ClientsMove

LEMMA ClientStep ==
    ASSUME TypeOK, RowInv, ClientInv, [Next]_vars
    PROVE ClientInv'
BY TypeStep, RequestsStep, SeenStep, ToldStep DEF ClientInv

-----------------------------------------------------------------------------
(* Approvals *)

LEMMA GivenOnly ==
    /\ \A what, e, w, x, t, f : <<w, x, t, f>> \in Given(what, e) => x = e /\ w \in what
    /\ \A what, e : <<"recall">> \notin Given(what, e)
    /\ \A w, x, t, f : <<w, x, t, f>> # <<"recall">>
<1>1. \A w, x, t, f : Len(<<w, x, t, f>>) = 4 /\ <<w, x, t, f>>[1] = w /\ <<w, x, t, f>>[2] = x
  OBVIOUS
<1>2. Len(<<"recall">>) = 1
  OBVIOUS
<1>3. \A w, x, t, f : <<w, x, t, f>> # <<"recall">>
  BY <1>1, <1>2
<1> QED BY <1>1, <1>2, <1>3 DEF Given

\* A grant that stays keeps its approval, and so does a disclosure.
LEMMA GrantKept ==
    ASSUME TypeOK, RowInv, Grows, GrantsApproved, NEW e \in Entries, Granted(e),
           grant'[e] = grant[e],
           \A t, f : <<"share", e, t, f>> \in approved => <<"share", e, t, f>> \in approved'
    PROVE <<"share", e, history'[e][grant'[e].confirmed + 1].text, grant'[e].fields>> \in approved'
<1>1. <<"share", e, history[e][grant[e].confirmed + 1].text, grant[e].fields>> \in approved
  BY DEF GrantsApproved
<1>2. Exists(e) /\ grant[e].confirmed <= entry[e].version
  BY DEF RowInv, RowsAgree, Granted, NoGrant
<1>3. grant[e].confirmed \in Nat /\ entry[e].version \in Nat
  BY ProductMemoryAssumption DEF TypeOK, Row
<1>4. grant[e].confirmed + 1 \in 1..(entry[e].version + 1)
  BY <1>2, <1>3
<1>5. history'[e][grant[e].confirmed + 1] = history[e][grant[e].confirmed + 1]
  BY <1>2, <1>4 DEF Grows
<1> QED BY <1>1, <1>5

LEMMA DisclosureKept ==
    ASSUME TypeOK, RowInv, Grows, DisclosuresApproved, NEW d \in disclosures,
           d.run = "native", ~d.revoked, Granted(d.entry),
           \A t, f : <<"model", d.entry, t, f>> \in approved => <<"model", d.entry, t, f>> \in approved'
    PROVE <<"model", d.entry, history'[d.entry][d.version + 1].text, d.fields>> \in approved'
<1>1. <<"model", d.entry, history[d.entry][d.version + 1].text, d.fields>> \in approved
  BY DEF DisclosuresApproved
<1>2. d.entry \in Entries /\ d.version \in Nat
  BY ProductMemoryAssumption DEF TypeOK, Disclosure
<1>3. Exists(d.entry) /\ d.version <= entry[d.entry].version
  BY <1>2 DEF RowInv, RowsAgree, DisclosuresAgree, NoGrant
<1>4. entry[d.entry].version \in Nat
  BY <1>2, ProductMemoryAssumption DEF TypeOK, Row
<1>5. d.version + 1 \in 1..(entry[d.entry].version + 1)
  BY <1>2, <1>3, <1>4
<1>6. history'[d.entry][d.version + 1] = history[d.entry][d.version + 1]
  BY <1>2, <1>3, <1>5 DEF Grows
<1> QED BY <1>1, <1>6

\* The grants and what the native Run may read stay, and nothing is taken back but the
\* consent to recall.
LEMMA SharesKept ==
    ASSUME TypeOK, RowInv, ApprovedInv, Grows, grant' = grant,
           \A d \in disclosures' : d \in disclosures \/ d.run = "own",
           approved \subseteq approved' \cup {<<"recall">>}
    PROVE GrantsApproved' /\ DisclosuresApproved'
<1>1. \A w, e, t, f : <<w, e, t, f>> \in approved => <<w, e, t, f>> \in approved'
  BY GivenOnly
<1>2. GrantsApproved /\ DisclosuresApproved
  BY DEF ApprovedInv
<1>3. GrantsApproved'
  <2>1. SUFFICES ASSUME NEW e \in Entries, Granted(e)
                 PROVE <<"share", e, history'[e][grant'[e].confirmed + 1].text, grant'[e].fields>>
                          \in approved'
    BY DEF GrantsApproved, Granted
  <2> QED BY <1>1, <1>2, <2>1, GrantKept
<1>4. DisclosuresApproved'
  <2>1. SUFFICES ASSUME NEW d \in disclosures', d.run = "native", ~d.revoked, Granted(d.entry)
                 PROVE <<"model", d.entry, history'[d.entry][d.version + 1].text, d.fields>>
                          \in approved'
    BY DEF DisclosuresApproved, Granted
  <2>2. d \in disclosures
    BY <2>1
  <2> QED BY <1>1, <1>2, <2>1, <2>2, DisclosureKept
<1> QED BY <1>3, <1>4

LEMMA ConsentKept ==
    ASSUME ApprovedInv, UNCHANGED link, scope'.consent = scope.consent,
           <<"recall">> \in approved => <<"recall">> \in approved'
    PROVE ConsentApproved'
BY DEF ApprovedInv, ConsentApproved

LEMMA MarksApproved ==
    ASSUME TypeOK, RowInv, RequestsKnown, ApprovedInv, Grows, NEW c \in Clients, Marks(c)
    PROVE ApprovedInv'
<1>1. grant' = grant /\ UNCHANGED link
  BY DEF Marks, Disclose, Settings, AutomaticSharing, Commit
<1>2. \A d \in disclosures' : d \in disclosures \/ d.run = "own"
  BY DEF Marks, Disclose, Settings, AutomaticSharing, OwnDisclosure
<1>3. CASE AutomaticSharing(c)
  <2> DEFINE yes == client[c].req.yes
             consent == IF yes THEN link.version ELSE 0
             new == [scope EXCEPT !.consent = consent]
  <2>1. /\ approved' = IF yes THEN approved \cup {<<"recall">>} ELSE approved \ {<<"recall">>}
        /\ scope' = [new EXCEPT !.version = scope.version + 1]
    BY <1>3 DEF AutomaticSharing, Commit
  <2>2. link.version \in Nat /\ link.version > 0
    BY ProductMemoryAssumption DEF TypeOK
  <2>3. scope'.consent = consent
    <3>1. scope \in ScopeType
      BY TypesUnfolded
    <3> HIDE DEF consent
    <3> QED BY <2>1, <3>1 DEF ScopeType
  <2>4. ConsentApproved'
    <3>1. CASE yes
      BY <1>1, <2>1, <2>2, <2>3, <3>1 DEF ConsentApproved
    <3>2. CASE ~yes
      BY <1>1, <2>2, <2>3, <3>2 DEF ConsentApproved
    <3> QED BY <3>1, <3>2
  <2>5. approved \subseteq approved' \cup {<<"recall">>}
    BY <2>1
  <2> QED BY <1>1, <1>2, <2>4, <2>5, SharesKept DEF ApprovedInv
<1>4. CASE ~AutomaticSharing(c)
  <2>1. UNCHANGED approved
    BY <1>4 DEF Marks, Disclose, Settings
  <2>2. scope'.consent = scope.consent
    <3>1. PICK e \in Entries \cup {NoEntry}, new \in ScopeType :
             /\ Commit(c, new, e, IF Disclose(c) THEN entry[e].version ELSE 0)
             /\ new.consent = scope.consent
      BY <1>4, MarksKnown
    <3> QED BY <3>1 DEF Commit, ScopeType
  <2> QED BY <1>1, <1>2, <2>1, <2>2, SharesKept, ConsentKept DEF ApprovedInv
<1> QED BY <1>3, <1>4

\* Steps that share nothing.
LEMMA OthersApproved ==
    ASSUME TypeOK, RowInv, ApprovedInv, Grows,
           UNCHANGED <<grant, disclosures, link, approved>>, scope'.consent = scope.consent
    PROVE ApprovedInv'
BY SharesKept, ConsentKept DEF ApprovedInv

LEMMA WritesApproved ==
    ASSUME TypeOK, RowInv, RequestsKnown, ApprovedInv, Grows, NEW c \in Clients,
           Overwrites(c) \/ Save(c)
    PROVE ApprovedInv'
<1>1. UNCHANGED <<grant, disclosures, approved>> /\ \E e, v : Commit(c, scope, e, v)
  <2>1. CASE Overwrites(c)
    <3>1. PICK row \in Row : Write(c, client[c].req.entry, row)
      BY <2>1, OverwriteRow
    <3> QED BY <3>1 DEF Write
  <2>2. CASE Save(c)
    BY <2>2, SaveRecords
  <2> QED BY <2>1, <2>2
<1>2. UNCHANGED link /\ scope'.consent = scope.consent
  BY <1>1, TypesUnfolded DEF Commit, ScopeType
<1> QED BY <1>1, <1>2, OthersApproved

\* A new or a repeated grant: the approval of the share is what is shared now, and no
\* disclosure under the grant before is left.
LEMMA GrantApproved ==
    ASSUME TypeOK, RowInv, RequestsKnown, ApprovedInv, Grows, NEW c \in Clients, GrantShare(c)
    PROVE ApprovedInv'
<1> DEFINE q == client[c].req
           e == q.entry
           new == [version |-> 1, confirmed |-> entry[e].version, fields |-> q.fields,
                   automatic |-> q.yes, revoked |-> FALSE]
           same == grant[e] = [new EXCEPT !.version = grant[e].version]
           gone == Given(IF same THEN {"share"} ELSE {"share", "model"}, e)
           a == <<"share", e, entry[e].text, q.fields>>
<1>1. /\ e \in Entries /\ Exists(e)
      /\ UNCHANGED <<scope, entry, history, operations, link, running, asks>>
  BY SharingKnown DEF Sharing
<1>2. /\ \A x \in Entries : x # e => grant'[x] = grant[x]
      /\ grant'[e].fields = q.fields /\ grant'[e].confirmed = entry[e].version
      /\ grant'[e].version > 0
  BY SharingGrants DEF Sharing
<1>3. approved' = (approved \ gone) \cup {a}
  BY DEF GrantShare
<1>4. disclosures' = IF same \/ grant[e].version = 0 THEN disclosures
                     ELSE Invalidated(e, disclosures)
  BY DEF GrantShare
<1>5. same => grant'[e] = grant[e]
  BY <1>1, TypesUnfolded DEF GrantShare
<1> HIDE DEF same, new
<1>6. /\ \A w, x, t, f : <<w, x, t, f>> \in approved /\ x # e => <<w, x, t, f>> \in approved'
      /\ same => \A t, f : <<"model", e, t, f>> \in approved => <<"model", e, t, f>> \in approved'
      /\ <<"recall">> \in approved => <<"recall">> \in approved'
  BY <1>3, GivenOnly
<1>7. GrantsApproved'
  <2>1. SUFFICES ASSUME NEW x \in Entries, Granted(x)'
                 PROVE <<"share", x, history'[x][grant'[x].confirmed + 1].text, grant'[x].fields>>
                          \in approved'
    BY DEF GrantsApproved
  <2>2. CASE x = e
    <3>1. history'[e][grant'[e].confirmed + 1] = entry[e]
      BY <1>1, <1>2, Newest
    <3> QED BY <1>2, <1>3, <2>2, <3>1, Zenon
  <2>3. CASE x # e
    <3>1. grant'[x] = grant[x] /\ Granted(x)
      BY <1>2, <2>1, <2>3 DEF Granted
    <3> QED BY <1>6, <2>3, <3>1, GrantKept DEF ApprovedInv
  <2> QED BY <2>2, <2>3
<1>8. DisclosuresApproved'
  <2>1. SUFFICES ASSUME NEW d \in disclosures', d.run = "native", ~d.revoked, Granted(d.entry)'
                 PROVE <<"model", d.entry, history'[d.entry][d.version + 1].text, d.fields>>
                          \in approved'
    BY DEF DisclosuresApproved
  <2>2. d \in disclosures
    <3>1. CASE disclosures' = disclosures
      BY <3>1
    <3>2. CASE disclosures' = Invalidated(e, disclosures)
      BY <2>1, <3>2, InvalidatedFrom
    <3> QED BY <1>4, <3>1, <3>2
  <2>3. d.entry \in Entries /\ (d.entry = e => grant[e].version > 0)
    BY <2>1, <2>2 DEF TypeOK, Disclosure, RowInv, DisclosuresAgree
  <2>4. CASE d.entry = e
    <3>1. same
      <4>1. SUFFICES ASSUME ~same PROVE FALSE
        OBVIOUS
      <4>2. grant[e].version # 0
        BY <1>1, <2>3, <2>4, ProductMemoryAssumption DEF TypeOK
      <4>3. d \in Invalidated(e, disclosures)
        BY <1>4, <4>1, <4>2
      <4> QED BY <2>1, <2>4, <4>3, InvalidatedFrom
    <3>2. Granted(e)
      BY <1>5, <2>1, <2>4, <3>1 DEF Granted
    <3> QED BY <1>6, <2>1, <2>2, <2>4, <3>1, <3>2, DisclosureKept DEF ApprovedInv
  <2>5. CASE d.entry # e
    <3>1. Granted(d.entry)
      BY <1>2, <2>1, <2>3, <2>5 DEF Granted
    <3> QED BY <1>6, <2>1, <2>2, <2>5, <3>1, DisclosureKept DEF ApprovedInv
  <2> QED BY <2>4, <2>5
<1>9. ConsentApproved'
  BY <1>1, <1>6, ConsentKept
<1> QED BY <1>7, <1>8, <1>9 DEF ApprovedInv

LEMMA RevokeApproved ==
    ASSUME TypeOK, RowInv, RequestsKnown, ApprovedInv, Grows, NEW c \in Clients, RevokeShare(c)
    PROVE ApprovedInv'
<1> DEFINE e == client[c].req.entry
<1>1. /\ e \in Entries /\ Exists(e)
      /\ UNCHANGED <<scope, entry, history, operations, link, running, asks>>
  BY SharingKnown DEF Sharing
<1>2. CASE grant[e].revoked
  BY <1>1, <1>2, OthersApproved DEF RevokeShare
<1>3. CASE ~grant[e].revoked
  <2>1. /\ grant' = [grant EXCEPT ![e].revoked = TRUE, ![e].version = @ + 1]
        /\ disclosures' = Invalidated(e, disclosures)
        /\ approved' = approved \ Given({"share", "model"}, e)
    BY <1>3 DEF RevokeShare
  <2>2. /\ \A x \in Entries : x = e => ~Granted(x)'
        /\ \A x \in Entries : x # e => grant'[x] = grant[x]
    BY <1>1, <2>1, TypesUnfolded DEF Granted, GrantType
  <2>3. /\ \A w, x, t, f : <<w, x, t, f>> \in approved /\ x # e => <<w, x, t, f>> \in approved'
        /\ <<"recall">> \in approved => <<"recall">> \in approved'
    BY <2>1, GivenOnly
  <2>4. GrantsApproved'
    <3>1. SUFFICES ASSUME NEW x \in Entries, Granted(x)'
                   PROVE <<"share", x, history'[x][grant'[x].confirmed + 1].text, grant'[x].fields>>
                            \in approved'
      BY DEF GrantsApproved
    <3>2. x # e /\ grant'[x] = grant[x] /\ Granted(x)
      BY <2>2, <3>1 DEF Granted
    <3> QED BY <2>3, <3>2, GrantKept DEF ApprovedInv
  <2>5. DisclosuresApproved'
    <3>1. SUFFICES ASSUME NEW d \in disclosures', d.run = "native", ~d.revoked, Granted(d.entry)'
                   PROVE <<"model", d.entry, history'[d.entry][d.version + 1].text, d.fields>>
                            \in approved'
      BY DEF DisclosuresApproved
    <3>2. d \in disclosures /\ d.entry # e
      BY <2>1, <2>2, <3>1, InvalidatedFrom
    <3>3. d.entry \in Entries
      BY <3>2 DEF TypeOK, Disclosure
    <3>4. Granted(d.entry)
      BY <2>2, <3>1, <3>2, <3>3 DEF Granted
    <3> QED BY <2>3, <3>1, <3>2, <3>4, DisclosureKept DEF ApprovedInv
  <2>6. ConsentApproved'
    BY <1>1, <2>3, ConsentKept
  <2> QED BY <2>4, <2>5, <2>6 DEF ApprovedInv
<1> QED BY <1>2, <1>3

\* What is disclosed is the version the snapshot showed, which is on record unchanged.
LEMMA DiscloseApproved ==
    ASSUME TypeOK, RowInv, RequestsKnown, ApprovedInv, Grows, NEW c \in Clients,
           DiscloseShared(c)
    PROVE ApprovedInv'
<1> DEFINE e == client[c].req.entry
           v == client[c].seen.version
           new == [entry |-> e, version |-> v, run |-> "native", fields |-> grant[e].fields,
                   revoked |-> FALSE]
           a == <<"model", e, history[e][v + 1].text, grant[e].fields>>
<1>1. UNCHANGED <<scope, entry, history, operations, link, running, asks>> /\ grant' = grant
  BY SharingKnown, Zenon DEF Sharing, DiscloseShared
<1>2. disclosures' \subseteq disclosures \cup {new} /\ approved' = approved \cup {a}
  BY DEF DiscloseShared
<1>3. GrantsApproved'
  <2>1. SUFFICES ASSUME NEW x \in Entries, Granted(x)
                 PROVE <<"share", x, history'[x][grant'[x].confirmed + 1].text, grant'[x].fields>>
                          \in approved'
    BY <1>1 DEF GrantsApproved, Granted
  <2>2. \A t, f : <<"share", x, t, f>> \in approved => <<"share", x, t, f>> \in approved'
    BY <1>2
  <2> QED BY <1>1, <2>1, <2>2, GrantKept DEF ApprovedInv
<1>4. DisclosuresApproved'
  <2>1. SUFFICES ASSUME NEW d \in disclosures', d.run = "native", ~d.revoked, Granted(d.entry)
                 PROVE <<"model", d.entry, history'[d.entry][d.version + 1].text, d.fields>>
                          \in approved'
    BY <1>1 DEF DisclosuresApproved, Granted
  <2>2. CASE d = new
    <3>1. d.entry = e /\ d.version = v /\ d.fields = grant[e].fields
      BY <2>2
    <3> HIDE DEF new, e, v
    <3> QED BY <1>1, <1>2, <3>1
  <2>3. CASE d # new
    <3>1. d \in disclosures
      BY <1>2, <2>3
    <3>2. \A t, f : <<"model", d.entry, t, f>> \in approved => <<"model", d.entry, t, f>> \in approved'
      BY <1>2
    <3> QED BY <2>1, <3>1, <3>2, DisclosureKept DEF ApprovedInv
  <2> QED BY <2>2, <2>3
<1>5. ConsentApproved'
  BY <1>1, <1>2, ConsentKept
<1> QED BY <1>3, <1>4, <1>5 DEF ApprovedInv

LEMMA OutsideApproved ==
    ASSUME TypeOK, RowInv, ApprovedInv, Grows, Outside
    PROVE ApprovedInv'
<1>1. CASE RevokeLink
  <2>1. \A e \in Entries : ~Granted(e)'
    <3> TAKE e \in Entries
    <3>1. grant[e] \in GrantType /\ grant[e].version \in Nat /\ grant'[e] = WithoutLink(grant[e])
      BY <1>1, TypesUnfolded, ProductMemoryAssumption DEF RevokeLink, GrantType
    <3> QED BY <3>1 DEF Granted, WithoutLink, GrantType
  <2>2. DisclosuresApproved'
    <3>1. disclosures' = disclosures
      BY <1>1 DEF RevokeLink
    <3> QED BY <2>1, <3>1 DEF DisclosuresApproved, TypeOK, Disclosure
  <2>3. ConsentApproved'
    <3>1. /\ link' = [active |-> FALSE, version |-> link.version + 1]
          /\ scope' = scope /\ scope.consent <= link.version
      BY <1>1 DEF RevokeLink, ApprovedInv, ConsentApproved
    <3>2. scope.consent \in Nat /\ link.version \in Nat
      BY ProductMemoryAssumption DEF TypeOK
    <3> QED BY <3>1, <3>2 DEF ConsentApproved
  <2> QED BY <2>1, <2>2, <2>3 DEF ApprovedInv, GrantsApproved
<1>2. CASE ConfirmLink
  <2>1. UNCHANGED <<rows, approved>> /\ link' = [active |-> TRUE, version |-> link.version + 1]
    BY <1>2 DEF ConfirmLink
  <2>2. scope.consent \in Nat /\ link.version \in Nat /\ scope.consent <= link.version
    BY ProductMemoryAssumption DEF TypeOK, ApprovedInv, ConsentApproved
  <2>3. ConsentApproved'
    BY <2>1, <2>2 DEF ConsentApproved, rows
  <2> QED BY <2>1, <2>3, SharesKept DEF ApprovedInv, rows
<1>3. CASE \E r \in Ending : EndRun(r)
  BY <1>3, OthersApproved DEF EndRun, rows
<1> QED BY <1>1, <1>2, <1>3 DEF Outside

LEMMA ApprovedStep ==
    ASSUME TypeOK, RowInv, ClientInv, ApprovedInv, [Next]_vars
    PROVE ApprovedInv'
<1>1. Grows /\ RequestsKnown
  BY StepGrows DEF ClientInv
<1>2. CASE UNCHANGED vars
  BY <1>1, <1>2, OthersApproved DEF vars, rows
<1>3. ASSUME NEW c \in Clients, Quiet(c) \/ Overwrites(c) \/ Save(c) \/ Marks(c) \/ Sharing(c)
      PROVE ApprovedInv'
  <2>1. CASE Quiet(c)
    <3>1. UNCHANGED <<rows, link, approved>>
      BY <2>1 DEF Quiet, Again, Ask, Replay, Refuse
    <3> QED BY <1>1, <3>1, OthersApproved DEF rows
  <2>2. CASE Sharing(c)
    BY <1>1, <2>2, GrantApproved, RevokeApproved, DiscloseApproved DEF Sharing
  <2> QED BY <1>1, <1>3, <2>1, <2>2, WritesApproved, MarksApproved
<1> QED BY <1>1, <1>2, <1>3, OutsideApproved, StepKinds

-----------------------------------------------------------------------------
(* The initial states *)

LEMMA InitTypeOK == Init => TypeOK
<1>1. /\ Absent \in Row /\ <<>> \in Seq(Row) /\ NoGrant \in GrantType
  <2>1. Absent \in Row
    BY ProductMemoryAssumption DEF Absent, Row
  <2>2. NoGrant \in GrantType
    BY ProductMemoryAssumption DEF NoGrant, GrantType
  <2> QED BY <2>1, <2>2
<1>2. NoOperation \in OperationType
  BY NoRequestShape, ProductMemoryAssumption DEF NoOperation, OperationType
<1>3. Idle \in ClientType
  BY NothingSeen, NoRequestShape DEF Idle, ClientType
<1>4. SUFFICES ASSUME Init PROVE TypeOK
  OBVIOUS
<1>5. scope \in ScopeType /\ link \in [active : BOOLEAN, version : 1..MaxLink]
  BY <1>4, ProductMemoryAssumption DEF Init, ScopeType
<1>6. /\ entry \in [Entries -> Row] /\ history \in [Entries -> Seq(Row)]
      /\ operations \in [Keys -> OperationType] /\ grant \in [Entries -> GrantType]
      /\ client \in [Clients -> ClientType]
  BY <1>1, <1>2, <1>3, <1>4 DEF Init
<1>7. /\ disclosures \subseteq Disclosure /\ running \in [{"own", "native"} -> BOOLEAN]
      /\ asks \in 0..MaxAsks /\ approved \subseteq Approval
  BY <1>4, ProductMemoryAssumption DEF Init
<1> QED BY <1>5, <1>6, <1>7, TypesUnfolded

LEMMA InitIInv == Init => IInv
<1>1. SUFFICES ASSUME Init PROVE IInv
  OBVIOUS
<1>2. /\ \A e \in Entries : entry[e] = Absent /\ history[e] = <<>> /\ grant[e] = NoGrant
      /\ \A k \in Keys : operations[k] = NoOperation
      /\ \A c \in Clients : client[c] = Idle
      /\ disclosures = {} /\ scope = [enabled |-> TRUE, version |-> 0, consent |-> 0]
      /\ link = [active |-> TRUE, version |-> 1]
  BY <1>1 DEF Init
<1>3. \A e \in Entries : entry[e].version = 0
  BY <1>2 DEF Absent
<1>4. RowsAgree
  <2>1. \A e \in Entries : DOMAIN history[e] = {}
    BY <1>2
  <2>2. \A e \in Entries : grant[e].version = 0 /\ grant[e].confirmed = 0
    BY <1>2 DEF NoGrant
  <2> QED BY <1>2, <1>3, <2>1, <2>2 DEF RowsAgree
<1>5. DisclosuresAgree
  BY <1>2 DEF DisclosuresAgree
<1>6. AppliedBefore
  BY <1>2, ProductMemoryAssumption DEF AppliedBefore, NoOperation
<1>7. Counted /\ MadeOnce /\ HistoryFaithful
  <2>1. Used = {}
    BY <1>2 DEF Used
  <2>2. Counted
    BY <1>2, <2>1, FS_EmptySet DEF Counted
  <2>3. MadeOnce
    BY <1>3 DEF MadeOnce
  <2>4. HistoryFaithful
    BY <1>3 DEF HistoryFaithful, Exists
  <2> QED BY <2>2, <2>3, <2>4
<1>8. ClientInv
  BY <1>2 DEF ClientInv, RequestsKnown, SeenKnown, ToldIsRecorded, Idle
<1>9. GrantsApproved /\ DisclosuresApproved
  BY <1>2 DEF GrantsApproved, DisclosuresApproved, Granted, NoGrant
<1>10. ConsentApproved
  BY <1>2 DEF ConsentApproved
<1>11. RowInv
  BY <1>4, <1>5, <1>6, <1>7, AppliedOnceUnfolded DEF RowInv
<1> QED BY <1>1, <1>8, <1>9, <1>10, <1>11, InitTypeOK DEF IInv, ApprovedInv

-----------------------------------------------------------------------------
(* Theorems *)

LEMMA IInvStep ==
    ASSUME IInv, [Next]_vars
    PROVE IInv'
BY TypeStep, RowStep, ClientStep, ApprovedStep DEF IInv

THEOREM Inductive == Spec => []IInv
BY InitIInv, IInvStep, PTL DEF Spec

\* Type correctness.
THEOREM TypeCorrect == Spec => []TypeOK
<1>1. IInv => TypeOK
  BY DEF IInv
<1> QED BY <1>1, Inductive, PTL

\* One request key has one effect, the revision of the scope counts the effects, and every
\* version there is was made by exactly one of them and is on record, although the look-up
\* of a key may miss an operation that another transaction has just recorded.
THEOREM EachAppliedOnce == Spec => []AppliedOnce
<1>1. IInv => AppliedOnce
  BY DEF IInv, RowInv
<1> QED BY <1>1, Inductive, PTL

\* What a client was told it did is on record.
THEOREM ToldHolds == Spec => []ToldIsRecorded
<1>1. IInv => ToldIsRecorded
  BY DEF IInv, ClientInv
<1> QED BY <1>1, Inductive, PTL

\* What the native account, its models or its recall can read was approved and not taken
\* back: the approvals behind the grants, the disclosures and the consent are those of
\* what is read now.
LEMMA ApprovedReads == IInv => ReadsAreApproved
<1>1. SUFFICES ASSUME IInv PROVE ReadsAreApproved
  OBVIOUS
<1>2. TypeOK /\ RowInv /\ GrantsApproved /\ DisclosuresApproved /\ ConsentApproved
  BY <1>1 DEF IInv, ApprovedInv
<1>3. \A e \in Entries : Shared(e) =>
         Granted(e) /\ history[e][entry[e].version + 1] = entry[e]
  <2>1. \A e \in Entries : Shared(e) => Granted(e) /\ Exists(e)
    BY <1>2 DEF Shared, Granted, RowInv, RowsAgree, NoGrant
  <2> QED BY <1>2, <2>1, Newest
<1>4. SharedIsApproved
  BY <1>2, <1>3 DEF SharedIsApproved, GrantsApproved, Shared
<1>5. ModelReadsApproved
  <2>1. SUFFICES ASSUME NEW e \in Entries, GivenToModel(e),
                        entry[e].sensitive \/ ~grant[e].automatic
                 PROVE <<"model", e, entry[e].text, grant[e].fields>> \in approved
    BY DEF ModelReadsApproved
  <2>2. Shared(e) /\ Disclosed(e)
    BY <2>1 DEF GivenToModel
  <2>3. PICK d \in disclosures :
           /\ d.entry = e /\ d.version = entry[e].version /\ d.run = "native"
           /\ ~d.revoked /\ d.fields = grant[e].fields
    BY <2>2 DEF Disclosed
  <2>4. <<"model", e, history[e][entry[e].version + 1].text, grant[e].fields>> \in approved
    BY <1>2, <1>3, <2>2, <2>3 DEF DisclosuresApproved
  <2> QED BY <1>3, <2>2, <2>4
<1>6. RecallOn => <<"recall">> \in approved
  BY <1>2 DEF RecallOn, ConsentApproved
<1> QED BY <1>4, <1>5, <1>6 DEF ReadsAreApproved

THEOREM OnlyApprovedIsRead == Spec => []ReadsAreApproved
BY ApprovedReads, Inductive, PTL

\* While memory is switched off no change makes an entry active.
LEMMA OffStep ==
    ASSUME IInv, [Next]_vars, ~scope.enabled, NEW e \in Entries, entry'[e].status = "active"
    PROVE entry[e].status = "active"
<1>1. TypeOK /\ RowInv /\ RequestsKnown
  BY DEF IInv, ClientInv
<1>2. CASE UNCHANGED entry
  BY <1>2
<1>3. ASSUME NEW c \in Clients, Overwrites(c)
      PROVE entry[e].status = "active"
  <2> DEFINE x == client[c].req.entry
  <2>1. /\ x \in Entries /\ Exists(x)
        /\ \E row \in Row : Write(c, x, row) /\ (row.status = "active" => entry[x].status = "active")
    BY <1>1, <1>3, OverwriteRow
  <2>2. PICK row \in Row : Write(c, x, row) /\ (row.status = "active" => entry[x].status = "active")
    BY <2>1
  <2> DEFINE new == [row EXCEPT !.version = entry[x].version + 1]
  <2>3. entry' = [entry EXCEPT ![x] = new]
    BY <1>1, <2>1, <2>2, WriteRecords
  <2>4. new.status = row.status
    BY DEF Row
  <2> HIDE DEF new
  <2>5. entry'[e] = IF e = x THEN new ELSE entry[e]
    BY <1>1, <2>3 DEF TypeOK
  <2> QED BY <2>2, <2>4, <2>5
<1>4. ASSUME NEW c \in Clients, Save(c)
      PROVE FALSE
  BY <1>1, <1>4, SaveRecords
<1>5. ASSUME NEW c \in Clients, Quiet(c) \/ Marks(c) \/ Sharing(c)
      PROVE UNCHANGED entry
  BY <1>1, <1>5, MarksKnown, SharingKnown DEF Quiet, Again, Ask, Replay, Refuse, rows
<1>6. Outside => UNCHANGED entry
  BY DEF Outside, RevokeLink, ConfirmLink, EndRun, rows
<1> QED BY <1>2, <1>3, <1>4, <1>5, <1>6, StepKinds DEF vars, rows

THEOREM OffHolds == Spec => OffActivatesNothing
<1>1. IInv /\ [Next]_vars =>
        [~scope.enabled => \A e \in Entries :
            entry'[e].status = "active" => entry[e].status = "active"]_vars
  BY OffStep
<1> QED BY <1>1, Inductive, PTL DEF Spec, OffActivatesNothing
=============================================================================
