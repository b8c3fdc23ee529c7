---------------------------- MODULE ProductMemory ----------------------------
(***************************************************************************)
(* A person's memory in the Assistant entry (features/memory/services/     *)
(* product_memory.py), its sharing with the person's native account over   *)
(* an account link (sharing.py, automatic_recall.py, disclosures.py) and   *)
(* the link itself (identity/services/account_linking.py).                 *)
(*                                                                         *)
(* A request is one transaction.  Its authorization opens the snapshot its *)
(* plain reads see (MySQL, REPEATABLE READ); then it waits for its row     *)
(* locks, under which it reads what is committed, and commits.  The locks  *)
(* of the scope, the grant and the link are held from the first use to the *)
(* commit, so all after the snapshot is one step.                          *)
(*                                                                         *)
(* An entry is a set of immutable versions and a row that is the newest;   *)
(* an operation is recorded under its request key; a grant shares fields   *)
(* of one version with the native account; a disclosure lets one Run of    *)
(* the recipient read one version.                                         *)
(***************************************************************************)
EXTENDS Naturals, FiniteSets, Sequences

CONSTANTS
    Clients,
    Entries,
    Texts,
    Sensitive,  \* texts that need a confirmation
    NoText,
    Fields,     \* selections of fields a grant can name
    NoFields,
    Keys,       \* request keys
    NoKey,
    NoEntry,
    Capacity,   \* unforgotten entries of a scope
    Offers,     \* bound: what each client asks for, but for key, entry and version
    Ending,     \* bound: the Runs that end
    MaxVersion, \* bound: versions of an entry, of a grant
    MaxLink,    \* bound: versions of the link
    MaxAsks     \* bound: requests, retries included

Created == {"save", "propose"}
Targeted == {"correct", "undo", "forget", "confirm", "disclose"}
Switches == {"settings", "automatic_sharing"}
Keyed == Created \cup Targeted \cup Switches
Shares == {"grant_share", "revoke_share", "disclose_shared"}

Request == [action : Keyed \cup Shares \cup {"none"}, key : Keys \cup {NoKey},
            entry : Entries \cup {NoEntry}, expected : Nat,
            text : Texts \cup {NoText}, fields : Fields \cup {NoFields},
            yes : BOOLEAN, by : {"user", "tool"}]
NoRequest == [action |-> "none", key |-> NoKey, entry |-> NoEntry, expected |-> 0,
              text |-> NoText, fields |-> NoFields, yes |-> FALSE, by |-> "user"]

\* What the schemas admit; a model's tool has no confirmation to give, and never undoes,
\* discloses or shares (yes is the switch itself in a request for the settings).
Valid(o) ==
    /\ o \in Request /\ o.action # "none"
    /\ o.key = NoKey /\ o.entry = NoEntry /\ o.expected = 0
    /\ o.text # NoText <=> o.action \in Created \cup {"correct"}
    /\ o.fields # NoFields <=> o.action = "grant_share"
    /\ o.by = "tool" =>
         /\ o.action \in Created \cup {"correct", "forget", "confirm", "settings"}
         /\ o.yes => o.action = "settings"

ASSUME ProductMemoryAssumption ==
    /\ Sensitive \subseteq Texts /\ NoText \notin Texts /\ NoFields \notin Fields
    /\ IsFiniteSet(Keys) /\ NoKey \notin Keys /\ NoEntry \notin Entries
    /\ \A c \in Clients : \A o \in Offers[c] : Valid(o)
    /\ Ending \subseteq {"own", "native"}
    /\ Capacity \in Nat \ {0} /\ MaxVersion \in Nat \ {0} /\ MaxLink \in Nat \ {0}
    /\ MaxAsks \in Nat

VARIABLES
    scope,       \* enabled, version, and the link version recall was allowed for (0: not)
    entry,       \* entry -> its row
    history,     \* entry -> its versions, from version zero
    operations,  \* key -> the recorded operation
    grant,       \* entry -> its share with the native account
    disclosures, \* versions a Run was allowed to read
    link,        \* the account link: active, version
    running,     \* the Assistant's own Run and the native one
    client,      \* client -> its request, what its snapshot shows, its answer
    asks,        \* requests made
    approved     \* what the person approved and has not taken back (history variable)

rows == <<scope, entry, history, operations, grant, disclosures>>
vars == <<rows, link, running, client, asks, approved>>

Row == [version : 0..MaxVersion, status : {"absent", "candidate", "active", "forgotten"},
        text : Texts \cup {NoText}, sensitive : BOOLEAN]
Absent == [version |-> 0, status |-> "absent", text |-> NoText, sensitive |-> FALSE]
NoGrant == [version |-> 0, confirmed |-> 0, fields |-> NoFields, automatic |-> FALSE,
            revoked |-> FALSE]

NoOperation == [request |-> NoRequest, entry |-> NoEntry, applied |-> 0]

Unforgotten == {e \in Entries : entry[e].status \in {"candidate", "active"}}

OwnDisclosure(e) ==
    [entry |-> e, version |-> entry[e].version, run |-> "own", fields |-> NoFields,
     revoked |-> FALSE]

\* read_shared: the native account is given the fields of an entry.
Shared(e) ==
    /\ grant[e].version > 0 /\ ~grant[e].revoked
    /\ grant[e].confirmed = entry[e].version
    /\ entry[e].status = "active"
    /\ scope.enabled /\ link.active

\* What the plain reads of a request find, in the snapshot its authorization opens: an
\* operation under its key, room for an entry, the disclosure it asks for, the link, and,
\* for disclose_shared, the entry as it is shared.
NothingFound == [used |-> FALSE, room |-> FALSE, disclosed |-> FALSE, linked |-> FALSE,
                 shared |-> FALSE, version |-> 0]
Found(q) ==
    [NothingFound EXCEPT
        !.used = q.key \in Keys /\ operations[q.key] # NoOperation,
        !.room = q.action \in Created /\ Cardinality(Unforgotten) < Capacity,
        !.disclosed = q.action = "disclose" /\ OwnDisclosure(q.entry) \in disclosures,
        !.linked = q.action \in {"grant_share", "automatic_sharing"} /\ link.active,
        !.shared = q.action = "disclose_shared" /\ Shared(q.entry),
        !.version = IF q.action = "disclose_shared" THEN entry[q.entry].version ELSE 0]

Seen == [used : BOOLEAN, room : BOOLEAN, disclosed : BOOLEAN, linked : BOOLEAN,
         shared : BOOLEAN, version : 0..MaxVersion]
Idle == [at |-> "idle", req |-> NoRequest, seen |-> NothingFound]

Disclosure == [entry : Entries, version : 0..MaxVersion, run : {"own", "native"},
               fields : Fields \cup {NoFields}, revoked : BOOLEAN]
Approval == ({"share", "model"} \X Entries \X Texts \X Fields) \cup {<<"recall">>}

\* Type correctness.
TypeOK ==
    /\ scope \in [enabled : BOOLEAN, version : Nat, consent : 0..MaxLink]
    /\ entry \in [Entries -> Row]
    /\ history \in [Entries -> Seq(Row)]
    /\ operations \in [Keys -> [request : Request, entry : Entries \cup {NoEntry},
                                applied : 0..MaxVersion]]
    /\ grant \in [Entries -> [version : 0..MaxVersion, confirmed : 0..MaxVersion,
                              fields : Fields \cup {NoFields}, automatic : BOOLEAN,
                              revoked : BOOLEAN]]
    /\ disclosures \subseteq Disclosure
    /\ link \in [active : BOOLEAN, version : 1..MaxLink]
    /\ running \in [{"own", "native"} -> BOOLEAN]
    /\ client \in [Clients -> [at : {"idle", "asked", "done"}, req : Request, seen : Seen]]
    /\ asks \in 0..MaxAsks
    /\ approved \subseteq Approval

Init ==
    /\ scope = [enabled |-> TRUE, version |-> 0, consent |-> 0]
    /\ entry = [e \in Entries |-> Absent]
    /\ history = [e \in Entries |-> <<>>]
    /\ operations = [k \in Keys |-> NoOperation]
    /\ grant = [e \in Entries |-> NoGrant]
    /\ disclosures = {}
    /\ link = [active |-> TRUE, version |-> 1]
    /\ running = [r \in {"own", "native"} |-> TRUE]
    /\ client = [c \in Clients |-> Idle]
    /\ asks = 0
    /\ approved = {}

Exists(e) == entry[e].version > 0

-----------------------------------------------------------------------------
(* Requests *)

\* What a client can ask: one of the offers, with a key if the action takes one, for an
\* entry there is, naming the version it reads now of what the action changes.
Version(action, e) ==
    CASE action \in Created -> 0
      [] action \in Switches -> scope.version
      [] action \in Targeted \cup {"grant_share"} -> entry[e].version
      [] OTHER -> grant[e].version

Filled(o, k, e) ==
    [o EXCEPT !.key = k, !.entry = e, !.expected = Version(o.action, e)]

Asks(o) ==
    {Filled(o, k, e) :
        k \in IF o.action \in Keyed THEN Keys ELSE {NoKey},
        e \in IF o.action \in Targeted \cup Shares THEN {x \in Entries : Exists(x)} ELSE {NoEntry}}

\* A request arrives and is authorized, which opens its snapshot.
Ask(c, q) ==
    /\ client[c].at \in {"idle", "done"}
    /\ asks < MaxAsks /\ asks' = asks + 1
    /\ client' = [client EXCEPT ![c] = [at |-> "asked", req |-> q, seen |-> Found(q)]]
    /\ UNCHANGED <<rows, link, running, approved>>

\* The answer was lost: the same request again, in a new transaction.
Again(c) ==
    /\ client[c].at = "done" /\ client[c].req.key # NoKey
    /\ Ask(c, client[c].req)

Asked(c, action) == client[c].at = "asked" /\ client[c].req.action = action
Done(c) == client' = [client EXCEPT ![c].at = "done", ![c].seen = NothingFound]
Refused(c) == client' = [client EXCEPT ![c] = Idle]

-----------------------------------------------------------------------------
(* One operation of the memory: _mutate *)

\* An Assistant's tool may keep what the person said without asking for each item.
Automatic(q) == q.by = "tool" /\ q.action \in {"save", "correct"}
Confirmed(q, sensitive) == sensitive => q.yes \/ Automatic(q)

Enabled(q) == q.action \in Created \cup {"confirm"} \/ Automatic(q) => scope.enabled

\* Version n - 1 is on record, and does not become active while memory is off.
Undoable(e) ==
    /\ entry[e].version \in DOMAIN history[e]
    /\ history[e][entry[e].version].status = "active" => scope.enabled

Target(q) ==
    LET e == q.entry IN
    /\ entry[e].status # "forgotten" \/ q.action = "undo"
    /\ entry[e].version = q.expected
    /\ CASE q.action = "correct" -> Confirmed(q, entry[e].sensitive \/ q.text \in Sensitive)
         [] q.action = "undo" -> Undoable(e)
         [] q.action = "confirm" ->
               entry[e].status = "candidate" /\ (entry[e].sensitive => q.yes)
         [] q.action = "disclose" -> q.yes
         [] OTHER -> TRUE

\* Whether the request is carried out.
Permitted(q, seen) ==
    /\ Enabled(q)
    /\ CASE q.action \in Created ->
               Confirmed(q, q.text \in Sensitive) /\ seen.room
         [] q.action \in Targeted -> Target(q)
         [] q.action = "settings" -> scope.version = q.expected
         [] q.action = "automatic_sharing" ->
               scope.version = q.expected /\ link.active /\ seen.linked
    /\ q.by = "tool" => running["own"]

\* Mutant: the look-up alone decides; no unique constraint.
KeyFreeSeen(q, seen) == ~seen.used

\* No earlier use, and none the snapshot hides (uq_memory_operation_key).
KeyFree(q, seen) == ~seen.used /\ operations[q.key] = NoOperation

Proceeds(c, action) ==
    /\ Asked(c, action)
    /\ KeyFree(client[c].req, client[c].seen)
    /\ Permitted(client[c].req, client[c].seen)

\* The revision of the scope, the recorded operation and the commit.
Commit(c, newScope, e, version) ==
    /\ scope' = [newScope EXCEPT !.version = scope.version + 1]
    /\ operations' = [operations EXCEPT ![client[c].req.key] =
          [request |-> client[c].req, entry |-> e, applied |-> version]]
    /\ Done(c)
    /\ UNCHANGED <<link, running, asks>>

\* retain_version: a version is recorded once.
Retained(e, row) ==
    IF row.version < Len(history[e]) THEN history[e] ELSE Append(history[e], row)

Write(c, e, row) ==
    LET new == [row EXCEPT !.version = entry[e].version + 1] IN
    /\ entry[e].version < MaxVersion
    /\ entry' = [entry EXCEPT ![e] = new]
    /\ history' = [history EXCEPT ![e] = Retained(e, new)]
    /\ Commit(c, scope, e, new.version)
    /\ UNCHANGED <<grant, disclosures, approved>>

\* save, propose: a new entry; its version zero records that there was none.
Save(c) ==
    LET q == client[c].req IN
    \E action \in Created, e \in Entries :
       /\ Proceeds(c, action) /\ ~Exists(e)
       /\ LET row == [version |-> 1, status |-> IF action = "save" THEN "active" ELSE "candidate",
                      text |-> q.text, sensitive |-> q.text \in Sensitive]
              none == [Absent EXCEPT !.status = "forgotten", !.sensitive = row.sensitive] IN
          /\ entry' = [entry EXCEPT ![e] = row]
          /\ history' = [history EXCEPT ![e] = <<none, row>>]
          /\ Commit(c, scope, e, 1)
       /\ UNCHANGED <<grant, disclosures, approved>>

Correct(c) ==
    LET q == client[c].req IN
    /\ Proceeds(c, "correct")
    /\ Write(c, q.entry, [entry[q.entry] EXCEPT !.text = q.text,
                                                !.sensitive = @ \/ q.text \in Sensitive])

\* undo: the version before becomes the newest.
Undo(c) ==
    LET e == client[c].req.entry IN
    /\ Proceeds(c, "undo")
    /\ Write(c, e, history[e][entry[e].version])

Forget(c) ==
    LET e == client[c].req.entry IN
    /\ Proceeds(c, "forget")
    /\ Write(c, e, [entry[e] EXCEPT !.status = "forgotten", !.text = NoText])

Confirm(c) ==
    LET e == client[c].req.entry IN
    /\ Proceeds(c, "confirm")
    /\ Write(c, e, [entry[e] EXCEPT !.status = "active"])

\* disclose: the entry's own Run may read this version.
Disclose(c) ==
    LET e == client[c].req.entry IN
    /\ Proceeds(c, "disclose")
    /\ OwnDisclosure(e) \in disclosures => client[c].seen.disclosed
    /\ disclosures' = disclosures \cup {OwnDisclosure(e)}
    /\ Commit(c, scope, e, entry[e].version)
    /\ UNCHANGED <<entry, history, grant, approved>>

Settings(c) ==
    /\ Proceeds(c, "settings")
    /\ Commit(c, [scope EXCEPT !.enabled = client[c].req.yes], NoEntry, 0)
    /\ UNCHANGED <<entry, history, grant, disclosures, approved>>

\* automatic_sharing: the native owner lets its Runs recall this scope over this link.
AutomaticSharing(c) ==
    LET yes == client[c].req.yes IN
    /\ Proceeds(c, "automatic_sharing")
    /\ Commit(c, [scope EXCEPT !.consent = IF yes THEN link.version ELSE 0], NoEntry, 0)
    /\ approved' = IF yes THEN approved \cup {<<"recall">>} ELSE approved \ {<<"recall">>}
    /\ UNCHANGED <<entry, history, grant, disclosures>>

\* An earlier use of the key answers, for the same request.
Replay(c) ==
    LET q == client[c].req IN
    /\ client[c].at = "asked" /\ client[c].seen.used
    /\ IF operations[q.key].request = q THEN Done(c) ELSE Refused(c)
    /\ UNCHANGED <<rows, link, running, asks, approved>>

\* Everything is rolled back: a check fails, a unique constraint, the store, the process.
Refuse(c) ==
    /\ client[c].at = "asked"
    /\ Refused(c)
    /\ UNCHANGED <<rows, link, running, asks, approved>>

-----------------------------------------------------------------------------
(* Sharing with the native account: sharing.py *)

\* shared_disclosure_matches, for a Run of the native account.
Disclosed(e) ==
    \E d \in disclosures :
       /\ d.entry = e /\ d.version = entry[e].version /\ d.run = "native"
       /\ ~d.revoked /\ d.fields = grant[e].fields

\* A model is given the fields, not a notice that a disclosure is required.
GivenToModel(e) ==
    /\ Shared(e)
    /\ grant[e].automatic \/ Disclosed(e)
    /\ entry[e].sensitive => Disclosed(e)

\* Mutant: the disclosures of an earlier grant are left.
InvalidatedNone(e, ds) == ds

\* invalidate_share_disclosures.
Invalidated(e, ds) ==
    {IF d.entry = e /\ d.run = "native" THEN [d EXCEPT !.revoked = TRUE] ELSE d : d \in ds}

Given(what, e) == {a \in approved : Len(a) = 4 /\ a[1] \in what /\ a[2] = e}

\* grant_share.
GrantShare(c) ==
    LET q == client[c].req
        e == q.entry
        new == [version |-> 1, confirmed |-> entry[e].version, fields |-> q.fields,
                automatic |-> q.yes, revoked |-> FALSE]
        same == grant[e] = [new EXCEPT !.version = grant[e].version] IN
    /\ Asked(c, "grant_share")
    /\ link.active /\ client[c].seen.linked
    /\ entry[e].status = "active" /\ entry[e].version = q.expected
    /\ grant[e].version < MaxVersion
    /\ grant' = [grant EXCEPT ![e] =
          IF same THEN @ ELSE [new EXCEPT !.version = grant[e].version + 1]]
    /\ disclosures' = IF same \/ grant[e].version = 0 THEN disclosures
                      ELSE Invalidated(e, disclosures)
    /\ approved' = (approved \ Given(IF same THEN {"share"} ELSE {"share", "model"}, e))
                   \cup {<<"share", e, entry[e].text, q.fields>>}
    /\ Done(c)
    /\ UNCHANGED <<scope, entry, history, operations, link, running, asks>>

\* revoke_share.
RevokeShare(c) ==
    LET q == client[c].req
        e == q.entry IN
    /\ Asked(c, "revoke_share")
    /\ grant[e].version > 0
    /\ grant[e].revoked \/ grant[e].version = q.expected
    /\ grant[e].version < MaxVersion
    /\ IF grant[e].revoked THEN UNCHANGED <<grant, disclosures, approved>>
       ELSE /\ grant' = [grant EXCEPT ![e].revoked = TRUE, ![e].version = @ + 1]
            /\ disclosures' = Invalidated(e, disclosures)
            /\ approved' = approved \ Given({"share", "model"}, e)
    /\ Done(c)
    /\ UNCHANGED <<scope, entry, history, operations, link, running, asks>>

\* disclose_shared: the Run and the grant are locked; the entry is as the snapshot shows it.
DiscloseShared(c) ==
    LET q == client[c].req
        e == q.entry
        v == client[c].seen.version
        old == {d \in disclosures : d.entry = e /\ d.version = v /\ d.run = "native"} IN
    /\ Asked(c, "disclose_shared")
    /\ running["native"]
    /\ grant[e].version > 0 /\ grant[e].version = q.expected
    /\ client[c].seen.shared
    /\ disclosures' = (disclosures \ old) \cup
          {[entry |-> e, version |-> v, run |-> "native", fields |-> grant[e].fields,
            revoked |-> FALSE]}
    /\ approved' = approved \cup {<<"model", e, history[e][v + 1].text, grant[e].fields>>}
    /\ Done(c)
    /\ UNCHANGED <<scope, entry, history, operations, grant, link, running, asks>>

-----------------------------------------------------------------------------
(* The account link and the Runs *)

\* The shares over a revoked link end with it.
WithoutLink(g) ==
    IF g.version > 0 /\ ~g.revoked THEN [g EXCEPT !.revoked = TRUE, !.version = @ + 1] ELSE g

\* revoke_link.
RevokeLink ==
    /\ link.active /\ link.version < MaxLink
    /\ \A e \in Entries : grant[e].version < MaxVersion
    /\ link' = [active |-> FALSE, version |-> link.version + 1]
    /\ grant' = [e \in Entries |-> WithoutLink(grant[e])]
    /\ approved' = {}
    /\ UNCHANGED <<scope, entry, history, operations, disclosures, running, client, asks>>

\* confirm_link, for the pair that was linked before: the row is used again.
ConfirmLink ==
    /\ ~link.active /\ link.version < MaxLink
    /\ link' = [active |-> TRUE, version |-> link.version + 1]
    /\ UNCHANGED <<rows, running, client, asks, approved>>

\* automatic_source: the consent names this link, in its present version.
RecallOn == scope.enabled /\ link.active /\ scope.consent = link.version

EndRun(r) ==
    /\ running[r]
    /\ running' = [running EXCEPT ![r] = FALSE]
    /\ UNCHANGED <<rows, link, client, asks, approved>>

Next ==
    \/ \E c \in Clients :
          \/ \E o \in Offers[c] : \E q \in Asks(o) : Ask(c, q)
          \/ Again(c) \/ Replay(c) \/ Refuse(c)
          \/ Save(c) \/ Correct(c) \/ Undo(c) \/ Forget(c) \/ Confirm(c) \/ Disclose(c)
          \/ Settings(c) \/ AutomaticSharing(c)
          \/ GrantShare(c) \/ RevokeShare(c) \/ DiscloseShared(c)
    \/ RevokeLink \/ ConfirmLink
    \/ \E r \in Ending : EndRun(r)

Spec == Init /\ [][Next]_vars

-----------------------------------------------------------------------------
(* Properties *)

\* The versions on record are all there, and the newest is the row: undo has what it
\* needs after any sequence of changes (retain_version before and after each).
HistoryFaithful ==
    \A e \in Entries : Exists(e) =>
       /\ Len(history[e]) = entry[e].version + 1
       /\ \A v \in 0..entry[e].version : history[e][v + 1].version = v
       /\ history[e][entry[e].version + 1] = entry[e]

Makes(k, e, v) ==
    /\ operations[k].entry = e /\ operations[k].applied = v
    /\ operations[k].request.action # "disclose"

\* One key, one operation, one effect: the scope's revision counts the recorded
\* operations, and every version of an entry was made by exactly one of them and is on
\* record, although two copies of a request may both pass the look-up of the key.
AppliedOnce ==
    /\ scope.version = Cardinality({k \in Keys : operations[k] # NoOperation})
    /\ \A e \in Entries : \A v \in 1..entry[e].version :
          \E k \in Keys : \A j \in Keys : Makes(j, e, v) <=> j = k
    /\ HistoryFaithful

\* A client that was told its operation succeeded finds that operation on record.
ToldIsRecorded ==
    \A c \in Clients : client[c].at = "done" /\ client[c].req.key # NoKey =>
       operations[client[c].req.key].request = client[c].req

\* While memory is switched off nothing becomes active, not by undoing either.
OffActivatesNothing ==
    [][~scope.enabled => \A e \in Entries :
          entry'[e].status = "active" => entry[e].status = "active"]_vars

\* What the native account reads was shared by the person: this text, these fields, and
\* neither the share nor the link it went over was revoked since.
SharedIsApproved ==
    \A e \in Entries : Shared(e) => <<"share", e, entry[e].text, grant[e].fields>> \in approved

\* A model reads a sensitive or not automatically shared text only if the person let that
\* Run read this very text under the grant as it stands.
ModelReadsApproved ==
    \A e \in Entries :
       GivenToModel(e) /\ (entry[e].sensitive \/ ~grant[e].automatic) =>
          <<"model", e, entry[e].text, grant[e].fields>> \in approved

\* Everything the native account or its models read is approved: `A changed or revoked
\* grant cannot regain old Run consent merely by restoring its fields', and recall over a
\* link that was revoked and confirmed again needs a new consent.
ReadsAreApproved ==
    SharedIsApproved /\ ModelReadsApproved /\ (RecallOn => <<"recall">> \in approved)

=============================================================================
