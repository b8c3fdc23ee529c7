---------------------------- MODULE Conversation ----------------------------
(***************************************************************************)
(* One conversation of NexusPilot from the outside: its session row with   *)
(* the message sequence, the keyed and unkeyed turns that open Runs        *)
(* (services/session_service.py, run_service.py), and the three ways a Run *)
(* gets an executor: a durable quick response that is accepted once        *)
(* (quick_response_submission.py), an Agent workflow (create_workflow) and *)
(* an inline reply (response_run_lifecycle.py).                            *)
(*                                                                         *)
(* A client request is authorised, which opens its transaction, then takes *)
(* a row lock and reads what it decides on, then writes and commits.       *)
(* Requests of several clients interleave between these steps, may die     *)
(* between them, and may be sent again.                                    *)
(***************************************************************************)
EXTENDS Naturals, FiniteSets

CONSTANTS
    Clients,     \* concurrent HTTP requests
    Keys,        \* idempotency keys of turns, submissions and workflows
    NoKey,
    Bodies,      \* request bodies that compare unequal
    NoBody,
    MaxRuns,     \* bound: Runs of the conversation
    MaxMessages, \* bound: messages of the conversation
    MaxAsks,     \* bound: requests sent in all
    Snapshots    \* TRUE: plain reads see the snapshot of the transaction's first
                 \* read (MySQL's default); FALSE: what is committed

ASSUME ConversationAssumption ==
    /\ NoKey \notin Keys
    /\ NoBody \notin Bodies
    /\ MaxRuns \in Nat \ {0}
    /\ MaxMessages \in Nat \ {0}
    /\ MaxAsks \in Nat
    /\ Snapshots \in BOOLEAN

VARIABLES
    session,   \* LlmSession: status, next_message_sequence
    messages,  \* LlmMessage rows: sequence, Run, role
    runs,      \* Run -> status, and the key of the turn that opened it
    turns,     \* key -> LlmConversationTurn: request_hash, Run
    quick,     \* Run -> its QuickResponseExecution
    flow,      \* Run -> its LlmAgentWorkflowExecution
    objects,   \* Runs and requests whose request object is stored
    inline,    \* Runs that an observer-owned response is executing
    req,       \* client -> the locals of its request
    asked,     \* requests sent so far
    told,      \* history: what clients were told their request had become
    executors  \* history: Run -> the kinds of executor that started it

rows == <<session, messages, runs, turns, quick, flow, objects>>
vars == <<rows, inline, req, asked, told, executors>>

Runs == 1..MaxRuns
RunStatus == {"none", "pending", "running", "completed", "failed",
              "cancel_requested", "cancelled"}
Unfinished == {"pending", "running", "cancel_requested"}
Over       == {"completed", "failed", "cancelled"}

\* The operations that take keys or append to the message sequence.
Ops  == {"keyed_turn", "unkeyed_turn", "message", "submit", "workflow"}

Request == [pc : {"idle", "asked", "planned", "stored"}, op : Ops \cup {"none"},
            run : 0..MaxRuns, key : Keys \cup {NoKey}, body : Bodies \cup {NoBody},
            sequence : Nat,
            seen : [runs : SUBSET Runs, quick : SUBSET Runs, flow : SUBSET Runs]]

Unseen == [runs |-> {}, quick |-> {}, flow |-> {}]
Idle == [pc |-> "idle", op |-> "none", run |-> 0, key |-> NoKey, body |-> NoBody,
         sequence |-> 0, seen |-> Unseen]

NoTurn  == [run |-> 0, body |-> NoBody]
NoQuick == [status |-> "none", key |-> NoKey, body |-> NoBody]
NoFlow  == [status |-> "none", key |-> NoKey, body |-> NoBody]

\* Type correctness.
TypeOK ==
    /\ session \in [status : {"active", "archived"}, next : 1..MaxMessages + 1]
    /\ messages \subseteq [sequence : 1..MaxMessages, run : Runs,
                           role : {"user", "assistant"}]
    /\ runs \in [Runs -> [status : RunStatus, key : Keys \cup {NoKey}]]
    /\ turns \in [Keys -> [run : 0..MaxRuns, body : Bodies \cup {NoBody}]]
    /\ quick \in [Runs -> [status : {"none", "queued", "running", "completed", "ended"},
                           key : Keys \cup {NoKey}, body : Bodies \cup {NoBody}]]
    /\ flow \in [Runs -> [status : {"none", "running", "ended"},
                          key : Keys \cup {NoKey}, body : Bodies \cup {NoBody}]]
    /\ objects \subseteq [run : Runs, key : Keys, body : Bodies]
    /\ inline \subseteq Runs
    /\ req \in [Clients -> Request]
    /\ asked \in 0..MaxAsks
    /\ told \subseteq [op : Ops, run : Runs, key : Keys, body : Bodies]
    /\ executors \in [Runs -> SUBSET {"quick", "flow", "inline"}]

\* A new conversation, or one in which an unkeyed turn is waiting for its executor.
Init ==
    /\ \E begun \in BOOLEAN :
          /\ session = [status |-> "active", next |-> IF begun THEN 2 ELSE 1]
          /\ messages = IF begun THEN {[sequence |-> 1, run |-> 1, role |-> "user"]}
                        ELSE {}
          /\ runs = [r \in Runs |-> [status |-> IF begun /\ r = 1 THEN "pending" ELSE "none",
                                     key |-> NoKey]]
    /\ turns = [k \in Keys |-> NoTurn]
    /\ quick = [r \in Runs |-> NoQuick]
    /\ flow = [r \in Runs |-> NoFlow]
    /\ objects = {}
    /\ inline = {}
    /\ req = [c \in Clients |-> Idle]
    /\ asked = 0
    /\ told = {}
    /\ executors = [r \in Runs |-> {}]

-----------------------------------------------------------------------------
(* Requests, their transactions and row locks *)

Opened   == {r \in Runs : runs[r].status # "none"}

\* new_id: the next Run of the conversation.
Fresh(r) == r \in Runs \ Opened /\ \A x \in 1..r - 1 : x \in Opened

Appends == {"keyed_turn", "unkeyed_turn", "message"}

\* SELECT ... FOR UPDATE on the session or on a Run: held from the plan to the end.
SessionFree == \A c \in Clients : req[c].op \in Appends => req[c].pc # "planned"
RunFree(r) == \A c \in Clients : req[c].op \in {"submit", "workflow"}
                                  => req[c].run # r \/ req[c].pc \notin {"planned", "stored"}

\* What a plain read of the request sees of Runs and of execution rows.
SeesRun(c, r)   == IF Snapshots THEN r \in req[c].seen.runs ELSE r \in Opened
SeesQuick(c, r) == /\ quick[r].status # "none"
                   /\ Snapshots => r \in req[c].seen.quick
SeesFlow(c, r)  == /\ flow[r].status # "none"
                   /\ Snapshots => r \in req[c].seen.flow

OneMore == asked < MaxAsks /\ asked' = asked + 1

\* authorize_resource_request: the first read of the request's transaction.
Ask(c, op, r, k, b) ==
    /\ req[c].pc = "idle"
    /\ OneMore
    /\ op \in {"message", "submit", "workflow"} => r \in Opened
    /\ req' = [req EXCEPT ![c] =
          [Idle EXCEPT !.pc = "asked", !.op = op, !.run = r, !.key = k, !.body = b,
                       !.seen = IF Snapshots
                                THEN [runs |-> Opened,
                                      quick |-> {x \in Runs : quick[x].status # "none"},
                                      flow |-> {x \in Runs : flow[x].status # "none"}]
                                ELSE Unseen]]
    /\ UNCHANGED <<rows, inline, told, executors>>

AskAnything(c) ==
    \/ \E k \in Keys, b \in Bodies : Ask(c, "keyed_turn", 0, k, b)
    \/ Ask(c, "unkeyed_turn", 0, NoKey, NoBody)
    \/ \E r \in Runs : Ask(c, "message", r, NoKey, NoBody)
    \/ \E op \in {"submit", "workflow"}, r \in Runs, k \in Keys, b \in Bodies :
          Ask(c, op, r, k, b)

\* The request is refused, dies before its commit, or is rolled back: nothing is
\* written and its locks are released.  Refusals for an inactive user, a project or
\* a file (create_run, bind_files) may meet any request.
GiveUp(c) ==
    /\ req[c].pc # "idle"
    /\ req' = [req EXCEPT ![c] = Idle]
    /\ UNCHANGED <<rows, inline, asked, told, executors>>

Planned(c, sequence) ==
    req' = [req EXCEPT ![c].pc = "planned", ![c].sequence = sequence, ![c].seen = Unseen]

\* The answer, which the client may lose: nothing depends on it but what was told.
Answer(c, r) ==
    /\ req' = [req EXCEPT ![c] = Idle]
    /\ told' = told \cup {[op |-> req[c].op, run |-> r, key |-> req[c].key,
                           body |-> req[c].body]}

Done(c) == req' = [req EXCEPT ![c] = Idle] /\ told' = told

-----------------------------------------------------------------------------
(* Turns and messages (session_service.py) *)

\* Mutated guards: the session row is read without FOR UPDATE; the active Run is
\* looked for among running ones only; the hash of the saved turn is not compared.
PlanAppendUnlocked(c) ==
    /\ req[c].pc = "asked"
    /\ req[c].op \in Appends
    /\ session.status = "active"
    /\ Planned(c, session.next)
    /\ UNCHANGED <<rows, inline, asked, told, executors>>
UnfinishedTurnRunning == {r \in Opened : runs[r].status = "running"}
ReplaysTurnUnchecked(c) ==
    /\ turns[req[c].key].run # 0
    /\ SeesRun(c, turns[req[c].key].run)

UnfinishedTurn == {r \in Opened : runs[r].status \in Unfinished}

\* The saved turn has the same hash, and its Run is visible to a plain read.
ReplaysTurn(c) ==
    /\ turns[req[c].key].run # 0
    /\ turns[req[c].key].body = req[c].body
    /\ SeesRun(c, turns[req[c].key].run)

\* create_message, and the unkeyed half of create_conversation_turn.
PlanAppend(c) ==
    /\ req[c].pc = "asked"
    /\ req[c].op \in Appends
    /\ SessionFree
    /\ session.status = "active"
    /\ req[c].op = "message" => SeesRun(c, req[c].run)
    /\ req[c].op = "keyed_turn" => turns[req[c].key].run = 0 /\ UnfinishedTurn = {}
    /\ Planned(c, session.next)
    /\ UNCHANGED <<rows, inline, asked, told, executors>>

ReplayTurn(c) ==
    /\ req[c].pc = "asked"
    /\ req[c].op = "keyed_turn"
    /\ SessionFree
    /\ ReplaysTurn(c)
    /\ Answer(c, turns[req[c].key].run)
    /\ UNCHANGED <<rows, inline, asked, executors>>

Append(c, r) ==
    /\ req[c].sequence <= MaxMessages
    /\ messages' = messages \cup {[sequence |-> req[c].sequence, run |-> r,
                                   role |-> "user"]}
    /\ session' = [session EXCEPT !.next = req[c].sequence + 1]

\* Mutated commit: create_run commits by itself, and the request may die after it.
SaveTurnInParts(c, r) ==
    /\ req[c].pc = "planned"
    /\ req[c].op \in {"keyed_turn", "unkeyed_turn"}
    /\ Fresh(r)
    /\ runs' = [runs EXCEPT ![r] = [status |-> "pending", key |-> req[c].key]]
    /\ Done(c)
    /\ UNCHANGED <<session, messages, turns, quick, flow, objects, inline, asked, executors>>

\* The Run, the message with its sequence and the key record, in one commit.
SaveTurn(c, r) ==
    /\ req[c].pc = "planned"
    /\ req[c].op \in {"keyed_turn", "unkeyed_turn"}
    /\ Fresh(r)
    /\ runs' = [runs EXCEPT ![r] = [status |-> "pending", key |-> req[c].key]]
    /\ Append(c, r)
    /\ \/ /\ req[c].op = "keyed_turn"
          /\ turns' = [turns EXCEPT ![req[c].key] = [run |-> r, body |-> req[c].body]]
          /\ Answer(c, r)
       \/ /\ req[c].op = "unkeyed_turn"
          /\ Done(c)
          /\ UNCHANGED turns
    /\ UNCHANGED <<quick, flow, objects, inline, asked, executors>>

CommitTurn(c) == \E r \in Runs : SaveTurn(c, r)

CommitMessage(c) ==
    /\ req[c].pc = "planned"
    /\ req[c].op = "message"
    /\ Append(c, req[c].run)
    /\ Done(c)
    /\ UNCHANGED <<runs, turns, quick, flow, objects, inline, asked, executors>>

\* POST /runs: create_run by itself, which takes no lock and checks no other Run.
CreateRun(r) ==
    /\ Fresh(r)
    /\ session.status = "active"
    /\ OneMore
    /\ runs' = [runs EXCEPT ![r] = [status |-> "pending", key |-> NoKey]]
    /\ UNCHANGED <<session, messages, turns, quick, flow, objects, inline, req, told,
                   executors>>

\* update_session: archive or reactivate; its UPDATE waits for the row lock.
UpdateSession ==
    /\ SessionFree
    /\ OneMore
    /\ session' = [session EXCEPT !.status =
                      IF session.status = "active" THEN "archived" ELSE "active"]
    /\ UNCHANGED <<messages, runs, turns, quick, flow, objects, inline, req, told, executors>>

-----------------------------------------------------------------------------
(* Submission of a quick response (quick_response_submission.py) *)

Taken(r, k) == \E x \in Runs : quick[x].status # "none" /\ (x = r \/ quick[x].key = k)

\* The look-up by Run or by request key, a plain read.
Existing(c) == {x \in Runs : SeesQuick(c, x) /\ (x = req[c].run \/ quick[x].key = req[c].key)}

\* Every saved parameter compares equal; the Run is one of them.
ReplaySubmission(c) ==
    /\ req[c].pc = "asked"
    /\ req[c].op = "submit"
    /\ RunFree(req[c].run)
    /\ \E x \in Existing(c) :
          /\ x = req[c].run
          /\ quick[x].key = req[c].key
          /\ quick[x].body = req[c].body
          /\ Answer(c, x)
    /\ UNCHANGED <<rows, inline, asked, executors>>

PlanSubmission(c) ==
    /\ req[c].pc = "asked"
    /\ req[c].op = "submit"
    /\ RunFree(req[c].run)
    /\ Existing(c) = {}
    /\ \E m \in messages : m.run = req[c].run /\ m.role = "user"
    /\ runs[req[c].run].status = "pending"
    /\ ~SeesFlow(c, req[c].run)
    /\ Planned(c, 0)
    /\ UNCHANGED <<rows, inline, asked, told, executors>>

\* storage.put_bytes under an execution id of this request, before any row names it.
StoreRequest(c) ==
    /\ req[c].pc = "planned"
    /\ req[c].op = "submit"
    /\ objects' = objects \cup {[run |-> req[c].run, key |-> req[c].key,
                                 body |-> req[c].body]}
    /\ req' = [req EXCEPT ![c].pc = "stored"]
    /\ UNCHANGED <<session, messages, runs, turns, quick, flow, inline, asked, told, executors>>

\* The row, unless a unique constraint refuses it (GiveUp leaves the object).
CommitSubmission(c) ==
    /\ req[c].pc = "stored"
    /\ ~Taken(req[c].run, req[c].key)
    /\ quick' = [quick EXCEPT ![req[c].run] =
                    [status |-> "queued", key |-> req[c].key, body |-> req[c].body]]
    /\ Answer(c, req[c].run)
    /\ UNCHANGED <<session, messages, runs, turns, flow, objects, inline, asked, executors>>

-----------------------------------------------------------------------------
(* Creation of a workflow (workflow_execution_state_service.py) *)

\* The workflow of the Run was asked for by the same request.
SameWorkflow(c) ==
    /\ flow[req[c].run].status # "none"
    /\ flow[req[c].run].key = req[c].key
    /\ flow[req[c].run].body = req[c].body

\* A workflow found under the key, or after the unique constraint refused ours.
ReplayWorkflow(c) ==
    /\ req[c].op = "workflow"
    /\ \/ req[c].pc = "asked" /\ RunFree(req[c].run) /\ SeesFlow(c, req[c].run)
       \/ req[c].pc = "planned"
    /\ SameWorkflow(c)
    /\ Answer(c, req[c].run)
    /\ UNCHANGED <<rows, inline, asked, executors>>

\* No quick response of the Run is looked for.
PlanWorkflow(c) ==
    /\ req[c].pc = "asked"
    /\ req[c].op = "workflow"
    /\ RunFree(req[c].run)
    /\ ~SeesFlow(c, req[c].run)
    /\ runs[req[c].run].status \in {"pending", "running"}
    /\ Planned(c, 0)
    /\ UNCHANGED <<rows, inline, asked, told, executors>>

CommitWorkflow(c) ==
    /\ req[c].pc = "planned"
    /\ req[c].op = "workflow"
    /\ flow[req[c].run].status = "none"
    /\ flow' = [flow EXCEPT ![req[c].run] =
                   [status |-> "running", key |-> req[c].key, body |-> req[c].body]]
    /\ runs' = [runs EXCEPT ![req[c].run].status = "running"]
    /\ executors' = [executors EXCEPT ![req[c].run] = @ \cup {"flow"}]
    /\ Answer(c, req[c].run)
    /\ UNCHANGED <<session, messages, turns, quick, objects, inline, asked>>

-----------------------------------------------------------------------------
(* Executors, seen from the Run *)

\* _start of an inline reply: one conditional UPDATE of the Run.
StartInline(r) ==
    /\ OneMore
    /\ runs[r].status = "pending"
    /\ flow[r].status = "none"
    /\ RunFree(r)
    /\ \E m \in messages : m.run = r /\ m.role = "user"
    /\ runs' = [runs EXCEPT ![r].status = "running"]
    /\ inline' = inline \cup {r}
    /\ executors' = [executors EXCEPT ![r] = @ \cup {"inline"}]
    /\ UNCHANGED <<session, messages, turns, quick, flow, objects, req, told>>

\* _finish: again a conditional UPDATE.  A process that dies never does it.
FinishInline(r) ==
    /\ r \in inline
    /\ RunFree(r)
    /\ inline' = inline \ {r}
    /\ \/ /\ runs[r].status \in {"running", "cancel_requested"}
          /\ \E s \in Over : runs' = [runs EXCEPT ![r].status = s]
       \/ UNCHANGED runs
    /\ UNCHANGED <<session, messages, turns, quick, flow, objects, req, asked, told,
                   executors>>

\* A worker claims the queued execution and _start takes the Run: a pending one
\* without a workflow is started, a running one is resumed.
StartQuick(r) ==
    /\ quick[r].status = "queued"
    /\ RunFree(r)
    /\ runs[r].status = "running" \/ (runs[r].status = "pending" /\ flow[r].status = "none")
    /\ quick' = [quick EXCEPT ![r].status = "running"]
    /\ runs' = [runs EXCEPT ![r].status = "running"]
    /\ executors' = [executors EXCEPT ![r] = @ \cup {"quick"}]
    /\ UNCHANGED <<session, messages, turns, flow, objects, inline, req, asked, told>>

\* The COMPLETED event of a quick reply, with the answer under the session lock.  Its
\* job still drains the stream.
CompleteQuick(r) ==
    /\ quick[r].status = "running"
    /\ RunFree(r)
    /\ runs[r].status \notin {"cancelled", "cancel_requested"}
    /\ SessionFree
    /\ session.status = "active"
    /\ session.next <= MaxMessages
    /\ quick' = [quick EXCEPT ![r].status = "completed"]
    /\ runs' = [runs EXCEPT ![r].status = "completed"]
    /\ messages' = messages \cup {[sequence |-> session.next, run |-> r,
                                   role |-> "assistant"]}
    /\ session' = [session EXCEPT !.next = @ + 1]
    /\ UNCHANGED <<turns, flow, objects, inline, req, asked, told, executors>>

\* A FAILED event, which a plain call may still send after its completion: of the
\* Run only a cancellation is looked at, under its lock.
FailQuick(r) ==
    /\ quick[r].status \in {"running", "completed"}
    /\ RunFree(r)
    /\ runs[r].status \notin {"cancelled", "cancel_requested"}
    /\ quick' = [quick EXCEPT ![r].status = "ended"]
    /\ runs' = [runs EXCEPT ![r].status = "failed"]
    /\ UNCHANGED <<session, messages, turns, flow, objects, inline, req, asked, told,
                   executors>>

\* Mutated clean-up: it does not look at how the Run ended.
InterruptQuickBlind(r) ==
    /\ quick[r].status \in {"queued", "running", "completed"}
    /\ RunFree(r)
    /\ quick' = [quick EXCEPT ![r].status = "ended"]
    /\ runs' = [runs EXCEPT ![r].status = "failed"]
    /\ UNCHANGED <<session, messages, turns, flow, objects, inline, req, asked, told,
                   executors>>

\* finish_interrupted_response, from a refused start or an interrupted reply.
InterruptQuick(r) ==
    /\ quick[r].status \in {"queued", "running", "completed"}
    /\ RunFree(r)
    /\ quick' = [quick EXCEPT ![r].status = "ended"]
    /\ runs' = [runs EXCEPT ![r].status =
                   IF @ = "cancel_requested" THEN "cancelled"
                   ELSE IF @ \in {"pending", "running"} THEN "failed" ELSE @]
    /\ UNCHANGED <<session, messages, turns, flow, objects, inline, req, asked, told,
                   executors>>

\* An end of the workflow takes the Run along, whatever has become of it: that of
\* its worker, or of a cancelling client, each after the other (AgentWorkflow).
EndWorkflow(r) ==
    /\ flow[r].status # "none"
    /\ RunFree(r)
    /\ flow' = [flow EXCEPT ![r].status = "ended"]
    /\ \E s \in Over : runs' = [runs EXCEPT ![r].status = s]
    /\ UNCHANGED <<session, messages, turns, quick, objects, inline, req, asked, told,
                   executors>>

\* cancel_run: only a task of a workflow that runs at the moment turns this into a
\* request.
CancelRun(r) ==
    /\ OneMore
    /\ runs[r].status \in {"pending", "running"}
    /\ RunFree(r)
    /\ \E s \in {"cancelled"} \cup (IF flow[r].status = "none" THEN {}
                                    ELSE {"cancel_requested"}) :
          runs' = [runs EXCEPT ![r].status = s]
    /\ UNCHANGED <<session, messages, turns, quick, flow, objects, inline, req, told,
                   executors>>

Handle(c) ==
    \/ AskAnything(c) \/ GiveUp(c)
    \/ PlanAppend(c) \/ ReplayTurn(c) \/ CommitTurn(c) \/ CommitMessage(c)
    \/ ReplaySubmission(c) \/ PlanSubmission(c) \/ StoreRequest(c) \/ CommitSubmission(c)
    \/ ReplayWorkflow(c) \/ PlanWorkflow(c) \/ CommitWorkflow(c)

Execute(r) ==
    \/ StartInline(r) \/ FinishInline(r) \/ StartQuick(r) \/ CompleteQuick(r)
    \/ FailQuick(r) \/ InterruptQuick(r) \/ EndWorkflow(r) \/ CancelRun(r)

Next ==
    \/ \E c \in Clients : Handle(c)
    \/ \E r \in Runs : CreateRun(r) \/ Execute(r)
    \/ UpdateSession

Spec == Init /\ [][Next]_vars

-----------------------------------------------------------------------------
(* Properties *)

\* The messages of a conversation are numbered 1, 2, ... without a gap and without
\* a number used twice, whoever appends (next_message_sequence under the row lock).
SequenceDense ==
    /\ {m.sequence : m \in messages} = 1..session.next - 1
    /\ \A m, n \in messages : m.sequence = n.sequence => m = n

\* A keyed turn waits for the Run before it: two stale browser tabs never leave a
\* conversation with two unfinished Runs that were both opened by keyed turns.
OneUnfinishedTurn ==
    \A r, s \in Runs :
        /\ runs[r].status \in Unfinished /\ runs[r].key # NoKey
        /\ runs[s].status \in Unfinished /\ runs[s].key # NoKey
        => r = s

\* A keyed Run, its key record and its user message are saved together or not at all.
TurnIsWhole ==
    \A r \in Opened : runs[r].key # NoKey =>
        /\ turns[runs[r].key].run = r
        /\ \E m \in messages : m.run = r /\ m.role = "user"

\* A request key of an owner names one quick response, although the look-up before
\* the insert is a plain read that two submissions can pass together.
OneRunPerKey ==
    \A r, s \in Runs : quick[r].status # "none" /\ quick[s].status # "none"
                        /\ quick[r].key = quick[s].key => r = s

\* An accepted execution finds its request object, whatever died on the way.
RequestIsStored ==
    \A r \in Runs : quick[r].status # "none" =>
        [run |-> r, key |-> quick[r].key, body |-> quick[r].body] \in objects

\* What was accepted under a key is all there, whatever the request or its rivals did.
AcceptedIsWhole == TurnIsWhole /\ OneRunPerKey /\ RequestIsStored

\* What a client was told its key had become is what is saved: a retry is given the
\* execution of the same input, and two clients are never told different Runs.
AnswersHold ==
    \A t \in told :
        CASE t.op = "keyed_turn" -> turns[t.key] = [run |-> t.run, body |-> t.body]
          [] t.op = "submit" -> quick[t.run].key = t.key /\ quick[t.run].body = t.body
          [] t.op = "workflow" -> flow[t.run].key = t.key /\ flow[t.run].body = t.body

\* What is left of a Run's end when several may write it.  It is never reopened.  A
\* cancelled Run stays cancelled, late answers, failures and clean-ups notwithstanding,
\* unless a workflow was accepted for it.  And alone, a quick response or an inline
\* reply rewrites it only by the late failure of a completed quick response.
EndStands ==
    [][\A r \in Runs : runs[r].status \in Over =>
        /\ runs'[r].status \in Over
        /\ "flow" \notin executors'[r] =>
            /\ runs[r].status = "cancelled" => runs'[r].status = "cancelled"
            /\ Cardinality(executors'[r]) <= 1 =>
                 \/ runs'[r].status = runs[r].status
                 \/ /\ runs[r].status = "completed" /\ quick[r].status = "completed"
                    /\ runs'[r].status = "failed"]_vars

\* `Run is already executing, ended, or owned by a workflow': a Run is executed by
\* one kind of executor only.
OneExecutor == \A r \in Runs : Cardinality(executors[r]) <= 1
=============================================================================
