------------------------ MODULE Conversation_proofs ------------------------
(***************************************************************************)
(* Proofs about Conversation for any number of clients, keys, bodies, Runs *)
(* and messages, with plain reads of either kind.  The properties are not  *)
(* inductive by themselves: IInv adds what the row locks guarantee         *)
(* (AppendLock, RunLock), what a request has been let through with         *)
(* (Authorized) and what its plan has established and the lock preserves   *)
(* (Kept).                                                                 *)
(***************************************************************************)
EXTENDS Conversation, FiniteSetTheorems, TLAPS

-----------------------------------------------------------------------------
(* The inductive invariant *)

\* c holds the row lock of the session, or that of a Run.
Appending(c) == req[c].op \in Appends /\ req[c].pc = "planned"
Holding(c)   == req[c].op \in {"submit", "workflow"} /\ req[c].pc \in {"planned", "stored"}

\* The holder of the session's lock is one, and its sequence is still the next.
AppendLock ==
    /\ \A c \in Clients : Appending(c) => req[c].sequence = session.next
    /\ \A c, d \in Clients : Appending(c) /\ Appending(d) => c = d

\* A Run is locked by one request.
RunLock ==
    \A c, d \in Clients :
        Holding(c) /\ Holding(d) /\ req[c].run = req[d].run => c = d

\* What authorisation and the request's schema let through.
Authorized ==
    \A c \in Clients : req[c].pc # "idle" =>
        /\ req[c].op # "none"
        /\ req[c].op \in {"message", "submit", "workflow"} => req[c].run \in Opened
        /\ req[c].op \in {"keyed_turn", "submit", "workflow"}
              => req[c].key \in Keys /\ req[c].body \in Bodies
        /\ req[c].op \in {"unkeyed_turn", "message"} => req[c].key = NoKey

\* What a plan found, and its lock keeps true until the commit.
Keeps(c) ==
    /\ req[c].pc = "planned" /\ req[c].op = "keyed_turn" =>
          /\ turns[req[c].key].run = 0
          /\ \A r \in Runs : runs[r].key # NoKey => runs[r].status \notin Unfinished
    /\ req[c].pc = "planned" /\ req[c].op = "workflow" =>
          runs[req[c].run].status \in {"pending", "running"}
    /\ req[c].pc = "stored" =>
          /\ req[c].op = "submit"
          /\ [run |-> req[c].run, key |-> req[c].key, body |-> req[c].body] \in objects

Kept == \A c \in Clients : Keeps(c)

\* Rows that are not there have no key; only keyed operations are answered.
Keyless ==
    /\ \A r \in Runs : quick[r].status = "none" => quick[r].key = NoKey
    /\ \A r \in Runs : flow[r].status = "none" => flow[r].key = NoKey
    /\ \A t \in told : t.op \in {"keyed_turn", "submit", "workflow"}

\* An execution belongs to a Run that was created.
Owned ==
    \A r \in Runs : quick[r].status # "none" \/ flow[r].status # "none" => r \in Opened

Locked == AppendLock /\ RunLock /\ Authorized /\ Kept

IInv ==
    /\ TypeOK /\ Locked /\ Keyless /\ Owned
    /\ SequenceDense /\ OneUnfinishedTurn /\ AcceptedIsWhole /\ AnswersHold

-----------------------------------------------------------------------------
(* What the steps touch *)

\* Steps of a request that write no row.
Thinks(c) ==
    \/ AskAnything(c) \/ GiveUp(c) \/ PlanAppend(c)
    \/ PlanSubmission(c) \/ PlanWorkflow(c)

\* Steps of a request that only answer.
Replays(c) == ReplayTurn(c) \/ ReplaySubmission(c) \/ ReplayWorkflow(c)

\* Steps of a request that write.
Commits(c) ==
    \/ CommitTurn(c) \/ CommitMessage(c) \/ StoreRequest(c)
    \/ CommitSubmission(c) \/ CommitWorkflow(c)

\* Steps that are not those of a request in flight.
Outside == (\E r \in Runs : CreateRun(r) \/ Execute(r)) \/ UpdateSession

LEMMA StepKinds ==
    ASSUME [Next]_vars
    PROVE \/ \E c \in Clients : Thinks(c) \/ Replays(c) \/ Commits(c)
          \/ Outside
          \/ UNCHANGED vars
BY DEF Next, Handle, Thinks, Replays, Commits, Outside

\* A request thinks or answers: the rows stay as they are.
LEMMA ThinkingKeepsRows ==
    ASSUME NEW c \in Clients, Thinks(c)
    PROVE UNCHANGED <<rows, inline, told, executors>>
BY DEF Thinks, AskAnything, Ask, GiveUp, PlanAppend, PlanSubmission, PlanWorkflow

LEMMA ReplayingKeepsRows ==
    ASSUME NEW c \in Clients, Replays(c)
    PROVE UNCHANGED <<rows, inline, asked, executors>>
BY DEF Replays, ReplayTurn, ReplaySubmission, ReplayWorkflow

\* A step of c leaves the locals of the others alone.
LEMMA OthersWait ==
    ASSUME TypeOK, NEW c \in Clients, Thinks(c) \/ Replays(c) \/ Commits(c),
           NEW d \in Clients \ {c}
    PROVE req'[d] = req[d]
<1> USE DEF TypeOK
<1>1. CASE Thinks(c)
  BY <1>1 DEF Thinks, AskAnything, Ask, GiveUp, PlanAppend, PlanSubmission,
     PlanWorkflow, Planned
<1>2. CASE Replays(c)
  BY <1>2 DEF Replays, ReplayTurn, ReplaySubmission, ReplayWorkflow, Answer
<1>3. CASE Commits(c)
  BY <1>3 DEF Commits, CommitTurn, SaveTurn, CommitMessage, StoreRequest,
     CommitSubmission, CommitWorkflow, Answer, Done
<1> QED
  BY <1>1, <1>2, <1>3

\* Steps outside the requests.
LEMMA OutsideKeeps ==
    ASSUME Outside
    PROVE UNCHANGED <<turns, objects, req, told>>
BY DEF Outside, CreateRun, UpdateSession, Execute, StartInline, FinishInline,
   StartQuick, CompleteQuick, FailQuick, InterruptQuick, EndWorkflow, CancelRun

-----------------------------------------------------------------------------
(* Type correctness *)

\* What the locals of a request become.
LEMMA RequestType ==
    ASSUME TypeOK, AppendLock, Authorized, NEW c \in Clients,
           Thinks(c) \/ Replays(c) \/ Commits(c)
    PROVE req' \in [Clients -> Request]
<1> USE DEF TypeOK
<1>1. Idle \in Request
  BY ConversationAssumption DEF Idle, Request, Unseen, Runs
<1>2. ASSUME NEW op \in Ops, NEW r \in 0..MaxRuns, NEW k \in Keys \cup {NoKey},
             NEW b \in Bodies \cup {NoBody}, Ask(c, op, r, k, b)
      PROVE req' \in [Clients -> Request]
  BY <1>1, <1>2 DEF Ask, Idle, Request, Unseen, Opened, Runs
<1>3. CASE AskAnything(c)
  BY <1>2, <1>3, ConversationAssumption DEF AskAnything, Ops, Runs
<1>4. ASSUME NEW n \in Nat, Planned(c, n) PROVE req' \in [Clients -> Request]
  <2>1. req[c] \in Request
    OBVIOUS
  <2>2. [req[c] EXCEPT !.pc = "planned", !.sequence = n, !.seen = Unseen] \in Request
    BY <2>1 DEF Request, Unseen
  <2>3. req' = [req EXCEPT ![c] =
                   [req[c] EXCEPT !.pc = "planned", !.sequence = n, !.seen = Unseen]]
    BY <1>4 DEF Planned
  <2> QED BY <2>2, <2>3
<1>5. CASE PlanAppend(c)
  BY <1>4, <1>5 DEF PlanAppend
<1>6. CASE PlanSubmission(c) \/ PlanWorkflow(c)
  BY <1>4, <1>6 DEF PlanSubmission, PlanWorkflow
<1>7. CASE StoreRequest(c)
  <2>1. req[c] \in Request
    OBVIOUS
  <2>2. [req[c] EXCEPT !.pc = "stored"] \in Request
    BY <2>1 DEF Request
  <2> QED BY <1>7, <2>2 DEF StoreRequest
<1>8. CASE GiveUp(c) \/ Replays(c) \/ (Commits(c) /\ ~StoreRequest(c))
  <2>1. req' = [req EXCEPT ![c] = Idle]
    BY <1>8 DEF GiveUp, Replays, ReplayTurn, ReplaySubmission, ReplayWorkflow,
       Commits, CommitTurn, SaveTurn, CommitMessage, CommitSubmission,
       CommitWorkflow, Answer, Done
  <2> QED BY <1>1, <2>1
<1> QED
  BY <1>3, <1>5, <1>6, <1>7, <1>8 DEF Thinks, Commits

\* A row whose status is set to another one keeps its type.
LEMMA StatusSet ==
    ASSUME NEW S, NEW K, NEW f \in [Runs -> [status : S, key : K]],
           NEW r \in Runs, NEW s \in S
    PROVE [f EXCEPT ![r].status = s] \in [Runs -> [status : S, key : K]]
<1>1. f[r] \in [status : S, key : K]
  OBVIOUS
<1>2. [f[r] EXCEPT !.status = s] \in [status : S, key : K]
  BY <1>1
<1> QED BY <1>2

LEMMA StatusSetToo ==
    ASSUME NEW S, NEW K, NEW B, NEW f \in [Runs -> [status : S, key : K, body : B]],
           NEW r \in Runs, NEW s \in S
    PROVE [f EXCEPT ![r].status = s] \in [Runs -> [status : S, key : K, body : B]]
<1>1. f[r] \in [status : S, key : K, body : B]
  OBVIOUS
<1>2. [f[r] EXCEPT !.status = s] \in [status : S, key : K, body : B]
  BY <1>1
<1> QED BY <1>2

\* Answers and commits keep the types of the rows.
LEMMA RowsType ==
    ASSUME TypeOK, AppendLock, Authorized, Kept, NEW c \in Clients,
           Replays(c) \/ Commits(c)
    PROVE TypeOK'
<1> USE DEF TypeOK
<1>1. req' \in [Clients -> Request]
  BY RequestType
<1>2. ASSUME NEW r \in Runs, Answer(c, r), req[c].op \in Ops, req[c].key \in Keys,
             req[c].body \in Bodies
      PROVE told' \subseteq [op : Ops, run : Runs, key : Keys, body : Bodies]
  BY <1>2 DEF Answer
<1>3. ASSUME NEW r \in Runs, Append(c, r), Appending(c)
      PROVE /\ session' \in [status : {"active", "archived"}, next : 1..MaxMessages + 1]
            /\ messages' \subseteq [sequence : 1..MaxMessages, run : Runs,
                                    role : {"user", "assistant"}]
  <2>1. req[c].sequence \in 1..MaxMessages
    BY <1>3, ConversationAssumption DEF Append, AppendLock
  <2> QED BY <1>3, <2>1, ConversationAssumption DEF Append
<1>4. CASE ReplayTurn(c)
  BY <1>1, <1>2, <1>4 DEF ReplayTurn, ReplaysTurn, Authorized, Ops, Runs, rows
<1>5. CASE ReplaySubmission(c)
  BY <1>1, <1>2, <1>5 DEF ReplaySubmission, Existing, Authorized, Ops, rows
<1>6. CASE ReplayWorkflow(c)
  BY <1>1, <1>2, <1>6 DEF ReplayWorkflow, Authorized, Opened, Ops, rows
<1>7. ASSUME NEW r \in Runs, SaveTurn(c, r) PROVE TypeOK'
  <2>1. Appending(c) /\ Append(c, r) /\ req[c].key \in Keys \cup {NoKey}
    BY <1>7 DEF SaveTurn, Appending, Appends, Request
  <2>2. runs' \in [Runs -> [status : RunStatus, key : Keys \cup {NoKey}]]
    BY <1>7, <2>1 DEF SaveTurn, RunStatus
  <2>3. turns' \in [Keys -> [run : 0..MaxRuns, body : Bodies \cup {NoBody}]]
    <3>1. CASE req[c].op = "keyed_turn"
      <4>1. [run |-> r, body |-> req[c].body]
               \in [run : 0..MaxRuns, body : Bodies \cup {NoBody}]
        BY <1>7, <3>1, ConversationAssumption DEF SaveTurn, Authorized, Runs
      <4> QED BY <1>7, <3>1, <4>1 DEF SaveTurn
    <3> QED BY <1>7, <3>1 DEF SaveTurn
  <2>4. told' \subseteq [op : Ops, run : Runs, key : Keys, body : Bodies]
    BY <1>2, <1>7 DEF SaveTurn, Authorized, Ops, Done
  <2> QED BY <1>1, <1>3, <1>7, <2>1, <2>2, <2>3, <2>4 DEF SaveTurn
<1>8. CASE CommitMessage(c)
  <2>1. Appending(c) /\ Append(c, req[c].run) /\ req[c].run \in Runs
    BY <1>8 DEF CommitMessage, Appending, Appends, Authorized, Opened
  <2> QED BY <1>1, <1>3, <1>8, <2>1 DEF CommitMessage, Done
<1>9. CASE StoreRequest(c)
  BY <1>1, <1>9 DEF StoreRequest, Authorized, Opened
<1>10. CASE CommitSubmission(c)
  BY <1>1, <1>2, <1>10 DEF CommitSubmission, Kept, Keeps, Authorized, Opened, Ops
<1>11. CASE CommitWorkflow(c)
  <2>1. req[c].run \in Runs /\ req[c].key \in Keys /\ req[c].body \in Bodies
    BY <1>11 DEF CommitWorkflow, Authorized, Opened
  <2>2. runs' \in [Runs -> [status : RunStatus, key : Keys \cup {NoKey}]]
    BY <1>11, <2>1, StatusSet DEF CommitWorkflow, RunStatus
  <2> QED BY <1>1, <1>2, <1>11, <2>1, <2>2 DEF CommitWorkflow, Ops
<1> QED
  BY <1>4, <1>5, <1>6, <1>7, <1>8, <1>9, <1>10, <1>11 DEF Replays, Commits, CommitTurn

\* What the executors write is well formed.
LEMMA OutsideType ==
    ASSUME TypeOK, Outside
    PROVE TypeOK'
<1> USE DEF TypeOK
<1>1. UNCHANGED <<turns, objects, req, told>>
  BY OutsideKeeps
<1>2. ASSUME OneMore PROVE asked' \in 0..MaxAsks
  BY <1>2, ConversationAssumption DEF OneMore
<1>3. CASE UpdateSession
  BY <1>1, <1>2, <1>3 DEF UpdateSession
<1>4. ASSUME NEW r \in Runs, CreateRun(r) PROVE TypeOK'
  BY <1>1, <1>2, <1>4 DEF CreateRun, RunStatus
<1>5. ASSUME NEW r \in Runs, StartInline(r) PROVE TypeOK'
  BY <1>1, <1>2, <1>5 DEF StartInline, RunStatus
<1>6. ASSUME NEW r \in Runs, FinishInline(r) PROVE TypeOK'
  <2>1. runs' \in [Runs -> [status : RunStatus, key : Keys \cup {NoKey}]]
    <3>1. CASE UNCHANGED runs
      BY <3>1
    <3>2. ASSUME NEW s \in Over, runs' = [runs EXCEPT ![r].status = s]
          PROVE runs' \in [Runs -> [status : RunStatus, key : Keys \cup {NoKey}]]
      BY <3>2, StatusSet DEF Over, RunStatus
    <3> QED BY <1>6, <3>1, <3>2 DEF FinishInline
  <2> QED BY <1>1, <1>6, <2>1 DEF FinishInline
<1>7. ASSUME NEW r \in Runs, StartQuick(r) PROVE TypeOK'
  <2>1. runs' \in [Runs -> [status : RunStatus, key : Keys \cup {NoKey}]]
    BY <1>7, StatusSet DEF StartQuick, RunStatus
  <2>2. quick' \in [Runs -> [status : {"none", "queued", "running", "completed", "ended"},
                              key : Keys \cup {NoKey}, body : Bodies \cup {NoBody}]]
    BY <1>7, StatusSetToo DEF StartQuick
  <2> QED BY <1>1, <1>7, <2>1, <2>2 DEF StartQuick
<1>8. ASSUME NEW r \in Runs, CompleteQuick(r) PROVE TypeOK'
  <2>1. /\ session' \in [status : {"active", "archived"}, next : 1..MaxMessages + 1]
        /\ messages' \subseteq [sequence : 1..MaxMessages, run : Runs,
                                role : {"user", "assistant"}]
    BY <1>8, ConversationAssumption DEF CompleteQuick
  <2>2. runs' \in [Runs -> [status : RunStatus, key : Keys \cup {NoKey}]]
    BY <1>8, StatusSet DEF CompleteQuick, RunStatus
  <2>3. quick' \in [Runs -> [status : {"none", "queued", "running", "completed", "ended"},
                              key : Keys \cup {NoKey}, body : Bodies \cup {NoBody}]]
    BY <1>8, StatusSetToo DEF CompleteQuick
  <2> QED BY <1>1, <1>8, <2>1, <2>2, <2>3 DEF CompleteQuick
<1>9. ASSUME NEW r \in Runs, InterruptQuick(r) PROVE TypeOK'
  <2> DEFINE s == IF runs[r].status = "cancel_requested" THEN "cancelled"
                  ELSE IF runs[r].status \in {"pending", "running"} THEN "failed"
                  ELSE runs[r].status
  <2>1. s \in RunStatus
    BY DEF RunStatus
  <2>2. runs' = [runs EXCEPT ![r].status = s]
    BY <1>9 DEF InterruptQuick
  <2>3. runs' \in [Runs -> [status : RunStatus, key : Keys \cup {NoKey}]]
    <3> HIDE DEF s
    <3> QED BY <2>1, <2>2, StatusSet
  <2>4. quick' \in [Runs -> [status : {"none", "queued", "running", "completed", "ended"},
                              key : Keys \cup {NoKey}, body : Bodies \cup {NoBody}]]
    BY <1>9, StatusSetToo DEF InterruptQuick
  <2> QED BY <1>1, <1>9, <2>3, <2>4 DEF InterruptQuick
<1>10. ASSUME NEW r \in Runs, EndWorkflow(r) PROVE TypeOK'
  <2>1. PICK s \in Over : runs' = [runs EXCEPT ![r].status = s]
    BY <1>10 DEF EndWorkflow
  <2>2. runs' \in [Runs -> [status : RunStatus, key : Keys \cup {NoKey}]]
    <3>1. s \in RunStatus
      BY DEF Over, RunStatus
    <3> QED BY <2>1, <3>1, StatusSet
  <2>3. flow' \in [Runs -> [status : {"none", "running", "ended"},
                             key : Keys \cup {NoKey}, body : Bodies \cup {NoBody}]]
    BY <1>10, StatusSetToo DEF EndWorkflow
  <2> QED BY <1>1, <1>10, <2>2, <2>3 DEF EndWorkflow
<1>11. ASSUME NEW r \in Runs, CancelRun(r) PROVE TypeOK'
  <2>1. PICK s \in {"cancelled", "cancel_requested"} :
           runs' = [runs EXCEPT ![r].status = s]
    BY <1>11 DEF CancelRun
  <2>2. runs' \in [Runs -> [status : RunStatus, key : Keys \cup {NoKey}]]
    BY <2>1, StatusSet DEF RunStatus
  <2> QED BY <1>1, <1>2, <1>11, <2>2 DEF CancelRun
<1>12. ASSUME NEW r \in Runs, FailQuick(r) PROVE TypeOK'
  <2>1. runs' \in [Runs -> [status : RunStatus, key : Keys \cup {NoKey}]]
    BY <1>12, StatusSet DEF FailQuick, RunStatus
  <2>2. quick' \in [Runs -> [status : {"none", "queued", "running", "completed", "ended"},
                              key : Keys \cup {NoKey}, body : Bodies \cup {NoBody}]]
    BY <1>12, StatusSetToo DEF FailQuick
  <2> QED BY <1>1, <1>12, <2>1, <2>2 DEF FailQuick
<1> QED
  BY <1>3, <1>4, <1>5, <1>6, <1>7, <1>8, <1>9, <1>10, <1>11, <1>12
  DEF Outside, Execute

LEMMA TypeStep == ASSUME IInv, [Next]_vars PROVE TypeOK'
<1> USE DEF IInv, Locked
<1>1. ASSUME NEW c \in Clients, Thinks(c) PROVE TypeOK'
  <2>1. OneMore \/ asked' = asked
    BY <1>1 DEF Thinks, AskAnything, Ask, GiveUp, PlanAppend, PlanSubmission, PlanWorkflow
  <2>2. asked' \in 0..MaxAsks
    BY <2>1, ConversationAssumption DEF OneMore, TypeOK
  <2> QED BY <1>1, <2>2, RequestType, ThinkingKeepsRows DEF TypeOK, rows
<1>2. CASE UNCHANGED vars
  BY <1>2 DEF vars, rows, TypeOK
<1> QED BY <1>1, <1>2, RowsType, OutsideType, StepKinds

-----------------------------------------------------------------------------
(* Locks *)

\* What a request has found when it goes on to its plan.
LEMMA Plans ==
    ASSUME TypeOK, NEW c \in Clients, Thinks(c)
    PROVE \/ req'[c].pc \notin {"planned", "stored"}
          \/ /\ SessionFree /\ session.status = "active"
             /\ req[c].op \in Appends
             /\ req[c].op = "keyed_turn" => turns[req[c].key].run = 0 /\ UnfinishedTurn = {}
             /\ req[c].pc = "asked"
             /\ req'[c] = [req[c] EXCEPT !.pc = "planned", !.sequence = session.next,
                                         !.seen = Unseen]
          \/ /\ RunFree(req[c].run)
             /\ req[c].op \in {"submit", "workflow"}
             /\ req[c].op = "workflow" => runs[req[c].run].status \in {"pending", "running"}
             /\ req[c].pc = "asked"
             /\ req'[c] = [req[c] EXCEPT !.pc = "planned", !.sequence = 0, !.seen = Unseen]
<1> USE DEF TypeOK
<1>1. CASE AskAnything(c) \/ GiveUp(c)
  <2>1. ASSUME NEW op, NEW r, NEW k, NEW b, Ask(c, op, r, k, b) PROVE req'[c].pc = "asked"
    BY <2>1 DEF Ask, Idle
  <2>2. req'[c].pc \in {"asked", "idle"}
    BY <1>1, <2>1 DEF AskAnything, GiveUp, Idle
  <2> QED BY <2>2
<1>2. CASE PlanAppend(c)
  BY <1>2 DEF PlanAppend, Planned
<1>3. CASE PlanSubmission(c) \/ PlanWorkflow(c)
  BY <1>3 DEF PlanSubmission, PlanWorkflow, Planned
<1> QED BY <1>1, <1>2, <1>3 DEF Thinks

\* An answer or a commit of a row ends the request; storing its object keeps its lock.
LEMMA Ends ==
    ASSUME TypeOK, NEW c \in Clients, Replays(c) \/ Commits(c)
    PROVE \/ req'[c] = Idle /\ ~StoreRequest(c)
          \/ /\ StoreRequest(c)
             /\ req[c].pc = "planned" /\ req[c].op = "submit"
             /\ req'[c] = [req[c] EXCEPT !.pc = "stored"]
<1> USE DEF TypeOK
<1>1. CASE StoreRequest(c)
  BY <1>1 DEF StoreRequest
<1>2. CASE Replays(c)
  <2>1. req'[c] = Idle
    BY <1>2 DEF Replays, ReplayTurn, ReplaySubmission, ReplayWorkflow, Answer
  <2>2. CASE StoreRequest(c)
    BY <1>1, <2>2
  <2> QED BY <2>1, <2>2
<1>3. CASE Commits(c) /\ ~StoreRequest(c)
  BY <1>3 DEF Commits, CommitTurn, SaveTurn, CommitMessage, CommitSubmission,
     CommitWorkflow, Answer, Done
<1> QED BY <1>1, <1>2, <1>3

\* Only the holder of the session's lock, and a completion that finds it free, move
\* the message sequence on.
LEMMA SequenceMoves ==
    ASSUME TypeOK, [Next]_vars, session'.next # session.next
    PROVE \/ SessionFree /\ UNCHANGED req
          \/ \E c \in Clients : Appending(c) /\ req'[c] = Idle
                               /\ \A d \in Clients \ {c} : req'[d] = req[d]
<1>1. ASSUME NEW c \in Clients, Thinks(c) \/ Replays(c) PROVE FALSE
  BY <1>1, ThinkingKeepsRows, ReplayingKeepsRows DEF rows
<1>2. ASSUME NEW c \in Clients, Commits(c)
      PROVE /\ Appending(c) /\ req'[c] = Idle
            /\ \A d \in Clients \ {c} : req'[d] = req[d]
  <2>1. CommitTurn(c) \/ CommitMessage(c)
    BY <1>2 DEF Commits, StoreRequest, CommitSubmission, CommitWorkflow
  <2>2. Appending(c)
    BY <2>1 DEF CommitTurn, SaveTurn, CommitMessage, Appending, Appends
  <2>3. ~StoreRequest(c)
    BY <2>2 DEF StoreRequest, Appending, Appends
  <2> QED BY <1>2, <2>2, <2>3, Ends, OthersWait
<1>3. CASE Outside
  <2>1. ASSUME NEW r \in Runs, ~CompleteQuick(r), CreateRun(r) \/ Execute(r) PROVE FALSE
    BY <2>1 DEF CreateRun, Execute, StartInline, FinishInline, StartQuick, FailQuick,
       InterruptQuick, EndWorkflow, CancelRun
  <2>2. ~UpdateSession
    BY DEF UpdateSession, TypeOK
  <2> QED BY <1>3, <2>1, <2>2, OutsideKeeps DEF Outside, CompleteQuick
<1>4. ~UNCHANGED vars
  BY DEF vars, rows
<1> QED BY <1>1, <1>2, <1>3, <1>4, StepKinds

LEMMA LockStep ==
    ASSUME TypeOK, AppendLock, RunLock, [Next]_vars
    PROVE AppendLock' /\ RunLock'
<1>1. ASSUME NEW c \in Clients, Thinks(c) PROVE AppendLock' /\ RunLock'
  <2>1. UNCHANGED session /\ \A d \in Clients \ {c} : req'[d] = req[d]
    BY <1>1, ThinkingKeepsRows, OthersWait DEF rows
  <2>2. CASE req'[c].pc \notin {"planned", "stored"}
    BY <2>1, <2>2 DEF AppendLock, RunLock, Appending, Holding
  <2>3. CASE /\ SessionFree
             /\ req[c].op \in Appends
             /\ req'[c] = [req[c] EXCEPT !.pc = "planned", !.sequence = session.next,
                                         !.seen = Unseen]
    <3>1. req'[c].op = req[c].op /\ req'[c].sequence = session.next
      BY <2>3 DEF TypeOK, Request
    <3>2. \A d \in Clients : ~Appending(d)
      BY <2>3 DEF SessionFree, Appending
    <3>3. \A d \in Clients : Appending(d)' => d = c
      BY <2>1, <3>2 DEF Appending
    <3>4. \A d \in Clients : Holding(d)' => Holding(d) /\ d # c
      BY <2>1, <2>3, <3>1 DEF Holding, Appends
    <3>5. \A d \in Clients \ {c} : req'[d].run = req[d].run
      BY <2>1
    <3> QED BY <2>1, <3>1, <3>3, <3>4, <3>5 DEF AppendLock, RunLock
  <2>4. CASE /\ RunFree(req[c].run)
             /\ req[c].op \in {"submit", "workflow"}
             /\ req'[c] = [req[c] EXCEPT !.pc = "planned", !.sequence = 0, !.seen = Unseen]
    <3>1. req'[c].op = req[c].op /\ req'[c].run = req[c].run
      BY <2>4 DEF TypeOK, Request
    <3>2. \A d \in Clients : Holding(d) => req[d].run # req[c].run
      BY <2>4 DEF RunFree, Holding
    <3>3. \A d \in Clients : Appending(d)' => Appending(d) /\ d # c
      BY <2>1, <2>4, <3>1 DEF Appending, Appends
    <3>4. \A d \in Clients : Holding(d)' => d = c \/ Holding(d)
      BY <2>1 DEF Holding
    <3>5. \A d \in Clients \ {c} : req'[d] = req[d]
      BY <2>1
    <3>6. AppendLock'
      BY <2>1, <3>3, <3>5 DEF AppendLock
    <3> QED BY <3>1, <3>2, <3>4, <3>5, <3>6 DEF RunLock
  <2> QED BY <1>1, <2>2, <2>3, <2>4, Plans
<1>2. ASSUME NEW c \in Clients, Replays(c) \/ Commits(c) PROVE AppendLock' /\ RunLock'
  <2>1. \A d \in Clients \ {c} : req'[d] = req[d]
    BY <1>2, OthersWait
  <2>2. CASE req'[c] = Idle
    <3>1. req'[c].pc = "idle"
      BY <2>2 DEF Idle
    <3>2. RunLock'
      BY <2>1, <3>1 DEF RunLock, Holding
    <3>3. \A d \in Clients : Appending(d)' => Appending(d) /\ d # c
      BY <2>1, <3>1 DEF Appending
    <3>4. ASSUME NEW d \in Clients, Appending(d)' PROVE req'[d].sequence = session'.next
      <4>1. req'[d] = req[d] /\ Appending(d) /\ d # c
        BY <2>1, <3>3, <3>4
      <4>2. ~SessionFree
        BY <4>1 DEF SessionFree, Appending
      <4>3. ASSUME NEW e \in Clients, Appending(e), req'[e] = Idle PROVE FALSE
        BY <4>1, <4>3 DEF AppendLock, Appending, Idle
      <4>4. session'.next = session.next
        BY <4>2, <4>3, SequenceMoves
      <4> QED BY <4>1, <4>4 DEF AppendLock
    <3> QED BY <2>1, <3>2, <3>3, <3>4 DEF AppendLock, Appending
  <2>3. CASE /\ StoreRequest(c) /\ req[c].pc = "planned" /\ req[c].op = "submit"
             /\ req'[c] = [req[c] EXCEPT !.pc = "stored"]
    <3>1. /\ req'[c].op = req[c].op /\ req'[c].run = req[c].run /\ req'[c].pc = "stored"
          /\ UNCHANGED session
      BY <2>3 DEF TypeOK, Request, StoreRequest
    <3>2. \A d \in Clients : Appending(d)' => Appending(d) /\ d # c
      BY <2>1, <2>3, <3>1 DEF Appending, Appends
    <3>3. \A d \in Clients : Holding(d)' => Holding(d)
      BY <2>1, <2>3, <3>1 DEF Holding
    <3>4. \A d \in Clients : req'[d].run = req[d].run
      BY <2>1, <3>1
    <3>5. AppendLock'
      BY <2>1, <3>1, <3>2 DEF AppendLock
    <3> QED BY <3>3, <3>4, <3>5 DEF RunLock
  <2> QED BY <1>2, <2>2, <2>3, Ends
<1>3. CASE UNCHANGED req
  <2>1. ASSUME NEW d \in Clients, Appending(d) PROVE session'.next = session.next
    BY <1>3, <2>1, SequenceMoves DEF SessionFree, Appending, Idle, AppendLock
  <2> QED BY <1>3, <2>1 DEF AppendLock, RunLock, Appending, Holding
<1> QED BY <1>1, <1>2, <1>3, StepKinds, OutsideKeeps DEF vars

\* What authorisation let through stays true: Runs do not go away.
LEMMA RunsStay ==
    ASSUME TypeOK, Authorized, [Next]_vars
    PROVE Opened \subseteq Opened'
<1>1. ASSUME NEW c \in Clients, Thinks(c) \/ Replays(c) PROVE Opened \subseteq Opened'
  BY <1>1, ThinkingKeepsRows, ReplayingKeepsRows DEF rows, Opened
<1>2. ASSUME NEW c \in Clients, Commits(c) PROVE Opened \subseteq Opened'
  <2>1. ASSUME NEW r \in Runs, SaveTurn(c, r) PROVE Opened \subseteq Opened'
    BY <2>1 DEF TypeOK, SaveTurn, Opened
  <2>2. CASE CommitWorkflow(c)
    BY <2>2 DEF TypeOK, CommitWorkflow, Opened
  <2>3. CASE CommitMessage(c) \/ StoreRequest(c) \/ CommitSubmission(c)
    BY <2>3 DEF CommitMessage, StoreRequest, CommitSubmission, Opened
  <2> QED BY <1>2, <2>1, <2>2, <2>3 DEF Commits, CommitTurn
<1>3. CASE Outside
  BY <1>3 DEF TypeOK, Outside, CreateRun, UpdateSession, Execute, StartInline,
     FinishInline, StartQuick, CompleteQuick, FailQuick, InterruptQuick, EndWorkflow,
     CancelRun, Opened, Over
<1>4. CASE UNCHANGED vars
  BY <1>4 DEF vars, rows, Opened
<1> QED BY <1>1, <1>2, <1>3, <1>4, StepKinds

LEMMA AuthorizedStep ==
    ASSUME TypeOK, Authorized, [Next]_vars
    PROVE Authorized'
<1>1. Opened \subseteq Opened'
  BY RunsStay
<1>2. ASSUME NEW c \in Clients, Thinks(c) \/ Replays(c) \/ Commits(c),
             \/ req'[c].pc = "idle"
             \/ /\ req'[c].op = req[c].op /\ req'[c].run = req[c].run
                /\ req'[c].key = req[c].key /\ req'[c].body = req[c].body
                /\ req[c].pc # "idle"
      PROVE Authorized'
  BY <1>1, <1>2, OthersWait DEF Authorized
<1>3. ASSUME NEW c \in Clients, NEW op \in Ops, NEW r \in 0..MaxRuns,
             NEW k \in Keys \cup {NoKey}, NEW b \in Bodies \cup {NoBody},
             Ask(c, op, r, k, b), Thinks(c),
             op \in {"keyed_turn", "submit", "workflow"} => k \in Keys /\ b \in Bodies,
             op \in {"unkeyed_turn", "message"} => k = NoKey
      PROVE Authorized'
  <2>1. /\ req'[c].op = op /\ req'[c].run = r /\ req'[c].key = k /\ req'[c].body = b
        /\ op \in {"message", "submit", "workflow"} => r \in Opened
    BY <1>3 DEF Ask, Idle, TypeOK
  <2> QED BY <1>1, <1>3, <2>1, OthersWait DEF Authorized, Ops
<1>4. ASSUME NEW c \in Clients, AskAnything(c) PROVE Authorized'
  BY <1>3, <1>4, ConversationAssumption DEF AskAnything, Thinks, Ops, Runs
<1>5. ASSUME NEW c \in Clients, Thinks(c) PROVE Authorized'
  <2>1. CASE GiveUp(c)
    <3>1. req'[c].pc = "idle"
      BY <2>1 DEF GiveUp, Idle, TypeOK
    <3> QED BY <1>2, <1>5, <3>1
  <2>2. CASE PlanAppend(c) \/ PlanSubmission(c) \/ PlanWorkflow(c)
    <3>1. PICK n \in Nat : Planned(c, n) /\ req[c].pc = "asked"
      BY <2>2 DEF PlanAppend, PlanSubmission, PlanWorkflow, TypeOK
    <3>2. req[c] \in Request
      BY DEF TypeOK
    <3>3. /\ req'[c].op = req[c].op /\ req'[c].run = req[c].run
          /\ req'[c].key = req[c].key /\ req'[c].body = req[c].body
      BY <3>1, <3>2 DEF Planned, Request, TypeOK
    <3> QED BY <1>2, <1>5, <3>1, <3>3
  <2> QED BY <1>4, <1>5, <2>1, <2>2 DEF Thinks
<1>6. ASSUME NEW c \in Clients, Replays(c) \/ Commits(c) PROVE Authorized'
  <2>1. req[c] \in Request
    BY DEF TypeOK
  <2>2. CASE req'[c] = Idle
    BY <1>2, <1>6, <2>2 DEF Idle
  <2>3. CASE req[c].pc = "planned" /\ req'[c] = [req[c] EXCEPT !.pc = "stored"]
    BY <1>2, <1>6, <2>1, <2>3 DEF Request
  <2> QED BY <1>6, <2>2, <2>3, Ends
<1>7. CASE UNCHANGED req
  BY <1>1, <1>7 DEF Authorized
<1> QED BY <1>5, <1>6, <1>7, StepKinds, OutsideKeeps DEF vars

-----------------------------------------------------------------------------
(* What the executors do to the rows *)

\* What no executor, cancellation or unkeyed creation does: give a Run a key, make
\* one unfinished again, change a locked one, or make or unmake an execution.
NothingRevived ==
    /\ \A r \in Runs : runs'[r].status # "none" /\ runs'[r].key # NoKey =>
          /\ runs[r].status # "none" /\ runs[r].key = runs'[r].key
          /\ runs'[r].status \in Unfinished => runs[r].status \in Unfinished
    /\ \A r \in Opened : ~RunFree(r) => runs'[r] = runs[r]
    /\ \A r \in Runs : /\ quick'[r].key = quick[r].key /\ quick'[r].body = quick[r].body
                       /\ quick'[r].status = "none" <=> quick[r].status = "none"
    /\ \A r \in Runs : /\ flow'[r].key = flow[r].key /\ flow'[r].body = flow[r].body
                       /\ flow'[r].status = "none" <=> flow[r].status = "none"
    /\ messages \subseteq messages'

LEMMA OutsideRevivesNothing == ASSUME TypeOK, Owned, Outside PROVE NothingRevived
<1> USE DEF TypeOK
<1>1. CASE UpdateSession
  BY <1>1 DEF UpdateSession, NothingRevived
<1>2. ASSUME NEW r \in Runs, CreateRun(r) PROVE NothingRevived
  BY <1>2 DEF CreateRun, Fresh, Opened, NothingRevived
<1>3. ASSUME NEW r \in Runs, StartInline(r) PROVE NothingRevived
  BY <1>3 DEF StartInline, NothingRevived, Unfinished
<1>4. ASSUME NEW r \in Runs, FinishInline(r) PROVE NothingRevived
  <2>1. CASE UNCHANGED runs
    BY <1>4, <2>1 DEF FinishInline, NothingRevived
  <2>2. ASSUME NEW s \in Over, runs' = [runs EXCEPT ![r].status = s],
               runs[r].status \in {"running", "cancel_requested"}
        PROVE NothingRevived
    BY <1>4, <2>2 DEF FinishInline, NothingRevived, Unfinished, Over
  <2> QED BY <1>4, <2>1, <2>2 DEF FinishInline
<1>5. ASSUME NEW r \in Runs, StartQuick(r) PROVE NothingRevived
  BY <1>5 DEF StartQuick, NothingRevived, Unfinished
<1>6. ASSUME NEW r \in Runs, CompleteQuick(r) PROVE NothingRevived
  <2>1. /\ runs'[r].status \notin Unfinished /\ runs'[r].key = runs[r].key
        /\ \A x \in Runs \ {r} : runs'[x] = runs[x]
    BY <1>6 DEF CompleteQuick, Unfinished
  <2>2. runs[r].status # "none" /\ RunFree(r)
    BY <1>6 DEF CompleteQuick, Owned, Opened
  <2>3. \A x \in Runs : /\ quick'[x].key = quick[x].key /\ quick'[x].body = quick[x].body
                        /\ quick'[x].status = "none" <=> quick[x].status = "none"
    BY <1>6 DEF CompleteQuick
  <2>4. UNCHANGED flow
    BY <1>6 DEF CompleteQuick
  <2>5. messages \subseteq messages'
    BY <1>6 DEF CompleteQuick
  <2>6. \A x \in Runs : runs'[x].status # "none" /\ runs'[x].key # NoKey =>
          /\ runs[x].status # "none" /\ runs[x].key = runs'[x].key
          /\ runs'[x].status \in Unfinished => runs[x].status \in Unfinished
    BY <2>1, <2>2
  <2>7. \A x \in Opened : ~RunFree(x) => runs'[x] = runs[x]
    BY <2>1, <2>2 DEF Opened
  <2> QED BY <2>3, <2>4, <2>5, <2>6, <2>7 DEF NothingRevived
<1>7. ASSUME NEW r \in Runs, InterruptQuick(r) PROVE NothingRevived
  <2>1. /\ runs'[r].key = runs[r].key
        /\ runs'[r].status # "none" <=> runs[r].status # "none"
        /\ runs'[r].status \notin Unfinished
        /\ \A x \in Runs \ {r} : runs'[x] = runs[x]
    BY <1>7 DEF InterruptQuick, Unfinished, RunStatus
  <2>2. UNCHANGED <<flow, messages>>
    BY <1>7 DEF InterruptQuick
  <2>3. \A x \in Runs : /\ quick'[x].key = quick[x].key /\ quick'[x].body = quick[x].body
                        /\ quick'[x].status = "none" <=> quick[x].status = "none"
    BY <1>7 DEF InterruptQuick
  <2> QED BY <1>7, <2>1, <2>2, <2>3 DEF InterruptQuick, NothingRevived
<1>8. ASSUME NEW r \in Runs, EndWorkflow(r) PROVE NothingRevived
  <2>1. /\ runs'[r].key = runs[r].key
        /\ runs'[r].status \notin Unfinished
        /\ \A x \in Runs \ {r} : runs'[x] = runs[x]
    BY <1>8 DEF EndWorkflow, Unfinished, Over
  <2>2. runs[r].status # "none"
    BY <1>8 DEF EndWorkflow, Owned, Opened
  <2>3. UNCHANGED <<quick, messages>>
    BY <1>8 DEF EndWorkflow
  <2>4. \A x \in Runs : /\ flow'[x].key = flow[x].key /\ flow'[x].body = flow[x].body
                        /\ flow'[x].status = "none" <=> flow[x].status = "none"
    BY <1>8 DEF EndWorkflow
  <2> QED BY <1>8, <2>1, <2>2, <2>3, <2>4 DEF EndWorkflow, NothingRevived
<1>9. ASSUME NEW r \in Runs, CancelRun(r) PROVE NothingRevived
  <2>1. PICK s \in {"cancelled", "cancel_requested"} :
           runs' = [runs EXCEPT ![r].status = s]
    BY <1>9 DEF CancelRun
  <2> QED BY <1>9, <2>1 DEF CancelRun, NothingRevived, Unfinished
<1>10. ASSUME NEW r \in Runs, FailQuick(r) PROVE NothingRevived
  <2>1. /\ runs'[r].status \notin Unfinished /\ runs'[r].key = runs[r].key
        /\ \A x \in Runs \ {r} : runs'[x] = runs[x]
    BY <1>10 DEF FailQuick, Unfinished
  <2>2. runs[r].status # "none"
    BY <1>10 DEF FailQuick, Owned, Opened
  <2>3. \A x \in Runs : /\ quick'[x].key = quick[x].key /\ quick'[x].body = quick[x].body
                        /\ quick'[x].status = "none" <=> quick[x].status = "none"
    BY <1>10 DEF FailQuick
  <2>4. UNCHANGED <<flow, messages>>
    BY <1>10 DEF FailQuick
  <2> QED BY <1>10, <2>1, <2>2, <2>3, <2>4 DEF FailQuick, NothingRevived
<1> QED
  BY <1>1, <1>2, <1>3, <1>4, <1>5, <1>6, <1>7, <1>8, <1>9, <1>10 DEF Outside, Execute

-----------------------------------------------------------------------------
(* What a plan found is still so at the commit *)

\* A commit of c, seen by another request d that holds a lock of its own.
LEMMA KeepsOthers ==
    ASSUME IInv, NEW c \in Clients, Commits(c), NEW d \in Clients \ {c}
    PROVE Keeps(d)'
<1> USE DEF IInv, Locked, TypeOK
<1>1. req'[d] = req[d] /\ Keeps(d)
  BY OthersWait DEF Kept
<1>2. ASSUME NEW r \in Runs, SaveTurn(c, r) PROVE Keeps(d)'
  <2>1. ~(req[d].pc = "planned" /\ req[d].op = "keyed_turn")
    BY <1>2 DEF SaveTurn, AppendLock, Appending, Appends
  <2>2. ASSUME req[d].pc = "planned", req[d].op = "workflow"
        PROVE runs'[req[d].run] = runs[req[d].run]
    BY <1>2, <2>2 DEF SaveTurn, Fresh, Authorized
  <2>3. UNCHANGED objects
    BY <1>2 DEF SaveTurn
  <2> QED BY <1>1, <2>1, <2>2, <2>3 DEF Keeps
<1>3. CASE CommitMessage(c) \/ CommitSubmission(c)
  BY <1>1, <1>3 DEF CommitMessage, CommitSubmission, Keeps
<1>4. CASE StoreRequest(c)
  BY <1>1, <1>4 DEF StoreRequest, Keeps
<1>5. CASE CommitWorkflow(c)
  <2>1. /\ req[c].run \in Runs /\ UNCHANGED <<turns, objects>>
        /\ runs[req[c].run].status \in Unfinished
        /\ runs' = [runs EXCEPT ![req[c].run].status = "running"]
    BY <1>5 DEF CommitWorkflow, Kept, Keeps, Authorized, Opened, Unfinished
  <2>2. req[d].pc = "planned" /\ req[d].op = "workflow" => req[d].run # req[c].run
    BY <1>5 DEF CommitWorkflow, RunLock, Holding
  <2>3. ASSUME req[d].pc = "planned", req[d].op = "keyed_turn", NEW r \in Runs,
               runs'[r].key # NoKey
        PROVE runs'[r].status \notin Unfinished
    BY <1>1, <2>1, <2>3 DEF Keeps
  <2> QED BY <1>1, <2>1, <2>2, <2>3 DEF Keeps
<1> QED BY <1>2, <1>3, <1>4, <1>5 DEF Commits, CommitTurn

LEMMA KeptStep == ASSUME IInv, [Next]_vars PROVE Kept'
<1> USE DEF IInv, Locked
<1>1. ASSUME NEW c \in Clients, Thinks(c), NEW d \in Clients PROVE Keeps(d)'
  <2>1. UNCHANGED <<turns, runs, objects>>
    BY <1>1, ThinkingKeepsRows DEF rows
  <2>2. CASE d # c
    BY <1>1, <2>1, <2>2, OthersWait DEF Kept, Keeps
  <2>3. CASE d = c /\ req'[c].pc \notin {"planned", "stored"}
    BY <2>3 DEF Keeps
  <2>4. CASE /\ d = c /\ req[c].op \in Appends
             /\ req[c].op = "keyed_turn" => turns[req[c].key].run = 0 /\ UnfinishedTurn = {}
             /\ req'[c] = [req[c] EXCEPT !.pc = "planned", !.sequence = session.next,
                                         !.seen = Unseen]
    <3>1. req'[c].pc = "planned" /\ req'[c].op = req[c].op /\ req'[c].key = req[c].key
      BY <2>4 DEF TypeOK, Request
    <3>2. req[c].op = "keyed_turn" => \A r \in Runs : runs[r].status \notin Unfinished
      BY <2>4 DEF UnfinishedTurn, Opened, Unfinished
    <3> QED BY <2>1, <2>4, <3>1, <3>2 DEF Keeps, Appends
  <2>5. CASE /\ d = c /\ req[c].op \in {"submit", "workflow"}
             /\ req[c].op = "workflow" => runs[req[c].run].status \in {"pending", "running"}
             /\ req'[c] = [req[c] EXCEPT !.pc = "planned", !.sequence = 0, !.seen = Unseen]
    <3>1. req'[c].pc = "planned" /\ req'[c].op = req[c].op /\ req'[c].run = req[c].run
      BY <2>5 DEF TypeOK, Request
    <3> QED BY <2>1, <2>5, <3>1 DEF Keeps
  <2> QED BY <1>1, <2>2, <2>3, <2>4, <2>5, Plans
<1>2. ASSUME NEW c \in Clients, Replays(c) \/ Commits(c) PROVE Keeps(c)'
  <2>1. CASE req'[c] = Idle
    BY <2>1 DEF Keeps, Idle
  <2>2. CASE /\ StoreRequest(c) /\ req[c].op = "submit"
             /\ req'[c] = [req[c] EXCEPT !.pc = "stored"]
    <3>1. /\ req'[c].pc = "stored" /\ req'[c].op = "submit" /\ req'[c].run = req[c].run
          /\ req'[c].key = req[c].key /\ req'[c].body = req[c].body
      BY <2>2 DEF TypeOK, Request
    <3> QED BY <2>2, <3>1 DEF Keeps, StoreRequest
  <2> QED BY <1>2, <2>1, <2>2, Ends
<1>3. ASSUME NEW c \in Clients, Replays(c), NEW d \in Clients \ {c} PROVE Keeps(d)'
  BY <1>3, OthersWait, ReplayingKeepsRows DEF rows, Kept, Keeps
<1>4. ASSUME Outside, NEW d \in Clients PROVE Keeps(d)'
  <2>1. UNCHANGED <<turns, objects, req>> /\ NothingRevived /\ Keeps(d)
    BY <1>4, OutsideKeeps, OutsideRevivesNothing DEF Kept
  <2>2. ASSUME NEW r \in Runs, runs'[r].key # NoKey, req[d].op = "keyed_turn",
               req[d].pc = "planned"
        PROVE runs'[r].status \notin Unfinished
    BY <2>1, <2>2 DEF NothingRevived, Keeps, Unfinished
  <2>3. ASSUME req[d].op = "workflow", req[d].pc = "planned"
        PROVE runs'[req[d].run] = runs[req[d].run]
    BY <2>1, <2>3 DEF NothingRevived, RunFree, Authorized
  <2> QED BY <2>1, <2>2, <2>3 DEF Keeps
<1>5. CASE UNCHANGED vars
  BY <1>5 DEF vars, rows, Kept, Keeps
<1> QED BY <1>1, <1>2, <1>3, <1>4, <1>5, KeepsOthers, StepKinds DEF Kept

-----------------------------------------------------------------------------
(* The rows of the executions *)

\* A step that is not a commit of its own keeps the keys of executions.
LEMMA OwnedStep == ASSUME IInv, [Next]_vars PROVE Owned' /\ Keyless'
<1> USE DEF IInv, Locked
<1>1. Opened \subseteq Opened'
  BY RunsStay
<1>2. ASSUME NEW c \in Clients, Thinks(c) PROVE Owned' /\ Keyless'
  BY <1>1, <1>2, ThinkingKeepsRows DEF rows, Owned, Keyless
<1>3. ASSUME NEW c \in Clients, Replays(c) PROVE Owned' /\ Keyless'
  <2>1. UNCHANGED rows
    BY <1>3, ReplayingKeepsRows
  <2>2. \A t \in told' : t.op \in {"keyed_turn", "submit", "workflow"}
    BY <1>3 DEF Replays, ReplayTurn, ReplaySubmission, ReplayWorkflow, Answer, Keyless
  <2> QED BY <1>1, <2>1, <2>2 DEF rows, Owned, Keyless
<1>4. ASSUME NEW c \in Clients, Commits(c) PROVE Owned' /\ Keyless'
  <2>1. ASSUME NEW r \in Runs, SaveTurn(c, r) PROVE Owned' /\ Keyless'
    <3>1. \A t \in told' : t.op \in {"keyed_turn", "submit", "workflow"}
      BY <2>1 DEF SaveTurn, Answer, Done, Keyless
    <3> QED BY <1>1, <2>1, <3>1 DEF SaveTurn, Owned, Keyless
  <2>2. CASE CommitMessage(c) \/ StoreRequest(c)
    BY <1>1, <2>2 DEF CommitMessage, StoreRequest, Done, Owned, Keyless
  <2>3. CASE CommitSubmission(c)
    <3>1. req[c].op = "submit" /\ req[c].run \in Opened
      BY <2>3 DEF CommitSubmission, Kept, Keeps, Authorized
    <3>2. \A t \in told' : t.op \in {"keyed_turn", "submit", "workflow"}
      BY <2>3, <3>1 DEF CommitSubmission, Answer, Keyless
    <3>3. /\ \A r \in Runs \ {req[c].run} : quick'[r] = quick[r]
          /\ quick'[req[c].run].status = "queued"
      BY <2>3, <3>1 DEF CommitSubmission, TypeOK, Opened
    <3> QED BY <1>1, <2>3, <3>1, <3>2, <3>3 DEF CommitSubmission, Owned, Keyless
  <2>4. CASE CommitWorkflow(c)
    <3>1. req[c].op = "workflow" /\ req[c].run \in Opened
      BY <2>4 DEF CommitWorkflow, Authorized
    <3>2. \A t \in told' : t.op \in {"keyed_turn", "submit", "workflow"}
      BY <2>4, <3>1 DEF CommitWorkflow, Answer, Keyless
    <3>3. /\ \A r \in Runs \ {req[c].run} : flow'[r] = flow[r]
          /\ flow'[req[c].run].status = "running"
      BY <2>4, <3>1 DEF CommitWorkflow, TypeOK, Opened
    <3> QED BY <1>1, <2>4, <3>1, <3>2, <3>3 DEF CommitWorkflow, Owned, Keyless
  <2> QED BY <1>4, <2>1, <2>2, <2>3, <2>4 DEF Commits, CommitTurn
<1>5. CASE Outside
  BY <1>1, <1>5, OutsideKeeps, OutsideRevivesNothing DEF NothingRevived, Owned, Keyless
<1>6. CASE UNCHANGED vars
  BY <1>1, <1>6 DEF vars, rows, Owned, Keyless
<1> QED BY <1>2, <1>3, <1>4, <1>5, <1>6, StepKinds

-----------------------------------------------------------------------------
(* The message sequence *)

\* The next number is appended.
LEMMA AppendDense ==
    ASSUME TypeOK, SequenceDense, NEW m, m.sequence = session.next,
           messages' = messages \cup {m}, session'.next = session.next + 1
    PROVE SequenceDense'
<1>1. session.next \in Nat /\ session.next >= 1
  BY ConversationAssumption DEF TypeOK
<1>2. \A n \in messages : n.sequence \in 1..session.next - 1
  BY DEF SequenceDense
<1>3. \A i \in 1..session.next - 1 : \E n \in messages : n.sequence = i
  BY DEF SequenceDense
<1>4. {n.sequence : n \in messages'} = 1..session'.next - 1
  <2>1. ASSUME NEW n \in messages' PROVE n.sequence \in 1..session'.next - 1
    BY <1>1, <1>2
  <2>2. ASSUME NEW i \in 1..session'.next - 1 PROVE \E n \in messages' : n.sequence = i
    <3>1. CASE i = session.next
      BY <3>1
    <3>2. CASE i # session.next
      BY <1>1, <1>3, <3>2
    <3> QED BY <3>1, <3>2
  <2> QED BY <2>1, <2>2
<1>5. ASSUME NEW n \in messages', NEW o \in messages', n.sequence = o.sequence PROVE n = o
  BY <1>1, <1>2, <1>5 DEF SequenceDense
<1> QED BY <1>4, <1>5 DEF SequenceDense

LEMMA DenseStep == ASSUME IInv, [Next]_vars PROVE SequenceDense'
<1> USE DEF IInv, Locked
<1>1. CASE UNCHANGED <<messages, session>>
  BY <1>1 DEF SequenceDense
<1>2. ASSUME NEW c \in Clients, Commits(c) PROVE SequenceDense'
  <2>1. ASSUME NEW r \in Runs, Append(c, r), Appending(c) PROVE SequenceDense'
    <3>1. req[c].sequence = session.next
      BY <2>1 DEF AppendLock
    <3> DEFINE m == [sequence |-> req[c].sequence, run |-> r, role |-> "user"]
    <3>2. m.sequence = session.next /\ messages' = messages \cup {m}
          /\ session'.next = session.next + 1
      BY <2>1, <3>1 DEF Append, TypeOK
    <3> HIDE DEF m
    <3> QED BY <3>2, AppendDense
  <2>2. CASE CommitTurn(c)
    BY <2>1, <2>2 DEF CommitTurn, SaveTurn, Appending, Appends
  <2>3. CASE CommitMessage(c)
    BY <2>1, <2>3 DEF CommitMessage, Appending, Appends, Authorized, Opened
  <2>4. CASE StoreRequest(c) \/ CommitSubmission(c) \/ CommitWorkflow(c)
    BY <1>1, <2>4 DEF StoreRequest, CommitSubmission, CommitWorkflow
  <2> QED BY <1>2, <2>2, <2>3, <2>4 DEF Commits
<1>3. CASE Outside
  <2>1. CASE UpdateSession
    BY <2>1 DEF UpdateSession, SequenceDense, TypeOK
  <2>2. ASSUME NEW r \in Runs, CompleteQuick(r) PROVE SequenceDense'
    <3> DEFINE m == [sequence |-> session.next, run |-> r, role |-> "assistant"]
    <3>1. m.sequence = session.next /\ messages' = messages \cup {m}
          /\ session'.next = session.next + 1
      BY <2>2 DEF CompleteQuick, TypeOK
    <3> HIDE DEF m
    <3> QED BY <3>1, AppendDense
  <2>3. ASSUME NEW r \in Runs, CreateRun(r) \/ Execute(r), ~CompleteQuick(r)
        PROVE UNCHANGED <<messages, session>>
    BY <2>3 DEF CreateRun, Execute, StartInline, FinishInline, StartQuick, FailQuick,
       InterruptQuick, EndWorkflow, CancelRun
  <2> QED BY <1>1, <1>3, <2>1, <2>2, <2>3 DEF Outside
<1> QED
  BY <1>1, <1>2, <1>3, StepKinds, ThinkingKeepsRows, ReplayingKeepsRows DEF vars, rows

-----------------------------------------------------------------------------
(* Keyed turns *)

LEMMA UnfinishedStep == ASSUME IInv, [Next]_vars PROVE OneUnfinishedTurn'
<1> USE DEF IInv, Locked
<1>1. CASE UNCHANGED runs
  BY <1>1 DEF OneUnfinishedTurn
<1>2. ASSUME NEW c \in Clients, NEW r \in Runs, SaveTurn(c, r) PROVE OneUnfinishedTurn'
  <2>1. \A x \in Runs \ {r} : runs'[x] = runs[x]
    BY <1>2 DEF SaveTurn, TypeOK
  <2>2. CASE req[c].op = "unkeyed_turn"
    <3>1. runs'[r].key = NoKey
      BY <1>2, <2>2 DEF SaveTurn, Authorized, TypeOK
    <3> QED BY <2>1, <3>1 DEF OneUnfinishedTurn
  <2>3. CASE req[c].op = "keyed_turn"
    <3>1. \A x \in Runs : runs[x].key # NoKey => runs[x].status \notin Unfinished
      BY <1>2, <2>3 DEF SaveTurn, Kept, Keeps
    <3> QED BY <2>1, <3>1 DEF OneUnfinishedTurn
  <2> QED BY <1>2, <2>2, <2>3 DEF SaveTurn
<1>3. ASSUME NEW c \in Clients, CommitWorkflow(c) PROVE OneUnfinishedTurn'
  <2>1. /\ req[c].run \in Runs
        /\ runs[req[c].run].status \in Unfinished
        /\ runs' = [runs EXCEPT ![req[c].run].status = "running"]
    BY <1>3 DEF CommitWorkflow, Kept, Keeps, Authorized, Opened, Unfinished
  <2>2. \A x \in Runs : runs'[x].key = runs[x].key
                       /\ (runs'[x].status \in Unfinished => runs[x].status \in Unfinished)
    BY <2>1 DEF TypeOK
  <2> QED BY <2>2 DEF OneUnfinishedTurn
<1>4. ASSUME NEW c \in Clients, CommitMessage(c) \/ StoreRequest(c) \/ CommitSubmission(c)
      PROVE UNCHANGED runs
  BY <1>4 DEF CommitMessage, StoreRequest, CommitSubmission
<1>5. CASE Outside
  <2>1. \A r \in Runs : runs'[r].key # NoKey /\ runs'[r].status \in Unfinished =>
                         runs[r].key = runs'[r].key /\ runs[r].status \in Unfinished
    BY <1>5, OutsideRevivesNothing DEF NothingRevived, Unfinished
  <2> QED BY <2>1 DEF OneUnfinishedTurn
<1> QED
  BY <1>1, <1>2, <1>3, <1>4, <1>5, StepKinds, ThinkingKeepsRows, ReplayingKeepsRows
  DEF vars, rows, Commits, CommitTurn

LEMMA WholeStep == ASSUME IInv, [Next]_vars PROVE TurnIsWhole'
<1> USE DEF IInv, Locked, AcceptedIsWhole
<1>1. CASE UNCHANGED <<runs, turns, messages>>
  BY <1>1 DEF TurnIsWhole, Opened
<1>2. ASSUME NEW c \in Clients, NEW r \in Runs, SaveTurn(c, r) PROVE TurnIsWhole'
  <2>1. /\ \A x \in Runs \ {r} : runs'[x] = runs[x]
        /\ runs'[r].key = req[c].key
        /\ messages \subseteq messages'
    BY <1>2 DEF SaveTurn, Append, TypeOK
  <2>2. \E m \in messages' : m.run = r /\ m.role = "user"
    <3> DEFINE m == [sequence |-> req[c].sequence, run |-> r, role |-> "user"]
    <3>1. m \in messages' /\ m.run = r /\ m.role = "user"
      BY <1>2 DEF SaveTurn, Append
    <3> QED BY <3>1
  <2>3. CASE req[c].op = "unkeyed_turn"
    <3>1. runs'[r].key = NoKey /\ UNCHANGED turns
      BY <1>2, <2>1, <2>3 DEF SaveTurn, Authorized
    <3> QED BY <2>1, <3>1 DEF TurnIsWhole, Opened
  <2>4. CASE req[c].op = "keyed_turn"
    <3>1. /\ turns[req[c].key].run = 0
          /\ req[c].key \in Keys
          /\ turns' = [turns EXCEPT ![req[c].key] = [run |-> r, body |-> req[c].body]]
      BY <1>2, <2>4 DEF SaveTurn, Kept, Keeps, Authorized
    <3>2. turns'[req[c].key].run = r
      BY <3>1 DEF TypeOK
    <3>3. ASSUME NEW x \in Opened', x # r, runs'[x].key # NoKey
          PROVE turns'[runs'[x].key].run = x
      <4>1. x \in Opened /\ runs'[x] = runs[x] /\ x # 0
        BY <2>1, <3>3, ConversationAssumption DEF Opened, Runs
      <4>2. turns[runs[x].key].run = x /\ runs[x].key # req[c].key
        BY <3>1, <3>3, <4>1 DEF TurnIsWhole
      <4> QED BY <3>1, <4>1, <4>2 DEF TypeOK, Opened
    <3> QED BY <2>1, <2>2, <3>2, <3>3 DEF TurnIsWhole, Opened
  <2> QED BY <1>2, <2>3, <2>4 DEF SaveTurn
<1>3. ASSUME NEW c \in Clients, CommitWorkflow(c) PROVE TurnIsWhole'
  <2>1. /\ \A x \in Runs : runs'[x].key = runs[x].key
        /\ Opened' \subseteq Opened
        /\ UNCHANGED <<turns, messages>>
    BY <1>3 DEF CommitWorkflow, Authorized, Opened, TypeOK
  <2> QED BY <2>1 DEF TurnIsWhole, Opened
<1>4. ASSUME NEW c \in Clients, CommitMessage(c) PROVE TurnIsWhole'
  BY <1>4 DEF CommitMessage, Append, TurnIsWhole, Opened
<1>5. ASSUME NEW c \in Clients, StoreRequest(c) \/ CommitSubmission(c)
      PROVE UNCHANGED <<runs, turns, messages>>
  BY <1>5 DEF StoreRequest, CommitSubmission
<1>6. CASE Outside
  <2>1. UNCHANGED turns /\ NothingRevived
    BY <1>6, OutsideKeeps, OutsideRevivesNothing
  <2> QED BY <2>1 DEF NothingRevived, TurnIsWhole, Opened
<1> QED
  BY <1>1, <1>2, <1>3, <1>4, <1>5, <1>6, StepKinds, ThinkingKeepsRows, ReplayingKeepsRows
  DEF vars, rows, Commits, CommitTurn

-----------------------------------------------------------------------------
(* Submissions *)

LEMMA SubmissionStep == ASSUME IInv, [Next]_vars PROVE OneRunPerKey' /\ RequestIsStored'
<1> USE DEF IInv, Locked, AcceptedIsWhole
<1>1. CASE UNCHANGED quick /\ objects \subseteq objects'
  BY <1>1 DEF OneRunPerKey, RequestIsStored
<1>2. ASSUME NEW c \in Clients, CommitSubmission(c) PROVE OneRunPerKey' /\ RequestIsStored'
  <2> DEFINE x == req[c].run
  <2>1. /\ x \in Runs
        /\ [run |-> x, key |-> req[c].key, body |-> req[c].body] \in objects
        /\ UNCHANGED objects
    BY <1>2 DEF CommitSubmission, Kept, Keeps, Authorized, Opened
  <2>2. /\ \A r \in Runs \ {x} : quick'[r] = quick[r]
        /\ quick'[x] = [status |-> "queued", key |-> req[c].key, body |-> req[c].body]
        /\ \A r \in Runs : quick[r].status # "none" => quick[r].key # req[c].key
    BY <1>2, <2>1 DEF CommitSubmission, Taken, TypeOK
  <2> HIDE DEF x
  <2>3. quick'[x].key = req[c].key /\ quick'[x].body = req[c].body
    BY <2>2
  <2>4. OneRunPerKey'
    BY <2>1, <2>2, <2>3 DEF OneRunPerKey
  <2>5. RequestIsStored'
    BY <2>1, <2>2, <2>3 DEF RequestIsStored
  <2> QED BY <2>4, <2>5
<1>3. ASSUME NEW c \in Clients,
             CommitTurn(c) \/ CommitMessage(c) \/ StoreRequest(c) \/ CommitWorkflow(c)
      PROVE UNCHANGED quick /\ objects \subseteq objects'
  BY <1>3 DEF CommitTurn, SaveTurn, CommitMessage, StoreRequest, CommitWorkflow
<1>4. CASE Outside
  BY <1>4, OutsideKeeps, OutsideRevivesNothing
  DEF NothingRevived, OneRunPerKey, RequestIsStored
<1> QED
  BY <1>1, <1>2, <1>3, <1>4, StepKinds, ThinkingKeepsRows, ReplayingKeepsRows
  DEF vars, rows, Commits

-----------------------------------------------------------------------------
(* What clients were told *)

\* An answer that was true stays true.
Holds(t) ==
    CASE t.op = "keyed_turn" -> turns[t.key] = [run |-> t.run, body |-> t.body]
      [] t.op = "submit" -> quick[t.run].key = t.key /\ quick[t.run].body = t.body
      [] t.op = "workflow" -> flow[t.run].key = t.key /\ flow[t.run].body = t.body

LEMMA OldAnswersHold ==
    ASSUME IInv, [Next]_vars, NEW t \in told
    PROVE Holds(t)'
<1> USE DEF IInv, Locked
<1>1. /\ Holds(t) /\ t.op \in {"keyed_turn", "submit", "workflow"}
      /\ t.run \in Runs /\ t.run # 0 /\ t.key \in Keys /\ t.key # NoKey
  <2>1. t \in [op : Ops, run : Runs, key : Keys, body : Bodies]
    BY DEF TypeOK
  <2>2. t.run # 0 /\ t.key # NoKey
    BY <2>1, ConversationAssumption DEF Runs
  <2> QED BY <2>1, <2>2 DEF AnswersHold, Holds, Keyless
<1>2. CASE UNCHANGED <<turns, quick, flow>>
  BY <1>1, <1>2 DEF Holds
<1>3. ASSUME NEW c \in Clients, NEW r \in Runs, SaveTurn(c, r) PROVE Holds(t)'
  <2>1. UNCHANGED <<quick, flow>>
    BY <1>3 DEF SaveTurn
  <2>2. ASSUME t.op = "keyed_turn" PROVE turns'[t.key] = turns[t.key]
    <3>1. turns[t.key].run = t.run
      BY <1>1, <2>2 DEF Holds
    <3>2. req[c].op = "keyed_turn" => turns[req[c].key].run = 0
      BY <1>3 DEF SaveTurn, Kept, Keeps
    <3> QED BY <1>1, <1>3, <3>1, <3>2 DEF SaveTurn, TypeOK
  <2> QED BY <1>1, <2>1, <2>2 DEF Holds
<1>4. ASSUME NEW c \in Clients, CommitSubmission(c) PROVE Holds(t)'
  <2>1. UNCHANGED <<turns, flow>>
    BY <1>4 DEF CommitSubmission
  <2>2. ASSUME t.op = "submit" PROVE quick'[t.run] = quick[t.run]
    <3>1. quick[t.run].status # "none"
      BY <1>1, <2>2 DEF Holds, Keyless
    <3>2. t.run # req[c].run
      BY <1>1, <1>4, <3>1 DEF CommitSubmission, Taken
    <3> QED BY <1>4, <3>2 DEF CommitSubmission, TypeOK
  <2> QED BY <1>1, <2>1, <2>2 DEF Holds
<1>5. ASSUME NEW c \in Clients, CommitWorkflow(c) PROVE Holds(t)'
  <2>1. UNCHANGED <<turns, quick>>
    BY <1>5 DEF CommitWorkflow
  <2>2. ASSUME t.op = "workflow" PROVE flow'[t.run] = flow[t.run]
    <3>1. flow[t.run].status # "none"
      BY <1>1, <2>2 DEF Holds, Keyless
    <3>2. t.run # req[c].run
      BY <1>5, <3>1 DEF CommitWorkflow
    <3> QED BY <1>5, <3>2 DEF CommitWorkflow, TypeOK
  <2> QED BY <1>1, <2>1, <2>2 DEF Holds
<1>6. ASSUME NEW c \in Clients, CommitMessage(c) \/ StoreRequest(c)
      PROVE UNCHANGED <<turns, quick, flow>>
  BY <1>6 DEF CommitMessage, StoreRequest
<1>7. CASE Outside
  <2>1. UNCHANGED turns /\ NothingRevived
    BY <1>7, OutsideKeeps, OutsideRevivesNothing
  <2> QED BY <1>1, <2>1 DEF NothingRevived, Holds
<1> QED
  BY <1>2, <1>3, <1>4, <1>5, <1>6, <1>7, StepKinds, ThinkingKeepsRows, ReplayingKeepsRows
  DEF vars, rows, Commits, CommitTurn

\* A new answer is true.
LEMMA NewAnswersHold ==
    ASSUME IInv, [Next]_vars, NEW t \in told', t \notin told
    PROVE Holds(t)'
<1> USE DEF IInv, Locked, TypeOK
<1>1. ASSUME NEW c \in Clients, ReplayTurn(c) PROVE Holds(t)'
  <2> DEFINE k == req[c].key
  <2>1. /\ t.op = "keyed_turn" /\ t.run = turns[k].run /\ t.key = k /\ t.body = req[c].body
        /\ turns[k].body = req[c].body /\ UNCHANGED turns /\ k \in Keys
    BY <1>1 DEF ReplayTurn, ReplaysTurn, Answer, Authorized, rows
  <2>2. turns[k] = [run |-> turns[k].run, body |-> turns[k].body]
    BY <2>1
  <2> HIDE DEF k
  <2> QED BY <2>1, <2>2 DEF Holds
<1>2. ASSUME NEW c \in Clients, ReplaySubmission(c) PROVE Holds(t)'
  <2>1. /\ t.op = "submit" /\ quick[t.run].key = t.key /\ quick[t.run].body = t.body
        /\ UNCHANGED quick
    BY <1>2 DEF ReplaySubmission, Answer, rows
  <2> QED BY <2>1 DEF Holds
<1>3. ASSUME NEW c \in Clients, ReplayWorkflow(c) PROVE Holds(t)'
  <2>1. /\ t.op = "workflow" /\ flow[t.run].key = t.key /\ flow[t.run].body = t.body
        /\ UNCHANGED flow
    BY <1>3 DEF ReplayWorkflow, SameWorkflow, Answer, rows
  <2> QED BY <2>1 DEF Holds
<1>4. ASSUME NEW c \in Clients, NEW r \in Runs, SaveTurn(c, r) PROVE Holds(t)'
  <2>1. req[c].op = "keyed_turn" /\ Answer(c, r)
    BY <1>4 DEF SaveTurn, Done
  <2>2. /\ t.op = "keyed_turn" /\ t.run = r /\ t.key = req[c].key /\ t.body = req[c].body
    BY <2>1 DEF Answer
  <2>3. turns'[req[c].key] = [run |-> r, body |-> req[c].body]
    BY <1>4, <2>1 DEF SaveTurn, Authorized
  <2> QED BY <2>2, <2>3 DEF Holds
<1>5. ASSUME NEW c \in Clients, CommitSubmission(c) PROVE Holds(t)'
  <2>1. req[c].op = "submit" /\ req[c].run \in Runs
    BY <1>5 DEF CommitSubmission, Kept, Keeps, Authorized, Opened
  <2>2. t.op = "submit" /\ t.run = req[c].run /\ t.key = req[c].key /\ t.body = req[c].body
    BY <1>5, <2>1 DEF CommitSubmission, Answer
  <2>3. quick'[req[c].run].key = req[c].key /\ quick'[req[c].run].body = req[c].body
    BY <1>5, <2>1 DEF CommitSubmission
  <2> QED BY <2>2, <2>3 DEF Holds
<1>6. ASSUME NEW c \in Clients, CommitWorkflow(c) PROVE Holds(t)'
  <2>1. req[c].op = "workflow" /\ req[c].run \in Runs
    BY <1>6 DEF CommitWorkflow, Authorized, Opened
  <2>2. t.op = "workflow" /\ t.run = req[c].run /\ t.key = req[c].key /\ t.body = req[c].body
    BY <1>6, <2>1 DEF CommitWorkflow, Answer
  <2>3. flow'[req[c].run].key = req[c].key /\ flow'[req[c].run].body = req[c].body
    BY <1>6, <2>1 DEF CommitWorkflow
  <2> QED BY <2>2, <2>3 DEF Holds
<1>7. ASSUME NEW c \in Clients, CommitMessage(c) \/ StoreRequest(c) PROVE UNCHANGED told
  BY <1>7 DEF CommitMessage, StoreRequest, Done
<1> QED
  BY <1>1, <1>2, <1>3, <1>4, <1>5, <1>6, <1>7, StepKinds, ThinkingKeepsRows, OutsideKeeps
  DEF vars, Replays, Commits, CommitTurn

-----------------------------------------------------------------------------
(* The theorems *)

LEMMA IInvInit == Init => IInv
<1> SUFFICES ASSUME Init PROVE IInv
  OBVIOUS
<1>1. TypeOK
  <2>1. Idle \in Request
    BY ConversationAssumption DEF Idle, Request, Unseen, Runs
  <2> QED BY <2>1, ConversationAssumption
          DEF Init, TypeOK, Runs, RunStatus, NoTurn, NoQuick, NoFlow
<1>2. Locked /\ Keyless /\ Owned
  BY DEF Init, Locked, AppendLock, Appending, RunLock, Holding, Authorized, Kept, Keeps,
     Keyless, Owned, Idle, NoQuick, NoFlow
<1>3. SequenceDense
  <2>1. CASE session.next = 1 /\ messages = {}
    BY <2>1 DEF SequenceDense
  <2>2. CASE session.next = 2 /\ messages = {[sequence |-> 1, run |-> 1, role |-> "user"]}
    <3>1. {m.sequence : m \in messages} = {1}
      BY <2>2
    <3>2. 1..session.next - 1 = {1}
      BY <2>2
    <3> QED BY <2>2, <3>1, <3>2 DEF SequenceDense
  <2> QED BY <2>1, <2>2 DEF Init
<1>4. \A r \in Runs : runs[r].key = NoKey /\ quick[r].status = "none"
  BY DEF Init, NoQuick
<1>5. OneUnfinishedTurn /\ AcceptedIsWhole
  BY <1>4 DEF OneUnfinishedTurn, AcceptedIsWhole, TurnIsWhole, OneRunPerKey,
     RequestIsStored, Opened
<1>6. AnswersHold
  BY DEF Init, AnswersHold
<1> QED BY <1>1, <1>2, <1>3, <1>5, <1>6 DEF IInv

LEMMA IInvStep == IInv /\ [Next]_vars => IInv'
<1> SUFFICES ASSUME IInv, [Next]_vars PROVE IInv'
  OBVIOUS
<1>1. AppendLock' /\ RunLock' /\ Authorized'
  BY LockStep, AuthorizedStep DEF IInv, Locked
<1>2. AnswersHold'
  BY OldAnswersHold, NewAnswersHold DEF AnswersHold, Holds
<1> QED
  BY <1>1, <1>2, TypeStep, KeptStep, OwnedStep, DenseStep, UnfinishedStep, WholeStep,
     SubmissionStep
  DEF IInv, Locked, AcceptedIsWhole

\* The rows of a conversation and the requests in flight stay well formed
\* (models/conversation_turn.py, models/quick_response.py).
THEOREM TypeCorrect == Spec => []TypeOK
<1>1. IInv => TypeOK
  BY DEF IInv
<1> QED BY <1>1, IInvInit, IInvStep, PTL DEF Spec

\* Whoever appends, and however many requests wait for the session's row, messages
\* are numbered without a gap or a repetition (session_service.py:224).
THEOREM Dense == Spec => []SequenceDense
<1>1. IInv => SequenceDense
  BY DEF IInv
<1> QED BY <1>1, IInvInit, IInvStep, PTL DEF Spec

\* Two keyed turns never leave two unfinished Runs, although the active Run is looked
\* for in a plain read (session_service.py:300).
THEOREM OneTurn == Spec => []OneUnfinishedTurn
<1>1. IInv => OneUnfinishedTurn
  BY DEF IInv
<1> QED BY <1>1, IInvInit, IInvStep, PTL DEF Spec

\* A keyed Run has its key record and message, a request key one execution, and an
\* execution its request object (session_service.py:320, quick_response_submission.py:82).
THEOREM Whole == Spec => []AcceptedIsWhole
<1>1. IInv => AcceptedIsWhole
  BY DEF IInv
<1> QED BY <1>1, IInvInit, IInvStep, PTL DEF Spec

\* What any client was told about its key is, and stays, what is saved, for turns,
\* submissions and workflows alike (session_service.py:282, quick_response_submission.py:46).
THEOREM Answered == Spec => []AnswersHold
<1>1. IInv => AnswersHold
  BY DEF IInv
<1> QED BY <1>1, IInvInit, IInvStep, PTL DEF Spec

-----------------------------------------------------------------------------
(* How a Run's end stands *)

\* executors has recorded whoever can still write, and a quick response that is alone
\* finds its Run running or cancelled.
Recorded(r) ==
    /\ quick[r].status \in {"running", "completed"} => "quick" \in executors[r]
    /\ flow[r].status # "none" => "flow" \in executors[r]
    /\ r \in inline => "inline" \in executors[r]
    /\ quick[r].status = "running" /\ executors[r] \subseteq {"quick"} =>
          runs[r].status \in {"running", "cancel_requested", "cancelled"}

Executed == \A r \in Runs : Recorded(r)

\* Two kinds are more than one.
LEMMA OneKind ==
    ASSUME NEW S \in SUBSET {"quick", "flow", "inline"}, Cardinality(S) <= 1,
           NEW k \in S
    PROVE S \subseteq {k}
<1> SUFFICES ASSUME NEW j \in S, j # k PROVE FALSE
  OBVIOUS
<1>1. IsFiniteSet({k}) /\ Cardinality({k}) = 1
  BY FS_Singleton
<1>2. IsFiniteSet({k} \cup {j}) /\ Cardinality({k} \cup {j}) = 2
  BY <1>1, FS_AddElement
<1>3. IsFiniteSet({"quick", "flow", "inline"})
  <2>1. IsFiniteSet({} \cup {"quick"})
    BY FS_EmptySet, FS_AddElement
  <2>2. IsFiniteSet(({} \cup {"quick"}) \cup {"flow"})
    BY <2>1, FS_AddElement
  <2>3. IsFiniteSet((({} \cup {"quick"}) \cup {"flow"}) \cup {"inline"})
    BY <2>2, FS_AddElement
  <2>4. (({} \cup {"quick"}) \cup {"flow"}) \cup {"inline"} = {"quick", "flow", "inline"}
    OBVIOUS
  <2> QED BY <2>3, <2>4
<1>4. IsFiniteSet(S) /\ Cardinality(S) \in Nat
  BY <1>3, FS_Subset, FS_CardinalityType
<1>5. {k} \cup {j} \in SUBSET S
  OBVIOUS
<1>6. Cardinality({k} \cup {j}) <= Cardinality(S)
  BY <1>4, <1>5, FS_Subset
<1> QED BY <1>2, <1>4, <1>6

LEMMA ExecutedStep == ASSUME IInv, Executed, [Next]_vars PROVE Executed'
<1> USE DEF IInv, Locked, Executed, TypeOK
<1>1. CASE UNCHANGED <<runs, quick, flow, inline, executors>>
  BY <1>1 DEF Recorded
<1>2. ASSUME NEW r \in Runs, Fresh(r),
             \A x \in Runs \ {r} : runs'[x] = runs[x],
             UNCHANGED <<quick, flow, inline, executors>>
      PROVE Executed'
  <2>1. quick[r].status = "none"
    BY <1>2 DEF Fresh, Owned
  <2>2. ASSUME NEW x \in Runs PROVE Recorded(x)'
    BY <1>2, <2>1, <2>2 DEF Recorded
  <2> QED BY <2>2
<1>3. ASSUME NEW c \in Clients, NEW r \in Runs, SaveTurn(c, r) PROVE Executed'
  BY <1>2, <1>3 DEF SaveTurn
<1>4. ASSUME NEW r \in Runs, CreateRun(r) PROVE Executed'
  BY <1>2, <1>4 DEF CreateRun
<1>5. ASSUME NEW c \in Clients, CommitSubmission(c) PROVE Executed'
  <2>1. /\ \A x \in Runs : quick'[x] = quick[x] \/ quick'[x].status = "queued"
        /\ UNCHANGED <<runs, flow, inline, executors>>
    BY <1>5 DEF CommitSubmission
  <2> QED BY <2>1 DEF Recorded
<1>6. ASSUME NEW c \in Clients, CommitWorkflow(c) PROVE Executed'
  <2> DEFINE r == req[c].run
  <2>1. /\ \A x \in Runs \ {r} : /\ runs'[x] = runs[x] /\ flow'[x] = flow[x]
                                 /\ executors'[x] = executors[x]
        /\ executors'[r] = executors[r] \cup {"flow"}
        /\ UNCHANGED <<quick, inline>>
    BY <1>6 DEF CommitWorkflow, Authorized, Opened
  <2> HIDE DEF r
  <2> QED BY <2>1 DEF Recorded
<1>7. ASSUME NEW c \in Clients, CommitMessage(c) \/ StoreRequest(c)
      PROVE UNCHANGED <<runs, quick, flow, inline, executors>>
  BY <1>7 DEF CommitMessage, StoreRequest
<1>8. CASE UpdateSession
  BY <1>1, <1>8 DEF UpdateSession
<1>9. ASSUME NEW r \in Runs, Execute(r) PROVE Executed'
  <2>1. ASSUME NEW x \in Runs \ {r} PROVE Recorded(x)'
    <3>1. /\ runs'[x] = runs[x] /\ quick'[x] = quick[x] /\ flow'[x] = flow[x]
          /\ executors'[x] = executors[x]
          /\ x \in inline' <=> x \in inline
      BY <1>9, <2>1 DEF Execute, StartInline, FinishInline, StartQuick, CompleteQuick,
         FailQuick, InterruptQuick, EndWorkflow, CancelRun
    <3> QED BY <3>1 DEF Recorded
  <2>2. ASSUME StartInline(r) PROVE Recorded(r)'
    BY <2>2 DEF StartInline, Recorded
  <2>3. ASSUME FinishInline(r) PROVE Recorded(r)'
    BY <2>3 DEF FinishInline, Recorded
  <2>4. ASSUME StartQuick(r) PROVE Recorded(r)'
    BY <2>4 DEF StartQuick, Recorded
  <2>5. ASSUME CompleteQuick(r) \/ FailQuick(r) \/ InterruptQuick(r) PROVE Recorded(r)'
    <3>1. /\ quick'[r].status # "running" /\ UNCHANGED <<flow, inline, executors>>
          /\ quick'[r].status = "completed" => quick[r].status = "running"
      BY <2>5 DEF CompleteQuick, FailQuick, InterruptQuick
    <3>2. Recorded(r)
      OBVIOUS
    <3> QED BY <3>1, <3>2 DEF Recorded
  <2>6. ASSUME EndWorkflow(r) PROVE Recorded(r)'
    <3>1. flow[r].status # "none" /\ UNCHANGED <<quick, inline, executors>>
      BY <2>6 DEF EndWorkflow
    <3>2. Recorded(r) /\ executors[r] # {"quick"} /\ "flow" \in executors[r]
      BY <3>1 DEF Recorded
    <3> QED BY <3>1, <3>2 DEF Recorded
  <2>7. ASSUME CancelRun(r) PROVE Recorded(r)'
    BY <2>7 DEF CancelRun, Recorded
  <2>8. Recorded(r)'
    BY <1>9, <2>2, <2>3, <2>4, <2>5, <2>6, <2>7 DEF Execute
  <2> QED BY <2>1, <2>8
<1> QED
  BY <1>1, <1>3, <1>4, <1>5, <1>6, <1>7, <1>8, <1>9, StepKinds, ThinkingKeepsRows,
     ReplayingKeepsRows
  DEF vars, rows, Commits, CommitTurn, Outside

\* What no step does to the end of r.
Stands(r) ==
    runs[r].status \in Over =>
        /\ runs'[r].status \in Over
        /\ "flow" \notin executors'[r] =>
            /\ runs[r].status = "cancelled" => runs'[r].status = "cancelled"
            /\ Cardinality(executors'[r]) <= 1 =>
                 \/ runs'[r].status = runs[r].status
                 \/ /\ runs[r].status = "completed" /\ quick[r].status = "completed"
                    /\ runs'[r].status = "failed"

\* A quick response that runs and is alone does not find its Run completed or failed.
LEMMA AloneRuns ==
    ASSUME TypeOK, NEW r \in Runs, Recorded(r), Cardinality(executors[r]) <= 1,
           quick[r].status = "running", runs[r].status \in Over
    PROVE runs[r].status = "cancelled"
<1>1. "quick" \in executors[r] /\ executors[r] \in SUBSET {"quick", "flow", "inline"}
  BY DEF Recorded, TypeOK
<1>2. executors[r] \subseteq {"quick"}
  BY <1>1, OneKind
<1> QED BY <1>2 DEF Recorded, Over

LEMMA EndStep ==
    ASSUME IInv, Executed, [Next]_vars, NEW r \in Runs
    PROVE Stands(r)
<1> SUFFICES ASSUME runs[r].status \in Over PROVE Stands(r)
  BY DEF Stands
<1> USE DEF IInv, Locked, Executed, TypeOK
<1>1. CASE runs'[r].status = runs[r].status
  BY <1>1 DEF Stands
<1>2. ASSUME NEW x \in Runs, Fresh(x), \A y \in Runs \ {x} : runs'[y] = runs[y]
      PROVE runs'[r].status = runs[r].status
  BY <1>2 DEF Fresh, Opened, Over
<1>3. ASSUME NEW c \in Clients, NEW x \in Runs, SaveTurn(c, x)
      PROVE runs'[r].status = runs[r].status
  BY <1>2, <1>3 DEF SaveTurn
<1>4. ASSUME NEW x \in Runs, CreateRun(x) PROVE runs'[r].status = runs[r].status
  BY <1>2, <1>4 DEF CreateRun
<1>5. ASSUME NEW c \in Clients, CommitWorkflow(c) PROVE runs'[r].status = runs[r].status
  BY <1>5 DEF CommitWorkflow, Kept, Keeps, Over
<1>6. ASSUME NEW x \in Runs, CompleteQuick(x) \/ FailQuick(x) PROVE Stands(r)
  <2>1. CASE x # r
    <3>1. runs'[r] = runs[r]
      BY <1>6, <2>1 DEF CompleteQuick, FailQuick
    <3> QED BY <1>1, <3>1
  <2>2. CASE x = r
    <3>1. /\ quick[r].status = "running" \/ (quick[r].status = "completed" /\ FailQuick(r))
          /\ UNCHANGED executors
          /\ runs[r].status # "cancelled" /\ runs'[r].status \in Over
      BY <1>6, <2>2 DEF CompleteQuick, FailQuick, Over
    <3>2. quick[r].status = "running" => ~(Cardinality(executors[r]) <= 1)
      BY <3>1, AloneRuns
    <3>3. FailQuick(r) => runs'[r].status = "failed"
      BY DEF FailQuick
    <3> QED BY <3>1, <3>2, <3>3 DEF Stands, Over
  <2> QED BY <2>1, <2>2
<1>7. ASSUME NEW x \in Runs, EndWorkflow(x) PROVE Stands(r)
  <2>1. CASE x # r
    <3>1. runs'[r] = runs[r]
      BY <1>7, <2>1 DEF EndWorkflow
    <3> QED BY <1>1, <3>1
  <2>2. CASE x = r
    <3>1. runs'[r].status \in Over /\ flow[r].status # "none" /\ UNCHANGED executors
      BY <1>7, <2>2 DEF EndWorkflow
    <3>2. "flow" \in executors'[r]
      BY <3>1 DEF Recorded
    <3> QED BY <3>1, <3>2 DEF Stands
  <2> QED BY <2>1, <2>2
<1>8. ASSUME NEW x \in Runs,
             \/ StartInline(x) \/ FinishInline(x) \/ StartQuick(x)
             \/ InterruptQuick(x) \/ CancelRun(x)
      PROVE runs'[r].status = runs[r].status
  <2>1. StartInline(x) \/ StartQuick(x) => runs'[r].status = runs[r].status
    BY DEF StartInline, StartQuick, Over
  <2>2. FinishInline(x) => runs'[r].status = runs[r].status
    BY DEF FinishInline, Over
  <2>3. InterruptQuick(x) => runs'[r].status = runs[r].status
    BY DEF InterruptQuick, Over
  <2>4. CancelRun(x) => runs'[r].status = runs[r].status
    BY DEF CancelRun, Over
  <2> QED BY <1>8, <2>1, <2>2, <2>3, <2>4
<1>9. ASSUME UNCHANGED runs PROVE Stands(r)
  BY <1>1, <1>9
<1>10. ASSUME NEW c \in Clients, CommitMessage(c) \/ StoreRequest(c) \/ CommitSubmission(c)
       PROVE UNCHANGED runs
  BY <1>10 DEF CommitMessage, StoreRequest, CommitSubmission
<1>11. CASE UpdateSession
  BY <1>9, <1>11 DEF UpdateSession
<1> QED
  BY <1>1, <1>3, <1>4, <1>5, <1>6, <1>7, <1>8, <1>9, <1>10, <1>11, StepKinds,
     ThinkingKeepsRows, ReplayingKeepsRows
  DEF vars, rows, Commits, CommitTurn, Outside, Execute

\* An ended Run is never reopened; it stays cancelled unless a workflow was accepted
\* for it; and one executor that is no workflow rewrites its end only by the late
\* failure of a completed quick response (response_run_lifecycle.py:67,
\* quick_response_worker.py:24 and :111, run_service.py:313).
THEOREM EndHolds == Spec => EndStands
<1>1. Init => Executed
  BY DEF Init, Executed, Recorded, NoQuick, NoFlow
<1>2. IInv /\ Executed /\ [Next]_vars => Executed'
  BY ExecutedStep
<1>3. IInv /\ Executed /\ [Next]_vars => [\A r \in Runs : Stands(r)]_vars
  BY EndStep
<1> QED BY <1>1, <1>2, <1>3, IInvInit, IInvStep, PTL DEF Spec, EndStands, Stands
=============================================================================
