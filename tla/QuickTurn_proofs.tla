-------------------------- MODULE QuickTurn_proofs --------------------------
(***************************************************************************)
(* Proofs about QuickTurn for every number of workers, rounds, deltas and  *)
(* faults.  TypeOK is not inductive: whether a round exists to go on to,   *)
(* and what an event about to be saved is, depends on where each worker    *)
(* stands.  TInv adds just that.  Most steps of a worker write nothing, so *)
(* the lemmas first sort the steps by what they touch.                     *)
(***************************************************************************)
EXTENDS QuickTurn, FiniteSetTheorems, TLAPS

-----------------------------------------------------------------------------
(* The inductive strengthening of TypeOK *)

\* A reply is saved exactly with a completed attempt, and fits its round.
ReplyKnown ==
    \A r \in Rounds :
        /\ attempts[r].status = "completed" => attempts[r].reply # "none"
        /\ attempts[r].reply # "none" =>
                attempts[r].status # "none" /\ attempts[r].reply \in Answers(r)

\* w handles the tool call of its round.
InTool(w) ==
    pc[w] \in {"tool", "perform", "effect", "result", "ask", "suspended"}

\* A round with a tool call is not the last one; an answer has been saved
\* before it is taken; what is about to be published is an event.
Positions ==
    \A w \in Workers :
        /\ InTool(w) => round[w] < MaxRounds
        /\ pc[w] = "answered" => attempts[round[w]].reply # "none"
        /\ pc[w] = "publish" => note[w] \in {"delta", "completed", "failed"}

TInv == TypeOK /\ ReplyKnown /\ Positions

-----------------------------------------------------------------------------
(* What the steps of a worker touch *)

\* Steps that commit nothing.
Quiet(w) ==
    \/ FencedOut(w) \/ Heartbeat(w) \/ WatchRun(w) \/ ResumeRun(w)
    \/ RefuseRun(w) \/ ReuseAttempt(w) \/ RefuseAttempt(w) \/ GiveUp(w)
    \/ Dispatch(w) \/ Stream(w) \/ Proceed(w) \/ StreamEnds(w)
    \/ ReuseTool(w) \/ RefuseTool(w) \/ PerformTool(w) \/ Suspend(w)
    \/ PublishCancelled(w) \/ PublishBreaks(w) \/ Deliver(w)
    \/ FinishCancelled(w) \/ Crash(w) \/ Interrupt(w) \/ FailLate(w)

\* Steps that commit the state of the tool call alone.
SavesTool(w) ==
    \/ RequestTool(w) \/ DenyTool(w) \/ AllowTool(w) \/ SaveResult(w)
    \/ ToolBreaks(w) \/ AskRefused(w)

\* Steps that commit the model attempt alone.
SavesAttempt(w) ==
    \/ StartAttempt(w) \/ RequestNotSaved(w) \/ DispatchCancelled(w)
    \/ Answer(w) \/ ProviderFails(w)

\* The remaining commits of a worker.
Commits(w) ==
    \/ Claim(w) \/ StartRun(w) \/ Ask(w) \/ Publish(w) \/ Cancelled(w)
    \/ FinishInterrupted(w)

\* What is not a worker's step: the user, the clock and the sweep.
Outside ==
    \/ Accept \/ CancelRun \/ LapseUnheld \/ LapseHeld
    \/ \E r \in Rounds : ReplyToAsk(r) \/ ExpireAsk(r)
    \/ UNCHANGED vars

\* Every step is of one of these kinds.
LEMMA StepKinds ==
    ASSUME [Next]_vars
    PROVE \/ Outside
          \/ \E w \in Workers :
                Quiet(w) \/ SavesTool(w) \/ SavesAttempt(w) \/ Commits(w)
BY DEF Next, Outside, Work, Fault, CloseStream, Quiet, SavesTool, SavesAttempt, Commits

\* A quiet step leaves the database as it is.
LEMMA QuietKeepsRows == ASSUME NEW w \in Workers, Quiet(w)
                        PROVE UNCHANGED durable
BY DEF Quiet, FencedOut, Heartbeat, WatchRun, ResumeRun, RefuseRun,
   ReuseAttempt, RefuseAttempt, GiveUp, Dispatch, Stream, Proceed, StreamEnds,
   ReuseTool, RefuseTool, PerformTool, Suspend, PublishCancelled,
   PublishBreaks, Deliver, FinishCancelled, Crash, Interrupt, FailLate

\* A step that saves a tool state is fenced and sets that state only.
LEMMA SavesToolOnly ==
    ASSUME NEW w \in Workers, SavesTool(w)
    PROVE /\ \E status \in ToolStatus \ {"none"} : SaveTool(w, status)
          /\ InTool(w)
BY DEF SavesTool, RequestTool, DenyTool, AllowTool, SaveResult, ToolBreaks,
   AskRefused, ToolStatus, InTool

\* A step outside the workers leaves their locals alone.
LEMMA OutsideKeepsLocals == ASSUME Outside PROVE UNCHANGED local
BY DEF Outside, Accept, CancelRun, LapseUnheld, LapseHeld, ReplyToAsk,
   ExpireAsk, SettleAsk, vars

-----------------------------------------------------------------------------
(* The rows keep their types *)

\* Saving a model attempt, whatever becomes of it.
LEMMA AttemptRows == ASSUME TInv, NEW w \in Workers, SavesAttempt(w)
                     PROVE RowsOK'
<1>1. UNCHANGED <<run, exec, tools, asks, events, replies>>
  BY DEF SavesAttempt, StartAttempt, RequestNotSaved, DispatchCancelled,
     Answer, ProviderFails
<1>2. attempts' \in [Rounds -> [status : AttemptStatus, reply : Reply]]
  <2> USE DEF TInv, TypeOK, RowsOK, AttemptStatus
  <2>1. CASE StartAttempt(w)
    BY <2>1 DEF StartAttempt, NoAttempt, Reply
  <2>2. CASE RequestNotSaved(w)
    BY <2>2 DEF RequestNotSaved
  <2>3. CASE DispatchCancelled(w)
    BY <2>3 DEF DispatchCancelled
  <2>4. CASE Answer(w)
    <3>1. PICK reply \in Answers(round[w]) :
            attempts' = [attempts EXCEPT
                ![round[w]] = [status |-> "completed", reply |-> reply]]
      BY <2>4 DEF Answer
    <3>2. reply \in Reply
      BY DEF Answers, Reply
    <3> QED BY <3>1, <3>2
  <2>5. CASE ProviderFails(w)
    BY <2>5 DEF ProviderFails, LocalsOK
  <2> QED BY <2>1, <2>2, <2>3, <2>4, <2>5 DEF SavesAttempt
<1> QED BY <1>1, <1>2 DEF TInv, TypeOK, RowsOK

\* The body of the event loop saves well-formed rows.
LEMMA PublishRows == ASSUME TInv, NEW w \in Workers, Publish(w) PROVE RowsOK'
<1>1. note[w] \in {"delta", "completed", "failed"}
  BY DEF TInv, Positions, Publish
<1>2. events' \in [Slots -> EventKind]
  BY <1>1 DEF TInv, TypeOK, RowsOK, Publish, EventKind
<1>3. /\ run' \in RunStatus
      /\ exec' \in [status : ExecStatus, owner : Workers \cup {NoWorker},
                    version : Nat, lease : Lease]
      /\ replies' \in Nat
  BY <1>1 DEF TInv, TypeOK, RowsOK, Publish, RunStatus, ExecStatus
<1> QED BY <1>2, <1>3 DEF TInv, TypeOK, RowsOK, Publish

\* What a late cancellation leaves of an attempt is a status.
LEMMA AfterCancelType == ASSUME TypeOK, NEW w \in Workers
                         PROVE AfterCancel(w) \subseteq AttemptStatus
BY DEF TypeOK, RowsOK, LocalsOK, AfterCancel, AttemptStatus

LEMMA CancelledRows == ASSUME TInv, NEW w \in Workers, Cancelled(w)
                       PROVE RowsOK'
<1>1. attempts' \in [Rounds -> [status : AttemptStatus, reply : Reply]]
  BY AfterCancelType DEF TInv, TypeOK, RowsOK, LocalsOK, Cancelled
<1>2. tools' \in [Rounds -> ToolStatus]
  BY DEF TInv, TypeOK, RowsOK, LocalsOK, Cancelled, ToolStatus
<1> QED BY <1>1, <1>2 DEF TInv, TypeOK, RowsOK, Cancelled

\* Every step of a worker saves well-formed rows.
LEMMA WorkerRows ==
    ASSUME TInv, NEW w \in Workers,
           Quiet(w) \/ SavesTool(w) \/ SavesAttempt(w) \/ Commits(w)
    PROVE RowsOK'
<1> USE DEF TInv, TypeOK, RowsOK
<1>1. CASE Quiet(w)
  BY <1>1, QuietKeepsRows DEF durable
<1>2. CASE SavesTool(w)
  BY <1>2, SavesToolOnly DEF SaveTool
<1>3. CASE SavesAttempt(w)
  BY <1>3, AttemptRows
<1>4. CASE Claim(w)
  BY <1>4 DEF Claim, ExecStatus, Lease
<1>5. CASE StartRun(w)
  BY <1>5 DEF StartRun, RunStatus
<1>6. CASE Ask(w)
  BY <1>6 DEF Ask, ExecStatus, ToolStatus, AskStatus
<1>7. CASE Publish(w)
  BY <1>7, PublishRows
<1>8. CASE Cancelled(w)
  BY <1>8, CancelledRows
<1>9. CASE FinishInterrupted(w)
  BY <1>9 DEF FinishInterrupted, EndStatus, RunAfter, RunStatus, ExecStatus
<1> QED BY <1>1, <1>2, <1>3, <1>4, <1>5, <1>6, <1>7, <1>8, <1>9 DEF Commits

\* So does every step outside the workers.
LEMMA OutsideRows == ASSUME TInv, Outside PROVE RowsOK'
<1> USE DEF TInv, TypeOK, RowsOK
<1>1. CASE Accept
  BY <1>1 DEF Accept, ExecStatus
<1>2. CASE CancelRun
  BY <1>2 DEF CancelRun, CancelAsks, RunStatus, ExecStatus, ToolStatus,
     AskStatus
<1>3. CASE LapseUnheld \/ LapseHeld
  BY <1>3 DEF LapseUnheld, LapseHeld, Lease
<1>4. ASSUME NEW r \in Rounds, NEW status \in {"resolved", "expired"},
             SettleAsk(r, status)
      PROVE RowsOK'
  BY <1>4 DEF SettleAsk, ResumedExec, ExecStatus, Lease, ToolStatus, AskStatus
<1>5. ASSUME NEW r \in Rounds, ExpireAsk(r) PROVE RowsOK'
  <2>1. CASE SettleAsk(r, "expired")
    BY <2>1, <1>4
  <2>2. CASE ~SettleAsk(r, "expired")
    BY <2>2, <1>5 DEF ExpireAsk, CancelAsks, ExecStatus, ToolStatus, AskStatus
  <2> QED BY <2>1, <2>2
<1>6. CASE UNCHANGED vars
  BY <1>6 DEF vars, durable
<1> QED BY <1>1, <1>2, <1>3, <1>4, <1>5, <1>6 DEF Outside, ReplyToAsk

-----------------------------------------------------------------------------
(* The locals and the histories keep their types *)

\* Steps that only deliver or record a request to cancel w's job.
Signal(w) == Heartbeat(w) \/ WatchRun(w) \/ Interrupt(w)

\* How a step of w changes w's locals.
LocalMove(w) ==
    \/ Retire(w)
    \/ \E l \in Control : Goto(w, l)
    \/ \E l \in Control, n \in Note : Carry(w, l, n)
    \/ InTool(w) /\ NextRound(w)
    \/ Signal(w)
    \/ Claim(w) \/ Publish(w) \/ Cancelled(w)

\* Every step of w makes one of those moves.
LEMMA LocalMoves ==
    ASSUME NEW w \in Workers,
           Quiet(w) \/ SavesTool(w) \/ SavesAttempt(w) \/ Commits(w)
    PROVE LocalMove(w)
<1> USE DEF LocalMove
<1>1. CASE FencedOut(w) \/ Suspend(w) \/ Deliver(w) \/ FinishInterrupted(w)
            \/ FinishCancelled(w) \/ Crash(w)
  BY <1>1 DEF FencedOut, Suspend, Deliver, FinishInterrupted,
     FinishCancelled, Crash
<1>2. CASE StartRun(w) \/ ResumeRun(w) \/ StartAttempt(w) \/ Dispatch(w)
            \/ Answer(w) \/ RequestTool(w) \/ AllowTool(w) \/ PerformTool(w)
            \/ Ask(w)
  <2>1. \E l \in Control : Goto(w, l)
    BY <1>2 DEF StartRun, ResumeRun, StartAttempt, Dispatch, Answer,
       RequestTool, AllowTool, PerformTool, Ask, Control
  <2> QED BY <2>1
<1>3. CASE RefuseRun(w) \/ RefuseAttempt(w) \/ DispatchCancelled(w)
            \/ Stream(w) \/ ProviderFails(w) \/ StreamEnds(w) \/ RefuseTool(w)
            \/ ToolBreaks(w) \/ PublishCancelled(w) \/ PublishBreaks(w)
            \/ FailLate(w) \/ GiveUp(w) \/ RequestNotSaved(w)
  <2>1. \E l \in Control, n \in Note : Carry(w, l, n)
    BY <1>3 DEF RefuseRun, RefuseAttempt, DispatchCancelled, Stream,
       ProviderFails, StreamEnds, RefuseTool, ToolBreaks, PublishCancelled,
       PublishBreaks, FailLate, GiveUp, RequestNotSaved, Raise, Control, Note
  <2> QED BY <2>1
<1>4. CASE ReuseAttempt(w) \/ Proceed(w)
  <2>1. \/ \E l \in Control : Goto(w, l)
        \/ \E l \in Control, n \in Note : Carry(w, l, n)
    BY <1>4 DEF ReuseAttempt, Proceed, TakeResponse, Control, Note
  <2> QED BY <2>1
<1>5. CASE ReuseTool(w) \/ DenyTool(w) \/ SaveResult(w) \/ AskRefused(w)
  BY <1>5 DEF ReuseTool, DenyTool, SaveResult, AskRefused, InTool
<1>6. CASE Signal(w) \/ Claim(w) \/ Publish(w) \/ Cancelled(w)
  BY <1>6
<1> QED
  BY <1>1, <1>2, <1>3, <1>4, <1>5, <1>6
  DEF Quiet, SavesTool, SavesAttempt, Commits, Signal

\* A step of w keeps the types of the locals.
LEMMA WorkerLocals == ASSUME TInv, NEW w \in Workers, LocalMove(w)
                      PROVE LocalsOK'
<1> USE DEF TInv, TypeOK, LocalsOK
<1>1. CASE Retire(w)
  BY <1>1, QuickTurnAssumption DEF Retire, Control, Note, MaxEvents, Rounds
<1>2. CASE \E l \in Control : Goto(w, l)
  BY <1>2 DEF Goto
<1>3. CASE \E l \in Control, n \in Note : Carry(w, l, n)
  BY <1>3 DEF Carry
<1>4. CASE InTool(w) /\ NextRound(w)
  <2>1. round[w] + 1 \in Rounds
    BY <1>4, QuickTurnAssumption DEF Positions, Rounds
  <2> QED BY <1>4, <2>1 DEF NextRound, Control
<1>5. CASE Signal(w)
  BY <1>5 DEF Signal, Heartbeat, WatchRun, Interrupt
<1>6. CASE Claim(w)
  BY <1>6 DEF RowsOK, Claim, Control
<1>7. CASE Publish(w)
  <2>1. seq' \in [Workers -> 0..MaxEvents]
    BY <1>7, QuickTurnAssumption DEF Publish, MaxEvents
  <2> QED BY <1>7, <2>1 DEF Publish, Control
<1>8. CASE Cancelled(w)
  BY <1>8 DEF Cancelled, Control, Note
<1> QED BY <1>1, <1>2, <1>3, <1>4, <1>5, <1>6, <1>7, <1>8 DEF LocalMove

\* A step of w leaves the locals of the other workers alone.
LEMMA OthersKeepLocals ==
    ASSUME TypeOK, NEW w \in Workers, LocalMove(w),
           NEW v \in Workers, v # w
    PROVE /\ pc'[v] = pc[v]
          /\ claim'[v] = claim[v]
          /\ seq'[v] = seq[v]
          /\ round'[v] = round[v]
          /\ note'[v] = note[v]
<1> USE DEF TypeOK, LocalsOK
<1>1. CASE Retire(w)
  BY <1>1 DEF Retire
<1>2. CASE \E l \in Control : Goto(w, l)
  BY <1>2 DEF Goto
<1>3. CASE \E l \in Control, n \in Note : Carry(w, l, n)
  BY <1>3 DEF Carry
<1>4. CASE NextRound(w)
  BY <1>4 DEF NextRound
<1>5. CASE Signal(w)
  BY <1>5 DEF Signal, Heartbeat, WatchRun, Interrupt
<1>6. CASE Claim(w)
  BY <1>6 DEF Claim
<1>7. CASE Publish(w)
  BY <1>7 DEF Publish
<1>8. CASE Cancelled(w)
  BY <1>8 DEF Cancelled
<1> QED BY <1>1, <1>2, <1>3, <1>4, <1>5, <1>6, <1>7, <1>8 DEF LocalMove

\* Provider calls, operations and faults are counted by the steps that make
\* them, and the faults stay within their bound.
LEMMA WorkerHistory ==
    ASSUME TInv, NEW w \in Workers,
           Quiet(w) \/ SavesTool(w) \/ SavesAttempt(w) \/ Commits(w)
    PROVE HistoryOK'
<1> USE QuickTurnAssumption DEF TInv, TypeOK, HistoryOK
<1>1. CASE Dispatch(w)
  BY <1>1 DEF Dispatch, LocalsOK
<1>2. CASE PerformTool(w)
  BY <1>2 DEF PerformTool, LocalsOK
<1>3. CASE Crash(w) \/ Interrupt(w) \/ RequestNotSaved(w) \/ FailLate(w)
  BY <1>3 DEF Crash, Interrupt, RequestNotSaved, FailLate
<1>4. CASE PublishBreaks(w)
  BY <1>4 DEF PublishBreaks
<1>5. CASE UNCHANGED history
  BY <1>5 DEF history
<1>6. CASE SavesTool(w)
  BY <1>6, SavesToolOnly DEF SaveTool, history
<1>7. CASE ~ (\/ Dispatch(w) \/ PerformTool(w) \/ Crash(w) \/ Interrupt(w)
              \/ RequestNotSaved(w) \/ FailLate(w) \/ PublishBreaks(w)
              \/ SavesTool(w))
  <2>1. UNCHANGED history
    BY <1>7 DEF Quiet, SavesAttempt, Commits, FencedOut, Heartbeat, WatchRun,
       ResumeRun, RefuseRun, ReuseAttempt, RefuseAttempt, GiveUp, Stream,
       Proceed, StreamEnds, ReuseTool, RefuseTool, Suspend, PublishCancelled,
       Deliver, FinishCancelled, StartAttempt, DispatchCancelled, Answer,
       ProviderFails, Claim, StartRun, Ask, Publish, Cancelled,
       FinishInterrupted
  <2> QED BY <2>1, <1>5
<1> QED BY <1>1, <1>2, <1>3, <1>4, <1>6, <1>7

LEMMA OutsideHistory == ASSUME TInv, Outside PROVE HistoryOK'
<1> USE QuickTurnAssumption DEF TInv, TypeOK, HistoryOK
<1>1. CASE LapseHeld
  BY <1>1 DEF LapseHeld
<1>2. CASE ~LapseHeld
  BY <1>2 DEF Outside, Accept, CancelRun, LapseUnheld, ReplyToAsk, ExpireAsk,
     SettleAsk, vars, history
<1> QED BY <1>1, <1>2

-----------------------------------------------------------------------------
(* What has been answered, and where the workers stand *)

\* A late cancellation neither forgets an attempt nor completes one.
LEMMA AfterCancelKeeps ==
    ASSUME TypeOK, NEW w \in Workers, NEW status \in AfterCancel(w)
    PROVE /\ status = "none" <=> attempts[round[w]].status = "none"
          /\ status = "completed" => attempts[round[w]].status = "completed"
BY DEF TypeOK, RowsOK, LocalsOK, AfterCancel

\* Saving an attempt keeps the replies in step with the completions, and
\* takes no reply back.
LEMMA AttemptReplies ==
    ASSUME TInv, NEW w \in Workers, SavesAttempt(w) \/ Cancelled(w)
    PROVE /\ ReplyKnown'
          /\ \A r \in Rounds : attempts[r].reply # "none"
                                => attempts'[r].reply # "none"
<1> USE DEF TInv, TypeOK, RowsOK, LocalsOK, ReplyKnown
<1>1. CASE StartAttempt(w)
  BY <1>1 DEF StartAttempt, MayDispatch, NoAttempt, Answers
<1>2. CASE RequestNotSaved(w)
  BY <1>2 DEF RequestNotSaved, Answers
<1>3. CASE DispatchCancelled(w)
  BY <1>3 DEF DispatchCancelled, Answers
<1>4. CASE Answer(w)
  <2>1. PICK reply \in Answers(round[w]) :
          attempts' = [attempts EXCEPT
              ![round[w]] = [status |-> "completed", reply |-> reply]]
    BY <1>4 DEF Answer
  <2>2. reply # "none"
    BY DEF Answers
  <2> QED BY <2>1, <2>2 DEF Answers
<1>5. CASE ProviderFails(w)
  BY <1>5 DEF ProviderFails, Answers
<1>6. CASE Cancelled(w)
  <2>1. CASE UNCHANGED attempts
    BY <2>1 DEF Answers
  <2>2. CASE ~UNCHANGED attempts
    <3>1. PICK status \in AfterCancel(w) :
            attempts' = [attempts EXCEPT ![round[w]].status = status]
      BY <1>6, <2>2 DEF Cancelled
    <3>2. /\ status = "none" <=> attempts[round[w]].status = "none"
          /\ status = "completed" => attempts[round[w]].status = "completed"
      BY AfterCancelKeeps
    <3> QED BY <3>1, <3>2 DEF Answers
  <2> QED BY <2>1, <2>2
<1> QED BY <1>1, <1>2, <1>3, <1>4, <1>5, <1>6 DEF SavesAttempt

\* The other steps leave the attempts alone.
LEMMA OtherAttempts ==
    ASSUME NEW w \in Workers,
           Quiet(w) \/ SavesTool(w) \/ (Commits(w) /\ ~Cancelled(w))
    PROVE UNCHANGED attempts
<1>1. CASE Quiet(w)
  BY <1>1, QuietKeepsRows DEF durable
<1>2. CASE SavesTool(w)
  BY <1>2, SavesToolOnly DEF SaveTool
<1>3. CASE Commits(w) /\ ~Cancelled(w)
  BY <1>3 DEF Commits, Claim, StartRun, Ask, Publish, FinishInterrupted
<1> QED BY <1>1, <1>2, <1>3

LEMMA WorkerReplies ==
    ASSUME TInv, NEW w \in Workers,
           Quiet(w) \/ SavesTool(w) \/ SavesAttempt(w) \/ Commits(w)
    PROVE /\ ReplyKnown'
          /\ \A r \in Rounds : attempts[r].reply # "none"
                                => attempts'[r].reply # "none"
<1>1. CASE SavesAttempt(w) \/ Cancelled(w)
  BY <1>1, AttemptReplies
<1>2. CASE ~(SavesAttempt(w) \/ Cancelled(w))
  <2>1. UNCHANGED attempts
    BY <1>2, OtherAttempts
  <2> QED BY <2>1 DEF TInv, ReplyKnown, Answers
<1> QED BY <1>1, <1>2

\* Where a step of w leaves w itself.
LEMMA OwnPosition ==
    ASSUME TInv, NEW w \in Workers,
           Quiet(w) \/ SavesTool(w) \/ SavesAttempt(w) \/ Commits(w)
    PROVE /\ InTool(w)' => round'[w] < MaxRounds
          /\ pc'[w] = "answered" => attempts'[round'[w]].reply # "none"
          /\ pc'[w] = "publish" => note'[w] \in {"delta", "completed", "failed"}
<1> USE DEF TInv, TypeOK, LocalsOK, Positions, InTool
<1>1. CASE FencedOut(w) \/ Suspend(w) \/ Deliver(w) \/ FinishInterrupted(w)
            \/ FinishCancelled(w) \/ Crash(w)
  BY <1>1 DEF FencedOut, Suspend, Deliver, FinishInterrupted,
     FinishCancelled, Crash, Retire
<1>2. CASE StartRun(w) \/ ResumeRun(w) \/ StartAttempt(w) \/ Dispatch(w)
  BY <1>2 DEF StartRun, ResumeRun, StartAttempt, Dispatch, Goto
<1>3. CASE Answer(w)
  BY <1>3 DEF RowsOK, Answer, Goto, Answers
<1>4. CASE RequestTool(w) \/ AllowTool(w) \/ PerformTool(w) \/ Ask(w)
  BY <1>4 DEF RequestTool, AllowTool, PerformTool, Ask, Goto
<1>5. CASE RefuseRun(w) \/ RefuseAttempt(w) \/ DispatchCancelled(w)
            \/ Stream(w) \/ ProviderFails(w) \/ RefuseTool(w)
            \/ ToolBreaks(w) \/ PublishCancelled(w) \/ PublishBreaks(w)
            \/ FailLate(w)
  BY <1>5 DEF RefuseRun, RefuseAttempt, DispatchCancelled, Stream,
     ProviderFails, RefuseTool, ToolBreaks, PublishCancelled, PublishBreaks,
     FailLate, Carry
<1>6. CASE StreamEnds(w) \/ GiveUp(w) \/ RequestNotSaved(w)
  BY <1>6 DEF StreamEnds, GiveUp, RequestNotSaved, Raise, Carry
<1>7. CASE ReuseAttempt(w) \/ Proceed(w)
  <2>1. attempts[round[w]].reply # "none"
    BY <1>7 DEF ReplyKnown, ReuseAttempt, Proceed
  <2>2. attempts[round[w]].reply # "text" => round[w] < MaxRounds
    BY <2>1 DEF ReplyKnown, Answers
  <2> QED BY <1>7, <2>2 DEF ReuseAttempt, Proceed, TakeResponse, Goto, Carry
<1>8. CASE ReuseTool(w) \/ DenyTool(w) \/ SaveResult(w) \/ AskRefused(w)
  BY <1>8 DEF ReuseTool, DenyTool, SaveResult, AskRefused, NextRound
<1>9. CASE Signal(w)
  BY <1>9 DEF Signal, Heartbeat, WatchRun, Interrupt, durable
<1>10. CASE Claim(w)
  BY <1>10 DEF Claim
<1>11. CASE Publish(w)
  BY <1>11 DEF Publish
<1>12. CASE Cancelled(w)
  BY <1>12 DEF Cancelled
<1> QED
  BY <1>1, <1>2, <1>3, <1>4, <1>5, <1>6, <1>7, <1>8, <1>9, <1>10, <1>11, <1>12
  DEF Quiet, SavesTool, SavesAttempt, Commits, Signal

-----------------------------------------------------------------------------
(* Type correctness *)

LEMMA TInvInit == Init => TInv
BY QuickTurnAssumption
DEF Init, TInv, TypeOK, RowsOK, LocalsOK, HistoryOK, ReplyKnown, Positions,
   InTool, RunStatus, ExecStatus, AttemptStatus, ToolStatus, AskStatus,
   EventKind, Reply, Lease, Control, Note, Rounds, Slots, MaxEvents, NoAttempt

LEMMA TInvStep == TInv /\ [Next]_vars => TInv'
<1> SUFFICES ASSUME TInv, [Next]_vars PROVE TInv'
  OBVIOUS
<1>1. CASE Outside
  <2>1. RowsOK' /\ HistoryOK'
    BY <1>1, OutsideRows, OutsideHistory
  <2>2. UNCHANGED <<local, attempts>>
    BY <1>1, OutsideKeepsLocals
    DEF Outside, Accept, CancelRun, LapseUnheld, LapseHeld, ReplyToAsk,
       ExpireAsk, SettleAsk, vars, durable
  <2>3. LocalsOK' /\ ReplyKnown' /\ Positions'
    BY <2>2
    DEF TInv, TypeOK, LocalsOK, ReplyKnown, Positions, InTool, Answers, local
  <2> QED BY <2>1, <2>3 DEF TInv, TypeOK
<1>2. ASSUME NEW w \in Workers,
             Quiet(w) \/ SavesTool(w) \/ SavesAttempt(w) \/ Commits(w)
      PROVE TInv'
  <2>1. LocalMove(w)
    BY <1>2, LocalMoves
  <2>2. RowsOK' /\ LocalsOK' /\ HistoryOK' /\ ReplyKnown'
    BY <1>2, <2>1, WorkerRows, WorkerLocals, WorkerHistory, WorkerReplies
  <2>3. Positions'
    <3> SUFFICES ASSUME NEW v \in Workers
                 PROVE /\ InTool(v)' => round'[v] < MaxRounds
                       /\ pc'[v] = "answered" =>
                            attempts'[round'[v]].reply # "none"
                       /\ pc'[v] = "publish" =>
                            note'[v] \in {"delta", "completed", "failed"}
      BY DEF Positions
    <3>1. CASE v = w
      BY <1>2, <3>1, OwnPosition
    <3>2. CASE v # w
      <4>1. pc'[v] = pc[v] /\ round'[v] = round[v] /\ note'[v] = note[v]
        BY <2>1, <3>2, OthersKeepLocals DEF TInv
      <4>2. round[v] \in Rounds
        BY DEF TInv, TypeOK, LocalsOK
      <4> QED BY <1>2, <4>1, <4>2, WorkerReplies DEF TInv, Positions, InTool
    <3> QED BY <3>1, <3>2
  <2> QED BY <2>2, <2>3 DEF TInv, TypeOK
<1> QED BY <1>1, <1>2, StepKinds

\* The rows, the workers' locals and the histories stay well formed through
\* every claim, answer, takeover, crash and cancellation of a quick reply
\* (quick_response_worker.py, quick_response_ownership.py).
THEOREM TypeCorrect == Spec => []TypeOK
<1>1. TInv => TypeOK
  BY DEF TInv
<1> QED BY <1>1, TInvInit, TInvStep, PTL DEF Spec

-----------------------------------------------------------------------------
(* At most one provider call and one operation per round *)

\* A round never attempted has not been sent.
CallsOnce ==
    \A r \in Rounds :
        calls[r] <= 1 /\ (attempts[r].status = "none" => calls[r] = 0)

\* A worker about to send a round is the only one, and nobody sent it before.
DispatchAlone ==
    \A w \in Workers : pc[w] = "dispatch" =>
        /\ attempts[round[w]].status # "none"
        /\ calls[round[w]] = 0
        /\ \A v \in Workers : pc[v] = "dispatch" /\ round[v] = round[w] => v = w

\* w has entered the tool call of its round and not performed it yet.
Handling(w) == pc[w] \in {"perform", "effect"}

\* The same of tool operations, whose call is saved before it is handled.
EffectsOnce ==
    \A r \in Rounds : effects[r] <= 1 /\ (tools[r] = "none" => effects[r] = 0)

PerformAlone ==
    \A w \in Workers : Handling(w) =>
        /\ tools[round[w]] # "none"
        /\ effects[round[w]] = 0
        /\ \A v \in Workers : Handling(v) /\ round[v] = round[w] => v = w

OnceInv == CallsOnce /\ DispatchAlone /\ EffectsOnce /\ PerformAlone

\* No step makes a saved attempt or tool call unsaved.
LEMMA NothingForgotten ==
    ASSUME TInv, [Next]_vars, NEW r \in Rounds
    PROVE /\ attempts'[r].status = "none" => attempts[r].status = "none"
          /\ tools'[r] = "none" => tools[r] = "none"
<1> USE DEF TInv, TypeOK, RowsOK, LocalsOK
<1>1. CASE Outside
  BY <1>1
  DEF Outside, Accept, CancelRun, CancelAsks, LapseUnheld, LapseHeld,
     ReplyToAsk, ExpireAsk, SettleAsk, vars, durable
<1>2. ASSUME NEW w \in Workers, SavesAttempt(w)
      PROVE /\ attempts'[r].status = "none" => attempts[r].status = "none"
            /\ tools'[r] = "none" => tools[r] = "none"
  <2>1. CASE StartAttempt(w)
    BY <2>1 DEF StartAttempt, NoAttempt
  <2>2. CASE RequestNotSaved(w)
    BY <2>2 DEF RequestNotSaved
  <2>3. CASE DispatchCancelled(w)
    BY <2>3 DEF DispatchCancelled
  <2>4. CASE Answer(w)
    BY <2>4 DEF Answer
  <2>5. CASE ProviderFails(w)
    BY <2>5 DEF ProviderFails
  <2> QED BY <1>2, <2>1, <2>2, <2>3, <2>4, <2>5 DEF SavesAttempt
<1>3. ASSUME NEW w \in Workers, SavesTool(w)
      PROVE /\ attempts'[r].status = "none" => attempts[r].status = "none"
            /\ tools'[r] = "none" => tools[r] = "none"
  BY <1>3, SavesToolOnly DEF SaveTool
<1>4. ASSUME NEW w \in Workers, Cancelled(w)
      PROVE /\ attempts'[r].status = "none" => attempts[r].status = "none"
            /\ tools'[r] = "none" => tools[r] = "none"
  BY <1>4, AfterCancelKeeps DEF Cancelled
<1>5. ASSUME NEW w \in Workers, Commits(w), ~Cancelled(w)
      PROVE /\ attempts'[r].status = "none" => attempts[r].status = "none"
            /\ tools'[r] = "none" => tools[r] = "none"
  BY <1>5 DEF Commits, Claim, StartRun, Ask, Publish, FinishInterrupted
<1>6. ASSUME NEW w \in Workers, Quiet(w)
      PROVE /\ attempts'[r].status = "none" => attempts[r].status = "none"
            /\ tools'[r] = "none" => tools[r] = "none"
  BY <1>6, QuietKeepsRows DEF durable
<1> QED BY <1>1, <1>2, <1>3, <1>4, <1>5, <1>6, StepKinds

\* Only Dispatch calls the provider and only PerformTool performs a tool.
LEMMA OnlyDispatchCalls ==
    ASSUME [Next]_vars, ~ \E w \in Workers : Dispatch(w)
    PROVE UNCHANGED calls
<1>1. CASE Outside
  BY <1>1
  DEF Outside, Accept, CancelRun, LapseUnheld, LapseHeld, ReplyToAsk,
     ExpireAsk, SettleAsk, vars, history
<1>2. ASSUME NEW w \in Workers, SavesTool(w) PROVE UNCHANGED calls
  BY <1>2, SavesToolOnly DEF SaveTool, history
<1>3. ASSUME NEW w \in Workers, SavesAttempt(w) \/ Commits(w)
      PROVE UNCHANGED calls
  BY <1>3
  DEF SavesAttempt, Commits, StartAttempt, RequestNotSaved, DispatchCancelled,
     Answer, ProviderFails, Claim, StartRun, Ask, Publish, Cancelled,
     FinishInterrupted, history
<1>4. ASSUME NEW w \in Workers, Quiet(w) PROVE UNCHANGED calls
  BY <1>4
  DEF Quiet, FencedOut, Heartbeat, WatchRun, ResumeRun, RefuseRun,
     ReuseAttempt, RefuseAttempt, GiveUp, Stream, Proceed, StreamEnds,
     ReuseTool, RefuseTool, PerformTool, Suspend, PublishCancelled,
     PublishBreaks, Deliver, FinishCancelled, Crash, Interrupt, FailLate,
     history
<1> QED BY <1>1, <1>2, <1>3, <1>4, StepKinds

LEMMA OnlyPerformToolPerforms ==
    ASSUME [Next]_vars, ~ \E w \in Workers : PerformTool(w)
    PROVE UNCHANGED effects
<1>1. CASE Outside
  BY <1>1
  DEF Outside, Accept, CancelRun, LapseUnheld, LapseHeld, ReplyToAsk,
     ExpireAsk, SettleAsk, vars, history
<1>2. ASSUME NEW w \in Workers, SavesTool(w) PROVE UNCHANGED effects
  BY <1>2, SavesToolOnly DEF SaveTool, history
<1>3. ASSUME NEW w \in Workers, SavesAttempt(w) \/ Commits(w)
      PROVE UNCHANGED effects
  BY <1>3
  DEF SavesAttempt, Commits, StartAttempt, RequestNotSaved, DispatchCancelled,
     Answer, ProviderFails, Claim, StartRun, Ask, Publish, Cancelled,
     FinishInterrupted, history
<1>4. ASSUME NEW w \in Workers, Quiet(w) PROVE UNCHANGED effects
  BY <1>4
  DEF Quiet, FencedOut, Heartbeat, WatchRun, ResumeRun, RefuseRun,
     ReuseAttempt, RefuseAttempt, GiveUp, Dispatch, Stream, Proceed,
     StreamEnds, ReuseTool, RefuseTool, Suspend, PublishCancelled,
     PublishBreaks, Deliver, FinishCancelled, Crash, Interrupt, FailLate,
     history
<1> QED BY <1>1, <1>2, <1>3, <1>4, StepKinds

\* A worker reaches "dispatch" only by saving the attempt of a fresh round, and
\* the handling of a tool only by saving the call of one.
LEMMA WayToDispatch ==
    ASSUME TInv, [Next]_vars, NEW v \in Workers, pc'[v] = "dispatch"
    PROVE \/ StartAttempt(v)
          \/ pc[v] = "dispatch" /\ round'[v] = round[v]
<1> USE DEF TInv, TypeOK, LocalsOK
<1>1. CASE Outside
  BY <1>1, OutsideKeepsLocals DEF local
<1>2. ASSUME NEW w \in Workers,
             Quiet(w) \/ SavesTool(w) \/ SavesAttempt(w) \/ Commits(w)
      PROVE \/ StartAttempt(v)
            \/ pc[v] = "dispatch" /\ round'[v] = round[v]
  <2>1. CASE v # w
    BY <1>2, <2>1, LocalMoves, OthersKeepLocals
  <2>2. CASE v = w
    <3>1. CASE Quiet(w)
      BY <2>2, <3>1
      DEF Quiet, FencedOut, Heartbeat, WatchRun, ResumeRun, RefuseRun,
         ReuseAttempt, RefuseAttempt, GiveUp, Dispatch, Stream, Proceed,
         StreamEnds, ReuseTool, RefuseTool, PerformTool, Suspend,
         PublishCancelled, PublishBreaks, Deliver, FinishCancelled, Crash,
         Interrupt, FailLate, Retire, Goto, Carry, NextRound, Raise,
         TakeResponse
    <3>2. CASE SavesTool(w)
      BY <2>2, <3>2
      DEF SavesTool, RequestTool, DenyTool, AllowTool, SaveResult, ToolBreaks,
         AskRefused, Goto, Carry, NextRound
    <3>3. CASE SavesAttempt(w) \/ Commits(w)
      BY <2>2, <3>3
      DEF SavesAttempt, Commits, RequestNotSaved, DispatchCancelled, Answer,
         ProviderFails, Claim, StartRun, Ask, Publish, Cancelled,
         FinishInterrupted, Retire, Goto, Carry, Raise
    <3> QED BY <1>2, <3>1, <3>2, <3>3
  <2> QED BY <2>1, <2>2
<1> QED BY <1>1, <1>2, StepKinds

LEMMA WayToHandling ==
    ASSUME TInv, [Next]_vars, NEW v \in Workers, Handling(v)'
    PROVE \/ RequestTool(v)
          \/ Handling(v) /\ round'[v] = round[v]
<1> USE DEF TInv, TypeOK, LocalsOK, Handling
<1>1. CASE Outside
  BY <1>1, OutsideKeepsLocals DEF local
<1>2. ASSUME NEW w \in Workers,
             Quiet(w) \/ SavesTool(w) \/ SavesAttempt(w) \/ Commits(w)
      PROVE \/ RequestTool(v)
            \/ Handling(v) /\ round'[v] = round[v]
  <2>1. CASE v # w
    BY <1>2, <2>1, LocalMoves, OthersKeepLocals
  <2>2. CASE v = w
    <3>1. CASE Quiet(w)
      BY <2>2, <3>1
      DEF Quiet, FencedOut, Heartbeat, WatchRun, ResumeRun, RefuseRun,
         ReuseAttempt, RefuseAttempt, GiveUp, Dispatch, Stream, Proceed,
         StreamEnds, ReuseTool, RefuseTool, PerformTool, Suspend,
         PublishCancelled, PublishBreaks, Deliver, FinishCancelled, Crash,
         Interrupt, FailLate, Retire, Goto, Carry, NextRound, Raise,
         TakeResponse
    <3>2. CASE SavesTool(w)
      BY <2>2, <3>2
      DEF SavesTool, DenyTool, AllowTool, SaveResult, ToolBreaks,
         AskRefused, Goto, Carry, NextRound
    <3>3. CASE SavesAttempt(w) \/ Commits(w)
      BY <2>2, <3>3
      DEF SavesAttempt, Commits, StartAttempt, RequestNotSaved,
         DispatchCancelled, Answer, ProviderFails, Claim, StartRun, Ask,
         Publish, Cancelled, FinishInterrupted, Retire, Goto, Carry, Raise
    <3> QED BY <1>2, <3>1, <3>2, <3>3
  <2> QED BY <2>1, <2>2
<1> QED BY <1>1, <1>2, StepKinds

\* After a step that starts an attempt or sends one, rounds are still sent once.
LEMMA CallsStep == TInv /\ CallsOnce /\ DispatchAlone /\ [Next]_vars
                        => CallsOnce' /\ DispatchAlone'
<1> SUFFICES ASSUME TInv, CallsOnce, DispatchAlone, [Next]_vars
             PROVE CallsOnce' /\ DispatchAlone'
  OBVIOUS
<1> USE DEF TInv, TypeOK, RowsOK, LocalsOK, HistoryOK
<1>1. CallsOnce'
  <2> SUFFICES ASSUME NEW r \in Rounds
               PROVE calls'[r] <= 1
                     /\ (attempts'[r].status = "none" => calls'[r] = 0)
    BY DEF CallsOnce
  <2>1. CASE ~ \E w \in Workers : Dispatch(w)
    BY <2>1, OnlyDispatchCalls, NothingForgotten DEF CallsOnce
  <2>2. ASSUME NEW w \in Workers, Dispatch(w)
        PROVE calls'[r] <= 1
              /\ (attempts'[r].status = "none" => calls'[r] = 0)
    <3>1. attempts[round[w]].status # "none" /\ calls[round[w]] = 0
      BY <2>2 DEF DispatchAlone, Dispatch
    <3>2. UNCHANGED attempts
      BY <2>2 DEF Dispatch, durable
    <3> QED BY <2>2, <3>1, <3>2 DEF CallsOnce, Dispatch
  <2> QED BY <2>1, <2>2
<1>2. DispatchAlone'
  <2> SUFFICES ASSUME NEW v \in Workers, pc'[v] = "dispatch"
               PROVE /\ attempts'[round'[v]].status # "none"
                     /\ calls'[round'[v]] = 0
                     /\ \A u \in Workers :
                           pc'[u] = "dispatch" /\ round'[u] = round'[v] => u = v
    BY DEF DispatchAlone
  <2>1. \A u \in Workers : pc'[u] = "dispatch" =>
            StartAttempt(u) \/ (pc[u] = "dispatch" /\ round'[u] = round[u])
    BY WayToDispatch
  <2>2. ASSUME NEW w \in Workers, StartAttempt(w)
        PROVE /\ attempts'[round'[v]].status # "none"
              /\ calls'[round'[v]] = 0
              /\ \A u \in Workers :
                    pc'[u] = "dispatch" /\ round'[u] = round'[v] => u = v
    <3>1. /\ UNCHANGED <<round, calls>>
          /\ attempts[round[w]].status = "none"
          /\ attempts'[round[w]].status = "started"
          /\ calls[round[w]] = 0
      BY <2>2 DEF StartAttempt, MayDispatch, Goto, history, NoAttempt, CallsOnce
    <3>2. \A u \in Workers \ {w} : pc'[u] = pc[u]
      BY <2>2 DEF StartAttempt, Goto
    <3>3. \A u \in Workers \ {w} : pc'[u] = "dispatch" => round[u] # round[w]
      BY <3>1, <3>2 DEF DispatchAlone
    <3>4. attempts'[round[v]].status # "none" /\ calls[round[v]] = 0
      BY <3>1, <3>2, NothingForgotten DEF DispatchAlone
    <3> QED BY <3>1, <3>2, <3>3, <3>4 DEF DispatchAlone
  <2>3. CASE ~ \E w \in Workers : StartAttempt(w)
    <3>1. /\ pc[v] = "dispatch" /\ round'[v] = round[v]
          /\ \A u \in Workers : pc'[u] = "dispatch" =>
                pc[u] = "dispatch" /\ round'[u] = round[u]
      BY <2>1, <2>3
    <3>2. attempts'[round[v]].status # "none"
      BY <3>1, NothingForgotten DEF DispatchAlone
    <3>3. calls'[round[v]] = 0
      <4>1. CASE UNCHANGED calls
        BY <3>1, <4>1 DEF DispatchAlone
      <4>2. ASSUME NEW w \in Workers, Dispatch(w)
            PROVE calls'[round[v]] = 0
        <5>1. pc'[w] # "dispatch" /\ w # v
          BY <3>1, <4>2 DEF Dispatch, Goto
        <5>2. round[w] # round[v]
          BY <3>1, <4>2, <5>1 DEF DispatchAlone, Dispatch
        <5> QED BY <3>1, <4>2, <5>2 DEF DispatchAlone, Dispatch
      <4> QED BY <4>1, <4>2, OnlyDispatchCalls
    <3> QED BY <3>1, <3>2, <3>3 DEF DispatchAlone
  <2> QED BY <2>2, <2>3
<1> QED BY <1>1, <1>2

\* The same of tool operations.
LEMMA EffectsStep == TInv /\ EffectsOnce /\ PerformAlone /\ [Next]_vars
                        => EffectsOnce' /\ PerformAlone'
<1> SUFFICES ASSUME TInv, EffectsOnce, PerformAlone, [Next]_vars
             PROVE EffectsOnce' /\ PerformAlone'
  OBVIOUS
<1> USE DEF TInv, TypeOK, RowsOK, LocalsOK, HistoryOK
<1>1. EffectsOnce'
  <2> SUFFICES ASSUME NEW r \in Rounds
               PROVE effects'[r] <= 1 /\ (tools'[r] = "none" => effects'[r] = 0)
    BY DEF EffectsOnce
  <2>1. CASE ~ \E w \in Workers : PerformTool(w)
    BY <2>1, OnlyPerformToolPerforms, NothingForgotten DEF EffectsOnce
  <2>2. ASSUME NEW w \in Workers, PerformTool(w)
        PROVE effects'[r] <= 1 /\ (tools'[r] = "none" => effects'[r] = 0)
    <3>1. tools[round[w]] # "none" /\ effects[round[w]] = 0
      BY <2>2 DEF PerformAlone, PerformTool, Handling
    <3>2. UNCHANGED tools
      BY <2>2 DEF PerformTool, durable
    <3> QED BY <2>2, <3>1, <3>2 DEF EffectsOnce, PerformTool
  <2> QED BY <2>1, <2>2
<1>2. PerformAlone'
  <2> SUFFICES ASSUME NEW v \in Workers, Handling(v)'
               PROVE /\ tools'[round'[v]] # "none"
                     /\ effects'[round'[v]] = 0
                     /\ \A u \in Workers :
                           Handling(u)' /\ round'[u] = round'[v] => u = v
    BY DEF PerformAlone
  <2>1. \A u \in Workers : Handling(u)' =>
            RequestTool(u) \/ (Handling(u) /\ round'[u] = round[u])
    BY WayToHandling
  <2>2. ASSUME NEW w \in Workers, RequestTool(w)
        PROVE /\ tools'[round'[v]] # "none"
              /\ effects'[round'[v]] = 0
              /\ \A u \in Workers :
                    Handling(u)' /\ round'[u] = round'[v] => u = v
    <3>1. /\ UNCHANGED <<round, effects>>
          /\ tools[round[w]] = "none"
          /\ tools'[round[w]] = "requested"
          /\ effects[round[w]] = 0
      BY <2>2 DEF RequestTool, SaveTool, Goto, history, EffectsOnce
    <3>2. \A u \in Workers \ {w} : pc'[u] = pc[u]
      BY <2>2 DEF RequestTool, Goto
    <3>3. \A u \in Workers \ {w} : Handling(u)' => round[u] # round[w]
      BY <3>1, <3>2 DEF PerformAlone, Handling
    <3>4. tools'[round[v]] # "none" /\ effects[round[v]] = 0
      BY <3>1, <3>2, NothingForgotten DEF PerformAlone, Handling
    <3> QED BY <3>1, <3>2, <3>3, <3>4 DEF PerformAlone, Handling
  <2>3. CASE ~ \E w \in Workers : RequestTool(w)
    <3>1. /\ Handling(v) /\ round'[v] = round[v]
          /\ \A u \in Workers : Handling(u)' =>
                Handling(u) /\ round'[u] = round[u]
      BY <2>1, <2>3
    <3>2. tools'[round[v]] # "none"
      BY <3>1, NothingForgotten DEF PerformAlone
    <3>3. effects'[round[v]] = 0
      <4>1. CASE UNCHANGED effects
        BY <3>1, <4>1 DEF PerformAlone
      <4>2. ASSUME NEW w \in Workers, PerformTool(w)
            PROVE effects'[round[v]] = 0
        <5>1. ~Handling(w)' /\ w # v
          BY <3>1, <4>2 DEF PerformTool, Goto, Handling
        <5>2. round[w] # round[v]
          BY <3>1, <4>2, <5>1 DEF PerformAlone, PerformTool, Handling
        <5> QED BY <3>1, <4>2, <5>2 DEF PerformAlone, PerformTool
      <4> QED BY <4>1, <4>2, OnlyPerformToolPerforms
    <3> QED BY <3>1, <3>2, <3>3 DEF PerformAlone
  <2> QED BY <2>2, <2>3
<1> QED BY <1>1, <1>2

\* However the workers crash, stall and take over from each other, and although
\* neither the provider nor a tool is called under the fence, no round is sent
\* twice and no operation performed twice: what is about to be called was saved
\* first, by one worker, for a round nothing was saved for
\* (quick_response_recovery.py).
THEOREM CalledOnce == Spec => []AtMostOnce
<1>1. Init => TInv /\ OnceInv
  BY TInvInit
  DEF Init, OnceInv, CallsOnce, DispatchAlone, EffectsOnce, PerformAlone,
     Handling
<1>2. TInv /\ OnceInv /\ [Next]_vars => TInv' /\ OnceInv'
  BY TInvStep, CallsStep, EffectsStep DEF OnceInv
<1>3. OnceInv => AtMostOnce
  BY DEF OnceInv, CallsOnce, EffectsOnce, AtMostOnce
<1> QED BY <1>1, <1>2, <1>3, PTL DEF Spec

-----------------------------------------------------------------------------
(* The event log *)

\* The saved sequences have no gap.
LogPrefix ==
    \A s \in Slots : events[s] # "none" => \A t \in 1..s : events[t] # "none"

\* The owner of the live lease counts from the end of the log.
OwnerAtEnd == \A w \in Workers : pc[w] # "idle" /\ OwnsClaim(w) => IsLast(seq[w])

\* Only the event loop saves events.
LEMMA OnlyPublishSaves ==
    ASSUME [Next]_vars, ~ \E w \in Workers : Publish(w)
    PROVE UNCHANGED events
<1>1. CASE Outside
  BY <1>1
  DEF Outside, Accept, CancelRun, LapseUnheld, LapseHeld, ReplyToAsk,
     ExpireAsk, SettleAsk, vars, durable
<1>2. ASSUME NEW w \in Workers, SavesTool(w) PROVE UNCHANGED events
  BY <1>2, SavesToolOnly DEF SaveTool
<1>3. ASSUME NEW w \in Workers, SavesAttempt(w) \/ Commits(w)
      PROVE UNCHANGED events
  BY <1>3
  DEF SavesAttempt, Commits, StartAttempt, RequestNotSaved, DispatchCancelled,
     Answer, ProviderFails, Claim, StartRun, Ask, Cancelled, FinishInterrupted
<1>4. ASSUME NEW w \in Workers, Quiet(w) PROVE UNCHANGED events
  BY <1>4, QuietKeepsRows DEF durable
<1> QED BY <1>1, <1>2, <1>3, <1>4, StepKinds

\* A worker owns the claim after a step only if it has just claimed the row, or
\* owned it before and counts as before.
LEMMA WayToOwn ==
    ASSUME TInv, [Next]_vars, ~ \E w \in Workers : Publish(w),
           NEW v \in Workers, pc'[v] # "idle", OwnsClaim(v)'
    PROVE \/ Claim(v)
          \/ pc[v] # "idle" /\ OwnsClaim(v) /\ seq'[v] = seq[v]
<1> USE DEF TInv, TypeOK, RowsOK, LocalsOK, OwnsClaim
<1> DEFINE Goal == \/ Claim(v)
                   \/ pc[v] # "idle" /\ OwnsClaim(v) /\ seq'[v] = seq[v]
<1>1. CASE Outside
  <2>1. pc'[v] = pc[v] /\ claim'[v] = claim[v] /\ seq'[v] = seq[v]
    BY <1>1, OutsideKeepsLocals DEF local
  <2>2. exec'.owner = exec.owner /\ exec'.version = exec.version
        /\ exec'.lease = exec.lease
    BY <1>1, QuickTurnAssumption
    DEF Outside, Accept, CancelRun, CancelAsks, LapseUnheld, LapseHeld,
       ReplyToAsk, ExpireAsk, SettleAsk, ResumedExec, vars, durable
  <2> QED BY <2>1, <2>2
<1>2. ASSUME NEW w \in Workers, Claim(w) PROVE Goal
  BY <1>2, QuickTurnAssumption DEF Claim
<1>3. ASSUME NEW w \in Workers, ~Claim(w), ~Publish(w),
             Quiet(w) \/ SavesTool(w) \/ SavesAttempt(w) \/ Commits(w)
      PROVE Goal
  <2>1. exec'.owner = exec.owner /\ exec'.version = exec.version
        /\ exec'.lease = exec.lease
    <3>1. CASE Quiet(w)
      BY <3>1, QuietKeepsRows DEF durable
    <3>2. CASE SavesTool(w)
      BY <3>2, SavesToolOnly DEF SaveTool
    <3>3. CASE SavesAttempt(w)
      BY <3>3
      DEF SavesAttempt, StartAttempt, RequestNotSaved, DispatchCancelled,
         Answer, ProviderFails
    <3>4. CASE Commits(w)
      BY <1>3, <3>4
      DEF Commits, StartRun, Ask, Cancelled, FinishInterrupted
    <3> QED BY <1>3, <3>1, <3>2, <3>3, <3>4
  <2>2. pc[v] # "idle" /\ claim'[v] = claim[v] /\ seq'[v] = seq[v]
    <3>1. LocalMove(w)
      BY <1>3, LocalMoves
    <3>2. CASE v # w
      BY <3>1, <3>2, OthersKeepLocals
    <3>3. CASE v = w
      <4>1. /\ pc'[w] # "idle"
            /\ ~Retire(w)
        BY <3>3 DEF Retire
      <4>2. claim'[w] = claim[w] /\ seq'[w] = seq[w]
        BY <1>3, <3>1, <4>1
        DEF LocalMove, Goto, Carry, NextRound, Signal, Heartbeat, WatchRun,
           Interrupt, Cancelled
      <4>3. pc[w] # "idle"
        BY <1>3, <4>1
        DEF Quiet, SavesTool, SavesAttempt, Commits, FencedOut, Heartbeat,
           WatchRun, ResumeRun, RefuseRun, ReuseAttempt, RefuseAttempt,
           GiveUp, Dispatch, Stream, Proceed, StreamEnds, ReuseTool,
           RefuseTool, PerformTool, Suspend, PublishCancelled, PublishBreaks,
           Deliver, FinishCancelled, Crash, Interrupt, FailLate, RequestTool,
           DenyTool, AllowTool, SaveResult, ToolBreaks, AskRefused,
           StartAttempt, RequestNotSaved, DispatchCancelled, Answer,
           ProviderFails, StartRun, Ask, Cancelled, FinishInterrupted
      <4> QED BY <3>3, <4>2, <4>3
    <3> QED BY <3>2, <3>3
  <2> QED BY <2>1, <2>2
<1> QED BY <1>1, <1>2, <1>3, StepKinds

\* The log grows at its end, and its owner knows where that is.
LEMMA LogStep == TInv /\ LogPrefix /\ OwnerAtEnd /\ [Next]_vars
                    => LogPrefix' /\ OwnerAtEnd'
<1> SUFFICES ASSUME TInv, LogPrefix, OwnerAtEnd, [Next]_vars
             PROVE LogPrefix' /\ OwnerAtEnd'
  OBVIOUS
<1> USE DEF TInv, TypeOK, RowsOK, LocalsOK
<1>1. CASE ~ \E w \in Workers : Publish(w)
  <2>1. UNCHANGED events
    BY <1>1, OnlyPublishSaves
  <2>2. LogPrefix'
    BY <2>1 DEF LogPrefix
  <2>3. ASSUME NEW v \in Workers, pc'[v] # "idle", OwnsClaim(v)'
        PROVE IsLast(seq[v])'
    <3>1. CASE Claim(v)
      <4>1. PICK n \in 0..MaxEvents :
                IsLast(n) /\ seq' = [seq EXCEPT ![v] = n]
        BY <3>1 DEF Claim
      <4> QED BY <2>1, <4>1 DEF IsLast
    <3>2. CASE pc[v] # "idle" /\ OwnsClaim(v) /\ seq'[v] = seq[v]
      BY <2>1, <3>2 DEF OwnerAtEnd, IsLast
    <3> QED BY <1>1, <2>3, <3>1, <3>2, WayToOwn
  <2> QED BY <2>2, <2>3 DEF OwnerAtEnd
<1>2. ASSUME NEW w \in Workers, Publish(w) PROVE LogPrefix' /\ OwnerAtEnd'
  <2>1. /\ OwnsClaim(w) /\ pc[w] = "publish"
        /\ seq[w] \in 0..MaxEvents /\ seq[w] < MaxEvents
        /\ seq'[w] = seq[w] + 1
        /\ events' = [events EXCEPT ![seq[w] + 1] = note[w]]
        /\ note[w] # "none"
    BY <1>2 DEF Publish, Positions
  <2>2. IsLast(seq[w])
    BY <2>1 DEF OwnerAtEnd
  <2>3. seq[w] + 1 \in Slots /\ events'[seq[w] + 1] # "none"
    BY <2>1, QuickTurnAssumption DEF Slots, MaxEvents
  <2>4. LogPrefix'
    BY <2>1, <2>2, <2>3, QuickTurnAssumption
    DEF LogPrefix, IsLast, Slots, MaxEvents
  <2>5. IsLast(seq[w])'
    BY <2>1, <2>2, <2>3, QuickTurnAssumption DEF IsLast, Slots, MaxEvents
  <2>6. exec'.owner = w
    BY <1>2, <2>1 DEF Publish, OwnsClaim
  <2> QED BY <2>4, <2>5, <2>6 DEF OwnerAtEnd, OwnsClaim
<1> QED BY <1>1, <1>2

\* Whoever writes, and after any number of takeovers and resumptions, the saved
\* event sequences have no gap and the counter the live owner keeps in memory
\* is the end of the saved log (quick_response_worker.py:91).
THEOREM LogKept == Spec => []LogInOrder
<1>1. Init => TInv /\ LogPrefix /\ OwnerAtEnd
  BY TInvInit DEF Init, LogPrefix, OwnerAtEnd
<1>2. TInv /\ LogPrefix /\ OwnerAtEnd /\ [Next]_vars
        => TInv' /\ LogPrefix' /\ OwnerAtEnd'
  BY TInvStep, LogStep
<1>3. TInv /\ LogPrefix /\ OwnerAtEnd => LogInOrder
  BY DEF LogPrefix, OwnerAtEnd, OwnsClaim, IsLast, LogInOrder, Superseded,
     TInv, TypeOK, RowsOK, Lease
<1> QED BY <1>1, <1>2, <1>3, PTL DEF Spec

-----------------------------------------------------------------------------
(* The fence, and cancellation *)

\* A step of a worker whose claim is not the row's commits nothing.
LEMMA UnownedWritesNothing ==
    ASSUME TInv, NEW w \in Workers, pc[w] # "idle", ~OwnsClaim(w),
           Quiet(w) \/ SavesTool(w) \/ SavesAttempt(w) \/ Commits(w)
    PROVE UNCHANGED durable
<1>1. CASE Quiet(w)
  BY <1>1, QuietKeepsRows
<1>2. CASE SavesTool(w)
  BY <1>2, SavesToolOnly DEF SaveTool
<1>3. CASE DispatchCancelled(w)
  <2>1. attempts' = attempts
    BY <1>3 DEF DispatchCancelled, TInv, TypeOK, RowsOK, LocalsOK
  <2> QED BY <1>3, <2>1 DEF DispatchCancelled, durable
<1>4. CASE SavesAttempt(w) /\ ~DispatchCancelled(w)
  BY <1>4 DEF SavesAttempt, StartAttempt, RequestNotSaved, Answer,
     ProviderFails
<1>5. CASE Cancelled(w)
  BY <1>5 DEF Cancelled, durable
<1>6. CASE Commits(w) /\ ~Cancelled(w)
  BY <1>6 DEF Commits, Claim, StartRun, Ask, Publish, FinishInterrupted
<1> QED BY <1>1, <1>2, <1>3, <1>4, <1>5, <1>6

\* A worker whose version was superseded or whose lease ran out, wherever in
\* its job it learns of it, writes nothing to the database
\* (conversation_body_session.py:211, verify_response_claim).
THEOREM FenceHolds == Spec => Fenced
<1> DEFINE FencedStep ==
             \A w \in Workers :
                pc[w] # "idle" /\ Superseded(w) /\ Moves(w) => UNCHANGED durable
<1>1. TInv /\ [Next]_vars => FencedStep
  <2> SUFFICES ASSUME TInv, [Next]_vars, NEW w \in Workers,
                      pc[w] # "idle", Superseded(w), Moves(w)
               PROVE UNCHANGED durable
    OBVIOUS
  <2>1. CASE Outside
    BY <2>1, OutsideKeepsLocals DEF local, Moves
  <2>2. ASSUME NEW v \in Workers,
               Quiet(v) \/ SavesTool(v) \/ SavesAttempt(v) \/ Commits(v)
        PROVE UNCHANGED durable
    <3>1. v = w
      BY <2>2, LocalMoves, OthersKeepLocals DEF Moves, TInv
    <3>2. ~OwnsClaim(w)
      BY DEF Superseded, OwnsClaim
    <3> QED BY <2>2, <3>1, <3>2, UnownedWritesNothing
  <2> QED BY <2>1, <2>2, StepKinds
<1>2. TInv /\ [Next]_vars => [FencedStep]_vars
  BY <1>1
<1> QED BY <1>2, TInvInit, TInvStep, PTL DEF Spec, Fenced

\* Cancellation of the Run is final: whatever a provider or a worker still
\* delivers, no event and no message is added and the Run stays cancelled
\* (quick_response_worker.py:109).
THEOREM CancelHolds == Spec => CancelIsFinal
<1> DEFINE CancelStep == run = "cancelled" => UNCHANGED <<run, events, replies>>
<1>1. [Next]_vars => CancelStep
  <2> SUFFICES ASSUME [Next]_vars, run = "cancelled"
               PROVE UNCHANGED <<run, events, replies>>
    OBVIOUS
  <2>1. CASE Outside
    BY <2>1
    DEF Outside, Accept, CancelRun, LapseUnheld, LapseHeld, ReplyToAsk,
       ExpireAsk, SettleAsk, Answerable, vars, durable
  <2>2. ASSUME NEW w \in Workers, Quiet(w)
        PROVE UNCHANGED <<run, events, replies>>
    BY <2>2, QuietKeepsRows DEF durable
  <2>3. ASSUME NEW w \in Workers, SavesTool(w)
        PROVE UNCHANGED <<run, events, replies>>
    BY <2>3, SavesToolOnly DEF SaveTool
  <2>4. ASSUME NEW w \in Workers, SavesAttempt(w) \/ Commits(w)
        PROVE UNCHANGED <<run, events, replies>>
    BY <2>4
    DEF SavesAttempt, Commits, StartAttempt, RequestNotSaved,
       DispatchCancelled, Answer, ProviderFails, Claim, StartRun, Ask, Publish,
       RunTakesEvents, Cancelled, FinishInterrupted, RunAfter
  <2> QED BY <2>1, <2>2, <2>3, <2>4, StepKinds
<1>2. [Next]_vars => [CancelStep]_vars
  BY <1>1
<1> QED BY <1>2, PTL DEF Spec, CancelIsFinal

-----------------------------------------------------------------------------
(* The turn implements ReplyPromise *)

\* w is in the middle of a turn.
InTurn(w) == InTool(w) \/ pc[w] \in {"round", "dispatch", "provider", "answered", "publish"}

\* Whoever is in the middle of a turn under a valid claim has a Run that has not ended
\* on its own.
OpenTurn ==
    \A w \in Workers :
        InTurn(w) /\ pc[w] # "suspended" /\ OwnsClaim(w) => run \in {"running", "cancelled"}

\* A worker gets into a turn through its start only; a plain call's late failure is the
\* exception (FailLate).
LEMMA WayIntoTurn ==
    ASSUME ToolLoop, TInv, [Next]_vars, NEW v \in Workers,
           InTurn(v)', pc'[v] # "suspended", OwnsClaim(v)'
    PROVE \/ StartRun(v) \/ ResumeRun(v)
          \/ InTurn(v) /\ pc[v] # "suspended" /\ OwnsClaim(v)
<1> USE DEF TInv, TypeOK, RowsOK, LocalsOK
<1> DEFINE Goal == \/ StartRun(v) \/ ResumeRun(v)
                   \/ InTurn(v) /\ pc[v] # "suspended"
<1>1. Goal
  <2>1. CASE Outside
    BY <2>1, OutsideKeepsLocals DEF local, InTurn, InTool
  <2>2. ASSUME NEW w \in Workers, w # v,
               Quiet(w) \/ SavesTool(w) \/ SavesAttempt(w) \/ Commits(w)
        PROVE Goal
    BY <2>2, LocalMoves, OthersKeepLocals DEF InTurn, InTool
  <2>3. ASSUME Quiet(v) PROVE Goal
    BY <2>3
    DEF Quiet, FencedOut, Heartbeat, WatchRun, RefuseRun, ReuseAttempt, RefuseAttempt,
       GiveUp, Dispatch, Stream, Proceed, StreamEnds, ReuseTool, RefuseTool,
       PerformTool, Suspend, PublishCancelled, PublishBreaks, Deliver,
       FinishCancelled, Crash, Interrupt, FailLate, Retire, Carry, Raise, InTurn, InTool
  <2>4. ASSUME SavesTool(v) PROVE Goal
    BY <2>4, SavesToolOnly
    DEF SavesTool, RequestTool, DenyTool, AllowTool, SaveResult, ToolBreaks, AskRefused,
       InTurn
  <2>5. ASSUME SavesAttempt(v) \/ Commits(v) PROVE Goal
    BY <2>5
    DEF SavesAttempt, Commits, StartAttempt, RequestNotSaved, DispatchCancelled, Answer,
       ProviderFails, Claim, Ask, Publish, Cancelled, FinishInterrupted, Retire, Goto,
       InTurn, InTool
  <2> QED BY <2>1, <2>2, <2>3, <2>4, <2>5, StepKinds
<1>2. CASE ~ \E w \in Workers : Publish(w)
  <2>1. ~Claim(v)
    BY DEF Claim, InTurn, InTool
  <2>2. OwnsClaim(v)
    BY <1>2, <2>1, WayToOwn DEF InTurn, InTool
  <2> QED BY <1>1, <2>2
<1>3. ASSUME NEW w \in Workers, Publish(w) PROVE OwnsClaim(v)
  <2>1. /\ exec'.owner = exec.owner /\ exec'.version = exec.version
        /\ exec'.lease = exec.lease /\ UNCHANGED claim
    BY <1>3 DEF Publish
  <2> QED BY <2>1 DEF OwnsClaim
<1> QED BY <1>1, <1>2, <1>3

\* The Run ends on its own only by the hand of the owner of the claim, whose turn is
\* over with it.
LEMMA WayToEnd ==
    ASSUME TInv, [Next]_vars, run' \notin {"running", "cancelled"}, run' # run
    PROVE \E w \in Workers : /\ OwnsClaim(w)
                             /\ pc'[w] \in {"idle", "delivered"}
                             /\ exec'.owner = exec.owner
<1> USE DEF TInv, TypeOK, RowsOK, LocalsOK
<1>1. CASE Outside
  BY <1>1
  DEF Outside, Accept, CancelRun, LapseUnheld, LapseHeld, ReplyToAsk,
     ExpireAsk, SettleAsk, vars, durable
<1>2. ASSUME NEW w \in Workers, Quiet(w) PROVE UNCHANGED run
  BY <1>2, QuietKeepsRows DEF durable
<1>3. ASSUME NEW w \in Workers, SavesTool(w) PROVE UNCHANGED run
  BY <1>3, SavesToolOnly DEF SaveTool
<1>4. ASSUME NEW w \in Workers, SavesAttempt(w) \/ Claim(w) \/ Ask(w) \/ Cancelled(w)
      PROVE UNCHANGED run
  BY <1>4
  DEF SavesAttempt, StartAttempt, RequestNotSaved, DispatchCancelled, Answer,
     ProviderFails, Claim, Ask, Cancelled
<1>5. ASSUME NEW w \in Workers, StartRun(w) PROVE run' = "running"
  BY <1>5 DEF StartRun
<1>6. ASSUME NEW w \in Workers, Publish(w)
      PROVE OwnsClaim(w) /\ pc'[w] = "delivered" /\ exec'.owner = exec.owner
  BY <1>6 DEF Publish
<1>7. ASSUME NEW w \in Workers, FinishInterrupted(w)
      PROVE OwnsClaim(w) /\ pc'[w] = "idle" /\ exec'.owner = exec.owner
  BY <1>7 DEF FinishInterrupted, Retire
<1> QED BY <1>1, <1>2, <1>3, <1>4, <1>5, <1>6, <1>7, StepKinds DEF Commits

LEMMA OpenTurnStep ==
    ASSUME ToolLoop, TInv, OpenTurn, [Next]_vars
    PROVE OpenTurn'
<1> SUFFICES ASSUME NEW v \in Workers, InTurn(v)', pc'[v] # "suspended", OwnsClaim(v)',
                    run' \notin {"running", "cancelled"}
             PROVE FALSE
  BY DEF OpenTurn
<1>1. CASE StartRun(v)
  BY <1>1 DEF StartRun
<1>2. CASE ResumeRun(v)
  BY <1>2 DEF ResumeRun, durable
<1>3. CASE InTurn(v) /\ pc[v] # "suspended" /\ OwnsClaim(v)
  <2>1. run \in {"running", "cancelled"}
    BY <1>3 DEF OpenTurn
  <2>2. PICK w \in Workers : OwnsClaim(w) /\ pc'[w] \in {"idle", "delivered"}
    BY <2>1, WayToEnd
  <2>3. w = v
    BY <1>3, <2>2 DEF OwnsClaim
  <2> QED BY <2>2, <2>3 DEF InTurn, InTool
<1> QED BY <1>1, <1>2, <1>3, WayIntoTurn

\* What the Run is to the one who asked.
Outcome == IF run \in {"pending", "running"} THEN "open" ELSE run

\* An event saved by the owner extends the log, and a last one settles the turn.
LEMMA PublishKeepsPromise ==
    ASSUME ToolLoop, TInv, LogPrefix, OwnerAtEnd, OpenTurn, NEW w \in Workers, Publish(w)
    PROVE Promise!Next
<1> USE DEF TInv, TypeOK, RowsOK, LocalsOK
<1>1. /\ run = "running" /\ OwnsClaim(w)
      /\ note[w] \in {"delta", "completed", "failed"}
  BY DEF Publish, RunTakesEvents, OpenTurn, InTurn, InTool, Positions
<1>2. Promise!Extend(note[w])
  <2> DEFINE s == seq[w] + 1
  <2>1. /\ s \in Slots /\ events[s] = "none"
        /\ events' = [events EXCEPT ![s] = note[w]]
    BY QuickTurnAssumption DEF Publish, Slots, MaxEvents
  <2>2. IsLast(seq[w])
    BY <1>1 DEF OwnerAtEnd, Publish
  <2>3. \A t \in Slots : t < s => events[t] # "none"
    <3> SUFFICES ASSUME NEW t \in Slots, t < s PROVE events[t] # "none"
      OBVIOUS
    <3>1. seq[w] \in Nat /\ seq[w] # 0 /\ t \in 1..seq[w] /\ seq[w] \in Slots
      BY <2>1, QuickTurnAssumption DEF Slots, MaxEvents
    <3> QED BY <2>2, <3>1 DEF IsLast, LogPrefix
  <2>4. \A t \in Slots : t > s => events[t] = "none"
    BY <2>1, <2>2, QuickTurnAssumption DEF IsLast, Slots, MaxEvents
  <2> HIDE DEF s
  <2> QED BY <2>1, <2>3, <2>4 DEF Promise!Extend
<1>3. CASE note[w] = "delta"
  <2>1. UNCHANGED <<run, replies>>
    BY <1>3 DEF Publish
  <2> QED BY <1>1, <1>2, <1>3, <2>1 DEF Promise!Next, Promise!Say
<1>4. CASE note[w] = "completed"
  <2>1. run' = "completed" /\ replies' \in {replies, replies + 1}
    BY <1>4 DEF Publish
  <2> QED BY <1>1, <1>2, <1>4, <2>1 DEF Promise!Next, Promise!Complete
<1>5. CASE note[w] = "failed"
  <2>1. run' = "failed" /\ replies' = replies
    BY <1>5 DEF Publish
  <2> QED BY <1>1, <1>2, <1>5, <2>1 DEF Promise!Next, Promise!Fail
<1> QED BY <1>1, <1>3, <1>4, <1>5

\* Every step is one of ReplyPromise or leaves what it promises alone.
LEMMA PromiseStep ==
    ASSUME ToolLoop, TInv, LogPrefix, OwnerAtEnd, OpenTurn, [Next]_vars
    PROVE [Promise!Next]_(Promise!promise)
<1> DEFINE Stutters == Outcome' = Outcome /\ UNCHANGED <<events, replies>>
<1> DEFINE Goal == Promise!Next \/ Stutters
<1> SUFFICES Goal
  BY DEF Promise!promise, Outcome
<1>1. CASE CancelRun
  BY <1>1 DEF CancelRun, Promise!Next, Promise!Cancel
<1>2. CASE Outside /\ ~CancelRun
  <2>1. UNCHANGED <<run, events, replies>>
    BY <1>2 DEF Outside, Accept, LapseUnheld, LapseHeld, ReplyToAsk, ExpireAsk, SettleAsk,
       vars, durable
  <2> QED BY <2>1 DEF Outcome
<1>3. ASSUME NEW w \in Workers, Quiet(w) PROVE Goal
  BY <1>3, QuietKeepsRows DEF durable, Outcome
<1>4. ASSUME NEW w \in Workers, SavesTool(w) PROVE Goal
  BY <1>4, SavesToolOnly DEF SaveTool, Outcome
<1>5. ASSUME NEW w \in Workers, SavesAttempt(w) \/ Claim(w) \/ Ask(w) \/ Cancelled(w)
      PROVE Goal
  BY <1>5
  DEF SavesAttempt, StartAttempt, RequestNotSaved, DispatchCancelled, Answer,
     ProviderFails, Claim, Ask, Cancelled, Outcome
<1>6. ASSUME NEW w \in Workers, StartRun(w) PROVE Goal
  BY <1>6 DEF StartRun, Outcome
<1>7. ASSUME NEW w \in Workers, Publish(w) PROVE Goal
  BY <1>7, PublishKeepsPromise
<1>8. ASSUME NEW w \in Workers, FinishInterrupted(w) PROVE Goal
  <2>1. UNCHANGED <<events, replies>>
    BY <1>8 DEF FinishInterrupted
  <2>2. CASE run \in {"pending", "running"}
    <3>1. run' = "failed"
      BY <1>8, <2>2 DEF FinishInterrupted, RunAfter
    <3> QED BY <2>1, <2>2, <3>1 DEF Promise!Next, Promise!Fail
  <2>3. CASE run \notin {"pending", "running"}
    BY <1>8, <2>1, <2>3 DEF FinishInterrupted, RunAfter, Outcome
  <2> QED BY <2>2, <2>3
<1> QED BY <1>1, <1>2, <1>3, <1>4, <1>5, <1>6, <1>7, <1>8, StepKinds DEF Commits

\* With the shared tool loop a turn keeps its promise, whoever works on it and however
\* often it is taken over: the log only grows while the turn is open, the turn has one
\* outcome, and a message comes with the completion only (quick_response_worker.py:91).
THEOREM PromiseHolds == ASSUME ToolLoop PROVE Spec => PromiseKept
<1>1. Init => /\ TInv /\ LogPrefix /\ OwnerAtEnd /\ OpenTurn
              /\ Promise!Init
  BY TInvInit DEF Init, LogPrefix, OwnerAtEnd, OpenTurn, InTurn, InTool, Promise!Init
<1>2. TInv /\ LogPrefix /\ OwnerAtEnd /\ OpenTurn /\ [Next]_vars
        => TInv' /\ LogPrefix' /\ OwnerAtEnd' /\ OpenTurn'
  BY TInvStep, LogStep, OpenTurnStep
<1>3. TInv /\ LogPrefix /\ OwnerAtEnd /\ OpenTurn /\ [Next]_vars
        => [Promise!Next]_(Promise!promise)
  BY PromiseStep
<1> QED BY <1>1, <1>2, <1>3, PTL DEF Spec, PromiseKept, Promise!Spec

-----------------------------------------------------------------------------
(* What is settled stays settled *)

\* w has sent its round, or is about to, and has not taken the answer.
Sent(w) == pc[w] \in {"dispatch", "provider"} \/ (pc[w] = "publish" /\ note[w] = "delta")

\* Such a round is open, and one worker's; an answer that was saved is a completion.
SentAlone ==
    \A w \in Workers : Sent(w) =>
        /\ attempts[round[w]].status = "started"
        /\ \A v \in Workers : Sent(v) /\ round[v] = round[w] => v = w

AnswerSaved ==
    \A w \in Workers : pc[w] = "answered" => attempts[round[w]].status = "completed"

\* w has saved the tool call of its round and not its outcome: nothing was asked in it.
Asking(w) == pc[w] \in {"perform", "effect", "result", "ask"}

AskAlone ==
    /\ \A r \in Rounds : tools[r] = "none" => asks[r] = "none"
    /\ \A w \in Workers : Asking(w) =>
          /\ tools[round[w]] # "none" /\ asks[round[w]] = "none"
          /\ \A v \in Workers : Asking(v) /\ round[v] = round[w] => v = w

SettledInv == SentAlone /\ AnswerSaved /\ AskAlone

\* The quiet steps of a worker, for where they take it.
LEMMA WayToSent ==
    ASSUME TInv, [Next]_vars, NEW v \in Workers
    PROVE /\ Sent(v)' => StartAttempt(v) \/ (Sent(v) /\ round'[v] = round[v])
          /\ pc'[v] = "answered" =>
                (Answer(v) \/ pc[v] = "answered") /\ round'[v] = round[v]
          /\ Asking(v)' => RequestTool(v) \/ (Asking(v) /\ round'[v] = round[v])
<1> USE DEF TInv, TypeOK, LocalsOK, Sent, Asking
<1> DEFINE Goal == /\ Sent(v)' => StartAttempt(v) \/ (Sent(v) /\ round'[v] = round[v])
                   /\ pc'[v] = "answered" =>
                         (Answer(v) \/ pc[v] = "answered") /\ round'[v] = round[v]
                   /\ Asking(v)' => RequestTool(v) \/ (Asking(v) /\ round'[v] = round[v])
<1>1. CASE Outside
  BY <1>1, OutsideKeepsLocals DEF local
<1>2. ASSUME NEW w \in Workers, w # v,
             Quiet(w) \/ SavesTool(w) \/ SavesAttempt(w) \/ Commits(w)
      PROVE Goal
  BY <1>2, LocalMoves, OthersKeepLocals
<1>3. ASSUME Quiet(v) PROVE Goal
  BY <1>3
  DEF Quiet, FencedOut, Heartbeat, WatchRun, ResumeRun, RefuseRun,
     ReuseAttempt, RefuseAttempt, GiveUp, Dispatch, Stream, Proceed,
     StreamEnds, ReuseTool, RefuseTool, PerformTool, Suspend,
     PublishCancelled, PublishBreaks, Deliver, FinishCancelled, Crash,
     Interrupt, FailLate, Retire, Goto, Carry, NextRound, Raise,
     TakeResponse
<1>4. ASSUME SavesTool(v) PROVE Goal
  BY <1>4
  DEF SavesTool, RequestTool, DenyTool, AllowTool, SaveResult, ToolBreaks,
     AskRefused, Goto, Carry, NextRound
<1>5. ASSUME SavesAttempt(v) \/ Commits(v) PROVE Goal
  BY <1>5
  DEF SavesAttempt, Commits, StartAttempt, RequestNotSaved, DispatchCancelled, Answer,
     ProviderFails, Claim, StartRun, Ask, Publish, Cancelled,
     FinishInterrupted, Retire, Goto, Carry, Raise
<1> QED BY <1>1, <1>2, <1>3, <1>4, <1>5, StepKinds

\* Who changes an attempt: the one who starts it, or who has sent it and is done with it.
LEMMA AttemptChange ==
    ASSUME TInv, SettledInv, [Next]_vars, NEW r \in Rounds, attempts'[r] # attempts[r]
    PROVE \E w \in Workers :
             /\ round[w] = r
             /\ \/ StartAttempt(w) /\ attempts[r].status = "none"
                \/ Sent(w) /\ ~Sent(w)'
<1> USE DEF TInv, TypeOK, RowsOK, LocalsOK
<1> DEFINE Goal == \E w \in Workers :
             /\ round[w] = r
             /\ \/ StartAttempt(w) /\ attempts[r].status = "none"
                \/ Sent(w) /\ ~Sent(w)'
<1>1. CASE Outside
  BY <1>1
  DEF Outside, Accept, CancelRun, LapseUnheld, LapseHeld, ReplyToAsk,
     ExpireAsk, SettleAsk, vars, durable
<1>2. ASSUME NEW w \in Workers, StartAttempt(w) PROVE Goal
  BY <1>2 DEF StartAttempt, MayDispatch
<1>3. ASSUME NEW w \in Workers,
             RequestNotSaved(w) \/ DispatchCancelled(w) \/ Answer(w) \/ ProviderFails(w)
      PROVE Goal
  <2>1. Sent(w) /\ ~Sent(w)'
    BY <1>3
    DEF RequestNotSaved, DispatchCancelled, Answer, ProviderFails, Raise, Goto, Carry, Sent
  <2>2. round[w] = r
    BY <1>3 DEF RequestNotSaved, DispatchCancelled, Answer, ProviderFails
  <2> QED BY <2>1, <2>2
<1>4. ASSUME NEW w \in Workers, Cancelled(w) PROVE Goal
  <2>1. /\ pc[w] \in {"dispatch", "provider", "answered"} /\ round[w] = r
        /\ attempts[r].status = "started"
    BY <1>4 DEF Cancelled, AfterCancel
  <2>2. pc[w] # "answered"
    BY <2>1 DEF SettledInv, AnswerSaved
  <2>3. pc'[w] = "finish"
    BY <1>4 DEF Cancelled
  <2> QED BY <2>1, <2>2, <2>3 DEF Sent
<1>5. ASSUME NEW w \in Workers,
             Quiet(w) \/ SavesTool(w) \/ (Commits(w) /\ ~Cancelled(w))
      PROVE UNCHANGED attempts
  BY <1>5, OtherAttempts
<1> QED BY <1>1, <1>2, <1>3, <1>4, <1>5, StepKinds DEF SavesAttempt

\* Who changes a question: the one who asks it, and who ends it while it is open.
LEMMA AskChange ==
    ASSUME TInv, SettledInv, [Next]_vars, NEW r \in Rounds, asks'[r] # asks[r]
    PROVE \/ asks[r] = "pending"
          \/ \E w \in Workers : /\ round[w] = r /\ Asking(w) /\ ~Asking(w)'
                                /\ asks[r] = "none"
<1> USE DEF TInv, TypeOK, RowsOK, LocalsOK
<1>1. CASE Outside
  BY <1>1
  DEF Outside, Accept, CancelRun, CancelAsks, LapseUnheld, LapseHeld, ReplyToAsk,
     ExpireAsk, SettleAsk, Answerable, vars, durable
<1>2. ASSUME NEW w \in Workers, Ask(w)
      PROVE round[w] = r /\ Asking(w) /\ ~Asking(w)' /\ asks[r] = "none"
  <2>1. Asking(w) /\ ~Asking(w)' /\ round[w] = r
    BY <1>2 DEF Ask, Goto, Asking
  <2> QED BY <2>1 DEF SettledInv, AskAlone
<1>3. ASSUME NEW w \in Workers, Quiet(w) PROVE UNCHANGED asks
  BY <1>3, QuietKeepsRows DEF durable
<1>4. ASSUME NEW w \in Workers, SavesTool(w) PROVE UNCHANGED asks
  BY <1>4, SavesToolOnly DEF SaveTool
<1>5. ASSUME NEW w \in Workers, SavesAttempt(w) \/ (Commits(w) /\ ~Ask(w))
      PROVE UNCHANGED asks
  BY <1>5
  DEF SavesAttempt, Commits, StartAttempt, RequestNotSaved, DispatchCancelled,
     Answer, ProviderFails, Claim, StartRun, Publish, Cancelled, FinishInterrupted
<1> QED BY <1>1, <1>2, <1>3, <1>4, <1>5, StepKinds

LEMMA SettledStep == ASSUME TInv, SettledInv, [Next]_vars PROVE SettledInv'
<1> USE DEF TInv, TypeOK, RowsOK, LocalsOK
<1>1. SentAlone'
  <2>1. ASSUME NEW w \in Workers, Sent(w)', StartAttempt(w)
        PROVE /\ attempts'[round'[w]].status = "started"
              /\ \A v \in Workers : Sent(v)' /\ round'[v] = round'[w] => v = w
    <3>1. /\ UNCHANGED <<round, note>>
          /\ attempts[round[w]].status = "none"
          /\ attempts'[round[w]].status = "started"
      BY <2>1 DEF StartAttempt, MayDispatch, NoAttempt, Goto
    <3>2. \A v \in Workers \ {w} : Sent(v)' => Sent(v)
      BY <2>1 DEF StartAttempt, Goto, Sent
    <3> QED BY <3>1, <3>2 DEF SettledInv, SentAlone
  <2>2. ASSUME NEW w \in Workers, Sent(w)', Sent(w), round'[w] = round[w]
        PROVE attempts'[round'[w]].status = "started"
    <3>1. attempts[round[w]].status = "started"
      BY <2>2 DEF SettledInv, SentAlone
    <3>2. attempts'[round[w]] = attempts[round[w]]
      BY <2>2, <3>1, AttemptChange DEF SettledInv, SentAlone
    <3> QED BY <2>2, <3>1, <3>2
  <2>3. ASSUME NEW w \in Workers, Sent(w)', NEW v \in Workers, Sent(v)',
               round'[v] = round'[w]
        PROVE v = w
    <3>1. CASE StartAttempt(w)
      BY <2>1, <2>3, <3>1
    <3>2. CASE StartAttempt(v)
      BY <2>1, <2>3, <3>2
    <3>3. CASE ~StartAttempt(w) /\ ~StartAttempt(v)
      BY <2>3, <3>3, WayToSent DEF SettledInv, SentAlone
    <3> QED BY <3>1, <3>2, <3>3
  <2>4. \A w \in Workers : Sent(w)' => attempts'[round'[w]].status = "started"
    BY <2>1, <2>2, WayToSent
  <2> QED BY <2>3, <2>4 DEF SentAlone
<1>2. AnswerSaved'
  <2> SUFFICES ASSUME NEW w \in Workers, pc'[w] = "answered"
               PROVE attempts'[round'[w]].status = "completed"
    BY DEF AnswerSaved
  <2>1. (Answer(w) \/ pc[w] = "answered") /\ round'[w] = round[w]
    BY WayToSent
  <2>2. CASE Answer(w)
    BY <2>1, <2>2 DEF Answer
  <2>3. CASE pc[w] = "answered"
    <3>1. attempts[round[w]].status = "completed"
      BY <2>3 DEF SettledInv, AnswerSaved
    <3>2. attempts'[round[w]] = attempts[round[w]]
      BY <3>1, AttemptChange DEF SettledInv, SentAlone
    <3> QED BY <2>1, <3>1, <3>2
  <2> QED BY <2>1, <2>2, <2>3
<1>3. AskAlone'
  <2>1. ASSUME NEW r \in Rounds, tools'[r] = "none" PROVE asks'[r] = "none"
    <3>1. tools[r] = "none" /\ asks[r] = "none"
      BY <2>1, NothingForgotten DEF SettledInv, AskAlone
    <3>2. asks'[r] = asks[r]
      BY <3>1, AskChange DEF SettledInv, AskAlone
    <3> QED BY <3>1, <3>2
  <2>2. ASSUME NEW w \in Workers, Asking(w)', RequestTool(w)
        PROVE /\ tools'[round'[w]] # "none" /\ asks'[round'[w]] = "none"
              /\ \A v \in Workers : Asking(v)' /\ round'[v] = round'[w] => v = w
    <3>1. /\ UNCHANGED <<round, asks>>
          /\ tools[round[w]] = "none" /\ tools'[round[w]] = "requested"
      BY <2>2 DEF RequestTool, SaveTool, Goto
    <3>2. \A v \in Workers \ {w} : Asking(v)' => Asking(v)
      BY <2>2 DEF RequestTool, Goto, Asking
    <3> QED BY <3>1, <3>2 DEF SettledInv, AskAlone
  <2>3. ASSUME NEW w \in Workers, Asking(w)', Asking(w), round'[w] = round[w]
        PROVE tools'[round'[w]] # "none" /\ asks'[round'[w]] = "none"
    <3>1. tools[round[w]] # "none" /\ asks[round[w]] = "none"
      BY <2>3 DEF SettledInv, AskAlone
    <3>2. tools'[round[w]] # "none"
      BY <3>1, NothingForgotten
    <3>3. asks'[round[w]] = "none"
      BY <2>3, <3>1, AskChange DEF SettledInv, AskAlone
    <3> QED BY <2>3, <3>2, <3>3
  <2>4. ASSUME NEW w \in Workers, Asking(w)', NEW v \in Workers, Asking(v)',
               round'[v] = round'[w]
        PROVE v = w
    <3>1. CASE RequestTool(w)
      BY <2>2, <2>4, <3>1
    <3>2. CASE RequestTool(v)
      BY <2>2, <2>4, <3>2
    <3>3. CASE ~RequestTool(w) /\ ~RequestTool(v)
      BY <2>4, <3>3, WayToSent DEF SettledInv, AskAlone
    <3> QED BY <3>1, <3>2, <3>3
  <2>5. \A w \in Workers : Asking(w)' =>
           tools'[round'[w]] # "none" /\ asks'[round'[w]] = "none"
    BY <2>2, <2>3, WayToSent
  <2> QED BY <2>1, <2>4, <2>5 DEF AskAlone
<1> QED BY <1>1, <1>2, <1>3 DEF SettledInv

\* A saved completion is never turned into an unknown or failed call, and of reply,
\* expiry and cancellation one settles a question, whoever comes late
\* (model_response_service.py, user_interaction_service.py).
THEOREM SettledHolds == Spec => SavedStands
<1> DEFINE StandsStep == \A r \in Rounds :
          /\ attempts[r].status = "completed" => attempts'[r] = attempts[r]
          /\ asks[r] \in {"resolved", "expired", "cancelled"} => asks'[r] = asks[r]
<1>1. Init => TInv /\ SettledInv
  BY TInvInit DEF Init, SettledInv, SentAlone, Sent, AnswerSaved, AskAlone, Asking
<1>2. TInv /\ SettledInv /\ [Next]_vars => TInv' /\ SettledInv'
  BY TInvStep, SettledStep
<1>3. TInv /\ SettledInv /\ [Next]_vars => [StandsStep]_vars
  <2> SUFFICES ASSUME TInv, SettledInv, [Next]_vars PROVE StandsStep
    OBVIOUS
  <2> QED BY AttemptChange, AskChange DEF SettledInv, SentAlone
<1> QED BY <1>1, <1>2, <1>3, PTL DEF Spec, SavedStands

-----------------------------------------------------------------------------
(* The ends of the execution and of the Run, and the open question *)

\* How the ends of the execution and of the Run go together.
EndsAgree ==
    /\ exec.status = "completed" => run = "completed"
    /\ exec.status = "failed" => run = "failed"
    /\ exec.status = "cancelled" => run = "cancelled"
    /\ exec.status = "outcome_unknown" => run \in {"completed", "failed"}
    /\ run \in {"completed", "failed"} => exec.status \in Released

\* While the Run goes on the execution waits exactly when a question is open, and no
\* more than one is.
OneOpenAsk ==
    /\ \A r \in Rounds : asks[r] = "pending" /\ run \in {"pending", "running"}
            => run = "running" /\ exec.status = "waiting_for_input"
    /\ exec.status = "waiting_for_input" =>
            /\ run = "running"
            /\ \E r \in Rounds : \A s \in Rounds : asks[s] = "pending" <=> s = r

\* w has yet to begin the turn or is in it, and has not suspended itself.
Working(w) == pc[w] = "start" \/ (InTurn(w) /\ pc[w] # "suspended")

\* The owner of the claim works on a row that runs.
OwnerRuns ==
    \A w \in Workers : OwnsClaim(w) /\ Working(w) => exec.status = "running"

\* An owner that is about to report an error has a Run that was not completed.
BrokenIsOpen ==
    \A w \in Workers :
        OwnsClaim(w) /\ pc[w] = "finish" /\ note[w] # "interrupted"
            => run # "completed"

AgreeInv == EndsAgree /\ OneOpenAsk /\ OwnerRuns /\ BrokenIsOpen

\* Most steps of a worker leave the Run, the execution and the questions alone.
LEMMA TurnGoesOn ==
    ASSUME NEW w \in Workers,
           Quiet(w) \/ SavesTool(w) \/ SavesAttempt(w) \/ Cancelled(w)
    PROVE UNCHANGED <<run, exec, asks>>
<1>1. CASE Quiet(w)
  BY <1>1, QuietKeepsRows DEF durable
<1>2. CASE SavesTool(w)
  BY <1>2, SavesToolOnly DEF SaveTool
<1>3. CASE SavesAttempt(w)
  BY <1>3 DEF SavesAttempt, StartAttempt, RequestNotSaved, DispatchCancelled,
     Answer, ProviderFails
<1>4. CASE Cancelled(w)
  BY <1>4 DEF Cancelled
<1> QED BY <1>1, <1>2, <1>3, <1>4

\* Cancelling the open questions leaves none of them, and the claim as it was.
LEMMA NoAskLeft ==
    ASSUME TInv, CancelAsks
    PROVE /\ \A r \in Rounds : asks'[r] # "pending"
          /\ exec'.status = IF exec.status = "waiting_for_input" THEN "cancelled"
                                                                 ELSE exec.status
BY DEF TInv, TypeOK, RowsOK, CancelAsks

\* The rows agree after every step of the user, the clock and the sweep ...
LEMMA OutsideAgrees ==
    ASSUME TInv, AgreeInv, Outside
    PROVE EndsAgree' /\ OneOpenAsk'
<1> USE DEF TInv, TypeOK, RowsOK, AgreeInv, EndsAgree, OneOpenAsk, Released
<1>1. CASE Accept
  BY <1>1 DEF Accept
<1>2. CASE CancelRun
  BY <1>2, NoAskLeft DEF CancelRun
<1>3. CASE LapseUnheld \/ LapseHeld
  BY <1>3 DEF LapseUnheld, LapseHeld
<1>4. ASSUME NEW r \in Rounds, NEW status \in {"resolved", "expired"},
             SettleAsk(r, status)
      PROVE EndsAgree' /\ OneOpenAsk'
  <2>1. run = "running" /\ run' = run /\ exec'.status = "queued"
    BY <1>4 DEF SettleAsk, Answerable, ResumedExec
  <2>2. \A s \in Rounds : asks'[s] # "pending"
    BY <1>4 DEF SettleAsk, Answerable
  <2> QED BY <2>1, <2>2
<1>5. ASSUME NEW r \in Rounds, ExpireAsk(r), ~SettleAsk(r, "expired")
      PROVE EndsAgree' /\ OneOpenAsk'
  <2>1. CancelAsks /\ run # "running" /\ UNCHANGED run
    BY <1>5 DEF ExpireAsk
  <2> QED BY <2>1, NoAskLeft
<1>6. CASE UNCHANGED vars
  BY <1>6 DEF vars, durable
<1> QED BY <1>1, <1>2, <1>3, <1>4, <1>5, <1>6 DEF Outside, ReplyToAsk

\* ... and of a worker.
LEMMA WorkerAgrees ==
    ASSUME TInv, AgreeInv, NEW w \in Workers,
           Quiet(w) \/ SavesTool(w) \/ SavesAttempt(w) \/ Commits(w)
    PROVE EndsAgree' /\ OneOpenAsk'
<1> USE DEF TInv, TypeOK, RowsOK, LocalsOK, AgreeInv, EndsAgree, OneOpenAsk, Released
<1>1. CASE Quiet(w) \/ SavesTool(w) \/ SavesAttempt(w) \/ Cancelled(w)
  BY <1>1, TurnGoesOn
<1>2. CASE Claim(w)
  BY <1>2 DEF Claim, Claimable
<1>3. CASE StartRun(w)
  BY <1>3 DEF StartRun
<1>4. CASE Ask(w)
  <2>1. exec.status = "running"
    BY <1>4 DEF Ask, OwnerRuns, Working, InTurn, InTool
  <2>2. /\ run = "running" /\ run' = run /\ exec'.status = "waiting_for_input"
        /\ asks' = [asks EXCEPT ![round[w]] = "pending"]
    BY <1>4 DEF Ask
  <2>3. \A s \in Rounds : asks'[s] = "pending" <=> s = round[w]
    BY <2>1, <2>2
  <2> QED BY <2>2, <2>3
<1>5. CASE Publish(w)
  <2>1. note[w] \in {"delta", "completed", "failed"} /\ UNCHANGED asks
    BY <1>5 DEF Publish, Positions
  <2>2. CASE note[w] = "delta"
    BY <1>5, <2>1, <2>2 DEF Publish
  <2>3. CASE note[w] # "delta"
    <3>1. run' = note[w] /\ exec'.status = note[w]
      BY <1>5, <2>3 DEF Publish
    <3> QED BY <2>1, <2>3, <3>1
  <2> QED BY <2>2, <2>3
<1>6. CASE FinishInterrupted(w)
  <2>1. /\ exec'.status = EndStatus(w) /\ run' = RunAfter(w) /\ UNCHANGED asks
        /\ note[w] # "interrupted" => run # "completed"
    BY <1>6 DEF FinishInterrupted, BrokenIsOpen
  <2> QED BY <2>1 DEF EndStatus, RunAfter, RunStatus
<1> QED BY <1>1, <1>2, <1>3, <1>4, <1>5, <1>6 DEF Commits

\* A claim is kept by its owner's own steps, or it has just been made.
LEMMA OwnedBefore ==
    ASSUME TInv, [Next]_vars, NEW v \in Workers, pc'[v] # "idle", OwnsClaim(v)', ~Claim(v)
    PROVE OwnsClaim(v)
<1>1. CASE ~ \E w \in Workers : Publish(w)
  BY <1>1, WayToOwn
<1>2. ASSUME NEW w \in Workers, Publish(w) PROVE OwnsClaim(v)
  <2>1. /\ exec'.owner = exec.owner /\ exec'.version = exec.version
        /\ exec'.lease = exec.lease /\ UNCHANGED claim
    BY <1>2 DEF Publish, TInv, TypeOK, RowsOK
  <2> QED BY <2>1 DEF OwnsClaim
<1> QED BY <1>1, <1>2

\* A worker begins by its claim only, and gets to the report of an error only from its
\* work.
LEMMA WayToWork ==
    ASSUME TInv, [Next]_vars, NEW v \in Workers
    PROVE /\ pc'[v] = "start" => Claim(v) \/ pc[v] = "start"
          /\ pc'[v] = "finish" /\ note'[v] # "interrupted" =>
                \/ pc[v] = "finish" /\ note'[v] = note[v]
                \/ Working(v)
<1> USE DEF TInv, TypeOK, LocalsOK, Working, InTurn, InTool
<1> DEFINE Goal == /\ pc'[v] = "start" => Claim(v) \/ pc[v] = "start"
                   /\ pc'[v] = "finish" /\ note'[v] # "interrupted" =>
                         \/ pc[v] = "finish" /\ note'[v] = note[v]
                         \/ Working(v)
<1>1. CASE Outside
  BY <1>1, OutsideKeepsLocals DEF local
<1>2. ASSUME NEW w \in Workers, w # v,
             Quiet(w) \/ SavesTool(w) \/ SavesAttempt(w) \/ Commits(w)
      PROVE Goal
  BY <1>2, LocalMoves, OthersKeepLocals
<1>3. ASSUME Quiet(v) PROVE Goal
  BY <1>3
  DEF Quiet, FencedOut, Heartbeat, WatchRun, ResumeRun, RefuseRun,
     ReuseAttempt, RefuseAttempt, GiveUp, Dispatch, Stream, Proceed,
     StreamEnds, ReuseTool, RefuseTool, PerformTool, Suspend,
     PublishCancelled, PublishBreaks, Deliver, FinishCancelled, Crash,
     Interrupt, FailLate, Retire, Goto, Carry, NextRound, Raise,
     TakeResponse
<1>4. ASSUME SavesTool(v) PROVE Goal
  BY <1>4
  DEF SavesTool, RequestTool, DenyTool, AllowTool, SaveResult, ToolBreaks,
     AskRefused, Goto, Carry, NextRound
<1>5. ASSUME SavesAttempt(v) \/ Commits(v) PROVE Goal
  BY <1>5
  DEF SavesAttempt, Commits, StartAttempt, RequestNotSaved, DispatchCancelled, Answer,
     ProviderFails, Claim, StartRun, Ask, Publish, Cancelled,
     FinishInterrupted, Retire, Goto, Carry, Raise
<1> QED BY <1>1, <1>2, <1>3, <1>4, <1>5, StepKinds

\* An execution stops running when its owner suspends itself or ends the turn; or it is
\* requeued, without an owner.
LEMMA RunningStops ==
    ASSUME TInv, [Next]_vars, exec.status = "running", exec'.status # "running"
    PROVE \/ exec'.owner = NoWorker
          \/ \E w \in Workers :
                OwnsClaim(w) /\ pc'[w] \in {"suspended", "delivered", "idle"}
<1> USE DEF TInv, TypeOK, RowsOK, LocalsOK
<1>1. CASE Outside
  BY <1>1
  DEF Outside, Accept, CancelRun, CancelAsks, LapseUnheld, LapseHeld, ReplyToAsk,
     ExpireAsk, SettleAsk, ResumedExec, vars, durable
<1>2. ASSUME NEW w \in Workers,
             Quiet(w) \/ SavesTool(w) \/ SavesAttempt(w) \/ Cancelled(w)
      PROVE UNCHANGED exec
  BY <1>2, TurnGoesOn
<1>3. ASSUME NEW w \in Workers, Claim(w) \/ StartRun(w) PROVE exec'.status = "running"
  BY <1>3 DEF Claim, StartRun
<1>4. ASSUME NEW w \in Workers, Ask(w) \/ Publish(w) \/ FinishInterrupted(w)
      PROVE OwnsClaim(w) /\ pc'[w] \in {"suspended", "delivered", "idle"}
  <2>1. CASE Ask(w)
    BY <2>1 DEF Ask, Goto
  <2>2. CASE Publish(w)
    BY <1>4, <2>2 DEF Publish
  <2>3. CASE FinishInterrupted(w)
    BY <2>3 DEF FinishInterrupted, Retire
  <2> QED BY <1>4, <2>1, <2>2, <2>3
<1> QED BY <1>1, <1>2, <1>3, <1>4, StepKinds DEF Commits

LEMMA OwnerRunsStep ==
    ASSUME ToolLoop, TInv, AgreeInv, [Next]_vars
    PROVE OwnerRuns'
<1> SUFFICES ASSUME NEW v \in Workers, OwnsClaim(v)', Working(v)'
             PROVE exec'.status = "running"
  BY DEF OwnerRuns
<1>1. CASE Claim(v)
  BY <1>1 DEF Claim
<1>2. CASE ~Claim(v)
  <2>1. OwnsClaim(v)
    BY <1>2, OwnedBefore DEF Working, InTurn, InTool
  <2>2. Working(v)
    <3>1. CASE pc'[v] = "start"
      BY <1>2, <3>1, WayToWork DEF Working
    <3>2. CASE pc'[v] # "start"
      BY <3>2, WayIntoTurn DEF Working, StartRun, ResumeRun
    <3> QED BY <3>1, <3>2
  <2>3. exec.status = "running"
    BY <2>1, <2>2 DEF AgreeInv, OwnerRuns
  <2>4. exec'.owner \in Workers
    BY DEF OwnsClaim
  <2>5. \A w \in Workers : OwnsClaim(w) => w = v
    BY <2>1 DEF OwnsClaim
  <2>6. pc'[v] \notin {"suspended", "delivered", "idle"}
    BY DEF Working, InTurn, InTool
  <2> QED BY <2>3, <2>4, <2>5, <2>6, RunningStops, QuickTurnAssumption
<1> QED BY <1>1, <1>2

LEMMA BrokenIsOpenStep ==
    ASSUME TInv, AgreeInv, [Next]_vars
    PROVE BrokenIsOpen'
<1> SUFFICES ASSUME NEW v \in Workers, OwnsClaim(v)', pc'[v] = "finish",
                    note'[v] # "interrupted", run' = "completed"
             PROVE FALSE
  BY DEF BrokenIsOpen
<1>1. OwnsClaim(v)
  BY OwnedBefore DEF Claim, TInv, TypeOK, LocalsOK
<1>2. run # "completed"
  BY <1>1, WayToWork DEF AgreeInv, BrokenIsOpen, OwnerRuns, EndsAgree, Released
<1>3. PICK w \in Workers : OwnsClaim(w) /\ pc'[w] \in {"idle", "delivered"}
  BY <1>2, WayToEnd
<1> QED BY <1>1, <1>3 DEF OwnsClaim

\* With the shared tool loop, what the execution row says of its end agrees with the
\* Run's, and a waiting execution has exactly one open question: the terminal rows are
\* written together by the owner, who was at work on a running row until then, and
\* everyone else who moves the row looks at the Run first
\* (quick_response_ownership.py:224, user_interaction_service.py).
THEOREM EndsTogether == ASSUME ToolLoop PROVE Spec => []Agreement
<1>1. Init => TInv /\ AgreeInv
  BY TInvInit DEF Init, AgreeInv, EndsAgree, OneOpenAsk, OwnerRuns, BrokenIsOpen,
     OwnsClaim, Released
<1>2. TInv /\ AgreeInv /\ [Next]_vars => TInv' /\ AgreeInv'
  <2> SUFFICES ASSUME TInv, AgreeInv, [Next]_vars PROVE TInv' /\ AgreeInv'
    OBVIOUS
  <2>1. EndsAgree' /\ OneOpenAsk'
    BY OutsideAgrees, WorkerAgrees, StepKinds
  <2> QED BY <2>1, TInvStep, OwnerRunsStep, BrokenIsOpenStep DEF AgreeInv
<1>3. TInv /\ AgreeInv => Agreement
  <2> SUFFICES ASSUME AgreeInv PROVE Agreement
    OBVIOUS
  <2>1. ASSUME exec.status = "waiting_for_input"
        PROVE run = "running" /\ Cardinality({r \in Rounds : asks[r] = "pending"}) = 1
    <3>1. PICK r \in Rounds : \A s \in Rounds : asks[s] = "pending" <=> s = r
      BY <2>1 DEF AgreeInv, OneOpenAsk
    <3>2. {s \in Rounds : asks[s] = "pending"} = {r}
      BY <3>1
    <3> QED BY <2>1, <3>2, FS_Singleton DEF AgreeInv, OneOpenAsk
  <2> QED BY <2>1 DEF Agreement, AgreeInv, EndsAgree
<1> QED BY <1>1, <1>2, <1>3, PTL DEF Spec

-----------------------------------------------------------------------------
(* The tool record and the question *)

\* A tool call belongs to a completed response, and what is performed is no question.
ToolOfResponse ==
    /\ \A r \in Rounds : tools[r] # "none" => attempts[r].status = "completed"
    /\ \A w \in Workers : InTool(w) => attempts[round[w]].status = "completed"
    /\ \A w \in Workers : pc[w] \in {"effect", "result"}
            => attempts[round[w]].reply # "question"

\* An owner that still unwinds from its question has one that nobody has answered.
AskedOwner ==
    \A w \in Workers : OwnsClaim(w) /\ pc[w] = "suspended"
        => asks[round[w]] \in {"pending", "cancelled"}

AnswerInv == AnswerReachesTool /\ ToolOfResponse /\ AskedOwner

\* A completed response is never touched again.
LEMMA ResponseStands ==
    ASSUME TInv, SettledInv, [Next]_vars, NEW r \in Rounds,
           attempts[r].status = "completed"
    PROVE attempts'[r] = attempts[r]
BY AttemptChange DEF SettledInv, SentAlone

\* Of the user's and the sweep's steps: each leaves a question and its tool as they
\* were, completes both, or cancels both.
LEMMA OutsideSettles ==
    ASSUME TInv, Outside, NEW r \in Rounds
    PROVE /\ UNCHANGED <<attempts, local>>
          /\ \/ asks'[r] = asks[r] /\ tools'[r] = tools[r]
             \/ /\ asks[r] = "pending" /\ exec'.owner = NoWorker
                /\ asks'[r] \in {"resolved", "expired"} /\ tools'[r] = "completed"
             \/ /\ asks[r] = "pending"
                /\ asks'[r] = "cancelled" /\ tools'[r] = "cancelled"
<1> USE DEF TInv, TypeOK, RowsOK
<1> DEFINE Goal ==
       \/ asks'[r] = asks[r] /\ tools'[r] = tools[r]
       \/ /\ asks[r] = "pending" /\ exec'.owner = NoWorker
          /\ asks'[r] \in {"resolved", "expired"} /\ tools'[r] = "completed"
       \/ /\ asks[r] = "pending"
          /\ asks'[r] = "cancelled" /\ tools'[r] = "cancelled"
<1>1. ASSUME CancelAsks PROVE Goal
  BY <1>1 DEF CancelAsks
<1>2. ASSUME NEW q \in Rounds, NEW status \in {"resolved", "expired"},
             SettleAsk(q, status)
      PROVE Goal
  BY <1>2 DEF SettleAsk, Answerable, ResumedExec
<1>3. Goal
  BY <1>1, <1>2
  DEF Outside, Accept, CancelRun, LapseUnheld, LapseHeld, ReplyToAsk, ExpireAsk, vars,
     durable
<1>4. UNCHANGED attempts
  BY DEF Outside, Accept, CancelRun, LapseUnheld, LapseHeld, ReplyToAsk, ExpireAsk,
     SettleAsk, vars, durable
<1> QED BY <1>3, <1>4, OutsideKeepsLocals

\* The tool of a round is changed by a worker in that round that requests it, asks or
\* performs it, or unwinds from its question; it completes it by a result only, and opens
\* a question by asking only.
LEMMA WorkerSettles ==
    ASSUME TInv, NEW w \in Workers, NEW r \in Rounds,
           Quiet(w) \/ SavesTool(w) \/ SavesAttempt(w) \/ Commits(w)
    PROVE /\ tools'[r] # tools[r] =>
                /\ round[w] = r /\ OwnsClaim(w) /\ InTool(w)
                /\ tools[r] = "none" \/ Asking(w) \/ pc[w] = "suspended"
                /\ tools'[r] = "completed" => pc[w] = "result" /\ UNCHANGED attempts
          /\ asks'[r] # asks[r] => asks'[r] = "pending"
<1> USE DEF TInv, TypeOK, RowsOK, LocalsOK, Asking, InTool
<1> DEFINE Goal ==
       /\ tools'[r] # tools[r] =>
             /\ round[w] = r /\ OwnsClaim(w) /\ InTool(w)
             /\ tools[r] = "none" \/ Asking(w) \/ pc[w] = "suspended"
             /\ tools'[r] = "completed" => pc[w] = "result" /\ UNCHANGED attempts
       /\ asks'[r] # asks[r] => asks'[r] = "pending"
<1>1. CASE Quiet(w)
  BY <1>1, QuietKeepsRows DEF durable
<1>2. CASE SavesTool(w)
  <2>1. PICK status \in ToolStatus : SaveTool(w, status)
    BY <1>2, SavesToolOnly
  <2>2. /\ OwnsClaim(w) /\ tools' = [tools EXCEPT ![round[w]] = status]
        /\ UNCHANGED <<asks, attempts>>
    BY <2>1 DEF SaveTool
  <2>3. tools[round[w]] = "none" \/ Asking(w)
    BY <1>2 DEF SavesTool, RequestTool, DenyTool, AllowTool, SaveResult, ToolBreaks,
       AskRefused
  <2>4. tools'[round[w]] = "completed" => pc[w] = "result"
    BY <1>2 DEF SavesTool, SaveTool, RequestTool, DenyTool, AllowTool, SaveResult,
       ToolBreaks, AskRefused
  <2>5. InTool(w)
    BY <1>2, SavesToolOnly
  <2> QED BY <2>2, <2>3, <2>4, <2>5
<1>3. CASE SavesAttempt(w)
  BY <1>3 DEF SavesAttempt, StartAttempt, RequestNotSaved, DispatchCancelled,
     Answer, ProviderFails
<1>4. CASE Ask(w)
  BY <1>4 DEF Ask
<1>5. CASE Cancelled(w)
  BY <1>5 DEF Cancelled
<1>6. CASE Claim(w) \/ StartRun(w) \/ Publish(w) \/ FinishInterrupted(w)
  BY <1>6 DEF Claim, StartRun, Publish, FinishInterrupted
<1> QED BY <1>1, <1>2, <1>3, <1>4, <1>5, <1>6 DEF Commits

\* A worker comes to a tool call with a completed response, performs only what is no
\* question, and suspends itself only by asking.
LEMMA WayToTool ==
    ASSUME TInv, SettledInv, [Next]_vars, NEW v \in Workers, InTool(v)'
    PROVE /\ round'[v] = round[v]
          /\ InTool(v) \/ attempts[round[v]].status = "completed"
          /\ pc'[v] \in {"effect", "result"} =>
                \/ pc[v] \in {"effect", "result"}
                \/ attempts[round[v]].reply # "question" /\ UNCHANGED attempts
          /\ pc'[v] = "suspended" => pc[v] = "suspended" \/ Ask(v)
<1> USE DEF TInv, TypeOK, LocalsOK, InTool
<1> DEFINE Goal ==
       /\ round'[v] = round[v]
       /\ InTool(v) \/ attempts[round[v]].status = "completed"
       /\ pc'[v] \in {"effect", "result"} =>
             \/ pc[v] \in {"effect", "result"}
             \/ attempts[round[v]].reply # "question" /\ UNCHANGED attempts
       /\ pc'[v] = "suspended" => pc[v] = "suspended" \/ Ask(v)
<1>1. CASE Outside
  BY <1>1, OutsideKeepsLocals DEF local
<1>2. ASSUME NEW w \in Workers, w # v,
             Quiet(w) \/ SavesTool(w) \/ SavesAttempt(w) \/ Commits(w)
      PROVE Goal
  BY <1>2, LocalMoves, OthersKeepLocals
<1>3. CASE ReuseAttempt(v) \/ Proceed(v)
  BY <1>3 DEF ReuseAttempt, Proceed, TakeResponse, Goto, Carry, SettledInv, AnswerSaved
<1>4. CASE Quiet(v) /\ ~ReuseAttempt(v) /\ ~Proceed(v)
  BY <1>4
  DEF Quiet, FencedOut, Heartbeat, WatchRun, ResumeRun, RefuseRun,
     RefuseAttempt, GiveUp, Dispatch, Stream,
     StreamEnds, ReuseTool, RefuseTool, PerformTool, Suspend,
     PublishCancelled, PublishBreaks, Deliver, FinishCancelled, Crash,
     Interrupt, FailLate, Retire, Goto, Carry, NextRound, Raise
<1>5. CASE SavesTool(v)
  BY <1>5
  DEF SavesTool, SaveTool, RequestTool, DenyTool, AllowTool, SaveResult, ToolBreaks,
     AskRefused, Goto, Carry, NextRound
<1>6. CASE SavesAttempt(v) \/ Commits(v)
  BY <1>6
  DEF SavesAttempt, Commits, StartAttempt, RequestNotSaved, DispatchCancelled, Answer,
     ProviderFails, Claim, StartRun, Ask, Publish, Cancelled,
     FinishInterrupted, Retire, Goto, Carry, Raise
<1> QED BY <1>1, <1>2, <1>3, <1>4, <1>5, <1>6, StepKinds

LEMMA ToolOfResponseStep ==
    ASSUME TInv, SettledInv, AnswerInv, [Next]_vars
    PROVE ToolOfResponse'
<1> USE DEF TInv, TypeOK, RowsOK, LocalsOK
<1>1. ASSUME NEW r \in Rounds, tools'[r] # "none"
      PROVE attempts'[r].status = "completed"
  <2>1. attempts[r].status = "completed"
    <3>1. CASE tools[r] # "none"
      BY <3>1 DEF AnswerInv, ToolOfResponse
    <3>2. CASE tools[r] = "none"
      <4>1. asks[r] = "none"
        BY <3>2 DEF SettledInv, AskAlone
      <4>2. ~Outside
        BY <1>1, <3>2, <4>1, OutsideSettles
      <4>3. PICK w \in Workers :
               Quiet(w) \/ SavesTool(w) \/ SavesAttempt(w) \/ Commits(w)
        BY <4>2, StepKinds
      <4>4. round[w] = r /\ InTool(w)
        BY <1>1, <3>2, <4>3, WorkerSettles
      <4> QED BY <4>4 DEF AnswerInv, ToolOfResponse
    <3> QED BY <3>1, <3>2
  <2> QED BY <2>1, ResponseStands
<1>2. ASSUME NEW w \in Workers, InTool(w)'
      PROVE /\ attempts'[round'[w]].status = "completed"
            /\ pc'[w] \in {"effect", "result"} => attempts'[round'[w]].reply # "question"
  <2>1. attempts[round[w]].status = "completed" /\ round'[w] = round[w]
    BY <1>2, WayToTool DEF AnswerInv, ToolOfResponse
  <2>2. attempts'[round[w]] = attempts[round[w]]
    BY <2>1, ResponseStands
  <2> QED BY <1>2, <2>1, <2>2, WayToTool DEF AnswerInv, ToolOfResponse
<1>3. ASSUME NEW w \in Workers, pc'[w] \in {"effect", "result"}
      PROVE attempts'[round'[w]].reply # "question"
  BY <1>2, <1>3 DEF InTool
<1> QED BY <1>1, <1>2, <1>3 DEF ToolOfResponse

LEMMA AskedOwnerStep ==
    ASSUME TInv, SettledInv, AnswerInv, [Next]_vars
    PROVE AskedOwner'
<1> USE DEF TInv, TypeOK, RowsOK, LocalsOK
<1> SUFFICES ASSUME NEW v \in Workers, OwnsClaim(v)', pc'[v] = "suspended"
             PROVE asks'[round'[v]] \in {"pending", "cancelled"}
  BY DEF AskedOwner
<1>1. round'[v] = round[v]
  BY WayToTool DEF InTool
<1>2. CASE Ask(v)
  BY <1>1, <1>2 DEF Ask
<1>3. CASE pc[v] = "suspended"
  <2>1. OwnsClaim(v)
    BY <1>3, OwnedBefore DEF Claim
  <2>2. asks[round[v]] \in {"pending", "cancelled"}
    BY <1>3, <2>1 DEF AnswerInv, AskedOwner
  <2>3. CASE Outside
    BY <1>1, <2>2, <2>3, OutsideSettles, QuickTurnAssumption DEF OwnsClaim
  <2>4. ASSUME NEW w \in Workers,
               Quiet(w) \/ SavesTool(w) \/ SavesAttempt(w) \/ Commits(w)
        PROVE asks'[round[v]] \in {"pending", "cancelled"}
    BY <2>2, <2>4, WorkerSettles
  <2> QED BY <1>1, <2>3, <2>4, StepKinds
<1> QED BY <1>2, <1>3, WayToTool DEF InTool

LEMMA AnswerStep ==
    ASSUME TInv, SettledInv, AnswerInv, [Next]_vars
    PROVE AnswerReachesTool'
<1> USE DEF TInv, TypeOK, RowsOK, LocalsOK
<1> SUFFICES ASSUME NEW r \in Rounds
             PROVE /\ asks'[r] \in {"resolved", "expired"} => tools'[r] = "completed"
                   /\ attempts'[r].reply = "question" /\ tools'[r] = "completed"
                        => asks'[r] \in {"resolved", "expired"}
  BY DEF AnswerReachesTool
<1> DEFINE Settled == asks[r] \in {"resolved", "expired"}
<1>1. /\ Settled => tools[r] = "completed" /\ asks'[r] = asks[r]
      /\ attempts[r].reply = "question" /\ tools[r] = "completed" => Settled
  <2>1. Settled => asks'[r] = asks[r]
    BY AskChange DEF SettledInv
  <2> QED BY <2>1 DEF AnswerInv, AnswerReachesTool
<1>2. tools[r] = "completed" => attempts'[r] = attempts[r]
  BY ResponseStands DEF AnswerInv, ToolOfResponse
<1>3. CASE Outside
  <2>1. UNCHANGED attempts
    BY <1>3, OutsideSettles
  <2> QED BY <1>1, <1>3, <2>1, OutsideSettles
<1>4. ASSUME NEW w \in Workers,
             Quiet(w) \/ SavesTool(w) \/ SavesAttempt(w) \/ Commits(w)
      PROVE /\ asks'[r] \in {"resolved", "expired"} => tools'[r] = "completed"
            /\ attempts'[r].reply = "question" /\ tools'[r] = "completed"
                 => asks'[r] \in {"resolved", "expired"}
  <2>1. asks'[r] \in {"resolved", "expired"} => Settled
    BY <1>4, WorkerSettles
  <2>2. Settled => tools'[r] = tools[r]
    <3> SUFFICES ASSUME Settled, tools'[r] # tools[r] PROVE FALSE
      OBVIOUS
    <3>1. /\ round[w] = r /\ OwnsClaim(w)
          /\ tools[r] = "none" \/ Asking(w) \/ pc[w] = "suspended"
      BY <1>4, WorkerSettles
    <3>2. CASE tools[r] = "none"
      BY <1>1, <3>2
    <3>3. CASE Asking(w)
      BY <3>1, <3>3 DEF SettledInv, AskAlone
    <3>4. CASE pc[w] = "suspended"
      BY <3>1, <3>4 DEF AnswerInv, AskedOwner
    <3> QED BY <3>1, <3>2, <3>3, <3>4
  <2>3. tools'[r] = "completed" /\ tools[r] # "completed"
            => attempts'[r].reply # "question"
    <3> SUFFICES ASSUME tools'[r] = "completed", tools[r] # "completed"
                 PROVE attempts'[r].reply # "question"
      OBVIOUS
    <3>1. round[w] = r /\ pc[w] = "result" /\ UNCHANGED attempts
      BY <1>4, WorkerSettles
    <3> QED BY <3>1 DEF AnswerInv, ToolOfResponse
  <2> QED BY <1>1, <1>2, <2>1, <2>2, <2>3
<1> QED BY <1>3, <1>4, StepKinds

\* The model is told of an answer or an expiry exactly when there was one: a tool that
\* asks is completed only by the transaction that settles its question, and a worker that
\* still unwinds from the question, or is cancelled in it, no longer owns the claim once
\* the question is answered (user_interaction_service.py).
THEOREM AnswerTold == Spec => []AnswerReachesTool
<1>1. Init => TInv /\ SettledInv /\ AnswerInv
  BY TInvInit
  DEF Init, SettledInv, SentAlone, Sent, AnswerSaved, AskAlone, Asking, AnswerInv,
     AnswerReachesTool, ToolOfResponse, AskedOwner, InTool, NoAttempt
<1>2. TInv /\ SettledInv /\ AnswerInv /\ [Next]_vars
        => TInv' /\ SettledInv' /\ AnswerInv'
  BY TInvStep, SettledStep, ToolOfResponseStep, AskedOwnerStep, AnswerStep
  DEF AnswerInv
<1>3. AnswerInv => AnswerReachesTool
  BY DEF AnswerInv
<1> QED BY <1>1, <1>2, <1>3, PTL DEF Spec
=============================================================================
