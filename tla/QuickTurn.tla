----------------------------- MODULE QuickTurn -----------------------------
(***************************************************************************)
(* One durable quick reply of NexusPilot: a Run, its                       *)
(* QuickResponseExecution row, the saved model attempts, tool calls,       *)
(* questions and events, and the worker processes that claim the row under *)
(* an expiring lease (services/quick_response_worker.py and what it calls).*)
(*                                                                         *)
(* One action is one committed transaction, or one external call between   *)
(* transactions.  Every commit of a worker passes the fence of             *)
(* conversation_body_session.py (OwnsClaim); the fence is NOT consulted    *)
(* when the provider or a tool is called, as in the code.  A worker's      *)
(* locals survive neither a crash nor the end of the claim.                *)
(***************************************************************************)
EXTENDS Naturals, FiniteSets

CONSTANTS
    Workers,    \* consumer processes (commands/workflow_worker.py)
    NoWorker,   \* execution_owner IS NULL
    MaxRounds,  \* bound: model rounds of a turn; the last one answers
    MaxDeltas,  \* bound: text events of a turn
    MaxFaults,  \* bound: crashes, stalls, storage faults and interruptions
    ToolLoop    \* TRUE: the shared tool loop; FALSE: a plain single call

ASSUME QuickTurnAssumption ==
    /\ NoWorker \notin Workers
    /\ MaxRounds \in Nat \ {0}
    /\ MaxDeltas \in Nat
    /\ MaxFaults \in Nat
    /\ ToolLoop \in BOOLEAN

VARIABLES
    run,        \* LlmRun.status
    exec,       \* the QuickResponseExecution row
    attempts,   \* round -> the LlmModelAttempt saved under its round key
    tools,      \* round -> status of its LlmModelToolCall
    asks,       \* round -> status of its UserInteraction
    events,     \* sequence -> kind of the QuickResponseEvent saved there
    replies,    \* assistant messages of the Run
    pc,         \* worker -> where its job stands
    claim,      \* worker -> ResponseClaim.version
    seq,        \* worker -> local `sequence'
    round,      \* worker -> local round
    note,       \* worker -> event about to be saved, or how the job ended
    cancelling, \* worker -> a task.cancel() not delivered yet
    beating,    \* worker -> its heartbeat task is still running
    calls,      \* history: round -> provider calls made
    effects,    \* history: round -> tool operations performed
    faults      \* faults so far

durable == <<run, exec, attempts, tools, asks, events, replies>>
local   == <<pc, claim, seq, round, note, cancelling, beating>>
history == <<calls, effects, faults>>
vars    == <<durable, local, history>>

Rounds    == 1..MaxRounds
MaxEvents == MaxDeltas + 2
Slots     == 1..MaxEvents

RunStatus     == {"pending", "running", "completed", "failed", "cancelled"}
ExecStatus    == {"absent", "queued", "running", "waiting_for_input",
                  "completed", "failed", "cancelled", "outcome_unknown"}
AttemptStatus == {"none", "started", "completed", "failed", "cancelled",
                  "outcome_unknown"}
ToolStatus    == {"none", "requested", "running", "waiting_for_input",
                  "completed", "failed", "permission_denied", "timed_out",
                  "cancelled"}
AskStatus     == {"none", "pending", "resolved", "expired", "cancelled"}
EventKind     == {"none", "delta", "completed", "failed"}
Reply         == {"none", "text", "tool", "question"}
Lease         == {"none", "live", "expired"}
Control       == {"idle", "start", "round", "dispatch", "provider", "answered",
                  "tool", "perform", "effect", "result", "ask", "suspended",
                  "publish", "delivered", "finish"}
Note          == {"none", "delta", "completed", "failed",
                  "interrupted", "broken"}

\* Execution states no worker takes up again.
Released == {"completed", "failed", "cancelled", "outcome_unknown"}

\* The attempt of a round that nothing has been saved for.
NoAttempt == [status |-> "none", reply |-> "none"]

\* The rows of the database, the locals of the workers, the histories.
RowsOK ==
    /\ run \in RunStatus
    /\ exec \in [status : ExecStatus, owner : Workers \cup {NoWorker},
                 version : Nat, lease : Lease]
    /\ attempts \in [Rounds -> [status : AttemptStatus, reply : Reply]]
    /\ tools \in [Rounds -> ToolStatus]
    /\ asks \in [Rounds -> AskStatus]
    /\ events \in [Slots -> EventKind]
    /\ replies \in Nat

LocalsOK ==
    /\ pc \in [Workers -> Control]
    /\ claim \in [Workers -> Nat]
    /\ seq \in [Workers -> 0..MaxEvents]
    /\ round \in [Workers -> Rounds]
    /\ note \in [Workers -> Note]
    /\ cancelling \in [Workers -> BOOLEAN]
    /\ beating \in [Workers -> BOOLEAN]

HistoryOK ==
    /\ calls \in [Rounds -> Nat]
    /\ effects \in [Rounds -> Nat]
    /\ faults \in 0..MaxFaults

\* Type correctness.
TypeOK == RowsOK /\ LocalsOK /\ HistoryOK

Init ==
    /\ run = "pending"
    /\ exec = [status |-> "absent", owner |-> NoWorker, version |-> 0,
               lease |-> "none"]
    /\ attempts = [r \in Rounds |-> NoAttempt]
    /\ tools = [r \in Rounds |-> "none"]
    /\ asks = [r \in Rounds |-> "none"]
    /\ events = [s \in Slots |-> "none"]
    /\ replies = 0
    /\ pc = [w \in Workers |-> "idle"]
    /\ claim = [w \in Workers |-> 0]
    /\ seq = [w \in Workers |-> 0]
    /\ round = [w \in Workers |-> 1]
    /\ note = [w \in Workers |-> "none"]
    /\ cancelling = [w \in Workers |-> FALSE]
    /\ beating = [w \in Workers |-> FALSE]
    /\ calls = [r \in Rounds |-> 0]
    /\ effects = [r \in Rounds |-> 0]
    /\ faults = 0

-----------------------------------------------------------------------------
(* Acceptance and the database lease *)

\* accept_quick_response: the owned Run is still pending and has no row yet.
\* A repeated submission finds the row and writes nothing.
Accept ==
    /\ exec.status = "absent"
    /\ run = "pending"
    /\ exec' = [exec EXCEPT !.status = "queued"]
    /\ UNCHANGED <<run, attempts, tools, asks, events, replies, local, history>>

\* Mutated fence: the owner's name alone, without version and expiry.
OwnsClaimByName(w) == exec.owner = w

\* verify_response_claim, which every commit of a worker's session passes.  The
\* execution's status plays no part in it.
OwnsClaim(w) ==
    /\ exec.owner = w
    /\ exec.version = claim[w]
    /\ exec.lease = "live"

\* The job of w ends and its locals are gone; nothing is written.
Retire(w) ==
    /\ pc' = [pc EXCEPT ![w] = "idle"]
    /\ claim' = [claim EXCEPT ![w] = 0]
    /\ seq' = [seq EXCEPT ![w] = 0]
    /\ round' = [round EXCEPT ![w] = 1]
    /\ note' = [note EXCEPT ![w] = "none"]
    /\ cancelling' = [cancelling EXCEPT ![w] = FALSE]
    /\ beating' = [beating EXCEPT ![w] = FALSE]

\* w moves on to l, keeping its claim, its counters and its heartbeat.
Goto(w, l) ==
    /\ pc' = [pc EXCEPT ![w] = l]
    /\ UNCHANGED <<claim, seq, round, note, cancelling, beating>>

\* w goes to l carrying n: an event to save, or how the job was interrupted.
Carry(w, l, n) ==
    /\ pc' = [pc EXCEPT ![w] = l]
    /\ note' = [note EXCEPT ![w] = n]
    /\ UNCHANGED <<claim, seq, round, cancelling, beating>>

\* Mutated count: a resumed job numbers its events from the start again.
IsLastReset(n) == n = 0

\* n is max(QuickResponseEvent.sequence), or 0 of none.
IsLast(n) ==
    /\ n # 0 => events[n] # "none"
    /\ \A s \in Slots : s > n => events[s] = "none"

\* Mutated claim: a crashed job is never taken up.
ClaimableQueued == exec.status = "queued" /\ exec.lease # "live"

\* What claim_response takes: queued or expired running work.
Claimable ==
    /\ exec.status \in {"queued", "running"}
    /\ exec.lease # "live"

\* claim_response, and the opening of _execute_claim, which reads the saved
\* sequence once and counts on from it in memory.
Claim(w) ==
    /\ pc[w] = "idle"
    /\ Claimable
    /\ exec' = [status |-> "running", owner |-> w,
                version |-> exec.version + 1, lease |-> "live"]
    /\ pc' = [pc EXCEPT ![w] = "start"]
    /\ claim' = [claim EXCEPT ![w] = exec.version + 1]
    /\ \E n \in 0..MaxEvents : IsLast(n) /\ seq' = [seq EXCEPT ![w] = n]
    /\ beating' = [beating EXCEPT ![w] = TRUE]
    /\ UNCHANGED <<run, attempts, tools, asks, events, replies,
                   round, note, cancelling, history>>

\* A commit of w that the fence refuses: rollback and ResourceConflictError,
\* whose handlers commit again, and are refused again, until the job ends.
FencedOut(w) ==
    /\ pc[w] \in {"start", "round", "provider", "perform", "result", "ask",
                  "publish", "finish"}
    /\ ~OwnsClaim(w)
    /\ Retire(w)
    /\ UNCHANGED <<durable, history>>

\* The lease of a claim nobody works under runs out.
LapseUnheld ==
    /\ exec.lease = "live"
    /\ \A w \in Workers : pc[w] # "idle" => ~OwnsClaim(w)
    /\ exec' = [exec EXCEPT !.lease = "expired"]
    /\ UNCHANGED <<run, attempts, tools, asks, events, replies, local, history>>

\* The lease runs out under a worker whose heartbeat stalled for its length.
LapseHeld ==
    /\ faults < MaxFaults
    /\ exec.lease = "live"
    /\ \E w \in Workers : pc[w] # "idle" /\ OwnsClaim(w)
    /\ exec' = [exec EXCEPT !.lease = "expired"]
    /\ faults' = faults + 1
    /\ UNCHANGED <<run, attempts, tools, asks, events, replies, local,
                   calls, effects>>

\* renew_response_claim renews nothing: the heartbeat cancels the job and ends.
Heartbeat(w) ==
    /\ beating[w]
    /\ ~ (OwnsClaim(w) /\ exec.status = "running")
    /\ cancelling' = [cancelling EXCEPT ![w] = TRUE]
    /\ beating' = [beating EXCEPT ![w] = FALSE]
    /\ UNCHANGED <<durable, pc, claim, seq, round, note, history>>

\* watch_run_cancellation sees the Run cancelled while the provider streams; it
\* also watches while the worker saves the event the stream is suspended on.
WatchRun(w) ==
    /\ pc[w] = "provider" \/ (pc[w] = "publish" /\ note[w] = "delta")
    /\ run = "cancelled"
    /\ ~cancelling[w]
    /\ cancelling' = [cancelling EXCEPT ![w] = TRUE]
    /\ UNCHANGED <<durable, pc, claim, seq, round, note, beating, history>>

\* A worker process dies; or it is told to stop, its heartbeat breaks, or the
\* stream's deadline passes, each of which cancels the job.
Crash(w) ==
    /\ pc[w] # "idle"
    /\ faults < MaxFaults
    /\ faults' = faults + 1
    /\ Retire(w)
    /\ UNCHANGED <<durable, calls, effects>>

Interrupt(w) ==
    /\ pc[w] # "idle"
    /\ ~cancelling[w]
    /\ faults < MaxFaults
    /\ faults' = faults + 1
    /\ cancelling' = [cancelling EXCEPT ![w] = TRUE]
    /\ UNCHANGED <<durable, pc, claim, seq, round, note, beating,
                   calls, effects>>

-----------------------------------------------------------------------------
(* The turn: rounds of one model attempt and at most one tool call each *)

\* ConversationResponseService._start: take the pending Run, resume one that
\* this execution already runs, refuse any other.
StartRun(w) ==
    /\ pc[w] = "start"
    /\ run = "pending"
    /\ OwnsClaim(w)
    /\ run' = "running"
    /\ Goto(w, "round")
    /\ UNCHANGED <<exec, attempts, tools, asks, events, replies, history>>

ResumeRun(w) ==
    /\ pc[w] = "start"
    /\ run = "running"
    /\ Goto(w, "round")
    /\ UNCHANGED <<durable, history>>

RefuseRun(w) ==
    /\ pc[w] = "start"
    /\ run \notin {"pending", "running"}
    /\ Carry(w, "finish", "broken")
    /\ UNCHANGED <<durable, history>>

\* Mutated check: an attempt left unresolved is sent again.
MayDispatchUnresolved(r) == attempts[r].status \in {"none", "started"}

\* completed_response and the request-key check of _start_model_attempt: a round
\* is dispatched only if nothing at all is saved under its key.
MayDispatch(r) == attempts[r].status = "none"

StartAttempt(w) ==
    /\ pc[w] = "round"
    /\ MayDispatch(round[w])
    /\ OwnsClaim(w)
    /\ attempts' = [attempts EXCEPT
                        ![round[w]] = [NoAttempt EXCEPT !.status = "started"]]
    /\ Goto(w, "dispatch")
    /\ UNCHANGED <<run, exec, tools, asks, events, replies, history>>

\* A completed response either is the reply or asks for a tool.
TakeResponse(w) ==
    IF attempts[round[w]].reply = "text"
    THEN Carry(w, "publish", "completed")
    ELSE Goto(w, "tool")

\* completed_response finds the saved result and skips the provider.
ReuseAttempt(w) ==
    /\ pc[w] = "round"
    /\ attempts[round[w]].status = "completed"
    /\ TakeResponse(w)
    /\ UNCHANGED <<durable, history>>

\* completed_response finds anything else: QuickResponseOutcomeUnknown.
RefuseAttempt(w) ==
    /\ pc[w] = "round"
    /\ attempts[round[w]].status \notin {"none", "completed"}
    /\ Carry(w, "finish", "interrupted")
    /\ UNCHANGED <<durable, history>>

\* An exception of the turn: before the loop has any response it reaches the
\* worker, later the loop turns it into a FAILED event.
Raise(w) ==
    IF ToolLoop /\ round[w] > 1 THEN Carry(w, "publish", "failed")
                                ELSE Carry(w, "finish", "broken")

\* Limits, a deadline or revoked history end the turn between two rounds.
GiveUp(w) ==
    /\ pc[w] = "round"
    /\ Raise(w)
    /\ UNCHANGED <<durable, history>>

\* The saved raw request cannot be stored: the attempt fails undispatched.
RequestNotSaved(w) ==
    /\ pc[w] = "dispatch"
    /\ faults < MaxFaults
    /\ OwnsClaim(w)
    /\ attempts' = [attempts EXCEPT ![round[w]].status = "failed"]
    /\ faults' = faults + 1
    /\ Raise(w)
    /\ UNCHANGED <<run, exec, tools, asks, events, replies, calls, effects>>

\* watch_run_cancellation looks at the Run once more; then the adapter is
\* entered, under no fence.
Dispatch(w) ==
    /\ pc[w] = "dispatch"
    /\ run # "cancelled"
    /\ calls' = [calls EXCEPT ![round[w]] = @ + 1]
    /\ Goto(w, "provider")
    /\ UNCHANGED <<durable, effects, faults>>

DispatchCancelled(w) ==
    /\ pc[w] = "dispatch"
    /\ run = "cancelled"
    /\ attempts' = [attempts EXCEPT ![round[w]].status =
                        IF OwnsClaim(w) THEN "outcome_unknown" ELSE @]
    /\ Carry(w, "finish", "interrupted")
    /\ UNCHANGED <<run, exec, tools, asks, events, replies, history>>

\* The provider streams a text event.
Stream(w) ==
    /\ pc[w] = "provider"
    /\ seq[w] < MaxDeltas
    /\ Carry(w, "publish", "delta")
    /\ UNCHANGED <<durable, history>>

\* What the model may answer in round r; the plain call has no tools, and the
\* last round the bound allows is one that answers.
Answers(r) ==
    IF ToolLoop /\ r < MaxRounds THEN {"text", "tool", "question"} ELSE {"text"}

\* _complete_model_attempt, shielded from cancellation: raw response, normalized
\* result and COMPLETED status in one commit.
Answer(w) ==
    /\ pc[w] = "provider"
    /\ OwnsClaim(w)
    /\ \E reply \in Answers(round[w]) :
        attempts' = [attempts EXCEPT
                ![round[w]] = [status |-> "completed", reply |-> reply]]
    /\ Goto(w, "answered")
    /\ UNCHANGED <<run, exec, tools, asks, events, replies, history>>

Proceed(w) ==
    /\ pc[w] = "answered"
    /\ TakeResponse(w)
    /\ UNCHANGED <<durable, history>>

\* The provider fails or times out; or it answers and the answer cannot be
\* saved, which leaves the attempt failed or unknown.  A FAILED event follows.
ProviderFails(w) ==
    /\ pc[w] = "provider"
    /\ OwnsClaim(w)
    /\ \E status \in {"failed", "outcome_unknown"} :
        attempts' = [attempts EXCEPT ![round[w]].status = status]
    /\ Carry(w, "publish", "failed")
    /\ UNCHANGED <<run, exec, tools, asks, events, replies, history>>

\* The provider's stream ends without a completion; the attempt stays started.
StreamEnds(w) ==
    /\ pc[w] = "provider"
    /\ IF ToolLoop THEN Carry(w, "publish", "failed")
                   ELSE Carry(w, "finish", "broken")
    /\ UNCHANGED <<durable, history>>

-----------------------------------------------------------------------------
(* The tool call of a round *)

\* completed_tool: the saved outcomes that stand for the operation itself.
ReusableTool == {"completed", "failed", "permission_denied"}

NextRound(w) ==
    /\ pc' = [pc EXCEPT ![w] = "round"]
    /\ round' = [round EXCEPT ![w] = @ + 1]
    /\ UNCHANGED <<claim, seq, note, cancelling, beating>>

ReuseTool(w) ==
    /\ pc[w] = "tool"
    /\ tools[round[w]] \in ReusableTool
    /\ NextRound(w)
    /\ UNCHANGED <<durable, history>>

RefuseTool(w) ==
    /\ pc[w] = "tool"
    /\ tools[round[w]] \notin ReusableTool \cup {"none"}
    /\ Carry(w, "finish", "interrupted")
    /\ UNCHANGED <<durable, history>>

\* Save status for the tool of w's round: a fenced commit.
SaveTool(w, status) ==
    /\ OwnsClaim(w)
    /\ tools' = [tools EXCEPT ![round[w]] = status]
    /\ UNCHANGED <<run, exec, attempts, asks, events, replies, history>>

RequestTool(w) ==
    /\ pc[w] = "tool"
    /\ tools[round[w]] = "none"
    /\ SaveTool(w, "requested")
    /\ Goto(w, "perform")

\* The policy refuses the call or its arguments; the loop goes on without it.
DenyTool(w) ==
    /\ pc[w] = "perform"
    /\ \E status \in {"permission_denied", "failed"} : SaveTool(w, status)
    /\ NextRound(w)

AllowTool(w) ==
    /\ pc[w] = "perform"
    /\ SaveTool(w, "running")
    /\ Goto(w, IF attempts[round[w]].reply = "question" THEN "ask" ELSE "effect")

\* The operation itself, under no fence.
PerformTool(w) ==
    /\ pc[w] = "effect"
    /\ effects' = [effects EXCEPT ![round[w]] = @ + 1]
    /\ Goto(w, "result")
    /\ UNCHANGED <<durable, calls, faults>>

SaveResult(w) ==
    /\ pc[w] = "result"
    /\ \E status \in {"completed", "failed", "permission_denied", "timed_out"} :
        SaveTool(w, status)
    /\ NextRound(w)

\* An unforeseen error of the operation: saved as failed and raised.
ToolBreaks(w) ==
    /\ pc[w] = "result"
    /\ SaveTool(w, "failed")
    /\ Carry(w, "publish", "failed")

\* create_interaction, under the Run's lock: question, waiting tool and waiting
\* execution in one commit; a Run that is no longer running denies the tool.
Ask(w) ==
    /\ pc[w] = "ask"
    /\ run = "running"
    /\ OwnsClaim(w)
    /\ tools' = [tools EXCEPT ![round[w]] = "waiting_for_input"]
    /\ asks' = [asks EXCEPT ![round[w]] = "pending"]
    /\ exec' = [exec EXCEPT !.status = "waiting_for_input"]
    /\ Goto(w, "suspended")
    /\ UNCHANGED <<run, attempts, events, replies, history>>

AskRefused(w) ==
    /\ pc[w] = "ask"
    /\ run # "running"
    /\ SaveTool(w, "permission_denied")
    /\ NextRound(w)

\* InteractionPending leaves the job without touching what was committed.
Suspend(w) ==
    /\ pc[w] = "suspended"
    /\ Retire(w)
    /\ UNCHANGED <<durable, history>>

-----------------------------------------------------------------------------
(* Events, the reply and the end of a job *)

\* Mutated check: a late event is saved whatever became of the Run.
RunTakesEventsAlways == TRUE

\* The Run as it is read again, under its lock, before each event.
RunTakesEvents == run # "cancelled"

\* The body of the event loop in _execute_claim: under the Run's lock, save the
\* event and, with the last one, the message and both terminal states.
Publish(w) ==
    /\ pc[w] = "publish"
    /\ RunTakesEvents
    /\ OwnsClaim(w)
    /\ seq[w] < MaxEvents
    /\ events[seq[w] + 1] = "none"
    /\ events' = [events EXCEPT ![seq[w] + 1] = note[w]]
    /\ seq' = [seq EXCEPT ![w] = @ + 1]
    /\ IF note[w] = "delta"
       THEN UNCHANGED <<run, exec, replies>>
       ELSE /\ run' = note[w]
            /\ exec' = [exec EXCEPT !.status = note[w]]
            /\ \/ replies' = replies        \* a failure, or an empty text
               \/ note[w] = "completed" /\ replies' = replies + 1
    /\ pc' = [pc EXCEPT ![w] = IF note[w] = "delta" THEN "provider"
                                                    ELSE "delivered"]
    /\ UNCHANGED <<attempts, tools, asks, claim, round, note, cancelling,
                   beating, history>>

\* Run cancellation is authoritative even when a provider returns late.
PublishCancelled(w) ==
    /\ pc[w] = "publish"
    /\ ~RunTakesEvents
    /\ Carry(w, "finish", "interrupted")
    /\ UNCHANGED <<durable, history>>

\* The event object cannot be stored, or its sequence is already taken.
PublishBreaks(w) ==
    /\ pc[w] = "publish"
    /\ seq[w] < MaxEvents
    /\ events[seq[w] + 1] # "none" \/ faults < MaxFaults
    /\ faults' = IF events[seq[w] + 1] # "none" THEN faults ELSE faults + 1
    /\ Carry(w, "finish", "broken")
    /\ UNCHANGED <<durable, calls, effects>>

\* The terminal commit is acknowledged and the stream closes quietly.
Deliver(w) ==
    /\ pc[w] = "delivered"
    /\ Retire(w)
    /\ UNCHANGED <<durable, history>>

\* A plain call's stream is still open around its own completion: the deadline
\* or the watcher's last read can fail there, and a FAILED event follows.
FailLate(w) ==
    /\ ~ToolLoop
    /\ pc[w] = "delivered"
    /\ note[w] = "completed"
    /\ faults < MaxFaults
    /\ faults' = faults + 1
    /\ Carry(w, "publish", "failed")
    /\ UNCHANGED <<durable, calls, effects>>

\* The generator behind the stream comes to its end.
CloseStream(w) ==
    /\ pc[w] = "delivered"
    /\ Deliver(w) \/ FailLate(w)

\* Mutated handler: it does not look at what has been saved meanwhile.
AfterCancelBlind(w) ==
    IF pc[w] \in {"dispatch", "provider", "answered"} THEN {"outcome_unknown"}
    ELSE {attempts[round[w]].status}

\* What cancellation at an await leaves of the attempt: the provider's answer
\* is unknown once it may have been called, and a saved completion stands.
AfterCancel(w) ==
    LET saved == attempts[round[w]].status IN
    IF pc[w] \in {"dispatch", "provider", "answered"} /\ saved = "started"
    THEN (IF pc[w] = "dispatch" THEN {"cancelled"} ELSE {}) \cup {"outcome_unknown"}
    ELSE {saved}

\* CancelledError reaches the job at the await it stands at.  The attempt's and
\* the tool's handlers commit what they know, if the fence lets them.
Cancelled(w) ==
    /\ cancelling[w]
    /\ pc[w] \notin {"idle", "finish"}
    /\ IF OwnsClaim(w)
       THEN /\ \E status \in AfterCancel(w) :
                attempts' = [attempts EXCEPT ![round[w]].status = status]
            /\ tools' = [tools EXCEPT ![round[w]] =
                    IF pc[w] \in {"perform", "effect", "result", "ask", "suspended"}
                    THEN "cancelled" ELSE @]
       ELSE UNCHANGED <<attempts, tools>>
    /\ pc' = [pc EXCEPT ![w] = "finish"]
    /\ note' = [note EXCEPT ![w] = "interrupted"]
    /\ cancelling' = [cancelling EXCEPT ![w] = FALSE]
    /\ UNCHANGED <<run, exec, asks, events, replies, claim, seq, round, beating,
                   history>>

\* Mutated status: an explicit cancellation is not told apart.
EndStatusBlind(w) ==
    IF note[w] = "interrupted" THEN "outcome_unknown" ELSE "failed"

\* The execution's status after an interruption; what it was does not matter.
EndStatus(w) ==
    IF run = "cancelled" THEN "cancelled"
    ELSE IF note[w] = "interrupted" THEN "outcome_unknown"
    ELSE "failed"

\* The Run after an interruption, unless it has ended already.
RunAfter(w) == IF run \in {"pending", "running"} THEN "failed" ELSE run

\* finish_interrupted_response.
FinishInterrupted(w) ==
    /\ pc[w] = "finish"
    /\ OwnsClaim(w)
    /\ exec' = [exec EXCEPT !.status = EndStatus(w)]
    /\ run' = RunAfter(w)
    /\ Retire(w)
    /\ UNCHANGED <<attempts, tools, asks, events, replies, history>>

\* A second cancellation abandons finish_interrupted_response itself.
FinishCancelled(w) ==
    /\ pc[w] = "finish"
    /\ cancelling[w]
    /\ Retire(w)
    /\ UNCHANGED <<durable, history>>

-----------------------------------------------------------------------------
(* The user: cancellation, replies, and the expiry of questions *)

\* cancel_interactions, inside the caller's transaction.
CancelAsks ==
    /\ asks' = [r \in Rounds |-> IF asks[r] = "pending" THEN "cancelled"
                                                        ELSE asks[r]]
    /\ tools' = [r \in Rounds |-> IF asks[r] = "pending" THEN "cancelled"
                                                         ELSE tools[r]]
    /\ exec' = [exec EXCEPT !.status =
                    IF @ = "waiting_for_input" THEN "cancelled" ELSE @]

\* cancel_run of a Run without tasks.
CancelRun ==
    /\ run \in {"pending", "running"}
    /\ run' = "cancelled"
    /\ CancelAsks
    /\ UNCHANGED <<attempts, events, replies, local, history>>

\* Mutated requeue: the old claim stays valid.
ResumedExecUnfenced == [exec EXCEPT !.status = "queued"]

\* resume_execution: requeue, and fence the consumer that may still unwind.
ResumedExec == [status |-> "queued", owner |-> NoWorker,
                version |-> exec.version + 1, lease |-> "none"]

\* An open question of a live Run.
Answerable(r) == asks[r] = "pending" /\ run = "running"

\* The question of r is over and its tool completed: back to the queue.
SettleAsk(r, status) ==
    /\ Answerable(r)
    /\ asks' = [asks EXCEPT ![r] = status]
    /\ tools' = [tools EXCEPT ![r] = "completed"]
    /\ exec' = ResumedExec
    /\ UNCHANGED <<run, attempts, events, replies, local, history>>

\* reply_to_interaction: the first matching reply; a repeated one writes nothing.
ReplyToAsk(r) == SettleAsk(r, "resolved")

\* Mutated sweep: questions of a Run that has ended are passed over.
ExpireRunningAsk(r) == SettleAsk(r, "expired")

\* expire_interactions, for one overdue question.
ExpireAsk(r) ==
    \/ SettleAsk(r, "expired")
    \/ /\ asks[r] = "pending"
       /\ run # "running"
       /\ CancelAsks
       /\ UNCHANGED <<run, attempts, events, replies, local, history>>

-----------------------------------------------------------------------------
\* What a worker does of its own accord ...
Work(w) ==
    \/ Claim(w) \/ FencedOut(w) \/ Heartbeat(w) \/ WatchRun(w)
    \/ StartRun(w) \/ ResumeRun(w) \/ RefuseRun(w)
    \/ StartAttempt(w) \/ ReuseAttempt(w) \/ RefuseAttempt(w) \/ GiveUp(w)
    \/ Dispatch(w) \/ DispatchCancelled(w) \/ Stream(w) \/ Answer(w)
    \/ Proceed(w) \/ ProviderFails(w) \/ StreamEnds(w)
    \/ ReuseTool(w) \/ RefuseTool(w) \/ RequestTool(w) \/ DenyTool(w)
    \/ AllowTool(w) \/ PerformTool(w) \/ SaveResult(w) \/ ToolBreaks(w)
    \/ Ask(w) \/ AskRefused(w) \/ Suspend(w)
    \/ Publish(w) \/ PublishCancelled(w) \/ PublishBreaks(w) \/ CloseStream(w)
    \/ Cancelled(w) \/ FinishInterrupted(w) \/ FinishCancelled(w)

\* ... and what may befall it.
Fault(w) == Crash(w) \/ Interrupt(w) \/ RequestNotSaved(w)

Next ==
    \/ Accept \/ CancelRun \/ LapseUnheld \/ LapseHeld
    \/ \E r \in Rounds : ReplyToAsk(r) \/ ExpireAsk(r)
    \/ \E w \in Workers : Work(w) \/ Fault(w)

\* A process that is up keeps polling and its job keeps running; an unheld
\* lease runs out; the sweep of overdue questions reaches each of them.  Nobody
\* has to submit, cancel or reply.
Fairness ==
    /\ \A w \in Workers : WF_vars(Work(w))
    /\ WF_vars(LapseUnheld)
    /\ \A r \in Rounds : WF_vars(ExpireAsk(r))

Spec     == Init /\ [][Next]_vars
FairSpec == Spec /\ Fairness

-----------------------------------------------------------------------------
(* Properties *)

\* Whatever crashes, stalls and takeovers happen, no round is sent to the
\* provider twice and no tool operation performed twice
\* (quick_response_worker.py:1, "do not replay unknown calls").
AtMostOnce == \A r \in Rounds : calls[r] <= 1 /\ effects[r] <= 1

\* What the execution row says of its end agrees with the Run; a Run that ended
\* on its own leaves no execution behind that a worker would take up, and one that
\* waits has a live Run and exactly one open question that can end the waiting.
Agreement ==
    /\ exec.status = "completed" => run = "completed"
    /\ exec.status = "failed" => run = "failed"
    /\ exec.status = "cancelled" => run = "cancelled"
    /\ exec.status = "outcome_unknown" => run \in {"completed", "failed"}
    /\ run \in {"completed", "failed"} => exec.status \in Released
    /\ exec.status = "waiting_for_input" =>
          run = "running" /\ Cardinality({r \in Rounds : asks[r] = "pending"}) = 1

\* The claim w works under is no longer the row's, or has run out.
Superseded(w) == exec.version # claim[w] \/ exec.lease # "live"

\* Saved sequences have no gap, and the in-memory counter of the worker that
\* may still write is exactly the end of the log, also after a takeover.
LogInOrder ==
    /\ \A s \in Slots : events[s] # "none" => \A t \in 1..s : events[t] # "none"
    /\ \A w \in Workers : pc[w] # "idle" /\ exec.owner = w /\ ~Superseded(w) =>
            /\ seq[w] # 0 => events[seq[w]] # "none"
            /\ \A s \in Slots : s > seq[w] => events[s] = "none"

\* The model is told of an answer or an expiry exactly when there was one: the
\* tool record and the question never disagree about the outcome.
AnswerReachesTool ==
    \A r \in Rounds :
        /\ asks[r] \in {"resolved", "expired"} => tools[r] = "completed"
        /\ attempts[r].reply = "question" /\ tools[r] = "completed"
                => asks[r] \in {"resolved", "expired"}

\* w takes a step of its own.
Moves(w) == <<pc[w], claim[w], seq[w], round[w], note[w]>>'
            # <<pc[w], claim[w], seq[w], round[w], note[w]>>

\* A superseded or expired worker writes nothing, wherever its job stands
\* (quick_response_ownership.py:1, "Database leases fence quick-response writers").
Fenced ==
    [][\A w \in Workers :
        pc[w] # "idle" /\ Superseded(w) /\ Moves(w) => UNCHANGED durable]_vars

\* Once the Run is cancelled no late provider answer adds an event or a reply,
\* and the Run stays cancelled.
CancelIsFinal ==
    [][run = "cancelled" => UNCHANGED <<run, events, replies>>]_vars

\* What is settled stays settled, however late the other side comes: a saved
\* completion is never turned into an unknown or failed call by a cancellation or
\* another worker, and of reply, expiry and cancellation one settles a question.
SavedStands ==
    [][\A r \in Rounds :
          /\ attempts[r].status = "completed" => attempts'[r] = attempts[r]
          /\ asks[r] \in {"resolved", "expired", "cancelled"} => asks'[r] = asks[r]]_vars

\* Every accepted turn ends, whatever is left by crashes and cancellations.
TurnEnds == exec.status = "queued" ~> exec.status \in Released

\* Every open question is answered, expires or is cancelled.
QuestionsSettle == \A r \in Rounds : asks[r] = "pending" ~> asks[r] # "pending"

\* The turn as the one who asked sees it: whoever works on it, crashes or takes
\* over, its log, outcome and answer are those of ReplyPromise.
Promise == INSTANCE ReplyPromise WITH
    outcome <- IF run \in {"pending", "running"} THEN "open" ELSE run,
    log <- events, answers <- replies

PromiseKept == Promise!Spec

=============================================================================
