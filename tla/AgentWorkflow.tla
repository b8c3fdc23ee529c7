--------------------------- MODULE AgentWorkflow ---------------------------
(***************************************************************************)
(* One General Agent workflow of NexusPilot under the worker backend: the  *)
(* Run, its LlmAgentWorkflowExecution, the nodes `general_agent' (main),   *)
(* `final_synthesis' (final) and `workflow_completion' (completion), the   *)
(* main task, the model rounds and tool calls of the main node, its loop   *)
(* checkpoint and the answer message; the worker processes that claim the  *)
(* workflow, and a client that cancels it (features/agent_runtime).        *)
(*                                                                         *)
(* One action is one committed transaction, one external call, or one      *)
(* decision from what was read.  A transition of a workflow to failed or   *)
(* cancelled takes several commits, each an action of its own here.        *)
(***************************************************************************)
EXTENDS Naturals

CONSTANTS
    Workers,     \* consumer processes (commands/workflow_worker.py)
    NoWorker,    \* execution_owner IS NULL
    MaxRounds,   \* bound: model rounds of the main node; the last one answers
    MaxFaults,   \* bound: crashes, stalls and interruptions
    MaxVersion,  \* bound: lease versions, after which they are used again; an
                 \* owner always works under its last claim, so none is mistaken
    Snapshots,   \* TRUE: plain reads see their transaction's snapshot, which is
                 \* MySQL's default; FALSE: they see what is committed
    TimeLimited  \* the workflow's wall time may run out

ASSUME AgentWorkflowAssumption ==
    /\ NoWorker \notin Workers
    /\ MaxRounds \in Nat \ {0}
    /\ MaxFaults \in Nat
    /\ MaxVersion \in Nat \ {0, 1}
    /\ Snapshots \in BOOLEAN
    /\ TimeLimited \in BOOLEAN

VARIABLES
    wf,        \* the LlmAgentWorkflowExecution row: status, owner, version, lease
    run,       \* LlmRun.status
    task,      \* status of the main task
    nodes,     \* node key -> status of its LlmAgentWorkflowNodeExecution
    attempts,  \* round -> the LlmModelAttempt saved under its request key
    tools,     \* round -> status of its LlmModelToolCall
    asks,      \* round -> status of its UserInteraction
    saved,     \* the latest loop checkpoint
    messages,  \* assistant messages of the Run
    late,      \* the wall time has run out
    job,       \* worker -> the locals of its job
    client,    \* the cancelling request: where it stands, the Run it loaded
    calls,     \* history: round -> provider calls made
    effects,   \* history: round -> tool operations performed
    faults     \* faults so far

rounds  == <<attempts, tools, asks>>
durable == <<wf, run, task, nodes, rounds, saved, messages>>
history == <<calls, effects, faults>>
vars    == <<durable, late, job, client, history>>

Rounds == 1..MaxRounds
Node   == {"main", "final", "completion"}

WorkflowStatus == {"absent", "pending", "running", "waiting_for_input",
                   "completed", "failed", "cancelled", "outcome_unknown"}
RunStatus      == {"pending", "running", "completed", "failed",
                   "cancel_requested", "cancelled"}
TaskStatus     == {"none", "running", "completed", "cancel_requested"}
NodeStatus     == {"none", "running", "completed", "failed", "cancelled",
                   "outcome_unknown"}
AttemptStatus  == {"none", "started", "completed", "failed", "cancelled",
                   "outcome_unknown"}

\* open: requested or running; done: any outcome the model is told of.
ToolStatus == {"none", "open", "waiting_for_input", "done", "cancelled"}
AskStatus  == {"none", "pending", "resolved", "expired", "cancelled"}
Phase      == {"none", "before_model", "model_response", "tool_result"}
Control    == {"idle", "begin", "enter", "loop", "model", "reserved", "dispatch",
               "provider", "answered", "keep", "respond", "tool", "perform",
               "effect", "result", "ask", "suspended", "progress", "kept",
               "finish", "final", "deliver", "close", "complete", "stop", "sweep", "end"}

\* _TERMINAL_WORKFLOW_STATUSES.
Ended == {"completed", "failed", "cancelled", "outcome_unknown"}

\* The locals of a worker: the claim's version, the loop's round, the status
\* its open transaction read (Snapshots), whether the handlers of `execute' are
\* around it, how it is about to end the workflow and which node it then ends,
\* and whether a cancellation was sent to it.
Job == [pc : Control, claim : 0..MaxVersion, round : Rounds,
        seen : WorkflowStatus \cup {"none"}, caught : BOOLEAN,
        ending : {"none", "failed", "cancelled", "outcome_unknown"},
        victim : Node \cup {"none"}, cancelling : {"no", "sent", "due"},
        beating : BOOLEAN]

NoJob == [pc |-> "idle", claim |-> 0, round |-> 1, seen |-> "none",
          caught |-> FALSE, ending |-> "none", victim |-> "none",
          cancelling |-> "no", beating |-> FALSE]

NoAttempt == [status |-> "none", reply |-> "none"]
NoRequest == [pc |-> "idle", run |-> "none"]

\* Type correctness.
TypeOK ==
    /\ wf \in [status : WorkflowStatus, owner : Workers \cup {NoWorker},
               version : 0..MaxVersion, lease : {"none", "live", "expired"}]
    /\ run \in RunStatus
    /\ task \in TaskStatus
    /\ nodes \in [Node -> NodeStatus]
    /\ attempts \in [Rounds -> [status : AttemptStatus,
                                reply : {"none", "text", "tool", "question"}]]
    /\ tools \in [Rounds -> ToolStatus]
    /\ asks \in [Rounds -> AskStatus]
    /\ saved \in [phase : Phase, round : Rounds]
    /\ messages \in Nat
    /\ late \in BOOLEAN
    /\ job \in [Workers -> Job]
    /\ client \in [pc : {"idle", "app", "closing"}, run : RunStatus \cup {"none"}]
    /\ calls \in [Rounds -> Nat]
    /\ effects \in [Rounds -> Nat]
    /\ faults \in 0..MaxFaults

Init ==
    /\ wf = [status |-> "absent", owner |-> NoWorker, version |-> 0,
             lease |-> "none"]
    /\ run = "pending"
    /\ task = "none"
    /\ nodes = [n \in Node |-> "none"]
    /\ attempts = [r \in Rounds |-> NoAttempt]
    /\ tools = [r \in Rounds |-> "none"]
    /\ asks = [r \in Rounds |-> "none"]
    /\ saved = [phase |-> "none", round |-> 1]
    /\ messages = 0
    /\ late = FALSE
    /\ job = [w \in Workers |-> NoJob]
    /\ client = NoRequest
    /\ calls = [r \in Rounds |-> 0]
    /\ effects = [r \in Rounds |-> 0]
    /\ faults = 0

-----------------------------------------------------------------------------
(* Creation, claims and the lease *)

\* create_workflow: the Run is still open and has no workflow yet.
Create ==
    /\ wf.status = "absent"
    /\ run \in {"pending", "running"}
    /\ wf' = [wf EXCEPT !.status = "pending"]
    /\ run' = "running"
    /\ UNCHANGED <<task, nodes, rounds, saved, messages, late, job, client,
                   history>>

\* The wall time of a created workflow runs out.
TimeUp ==
    /\ TimeLimited
    /\ wf.status # "absent"
    /\ ~late
    /\ late' = TRUE
    /\ UNCHANGED <<durable, job, client, history>>

\* verify_execution_claim, which every commit of a worker's session passes; the
\* row lock it takes lasts until that commit.
OwnsClaim(w) ==
    /\ wf.owner = w
    /\ wf.version = job[w].claim
    /\ wf.lease = "live"

\* The await at which w stands returns.  A cancellation that was sent meanwhile
\* does not undo what it did, and is raised before w does anything more.
Become(w, next) ==
    job' = [job EXCEPT ![w] =
                [next EXCEPT !.cancelling = IF @ = "no" THEN "no" ELSE "due"]]

\* w goes on to l in a new transaction.
Goto(w, l) == Become(w, [job[w] EXCEPT !.pc = l, !.seen = "none"])

\* The job of w is over; its locals are gone.
Retire(w) == job' = [job EXCEPT ![w] = NoJob]

NextVersion == (wf.version % MaxVersion) + 1

\* Mutated eligibility: only work that nobody has begun.
ClaimablePending == wf.status = "pending" /\ wf.lease # "live"

\* claim_workflow: pending work, or running work nobody holds.
Claimable == wf.status \in {"pending", "running"} /\ wf.lease # "live"

Claim(w) ==
    /\ job[w].pc = "idle"
    /\ Claimable
    /\ wf' = [status |-> "running", owner |-> w,
              version |-> NextVersion, lease |-> "live"]
    /\ job' = [job EXCEPT ![w] = [NoJob EXCEPT !.pc = "begin", !.beating = TRUE,
                                               !.claim = NextVersion]]
    /\ UNCHANGED <<run, task, nodes, rounds, saved, messages, late, client,
                   history>>

\* A commit or a check of w that the fence refuses; the handlers commit through
\* the same session, are refused as well, and the job ends.
FencedOut(w) ==
    /\ job[w].pc \notin {"idle", "begin", "dispatch", "effect", "respond",
                         "suspended", "stop"}
    /\ ~OwnsClaim(w)
    /\ Retire(w)
    /\ UNCHANGED <<durable, late, client, history>>

\* The lease of a claim nobody works under runs out; or one whose heartbeat
\* stalled for its length.
LapseUnheld ==
    /\ wf.lease = "live"
    /\ \A w \in Workers : job[w].pc # "idle" => ~OwnsClaim(w)
    /\ wf' = [wf EXCEPT !.lease = "expired"]
    /\ UNCHANGED <<run, task, nodes, rounds, saved, messages, late, job, client,
                   history>>

LapseHeld ==
    /\ faults < MaxFaults
    /\ wf.lease = "live"
    /\ \E w \in Workers : job[w].pc # "idle" /\ OwnsClaim(w)
    /\ wf' = [wf EXCEPT !.lease = "expired"]
    /\ faults' = faults + 1
    /\ UNCHANGED <<run, task, nodes, rounds, saved, messages, late, job, client,
                   calls, effects>>

\* renew_claim renews running rows only; a refusal cancels the job.
Heartbeat(w) ==
    /\ job[w].beating
    /\ ~ (OwnsClaim(w) /\ wf.status = "running")
    /\ job' = [job EXCEPT ![w].cancelling = IF @ = "no" THEN "sent" ELSE @,
                           ![w].beating = FALSE]
    /\ UNCHANGED <<durable, late, client, history>>

RunCancelled == run \in {"cancel_requested", "cancelled"}

\* watch_run_cancellation, around the provider call.
WatchRun(w) ==
    /\ job[w].pc = "provider"
    /\ RunCancelled
    /\ job[w].cancelling = "no"
    /\ job' = [job EXCEPT ![w].cancelling = "sent"]
    /\ UNCHANGED <<durable, late, client, history>>

\* A worker process dies; or it is told to stop, which cancels the job.
Crash(w) ==
    /\ job[w].pc # "idle"
    /\ faults < MaxFaults
    /\ faults' = faults + 1
    /\ Retire(w)
    /\ UNCHANGED <<durable, late, client, calls, effects>>

Interrupt(w) ==
    /\ job[w].pc # "idle"
    /\ job[w].cancelling = "no"
    /\ faults < MaxFaults
    /\ faults' = faults + 1
    /\ job' = [job EXCEPT ![w].cancelling = "sent"]
    /\ UNCHANGED <<durable, late, client, calls, effects>>

-----------------------------------------------------------------------------
(* The running check, and how a job takes up a workflow *)

\* Where a transaction reads before it takes the row lock: the check that
\* follows then sees the status of that moment.
Reading == {"enter", "finish", "final", "deliver", "close"}

Look(w) ==
    /\ Snapshots
    /\ job[w].pc \in Reading
    /\ job[w].seen = "none"
    /\ job[w].cancelling = "no"
    /\ job' = [job EXCEPT ![w].seen = wf.status]
    /\ UNCHANGED <<durable, late, client, history>>

View(w) == IF job[w].seen = "none" THEN wf.status ELSE job[w].seen

\* Mutated check: ownership alone.
RunningOwnedOnly(w) == OwnsClaim(w) /\ ~late

\* ensure_workflow_running lets w go on: the fence, the status, the wall time.
Running(w) == OwnsClaim(w) /\ View(w) = "running" /\ ~late

\* An exception: the handlers of `execute' end the workflow as failed; outside
\* of them it escapes from the job, which ends without a trace.
Raise(w) ==
    IF job[w].caught
    THEN Become(w, [job[w] EXCEPT !.pc = "stop", !.seen = "none",
                                  !.ending = "failed"])
    ELSE Retire(w)

\* The check refuses: WorkflowExecutionStopped, or the exhausted wall time.
Stopped(w) ==
    /\ job[w].pc \in {"enter", "loop", "model", "answered", "tool", "progress",
                      "finish", "final", "deliver", "close", "complete"}
    /\ OwnsClaim(w)
    /\ ~Running(w)
    /\ Raise(w)
    /\ UNCHANGED <<durable, late, client, history>>

\* Limits and validations of the code that raise: history and deadline, call
\* and cost budget, an unusable response, no progress, the node limit.
GiveUp(w) ==
    /\ job[w].pc \in {"loop", "model", "reserved", "keep", "respond", "kept",
                      "finish", "final"}
    /\ Raise(w)
    /\ UNCHANGED <<durable, late, client, history>>

\* Something was called and nobody knows what became of it.
Unknown ==
    \E r \in Rounds : \/ attempts[r].status \in {"started", "outcome_unknown"}
                      \/ tools[r] = "open"

\* Mutated close: a final node is enough, complete or not.
ClosableStarted == nodes["main"] = "completed" /\ nodes["final"] # "none"

\* resume_saved_finalization: everything but the completion is complete.
Closable == nodes["main"] = "completed" /\ nodes["final"] = "completed"

\* load_loop_checkpoint: there is one, of a node that runs or is complete.
Resumable == saved.phase # "none" /\ nodes["main"] \in {"running", "completed"}

\* No node yet; or a main node before its first checkpoint and call.
Untouched ==
    \/ \A n \in Node : nodes[n] = "none"
    \/ /\ nodes["main"] = "running"
       /\ nodes["final"] = "none"
       /\ \A r \in Rounds : attempts[r].status = "none"

\* Where a checkpoint of each phase is taken up.
ResumeAt(w) ==
    CASE saved.phase = "before_model"   -> {<<"model", saved.round>>}
      [] saved.phase = "model_response" -> {<<"respond", saved.round>>}
      [] saved.phase = "tool_result"    -> {<<"loop", saved.round + 1>>}

\* execute_claim's decision.  What is unknown or has no checkpoint fails.
BeginResume(w) ==
    /\ job[w].pc = "begin"
    /\ ~Unknown /\ ~Closable /\ Resumable
    /\ \E at \in ResumeAt(w) :
        Become(w, [job[w] EXCEPT !.pc = at[1], !.round = at[2], !.caught = TRUE])
    /\ UNCHANGED <<durable, late, client, history>>

BeginNew(w) ==
    /\ job[w].pc = "begin"
    /\ ~Unknown /\ ~Closable /\ ~Resumable /\ Untouched
    /\ Become(w, [job[w] EXCEPT !.pc = "enter", !.caught = TRUE])
    /\ UNCHANGED <<durable, late, client, history>>

BeginClose(w) ==
    /\ job[w].pc = "begin"
    /\ ~Unknown /\ Closable
    /\ Goto(w, "close")
    /\ UNCHANGED <<durable, late, client, history>>

BeginFails(w) ==
    /\ job[w].pc = "begin"
    /\ Unknown \/ (~Closable /\ ~Resumable /\ ~Untouched)
    /\ Become(w, [job[w] EXCEPT !.pc = "stop", !.ending =
                    IF Unknown THEN "outcome_unknown" ELSE "failed"])
    /\ UNCHANGED <<durable, late, client, history>>

\* _new_task and _general_node: the task and the main node in one commit, or
\* those an earlier job left.
Enter(w) ==
    /\ job[w].pc = "enter"
    /\ Running(w)
    /\ IF nodes["main"] = "none"
       THEN nodes' = [nodes EXCEPT !["main"] = "running"] /\ task' = "running"
       ELSE UNCHANGED <<nodes, task>>
    /\ Goto(w, "loop")
    /\ UNCHANGED <<wf, run, rounds, saved, messages, late, client, history>>

-----------------------------------------------------------------------------
(* The tool loop of the main node *)

\* Mutated checkpoint: not saved.
CheckpointLost(phase, r) == saved' = saved

\* save_loop_checkpoint.
Checkpoint(phase, r) == saved' = [phase |-> phase, round |-> r]

NextRound(w) ==
    /\ Running(w)
    /\ job[w].pc = "loop"
    /\ Checkpoint("before_model", job[w].round)
    /\ Goto(w, "model")
    /\ UNCHANGED <<wf, run, task, nodes, rounds, messages, late, client, history>>

\* Mutated lookup: a call that failed is made again.
UnsentOrFailed(r) == attempts[r].status \in {"none", "failed"}

\* Nothing is saved under the round's request key.
Unsent(r) == attempts[r].status = "none"

\* A saved completion is taken as the answer, anything else is refused.
ReuseAttempt(w) ==
    /\ job[w].pc = "model"
    /\ Running(w)
    /\ ~Unsent(job[w].round)
    /\ IF attempts[job[w].round].status = "completed"
       THEN Goto(w, "keep") ELSE Raise(w)
    /\ UNCHANGED <<durable, late, client, history>>

\* reserve_model_call updates a running row only, whatever was read before.
Reserve(w) ==
    /\ job[w].pc = "model"
    /\ Running(w)
    /\ Unsent(job[w].round)
    /\ Goto(w, "reserved")
    /\ UNCHANGED <<durable, late, client, history>>

\* _start_model_attempt, under the fence alone.
StartAttempt(w) ==
    /\ job[w].pc = "reserved"
    /\ OwnsClaim(w)
    /\ Unsent(job[w].round)
    /\ attempts' = [attempts EXCEPT ![job[w].round].status = "started"]
    /\ Goto(w, "dispatch")
    /\ UNCHANGED <<wf, run, task, nodes, tools, asks, saved, messages, late,
                   client, history>>

\* The watcher reads the Run once more, then the adapter is entered.
Dispatch(w) ==
    /\ job[w].pc = "dispatch"
    /\ ~RunCancelled
    /\ calls' = [calls EXCEPT ![job[w].round] = @ + 1]
    /\ Goto(w, "provider")
    /\ UNCHANGED <<durable, late, client, effects, faults>>

\* What the model may answer; the last round the bound allows answers.
Answers(r) == IF r < MaxRounds THEN {"text", "tool", "question"} ELSE {"text"}

\* _complete_model_attempt, shielded from cancellation.
Answer(w) ==
    /\ job[w].pc = "provider"
    /\ OwnsClaim(w)
    /\ \E reply \in Answers(job[w].round) :
        attempts' = [attempts EXCEPT ![job[w].round] =
                        [status |-> "completed", reply |-> reply]]
    /\ Goto(w, "answered")
    /\ UNCHANGED <<wf, run, task, nodes, tools, asks, saved, messages, late,
                   client, history>>

\* The request or the answer cannot be saved, or the provider fails.
AttemptFails(w) ==
    /\ job[w].pc \in {"dispatch", "provider"}
    /\ OwnsClaim(w)
    /\ \E status \in IF job[w].pc = "dispatch" THEN {"failed"}
                     ELSE {"failed", "outcome_unknown"} :
        attempts' = [attempts EXCEPT ![job[w].round].status = status]
    /\ Raise(w)
    /\ UNCHANGED <<wf, run, task, nodes, tools, asks, saved, messages, late,
                   client, history>>

\* The running check after a call, in a transaction of its own: that of
\* record_tool_progress, or the one that gives back the reserved cost.
CheckPassed(w) ==
    /\ job[w].pc \in {"answered", "progress"}
    /\ Running(w)
    /\ Goto(w, IF job[w].pc = "answered" THEN "keep" ELSE "kept")
    /\ UNCHANGED <<durable, late, client, history>>

\* The checkpoint of the response, under the fence alone.
KeepResponse(w) ==
    /\ job[w].pc = "keep"
    /\ OwnsClaim(w)
    /\ Checkpoint("model_response", job[w].round)
    /\ Goto(w, "respond")
    /\ UNCHANGED <<wf, run, task, nodes, rounds, messages, late, client, history>>

\* The response is the candidate, or asks for a tool.
Respond(w) ==
    /\ job[w].pc = "respond"
    /\ Goto(w, IF attempts[job[w].round].reply = "text" THEN "finish" ELSE "tool")
    /\ UNCHANGED <<durable, late, client, history>>

\* Saved outcomes that are handed to the model again.
SettledTool == {"done", "cancelled"}

SaveTool(w, status) ==
    /\ OwnsClaim(w)
    /\ tools' = [tools EXCEPT ![job[w].round] = status]
    /\ UNCHANGED <<wf, run, task, nodes, attempts, asks, saved, messages, late,
                   client, history>>

\* A recorded call is reused or refused; a cancelled question has no result.
ReuseTool(w) ==
    /\ job[w].pc = "tool"
    /\ Running(w)
    /\ tools[job[w].round] # "none"
    /\ IF tools[job[w].round] \in SettledTool /\ asks[job[w].round] # "cancelled"
       THEN Goto(w, "progress") ELSE Raise(w)
    /\ UNCHANGED <<durable, late, client, history>>

\* AgentFileToolService.execute records the call before anything else ...
RequestTool(w) ==
    /\ job[w].pc = "tool"
    /\ Running(w)
    /\ tools[job[w].round] = "none"
    /\ SaveTool(w, "open")
    /\ Goto(w, "perform")

\* ... applies the policy, which may deny it ...
DenyTool(w) ==
    /\ job[w].pc = "perform"
    /\ SaveTool(w, "done")
    /\ Goto(w, "progress")

AllowTool(w) ==
    /\ job[w].pc = "perform"
    /\ SaveTool(w, "open")
    /\ Goto(w, IF attempts[job[w].round].reply = "question" THEN "ask" ELSE "effect")

\* ... and performs the operation, under no fence.
PerformTool(w) ==
    /\ job[w].pc = "effect"
    /\ effects' = [effects EXCEPT ![job[w].round] = @ + 1]
    /\ Goto(w, "result")
    /\ UNCHANGED <<durable, late, client, calls, faults>>

\* The outcome is saved; an unforeseen error is saved and raised.
SaveResult(w) ==
    /\ job[w].pc = "result"
    /\ SaveTool(w, "done")
    /\ Goto(w, "progress") \/ Raise(w)

\* The tool's own limit is a result like any other; the task's limit cancels the
\* call and raises.
ToolTimesOut(w) ==
    \/ /\ job[w].pc \in {"effect", "ask", "suspended"}
       /\ SaveTool(w, "done")
       /\ Goto(w, "progress")
    \/ /\ job[w].pc \in {"perform", "effect", "result", "ask", "suspended"}
       /\ SaveTool(w, "cancelled")
       /\ Raise(w)

\* create_interaction: question, waiting tool and waiting workflow in one commit
\* under the Run's lock; the workflow's status is not looked at.
Ask(w) ==
    /\ job[w].pc = "ask"
    /\ run = "running"
    /\ OwnsClaim(w)
    /\ tools' = [tools EXCEPT ![job[w].round] = "waiting_for_input"]
    /\ asks' = [asks EXCEPT ![job[w].round] = "pending"]
    /\ wf' = [wf EXCEPT !.status = "waiting_for_input"]
    /\ Goto(w, "suspended")
    /\ UNCHANGED <<run, task, nodes, attempts, saved, messages, late, client,
                   history>>

AskRefused(w) ==
    /\ job[w].pc = "ask"
    /\ run # "running"
    /\ SaveTool(w, "done")
    /\ Goto(w, "progress")

\* InteractionPending leaves the job.
Suspend(w) ==
    /\ job[w].pc = "suspended"
    /\ Retire(w)
    /\ UNCHANGED <<durable, late, client, history>>

\* The checkpoint of the tool's result, under the fence alone.
KeepResult(w) ==
    /\ job[w].pc = "kept"
    /\ OwnsClaim(w)
    /\ Checkpoint("tool_result", job[w].round)
    /\ Become(w, [job[w] EXCEPT !.pc = "loop", !.round = @ + 1])
    /\ UNCHANGED <<wf, run, task, nodes, rounds, messages, late, client, history>>

-----------------------------------------------------------------------------
(* The answer: main, final and completion node *)

\* Save status for node n under a passed check.
SaveNode(w, n, status) ==
    /\ Running(w)
    /\ nodes' = [nodes EXCEPT ![n] = status]

\* _finish_general_node: complete the main node, or find it completed.
FinishMain(w) ==
    /\ job[w].pc = "finish"
    /\ SaveNode(w, "main", "completed")
    /\ Goto(w, "final")
    /\ UNCHANGED <<wf, run, task, rounds, saved, messages, late, client, history>>

\* The main task is complete and the final node started, in one commit.
StartFinal(w) ==
    /\ job[w].pc = "final"
    /\ nodes["final"] = "none"
    /\ SaveNode(w, "final", "running")
    /\ task' = "completed"
    /\ Goto(w, "deliver")
    /\ UNCHANGED <<wf, run, rounds, saved, messages, late, client, history>>

\* Mutated delivery: the message is committed before the node.
DeliverMessageFirst(w) ==
    /\ job[w].pc = "deliver" \/ (job[w].pc = "final" /\ nodes["final"] # "none")
    /\ Running(w)
    /\ messages' = messages + 1
    /\ Goto(w, "close")
    /\ UNCHANGED <<wf, run, task, nodes, rounds, saved, late, client, history>>

\* The message and the completed final node in one commit; a final node that an
\* earlier job started is taken up.
Deliver(w) ==
    /\ \/ job[w].pc = "deliver"
       \/ job[w].pc = "final" /\ nodes["final"] # "none"
    /\ SaveNode(w, "final", "completed")
    /\ messages' = messages + 1
    /\ task' = "completed"
    /\ Goto(w, "close")
    /\ UNCHANGED <<wf, run, rounds, saved, late, client, history>>

\* _complete_workflow starts the completion node, unless there is one ...
StartCompletion(w) ==
    /\ job[w].pc = "close"
    /\ nodes["completion"] = "none"
    /\ SaveNode(w, "completion", "running")
    /\ Goto(w, "complete")
    /\ UNCHANGED <<wf, run, task, rounds, saved, messages, late, client, history>>

\* ... and complete_workflow ends node, workflow and Run together.
Complete(w) ==
    /\ \/ job[w].pc = "complete"
       \/ job[w].pc = "close" /\ nodes["completion"] # "none"
    /\ SaveNode(w, "completion", "completed")
    /\ wf' = [wf EXCEPT !.status = "completed"]
    /\ run' = "completed"
    /\ Retire(w)
    /\ UNCHANGED <<task, rounds, saved, messages, late, client, history>>

-----------------------------------------------------------------------------
(* Cancellation reaching a job, and how a job ends its workflow *)

\* What cancellation leaves of the attempt: the answer is unknown once the
\* provider may have been called, and a saved completion stands.
AfterCancel(w) ==
    LET status == attempts[job[w].round].status IN
    IF status = "started" /\ job[w].pc \in {"dispatch", "provider"}
    THEN (IF job[w].pc = "dispatch" /\ job[w].cancelling # "no" THEN {"cancelled"} ELSE {})
            \cup {"outcome_unknown"}
    ELSE {status}

\* CancelledError at the await w stands at, or from the watcher's first read.
\* Attempt and tool are settled under the fence; then `execute' takes over.
Cancelled(w) ==
    /\ job[w].pc \notin {"idle", "stop", "sweep", "end"}
    /\ job[w].cancelling # "no" \/ (job[w].pc = "dispatch" /\ RunCancelled)
    /\ IF OwnsClaim(w)
       THEN /\ \E status \in AfterCancel(w) :
                attempts' = [attempts EXCEPT ![job[w].round].status = status]
            /\ tools' = [tools EXCEPT ![job[w].round] =
                    IF job[w].pc \in {"perform", "effect", "result", "ask", "suspended"}
                    THEN "cancelled" ELSE @]
       ELSE UNCHANGED <<attempts, tools>>
    /\ IF job[w].caught
       THEN job' = [job EXCEPT ![w].pc = "stop", ![w].seen = "none",
                        ![w].ending = "cancelled", ![w].cancelling = "no"]
       ELSE Retire(w)
    /\ UNCHANGED <<wf, run, task, nodes, asks, saved, messages, late, client,
                   history>>

\* Mutated handler: the exception's class decides, not the saved attempts.
EndingByClass(w) == job[w].ending

\* How the workflow is ended: saved facts decide, not the exception's class.
Ending(w) ==
    IF \E r \in Rounds : attempts[r].status = "outcome_unknown"
    THEN "outcome_unknown" ELSE job[w].ending

RunningNodes == {n \in Node : nodes[n] = "running"}

\* fail_workflow and cancel_workflow first look, without a lock, whether it has
\* ended, and which node is running.
StopRead(w) ==
    /\ job[w].pc = "stop"
    /\ IF wf.status \in Ended
       THEN Retire(w)
       ELSE \E n \in IF RunningNodes = {} THEN {"none"} ELSE RunningNodes :
                Become(w, [job[w] EXCEPT !.pc = "sweep", !.victim = n,
                                         !.ending = Ending(w)])
    /\ UNCHANGED <<durable, late, client, history>>

\* _finalize_active_nodes and _finalize_child_execution_facts: the node read
\* before; the task of a General Agent has no agent run and is left alone.
EndNode(w) ==
    /\ job[w].pc = "sweep"
    /\ OwnsClaim(w)
    /\ nodes' = [n \in Node |-> IF n = job[w].victim THEN job[w].ending ELSE nodes[n]]
    /\ Goto(w, "end")
    /\ UNCHANGED <<wf, run, task, rounds, saved, messages, late, client, history>>

\* cancel_interactions, which does not touch a waiting workflow.
CancelAsks ==
    /\ asks' = [r \in Rounds |-> IF asks[r] = "pending" THEN "cancelled"
                                                        ELSE asks[r]]
    /\ tools' = [r \in Rounds |-> IF asks[r] = "pending" THEN "cancelled"
                                                         ELSE tools[r]]

\* The last commit: workflow and Run, whatever has become of them meanwhile.
EndWorkflow(w) ==
    /\ job[w].pc = "end"
    /\ OwnsClaim(w)
    /\ wf' = [wf EXCEPT !.status = job[w].ending]
    /\ IF job[w].ending = "cancelled"
       THEN run' = "cancelled" /\ CancelAsks
       ELSE run' = "failed" /\ UNCHANGED <<asks, tools>>
    /\ Retire(w)
    /\ UNCHANGED <<task, nodes, attempts, saved, messages, late, client, history>>

\* A cancellation inside the handlers ends the job with the rest undone.
StopCancelled(w) ==
    /\ job[w].pc \in {"stop", "sweep", "end"}
    /\ job[w].cancelling # "no"
    /\ Retire(w)
    /\ UNCHANGED <<durable, late, client, history>>

-----------------------------------------------------------------------------
(* The client: cancelling Run and workflow; questions *)

\* cancel_run: a running task is asked to stop and holds the Run back.
EndRun ==
    /\ run \in {"pending", "running"}
    /\ task' = IF task = "running" THEN "cancel_requested" ELSE task
    /\ run' = IF task \in {"running", "cancel_requested"} THEN "cancel_requested"
                                                          ELSE "cancelled"
    /\ CancelAsks

CancelRun ==
    /\ EndRun
    /\ UNCHANGED <<wf, nodes, attempts, saved, messages, late, job, client, history>>

\* cancel_application_run: cancel_run, then the workflow in the same session,
\* whose identity map keeps the Run as it was saved here.  One that has ended
\* stays as it is.
CancelForApp ==
    /\ client.pc = "idle"
    /\ EndRun \/ (RunCancelled /\ UNCHANGED <<run, task, asks, tools>>)
    /\ client' = IF wf.status \in Ended \cup {"absent"}
                 THEN client ELSE [pc |-> "app", run |-> run']
    /\ UNCHANGED <<wf, nodes, attempts, saved, messages, late, job, history>>

\* cancel_workflow_execution up to its first commit, which ends the running
\* nodes and releases the row lock taken for the check.
CancelStart ==
    /\ client.pc \in {"idle", "app"}
    /\ wf.status \notin Ended \cup {"absent"}
    /\ nodes' = [n \in Node |-> IF n \in RunningNodes THEN "cancelled" ELSE nodes[n]]
    /\ client' = [client EXCEPT !.pc = "closing"]
    /\ UNCHANGED <<wf, run, task, rounds, saved, messages, late, job, history>>

\* The workflow has ended before: a conflict, or nothing to do.
CancelLate ==
    /\ client.pc = "app"
    /\ wf.status \in Ended
    /\ client' = NoRequest
    /\ UNCHANGED <<durable, late, job, history>>

\* The last commit of cancel_workflow.  The Run is written only if the loaded
\* one is not cancelled yet.
CancelEnd ==
    /\ client.pc = "closing"
    /\ wf' = [wf EXCEPT !.status = "cancelled"]
    /\ run' = IF client.run = "cancelled" THEN run ELSE "cancelled"
    /\ CancelAsks
    /\ client' = NoRequest
    /\ UNCHANGED <<task, nodes, attempts, saved, messages, late, job, history>>

\* The request dies between its commits.
CancelDies ==
    /\ client.pc # "idle"
    /\ faults < MaxFaults
    /\ faults' = faults + 1
    /\ client' = NoRequest
    /\ UNCHANGED <<durable, late, job, calls, effects>>

\* resume_execution: requeue, and fence the job that may still unwind.
Requeued == [status |-> "running", owner |-> NoWorker,
             version |-> NextVersion, lease |-> "none"]

SettleAsk(r, status) ==
    /\ asks[r] = "pending"
    /\ run = "running"
    /\ asks' = [asks EXCEPT ![r] = status]
    /\ tools' = [tools EXCEPT ![r] = "done"]
    /\ wf' = Requeued
    /\ UNCHANGED <<run, task, nodes, attempts, saved, messages, late, job, client,
                   history>>

\* reply_to_interaction: the first matching reply.
ReplyToAsk(r) == SettleAsk(r, "resolved")

\* expire_interactions, for one overdue question.
ExpireAsk(r) ==
    \/ SettleAsk(r, "expired")
    \/ /\ asks[r] = "pending"
       /\ run # "running"
       /\ CancelAsks
       /\ UNCHANGED <<wf, run, task, nodes, attempts, saved, messages, late, job,
                      client, history>>

-----------------------------------------------------------------------------
\* How a job goes on, unless a cancellation is due.
Proceed(w) ==
    /\ job[w].cancelling # "due"
    /\ \/ Look(w) \/ Stopped(w) \/ GiveUp(w)
       \/ BeginResume(w) \/ BeginNew(w) \/ BeginClose(w) \/ BeginFails(w)
       \/ Enter(w) \/ NextRound(w) \/ ReuseAttempt(w) \/ Reserve(w)
       \/ StartAttempt(w) \/ Dispatch(w) \/ Answer(w) \/ AttemptFails(w)
       \/ CheckPassed(w) \/ KeepResponse(w) \/ Respond(w)
       \/ ReuseTool(w) \/ RequestTool(w) \/ DenyTool(w) \/ AllowTool(w)
       \/ PerformTool(w) \/ SaveResult(w) \/ ToolTimesOut(w)
       \/ Ask(w) \/ AskRefused(w) \/ Suspend(w) \/ KeepResult(w)
       \/ FinishMain(w) \/ StartFinal(w) \/ Deliver(w) \/ StartCompletion(w)
       \/ Complete(w) \/ StopRead(w) \/ EndNode(w) \/ EndWorkflow(w)

\* What a worker does of its own accord.
Work(w) ==
    \/ Claim(w) \/ FencedOut(w) \/ Heartbeat(w) \/ WatchRun(w)
    \/ Proceed(w) \/ Cancelled(w) \/ StopCancelled(w)

\* A cancelling request that is under way goes on.
Request == CancelLate \/ (client.pc = "app" /\ CancelStart) \/ CancelEnd

Next ==
    \/ Create \/ TimeUp \/ LapseUnheld \/ LapseHeld
    \/ CancelRun \/ CancelForApp \/ CancelStart \/ CancelLate \/ CancelEnd
    \/ CancelDies
    \/ \E r \in Rounds : ReplyToAsk(r) \/ ExpireAsk(r)
    \/ \E w \in Workers : Work(w) \/ Crash(w) \/ Interrupt(w)

\* A worker polls and its job proceeds, also after the process was restarted;
\* a request under way proceeds; an unheld lease runs out; the sweep of overdue
\* questions reaches each.  Nobody has to create, cancel or reply.
Fairness ==
    /\ \A w \in Workers : WF_vars(Work(w))
    /\ WF_vars(Request)
    /\ WF_vars(LapseUnheld)
    /\ \A r \in Rounds : WF_vars(ExpireAsk(r))

Spec     == Init /\ [][Next]_vars
FairSpec == Spec /\ Fairness

-----------------------------------------------------------------------------
(* Properties *)

\* Whatever crashes, stalls, recoveries and cancellations happen, no round is
\* sent to the provider twice and no operation performed twice
\* (workflow_worker.py:36, recovery never reruns model calls or tools).
AtMostOnce == \A r \in Rounds : calls[r] <= 1 /\ effects[r] <= 1

\* A checkpoint speaks only of what is saved, and exists before its round's
\* call: a job that resumes from it knows all that came before.
CheckpointHonest ==
    /\ \A r \in Rounds : calls[r] > 0 => saved.phase # "none" /\ saved.round >= r
    /\ saved.phase \in {"model_response", "tool_result"}
            => attempts[saved.round].status = "completed"
    /\ saved.phase = "tool_result" => tools[saved.round] \in SettledTool
    /\ \A q \in 1..(saved.round - 1) :
            attempts[q].status = "completed" /\ tools[q] \in SettledTool

\* The answer message and the completed final node appear together, once, also
\* when another worker finishes what one began.
OneAnswer == messages <= 1 /\ (messages = 1 <=> nodes["final"] = "completed")

\* A completed workflow is whole: Run, task, every node, and one answer.
CompletedIsWhole ==
    wf.status = "completed" =>
        /\ run = "completed"
        /\ task = "completed"
        /\ \A n \in Node : nodes[n] = "completed"
        /\ messages = 1

\* A workflow whose provider outcome nobody knows is never reported as plainly
\* failed or, by its own worker, as cancelled.
UnknownIsReported ==
    [][\A w \in Workers :
        (/\ job[w].pc = "end" /\ job'[w].pc = "idle" /\ wf'.status # wf.status
         /\ \E r \in Rounds : attempts[r].status = "outcome_unknown")
            => wf'.status = "outcome_unknown"]_vars

\* A step that carries the workflow on: a message, a completed Run, a node that is
\* started or completed.
Advances ==
    \/ messages' # messages
    \/ run' = "completed" /\ run # "completed"
    \/ \E n \in Node : \/ nodes[n] = "none" /\ nodes'[n] # "none"
                       \/ nodes'[n] = "completed" /\ nodes[n] # "completed"

\* An ended workflow is never taken up again, and whoever still carries it on is the
\* owner in a transaction that read before the end, after which no owner believes that
\* it runs: what is left under the default isolation of the rule that nothing is
\* started, completed or answered after the end (ensure_workflow_running).
LateWriteIsLast ==
    [][wf.status \in Ended =>
        /\ wf'.status \in Ended
        /\ Advances =>
            /\ \E w \in Workers : OwnsClaim(w) /\ job[w].seen = "running"
            /\ \A w \in Workers : OwnsClaim(w)' => View(w)' # "running"]_vars

\* Every created workflow ends, unless it waits for a question of a Run that is
\* no longer running.
WorkflowEnds ==
    wf.status \in {"pending", "running"} ~>
        \/ wf.status \in Ended
        \/ wf.status = "waiting_for_input" /\ run # "running"

=============================================================================
