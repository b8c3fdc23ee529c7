-------------------------- MODULE PlannedWorkflow --------------------------
(***************************************************************************)
(* A planned Agent workflow (model_only_workflow_orchestrator.py, version  *)
(* 1.1.0): a controller plans tasks, a job prepares them in dependency     *)
(* order and calls up to Parallel workers at once, each in a database      *)
(* session of its own; results become handoffs, are verified, reviewed and *)
(* synthesised, and a review may ask for one more round.                   *)
(*                                                                         *)
(* Model calls are paid from shared limits (reserve_model_call).  Clients  *)
(* cancel the workflow, its Run or a task, and retry a task, at any moment *)
(* (workflow_execution_service.py, run_service.py, task_service.py); the   *)
(* job may die or lose its lease, which its workers' sessions do not       *)
(* carry, and another job then ends the workflow (workflow_worker.py).     *)
(*                                                                         *)
(* One action is one commit.  Plain reads see what is committed; the older *)
(* snapshots of a transaction are the subject of AgentWorkflow.            *)
(***************************************************************************)
EXTENDS Naturals, Sequences, FiniteSets, SequencesExt

CONSTANTS
    Tasks,        \* keys of planned tasks
    NoTask,       \* the task of a platform-owned node
    Reviewer,     \* the reviewer's task
    Plans,        \* what the controller may plan: [order, needs]
    ReviewPolicy, \* "always", "on_verification_failure" or "never"
    Rounds,       \* max_workflow_rounds
    Parallel,     \* max_parallel_agents
    MaxCalls,     \* max_model_calls; 0: not limited
    MaxNodes,     \* max_nodes
    CallCost,     \* the estimate reserved for a call: what the node itself adds
    Overrun,      \* what history and handoffs may cost a call beyond its estimate
    Costs,        \* what an answered call may turn out to cost
    BudgetLimit,  \* budget_limit of the Run
    MaxAsks,      \* bound: client requests
    MaxFaults     \* bound: lost leases, crashes among them

ASSUME PlannedWorkflowAssumption ==
    /\ NoTask \notin Tasks /\ Reviewer \notin Tasks /\ NoTask # Reviewer
    /\ IsFiniteSet(Tasks) /\ Tasks \cap {"plan", "review", "final"} = {}
    /\ \A p \in Plans : /\ p.order \in Seq(Tasks) /\ p.order # <<>>
                        /\ DOMAIN p.needs = ToSet(p.order)
    /\ ReviewPolicy \in {"always", "on_verification_failure", "never"}
    /\ Rounds \in 1..2 /\ Parallel \in 1..2 /\ MaxNodes \in 11..32
    /\ MaxCalls \in Nat /\ CallCost \in Nat /\ Overrun \in Nat
    /\ BudgetLimit \in Nat
    /\ Costs \subseteq 0..(CallCost + Overrun)
    /\ MaxAsks \in Nat /\ MaxFaults \in Nat

VARIABLES
    flow,     \* LlmAgentWorkflowExecution: status, calls, reserved, nodes
    run,      \* LlmRun: status, spent
    node,     \* latest LlmAgentWorkflowNodeExecution of each key -> status
    task,     \* LlmTask -> status, attempts
    agent,    \* LlmAgentRun -> status
    turn,     \* LlmAgentTurn -> status
    handoffs, \* tasks with an LlmAgentHandoff
    replies,  \* final messages
    call,     \* typed model call of a stage or a worker -> where it stands
    job,      \* locals of the job that executes the workflow
    stop,     \* who is ending the workflow -> how far it is
    lease,    \* TRUE: the job's claim is current
    asked, faults

rows == <<flow, run, node, task, agent, turn, handoffs, replies>>
vars == <<rows, call, job, stop, lease, asked, faults>>

Calling == {"plan", "review", "final"}
Stages  == Calling \cup {"check", "dispatch", "work", "verify", "end"}
Owners  == Tasks \cup {Reviewer}
Callers == Tasks \cup Calling
Actors  == {"job", "client", "recovery"}
Key == ((Stages \ {"work"}) \X {NoTask}) \cup ({"work", "handoff"} \X Tasks)

NodeStatus == {"none", "running", "completed", "failed", "cancelled", "outcome_unknown"}
TaskStatus == {"none", "waiting_for_dependency", "ready", "running", "completed",
               "failed", "cancel_requested", "cancelled", "retry_scheduled"}
AgentStatus == {"none", "pending", "running", "completed", "failed", "cancelled"}
Ended     == {"completed", "failed", "cancelled", "outcome_unknown"}
Settled   == {"none", "completed", "failed", "cancelled"}

Result == {"none", "ok", "failed", "outcome_unknown", "stopped"}
\* A call: waiting for its reservation, reserved, sent, answered (the attempt and
\* its cost are saved), over.
NoCall == [at |-> "none", result |-> "none", tries |-> 0]
Ready  == [at |-> "ready", result |-> "none", tries |-> 0]
Over(result) == [at |-> "over", result |-> result, tries |-> 0]

NoPlan == [order |-> <<>>, needs |-> <<>>]
NoStop == [at |-> "none", nodes |-> {}, as |-> "failed"]

\* Type correctness.
TypeOK ==
    /\ flow \in [status : {"running"} \cup Ended, calls : Nat, reserved : Nat,
                 nodes : 0..MaxNodes]
    /\ run \in [status : {"running", "completed", "failed", "cancel_requested",
                          "cancelled"}, spent : Nat]
    /\ node \in [Key -> NodeStatus]
    /\ task \in [Owners -> [status : TaskStatus, attempts : 0..1]]
    /\ agent \in [Owners -> AgentStatus]
    /\ turn \in [Owners -> {"none", "started", "completed", "failed"}]
    /\ handoffs \subseteq Tasks
    /\ replies \in 0..1
    /\ call \in [Callers -> [at : {"none", "ready", "reserved", "sent", "answered",
                                   "over"},
                             result : Result \cup {"invalid"}, tries : 0..1]]
    /\ job \in [at : {"create", "begin", "turn", "call", "tasks", "finish", "prepare",
                      "group", "save", "handler", "done", "gone"},
                stage : Stages, plan : Plans \cup {NoPlan},
                round : 1..Rounds, repaired : BOOLEAN,
                verdict : {"none", "valid", "repair", "reject", "pass", "fail"},
                step : {"task", "node", "turn", "submit", "handoff", "submitted",
                        "refine", "go"},
                left : SUBSET Tasks, group : SUBSET Tasks, queue : SUBSET Tasks,
                cause : {"none", "limit", "call", "plan", "needs", "worker", "verify",
                         "cancelled"}]
    /\ stop \in [Actors -> [at : {"none", "one", "read", "nodes", "children", "end"},
                            nodes : SUBSET Key,
                            as : {"failed", "cancelled", "outcome_unknown"}]]
    /\ lease \in BOOLEAN /\ asked \in 0..MaxAsks /\ faults \in 0..MaxFaults

\* request_intake and context_assembly are done; the first round begins.
Init ==
    /\ flow = [status |-> "running", calls |-> 0, reserved |-> 0, nodes |-> 2]
    /\ run = [status |-> "running", spent |-> 0]
    /\ node = [k \in Key |-> "none"]
    /\ task = [t \in Owners |-> [status |-> "none", attempts |-> 0]]
    /\ agent = [t \in Owners |-> "none"]
    /\ turn = [t \in Owners |-> "none"]
    /\ handoffs = {}
    /\ replies = 0
    /\ call = [c \in Callers |-> NoCall]
    /\ job = [at |-> "begin", stage |-> "plan", plan |-> NoPlan, round |-> 1,
              repaired |-> FALSE, verdict |-> "none", step |-> "task",
              left |-> {}, group |-> {}, queue |-> {}, cause |-> "none"]
    /\ stop = [a \in Actors |-> NoStop]
    /\ lease = TRUE
    /\ asked = 0
    /\ faults = 0

-----------------------------------------------------------------------------
(* What every step of the job is checked for, and how it goes wrong *)

Running == flow.status = "running"

\* verify_execution_claim, and the fence of every commit of the job's session.
Owned == lease /\ job.at # "gone"

\* remaining_call_budget, and the calls that are kept for what must still follow.
Affords(n) == MaxCalls = 0 \/ flow.calls + n <= MaxCalls
ReviewCalls == IF ReviewPolicy = "never" THEN 0 ELSE 1
\* Mutant: only what the stage's own flow still needs is kept, not by workers.
KeptByStages(c) == IF c = "review" THEN 1 ELSE 0

Kept(c) == CASE c = "final"  -> 0
             [] c = "review" -> 1
             [] c = "plan"   -> 2 + ReviewCalls
             [] OTHER        -> 1 + ReviewCalls

\* An exception reaches the handlers of execute: the current node, then the workflow.
Raise(as, keys, cause) ==
    /\ job' = [job EXCEPT !.at = "handler", !.cause = cause]
    /\ stop' = [stop EXCEPT !["job"] = [at |-> IF keys = {} THEN "read" ELSE "one",
                                        nodes |-> keys, as |-> as]]

\* WorkflowExecutionStopped: the handler returns.
Stopped == job' = [job EXCEPT !.at = "done"]

\* start_node, with the job's next local state.
StartNode(k, next) ==
    IF flow.nodes < MaxNodes
    THEN /\ node' = [node EXCEPT ![k] = "running"]
         /\ flow' = [flow EXCEPT !.nodes = @ + 1]
         /\ job' = next
         /\ UNCHANGED stop
    ELSE /\ Raise("failed", {}, "limit")
         /\ UNCHANGED <<node, flow>>

Done(k) == node' = [node EXCEPT ![k] = "completed"]

\* The job goes on with a stage; the reviewer's task is created before its node.
Go(s) == [job EXCEPT !.stage = s, !.at = IF s = "review" THEN "create" ELSE "begin"]

\* The guards of a step of the job in one of its control states.
At(at, stages) == Owned /\ job.at = at /\ job.stage \in stages

-----------------------------------------------------------------------------
(* One typed model call: call_typed_model, _call_model_round *)

\* A worker's session carries no claim: only the death of the job stops it.
Live(c) == IF c \in Tasks THEN job.at # "gone" ELSE Owned

\* Mutant: what other calls have reserved is not counted.
CanReserveAlone(c) ==
    /\ Running
    /\ Affords(1 + Kept(c))
    /\ run.spent + CallCost <= BudgetLimit

\* Mutant: the status of the workflow is not part of the UPDATE.
CanReserveAnytime(c) ==
    /\ Affords(1 + Kept(c))
    /\ run.spent + flow.reserved + CallCost <= BudgetLimit

CanReserve(c) ==
    /\ Running
    /\ Affords(1 + Kept(c))
    /\ run.spent + flow.reserved + CallCost <= BudgetLimit

\* reserve_model_call: one conditional UPDATE.
Reserve(c) ==
    /\ Live(c) /\ call[c].at = "ready"
    /\ CanReserve(c)
    /\ flow' = [flow EXCEPT !.calls = @ + 1, !.reserved = @ + CallCost]
    /\ call' = [call EXCEPT ![c].at = "reserved"]
    /\ UNCHANGED <<run, node, task, agent, turn, handoffs, replies, job, stop, lease,
                   asked, faults>>

Refuse(c) ==
    /\ Live(c) /\ call[c].at = "ready"
    /\ ~CanReserve(c)
    /\ call' = [call EXCEPT ![c] = Over(IF Running THEN "failed" ELSE "stopped")]
    /\ UNCHANGED <<rows, job, stop, lease, asked, faults>>

\* The attempt row is STARTED and the request leaves.
Send(c) ==
    /\ Live(c) /\ call[c].at = "reserved"
    /\ call' = [call EXCEPT ![c].at = "sent"]
    /\ UNCHANGED <<rows, job, stop, lease, asked, faults>>

\* The attempt is completed and charged; its output may break the typed contract.
Charge(c) ==
    /\ Live(c) /\ call[c].at = "sent"
    /\ \E cost \in Costs, result \in {"ok", "invalid"} :
          /\ run' = [run EXCEPT !.spent = @ + cost]
          /\ call' = [call EXCEPT ![c].at = "answered", ![c].result = result]
    /\ UNCHANGED <<flow, node, task, agent, turn, handoffs, replies, job, stop, lease,
                   asked, faults>>

\* release_model_cost_reservation: more than what is reserved is clamped to zero.
Released(n) == IF flow.reserved >= n * CallCost THEN flow.reserved - n * CallCost ELSE 0

\* The provider's error is recorded, with what it is known to have cost.
ProviderFails(c) ==
    /\ Live(c) /\ call[c].at = "sent"
    /\ \E cost \in Costs \cup {0}, result \in {"failed", "outcome_unknown"} :
          /\ run' = [run EXCEPT !.spent = @ + cost]
          /\ call' = [call EXCEPT ![c].at = "answered", ![c].result = result]
    /\ UNCHANGED <<flow, node, task, agent, turn, handoffs, replies, job, stop, lease,
                   asked, faults>>

\* What the caller makes of the outcome after the running check that follows an
\* answer: one repair of a broken output, then failure.
Outcome(c) ==
    LET result == call[c].result IN
    IF result \in {"failed", "outcome_unknown"} THEN Over(result)
    ELSE IF ~Running THEN Over("stopped")
    ELSE IF result = "ok" THEN Over("ok")
    ELSE IF call[c].tries = 0 THEN [at |-> "ready", result |-> "none", tries |-> 1]
    ELSE Over("failed")

\* Mutant: an error leaves without the release.
SettleAnswers(c) ==
    /\ Live(c) /\ call[c].at = "answered"
    /\ flow' = IF call[c].result \in {"failed", "outcome_unknown"} THEN flow
               ELSE [flow EXCEPT !.reserved = Released(1)]
    /\ call' = [call EXCEPT ![c] = Outcome(c)]
    /\ UNCHANGED <<run, node, task, agent, turn, handoffs, replies, job, stop, lease,
                   asked, faults>>

\* The release in the finally clause, whatever the outcome.
Settle(c) ==
    /\ Live(c) /\ call[c].at = "answered"
    /\ flow' = [flow EXCEPT !.reserved = Released(1)]
    /\ call' = [call EXCEPT ![c] = Outcome(c)]
    /\ UNCHANGED <<run, node, task, agent, turn, handoffs, replies, job, stop, lease,
                   asked, faults>>

Call(c) == \/ Reserve(c) \/ Refuse(c) \/ Send(c) \/ Charge(c) \/ ProviderFails(c)
           \/ Settle(c)

-----------------------------------------------------------------------------
(* The stages of the job: execute, _execute_round, _run_deterministic_node *)

idle == <<run, task, agent, turn, handoffs, replies, lease, asked, faults>>

\* The next node of a stage is started, if the workflow still runs.
BeginStage ==
    /\ At("begin", Stages)
    /\ LET s == job.stage
           next == [job EXCEPT !.at = CASE s \in {"plan", "final"} -> "call"
                                        [] s = "review" -> "turn"
                                        [] s = "dispatch" -> "tasks"
                                        [] OTHER -> "finish"] IN
       IF Running
       THEN /\ StartNode(<<s, NoTask>>, next)
            /\ call' = IF job'.at = "call" THEN [call EXCEPT ![s] = Ready] ELSE call
       ELSE Stopped /\ UNCHANGED <<node, flow, stop, call>>
    /\ UNCHANGED idle

\* The call of the stage's own session is over: go on, stop, or fail. Only the
\* repair and the final call name their node to the handler.
StageCalled ==
    /\ At("call", Calling)
    /\ call[job.stage].at = "over"
    /\ LET result == call[job.stage].result
           named == job.stage = "final" \/ (job.stage = "plan" /\ job.repaired) IN
       CASE result = "ok" -> /\ job' = [job EXCEPT !.at = "finish"]
                             /\ UNCHANGED stop
         [] result = "stopped" -> Stopped /\ UNCHANGED stop
         [] OTHER -> Raise(result, IF named THEN {<<job.stage, NoTask>>} ELSE {}, "call")
    /\ UNCHANGED <<rows, call, lease, asked, faults>>

\* complete_node: the running check, then the node with its output.
Finish(s, next) ==
    /\ At("finish", {s})
    /\ IF Running THEN Done(<<s, NoTask>>) /\ job' = next
                  ELSE Stopped /\ UNCHANGED node
    /\ UNCHANGED <<flow, stop, call, idle>>

\* validate_controller_plan on the calls and nodes used so far. A plan may also be
\* at fault in its graph or review policy (repairable) or its capabilities (not).
Fits(p) ==
    /\ MaxCalls = 0 \/ flow.calls + Len(p.order) + ReviewCalls + 1 <= MaxCalls
    /\ 8 + 2 * Len(p.order) + ReviewCalls + (flow.nodes - 3) <= MaxNodes

\* controller_plan_repair_skip_reason: one repair per round, when what it uses and
\* what must follow still fit.
MayRepair ==
    /\ ~job.repaired
    /\ Affords(1 + 2 + ReviewCalls)
    /\ MaxNodes - flow.nodes - 1 >= 2 + 6 + ReviewCalls

FinishPlan ==
    \E p \in Plans, flaw \in {"none", "repairable", "fatal"} :
        Finish("plan", [Go("check") EXCEPT
            !.plan = p,
            !.verdict = IF flaw = "none" /\ Fits(p) THEN "valid"
                        ELSE IF flaw # "fatal" /\ MayRepair THEN "repair"
                        ELSE "reject"])

FinishCheck ==
    /\ At("finish", {"check"})
    /\ IF ~Running
       THEN Stopped /\ UNCHANGED <<node, stop>>
       ELSE /\ Done(<<"check", NoTask>>)
            /\ CASE job.verdict = "valid" -> job' = Go("dispatch") /\ UNCHANGED stop
                 [] job.verdict = "repair" ->
                        job' = [Go("plan") EXCEPT !.repaired = TRUE] /\ UNCHANGED stop
                 [] OTHER -> Raise("failed", {}, "plan")
    /\ UNCHANGED <<flow, call, idle>>

Planned == ToSet(job.plan.order)

\* _dispatch_plan: tasks and agent runs of the round in one commit, unchecked.
CreateTasks ==
    /\ At("tasks", {"dispatch"})
    /\ task' = [t \in Owners |->
           IF t \notin Planned THEN task[t]
           ELSE [status |-> IF job.plan.needs[t] = {} THEN "ready"
                            ELSE "waiting_for_dependency", attempts |-> 0]]
    /\ agent' = [t \in Owners |-> IF t \in Planned THEN "pending" ELSE agent[t]]
    /\ turn' = [t \in Owners |-> IF t \in Planned THEN "none" ELSE turn[t]]
    /\ handoffs' = handoffs \ Planned
    /\ job' = [job EXCEPT !.at = "finish"]
    /\ UNCHANGED <<flow, run, node, replies, call, stop, lease, asked, faults>>

\* Lists of tasks keep the order of the plan: the task of S that comes first in it.
First(S) ==
    LET order == job.plan.order
    IN order[Min({i \in DOMAIN order : order[i] \in S})]

\* _build_worker_execution_groups: the first Parallel tasks of what is left whose
\* needs are all in earlier groups.
NextGroup(left) ==
    LET order == job.plan.order
        ready == {i \in DOMAIN order : /\ order[i] \in left
                                      /\ job.plan.needs[order[i]] \cap left = {}}
    IN {order[i] : i \in {n \in ready : Cardinality(ready \cap 1..n) <= Parallel}}

Schedule(left) ==
    IF left = {} THEN Go("verify")
    ELSE LET g == NextGroup(left) IN
         [job EXCEPT !.stage = "work", !.at = "prepare", !.step = "task",
                     !.group = g, !.queue = g, !.left = left \ g]

FinishDispatch == Finish("dispatch", Schedule(Planned))

-----------------------------------------------------------------------------
(* Worker tasks: _prepare_worker_execution, _call_worker_group, *)
(* _finalize_worker_execution                                   *)

Worker == First(job.queue)
Step(at, step) == At(at, {"work"}) /\ job.queue # {} /\ job.step = step
ThenStep(s) == [job EXCEPT !.step = s]

\* start_task_and_agent asks for completed needs, and for nothing else.
StartTask ==
    /\ Step("prepare", "task")
    /\ IF \A t \in job.plan.needs[Worker] : task[t].status = "completed"
       THEN /\ task' = [task EXCEPT ![Worker] = [status |-> "running", attempts |-> 1]]
            /\ agent' = [agent EXCEPT ![Worker] = "running"]
            /\ job' = ThenStep("node")
            /\ UNCHANGED stop
       ELSE Raise("failed", {}, "needs") /\ UNCHANGED <<task, agent>>
    /\ UNCHANGED <<flow, run, node, turn, handoffs, replies, call, lease, asked, faults>>

StartWork ==
    /\ Step("prepare", "node")
    /\ IF Running THEN StartNode(<<"work", Worker>>, ThenStep("turn"))
                  ELSE Stopped /\ UNCHANGED <<node, flow, stop>>
    /\ UNCHANGED <<call, idle>>

\* The last turn of a group lets all its calls go.
StartTurn ==
    /\ Step("prepare", "turn")
    /\ turn' = [turn EXCEPT ![Worker] = "started"]
    /\ LET last == job.queue = {Worker} IN
       /\ job' = [job EXCEPT !.step = "task", !.queue = @ \ {Worker},
                             !.at = IF last THEN "group" ELSE @]
       /\ call' = IF last THEN [c \in Callers |-> IF c \in job.group THEN Ready
                                                  ELSE call[c]] ELSE call
    /\ UNCHANGED <<flow, run, node, task, agent, handoffs, replies, stop, lease, asked,
                   faults>>

\* Mutant: only what precedes the first failure is saved.
GroupCalledUpToFailure ==
    /\ At("group", {"work"})
    /\ \A t \in job.group : call[t].at = "over"
    /\ job' = [job EXCEPT !.at = "save", !.step = "turn",
              !.queue = IF call[First(job.group)].result = "ok"
                        THEN {t \in job.group : call[t].result = "ok"} ELSE {}]
    /\ UNCHANGED <<rows, call, stop, lease, asked, faults>>

\* Every outcome of the group is kept; those that succeeded are saved first.
GroupCalled ==
    /\ At("group", {"work"})
    /\ \A t \in job.group : call[t].at = "over"
    /\ job' = [job EXCEPT !.at = "save", !.step = "turn",
                          !.queue = {t \in job.group : call[t].result = "ok"}]
    /\ UNCHANGED <<rows, call, stop, lease, asked, faults>>

\* complete_agent_turn: not fenced by the status of the workflow.
FinishTurn ==
    /\ Step("save", "turn")
    /\ turn' = [turn EXCEPT ![Worker] = "completed"]
    /\ job' = ThenStep("node")
    /\ UNCHANGED <<flow, run, node, task, agent, handoffs, replies, call, stop, lease,
                   asked, faults>>

FinishWork ==
    /\ Step("save", "node")
    /\ IF Running THEN Done(<<"work", Worker>>) /\ job' = ThenStep("submit")
                  ELSE Stopped /\ UNCHANGED node
    /\ UNCHANGED <<flow, call, stop, idle>>

StartHandoff ==
    /\ Step("save", "submit")
    /\ IF Running THEN StartNode(<<"handoff", Worker>>, ThenStep("handoff"))
                  ELSE Stopped /\ UNCHANGED <<node, flow, stop>>
    /\ UNCHANGED <<call, idle>>

\* submit_handoff: keyed by its node, in a commit of its own.
SaveHandoff ==
    /\ Step("save", "handoff")
    /\ handoffs' = handoffs \cup {Worker}
    /\ job' = ThenStep("submitted")
    /\ UNCHANGED <<flow, run, node, task, agent, turn, replies, call, stop, lease, asked,
                   faults>>

FinishHandoff ==
    /\ Step("save", "submitted")
    /\ IF Running THEN Done(<<"handoff", Worker>>) /\ job' = ThenStep("task")
                  ELSE Stopped /\ UNCHANGED node
    /\ UNCHANGED <<flow, call, stop, idle>>

\* complete_task_and_agent: whatever the task has become.
Completed(t) == /\ task' = [task EXCEPT ![t].status = "completed"]
                /\ agent' = [agent EXCEPT ![t] = "completed"]

FinishTask ==
    /\ Step("save", "task")
    /\ Completed(Worker)
    /\ job' = [ThenStep("turn") EXCEPT !.queue = @ \ {Worker}]
    /\ UNCHANGED <<flow, run, node, turn, handoffs, replies, call, stop, lease, asked,
                   faults>>

\* The successful siblings are saved: the first failure of the group is raised.
EndGroup ==
    /\ At("save", {"work"}) /\ job.queue = {}
    /\ LET bad == {t \in job.group : call[t].result # "ok"}
           one == First(bad) IN
       CASE bad = {} -> job' = Schedule(job.left) /\ UNCHANGED stop
         [] bad # {} /\ call[one].result = "stopped" -> Stopped /\ UNCHANGED stop
         [] OTHER -> Raise(call[one].result, {<<"work", one>>}, "worker")
    /\ UNCHANGED <<rows, call, lease, asked, faults>>

-----------------------------------------------------------------------------
(* Verification, review, refinement, the answer *)

Verified == \A t \in Planned : t \in handoffs /\ agent[t] = "completed"

\* Mutant: a passed verification needs no review, whatever the policy.
FinishVerifyPassed ==
    /\ At("finish", {"verify"})
    /\ IF Running /\ Verified
       THEN Done(<<"verify", NoTask>>) /\ job' = [Go("final") EXCEPT !.verdict = "pass"]
       ELSE Stopped /\ UNCHANGED node
    /\ UNCHANGED <<flow, stop, call, idle>>

\* _verify_handoffs reads each worker's facts back; a review may follow, and a
\* failed verification ends the workflow after it.
FinishVerify ==
    /\ At("finish", {"verify"})
    /\ LET verdict == IF Verified THEN "pass" ELSE "fail"
           review == \/ ReviewPolicy = "always"
                     \/ ReviewPolicy = "on_verification_failure" /\ verdict = "fail" IN
       IF ~Running THEN Stopped /\ UNCHANGED <<node, stop>>
       ELSE /\ Done(<<"verify", NoTask>>)
            /\ IF verdict = "fail" /\ ~review THEN Raise("failed", {}, "verify")
               ELSE /\ job' = [Go(IF review THEN "review" ELSE "final")
                               EXCEPT !.verdict = verdict]
                    /\ UNCHANGED stop
    /\ UNCHANGED <<flow, call, idle>>

\* The reviewer's task and agent run begin as running ones.
CreateReviewer ==
    /\ At("create", {"review"})
    /\ task' = [task EXCEPT ![Reviewer] = [status |-> "running", attempts |-> 1]]
    /\ agent' = [agent EXCEPT ![Reviewer] = "running"]
    /\ turn' = [turn EXCEPT ![Reviewer] = "none"]
    /\ job' = [job EXCEPT !.at = "begin"]
    /\ UNCHANGED <<flow, run, node, handoffs, replies, call, stop, lease, asked, faults>>

StartReview ==
    /\ At("turn", {"review"})
    /\ turn' = [turn EXCEPT ![Reviewer] = "started"]
    /\ call' = [call EXCEPT !["review"] = Ready]
    /\ job' = [job EXCEPT !.at = "call"]
    /\ UNCHANGED <<flow, run, node, task, agent, handoffs, replies, stop, lease, asked,
                   faults>>

\* complete_agent_turn of the reviewer, in a commit of its own.
FinishReviewTurn ==
    /\ At("finish", {"review"}) /\ turn[Reviewer] # "completed"
    /\ turn' = [turn EXCEPT ![Reviewer] = "completed"]
    /\ UNCHANGED <<flow, run, node, task, agent, handoffs, replies, call, job, stop,
                   lease, asked, faults>>

\* _record_refinement_decision: a new round needs a passed verification, a round,
\* calls and nodes that are left.
MayRefine ==
    /\ job.verdict = "pass"
    /\ job.round < Rounds
    /\ Affords(3 + ReviewCalls)
    /\ MaxNodes - flow.nodes >= 9

FinishReview ==
    /\ At("finish", {"review"}) /\ turn[Reviewer] = "completed"
    /\ IF ~Running THEN Stopped /\ UNCHANGED node
       ELSE /\ Done(<<"review", NoTask>>)
            /\ \E wanted \in BOOLEAN :
                  job' = [job EXCEPT !.at = "tasks",
                                     !.step = IF wanted /\ MayRefine THEN "refine" ELSE "go"]
    /\ UNCHANGED <<flow, call, stop, idle>>

\* complete_task_and_agent of the reviewer, then what the round led to.
FinishReviewer ==
    /\ At("tasks", {"review"})
    /\ Completed(Reviewer)
    /\ IF job.verdict = "fail" THEN Raise("failed", {}, "verify")
       ELSE /\ job' = IF job.step = "refine"
                      THEN [Go("plan") EXCEPT !.round = @ + 1, !.repaired = FALSE]
                      ELSE Go("final")
            /\ UNCHANGED stop
    /\ UNCHANGED <<flow, run, node, turn, handoffs, replies, call, lease, asked, faults>>

\* _save_final_message flushes the answer; complete_node commits it with its node.
FinishFinal ==
    /\ At("finish", {"final"})
    /\ IF Running
       THEN /\ Done(<<"final", NoTask>>) /\ replies' = replies + 1 /\ job' = Go("end")
       ELSE Stopped /\ UNCHANGED <<node, replies>>
    /\ UNCHANGED <<flow, run, task, agent, turn, handoffs, call, stop, lease, asked, faults>>

\* complete_workflow: node, workflow and Run in one commit.
Complete ==
    /\ At("finish", {"end"})
    /\ IF Running
       THEN /\ Done(<<"end", NoTask>>)
            /\ flow' = [flow EXCEPT !.status = "completed", !.reserved = 0]
            /\ run' = [run EXCEPT !.status = "completed"]
       ELSE UNCHANGED <<node, flow, run>>
    /\ job' = [job EXCEPT !.at = "done"]
    /\ UNCHANGED <<task, agent, turn, handoffs, replies, call, stop, lease, asked, faults>>

-----------------------------------------------------------------------------
(* Ending a workflow: fail_node, fail_workflow, cancel_workflow *)

\* Only the session of the job and of the recovering job carry a claim.
MayAct(a) == a = "job" => Owned

After(a, at) == stop' = IF at = "none" THEN [stop EXCEPT ![a] = NoStop]
                        ELSE [stop EXCEPT ![a].at = at]
Handled(a) == job' = IF a = "job" THEN [job EXCEPT !.at = "done"] ELSE job

\* The node the exception came from; one that has ended is left as it is.
StopOne ==
    /\ Owned /\ stop["job"].at = "one"
    /\ \E k \in stop["job"].nodes :
          node' = IF node[k] \in Ended THEN node ELSE [node EXCEPT ![k] = stop["job"].as]
    /\ stop' = [stop EXCEPT !["job"].at = "read", !["job"].nodes = {}]
    /\ UNCHANGED <<flow, run, task, agent, turn, handoffs, replies, call, job, lease,
                   asked, faults>>

Active == {k \in Key : node[k] = "running"}

\* _finalize_child_execution_facts: everything below an agent run of the workflow.
EndChildren(as) ==
    LET end == IF as = "cancelled" THEN "cancelled" ELSE "failed" IN
    /\ task' = [t \in Owners |->
           IF agent[t] = "none" \/ task[t].status \in Settled THEN task[t]
           ELSE [task[t] EXCEPT !.status = end]]
    /\ agent' = [t \in Owners |-> IF agent[t] \in Settled THEN agent[t] ELSE end]
    /\ turn' = [t \in Owners |-> IF turn[t] = "started" THEN "failed" ELSE turn[t]]

\* The workflow must not have ended; its running nodes are selected once.
StopRead(a) ==
    /\ MayAct(a) /\ stop[a].at = "read"
    /\ IF Running
       THEN stop' = [stop EXCEPT ![a].at = "nodes", ![a].nodes = Active] /\ UNCHANGED job
       ELSE After(a, "none") /\ Handled(a)
    /\ UNCHANGED <<rows, call, lease, asked, faults>>

\* One commit per selected node, whatever has become of it since.
StopNode(a) ==
    /\ MayAct(a) /\ stop[a].at = "nodes"
    /\ \E k \in stop[a].nodes :
          /\ node' = [node EXCEPT ![k] = stop[a].as]
          /\ stop' = [stop EXCEPT ![a].nodes = @ \ {k}]
    /\ UNCHANGED <<flow, run, task, agent, turn, handoffs, replies, call, job, lease,
                   asked, faults>>

StopChildren(a) ==
    /\ MayAct(a) /\ stop[a].at = "nodes" /\ stop[a].nodes = {}
    /\ EndChildren(stop[a].as)
    /\ After(a, "end")
    /\ UNCHANGED <<flow, run, node, handoffs, replies, call, job, lease, asked, faults>>

\* The end of the workflow and its Run: refreshed, but not looked at again.
StopEnd(a) ==
    /\ MayAct(a) /\ stop[a].at = "end"
    /\ flow' = [flow EXCEPT !.status = stop[a].as, !.reserved = 0]
    /\ run' = [run EXCEPT !.status = IF stop[a].as = "cancelled" THEN "cancelled"
                                     ELSE "failed"]
    /\ After(a, "none") /\ Handled(a)
    /\ UNCHANGED <<node, task, agent, turn, handoffs, replies, call, lease, asked, faults>>

Stop(a) == StopRead(a) \/ StopNode(a) \/ StopChildren(a) \/ StopEnd(a)

-----------------------------------------------------------------------------
(* Clients: cancel_workflow_execution, cancel_run, cancel_task, retry_task *)

Ask == asked < MaxAsks /\ asked' = asked + 1

\* The row lock of the look-up is held to the first commit, so the selection and that
\* commit are one step.
CancelWorkflow ==
    /\ Ask /\ Running
    /\ stop["client"].at = "none"
    /\ IF Active = {}
       THEN /\ EndChildren("cancelled")
            /\ stop' = [stop EXCEPT !["client"] = [at |-> "end", nodes |-> {},
                                                  as |-> "cancelled"]]
            /\ UNCHANGED node
       ELSE /\ \E k \in Active :
                  /\ node' = [node EXCEPT ![k] = "cancelled"]
                  /\ stop' = [stop EXCEPT !["client"] =
                         [at |-> "nodes", nodes |-> Active \ {k}, as |-> "cancelled"]]
            /\ UNCHANGED <<task, agent, turn>>
    /\ UNCHANGED <<flow, run, handoffs, replies, call, job, lease, faults>>

Asking == {t \in Owners : task[t].status \in {"running", "cancel_requested"}}

CancelRun ==
    /\ Ask /\ run.status = "running"
    /\ task' = [t \in Owners |->
           IF t \in Asking THEN [task[t] EXCEPT !.status = "cancel_requested"]
           ELSE IF task[t].status \in Settled THEN task[t]
           ELSE [task[t] EXCEPT !.status = "cancelled"]]
    /\ run' = [run EXCEPT !.status = IF Asking = {} THEN "cancelled" ELSE "cancel_requested"]
    /\ UNCHANGED <<flow, node, agent, turn, handoffs, replies, call, job, stop, lease,
                   faults>>

CancelTask(t) ==
    /\ Ask
    /\ task[t].status \notin Settled \cup {"cancel_requested"}
    /\ task' = [task EXCEPT ![t].status = IF @ = "running" THEN "cancel_requested"
                                         ELSE "cancelled"]
    /\ UNCHANGED <<flow, run, node, agent, turn, handoffs, replies, call, job, stop, lease,
                   faults>>

\* max_attempts is 1: only a task that never started has an attempt left.
RetryTask(t) ==
    /\ Ask
    /\ run.status = "running"
    /\ task[t].status = "failed" /\ task[t].attempts < 1
    /\ task' = [task EXCEPT ![t] = [status |-> "retry_scheduled", attempts |-> @.attempts + 1]]
    /\ UNCHANGED <<flow, run, node, agent, turn, handoffs, replies, call, job, stop, lease,
                   faults>>

-----------------------------------------------------------------------------
(* Cancellation of the job, its death and its successor *)

Open == {c \in Callers : call[c].at \in {"reserved", "sent", "answered"}}
Unsure == \E c \in Callers : call[c].at = "sent" \/ call[c].result = "outcome_unknown"

Working == job.at \notin {"handler", "done", "gone"}

\* The watcher of the Run or the heartbeat cancels the job: its calls end, and a request
\* that had left has an unknown outcome. A call releases what it reserved, unless it is
\* struck after the commit of the reservation and before its try, or in its release.
CancelJob ==
    /\ Owned /\ Working
    /\ run.status \in {"cancel_requested", "cancelled"} \/ ~Running
    /\ \E n \in 0..Cardinality(Open) : flow' = [flow EXCEPT !.reserved = Released(n)]
    /\ call' = [c \in Callers |->
           IF call[c].at \in {"none", "over"} THEN call[c]
           ELSE Over(IF call[c].at = "sent" \/ call[c].result = "outcome_unknown"
                     THEN "outcome_unknown" ELSE "stopped")]
    /\ IF Unsure THEN Raise("outcome_unknown", {}, "cancelled")
       ELSE Raise("cancelled", IF job.stage = "final" /\ job.at \in {"call", "finish"}
                               THEN {<<"final", NoTask>>} ELSE {}, "cancelled")
    /\ UNCHANGED <<run, node, task, agent, turn, handoffs, replies, lease, asked, faults>>

\* The process stalls past its lease, or dies: then no step of its follows but its end.
LoseLease ==
    /\ faults < MaxFaults /\ faults' = faults + 1
    /\ lease /\ job.at \notin {"done", "gone"}
    /\ lease' = FALSE
    /\ UNCHANGED <<rows, call, job, stop, asked>>

\* A refused renewal or commit ends the superseded job; until then its workers go on.
Superseded ==
    /\ ~lease /\ job.at \notin {"done", "gone"}
    /\ job' = [job EXCEPT !.at = "gone"]
    /\ UNCHANGED <<rows, call, stop, lease, asked, faults>>

\* Mutant: a workflow with an unknown outcome is left alone.
RecoverKnown ==
    /\ ~lease /\ Running /\ ~Unsure
    /\ stop["recovery"].at = "none"
    /\ stop' = [stop EXCEPT !["recovery"] = [at |-> "read", nodes |-> {}, as |-> "failed"]]
    /\ UNCHANGED <<rows, call, job, lease, asked, faults>>

\* execute_claim of another job: nodes exist, so nothing is replayed; the workflow
\* fails, with an unknown outcome if an attempt was STARTED or is unknown.
Recover ==
    /\ ~lease /\ Running
    /\ stop["recovery"].at = "none"
    /\ stop' = [stop EXCEPT !["recovery"] =
           [at |-> "read", nodes |-> {},
            as |-> IF Unsure THEN "outcome_unknown" ELSE "failed"]]
    /\ UNCHANGED <<rows, call, job, lease, asked, faults>>

-----------------------------------------------------------------------------

Coordinator ==
    \/ BeginStage \/ StageCalled \/ FinishPlan \/ FinishCheck \/ CreateTasks
    \/ FinishDispatch \/ StartTask \/ StartWork \/ StartTurn \/ GroupCalled
    \/ FinishTurn \/ FinishWork \/ StartHandoff \/ SaveHandoff \/ FinishHandoff
    \/ FinishTask \/ EndGroup \/ FinishVerify \/ CreateReviewer \/ StartReview
    \/ FinishReviewTurn \/ FinishReview \/ FinishReviewer \/ FinishFinal \/ Complete
    \/ StopOne \/ Stop("job")

Client ==
    \/ CancelWorkflow \/ CancelRun \/ Stop("client")
    \/ \E t \in Owners : CancelTask(t) \/ RetryTask(t)

Rescue == Recover \/ Stop("recovery")
Fault == CancelJob \/ LoseLease \/ Superseded

Next == Coordinator \/ (\E c \in Callers : Call(c)) \/ Client \/ Rescue \/ Fault

\* Something of this goes on: the event loop of a living job, providers that answer or
\* time out, the takeover of expired claims, the end of a job whose claim is refused.
Fairness ==
    WF_vars(Coordinator \/ (\E c \in Callers : Call(c)) \/ Rescue \/ Superseded)

Spec == Init /\ [][Next]_vars /\ Fairness

-----------------------------------------------------------------------------
(* Properties *)

InFlight == {c \in Callers : call[c].at \in {"reserved", "sent"}}
\* The most that they may cost.
Exposure == (CallCost + Overrun) * Cardinality(InFlight)

\* What was spent and the most that calls under way may still cost exceeds the limit of
\* the Run by what one call of each parallel worker may cost beyond its estimate, and by
\* no more: overspending does not add up over calls and rounds, and workers that reserve
\* against the same limit never count on the same money (reserve_model_call). The calls
\* never exceed theirs.
WithinBudget ==
    /\ run.spent + Exposure <= BudgetLimit + Overrun * Parallel
    /\ MaxCalls = 0 \/ flow.calls <= MaxCalls

\* The answer, and a review where one may follow, never lack a call because plans,
\* repairs and workers used it up: only money may run out
\* (agent_model_node_service.py, _reserved_downstream_calls).
AnswerAffordable ==
    \A c \in {"review", "final"} :
        call[c].at = "ready" /\ call[c].tries = 0 => Affords(1 + Kept(c))

\* What a running workflow has reserved is what its open calls reserved: nothing leaks and
\* nothing is released twice, by whichever way a call ends. Only the cancellation of the
\* job may leave something reserved, and then no call is under way that could miss it
\* (release_model_cost_reservation); the end of the workflow clears it (NoCallAfterEnd).
ReservedMatches ==
    Running => \/ flow.reserved = CallCost * Cardinality(Open)
               \/ /\ job.cause = "cancelled"
                  /\ \A c \in Callers : call[c].at \in {"none", "over"}

\* When one worker's failure ends the workflow, the results of its successful
\* siblings have been kept (_execute_worker_task_groups).
SiblingsKept ==
    job.at = "handler" /\ job.cause = "worker" =>
        \A t \in job.group : call[t].result = "ok" => t \in handoffs

\* A completed workflow has its one answer, a finished review where the policy asks
\* for one, and a handoff of every task of its last plan.
AnswerIsWhole ==
    flow.status = "completed" =>
        /\ replies = 1
        /\ Planned \subseteq handoffs
        /\ ReviewPolicy = "always" => turn[Reviewer] = "completed"

\* No call is paid for once the workflow has ended: ended workflows reserve nothing,
\* not even from the sessions of workers whose job was superseded.
NoCallAfterEnd == [][~Running => flow'.calls = flow.calls /\ flow'.reserved = 0]_vars

\* The workflow ends, whatever clients ask, providers answer and leases are lost: a job
\* that dies is followed by one that ends the workflow (workflow_worker.py).
PlannedEnds == <>(flow.status # "running")

=============================================================================
