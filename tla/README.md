# Verification of the NexusPilot API

NexusPilot is a self-hosted assistant: a FastAPI service
(`apps/api/src/nexuspilot_api`) with SQL state and an object store, a separate
worker process, model provider adapters (`packages/models`), two sandboxed
runtimes (`deployments`) and a web client (`apps/web`). A user's turn is a
`Run`. It is executed either as a *quick reply* (one model call, or a loop of
model calls and tools) or as an *Agent workflow* (controller, delegates,
review). Execution is durable: HTTP accepts the work, a worker claims it under
an expiring database lease, and everything a model or a tool returned is saved,
so that another worker can take over. The specification here follows the code
in that core; this file says what is modelled, checked and proved.

| Module | Models | Extends or composes | Proofs |
|---|---|---|---|
| `QuickTurn` | a durable quick reply under any number of workers | implements `ReplyPromise` | `QuickTurn_proofs` |
| `ReplyPromise` | what such a reply promises: the abstract specification | | |
| `QuickStreams` | the unfenced draft writer and the observer of its events | `QuickTurn` | `QuickStreams_proofs` |
| `AgentWorkflow` | one General Agent workflow, its worker, client and questions | | `AgentWorkflow_proofs` |
| `PlannedWorkflow` | a planned workflow with parallel workers, budget and review | | `PlannedWorkflow_proofs` |
| `Conversation` | turns, messages, submissions and workflows of one conversation | | `Conversation_proofs` |
| `StoredContent` | uploads, project copies and record bodies in the object store | | `StoredContent_proofs` |
| `MemoryVersions` | memories, their versions, keys and the index of active facts | | `MemoryVersions_proofs` |
| `ProductMemory` | the memory of the Assistant entry, its sharing, disclosure and recall over an account link | | `ProductMemory_proofs` |

The `MC*` modules only give constants, symmetry and instances for TLC. Granularity
is the same everywhere: one action is one committed transaction, or one external
call between two; a row lock shows as a guard, a plain read as what it may see.

## Inventory

| Part | State it keeps | Operations | Where it is hard |
|---|---|---|---|
| Quick response worker, ownership, recovery (`quick_response_*.py`, `commands/workflow_worker.py`) | execution row: status, owner, lease version, expiry; event log; a job's in-memory sequence and round | claim, renew, run the event loop, take over, interrupt | crash and takeover between any two commits; a lease that ends while a call is out; late cancellation |
| Model invocation (`model_response_service.py`) | one attempt row per round key | start, dispatch, complete, fail, outcome unknown | provider called outside any transaction; answer against cancellation |
| Tool loop (`response_file_tool_service.py`, `agent_file_tool_service.py`) | one tool row per call | request, allow, perform, save result | effect outside any transaction |
| User interactions (`user_interactions.py`) | question row, waiting execution and tool | ask, reply, expire, cancel | human answer against a consumer that is still unwinding |
| Run and task control (`run_service.py`, `task_service.py`) | Run, Task, outbox facts | create, cancel, retry | cancel_requested of running tasks |
| Submission and observer | execution row, request object; a read cursor | accept once, replay events | duplicate submissions; reading next to the writer |
| Workflow worker, state service, orchestrators (`features/agent_runtime`) | workflow, node, agent run, turn, event and snapshot rows | claim, resume from a checkpoint, start and complete nodes, delegate, cancel | several commits per transition; parallel delegates; budgets |
| Body store (`conversation_body_session.py`) | content-addressed objects, receipts, row references | flush object first, commit under the fence, reconcile | commit outcome unknown |
| Private files (`user_file_*.py`) | file row, two objects | reserve, upload, parse, delete, clean up | upload lease against clean-up |
| Sessions (`session_service.py`) | message sequence, turn keys | append, create turn once | sequence under a row lock; idempotency |
| Memory (`features/memory`) | memories, immutable versions, operation ledger, shares, snapshots | create, update, forget, search | optimistic versions, idempotent operations |
| Identity (`features/identity`) | users, sessions, tokens, keys, links | log in, revoke, link, reset | one-time tokens |
| Context builder, prompt catalog, knowledge, evaluation, pagination | rows; cursors | selection and CRUD | pure or sequential |
| Provider transport, Python and file runtimes, object storage, web client | external to the service | calls | retries, retention |

The components interact through the database (row locks on the Run come first,
then executions and tasks), through `asyncio` cancellation inside one worker
process (heartbeat, cancellation watch, shutdown), and through calls to
providers and tools that no transaction covers. `PROJECT.json` lists every
component with its status and the hazards at their lines.

## Module QuickTurn

`QuickTurn.tla` models one quick reply from submission to its end, with any
number of worker processes. Granularity: **one action is one committed
transaction or one external call between two transactions.** A worker is where
its Python coroutine stands:

| `pc` | the job is |
|---|---|
| `idle` | not working on this execution |
| `start` | in `_execute_claim`, about to start or resume the Run |
| `round` | at the head of a round: reuse the saved attempt, refuse it, or start one |
| `dispatch` | the attempt is saved as started; the provider has not been called |
| `provider`, `answered` | streaming; the completion has been saved |
| `tool` ... `result` | in `AgentFileToolService.execute`: call saved, policy, operation, outcome |
| `ask`, `suspended` | in `create_interaction`; unwinding with `InteractionPending` |
| `publish` | carrying an event that is about to be saved |
| `delivered` | after the terminal commit, still inside the stream |
| `finish` | in `finish_interrupted_response` |

Shared state is the database: `run`, `exec` (status, owner, version, lease),
`attempts`, `tools`, `asks` by round, `events` by sequence, `replies`. The
clock is reduced to the state of the lease: none, live or expired. An event's
payload, prompts and answers are abstracted to what decides control: an answer
is a text, a tool call or a question. `calls` and `effects` are history
variables that count what left the process.

The fence (`OwnsClaim`, `verify_response_claim`) guards every commit of a
worker. It does not guard the provider call, the tool operation or the commits
of other sessions, and neither does the model. A refused commit ends the job
(`FencedOut`): its handlers commit through the same session and are refused
again. `asyncio` cancellation is a flag per worker that is delivered at an
await (`Cancelled`); the two lines of the code that matter for it are that the
attempt's completion runs under a shield and that the handlers look at the
saved status before writing.

Deliberate abstractions, each visible in the module:

- one tool call per round (parallel read-only calls of a round are not modelled);
- no Run tasks, so `cancel_requested` does not occur: `create_task` is never
  called for a quick reply;
- `LapseUnheld` lets a lease run out only when no job works under it,
  `LapseHeld` (a stalled heartbeat) is a fault;
- storage faults, crashes, stalls and stray cancellations share the budget
  `MaxFaults`; cancellation by the user and by a heartbeat are not faults;
- database commits either happen or are refused; a driver that reports an
  applied commit as failed is not modelled;
- the unfenced stream-progress writer only replaces a draft URI, which is not
  part of this state but of `QuickStreams`;
- a cancellation that was sent may be delivered at any later await of the job,
  which is more than `asyncio` allows. `AgentWorkflow` is exact here.

A plain call (`ToolLoop = FALSE`) keeps its stream open around its own saved
completion (`CloseStream`): a deadline that passes there, or the watcher's last
read, makes the generator raise, and a FAILED event follows the completion
(`FailLate`).

## Modules ReplyPromise and QuickStreams

`ReplyPromise.tla` is the turn as the one who asked sees it: an outcome that
leaves `open` once, a log that grows at its end while the turn is open, and an
answer message with the completion only. There is no worker, lease or takeover
in it. `QuickTurn` implements it under the mapping `Promise` (the Run's status,
the event rows, the reply rows): the run `turn` checks `PromiseKept`, and it is
proved. Both need the tool loop: `FailLate` really breaks the promise in a plain
call. Nothing in the repository promises otherwise, so that is an observation
and not a finding.

`QuickStreams.tla` extends `QuickTurn` with the two parties that the lease does
not fence. The draft writer (`model_stream_progress_store.py`) looks at the
attempt, replaces its object and links it with a conditional update, each in a
transaction of its own, also when its worker has long been superseded
(`DraftSeen`, `DraftStored`, `LinkDraft`). The observer
(`quick_response_observer.py`) reads the status, then a page of events, and
after the last page of an execution that was over ends the stream by itself;
the browser disconnects and comes back at will.

## Module AgentWorkflow

`AgentWorkflow.tla` models one General Agent workflow under the worker backend,
from `create_workflow` to its end: the Run, the workflow row with its claim, the
main, final and completion node, the main task, the model rounds and tool calls
of the main node with their questions, the loop checkpoint, and the answer.
A worker again is where its coroutine stands:

| `pc` | the job is |
|---|---|
| `begin` | in `execute_claim`, deciding from the saved facts: close, resume, begin anew or fail |
| `enter` | in `execute`: create the task and the main node, or take up the saved ones |
| `loop`, `model`, `reserved` | in `run_file_tool_loop`: checkpoint, reuse or reserve, start the attempt |
| `dispatch`, `provider`, `answered`, `keep`, `respond` | before, in and after the provider call; checking, saving the checkpoint, reading the answer |
| `tool` ... `suspended`, `progress`, `kept` | in a tool call; checking and saving its checkpoint |
| `finish`, `final`, `deliver` | completing the main node, starting the final one, committing it with the message |
| `close`, `complete` | the completion node and the end of workflow and Run |
| `stop`, `sweep`, `end` | ending the workflow: first look, commit of the nodes, commit of workflow and Run |

The client is a request of its own: it may cancel the Run (`CancelRun`), the
workflow (`CancelStart`, `CancelEnd`), or both through the application's route
(`CancelForApp`), and it may die between its commits. What makes the workflow
harder than a quick reply is modelled as it is: a terminal transition takes
several commits and holds no lock across them; some commits pass the running
check (`Running`: fence, status, wall time) and others only the fence; an
exception inside `execute` ends the workflow, one outside of it escapes
(`Raise`); a cancellation that was sent lets only the step in flight land
(`Become`, `cancelling`).

`Snapshots` chooses what the running check sees. The code locks the row with a
query that does not populate the loaded object and then refreshes it with a
plain read. Under READ COMMITTED the refresh sees the committed row; under
MySQL's default isolation, the one deployed (`database.py` sets none), it sees
the snapshot of the transaction's first read, taken by `Look`. The passing runs
use snapshots.

Not in this module: delegated tasks (for the planned workflow they are in
`PlannedWorkflow`), reviews and revision rounds, validation of
the caller's own answer, model-only workflows, the in-process backend, budgets
beyond their effect of raising (`GiveUp`), the event sequence, and more than one
tool call in a round. `MaxVersion` reuses lease versions; a reused one is never
mistaken, because an owner works under its last claim and `Superseded` compares
the owner as well.

## Module PlannedWorkflow

`PlannedWorkflow.tla` follows `model_only_workflow_orchestrator.py` (version
1.1.0): a controller plans, the plan is checked and may be repaired once,
tasks are dispatched in groups of at most `Parallel`, each worker calls its
model in a database session of its own, results become handoffs, are verified,
reviewed and synthesised, and a review may ask for one more round.

| State | Code |
|---|---|
| `flow` | the workflow row: status, calls, reserved cost, nodes |
| `run`, `node`, `task`, `agent`, `turn`, `handoffs`, `replies` | Run, latest node of each key, tasks, agent runs, their turns, handoffs, final messages |
| `call[c]` | the typed model call of a stage or worker: `ready`, `reserved`, `sent`, `answered`, `over` |
| `job` | the coroutine of the orchestrator: stage, where in it, its groups, the cause it raises with |
| `stop[a]` | who is ending the workflow (job, client, recovery) and how far it is |
| `lease` | whether the job's claim is current |

Calls are paid by one conditional update (`Reserve`), charged when they answer
(`Charge`) or fail at a known cost (`ProviderFails`), and released in a
`finally` (`Settle`), before the caller looks at what came of them (`Outcome`).
A call may cost up to `Overrun` more than the `CallCost` that was reserved for
it, because the estimate leaves out the history and handoffs of the request. A
cancellation of the job that strikes between the commit of a reservation and
its `try`, or in the release itself, leaves the reservation (`CancelJob`). What
a stage must leave for the stages after it is `Kept`. Every commit of the orchestrator's session is
fenced (`Owned`), those of its workers' sessions are not (`Live`): the code
opens them without a claim. A client cancels the workflow, the Run or a task
and retries a task; ending a workflow takes one commit for each running node,
one for the facts below the agent runs and one for workflow and Run
(`StopRead` ... `StopEnd`), and each of them checks what the code checks, which
for the last is nothing. After a lost lease another job ends the workflow and
replays nothing (`Recover`).

Abstractions: a plan is an order and its needs, chosen from `Plans`, and the
tasks that wait, make up the group or are still to be saved (`left`, `group`,
`queue`) are sets that are taken in the order of the plan (`First`); an answer
is well formed, broken (repaired once) or refused; costs are units. Plain reads
see what is committed; stale snapshots are the subject of `AgentWorkflow` and
`Conversation`. `max_attempts` is 1, as the orchestrator sets it.

## Module Conversation

`Conversation.tla` is one conversation from the outside: its session row with
the next sequence number, the keyed and unkeyed turns that open Runs, and the
three ways a Run gets an executor: a quick response accepted once, an Agent
workflow, an inline reply.

A request is authorised, which opens its transaction and, with `Snapshots`,
fixes what its plain reads see (`Ask`); takes a row lock and decides (`Plan...`,
guards `SessionFree` and `RunFree`); and writes and commits (`Commit...`).
Between these steps others run, and it may die or be refused (`GiveUp`); its
answer may get lost and the client may send it again. A submission puts its
request object before any row names it (`StoreRequest`). Executors start,
complete and fail a Run as `response_run_lifecycle.py`, the quick response
worker and the workflow services do (`Execute`): a plain call may fail after its
completion (`FailQuick`), a workflow writes the end of its Run without looking
at it (`EndWorkflow`), and `cancel_run` ends a Run at once unless a task of a
workflow is running (`CancelRun`). `told` and
`executors` are history: what clients were told about a key, and which kinds of
executor have begun a Run.

## Module StoredContent

`StoredContent.tla` is content that lives in the object store while SQL says
what it is. An upload is let in by one conditional update, parsed, put in two
objects, verified and published if its row is still uploading; it may fail, be
interrupted or die at each point. A deletion first revokes access and then
deletes source, parsed object and row; the cleanup does the same for what has
expired. A copy into a project reserves its row, reads, puts and marks ready.
A record's body is put, receipt first, before the one SQL commit that refers to
it and, with a turn, binds its upload; the commit may take place although its
answer is lost (`AnswerLost`). The maintenance runs while no writer does: it
deletes bodies nobody refers to, then their receipts, and can restore bodies to
SQL. `late` marks files whose upload put an object after its reservation was
revoked (see Findings).

## Module MemoryVersions

`MemoryVersions.tla` follows `memory_service.py`: a row per memory (status,
version, fact, entry of the unique index over `active_semantic_key_hash`), its
immutable versions, its mutations with their keys, and per client one
transaction with what its authorization saw (`sees`, `replay`, `before`), the
rows it has locked (`holds`) and its answer.

| `at` | the transaction is |
|---|---|
| `look` | in `create_memory`, before it knows whether its key was used |
| `lock` | about to take its row `FOR UPDATE` |
| `supersede` | about to lock the memory it replaces |
| `flush` | about to write: the unique indexes decide (`Flush`, `FlushRefused`), or it waits (`Waits`) |
| `commit` | flushed; the rows and index entries it wrote hold up others |

A lock that is not granted ends the request (`LockFails`), as a conflict or, in
the replacement of a creation, as an error; and a process may
die (`Dies`): then nothing of the transaction remains. The flush writes changed
rows in the order of their identifiers and new rows after them (`Gone`), which
decides whether a memory meets the index entry of the one it replaces.

## Module ProductMemory

`ProductMemory.tla` follows the memory of a person in the Assistant entry
(`product_memory.py`), the share of an entry with the person's native account
(`sharing.py`), the consent for one Run to read it (`disclosures.py`), the
recall by Runs of the native account (`automatic_recall.py`) and the account
link that all of this goes over (`account_linking.py`).

| State | Code |
|---|---|
| `scope` | enabled, version, and the link version `native_use_grant` names |
| `entry`, `history` | the entry rows and their immutable versions, from version zero |
| `operations` | the recorded operations by request key |
| `grant`, `disclosures` | the share of an entry; which version a Run may read |
| `link`, `running` | the account link; the Runs of both sides |
| `client` | a request from its snapshot (`Ask`, `Found`) to its commit |
| `approved` | history: what the person approved and has not taken back |

A request is one transaction: its authorization opens the snapshot that plain
reads see, then it waits for the scope's row lock, reads what it locks as
committed, and commits. What it takes from the snapshot is in `seen`: the use of
its key, room in the scope, an earlier disclosure, the link, and for
`disclose_shared` the entry as it is shared. All else is one step under the
lock. `approved` changes only with the request that gives or takes an approval;
`ReadsAreApproved` says that the conditions the code evaluates when it reads
(`Shared`, `GivenToModel`, `RecallOn`) never hold without it, although entry
versions, grant versions and link versions all move and may come back to equal
contents.

## Runs

The states are distinct states as TLC reports them.

| Run | Bounds | States | Properties |
|---|---|---|---|
| `turn` | 2 workers, 2 rounds, 1 delta, 1 fault, tool loop, `FairSpec` | 272 254 | `AtMostOnce`, `Agreement`, `LogInOrder`, `AnswerReachesTool`, `PromiseKept`, `Fenced`, `SavedStands`, `TurnEnds`, `QuestionsSettle` |
| `turn_streams` | 2 workers, 1 round, 1 delta, 2 faults, plain call, pages of 1 | 419 672 | `FinalResponseKept`, `NoEndIsMissed`, `EveryEventShown` |
| `workflow` | 2 workers, 2 rounds, 1 fault, snapshots, limited time | 3 390 573 | `AtMostOnce`, `CheckpointHonest` |
| `workflow_live` | 2 workers, 1 round, 1 fault, snapshots, `FairSpec` | 206 192 | `OneAnswer`, `CompletedIsWhole`, `LateWriteIsLast`, `UnknownIsReported`, `WorkflowEnds` |
| `conversation` | 2 clients, 2 keys, 2 bodies, 2 Runs, 3 messages, 4 requests, snapshots | 957 470 | `SequenceDense`, `OneUnfinishedTurn`, `AcceptedIsWhole`, `AnswersHold`, `EndStands` |
| `two_executors` | 1 client, 1 key, 1 body, 1 Run, 3 requests | stops at a violation | `OneExecutor`, see Findings |
| `planned` | plans of one task, two at once, two in turn; review always, 2 rounds, 2 in parallel, 7 calls, 18 nodes, calls whose cost is not known, budget 2, 1 client request, 1 fault | 1 863 320 | `AnswerAffordable`, `ReservedMatches`, `SiblingsKept`, `AnswerIsWhole`, `NoCallAfterEnd` |
| `planned_limits` | two parallel tasks, review on a failed verification, 1 round, 13 nodes, calls of twice their estimate, budget 7, 1 client request, 1 fault | 1 140 211 | `WithinBudget`, `PlannedEnds` |
| `stored` | 1 file, 2 records, 2 bodies, 2 writers, 1 saver, both deleters, quota 3, 2 writes, 1 fault | 673 581 | `ReadyIsStored`, `DeletedInTimeIsGone`, `BodyReadable` |
| `late_upload` | as `stored`, no writes, no fault | stops at a violation | `DeletedIsGone`, see Findings |
| `memory` | 3 memories, 1 fact, 3 keys, 2 clients, 3 versions, 4 requests | 252 729 | `OneActiveFact`, `CorrectionsInOrder`, `ErasedStays`, `AnswersRecorded` |
| `product_memory` | 1 entry of 4 versions, 2 texts (one sensitive), 1 selection of fields, 4 keys, 2 clients, a link of 3 versions, 4 requests | 850 156 | `AppliedOnce`, `ReadsAreApproved` |

Why the bounds are enough for the cases to happen:

- Two workers are the smallest takeover; two rounds the smallest turn or
  workflow in which an earlier round must be reused, and round 1 may be a tool
  call or a question; one delta makes the event log longer than its final
  event. One fault yields a takeover with a stale job behind it (two, a stall
  followed by a crash, are in `turn_streams`), and the client may cancel any
  number of times.
- With pages of one event the observer always needs another read, and the last
  page is always full.
- Two clients that each hold an open transaction, a retry of either and a Run
  that ends in between need four requests; three messages let both append.
- In `planned` seven calls admit two rounds of one task but not two repaired
  rounds of two, so the limit of calls refuses. Its calls report no usage and
  are charged nothing, and the budget of 2 is what two workers reserve at
  once, so there only calls run out. What money refuses is the subject of
  `planned_limits`: 13 nodes are exactly what `Fits` asks for two tasks and a
  review; a call costs two units where one was reserved, so that two workers
  may both pass the check with three units left, and the budget of 7 lacks the
  calls of the repairs.
- The quota admits one upload of the largest parse; one fault lands between any
  two steps of an upload, deletion or commit. The two deleters run at once.
- Three memories are needed to replace in either order of identifiers and
  still meet a third; four requests allow create, create, replace against
  correct, and delete.
- Four requests allow save, share, disclose and a re-grant, with a revoked link,
  a confirmed one or the end of a Run at any point between; the two clients
  make any two of them overlap.

Workers and clients are interchangeable and nothing in the modules orders them,
so the safety runs use symmetry; liveness runs use none. Deadlock is not
checked: a turn, a workflow and the bounded clients may all be done.

What the properties say, in a sentence each, stands above them in the modules;
the type invariants (`TypeOK`) are checked while developing and proved where a
module has proofs, and take no run of their own.

`AtMostOnce` and `Fenced` are about replay and stale writers;
`Agreement`, `CompletedIsWhole`, `AnswerIsWhole`, `AcceptedIsWhole` relate rows
that are written by different commits; `LogInOrder`, `SequenceDense`,
`EveryEventShown`, `CorrectionsInOrder` are about sequences under takeover,
locks, paging and optimistic versions; `SavedStands`, `EndStands`,
`LateWriteIsLast`, `NoCallAfterEnd`, `ErasedStays` say what no later step may
undo; `WithinBudget`, `AnswerAffordable`, `ReservedMatches` are
about shared limits; `FinalResponseKept`, `ReadyIsStored`,
`DeletedInTimeIsGone`, `BodyReadable` relate rows and objects; `AnswersHold` and `AnswersRecorded`
relate what a client was told to what is saved; `AppliedOnce` counts effects
against operations; `ReadsAreApproved` relates what another account may read to
what its owner approved and has not taken back.

`WorkflowEnds` admits one way not to end: a workflow that waits for a question
of a Run that is over. That case is real: `cancel_run` alone cancels the
question and leaves the waiting workflow, which nothing requeues.

### Fairness

*QuickTurn, AgentWorkflow.* A worker process that is up polls and its job
proceeds (`commands/workflow_worker.py` loops for ever and an `asyncio` task
that can run is run), an unheld lease runs out with time, and the same loop
sweeps overdue questions. A worker that dies is started again (`restart:
unless-stopped` in the production compose file). A cancelling request under way
proceeds.

*PlannedWorkflow.* One weak fairness over the event loop of a living job, the
calls it is waiting for (a provider answers or times out), the end of a job
whose claim was refused, and the takeover of an expired claim: something of
this always goes on. The fairness does not say which.

Nothing is assumed of users. Faults are bounded, and no fairness is assumed of
them. The other modules state safety only: a client that never retries may
leave its work undone.

## Findings

`OneExecutor` (`two_executors`). A Run is to be executed by one executor:
`_start` is to "Atomically claim a saved chat Run; reject duplicates before
model dispatch" (`response_run_lifecycle.py:34`), and it refuses with "Run is
already executing, ended, or owned by a workflow" (`:78`, also
`quick_response_submission.py:79`). `create_workflow` takes a pending or running
Run and looks for another workflow only
(`workflow_execution_state_service.py:169-181`). A quick response that is
queued or running, or an inline reply, is not looked for, and a queued quick
response then resumes the Run because it is RUNNING. Run and answer are
produced twice.

`DeletedIsGone` (`late_upload`). "Failed writes retain durable keys until cleanup
succeeds" (`user_file_service.py:3`), and the cleanup says "Active upload leases
and ready files are excluded" (`user_file_cleanup.py:5`). `begin_upload` accepts
until `expires_at` and does not extend it, and `delete_file` takes an uploading
file whose time is over (`user_file_service.py:348-361`): the upload puts its
source after the deletion has removed it, and the row that named its key says
deleted. `DeletedInTimeIsGone` leaves these files (`late`) out.

## Observations without a run of their own

They follow from the definitions and were traced in the code; each is about a
window of a few commits.

*Ends that meet.*

- `finish_interrupted_response` (`quick_response_worker.py:36`; its docstring,
  line 25, promises not to overwrite success) sets the execution's status
  whatever it was. After the terminal commit the heartbeat finds no running row
  to renew and cancels the job; if that is still at an await, the completed
  execution becomes `outcome_unknown` while the Run stays completed.
- The heartbeat renews running rows only. If it looks between the commit of a
  question and the job's unwinding, the waiting execution, or workflow, is ended
  instead.
- `cancel_workflow` loses its row lock with its first commit and writes
  CANCELLED with its last, over a completion in between
  (`workflow_execution_state_service.py:694-696`, `796`). The application's
  cancel route can then leave Run and workflow in different states
  (`application_runs.py:178`): a Run that completed after it was read is
  overwritten as cancelled.
- `complete_workflow` writes COMPLETED without looking at the Run (`:626`). If a
  client has cancelled the Run only, or the App's route has and goes on to cancel
  the workflow, the cancelled Run is completed and has its answer, although
  `personal-assistant-app-integration.md:508` says that no late answer turns
  `cancelled` back into `completed`. Nor do `fail_workflow` and the sweep of a
  cancellation look at each other's end (`:651`).
- Under the default isolation the running check sees the snapshot of its
  transaction (`:1370`): a worker that has read the running workflow may still
  start or complete a node, or deliver the answer, after a client cancelled the
  workflow, where `phase-3-agent-workflow-plan.md:327` says "不提交迟到业务输出、
  不启动后续节点" (no late output, no further node). What does hold is
  `LateWriteIsLast`: the workflow stays ended, only the owner in that one
  transaction still adds something, and its next check stops it.
- A wall time that runs out before a saved completion is resumed raises outside
  any handler (`resume_saved_finalization`, `workflow_worker.py:99`): the
  workflow stays running and is claimed again without end. `workflow_live` has
  no limit of time for this reason; with one, TLC shows this behaviour.
- `FailLate`: a plain call that completed may be followed by a FAILED event; if
  that event cannot be saved, the Run stays completed and its execution ends
  failed, so that `Agreement` needs the tool loop.

*Planned workflows.*

- What is reserved for a call is to be an "upper bound for tokenizer units"
  (`agent_model_node_service.py:555`). It is computed before
  `_apply_runtime_context` puts up to 100 messages of the Session and the
  handoffs into the request (`model_response_service.py:730-770`): a call may
  cost more than was reserved, and the last one before the limit overrun it.
  What does hold is `WithinBudget`: at most one such excess for each call that
  can be under way at once, never a sum over calls and rounds.
- A node that was started while a cancellation runs stays RUNNING in a
  cancelled workflow, and a node that completed after it was selected is
  overwritten as cancelled (`:722`); the final commit of a failure or
  cancellation looks at nothing, and a completion overwrites
  `cancel_requested`.
- `start_task_and_agent` does not look at the status of its task, and the
  `complete_*` operations at none: a cancelled task can run and complete.
  `retry_task` can succeed only between the commit of the child facts and the
  terminal commit.
- Only the first failure of a group is reported; workers' sessions carry no
  claim (`model_only_workflow_orchestrator.py:1171`); a process that dies in a
  call leaves its reservation behind (`Open` still counts it), and so may a
  cancelled job, until the end of the workflow clears what is reserved.
- The main task of a General Agent has no agent run and stays RUNNING under a
  failed workflow (`:751`, `general_agent_orchestrator.py:625`).

*Content and memories.*

- Replacing a memory by PATCH writes changed rows in the order of their keys;
  if the new one comes first it meets the unique entry of the old, and the
  update is refused although it is legal. A superseded memory gets no mutation
  record of its own, and an identical retry that races the first request is
  refused with a conflict instead of replayed.

- A scope holds "at most 200 unforgotten records"
  (`docs/implementation/phase-2-llm-core-capabilities.md:1048`). The number is
  counted when something is saved, in the snapshot of the request
  (`product_memory.py:440`), so that two requests at 199 both pass; and undoing
  a forget counts nothing (`:507`): forget, save another, undo. Both are
  behaviours of `ProductMemory` with two entries and a capacity of one.

*Requests.*

- Under REPEATABLE READ a concurrent duplicate of a keyed turn may be refused
  instead of replayed (`session_service.py:294-297`): the Run is not in its
  snapshot yet. `AnswersHold` holds: it was told nothing.
- An observer that reconnects over HTTP always starts from the first event
  (`routers/responses.py:36-51`).

## Proofs

Each holds for every value of the constants that meets the named assumption of
its module (`QuickTurnAssumption`, `QuickStreamsAssumption`, `ConversationAssumption`,
`StoredContentAssumption`, `MemoryVersionsAssumption`,
`ProductMemoryAssumption`, `AgentWorkflowAssumption`,
`PlannedWorkflowAssumption`): bounds are natural numbers, the special values are
not members of the sets, requests, plans, limits and sizes are what the schemas
admit.

| Module | Theorem | Property |
|---|---|---|
| `QuickTurn_proofs` | `TypeCorrect`, `CalledOnce`, `LogKept`, `FenceHolds`, `CancelHolds`, `SettledHolds` | `TypeOK`, `AtMostOnce`, `LogInOrder`, `Fenced`, `CancelIsFinal`, `SavedStands` |
| | `AnswerTold` | `AnswerReachesTool` |
| | `PromiseHolds`, `EndsTogether` (assuming `ToolLoop`) | `PromiseKept`, the refinement of `ReplyPromise`; `Agreement` |
| `QuickStreams_proofs` | `StreamsTypeCorrect`, `FinalKept`, `NoneMissed`, `AllShown` | `StreamsTypeOK`, `FinalResponseKept`, `NoEndIsMissed`, `EveryEventShown` |
| `AgentWorkflow_proofs` | `TypeCorrect`, `CalledOnce`, `CheckpointHolds`, `AnsweredOnce`, `CompletedWhole`, `UnknownReported`, `LateWrites` | `TypeOK`, `AtMostOnce`, `CheckpointHonest`, `OneAnswer`, `CompletedIsWhole`, `UnknownIsReported`, `LateWriteIsLast` |
| `PlannedWorkflow_proofs` | `TypeCorrect`, `NothingOverspent`, `ReservationsMatch`, `NothingAfterEnd` | `TypeOK`, `WithinBudget`, `ReservedMatches`, `NoCallAfterEnd` |
| | `AnswerIsPaidFor`, `GoodResultsKept`, `AnswersAreWhole` | `AnswerAffordable`, `SiblingsKept`, `AnswerIsWhole` |
| `Conversation_proofs` | `TypeCorrect`, `Dense`, `OneTurn`, `Whole`, `Answered`, `EndHolds` | `TypeOK`, `SequenceDense`, `OneUnfinishedTurn`, `AcceptedIsWhole`, `AnswersHold`, `EndStands` |
| `StoredContent_proofs` | `TypeCorrect`, `Ready`, `Gone`, `Readable`, `Receipted` | `TypeOK`, `ReadyIsStored`, `DeletedInTimeIsGone`, `BodyReadable`, `BodyHasReceipt` |
| `MemoryVersions_proofs` | `TypeCorrect`, `OneActive`, `Ordered`, `ErasedForGood`, `Truthful` | `TypeOK`, `OneActiveFact`, `CorrectionsInOrder`, `ErasedStays`, `AnswersRecorded` |
| `ProductMemory_proofs` | `TypeCorrect`, `EachAppliedOnce`, `OnlyApprovedIsRead`, `ToldHolds`, `OffHolds` | `TypeOK`, `AppliedOnce`, `ReadsAreApproved`, `ToldIsRecorded`, `OffActivatesNothing` |

No property is inductive by itself. Every strengthening below was first checked
by TLC as an invariant on the instance of its run.

**QuickTurn.** `TInv` adds to `TypeOK` that a reply is saved with its completion
(`ReplyKnown`) and where a worker may stand in which round (`Positions`). Steps
are first sorted by what they touch (`Quiet`, `SavesTool`, `SavesAttempt`,
`Commits`, `Outside`); with that frame most conjuncts need a few cases.
`CalledOnce` rests on `OnceInv`: what has no saved row was never called, and a
worker between saving and calling is alone in its round. The fence is not part
of that argument: the row saved under the round's unique key is. `LogKept` needs
that the owner of the live lease counts from the log's end (`OwnerAtEnd`),
because only the owner publishes and a new owner reads the end when it claims.
`FenceHolds` follows by cases. `PromiseHolds` adds `OpenTurn`: an owner inside a
turn has a Run that is running or cancelled, so that its terminal commit takes
the promise out of `open` once; each step is then one of `Say`, `Complete`,
`Fail`, `Cancel` or a stutter. `SettledHolds` uses `SettledInv`: whoever may
still write an attempt's outcome or a question is alone in its round
(`SentAlone`, `AskAlone`) and knows what was saved (`AnswerSaved`).
`EndsTogether` needs to know why the fence may ignore the execution's status:
the owner of the claim is at work only on a row that runs (`OwnerRuns`), so it
can neither end the Run twice nor ask a second question (`OneOpenAsk`), and what
it reports at the end fits the Run (`BrokenIsOpen`). The plain call is excluded
because its late failure (`FailLate`) is reported on a row that has ended: when
that report breaks, TLC shows a completed Run with a failed execution.
`AnswerTold` rests on
`ToolOfResponse` (a tool belongs to a completed response and what is performed
is no question) and `AskedOwner`: settling a question takes the claim away, so
that a worker still unwinding from it cannot cancel the tool afterwards.

**QuickStreams.** A step of the turn is a step of `QuickTurn`, so its invariants
hold here. `FinalKept` follows from them: an attempt is completed only from
`started`, in the step that links the final response. For the observer,
`OverInv` says that an execution that is over stays over, and that its log has
its end unless none can come (the Run is cancelled, or its last owner is gone);
`ViewerInv` says what one who reads status and log in this order may conclude:
what was shown is saved (`ShownSaved`), what was seen to be over is
(`SeenOver`), and a last page reaches the first end there is (`PageSaved`, by
the theorems about intervals and cardinality). Both kinds of turn are covered.

**AgentWorkflow.** Every save of a worker is fenced by its claim, so at most one
worker is the owner (`OneOwner`), and a worker that has lost its claim can only
make the call it was about to make, stop, or be refused. `LoopInv` says where
the owner may stand for a given checkpoint (`Position`) and what a checkpoint
implies for the attempt and tool rows (`Saved`); a new owner starts from the
checkpoint, at a place that fits it. The actions are first sorted by what
they touch (`EveryStep`), and each kind is treated once. `CalledOnce` adds
`Sent`: the external calls are not fenced, but each follows the commit of a row
that only one worker can insert. `Closing` ties nodes, answer and the owner's
`Place`; `Whole` and `Reports` say what an owner knows when it ends the workflow.
`LateWrites` needs `Closed`: the Run of a workflow that has ended, or that a
client is cancelling, is closed, so that whoever writes after the end is the
owner in the transaction it was in (`LateNode`). All theorems hold under either
isolation.

**Conversation.** `IInv` says what the row locks guarantee (`AppendLock`: the
holder is one and its sequence is still the next; `RunLock`), what a request was
let through with (`Authorized`), what its plan established and its lock keeps
(`Kept`), that absent rows have no key (`Keyless`) and that executions belong to
Runs (`Owned`). The stale snapshot is harmless for the properties because each
of them rests on a locked read or a unique constraint, and the proof shows
where. `EndHolds` adds `Executed`: whoever may still write the end of a Run is on
record as its executor, and a quick response that runs alone finds its Run
running or cancelled.

**StoredContent.** `FileInv` says what an unfinished upload, deletion or copy
knows (`UploadKnows`, `DeleterKnows`, `SaverKnows`); `BodyInv` what an open
transaction has put (`WriterKnows`) and what the maintenance has established
before each of its two deletions (`SweepKnows`). The two halves touch disjoint
names of the store, so each family of steps preserves the other half by frame.

**MemoryVersions.** `Transactions` says which rows an unfinished request has to
itself (`Chosen`, `Locks`), that what it checked of them still holds
(`OwnKnown`, `ReplacedKnown`), and that the index entry and key it has flushed
are nobody else's (`Claims`, `KeysFree`). The central lemma is `HeldStands`: a
commit changes no row that another transaction holds. Everything a transaction
checked is therefore still true when it commits, and the four properties follow
commit by commit. `CorrectionsInOrder` counts a set, and needs the finiteness of
`changes` (`RowsAgree`) and the theorems about cardinality.

**ProductMemory.** `IInv` has three parts. `RowInv`: versions, grants and
disclosures agree with the operations recorded for them, and what a request has
flushed is on record before its version is (`AppliedBefore`). `ClientInv`: a
request in flight and the snapshot it has seen are of entries on record
(`RequestsKnown`, `SeenKnown`). `ApprovedInv`: each readable grant, disclosure
and consent was approved for the text it names. The steps are sorted by what
they touch (`StepKinds`), and the lemma everything rests on is `Grows`: an entry
is never removed and a recorded version never changes its text, so that an
approval of a version keeps its meaning and a version seen in an old snapshot is
still on record. That is why a stale read cannot bring a withdrawn consent back.

**PlannedWorkflow.** `TypeInv` splits the type invariant by variable and adds
what the control states need: the tasks of a group are tasks of the plan, every
call of a group that is saved is over, a round is asked for only when one is
left. `CallsBelong` says where calls may be under way: that of a stage while the
job waits for it, those of a group while the job waits for the group, and any
only for a job that is gone. Two accounts rest on it. `MoneyInv`: what is reserved is the cost of
the open calls unless the job was cancelled, and nothing once the workflow has
ended, so that a worker's answer that comes after the end releases nothing
twice; the sums are kept by lemmas about cardinalities. What a cancelled job
leaves cannot be counted on, so `CancelledInv` says that no call is under way
then and none begins; and as a call may cost more than it reserved, the account
of the budget needs how many calls there can be (`WorkInv`, `FewInFlight`): a
group has at most `Parallel` tasks, which is what the scheduling of groups
gives. `KeptInv`: from a
valid plan on, one call for the answer and those of the review are left, and
each stage hands on to the next what it did not use. `SavedInv` follows a group
from its last result to its last handoff, and `WholeInv` the plan from a passed
verification to the answer, through review, refinement and every way a job can
be stopped. `NothingAfterEnd` needs `EndIsFinal`: no step of any session counts
a call or reopens an ended workflow, although workers write without a claim.
Two of the job's branches had first been written as CASEs whose guards overlap
(the verdict on a plan, the end of a review); a step that could not be proved
showed that their value was open there, and the branches now are tried in the
order of the code.

Model-checked only: liveness (`PlannedEnds` and the other properties under
fairness; fairness and `ENABLED` are outside the prover). Every invariant and
action property a passing run checks is proved, two of them for the
value of `ToolLoop` that the table names. No module with a proof declares a recursive
operator.

## Not modelled, and why

The map covers about an eighth of the lines that count as implementation. What is
left is mostly not a protocol: the web client, schemas and routers, migrations,
formatting, prompts, parsing, pricing, ranking and plain CRUD. In the modelled
services the share is high (workflow worker, ownership, quick response, body
maintenance, user interactions: about 60 to 85 per cent).

- *Delegation and internal review of the General Agent, its contents, the
  in-process backend, usage reconciliation and the event sequence of
  workflows*: the commit protocol of delegated work is that of
  `PlannedWorkflow`; the event sequence is taken under the workflow's row lock.
- *Parallel read-only tool calls of one round, several questions in a round*:
  each call has its own row and key; `QuickTurn` has one for each round.
- *Outbox facts and the external task API*: the rows are written with the commit
  they describe. The worker finds claimable workflows by the outbox row that
  `create_workflow` commits with the workflow, and no code updates or deletes
  it, so that it is part of the workflow's existence here.
- *Project scopes, the other entries and several account links of product
  memory, its encryption and its check of credentials*: the operations are the
  same ones on another scope, and the rest concerns contents.
- *Context builder, prompt catalog, memory retrieval, knowledge, evaluation,
  statistics, cursor pagination*: selection, ranking and projections of data;
  no state that two parties change.
- *Session, project, profile and collaboration memory; identity, SSO, API keys*:
  single transactions over rows with one-time states, without a protocol
  of several steps and without interaction with the modelled core.
- *File parsing, the Python runtime, provider adapters*: one external step that
  answers, fails or leaves its outcome unknown; bounded retries inside a
  transport are part of that step.
- *Object storage and the SQL server*: committed state, with the isolation and
  locks the modules name. A driver that reports an applied commit as failed is
  modelled for record bodies only (`AnswerLost`).
- *Migrations, deployment, verification scripts*: run once.

`PROJECT.json` lists every component with its status and every hazard at its
line. Two hazards have no property: the ends of Run and workflow that
overwrite each other, and the capacity of a memory scope. In both the bad
outcome really happens; they are among the observations above.
