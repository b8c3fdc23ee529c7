------------------------ MODULE PlannedWorkflow_proofs ------------------------
(***************************************************************************)
(* What a planned workflow keeps, for every plan, policy and limit.        *)
(*                                                                         *)
(* Everything rests on where a call may be under way: only where the job   *)
(* waits for it (CallsBelong).  So nothing is reserved between two stages, *)
(* which makes the accounts of the reservations (MoneyInv) and of the      *)
(* calls that are kept for the answer (KeptInv) inductive; the results of  *)
(* a group are followed task by task to their handoffs (SavedInv), and the *)
(* answer from the verification on (WholeInv).  At most Parallel workers   *)
(* are at work, and a cancelled job has no call (WorkInv, CancelledInv).   *)
(*                                                                         *)
(* One lemma per action and invariant, named <action>_<invariant>; the     *)
(* lemmas Step... join them.                                               *)
(***************************************************************************)
EXTENDS PlannedWorkflow, FiniteSetTheorems, NaturalsInduction, TLAPS

USE PlannedWorkflowAssumption

-----------------------------------------------------------------------------
(* Types: the parts of TypeOK, one per variable, and what goes with them *)

FlowOK == flow \in [status : {"running"} \cup Ended, calls : Nat, reserved : Nat,
                    nodes : 0..MaxNodes]
RunOK == run \in [status : {"running", "completed", "failed", "cancel_requested",
                            "cancelled"}, spent : Nat]
NodeOK == node \in [Key -> NodeStatus]
TaskOK == task \in [Owners -> [status : TaskStatus, attempts : 0..1]]
AgentOK == agent \in [Owners -> AgentStatus]
TurnOK == turn \in [Owners -> {"none", "started", "completed", "failed"}]
HandoffsOK == handoffs \subseteq Tasks

CallAt == {"none", "ready", "reserved", "sent", "answered", "over"}
CallType == [at : CallAt, result : Result \cup {"invalid"}, tries : 0..1]
OverOK == {"ok", "failed", "outcome_unknown", "stopped"}
\* A call that is over has an outcome.
CallOK ==
    /\ call \in [Callers -> CallType]
    /\ \A c \in Callers : call[c].at = "over" => call[c].result \in OverOK

JobAt == {"create", "begin", "turn", "call", "tasks", "finish", "prepare",
          "group", "save", "handler", "done", "gone"}
JobStep == {"task", "node", "turn", "submit", "handoff", "submitted", "refine", "go"}
Cause == {"none", "limit", "call", "plan", "needs", "worker", "verify", "cancelled"}
JobType == [at : JobAt, stage : Stages, plan : Plans \cup {NoPlan},
            round : 1..Rounds, repaired : BOOLEAN,
            verdict : {"none", "valid", "repair", "reject", "pass", "fail"},
            step : JobStep, left : SUBSET Tasks, group : SUBSET Tasks,
            queue : SUBSET Tasks, cause : Cause]
JobOK == job \in JobType

\* The tasks of a group are tasks of the plan.
WorkOK == job.stage = "work" =>
              job.at # "begin" /\ job.left \cup job.group \cup job.queue \subseteq Planned
\* The answer is written on the way to the last stage.
RepliesOK == replies = IF job.stage = "end" THEN 1 ELSE 0

EndsAs == {"failed", "cancelled", "outcome_unknown"}
StopType == [at : {"none", "one", "read", "nodes", "children", "end"},
             nodes : SUBSET Key, as : EndsAs]
StopOK == stop \in [Actors -> StopType]
BoundsOK == lease \in BOOLEAN /\ asked \in 0..MaxAsks /\ faults \in 0..MaxFaults

\* A round more is left when one is asked for, and a group is saved when all its calls
\* are over.
RefineOK == job.stage = "review" /\ job.at = "tasks" /\ job.step = "refine" =>
                job.round < Rounds
GroupOver == job.at = "save" => \A t \in job.group : call[t].at = "over"

JobInv == JobOK /\ WorkOK /\ RepliesOK /\ RefineOK
RowsOK == FlowOK /\ RunOK /\ NodeOK /\ TaskOK /\ AgentOK /\ TurnOK /\ HandoffsOK
TypeInv == RowsOK /\ CallOK /\ JobInv /\ GroupOver /\ StopOK /\ BoundsOK

LEMMA TypeSaysIt == TypeInv => TypeOK
  BY DEF TypeInv, RowsOK, TypeOK, FlowOK, RunOK, NodeOK, TaskOK, AgentOK, TurnOK, HandoffsOK,
     CallOK, CallType, CallAt, JobInv, JobOK, JobType, JobAt, JobStep, Cause, RepliesOK,
     StopOK, StopType, EndsAs, BoundsOK

\* The first of some tasks of the plan is one of them.
LEMMA FirstIn ==
    ASSUME NEW S, S # {}, S \subseteq Planned, JobOK
    PROVE  First(S) \in S
  <1> DEFINE order == job.plan.order
             I == {i \in DOMAIN order : order[i] \in S}
  <1>1. order \in Seq(Tasks)
    <2>1. \A p \in Plans : p.order \in Seq(Tasks)
      OBVIOUS
    <2>2. NoPlan.order \in Seq(Tasks)
      BY DEF NoPlan
    <2>. QED BY <2>1, <2>2 DEF JobOK, JobType
  <1>2. I \in SUBSET Nat /\ I # {}
    BY <1>1 DEF Planned, ToSet
  <1>. HIDE DEF I
  <1>3. PICK m \in I : \A i \in I : ~(<<i, m>> \in OpToRel(<, Nat))
    BY <1>2, WFMin, NatLessThanWellFounded
  <1>4. \A i \in I : m <= i
    <2>1. \A i \in I : ~(i < m)
      BY <1>2, <1>3, Zenon DEF OpToRel
    <2>. QED BY <1>2, <2>1
  <1>5. Min(I) \in I
    BY <1>4 DEF Min
  <1>. QED BY <1>5 DEF First, I

LEMMA NextGroupOf ==
    ASSUME NEW S
    PROVE NextGroup(S) \subseteq S
  BY DEF NextGroup

LEMMA WorkerIn ==
    ASSUME JobInv, job.stage = "work", job.queue # {}
    PROVE  Worker \in job.queue /\ Worker \in Tasks
  BY FirstIn DEF Worker, JobInv, WorkOK, JobOK, JobType

\* The job goes to another stage.
LEMMA JobGoes ==
    ASSUME JobInv, job' \in JobType, job'.stage \notin {"work", "end"}, job.stage # "end",
           job'.at # "tasks", replies' = replies
    PROVE  JobInv'
  BY DEF JobInv, JobOK, WorkOK, RepliesOK, RefineOK

\* The ways in which several actions go wrong or go on.
LEMMA StoppedTypes ==
    ASSUME JobInv, Stopped, replies' = replies
    PROVE JobInv' /\ GroupOver'
  BY DEF GroupOver, JobInv, JobOK, JobType, JobAt, WorkOK, Planned, RepliesOK, RefineOK,
     Stopped

LEMMA HandledTypes ==
    ASSUME JobInv, NEW a \in Actors, Handled(a), replies' = replies
    PROVE  JobInv'
  <1>1. CASE a = "job"
    BY <1>1, StoppedTypes DEF Handled, Stopped
  <1>2. CASE a # "job"
    BY <1>2 DEF Handled, JobInv, JobOK, WorkOK, Planned, RepliesOK, RefineOK
  <1>. QED BY <1>1, <1>2

LEMMA RaiseTypes ==
    ASSUME JobInv, StopOK, NEW as \in EndsAs, NEW keys \in SUBSET Key, NEW cause \in Cause,
           Raise(as, keys, cause), replies' = replies
    PROVE  JobInv' /\ StopOK' /\ GroupOver'
  <1>1. JobInv' /\ GroupOver'
    BY DEF GroupOver, JobInv, JobOK, JobType, JobAt, WorkOK, Planned, RepliesOK, RefineOK,
       Raise
  <1>2. StopOK'
    BY DEF StopOK, StopType, Actors, Raise
  <1>. QED BY <1>1, <1>2

LEMMA StartNodeTypes ==
    ASSUME FlowOK, NodeOK, StopOK, JobInv, NEW k \in Key, NEW next, StartNode(k, next),
           job' = next => JobInv', replies' = replies
    PROVE  FlowOK' /\ NodeOK' /\ StopOK' /\ JobInv'
  <1>1. CASE flow.nodes < MaxNodes
    <2>1. FlowOK'
      <3>1. flow.nodes + 1 \in 0..MaxNodes
        BY <1>1, SMTT(30) DEF FlowOK
      <3>. QED BY <1>1, <3>1 DEF StartNode, FlowOK
    <2>2. NodeOK'
      BY <1>1 DEF StartNode, NodeOK, NodeStatus
    <2>. QED BY <1>1, <2>1, <2>2 DEF StartNode, StopOK
  <1>2. CASE ~(flow.nodes < MaxNodes)
    <2>1. Raise("failed", {}, "limit") /\ UNCHANGED <<node, flow>>
      BY <1>2 DEF StartNode
    <2>. QED BY <2>1, RaiseTypes DEF EndsAs, Cause, FlowOK, NodeOK
  <1>. QED BY <1>1, <1>2

LEMMA WorkKeys ==
    /\ \A s \in Stages \ {"work"} : <<s, NoTask>> \in Key
    /\ \A t \in Tasks : <<"work", t>> \in Key /\ <<"handoff", t>> \in Key
  BY DEF Key

LEMMA BeginStage_Types ==
    ASSUME TypeInv, BeginStage
    PROVE TypeInv'
  <1>. USE DEF TypeInv, RowsOK
  <1>1. FlowOK' /\ NodeOK' /\ StopOK' /\ JobInv'
    <2>. DEFINE s == job.stage
                next == [job EXCEPT !.at = CASE s \in {"plan", "final"} -> "call"
                                             [] s = "review" -> "turn"
                                             [] s = "dispatch" -> "tasks"
                                             [] OTHER -> "finish"]
    <2>1. CASE Running
      <3>1. PICK at \in JobAt : /\ next = [job EXCEPT !.at = at]
                                /\ at = "tasks" => s # "review"
                                /\ at # "begin"
        BY DEF JobAt
      <3>2. StartNode(<<s, NoTask>>, next) /\ replies' = replies
        BY <2>1 DEF BeginStage, idle
      <3>3. <<s, NoTask>> \in Key
        BY WorkKeys DEF BeginStage, At, JobInv, JobOK, JobType, WorkOK
      <3>4. ASSUME job' = next PROVE JobInv'
        <4>1. job' = [job EXCEPT !.at = at] /\ at # "begin"
          BY <3>1, <3>4
        <4>2. JobOK'
          BY <4>1 DEF JobInv, JobOK, JobType
        <4>3. job'.at = "tasks" => job.stage # "review"
          BY <3>1, <4>1 DEF JobInv, JobOK, JobType
        <4>. HIDE DEF s, next
        <4>. QED BY <3>2, <4>1, <4>2, <4>3 DEF JobInv, JobOK, JobType, WorkOK, Planned,
               RepliesOK, RefineOK
      <3>. HIDE DEF next, s
      <3>. QED BY <3>2, <3>3, <3>4, StartNodeTypes
    <2>2. CASE ~Running
      <3>1. Stopped /\ UNCHANGED <<flow, node, stop, replies>>
        BY <2>2 DEF BeginStage, idle
      <3>. QED BY <3>1, StoppedTypes DEF FlowOK, NodeOK, StopOK
    <2>. QED BY <2>1, <2>2
  <1>2. CallOK'
    BY DEF CallOK, CallType, CallAt, OverOK, BeginStage, Ready, Callers, Calling, StartNode,
       Raise, JobInv, JobOK, JobType, Stopped, At, Result
  <1>3. GroupOver'
    BY DEF GroupOver, BeginStage, At, StartNode, Raise, Stopped, JobInv, JobOK, JobType,
       CallOK, CallType, Callers
  <1>4. RunOK' /\ TaskOK' /\ AgentOK' /\ TurnOK' /\ HandoffsOK' /\ BoundsOK'
    BY DEF BeginStage, idle, RunOK, TaskOK, TaskStatus, AgentOK, AgentStatus, TurnOK,
       HandoffsOK, BoundsOK
  <1>. QED BY <1>1, <1>2, <1>3, <1>4

LEMMA StageCalled_Types ==
    ASSUME TypeInv, StageCalled
    PROVE TypeInv'
  <1>. USE DEF TypeInv, RowsOK
  <1>1. JobInv' /\ StopOK'
    <2>. DEFINE c == job.stage
                keys == IF c = "final" \/ (c = "plan" /\ job.repaired)
                        THEN {<<c, NoTask>>} ELSE {}
    <2>1. replies' = replies /\ c \in Calling
      BY DEF StageCalled, rows, At
    <2>2. CASE call[c].result = "ok"
      <3>1. job' = [job EXCEPT !.at = "finish"] /\ stop' = stop
        BY <2>2 DEF StageCalled
      <3>. QED BY <2>1, <3>1 DEF JobInv, JobOK, JobType, JobAt, WorkOK, Planned, RepliesOK,
             RefineOK, StopOK
    <2>3. CASE call[c].result = "stopped"
      <3>1. Stopped /\ stop' = stop
        BY <2>3 DEF StageCalled
      <3>. QED BY <2>1, <3>1, StoppedTypes DEF StopOK
    <2>4. CASE call[c].result \notin {"ok", "stopped"}
      <3>1. Raise(call[c].result, keys, "call")
        BY <2>4 DEF StageCalled
      <3>2. call[c].result \in EndsAs
        BY <2>1, <2>4 DEF StageCalled, CallOK, OverOK, EndsAs, Callers
      <3>3. keys \in SUBSET Key
        BY <2>1, WorkKeys DEF Calling, Stages
      <3>. HIDE DEF c, keys
      <3>. QED BY <2>1, <3>1, <3>2, <3>3, RaiseTypes DEF Cause
    <2>. QED BY <2>2, <2>3, <2>4
  <1>2. GroupOver'
    BY DEF GroupOver, StageCalled, At, Raise, Stopped, JobInv, JobOK, JobType, CallOK,
       CallType, Callers
  <1>3. /\ FlowOK' /\ RunOK' /\ NodeOK' /\ TaskOK' /\ AgentOK' /\ TurnOK' /\ HandoffsOK'
        /\ CallOK' /\ BoundsOK'
    BY DEF StageCalled, rows, FlowOK, RunOK, NodeOK, NodeStatus, TaskOK, TaskStatus, AgentOK,
       AgentStatus, TurnOK, HandoffsOK, CallOK, CallType, CallAt, OverOK, BoundsOK
  <1>. QED BY <1>1, <1>2, <1>3

LEMMA FinishPlan_Types ==
    ASSUME TypeInv, FinishPlan
    PROVE TypeInv'
  <1>. USE DEF TypeInv, RowsOK
  <1>1. JobInv'
    <2>1. CASE Running
      <3>1. PICK p \in Plans, verdict \in {"valid", "repair", "reject"} :
               job' = [Go("check") EXCEPT !.plan = p, !.verdict = verdict]
        BY <2>1 DEF FinishPlan, Finish
      <3>2. job' \in JobType /\ job'.at # "tasks" /\ job'.stage = "check" /\ job.stage = "plan"
        BY <3>1 DEF FinishPlan, Finish, At, Go, JobInv, JobOK, JobType, JobAt, Stages
      <3>. QED BY <3>2, JobGoes DEF FinishPlan, Finish, idle
    <2>2. CASE ~Running
      BY <2>2, StoppedTypes DEF FinishPlan, Finish, idle
    <2>. QED BY <2>1, <2>2
  <1>2. NodeOK'
    BY DEF NodeOK, NodeStatus, FinishPlan, Finish, Done
  <1>3. GroupOver'
    BY ZenonT(40) DEF GroupOver, FinishPlan, Finish, Done, At, Stopped, Go, JobInv, JobOK,
           JobType, CallOK, CallType, Callers
  <1>4. /\ FlowOK' /\ RunOK' /\ TaskOK' /\ AgentOK' /\ TurnOK' /\ HandoffsOK' /\ CallOK'
        /\ StopOK' /\ BoundsOK'
    BY DEF FinishPlan, Finish, Done, idle, FlowOK, RunOK, TaskOK, TaskStatus, AgentOK,
       AgentStatus, TurnOK, HandoffsOK, CallOK, CallType, CallAt, OverOK, StopOK, StopType,
       Actors, BoundsOK
  <1>. QED BY <1>1, <1>2, <1>3, <1>4

LEMMA FinishCheck_Types ==
    ASSUME TypeInv, FinishCheck
    PROVE TypeInv'
  <1>. USE DEF TypeInv, RowsOK
  <1>1. JobInv' /\ StopOK'
    <2>. replies' = replies /\ job.stage = "check"
      BY DEF FinishCheck, At, idle
    <2>1. CASE ~Running
      BY <2>1, StoppedTypes DEF FinishCheck, StopOK
    <2>2. CASE Running /\ job.verdict \in {"valid", "repair"}
      <3>1. /\ \/ job' = Go("dispatch")
               \/ job' = [Go("plan") EXCEPT !.repaired = TRUE]
            /\ stop' = stop
        BY <2>2 DEF FinishCheck
      <3>2. job' \in JobType /\ job'.at # "tasks" /\ job'.stage \in {"dispatch", "plan"}
        <4>1. CASE job' = Go("dispatch")
          BY <4>1 DEF Go, JobInv, JobOK, JobType, JobAt, Stages
        <4>2. CASE job' = [Go("plan") EXCEPT !.repaired = TRUE]
          BY <4>2 DEF Go, JobInv, JobOK, JobType, JobAt, Stages, Calling
        <4>. QED BY <3>1, <4>1, <4>2
      <3>. QED BY <3>1, <3>2, JobGoes DEF StopOK
    <2>3. CASE Running /\ job.verdict \notin {"valid", "repair"}
      <3>1. Raise("failed", {}, "plan")
        BY <2>3 DEF FinishCheck
      <3>. QED BY <3>1, RaiseTypes DEF EndsAs, Cause
    <2>. QED BY <2>1, <2>2, <2>3
  <1>2. NodeOK'
    BY DEF NodeOK, NodeStatus, FinishCheck, Done
  <1>3. GroupOver'
    BY DEF GroupOver, FinishCheck, At, Raise, Stopped, Go, JobInv, JobOK, JobType, CallOK,
       CallType, Callers
  <1>4. /\ FlowOK' /\ RunOK' /\ TaskOK' /\ AgentOK' /\ TurnOK' /\ HandoffsOK' /\ CallOK'
        /\ BoundsOK'
    BY DEF FinishCheck, idle, FlowOK, RunOK, TaskOK, TaskStatus, AgentOK, AgentStatus, TurnOK,
       HandoffsOK, CallOK, CallType, CallAt, OverOK, BoundsOK
  <1>. QED BY <1>1, <1>2, <1>3, <1>4

LEMMA CreateTasks_Types ==
    ASSUME TypeInv, CreateTasks
    PROVE TypeInv'
  <1>. USE DEF TypeInv, RowsOK
  <1>1. TaskOK'
    BY DEF TaskOK, TaskStatus, CreateTasks
  <1>2. AgentOK' /\ TurnOK'
    BY DEF AgentOK, AgentStatus, TurnOK, CreateTasks
  <1>3. HandoffsOK' /\ JobInv'
    BY DEF HandoffsOK, JobInv, JobOK, JobType, JobAt, WorkOK, Planned, RepliesOK, RefineOK,
       CreateTasks
  <1>4. GroupOver'
    BY DEF GroupOver, CreateTasks, At, JobInv, JobOK, JobType, CallOK, CallType, Callers
  <1>5. FlowOK' /\ RunOK' /\ NodeOK' /\ CallOK' /\ StopOK' /\ BoundsOK'
    BY DEF CreateTasks, FlowOK, RunOK, NodeOK, NodeStatus, CallOK, CallType, CallAt, OverOK,
       StopOK, StopType, Actors, BoundsOK
  <1>. QED BY <1>1, <1>2, <1>3, <1>4, <1>5

LEMMA ScheduleTypes ==
    ASSUME JobInv, NEW left \in SUBSET Planned, left \subseteq Tasks, job' = Schedule(left),
           job.stage \in {"dispatch", "work"}, replies' = replies
    PROVE  JobInv' /\ GroupOver'
  <1>1. CASE left = {}
    <2>1. job' = [job EXCEPT !.stage = "verify", !.at = "begin"]
      BY <1>1 DEF Schedule, Go
    <2>2. job' \in JobType /\ job'.at # "tasks" /\ job'.at # "save" /\ job'.stage = "verify"
      BY <2>1 DEF JobInv, JobOK, JobType, JobAt, Stages
    <2>. QED BY <2>2, JobGoes DEF GroupOver
  <1>2. CASE left # {}
    <2>. DEFINE g == NextGroup(left)
    <2>1. job' = [job EXCEPT !.stage = "work", !.at = "prepare", !.step = "task",
                             !.group = g, !.queue = g, !.left = left \ g]
      BY <1>2 DEF Schedule
    <2>2. /\ g \subseteq Planned /\ g \subseteq Tasks
           /\ left \ g \subseteq Planned /\ left \ g \subseteq Tasks
      BY NextGroupOf
    <2>. DEFINE rest == left \ g
    <2>. HIDE DEF g, rest
    <2>3. JobOK'
      <3>1. g \in SUBSET Tasks /\ rest \in SUBSET Tasks
        BY <2>2 DEF rest
      <3>2. job' = [job EXCEPT !.stage = "work", !.at = "prepare", !.step = "task",
                               !.group = g, !.queue = g, !.left = rest]
        BY <2>1 DEF rest
      <3>3. job \in JobType
        BY DEF JobInv, JobOK
      <3>. QED BY ONLY <3>1, <3>2, <3>3 DEF JobOK, JobType, JobAt, JobStep, Stages
    <2>4. WorkOK' /\ RepliesOK' /\ RefineOK'
      BY <2>1, <2>2 DEF JobInv, JobOK, JobType, WorkOK, Planned, RepliesOK, RefineOK
    <2>5. GroupOver'
      BY <2>1 DEF GroupOver, JobInv, JobOK, JobType
    <2>. QED BY <2>3, <2>4, <2>5 DEF JobInv
  <1>. QED BY <1>1, <1>2

LEMMA PlannedTasks ==
    ASSUME JobInv
    PROVE Planned \subseteq Tasks
  <1>1. \A p \in Plans : p.order \in Seq(Tasks)
    OBVIOUS
  <1>2. NoPlan.order = <<>>
    BY DEF NoPlan
  <1>. QED BY <1>1, <1>2 DEF Planned, ToSet, JobInv, JobOK, JobType

LEMMA FinishDispatch_Types ==
    ASSUME TypeInv, FinishDispatch
    PROVE TypeInv'
  <1>. USE DEF TypeInv, RowsOK
  <1>1. JobInv' /\ GroupOver'
    <2>1. CASE Running
      <3>1. job' = Schedule(Planned) /\ job.stage = "dispatch" /\ replies' = replies
        BY <2>1 DEF FinishDispatch, Finish, At, idle
      <3>2. Planned \subseteq Tasks
        BY PlannedTasks
      <3>. QED BY <3>1, <3>2, ScheduleTypes
    <2>2. CASE ~Running
      BY <2>2, StoppedTypes DEF FinishDispatch, Finish, idle
    <2>. QED BY <2>1, <2>2
  <1>2. NodeOK'
    BY DEF NodeOK, NodeStatus, FinishDispatch, Finish, Done
  <1>3. /\ FlowOK' /\ RunOK' /\ TaskOK' /\ AgentOK' /\ TurnOK' /\ HandoffsOK' /\ CallOK'
        /\ StopOK' /\ BoundsOK'
    BY DEF FinishDispatch, Finish, Done, idle, FlowOK, RunOK, TaskOK, TaskStatus, AgentOK,
       AgentStatus, TurnOK, HandoffsOK, CallOK, CallType, CallAt, OverOK, StopOK, StopType,
       Actors, BoundsOK
  <1>. QED BY <1>1, <1>2, <1>3

LEMMA StartTask_Types ==
    ASSUME TypeInv, StartTask
    PROVE TypeInv'
  <1>. USE DEF TypeInv, RowsOK
  <1>1. JobInv' /\ StopOK'
    <2>. replies' = replies
      BY DEF StartTask
    <2>1. CASE job' = ThenStep("node") /\ stop' = stop
      BY <2>1 DEF ThenStep, JobInv, JobOK, JobType, JobAt, JobStep, WorkOK, Planned,
             RepliesOK, RefineOK, StopOK
    <2>2. CASE Raise("failed", {}, "needs")
      BY <2>2, RaiseTypes DEF EndsAs, Cause
    <2>. QED BY <2>1, <2>2 DEF StartTask
  <1>2. TaskOK'
    BY DEF TaskOK, TaskStatus, StartTask
  <1>3. AgentOK'
    BY DEF AgentOK, AgentStatus, StartTask
  <1>4. GroupOver'
    BY DEF GroupOver, StartTask, At, Step, Raise, ThenStep, JobInv, JobOK, JobType, CallOK,
       CallType, Callers
  <1>5. FlowOK' /\ RunOK' /\ NodeOK' /\ TurnOK' /\ HandoffsOK' /\ CallOK' /\ BoundsOK'
    BY DEF StartTask, FlowOK, RunOK, NodeOK, NodeStatus, TurnOK, HandoffsOK, CallOK, CallType,
       CallAt, OverOK, BoundsOK
  <1>. QED BY <1>1, <1>2, <1>3, <1>4, <1>5

LEMMA StartWork_Types ==
    ASSUME TypeInv, StartWork
    PROVE TypeInv'
  <1>. USE DEF TypeInv, RowsOK
  <1>1. FlowOK' /\ NodeOK' /\ StopOK' /\ JobInv'
    <2>. DEFINE k == <<"work", Worker>>
    <2>1. k \in Key
      BY WorkerIn, WorkKeys DEF StartWork, Step, At
    <2>2. CASE Running
      <3>1. StartNode(k, ThenStep("turn")) /\ replies' = replies
        BY <2>2 DEF StartWork, idle
      <3>2. job' = ThenStep("turn") => JobInv'
        BY <3>1 DEF ThenStep, JobInv, JobOK, JobType, JobStep, WorkOK, Planned, RepliesOK,
               RefineOK
      <3>. HIDE DEF k
      <3>. QED BY <2>1, <3>1, <3>2, StartNodeTypes
    <2>3. CASE ~Running
      <3>1. Stopped /\ UNCHANGED <<flow, node, stop, replies>>
        BY <2>3 DEF StartWork, idle
      <3>. QED BY <3>1, StoppedTypes DEF FlowOK, NodeOK, StopOK
    <2>. QED BY <2>2, <2>3
  <1>2. GroupOver'
    BY DEF GroupOver, StartWork, At, Step, StartNode, Raise, Stopped, ThenStep, JobInv, JobOK,
       JobType, CallOK, CallType, Callers
  <1>3. RunOK' /\ TaskOK' /\ AgentOK' /\ TurnOK' /\ HandoffsOK' /\ CallOK' /\ BoundsOK'
    BY DEF StartWork, idle, RunOK, TaskOK, TaskStatus, AgentOK, AgentStatus, TurnOK,
       HandoffsOK, CallOK, CallType, CallAt, OverOK, BoundsOK
  <1>. QED BY <1>1, <1>2, <1>3

LEMMA StartTurn_Types ==
    ASSUME TypeInv, StartTurn
    PROVE TypeInv'
  <1>. USE DEF TypeInv, RowsOK
  <1>1. TurnOK'
    BY DEF TurnOK, StartTurn, Step, At
  <1>2. CallOK'
    BY DEF CallOK, CallType, CallAt, OverOK, StartTurn, Step, At, Ready, Result
  <1>3. JobInv'
    BY DEF JobInv, JobOK, JobType, JobAt, WorkOK, Planned, RepliesOK, RefineOK, StartTurn,
       Step, At, JobStep
  <1>4. GroupOver'
    BY DEF GroupOver, StartTurn, Step, At, JobInv, JobOK, JobType, CallOK, CallType, Callers
  <1>5. /\ FlowOK' /\ RunOK' /\ NodeOK' /\ TaskOK' /\ AgentOK' /\ HandoffsOK' /\ StopOK'
        /\ BoundsOK'
    BY DEF StartTurn, Step, At, FlowOK, RunOK, NodeOK, NodeStatus, TaskOK, TaskStatus,
       AgentOK, AgentStatus, HandoffsOK, StopOK, StopType, Actors, BoundsOK
  <1>. QED BY <1>1, <1>2, <1>3, <1>4, <1>5

LEMMA GroupCalled_Types ==
    ASSUME TypeInv, GroupCalled
    PROVE TypeInv'
  <1>. USE DEF TypeInv, RowsOK
  <1>1. JobInv'
    <2>1. JobOK' /\ RepliesOK' /\ RefineOK'
      BY DEF GroupCalled, At, rows, JobInv, JobOK, JobType, JobAt, JobStep, RepliesOK,
         RefineOK
    <2>2. WorkOK'
      BY DEF GroupCalled, At, JobInv, JobOK, JobType, WorkOK, Planned
    <2>. QED BY <2>1, <2>2 DEF JobInv
  <1>2. GroupOver'
    BY DEF GroupOver, GroupCalled, At, JobInv, JobOK, JobType, CallOK, CallType, Callers
  <1>3. /\ FlowOK' /\ RunOK' /\ NodeOK' /\ TaskOK' /\ AgentOK' /\ TurnOK' /\ HandoffsOK'
        /\ CallOK' /\ StopOK' /\ BoundsOK'
    BY DEF GroupCalled, rows, FlowOK, RunOK, NodeOK, NodeStatus, TaskOK, TaskStatus, AgentOK,
       AgentStatus, TurnOK, HandoffsOK, CallOK, CallType, CallAt, OverOK, StopOK, StopType,
       Actors, BoundsOK
  <1>. QED BY <1>1, <1>2, <1>3

LEMMA FinishTurn_Types ==
    ASSUME TypeInv, FinishTurn
    PROVE TypeInv'
  <1>. USE DEF TypeInv, RowsOK
  <1>1. TurnOK'
    BY DEF TurnOK, FinishTurn
  <1>2. JobInv'
    BY DEF JobInv, JobOK, JobType, JobAt, WorkOK, Planned, RepliesOK, RefineOK, FinishTurn,
       ThenStep, JobStep
  <1>3. GroupOver'
    BY DEF GroupOver, FinishTurn, At, Step, ThenStep, JobInv, JobOK, JobType, CallOK,
       CallType, Callers
  <1>4. /\ FlowOK' /\ RunOK' /\ NodeOK' /\ TaskOK' /\ AgentOK' /\ HandoffsOK' /\ CallOK'
        /\ StopOK' /\ BoundsOK'
    BY DEF FinishTurn, FlowOK, RunOK, NodeOK, NodeStatus, TaskOK, TaskStatus, AgentOK,
       AgentStatus, HandoffsOK, CallOK, CallType, CallAt, OverOK, StopOK, StopType, Actors,
       BoundsOK
  <1>. QED BY <1>1, <1>2, <1>3, <1>4

LEMMA FinishWork_Types ==
    ASSUME TypeInv, FinishWork
    PROVE TypeInv'
  <1>. USE DEF TypeInv, RowsOK
  <1>1. NodeOK'
    BY DEF NodeOK, NodeStatus, FinishWork, idle, Done
  <1>2. JobInv'
    BY SMTT(30) DEF JobInv, JobOK, JobType, JobAt, WorkOK, Planned, RepliesOK, RefineOK,
           FinishWork, idle, ThenStep, Stopped, JobStep
  <1>3. GroupOver'
    BY DEF GroupOver, FinishWork, idle, At, Step, Stopped, ThenStep, JobInv, JobOK, JobType,
       CallOK, CallType, Callers
  <1>4. /\ FlowOK' /\ RunOK' /\ TaskOK' /\ AgentOK' /\ TurnOK' /\ HandoffsOK' /\ CallOK'
        /\ StopOK' /\ BoundsOK'
    BY DEF FinishWork, idle, FlowOK, RunOK, TaskOK, TaskStatus, AgentOK, AgentStatus, TurnOK,
       HandoffsOK, CallOK, CallType, CallAt, OverOK, StopOK, StopType, Actors, BoundsOK
  <1>. QED BY <1>1, <1>2, <1>3, <1>4

LEMMA StartHandoff_Types ==
    ASSUME TypeInv, StartHandoff
    PROVE TypeInv'
  <1>. USE DEF TypeInv, RowsOK
  <1>1. FlowOK' /\ NodeOK' /\ StopOK' /\ JobInv'
    <2>. DEFINE k == <<"handoff", Worker>>
    <2>1. k \in Key
      BY WorkerIn, WorkKeys DEF StartHandoff, Step, At
    <2>2. CASE Running
      <3>1. StartNode(k, ThenStep("handoff")) /\ replies' = replies
        BY <2>2 DEF StartHandoff, idle
      <3>2. job' = ThenStep("handoff") => JobInv'
        BY <3>1 DEF ThenStep, JobInv, JobOK, JobType, JobStep, WorkOK, Planned, RepliesOK,
               RefineOK
      <3>. HIDE DEF k
      <3>. QED BY <2>1, <3>1, <3>2, StartNodeTypes
    <2>3. CASE ~Running
      <3>1. Stopped /\ UNCHANGED <<flow, node, stop, replies>>
        BY <2>3 DEF StartHandoff, idle
      <3>. QED BY <3>1, StoppedTypes DEF FlowOK, NodeOK, StopOK
    <2>. QED BY <2>2, <2>3
  <1>2. GroupOver'
    BY DEF GroupOver, StartHandoff, At, Step, StartNode, Raise, Stopped, ThenStep, JobInv,
       JobOK, JobType, CallOK, CallType, Callers
  <1>3. RunOK' /\ TaskOK' /\ AgentOK' /\ TurnOK' /\ HandoffsOK' /\ CallOK' /\ BoundsOK'
    BY DEF StartHandoff, idle, RunOK, TaskOK, TaskStatus, AgentOK, AgentStatus, TurnOK,
       HandoffsOK, CallOK, CallType, CallAt, OverOK, BoundsOK
  <1>. QED BY <1>1, <1>2, <1>3

LEMMA SaveHandoff_Types ==
    ASSUME TypeInv, SaveHandoff
    PROVE TypeInv'
  <1>. USE DEF TypeInv, RowsOK
  <1>1. HandoffsOK'
    BY WorkerIn DEF HandoffsOK, SaveHandoff, Step, At
  <1>2. JobInv'
    BY DEF JobInv, JobOK, JobType, JobAt, WorkOK, Planned, RepliesOK, RefineOK, SaveHandoff,
       Step, At, ThenStep, JobStep
  <1>3. GroupOver'
    BY DEF GroupOver, SaveHandoff, Step, At, ThenStep, JobInv, JobOK, JobType, CallOK,
       CallType, Callers
  <1>4. /\ FlowOK' /\ RunOK' /\ NodeOK' /\ TaskOK' /\ AgentOK' /\ TurnOK' /\ CallOK'
        /\ StopOK' /\ BoundsOK'
    BY DEF SaveHandoff, Step, At, FlowOK, RunOK, NodeOK, NodeStatus, TaskOK, TaskStatus,
       AgentOK, AgentStatus, TurnOK, CallOK, CallType, CallAt, OverOK, StopOK, StopType,
       Actors, BoundsOK
  <1>. QED BY <1>1, <1>2, <1>3, <1>4

LEMMA FinishHandoff_Types ==
    ASSUME TypeInv, FinishHandoff
    PROVE TypeInv'
  <1>. USE DEF TypeInv, RowsOK
  <1>1. NodeOK'
    BY DEF NodeOK, NodeStatus, FinishHandoff, idle, Done
  <1>2. JobInv'
    <2>. replies' = replies
      BY DEF FinishHandoff, idle
    <2>1. CASE Running
      <3>1. job' = [job EXCEPT !.step = "task"]
        BY <2>1 DEF FinishHandoff, ThenStep
      <3>. QED BY <3>1 DEF JobInv, JobOK, JobType, JobStep, WorkOK, Planned, RepliesOK,
             RefineOK
    <2>2. CASE ~Running
      BY <2>2, StoppedTypes DEF FinishHandoff
    <2>. QED BY <2>1, <2>2
  <1>3. GroupOver'
    BY DEF GroupOver, FinishHandoff, idle, At, Step, Stopped, ThenStep, JobInv, JobOK,
       JobType, CallOK, CallType, Callers
  <1>4. /\ FlowOK' /\ RunOK' /\ TaskOK' /\ AgentOK' /\ TurnOK' /\ HandoffsOK' /\ CallOK'
        /\ StopOK' /\ BoundsOK'
    BY DEF FinishHandoff, idle, FlowOK, RunOK, TaskOK, TaskStatus, AgentOK, AgentStatus,
       TurnOK, HandoffsOK, CallOK, CallType, CallAt, OverOK, StopOK, StopType, Actors,
       BoundsOK
  <1>. QED BY <1>1, <1>2, <1>3, <1>4

LEMMA FinishTask_Types ==
    ASSUME TypeInv, FinishTask
    PROVE TypeInv'
  <1>. USE DEF TypeInv, RowsOK
  <1>1. TaskOK'
    BY DEF TaskOK, TaskStatus, FinishTask, Completed
  <1>2. AgentOK'
    BY DEF AgentOK, AgentStatus, FinishTask, Completed
  <1>3. JobInv'
    <2>1. replies' = replies /\ job.queue \subseteq Tasks
      BY DEF FinishTask, JobInv, JobOK, JobType
    <2>2. job' = [job EXCEPT !.step = "turn", !.queue = @ \ {Worker}]
      BY DEF FinishTask, ThenStep
    <2>3. JobOK'
      BY <2>1, <2>2 DEF JobInv, JobOK, JobType, JobStep
    <2>. QED BY <2>1, <2>2, <2>3 DEF JobInv, JobOK, JobType, WorkOK, Planned, RepliesOK,
           RefineOK
  <1>4. GroupOver'
    BY DEF GroupOver, FinishTask, Completed, At, Step, ThenStep, JobInv, JobOK, JobType,
       CallOK, CallType, Callers
  <1>5. /\ FlowOK' /\ RunOK' /\ NodeOK' /\ TurnOK' /\ HandoffsOK' /\ CallOK' /\ StopOK'
        /\ BoundsOK'
    BY DEF FinishTask, Completed, FlowOK, RunOK, NodeOK, NodeStatus, TurnOK, HandoffsOK,
       CallOK, CallType, CallAt, OverOK, StopOK, StopType, Actors, BoundsOK
  <1>. QED BY <1>1, <1>2, <1>3, <1>4, <1>5

LEMMA EndGroup_Types ==
    ASSUME TypeInv, EndGroup
    PROVE TypeInv'
  <1>. USE DEF TypeInv, RowsOK
  <1>1. JobInv' /\ StopOK' /\ GroupOver'
    <2>. DEFINE bad == {t \in job.group : call[t].result # "ok"}
                one == First(bad)
    <2>0. replies' = replies /\ job.stage = "work"
      BY DEF EndGroup, At, rows
    <2>1. CASE bad = {}
      <3>1. job' = Schedule(job.left) /\ stop' = stop
        BY <2>1 DEF EndGroup
      <3>2. job.left \in SUBSET Planned /\ job.left \subseteq Tasks
        BY <2>0 DEF JobInv, WorkOK, JobOK, JobType
      <3>. QED BY <2>0, <3>1, <3>2, ScheduleTypes DEF StopOK
    <2>2. CASE bad # {} /\ call[one].result = "stopped"
      <3>1. Stopped /\ stop' = stop
        BY <2>2 DEF EndGroup
      <3>. QED BY <2>0, <3>1, StoppedTypes DEF StopOK
    <2>3. CASE bad # {} /\ call[one].result # "stopped"
      <3>1. one \in bad
        BY <2>0, <2>3, FirstIn DEF JobInv, WorkOK
      <3>2. one \in Tasks /\ call[one].at = "over"
        BY <2>0, <3>1 DEF GroupOver, EndGroup, At, JobInv, JobOK, JobType
      <3>3. call[one].result \in EndsAs
        BY <2>3, <3>1, <3>2 DEF CallOK, OverOK, EndsAs, Callers
      <3>4. Raise(call[one].result, {<<"work", one>>}, "worker")
        BY <2>3 DEF EndGroup
      <3>5. {<<"work", one>>} \in SUBSET Key
        BY <3>2, WorkKeys
      <3>. HIDE DEF one, bad
      <3>. QED BY <2>0, <3>3, <3>4, <3>5, RaiseTypes DEF Cause
    <2>. QED BY <2>1, <2>2, <2>3
  <1>2. /\ FlowOK' /\ RunOK' /\ NodeOK' /\ TaskOK' /\ AgentOK' /\ TurnOK' /\ HandoffsOK'
        /\ CallOK' /\ BoundsOK'
    BY DEF EndGroup, rows, FlowOK, RunOK, NodeOK, NodeStatus, TaskOK, TaskStatus, AgentOK,
       AgentStatus, TurnOK, HandoffsOK, CallOK, CallType, CallAt, OverOK, BoundsOK
  <1>. QED BY <1>1, <1>2

LEMMA FinishVerify_Types ==
    ASSUME TypeInv, FinishVerify
    PROVE TypeInv'
  <1>. USE DEF TypeInv, RowsOK
  <1>1. JobInv' /\ StopOK'
    <2>. DEFINE verdict == IF Verified THEN "pass" ELSE "fail"
                review == \/ ReviewPolicy = "always"
                          \/ ReviewPolicy = "on_verification_failure" /\ verdict = "fail"
    <2>0. replies' = replies /\ job.stage = "verify"
      BY DEF FinishVerify, At, idle
    <2>1. CASE ~Running
      BY <2>0, <2>1, StoppedTypes DEF FinishVerify, StopOK
    <2>2. CASE Running /\ verdict = "fail" /\ ~review
      <3>1. Raise("failed", {}, "verify")
        BY <2>2 DEF FinishVerify
      <3>. QED BY <2>0, <3>1, RaiseTypes DEF EndsAs, Cause
    <2>3. CASE Running /\ ~(verdict = "fail" /\ ~review)
      <3>1. PICK s \in {"review", "final"}, v \in {"pass", "fail"} :
               job' = [Go(s) EXCEPT !.verdict = v]
        BY <2>3 DEF FinishVerify
      <3>2. job' \in JobType /\ job'.at # "tasks" /\ job'.stage \in {"review", "final"}
        BY <3>1, ZenonT(40) DEF Go, JobInv, JobOK, JobType, JobAt, Stages, Calling
      <3>3. stop' = stop
        BY <2>3 DEF FinishVerify
      <3>. QED BY <2>0, <3>2, <3>3, JobGoes DEF StopOK
    <2>. QED BY <2>1, <2>2, <2>3
  <1>2. NodeOK'
    BY DEF NodeOK, NodeStatus, FinishVerify, Done
  <1>3. GroupOver'
    BY DEF GroupOver, FinishVerify, At, Raise, Stopped, Go, JobInv, JobOK, JobType, CallOK,
       CallType, Callers
  <1>4. /\ FlowOK' /\ RunOK' /\ TaskOK' /\ AgentOK' /\ TurnOK' /\ HandoffsOK' /\ CallOK'
        /\ BoundsOK'
    BY DEF FinishVerify, idle, FlowOK, RunOK, TaskOK, TaskStatus, AgentOK, AgentStatus,
       TurnOK, HandoffsOK, CallOK, CallType, CallAt, OverOK, BoundsOK
  <1>. QED BY <1>1, <1>2, <1>3, <1>4

LEMMA CreateReviewer_Types ==
    ASSUME TypeInv, CreateReviewer
    PROVE TypeInv'
  <1>. USE DEF TypeInv, RowsOK
  <1>1. TaskOK' /\ AgentOK' /\ TurnOK'
    BY DEF TaskOK, TaskStatus, AgentOK, AgentStatus, TurnOK, CreateReviewer, Owners
  <1>2. JobInv'
    BY DEF JobInv, JobOK, JobType, JobAt, WorkOK, Planned, RepliesOK, RefineOK,
       CreateReviewer, At
  <1>3. GroupOver'
    BY DEF GroupOver, CreateReviewer, At, JobInv, JobOK, JobType, CallOK, CallType, Callers
  <1>4. FlowOK' /\ RunOK' /\ NodeOK' /\ HandoffsOK' /\ CallOK' /\ StopOK' /\ BoundsOK'
    BY DEF CreateReviewer, FlowOK, RunOK, NodeOK, NodeStatus, HandoffsOK, CallOK, CallType,
       CallAt, OverOK, StopOK, StopType, Actors, BoundsOK
  <1>. QED BY <1>1, <1>2, <1>3, <1>4

LEMMA StartReview_Types ==
    ASSUME TypeInv, StartReview
    PROVE TypeInv'
  <1>. USE DEF TypeInv, RowsOK
  <1>1. TurnOK'
    BY DEF TurnOK, StartReview
  <1>2. CallOK'
    BY DEF CallOK, CallType, CallAt, OverOK, StartReview, Ready, Result, Callers, Calling
  <1>3. JobInv'
    BY DEF JobInv, JobOK, JobType, JobAt, WorkOK, Planned, RepliesOK, RefineOK, StartReview
  <1>4. GroupOver'
    BY DEF GroupOver, StartReview, At, JobInv, JobOK, JobType, CallOK, CallType, Callers
  <1>5. /\ FlowOK' /\ RunOK' /\ NodeOK' /\ TaskOK' /\ AgentOK' /\ HandoffsOK' /\ StopOK'
        /\ BoundsOK'
    BY DEF StartReview, FlowOK, RunOK, NodeOK, NodeStatus, TaskOK, TaskStatus, AgentOK,
       AgentStatus, HandoffsOK, StopOK, StopType, Actors, BoundsOK
  <1>. QED BY <1>1, <1>2, <1>3, <1>4, <1>5

LEMMA FinishReviewTurn_Types ==
    ASSUME TypeInv, FinishReviewTurn
    PROVE TypeInv'
  <1>. USE DEF TypeInv, RowsOK
  <1>1. TurnOK'
    BY DEF TurnOK, FinishReviewTurn
  <1>2. /\ FlowOK' /\ RunOK' /\ NodeOK' /\ TaskOK' /\ AgentOK' /\ HandoffsOK' /\ CallOK'
        /\ JobInv' /\ GroupOver' /\ StopOK' /\ BoundsOK'
    BY DEF FinishReviewTurn, FlowOK, RunOK, NodeOK, NodeStatus, TaskOK, TaskStatus, AgentOK,
       AgentStatus, HandoffsOK, CallOK, CallType, CallAt, OverOK, JobInv, JobOK, JobType,
       JobAt, WorkOK, Planned, RepliesOK, RefineOK, GroupOver, StopOK, StopType, Actors,
       BoundsOK
  <1>. QED BY <1>1, <1>2

LEMMA FinishReview_Types ==
    ASSUME TypeInv, FinishReview
    PROVE TypeInv'
  <1>. USE DEF TypeInv, RowsOK
  <1>1. JobInv'
    <2>. replies' = replies
      BY DEF FinishReview, idle
    <2>1. CASE ~Running
      BY <2>1, StoppedTypes DEF FinishReview
    <2>2. CASE Running
      <3>1. PICK step \in JobStep : /\ job' = [job EXCEPT !.at = "tasks", !.step = step]
                                    /\ step = "refine" => job.round < Rounds
        BY <2>2 DEF FinishReview, JobStep, MayRefine
      <3>. QED BY <3>1 DEF JobInv, JobOK, JobType, JobAt, WorkOK, Planned, RepliesOK, RefineOK
    <2>. QED BY <2>1, <2>2
  <1>2. NodeOK'
    BY DEF NodeOK, NodeStatus, FinishReview, Done
  <1>3. GroupOver'
    BY DEF GroupOver, FinishReview, At, Stopped, JobInv, JobOK, JobType, CallOK, CallType,
       Callers
  <1>4. /\ FlowOK' /\ RunOK' /\ TaskOK' /\ AgentOK' /\ TurnOK' /\ HandoffsOK' /\ CallOK'
        /\ StopOK' /\ BoundsOK'
    BY DEF FinishReview, idle, FlowOK, RunOK, TaskOK, TaskStatus, AgentOK, AgentStatus,
       TurnOK, HandoffsOK, CallOK, CallType, CallAt, OverOK, StopOK, StopType, Actors,
       BoundsOK
  <1>. QED BY <1>1, <1>2, <1>3, <1>4

LEMMA FinishReviewer_Types ==
    ASSUME TypeInv, FinishReviewer
    PROVE TypeInv'
  <1>. USE DEF TypeInv, RowsOK
  <1>1. JobInv' /\ StopOK'
    <2>. replies' = replies /\ job.stage = "review"
      BY DEF FinishReviewer, At
    <2>1. CASE job.verdict = "fail"
      <3>1. Raise("failed", {}, "verify")
        BY <2>1 DEF FinishReviewer
      <3>. QED BY <3>1, RaiseTypes DEF EndsAs, Cause
    <2>2. CASE job.verdict # "fail" /\ job.step = "refine"
      <3>1. job' = [Go("plan") EXCEPT !.round = @ + 1, !.repaired = FALSE] /\ stop' = stop
        BY <2>2 DEF FinishReviewer
      <3>2. job.round + 1 \in 1..Rounds
        BY <2>2 DEF FinishReviewer, At, JobInv, JobOK, JobType, RefineOK
      <3>3. job' \in JobType /\ job'.at # "tasks" /\ job'.stage = "plan"
        BY <3>1, <3>2 DEF Go, JobInv, JobOK, JobType, JobAt, Stages, Calling
      <3>. QED BY <3>1, <3>3, JobGoes DEF StopOK
    <2>3. CASE job.verdict # "fail" /\ job.step # "refine"
      <3>1. job' = Go("final") /\ stop' = stop
        BY <2>3 DEF FinishReviewer
      <3>2. job' \in JobType /\ job'.at # "tasks" /\ job'.stage = "final"
        BY <3>1 DEF Go, JobInv, JobOK, JobType, JobAt, Stages, Calling
      <3>. QED BY <3>1, <3>2, JobGoes DEF StopOK
    <2>. QED BY <2>1, <2>2, <2>3
  <1>2. TaskOK' /\ AgentOK'
    BY DEF TaskOK, TaskStatus, AgentOK, AgentStatus, FinishReviewer, Completed
  <1>3. GroupOver'
    BY DEF GroupOver, FinishReviewer, At, Raise, Go, JobInv, JobOK, JobType, CallOK, CallType,
       Callers
  <1>4. FlowOK' /\ RunOK' /\ NodeOK' /\ TurnOK' /\ HandoffsOK' /\ CallOK' /\ BoundsOK'
    BY DEF FinishReviewer, FlowOK, RunOK, NodeOK, NodeStatus, TurnOK, HandoffsOK, CallOK,
       CallType, CallAt, OverOK, BoundsOK
  <1>. QED BY <1>1, <1>2, <1>3, <1>4

LEMMA FinishFinal_Types ==
    ASSUME TypeInv, FinishFinal
    PROVE TypeInv'
  <1>. USE DEF TypeInv, RowsOK
  <1>1. JobInv' /\ GroupOver'
    <2>1. CASE Running
      <3>1. job' = Go("end") /\ replies' = replies + 1 /\ job.stage = "final"
        BY <2>1 DEF FinishFinal, At
      <3>2. job' \in JobType /\ job'.stage = "end" /\ job'.at = "begin"
        BY <3>1 DEF Go, JobInv, JobOK, JobType, JobAt, Stages
      <3>. QED BY <3>1, <3>2 DEF JobInv, JobOK, WorkOK, RepliesOK, RefineOK, GroupOver
    <2>2. CASE ~Running
      BY <2>2, StoppedTypes DEF FinishFinal
    <2>. QED BY <2>1, <2>2
  <1>2. NodeOK'
    BY DEF NodeOK, NodeStatus, FinishFinal, Done
  <1>3. /\ FlowOK' /\ RunOK' /\ TaskOK' /\ AgentOK' /\ TurnOK' /\ HandoffsOK' /\ CallOK'
        /\ StopOK' /\ BoundsOK'
    BY DEF FinishFinal, FlowOK, RunOK, TaskOK, TaskStatus, AgentOK, AgentStatus, TurnOK,
       HandoffsOK, CallOK, CallType, CallAt, OverOK, StopOK, StopType, Actors, BoundsOK
  <1>. QED BY <1>1, <1>2, <1>3

LEMMA Complete_Types ==
    ASSUME TypeInv, Complete
    PROVE TypeInv'
  <1>. USE DEF TypeInv, RowsOK
  <1>1. FlowOK' /\ RunOK' /\ NodeOK'
    <2>1. CASE Running
      <3>1. /\ flow' = [flow EXCEPT !.status = "completed", !.reserved = 0]
            /\ run' = [run EXCEPT !.status = "completed"]
            /\ Done(<<"end", NoTask>>)
        BY <2>1 DEF Complete
      <3>. QED BY <3>1 DEF FlowOK, Ended, RunOK, NodeOK, NodeStatus, Done
    <2>2. CASE ~Running
      BY <2>2 DEF Complete, FlowOK, RunOK, NodeOK
    <2>. QED BY <2>1, <2>2
  <1>2. JobInv'
    BY DEF JobInv, JobOK, JobType, JobAt, WorkOK, Planned, RepliesOK, RefineOK, Complete
  <1>3. GroupOver'
    BY DEF GroupOver, Complete, At, JobInv, JobOK, JobType, CallOK, CallType, Callers
  <1>4. TaskOK' /\ AgentOK' /\ TurnOK' /\ HandoffsOK' /\ CallOK' /\ StopOK' /\ BoundsOK'
    BY DEF Complete, TaskOK, TaskStatus, AgentOK, AgentStatus, TurnOK, HandoffsOK, CallOK,
       CallType, CallAt, OverOK, StopOK, StopType, Actors, BoundsOK
  <1>. QED BY <1>1, <1>2, <1>3, <1>4

LEMMA StopOne_Types ==
    ASSUME TypeInv, StopOne
    PROVE TypeInv'
  <1>. USE DEF TypeInv, RowsOK
  <1>1. NodeOK'
    BY DEF NodeOK, NodeStatus, StopOne, StopOK, StopType, EndsAs, Actors
  <1>2. StopOK'
    BY DEF StopOK, StopType, Actors, StopOne, EndsAs
  <1>3. /\ FlowOK' /\ RunOK' /\ TaskOK' /\ AgentOK' /\ TurnOK' /\ HandoffsOK' /\ CallOK'
        /\ JobInv' /\ GroupOver' /\ BoundsOK'
    BY DEF StopOne, FlowOK, RunOK, TaskOK, TaskStatus, AgentOK, AgentStatus, TurnOK,
       HandoffsOK, CallOK, CallType, CallAt, OverOK, JobInv, JobOK, JobType, JobAt, WorkOK,
       Planned, RepliesOK, RefineOK, GroupOver, BoundsOK
  <1>. QED BY <1>1, <1>2, <1>3

LEMMA ReleasedIs ==
    ASSUME NEW n \in Nat, flow.reserved \in Nat
    PROVE  Released(n) \in Nat
  <1>1. n * CallCost \in Nat
    OBVIOUS
  <1>. DEFINE m == n * CallCost
  <1>. HIDE DEF m
  <1>. QED BY <1>1 DEF Released, m

LEMMA Reserve_Types ==
    ASSUME TypeInv, NEW c \in Callers, Reserve(c)
    PROVE TypeInv'
  <1>. USE DEF TypeInv, RowsOK
  <1>1. FlowOK'
    <2>1. flow.calls + 1 \in Nat /\ flow.reserved + CallCost \in Nat
      BY DEF FlowOK
    <2>. QED BY <2>1 DEF Reserve, FlowOK
  <1>2. CallOK'
    BY DEF CallOK, CallType, CallAt, OverOK, Reserve
  <1>3. GroupOver'
    BY DEF GroupOver, Reserve, JobInv, JobOK, JobType, CallOK, CallType, Callers
  <1>4. /\ RunOK' /\ NodeOK' /\ TaskOK' /\ AgentOK' /\ TurnOK' /\ HandoffsOK' /\ JobInv'
        /\ StopOK' /\ BoundsOK'
    BY DEF Reserve, RunOK, NodeOK, NodeStatus, TaskOK, TaskStatus, AgentOK, AgentStatus,
       TurnOK, HandoffsOK, JobInv, JobOK, JobType, JobAt, WorkOK, Planned, RepliesOK,
       RefineOK, StopOK, StopType, Actors, BoundsOK
  <1>. QED BY <1>1, <1>2, <1>3, <1>4

LEMMA Refuse_Types ==
    ASSUME TypeInv, NEW c \in Callers, Refuse(c)
    PROVE TypeInv'
  <1>. USE DEF TypeInv, RowsOK
  <1>1. CallOK'
    BY DEF CallOK, CallType, CallAt, OverOK, Refuse, Over, Result
  <1>2. GroupOver'
    BY DEF GroupOver, Refuse, Over, JobInv, JobOK, JobType, CallOK, CallType, Callers
  <1>3. /\ FlowOK' /\ RunOK' /\ NodeOK' /\ TaskOK' /\ AgentOK' /\ TurnOK' /\ HandoffsOK'
        /\ JobInv' /\ StopOK' /\ BoundsOK'
    BY DEF Refuse, Over, rows, FlowOK, RunOK, NodeOK, NodeStatus, TaskOK, TaskStatus, AgentOK,
       AgentStatus, TurnOK, HandoffsOK, JobInv, JobOK, JobType, JobAt, WorkOK, Planned,
       RepliesOK, RefineOK, StopOK, StopType, Actors, BoundsOK
  <1>. QED BY <1>1, <1>2, <1>3

LEMMA Send_Types ==
    ASSUME TypeInv, NEW c \in Callers, Send(c)
    PROVE TypeInv'
  <1>. USE DEF TypeInv, RowsOK
  <1>1. CallOK'
    BY DEF CallOK, CallType, CallAt, OverOK, Send
  <1>2. GroupOver'
    BY DEF GroupOver, Send, JobInv, JobOK, JobType, CallOK, CallType, Callers
  <1>3. /\ FlowOK' /\ RunOK' /\ NodeOK' /\ TaskOK' /\ AgentOK' /\ TurnOK' /\ HandoffsOK'
        /\ JobInv' /\ StopOK' /\ BoundsOK'
    BY SMTT(30) DEF Send, rows, FlowOK, RunOK, NodeOK, NodeStatus, TaskOK, TaskStatus, AgentOK,
       AgentStatus, TurnOK, HandoffsOK, JobInv, JobOK, JobType, JobAt, WorkOK, Planned,
       RepliesOK, RefineOK, StopOK, StopType, Actors, BoundsOK
  <1>. QED BY <1>1, <1>2, <1>3

LEMMA Charge_Types ==
    ASSUME TypeInv, NEW c \in Callers, Charge(c)
    PROVE TypeInv'
  <1>. USE DEF TypeInv, RowsOK
  <1>1. RunOK'
    <2>1. PICK cost \in Costs : run' = [run EXCEPT !.spent = @ + cost]
      BY DEF Charge
    <2>2. cost \in Nat /\ run.spent \in Nat
      <3>1. cost \in 0..(CallCost + Overrun)
        BY <2>1, PlannedWorkflowAssumption
      <3>. QED BY <3>1 DEF RunOK
    <2>3. run.spent + cost \in Nat
      BY <2>2
    <2>. QED BY <2>1, <2>3 DEF RunOK
  <1>2. CallOK'
    <2>1. PICK result \in {"ok", "invalid"} :
             call' = [call EXCEPT ![c].at = "answered", ![c].result = result]
      BY DEF Charge
    <2>. QED BY <2>1, ZenonT(40) DEF CallOK, CallType, CallAt, OverOK, Result
  <1>3. GroupOver'
    BY DEF GroupOver, Charge, JobInv, JobOK, JobType, CallOK, CallType, Callers
  <1>4. /\ FlowOK' /\ NodeOK' /\ TaskOK' /\ AgentOK' /\ TurnOK' /\ HandoffsOK' /\ JobInv'
        /\ StopOK' /\ BoundsOK'
    BY SMTT(30) DEF Charge, FlowOK, NodeOK, NodeStatus, TaskOK, TaskStatus, AgentOK,
           AgentStatus, TurnOK, HandoffsOK, JobInv, JobOK, JobType, JobAt, WorkOK, Planned,
           RepliesOK, RefineOK, StopOK, StopType, Actors, BoundsOK
  <1>. QED BY <1>1, <1>2, <1>3, <1>4

LEMMA ProviderFails_Types ==
    ASSUME TypeInv, NEW c \in Callers, ProviderFails(c)
    PROVE TypeInv'
  <1>. USE DEF TypeInv, RowsOK
  <1>1. RunOK'
    <2>1. PICK cost \in Costs \cup {0} : run' = [run EXCEPT !.spent = @ + cost]
      BY DEF ProviderFails
    <2>2. cost \in Nat /\ run.spent \in Nat
      <3>1. cost \in 0..(CallCost + Overrun)
        BY <2>1, PlannedWorkflowAssumption
      <3>. QED BY <3>1 DEF RunOK
    <2>3. run.spent + cost \in Nat
      BY <2>2
    <2>. QED BY <2>1, <2>3 DEF RunOK
  <1>2. CallOK'
    <2>1. PICK result \in {"failed", "outcome_unknown"} :
             call' = [call EXCEPT ![c].at = "answered", ![c].result = result]
      BY DEF ProviderFails
    <2>. QED BY <2>1, ZenonT(40) DEF CallOK, CallType, CallAt, OverOK, Result
  <1>3. GroupOver'
    BY DEF GroupOver, ProviderFails, JobInv, JobOK, JobType, CallOK, CallType, Callers
  <1>4. /\ FlowOK' /\ NodeOK' /\ TaskOK' /\ AgentOK' /\ TurnOK' /\ HandoffsOK' /\ JobInv'
        /\ StopOK' /\ BoundsOK'
    BY SMTT(30) DEF ProviderFails, FlowOK, NodeOK, NodeStatus, TaskOK, TaskStatus, AgentOK,
           AgentStatus, TurnOK, HandoffsOK, JobInv, JobOK, JobType, JobAt, WorkOK, Planned,
           RepliesOK, RefineOK, StopOK, StopType, Actors, BoundsOK
  <1>. QED BY <1>1, <1>2, <1>3, <1>4

LEMMA Settle_Types ==
    ASSUME TypeInv, NEW c \in Callers, Settle(c)
    PROVE TypeInv'
  <1>. USE DEF TypeInv, RowsOK
  <1>1. FlowOK'
    <2>1. Released(1) \in Nat
      BY ReleasedIs DEF FlowOK
    <2>. QED BY <2>1 DEF Settle, FlowOK
  <1>2. CallOK'
    BY DEF CallOK, CallType, CallAt, OverOK, Settle, Outcome, Over, Result
  <1>3. GroupOver'
    BY DEF GroupOver, Settle, Outcome, Over, JobInv, JobOK, JobType, CallOK, CallType, Callers
  <1>4. /\ RunOK' /\ NodeOK' /\ TaskOK' /\ AgentOK' /\ TurnOK' /\ HandoffsOK' /\ JobInv'
        /\ StopOK' /\ BoundsOK'
    BY DEF Settle, RunOK, NodeOK, NodeStatus, TaskOK, TaskStatus, AgentOK, AgentStatus,
       TurnOK, HandoffsOK, JobInv, JobOK, JobType, JobAt, WorkOK, Planned, RepliesOK,
       RefineOK, StopOK, StopType, Actors, BoundsOK
  <1>. QED BY <1>1, <1>2, <1>3, <1>4

LEMMA StopRead_Types ==
    ASSUME TypeInv, NEW a \in Actors, StopRead(a)
    PROVE TypeInv'
  <1>. USE DEF TypeInv, RowsOK
  <1>1. JobInv' /\ StopOK'
    <2>. replies' = replies
      BY DEF StopRead, rows
    <2>1. CASE Running
      <3>1. stop' = [stop EXCEPT ![a].at = "nodes", ![a].nodes = Active] /\ job' = job
        BY <2>1 DEF StopRead
      <3>. QED BY <3>1 DEF Active, JobInv, JobOK, WorkOK, Planned, RepliesOK, RefineOK,
             StopOK, StopType
    <2>2. CASE ~Running
      <3>1. After(a, "none") /\ Handled(a)
        BY <2>2 DEF StopRead
      <3>2. JobInv'
        BY <3>1, HandledTypes, <2>2 DEF StopRead
      <3>3. StopOK'
        BY <3>1 DEF After, NoStop, StopOK, StopType, EndsAs
      <3>. QED BY <3>2, <3>3
    <2>. QED BY <2>1, <2>2
  <1>2. GroupOver'
    BY DEF GroupOver, StopRead, Handled, After, JobInv, JobOK, JobType
  <1>3. /\ FlowOK' /\ RunOK' /\ NodeOK' /\ TaskOK' /\ AgentOK' /\ TurnOK' /\ HandoffsOK'
        /\ CallOK' /\ BoundsOK'
    BY DEF StopRead, rows, FlowOK, RunOK, NodeOK, NodeStatus, TaskOK, TaskStatus, AgentOK,
       AgentStatus, TurnOK, HandoffsOK, CallOK, CallType, CallAt, OverOK, BoundsOK
  <1>. QED BY <1>1, <1>2, <1>3

LEMMA StopNode_Types ==
    ASSUME TypeInv, NEW a \in Actors, StopNode(a)
    PROVE TypeInv'
  <1>. USE DEF TypeInv, RowsOK
  <1>1. NodeOK'
    <2>1. stop[a].as \in NodeStatus
      BY DEF StopOK, StopType, EndsAs, NodeStatus
    <2>. QED BY <2>1 DEF StopNode, NodeOK
  <1>2. StopOK'
    BY DEF StopOK, StopType, Actors, StopNode
  <1>3. /\ FlowOK' /\ RunOK' /\ TaskOK' /\ AgentOK' /\ TurnOK' /\ HandoffsOK' /\ CallOK'
        /\ JobInv' /\ GroupOver' /\ BoundsOK'
    BY DEF StopNode, FlowOK, RunOK, TaskOK, TaskStatus, AgentOK, AgentStatus, TurnOK,
       HandoffsOK, CallOK, CallType, CallAt, OverOK, JobInv, JobOK, JobType, JobAt, WorkOK,
       Planned, RepliesOK, RefineOK, GroupOver, BoundsOK
  <1>. QED BY <1>1, <1>2, <1>3

LEMMA StopChildren_Types ==
    ASSUME TypeInv, NEW a \in Actors, StopChildren(a)
    PROVE TypeInv'
  <1>. USE DEF TypeInv, RowsOK
  <1>1. TaskOK'
    BY DEF TaskOK, TaskStatus, StopChildren, EndChildren
  <1>2. AgentOK' /\ TurnOK'
    BY DEF AgentOK, AgentStatus, TurnOK, StopChildren, EndChildren
  <1>3. StopOK'
    BY DEF StopOK, StopType, Actors, StopChildren, EndChildren, After
  <1>4. /\ FlowOK' /\ RunOK' /\ NodeOK' /\ HandoffsOK' /\ CallOK' /\ JobInv' /\ GroupOver'
        /\ BoundsOK'
    BY DEF StopChildren, EndChildren, FlowOK, RunOK, NodeOK, NodeStatus, HandoffsOK, CallOK,
       CallType, CallAt, OverOK, JobInv, JobOK, JobType, JobAt, WorkOK, Planned, RepliesOK,
       RefineOK, GroupOver, BoundsOK
  <1>. QED BY <1>1, <1>2, <1>3, <1>4

LEMMA StopEnd_Types ==
    ASSUME TypeInv, NEW a \in Actors, StopEnd(a)
    PROVE TypeInv'
  <1>. USE DEF TypeInv, RowsOK
  <1>1. FlowOK'
    <2>1. stop[a].as \in Ended
      BY DEF StopOK, StopType, EndsAs, Ended
    <2>. QED BY <2>1 DEF StopEnd, FlowOK
  <1>2. RunOK'
    BY DEF RunOK, StopEnd
  <1>3. JobInv'
    <2>1. Handled(a) /\ replies' = replies
      BY DEF StopEnd
    <2>. QED BY <2>1, HandledTypes
  <1>4. StopOK'
    BY DEF StopOK, StopType, Actors, StopEnd, After, NoStop, EndsAs
  <1>5. GroupOver'
    BY DEF GroupOver, StopEnd, Handled, After, JobInv, JobOK, JobType
  <1>6. NodeOK' /\ TaskOK' /\ AgentOK' /\ TurnOK' /\ HandoffsOK' /\ CallOK' /\ BoundsOK'
    BY DEF StopEnd, NodeOK, NodeStatus, TaskOK, TaskStatus, AgentOK, AgentStatus, TurnOK,
       HandoffsOK, CallOK, CallType, CallAt, OverOK, BoundsOK
  <1>. QED BY <1>1, <1>2, <1>3, <1>4, <1>5, <1>6

LEMMA CancelWorkflow_Types ==
    ASSUME TypeInv, CancelWorkflow
    PROVE TypeInv'
  <1>. USE DEF TypeInv, RowsOK
  <1>1. NodeOK' /\ TaskOK' /\ AgentOK' /\ TurnOK'
    <2>1. CASE Active = {}
      <3>1. EndChildren("cancelled") /\ node' = node
        BY <2>1 DEF CancelWorkflow
      <3>. QED BY <3>1 DEF EndChildren, NodeOK, TaskOK, TaskStatus, AgentOK, AgentStatus,
             TurnOK
    <2>2. CASE Active # {}
      <3>1. UNCHANGED <<task, agent, turn>>
        BY <2>2 DEF CancelWorkflow
      <3>2. PICK k \in Active : node' = [node EXCEPT ![k] = "cancelled"]
        BY <2>2 DEF CancelWorkflow
      <3>. QED BY <3>1, <3>2 DEF NodeOK, NodeStatus, TaskOK, AgentOK, TurnOK
    <2>. QED BY <2>1, <2>2
  <1>2. StopOK'
    BY DEF StopOK, StopType, Actors, CancelWorkflow, Active, EndsAs
  <1>3. BoundsOK'
    BY DEF BoundsOK, CancelWorkflow, Ask
  <1>4. FlowOK' /\ RunOK' /\ HandoffsOK' /\ CallOK' /\ JobInv' /\ GroupOver'
    BY DEF CancelWorkflow, FlowOK, RunOK, HandoffsOK, CallOK, CallType, CallAt, OverOK,
       JobInv, JobOK, JobType, JobAt, WorkOK, Planned, RepliesOK, RefineOK, GroupOver
  <1>. QED BY <1>1, <1>2, <1>3, <1>4

LEMMA CancelRun_Types ==
    ASSUME TypeInv, CancelRun
    PROVE TypeInv'
  <1>. USE DEF TypeInv, RowsOK
  <1>1. RunOK'
    BY DEF RunOK, CancelRun
  <1>2. TaskOK'
    BY DEF TaskOK, TaskStatus, CancelRun
  <1>3. BoundsOK'
    BY DEF BoundsOK, CancelRun, Ask
  <1>4. /\ FlowOK' /\ NodeOK' /\ AgentOK' /\ TurnOK' /\ HandoffsOK' /\ CallOK' /\ JobInv'
        /\ GroupOver' /\ StopOK'
    BY DEF CancelRun, FlowOK, NodeOK, NodeStatus, AgentOK, AgentStatus, TurnOK, HandoffsOK,
       CallOK, CallType, CallAt, OverOK, JobInv, JobOK, JobType, JobAt, WorkOK, Planned,
       RepliesOK, RefineOK, GroupOver, StopOK, StopType, Actors
  <1>. QED BY <1>1, <1>2, <1>3, <1>4

LEMMA CancelTask_Types ==
    ASSUME TypeInv, NEW t \in Owners, CancelTask(t)
    PROVE TypeInv'
  <1>. USE DEF TypeInv, RowsOK
  <1>1. TaskOK'
    BY DEF TaskOK, TaskStatus, CancelTask
  <1>2. BoundsOK'
    BY DEF BoundsOK, CancelTask, Ask
  <1>3. /\ FlowOK' /\ RunOK' /\ NodeOK' /\ AgentOK' /\ TurnOK' /\ HandoffsOK' /\ CallOK'
        /\ JobInv' /\ GroupOver' /\ StopOK'
    BY DEF CancelTask, FlowOK, RunOK, NodeOK, NodeStatus, AgentOK, AgentStatus, TurnOK,
       HandoffsOK, CallOK, CallType, CallAt, OverOK, JobInv, JobOK, JobType, JobAt, WorkOK,
       Planned, RepliesOK, RefineOK, GroupOver, StopOK, StopType, Actors
  <1>. QED BY <1>1, <1>2, <1>3

LEMMA RetryTask_Types ==
    ASSUME TypeInv, NEW t \in Owners, RetryTask(t)
    PROVE TypeInv'
  <1>. USE DEF TypeInv, RowsOK
  <1>1. TaskOK'
    BY DEF TaskOK, TaskStatus, RetryTask
  <1>2. BoundsOK'
    BY DEF BoundsOK, RetryTask, Ask
  <1>3. /\ FlowOK' /\ RunOK' /\ NodeOK' /\ AgentOK' /\ TurnOK' /\ HandoffsOK' /\ CallOK'
        /\ JobInv' /\ GroupOver' /\ StopOK'
    BY DEF RetryTask, FlowOK, RunOK, NodeOK, NodeStatus, AgentOK, AgentStatus, TurnOK,
       HandoffsOK, CallOK, CallType, CallAt, OverOK, JobInv, JobOK, JobType, JobAt, WorkOK,
       Planned, RepliesOK, RefineOK, GroupOver, StopOK, StopType, Actors
  <1>. QED BY <1>1, <1>2, <1>3

LEMMA CallersFinite == IsFiniteSet(Callers)
  <1>1. IsFiniteSet(Calling)
    <2>1. Calling = (({} \cup {"plan"}) \cup {"review"}) \cup {"final"}
      BY DEF Calling
    <2>. QED BY <2>1, FS_EmptySet, FS_AddElement
  <1>. QED BY <1>1, FS_Union DEF Callers

LEMMA OpenFinite == IsFiniteSet(Open) /\ IsFiniteSet(InFlight)
  BY CallersFinite, FS_Subset DEF Open, InFlight

LEMMA CancelJob_Types ==
    ASSUME TypeInv, CancelJob
    PROVE TypeInv'
  <1>. USE DEF TypeInv, RowsOK
  <1>1. FlowOK'
    <2>1. PICK n \in 0..Cardinality(Open) : flow' = [flow EXCEPT !.reserved = Released(n)]
      BY DEF CancelJob
    <2>2. n \in Nat
      BY OpenFinite, FS_CardinalityType
    <2>3. Released(n) \in Nat
      BY <2>2, ReleasedIs DEF FlowOK
    <2>. QED BY <2>1, <2>3 DEF FlowOK
  <1>2. CallOK'
    BY DEF CallOK, CallType, CallAt, OverOK, CancelJob, Over, Result
  <1>3. JobInv' /\ StopOK' /\ GroupOver'
    <2>. DEFINE keys == IF job.stage = "final" /\ job.at \in {"call", "finish"}
                        THEN {<<"final", NoTask>>} ELSE {}
    <2>0. replies' = replies
      BY DEF CancelJob
    <2>1. PICK as \in EndsAs, ks \in {{}, keys} : Raise(as, ks, "cancelled")
      BY DEF CancelJob, EndsAs
    <2>2. ks \in SUBSET Key
      BY WorkKeys DEF Stages, Calling
    <2>. HIDE DEF keys
    <2>. QED BY <2>0, <2>1, <2>2, RaiseTypes DEF Cause
  <1>4. RunOK' /\ NodeOK' /\ TaskOK' /\ AgentOK' /\ TurnOK' /\ HandoffsOK' /\ BoundsOK'
    BY DEF CancelJob, Over, RunOK, NodeOK, NodeStatus, TaskOK, TaskStatus, AgentOK,
       AgentStatus, TurnOK, HandoffsOK, BoundsOK
  <1>. QED BY <1>1, <1>2, <1>3, <1>4

LEMMA LoseLease_Types ==
    ASSUME TypeInv, LoseLease
    PROVE TypeInv'
  <1>. USE DEF TypeInv, RowsOK
  <1>1. BoundsOK'
    <2>1. faults + 1 \in 0..MaxFaults
      BY DEF LoseLease, BoundsOK
    <2>. QED BY <2>1 DEF LoseLease, BoundsOK
  <1>2. /\ FlowOK' /\ RunOK' /\ NodeOK' /\ TaskOK' /\ AgentOK' /\ TurnOK' /\ HandoffsOK'
        /\ CallOK' /\ JobInv' /\ GroupOver' /\ StopOK'
    BY DEF LoseLease, rows, FlowOK, RunOK, NodeOK, NodeStatus, TaskOK, TaskStatus, AgentOK,
       AgentStatus, TurnOK, HandoffsOK, CallOK, CallType, CallAt, OverOK, JobInv, JobOK,
       JobType, JobAt, WorkOK, Planned, RepliesOK, RefineOK, GroupOver, StopOK, StopType,
       Actors
  <1>. QED BY <1>1, <1>2

LEMMA Superseded_Types ==
    ASSUME TypeInv, Superseded
    PROVE TypeInv'
  <1>. USE DEF TypeInv, RowsOK
  <1>1. JobInv'
    BY DEF JobInv, JobOK, JobType, JobAt, WorkOK, Planned, RepliesOK, RefineOK, Superseded,
       rows
  <1>2. GroupOver'
    BY DEF GroupOver, Superseded, JobInv, JobOK, JobType, CallOK, CallType, Callers
  <1>3. /\ FlowOK' /\ RunOK' /\ NodeOK' /\ TaskOK' /\ AgentOK' /\ TurnOK' /\ HandoffsOK'
        /\ CallOK' /\ StopOK' /\ BoundsOK'
    BY DEF Superseded, rows, FlowOK, RunOK, NodeOK, NodeStatus, TaskOK, TaskStatus, AgentOK,
       AgentStatus, TurnOK, HandoffsOK, CallOK, CallType, CallAt, OverOK, StopOK, StopType,
       Actors, BoundsOK
  <1>. QED BY <1>1, <1>2, <1>3

LEMMA Recover_Types ==
    ASSUME TypeInv, Recover
    PROVE TypeInv'
  <1>. USE DEF TypeInv, RowsOK
  <1>1. StopOK'
    BY DEF StopOK, StopType, Actors, Recover, EndsAs
  <1>2. /\ FlowOK' /\ RunOK' /\ NodeOK' /\ TaskOK' /\ AgentOK' /\ TurnOK' /\ HandoffsOK'
        /\ CallOK' /\ JobInv' /\ GroupOver' /\ BoundsOK'
    BY DEF Recover, rows, FlowOK, RunOK, NodeOK, NodeStatus, TaskOK, TaskStatus, AgentOK,
       AgentStatus, TurnOK, HandoffsOK, CallOK, CallType, CallAt, OverOK, JobInv, JobOK,
       JobType, JobAt, WorkOK, Planned, RepliesOK, RefineOK, GroupOver, BoundsOK
  <1>. QED BY <1>1, <1>2

LEMMA InitTypes == Init => TypeInv
  <1>. SUFFICES ASSUME Init PROVE TypeInv
    OBVIOUS
  <1>1. RowsOK /\ BoundsOK
    BY DEF Init, RowsOK, FlowOK, RunOK, NodeOK, NodeStatus, TaskOK, TaskStatus, AgentOK,
       AgentStatus, TurnOK, HandoffsOK, BoundsOK
  <1>2. CallOK /\ StopOK
    BY DEF Init, CallOK, CallType, CallAt, OverOK, Result, NoCall, StopOK, StopType, EndsAs,
       NoStop
  <1>3. JobInv /\ GroupOver
    BY DEF Init, JobInv, JobOK, JobType, JobAt, JobStep, Cause, Stages, Calling, WorkOK,
       RepliesOK, RefineOK, GroupOver
  <1>. QED BY <1>1, <1>2, <1>3 DEF TypeInv

LEMMA StepTypes == TypeInv /\ [Next]_vars => TypeInv'
  <1>. SUFFICES ASSUME TypeInv, [Next]_vars PROVE TypeInv'
    OBVIOUS
  <1>1. CASE Coordinator
    BY <1>1, BeginStage_Types, StageCalled_Types, FinishPlan_Types, FinishCheck_Types,
       CreateTasks_Types, FinishDispatch_Types, StartTask_Types, StartWork_Types,
       StartTurn_Types, GroupCalled_Types, FinishTurn_Types, FinishWork_Types,
       StartHandoff_Types, SaveHandoff_Types, FinishHandoff_Types, FinishTask_Types,
       EndGroup_Types, FinishVerify_Types, CreateReviewer_Types, StartReview_Types,
       FinishReviewTurn_Types, FinishReview_Types, FinishReviewer_Types, FinishFinal_Types,
       Complete_Types, StopOne_Types, StopRead_Types, StopNode_Types, StopChildren_Types,
       StopEnd_Types
    DEF Coordinator, Stop, Actors
  <1>2. CASE \E c \in Callers : Call(c)
    BY <1>2, Reserve_Types, Refuse_Types, Send_Types, Charge_Types, ProviderFails_Types,
       Settle_Types DEF Call
  <1>3. CASE Client
    BY <1>3, CancelWorkflow_Types, CancelRun_Types, CancelTask_Types, RetryTask_Types,
       StopRead_Types, StopNode_Types, StopChildren_Types, StopEnd_Types
    DEF Client, Stop, Actors
  <1>4. CASE Rescue
    BY <1>4, Recover_Types, StopRead_Types, StopNode_Types, StopChildren_Types, StopEnd_Types
    DEF Rescue, Stop, Actors
  <1>5. CASE Fault
    BY <1>5, CancelJob_Types, LoseLease_Types, Superseded_Types DEF Fault
  <1>6. CASE UNCHANGED vars
    BY <1>6 DEF vars, rows, TypeInv, RowsOK, FlowOK, RunOK, NodeOK, TaskOK, AgentOK, TurnOK,
           HandoffsOK, CallOK, JobInv, GroupOver, StopOK, BoundsOK, JobOK, WorkOK, Planned,
           RepliesOK, RefineOK
  <1>. QED BY <1>1, <1>2, <1>3, <1>4, <1>5, <1>6 DEF Next

LEMMA AlwaysTypes == Spec => []TypeInv
  BY InitTypes, StepTypes, PTL DEF Spec

\* Every variable keeps its type, and a plan with rounds left is never refined past them.
THEOREM TypeCorrect == Spec => []TypeOK
  BY AlwaysTypes, TypeSaysIt, PTL

-----------------------------------------------------------------------------
(* Where calls are under way *)
UnderWay == {"ready", "reserved", "sent", "answered"}

\* A call is under way only where the job waits for it; a handler is at work only for a
\* job that raised an error.
CallsBelong ==
    \A c \in Callers : call[c].at \in UnderWay /\ job.at # "gone" =>
        \/ c \in Calling /\ job.at = "call" /\ job.stage = c
        \/ c \in job.group /\ job.at = "group" /\ job.stage = "work"
HandlerRuns == stop["job"].at # "none" => job.at \in {"handler", "gone"}
PlaceInv == CallsBelong /\ HandlerRuns

\* Nothing is under way where the job waits for no call.
LEMMA NoneUnderWay ==
    ASSUME PlaceInv, job.at \notin {"call", "group", "gone"}
    PROVE  \A c \in Callers : call[c].at \notin UnderWay
  BY DEF PlaceInv, CallsBelong

LEMMA StaysIdle ==
    ASSUME PlaceInv, job.at \notin {"call", "group", "handler", "gone"}, call' = call,
           stop' = stop \/ job'.at = "handler"
    PROVE  PlaceInv'
  BY NoneUnderWay DEF PlaceInv, CallsBelong, HandlerRuns

LEMMA FinishPlan_Place ==
    ASSUME TypeInv, PlaceInv, FinishPlan
    PROVE PlaceInv'
  BY StaysIdle DEF FinishPlan, At, Owned, Finish, idle, JobInv, JobOK, JobType, TypeInv

LEMMA FinishCheck_Place ==
    ASSUME TypeInv, PlaceInv, FinishCheck
    PROVE PlaceInv'
  BY StaysIdle DEF FinishCheck, At, Owned, Raise, idle, JobInv, JobOK, JobType, TypeInv

LEMMA CreateTasks_Place ==
    ASSUME TypeInv, PlaceInv, CreateTasks
    PROVE PlaceInv'
  BY StaysIdle DEF CreateTasks, At, Owned, JobInv, JobOK, JobType, TypeInv

LEMMA FinishDispatch_Place ==
    ASSUME TypeInv, PlaceInv, FinishDispatch
    PROVE PlaceInv'
  BY StaysIdle DEF FinishDispatch, At, Owned, Finish, idle, JobInv, JobOK, JobType, TypeInv

LEMMA StartTask_Place ==
    ASSUME TypeInv, PlaceInv, StartTask
    PROVE PlaceInv'
  BY StaysIdle DEF StartTask, At, Owned, Step, Raise, JobInv, JobOK, JobType, TypeInv

LEMMA StartWork_Place ==
    ASSUME TypeInv, PlaceInv, StartWork
    PROVE PlaceInv'
  BY StaysIdle DEF StartWork, At, Owned, Step, StartNode, Raise, idle, JobInv, JobOK, JobType,
         TypeInv

LEMMA FinishTurn_Place ==
    ASSUME TypeInv, PlaceInv, FinishTurn
    PROVE PlaceInv'
  BY StaysIdle DEF FinishTurn, At, Owned, Step, JobInv, JobOK, JobType, TypeInv

LEMMA FinishWork_Place ==
    ASSUME TypeInv, PlaceInv, FinishWork
    PROVE PlaceInv'
  BY StaysIdle DEF FinishWork, At, Owned, Step, idle, JobInv, JobOK, JobType, TypeInv

LEMMA StartHandoff_Place ==
    ASSUME TypeInv, PlaceInv, StartHandoff
    PROVE PlaceInv'
  BY StaysIdle DEF StartHandoff, At, Owned, Step, StartNode, Raise, idle, JobInv, JobOK,
         JobType, TypeInv

LEMMA SaveHandoff_Place ==
    ASSUME TypeInv, PlaceInv, SaveHandoff
    PROVE PlaceInv'
  BY StaysIdle DEF SaveHandoff, At, Owned, Step, JobInv, JobOK, JobType, TypeInv

LEMMA FinishHandoff_Place ==
    ASSUME TypeInv, PlaceInv, FinishHandoff
    PROVE PlaceInv'
  BY StaysIdle DEF FinishHandoff, At, Owned, Step, idle, JobInv, JobOK, JobType, TypeInv

LEMMA FinishTask_Place ==
    ASSUME TypeInv, PlaceInv, FinishTask
    PROVE PlaceInv'
  BY StaysIdle DEF FinishTask, At, Owned, Step, JobInv, JobOK, JobType, TypeInv

LEMMA EndGroup_Place ==
    ASSUME TypeInv, PlaceInv, EndGroup
    PROVE PlaceInv'
  BY StaysIdle DEF EndGroup, At, Owned, Raise, rows, JobInv, JobOK, JobType, TypeInv

LEMMA FinishVerify_Place ==
    ASSUME TypeInv, PlaceInv, FinishVerify
    PROVE PlaceInv'
  BY StaysIdle DEF FinishVerify, At, Owned, Raise, idle, JobInv, JobOK, JobType, TypeInv

LEMMA CreateReviewer_Place ==
    ASSUME TypeInv, PlaceInv, CreateReviewer
    PROVE PlaceInv'
  BY StaysIdle DEF CreateReviewer, At, Owned, JobInv, JobOK, JobType, TypeInv

LEMMA FinishReviewTurn_Place ==
    ASSUME TypeInv, PlaceInv, FinishReviewTurn
    PROVE PlaceInv'
  BY StaysIdle DEF FinishReviewTurn, At, Owned, JobInv, JobOK, JobType, TypeInv

LEMMA FinishReview_Place ==
    ASSUME TypeInv, PlaceInv, FinishReview
    PROVE PlaceInv'
  BY StaysIdle DEF FinishReview, At, Owned, idle, JobInv, JobOK, JobType, TypeInv

LEMMA FinishReviewer_Place ==
    ASSUME TypeInv, PlaceInv, FinishReviewer
    PROVE PlaceInv'
  BY StaysIdle DEF FinishReviewer, At, Owned, Raise, JobInv, JobOK, JobType, TypeInv

LEMMA FinishFinal_Place ==
    ASSUME TypeInv, PlaceInv, FinishFinal
    PROVE PlaceInv'
  BY StaysIdle DEF FinishFinal, At, Owned, JobInv, JobOK, JobType, TypeInv

LEMMA Complete_Place ==
    ASSUME TypeInv, PlaceInv, Complete
    PROVE PlaceInv'
  BY StaysIdle DEF Complete, At, Owned, JobInv, JobOK, JobType, TypeInv

LEMMA BeginStage_Place ==
    ASSUME TypeInv, PlaceInv, BeginStage
    PROVE PlaceInv'
  <1>1. job.at = "begin" /\ \A c \in Callers : call[c].at \notin UnderWay
    BY NoneUnderWay DEF BeginStage, At
  <1>2. HandlerRuns'
    BY <1>1 DEF BeginStage, StartNode, Raise, PlaceInv, HandlerRuns, TypeInv, JobInv, JobOK,
           JobType
  <1>3. CASE call' = call
    BY <1>1, <1>2, <1>3 DEF PlaceInv, CallsBelong
  <1>4. CASE call' # call
    <2>1. /\ job'.at = "call" /\ job'.stage = job.stage /\ job.stage \in {"plan", "final"}
          /\ call' = [call EXCEPT ![job.stage] = Ready]
      BY <1>1, <1>4 DEF BeginStage, StartNode, Raise, Stopped, TypeInv, JobInv, JobOK, JobType
    <2>. QED BY <1>1, <1>2, <2>1 DEF PlaceInv, CallsBelong, Calling, Callers, TypeInv, CallOK
  <1>. QED BY <1>3, <1>4

LEMMA StageCalled_Place ==
    ASSUME TypeInv, PlaceInv, StageCalled
    PROVE PlaceInv'
  <1>1. \A c \in Callers : call[c].at \notin UnderWay
    BY DEF StageCalled, At, PlaceInv, CallsBelong, UnderWay, Callers
  <1>2. HandlerRuns'
    BY DEF StageCalled, At, Raise, PlaceInv, HandlerRuns, TypeInv, JobInv, JobOK, JobType
  <1>. QED BY <1>1, <1>2 DEF StageCalled, PlaceInv, CallsBelong

LEMMA StartTurn_Place ==
    ASSUME TypeInv, PlaceInv, StartTurn
    PROVE PlaceInv'
  <1>1. job.at = "prepare" /\ job.stage = "work" /\ \A c \in Callers : call[c].at \notin UnderWay
    BY NoneUnderWay DEF StartTurn, Step, At
  <1>2. HandlerRuns'
    BY <1>1 DEF StartTurn, PlaceInv, HandlerRuns
  <1>3. job'.stage = "work" /\ job'.group = job.group
    BY <1>1 DEF StartTurn, TypeInv, JobInv, JobOK, JobType
  <1>4. CASE job.queue = {Worker}
    BY <1>1, <1>2, <1>3, <1>4 DEF StartTurn, PlaceInv, CallsBelong, TypeInv, JobInv, JobOK,
           JobType
  <1>5. CASE job.queue # {Worker}
    BY <1>1, <1>2, <1>5 DEF StartTurn, PlaceInv, CallsBelong
  <1>. QED BY <1>4, <1>5

LEMMA GroupCalled_Place ==
    ASSUME TypeInv, PlaceInv, GroupCalled
    PROVE PlaceInv'
  <1>1. \A c \in Callers : call[c].at \notin UnderWay
    BY DEF GroupCalled, At, PlaceInv, CallsBelong, UnderWay
  <1>. QED BY <1>1 DEF GroupCalled, At, rows, PlaceInv, CallsBelong, HandlerRuns

LEMMA StartReview_Place ==
    ASSUME TypeInv, PlaceInv, StartReview
    PROVE PlaceInv'
  <1>1. /\ job.at = "turn" /\ job.stage = "review"
        /\ \A c \in Callers : call[c].at \notin UnderWay
    BY NoneUnderWay DEF StartReview, At
  <1>2. job'.at = "call" /\ job'.stage = "review"
    BY <1>1 DEF StartReview, TypeInv, JobInv, JobOK, JobType
  <1>. QED BY <1>1, <1>2 DEF StartReview, PlaceInv, CallsBelong, HandlerRuns, Calling,
         Callers, TypeInv, CallOK

LEMMA StopOne_Place ==
    ASSUME TypeInv, PlaceInv, StopOne
    PROVE PlaceInv'
  BY DEF StopOne, PlaceInv, CallsBelong, HandlerRuns, TypeInv, StopOK, Actors

LEMMA Reserve_Place ==
    ASSUME TypeInv, PlaceInv, NEW c \in Callers, Reserve(c)
    PROVE PlaceInv'
  BY DEF Reserve, PlaceInv, CallsBelong, HandlerRuns, UnderWay, TypeInv, CallOK, CallType

LEMMA Refuse_Place ==
    ASSUME TypeInv, PlaceInv, NEW c \in Callers, Refuse(c)
    PROVE PlaceInv'
  BY DEF Refuse, Over, PlaceInv, CallsBelong, HandlerRuns, UnderWay, TypeInv, CallOK, CallType

LEMMA Send_Place ==
    ASSUME TypeInv, PlaceInv, NEW c \in Callers, Send(c)
    PROVE PlaceInv'
  BY DEF Send, PlaceInv, CallsBelong, HandlerRuns, UnderWay, TypeInv, CallOK, CallType

LEMMA Charge_Place ==
    ASSUME TypeInv, PlaceInv, NEW c \in Callers, Charge(c)
    PROVE PlaceInv'
  BY DEF Charge, PlaceInv, CallsBelong, HandlerRuns, UnderWay, TypeInv, CallOK, CallType

LEMMA ProviderFails_Place ==
    ASSUME TypeInv, PlaceInv, NEW c \in Callers, ProviderFails(c)
    PROVE PlaceInv'
  BY DEF ProviderFails, PlaceInv, CallsBelong, HandlerRuns, UnderWay, TypeInv, CallOK,
     CallType

LEMMA Settle_Place ==
    ASSUME TypeInv, PlaceInv, NEW c \in Callers, Settle(c)
    PROVE PlaceInv'
  BY DEF Settle, Outcome, Over, PlaceInv, CallsBelong, HandlerRuns, UnderWay, TypeInv, CallOK,
     CallType

LEMMA StopRead_Place ==
    ASSUME TypeInv, PlaceInv, NEW a \in Actors, StopRead(a)
    PROVE PlaceInv'
  <1>1. CallsBelong'
    BY DEF StopRead, MayAct, Owned, Handled, rows, PlaceInv, CallsBelong, HandlerRuns,
       TypeInv, JobInv, JobOK, JobType
  <1>2. HandlerRuns'
    BY DEF StopRead, Handled, After, NoStop, PlaceInv, HandlerRuns, TypeInv, JobInv, JobOK,
       JobType, StopOK, Actors
  <1>. QED BY <1>1, <1>2 DEF PlaceInv

LEMMA StopEnd_Place ==
    ASSUME TypeInv, PlaceInv, NEW a \in Actors, StopEnd(a)
    PROVE PlaceInv'
  <1>1. CallsBelong'
    BY DEF StopEnd, MayAct, Owned, Handled, PlaceInv, CallsBelong, HandlerRuns, TypeInv,
       JobInv, JobOK, JobType
  <1>2. HandlerRuns'
    BY DEF StopEnd, Handled, After, NoStop, PlaceInv, HandlerRuns, TypeInv, JobInv, JobOK,
       JobType, StopOK, Actors
  <1>. QED BY <1>1, <1>2 DEF PlaceInv

LEMMA StopNode_Place ==
    ASSUME TypeInv, PlaceInv, NEW a \in Actors, StopNode(a)
    PROVE PlaceInv'
  BY DEF StopNode, PlaceInv, CallsBelong, HandlerRuns, TypeInv, StopOK, Actors

LEMMA StopChildren_Place ==
    ASSUME TypeInv, PlaceInv, NEW a \in Actors, StopChildren(a)
    PROVE PlaceInv'
  BY DEF StopChildren, After, PlaceInv, CallsBelong, HandlerRuns, TypeInv, StopOK, Actors

LEMMA CancelWorkflow_Place ==
    ASSUME TypeInv, PlaceInv, CancelWorkflow
    PROVE PlaceInv'
  BY DEF CancelWorkflow, PlaceInv, CallsBelong, HandlerRuns, TypeInv, StopOK, Actors

LEMMA CancelRun_Place ==
    ASSUME TypeInv, PlaceInv, CancelRun
    PROVE PlaceInv'
  BY DEF CancelRun, PlaceInv, CallsBelong, HandlerRuns, TypeInv, StopOK, Actors

LEMMA CancelTask_Place ==
    ASSUME TypeInv, PlaceInv, NEW t \in Owners, CancelTask(t)
    PROVE PlaceInv'
  BY DEF CancelTask, PlaceInv, CallsBelong, HandlerRuns

LEMMA RetryTask_Place ==
    ASSUME TypeInv, PlaceInv, NEW t \in Owners, RetryTask(t)
    PROVE PlaceInv'
  BY DEF RetryTask, PlaceInv, CallsBelong, HandlerRuns

LEMMA CancelJob_Place ==
    ASSUME TypeInv, PlaceInv, CancelJob
    PROVE PlaceInv'
  <1>1. \A c \in Callers : call'[c].at \notin UnderWay
    BY DEF CancelJob, Over, UnderWay
  <1>2. job'.at = "handler"
    BY DEF CancelJob, Raise, TypeInv, JobInv, JobOK, JobType
  <1>. QED BY <1>1, <1>2 DEF PlaceInv, CallsBelong, HandlerRuns

LEMMA LoseLease_Place ==
    ASSUME TypeInv, PlaceInv, LoseLease
    PROVE PlaceInv'
  BY DEF LoseLease, rows, PlaceInv, CallsBelong, HandlerRuns

LEMMA Superseded_Place ==
    ASSUME TypeInv, PlaceInv, Superseded
    PROVE PlaceInv'
  BY DEF Superseded, rows, PlaceInv, CallsBelong, HandlerRuns, TypeInv, JobInv, JobOK, JobType

LEMMA Recover_Place ==
    ASSUME TypeInv, PlaceInv, Recover
    PROVE PlaceInv'
  BY DEF Recover, rows, PlaceInv, CallsBelong, HandlerRuns, TypeInv, StopOK, Actors

LEMMA StepPlaces == TypeInv /\ PlaceInv /\ [Next]_vars => PlaceInv'
  <1>. SUFFICES ASSUME TypeInv /\ PlaceInv, [Next]_vars PROVE PlaceInv'
    OBVIOUS
  <1>1. CASE Coordinator
    BY <1>1, BeginStage_Place, StageCalled_Place, FinishPlan_Place, FinishCheck_Place,
       CreateTasks_Place, FinishDispatch_Place, StartTask_Place, StartWork_Place,
       StartTurn_Place, GroupCalled_Place, FinishTurn_Place, FinishWork_Place,
       StartHandoff_Place, SaveHandoff_Place, FinishHandoff_Place, FinishTask_Place,
       EndGroup_Place, FinishVerify_Place, CreateReviewer_Place, StartReview_Place,
       FinishReviewTurn_Place, FinishReview_Place, FinishReviewer_Place, FinishFinal_Place,
       Complete_Place, StopOne_Place, StopRead_Place, StopNode_Place, StopChildren_Place,
       StopEnd_Place
    DEF Coordinator, Stop, Actors
  <1>2. CASE \E c \in Callers : Call(c)
    BY <1>2, Reserve_Place, Refuse_Place, Send_Place, Charge_Place, ProviderFails_Place,
       Settle_Place DEF Call
  <1>3. CASE Client
    BY <1>3, CancelWorkflow_Place, CancelRun_Place, CancelTask_Place, RetryTask_Place,
       StopRead_Place, StopNode_Place, StopChildren_Place, StopEnd_Place
    DEF Client, Stop, Actors
  <1>4. CASE Rescue
    BY <1>4, Recover_Place, StopRead_Place, StopNode_Place, StopChildren_Place, StopEnd_Place
    DEF Rescue, Stop, Actors
  <1>5. CASE Fault
    BY <1>5, CancelJob_Place, LoseLease_Place, Superseded_Place DEF Fault
  <1>6. CASE UNCHANGED vars
    BY <1>6 DEF vars, rows, PlaceInv, CallsBelong, HandlerRuns
  <1>. QED BY <1>1, <1>2, <1>3, <1>4, <1>5, <1>6 DEF Next

LEMMA AlwaysPlaces == Spec => []PlaceInv
  <1>1. Init => PlaceInv
    BY DEF Init, NoCall, NoStop, Actors, PlaceInv, CallsBelong, HandlerRuns, UnderWay
  <1>. QED BY <1>1, StepPlaces, AlwaysTypes, PTL DEF Spec

-----------------------------------------------------------------------------
(* Where the job goes from its larger steps *)
LEMMA TasksNotCalling == \A t \in Tasks : t \notin Calling
  BY PlannedWorkflowAssumption DEF Calling

LEMMA ScheduleGoes ==
    ASSUME TypeInv, NEW left, job' = Schedule(left)
    PROVE  /\ job'.stage \in {"work", "verify"} /\ job'.at \in {"begin", "prepare"}
           /\ job'.plan = job.plan /\ job'.verdict = job.verdict
  BY DEF Schedule, Go, TypeInv, JobInv, JobOK, JobType

LEMMA EndGroupGoes ==
    ASSUME TypeInv, EndGroup
    PROVE  /\ flow' = flow /\ call' = call /\ handoffs' = handoffs /\ turn' = turn
           /\ job.stage = "work" /\ job.at = "save" /\ job.queue = {}
           /\ job'.plan = job.plan /\ job'.verdict = job.verdict
           /\ \/ job'.stage \in {"work", "verify"} /\ job'.at \in {"begin", "prepare"}
              \/ job'.stage = "work" /\ job'.group = job.group /\ job'.at \in {"done", "handler"}
  <1>. DEFINE bad == {t \in job.group : call[t].result # "ok"}
              one == First(bad)
  <1>0. /\ flow' = flow /\ call' = call /\ handoffs' = handoffs /\ turn' = turn
        /\ job.stage = "work" /\ job.at = "save" /\ job.queue = {}
    BY DEF EndGroup, At, rows
  <1>1. CASE bad = {}
    <2>1. job' = Schedule(job.left)
      BY <1>1 DEF EndGroup
    <2>. QED BY <1>0, <2>1, ScheduleGoes
  <1>2. CASE bad # {}
    <2>1. \/ job' = [job EXCEPT !.at = "done"]
          \/ job' = [job EXCEPT !.at = "handler", !.cause = "worker"]
      BY <1>2 DEF EndGroup, Stopped, Raise
    <2>. QED BY <1>0, <2>1 DEF TypeInv, JobInv, JobOK, JobType
  <1>. QED BY <1>1, <1>2

LEMMA VerifyGoes ==
    ASSUME TypeInv, FinishVerify
    PROVE  /\ flow' = flow /\ call' = call /\ handoffs' = handoffs /\ turn' = turn
           /\ job.stage = "verify" /\ job'.plan = job.plan
           /\ \/ /\ job'.stage = "review" /\ job'.at = "create" /\ ReviewPolicy # "never"
                 /\ job'.verdict # "fail" => Verified
              \/ /\ job'.stage = "final" /\ job'.at = "begin" /\ ReviewPolicy # "always"
                 /\ Verified
              \/ /\ job'.stage = "verify" /\ job'.at \in {"done", "handler"}
                 /\ job'.verdict = job.verdict
                 /\ job'.cause # "worker" \/ job'.at = "done"
  <1>. DEFINE verdict == IF Verified THEN "pass" ELSE "fail"
              review == \/ ReviewPolicy = "always"
                        \/ ReviewPolicy = "on_verification_failure" /\ verdict = "fail"
  <1>0. /\ flow' = flow /\ call' = call /\ handoffs' = handoffs /\ turn' = turn
        /\ job.stage = "verify"
    BY DEF FinishVerify, At, idle
  <1>1. CASE ~Running
    BY <1>0, <1>1 DEF FinishVerify, Stopped, TypeInv, JobInv, JobOK, JobType
  <1>2. CASE Running /\ verdict = "fail" /\ ~review
    <2>1. job' = [job EXCEPT !.at = "handler", !.cause = "verify"]
      BY <1>2 DEF FinishVerify, Raise
    <2>. QED BY <1>0, <2>1 DEF TypeInv, JobInv, JobOK, JobType
  <1>3. CASE Running /\ ~(verdict = "fail" /\ ~review)
    <2>1. job' = [Go(IF review THEN "review" ELSE "final") EXCEPT !.verdict = verdict]
      BY <1>3 DEF FinishVerify
    <2>2. CASE review
      <3>1. job'.stage = "review" /\ job'.at = "create" /\ job'.verdict = verdict
                /\ job'.plan = job.plan
        BY <2>1, <2>2 DEF Go, TypeInv, JobInv, JobOK, JobType
      <3>. QED BY <1>0, <2>2, <3>1
    <2>3. CASE ~review
      <3>1. job'.stage = "final" /\ job'.at = "begin" /\ job'.plan = job.plan
        BY <2>1, <2>3 DEF Go, TypeInv, JobInv, JobOK, JobType
      <3>. QED BY <1>0, <1>3, <2>3, <3>1
    <2>. QED BY <2>2, <2>3
  <1>. QED BY <1>1, <1>2, <1>3

LEMMA ReviewerGoes ==
    ASSUME TypeInv, FinishReviewer
    PROVE  /\ flow' = flow /\ call' = call /\ handoffs' = handoffs /\ turn' = turn
           /\ job.stage = "review" /\ job.at = "tasks" /\ job'.plan = job.plan
           /\ \/ job'.stage = "review" /\ job'.at = "handler" /\ job'.cause = "verify"
                 /\ job'.verdict = job.verdict
              \/ job'.stage = "plan" /\ job'.at = "begin"
              \/ job'.stage = "final" /\ job'.at = "begin" /\ job.verdict # "fail"
  <1>0. /\ flow' = flow /\ call' = call /\ handoffs' = handoffs /\ turn' = turn
        /\ job.stage = "review" /\ job.at = "tasks"
    BY DEF FinishReviewer, At
  <1>1. CASE job.verdict = "fail"
    <2>1. job' = [job EXCEPT !.at = "handler", !.cause = "verify"]
      BY <1>1 DEF FinishReviewer, Raise
    <2>. QED BY <1>0, <2>1 DEF TypeInv, JobInv, JobOK, JobType
  <1>2. CASE job.verdict # "fail" /\ job.step = "refine"
    <2>1. job' = [Go("plan") EXCEPT !.round = @ + 1, !.repaired = FALSE]
      BY <1>2 DEF FinishReviewer
    <2>. QED BY <1>0, <2>1 DEF Go, TypeInv, JobInv, JobOK, JobType
  <1>3. CASE job.verdict # "fail" /\ job.step # "refine"
    <2>1. job' = Go("final")
      BY <1>3 DEF FinishReviewer
    <2>. QED BY <1>0, <1>3, <2>1 DEF Go, TypeInv, JobInv, JobOK, JobType
  <1>. QED BY <1>1, <1>2, <1>3

-----------------------------------------------------------------------------
(* The calls of one group, and the job that was cancelled *)
\* A cancelled job has no call under way, and begins none.
CancelledInv ==
    job.cause = "cancelled" => /\ job.at \in {"handler", "done", "gone"}
                               /\ \A c \in Callers : call[c].at \notin UnderWay
WorkInv ==
    /\ IsFiniteSet(job.group) /\ Cardinality(job.group) <= Parallel
    /\ CancelledInv

\* What a step leaves of the job's group and of the cause of its end.
GroupKept == job'.group = job.group
CauseKept == job.cause = "cancelled" => job'.cause = "cancelled"
CauseNew == job'.cause = job.cause \/ job'.cause # "cancelled"

\* A group has at most Parallel tasks: they are no more than the places up to the last
\* place that belongs to it.
LEMMA NextGroupSmall ==
    ASSUME JobInv, NEW left
    PROVE  IsFiniteSet(NextGroup(left)) /\ Cardinality(NextGroup(left)) <= Parallel
  <1>. DEFINE order == job.plan.order
              ready == {i \in DOMAIN order : /\ order[i] \in left
                                            /\ job.plan.needs[order[i]] \cap left = {}}
              S == {n \in ready : Cardinality(ready \cap 1..n) <= Parallel}
              len == Len(order)
              left_over == {len - i : i \in S}
  <1>1. len \in Nat /\ DOMAIN order = 1..len
    <2>1. order \in Seq(Tasks)
      <3>1. \A p \in Plans : p.order \in Seq(Tasks)
        OBVIOUS
      <3>2. NoPlan.order \in Seq(Tasks)
        BY DEF NoPlan
      <3>. QED BY <3>1, <3>2 DEF JobInv, JobOK, JobType
    <2>. QED BY <2>1
  <1>2. NextGroup(left) = {order[i] : i \in S}
    BY DEF NextGroup
  <1>3. ready \subseteq 1..len /\ S \subseteq ready
    BY <1>1
  <1>4. \A n \in S : n \in Nat /\ n <= len /\ Cardinality(ready \cap 1..n) <= Parallel
    BY <1>1, <1>3
  <1>. HIDE DEF ready, S, len, order
  <1>5. IsFiniteSet(ready)
    <2>1. IsFiniteSet(1..len)
      BY <1>1, FS_Interval
    <2>. QED BY <1>3, <2>1, FS_Subset
  <1>6. CASE S = {}
    <2>1. NextGroup(left) = {}
      BY <1>2, <1>6
    <2>. QED BY <2>1, FS_EmptySet, PlannedWorkflowAssumption
  <1>7. CASE S # {}
    <2>1. left_over \in SUBSET Nat /\ left_over # {}
      <3>1. ASSUME NEW n \in S PROVE len - n \in Nat
        <4>1. len \in Nat /\ n \in Nat /\ n <= len
          BY <1>1, <1>4
        <4>. QED BY ONLY <4>1
      <3>. QED BY <1>7, <3>1
    <2>. HIDE DEF left_over
    <2>2. PICK k \in left_over : \A l \in left_over : ~(<<l, k>> \in OpToRel(<, Nat))
      BY <2>1, WFMin, NatLessThanWellFounded
    <2>3. \A l \in left_over : ~(l < k)
      BY <2>1, <2>2, Zenon DEF OpToRel
    <2>4. PICK m \in S : k = len - m
      BY <2>2 DEF left_over
    <2>5. \A n \in S : n <= m
      <3>. SUFFICES ASSUME NEW n \in S PROVE n <= m
        OBVIOUS
      <3>1. len - n \in left_over
        BY DEF left_over
      <3>2. ~(len - n < len - m)
        BY <2>3, <2>4, <3>1
      <3>3. n \in Nat /\ m \in Nat
        BY <1>4
      <3>. QED BY <1>1, <3>2, <3>3
    <2>6. S \subseteq ready \cap 1..m
      <3>1. \A n \in S : n \in ready /\ n \in Nat /\ n # 0 /\ n <= m
        BY <1>3, <1>4, <2>5
      <3>. QED BY <1>4, <3>1
    <2>7. IsFiniteSet(ready \cap 1..m)
      BY <1>5, FS_Subset
    <2>8. IsFiniteSet(S) /\ Cardinality(S) <= Parallel
      <3>1. /\ IsFiniteSet(S) /\ Cardinality(S) <= Cardinality(ready \cap 1..m)
            /\ Cardinality(S) \in Nat /\ Cardinality(ready \cap 1..m) \in Nat
        BY <2>6, <2>7, FS_Subset, FS_CardinalityType
      <3>. QED BY <1>4, <3>1
    <2>. DEFINE f == [i \in S |-> order[i]]
    <2>9. f \in Surjection(S, NextGroup(left))
      BY <1>2 DEF Surjection
    <2>10. /\ IsFiniteSet(NextGroup(left))
           /\ Cardinality(NextGroup(left)) <= Cardinality(S)
      BY <2>8, <2>9, FS_Surjection
    <2>. QED BY <2>8, <2>10, FS_CardinalityType
  <1>. QED BY <1>6, <1>7

\* The job's own stages, but those that choose a group.
LEMMA StagesKeep ==
    ASSUME TypeInv, Coordinator, ~FinishDispatch, ~EndGroup
    PROVE  GroupKept /\ CauseNew
  <1>. USE DEF GroupKept, CauseNew, TypeInv, JobInv, JobOK, JobType, Raise, Stopped, Go
  <1>1. CASE BeginStage \/ StageCalled
    BY <1>1 DEF BeginStage, StageCalled, StartNode
  <1>2. CASE FinishPlan \/ FinishCheck \/ CreateTasks
    BY <1>2 DEF FinishPlan, Finish, FinishCheck, CreateTasks
  <1>3. CASE StartTask \/ StartWork \/ StartTurn \/ GroupCalled \/ FinishTurn
    BY <1>3 DEF StartTask, StartWork, StartNode, StartTurn, GroupCalled, FinishTurn, ThenStep
  <1>4. CASE FinishWork \/ StartHandoff \/ SaveHandoff \/ FinishHandoff \/ FinishTask
    BY <1>4 DEF FinishWork, StartHandoff, StartNode, SaveHandoff, FinishHandoff, FinishTask,
           ThenStep
  <1>5. CASE FinishVerify \/ CreateReviewer \/ StartReview \/ FinishReviewTurn
    BY <1>5 DEF FinishVerify, CreateReviewer, StartReview, FinishReviewTurn
  <1>6. CASE FinishReview \/ FinishReviewer \/ FinishFinal \/ Complete
    BY <1>6 DEF FinishReview, FinishReviewer, FinishFinal, Complete
  <1>7. CASE StopOne \/ Stop("job")
    BY <1>7 DEF StopOne, Stop, StopRead, StopNode, StopChildren, StopEnd, Handled
  <1>. QED BY <1>1, <1>2, <1>3, <1>4, <1>5, <1>6, <1>7 DEF Coordinator

\* What the others do to the job.
LEMMA OthersKeep ==
    ASSUME TypeInv,
           \/ \E c \in Callers : Call(c)
           \/ Client \/ Rescue \/ LoseLease \/ Superseded \/ UNCHANGED vars
    PROVE  GroupKept /\ CauseNew
  <1>. USE DEF GroupKept, CauseNew, TypeInv, JobInv, JobOK, JobType
  <1>1. CASE \E c \in Callers : Call(c)
    BY <1>1 DEF Call, Reserve, Refuse, Send, Charge, ProviderFails, Settle
  <1>2. ASSUME NEW a \in {"client", "recovery"}, Stop(a) PROVE GroupKept /\ CauseNew
    BY <1>2 DEF Stop, StopRead, StopNode, StopChildren, StopEnd, Handled
  <1>3. CASE Client \/ Rescue
    BY <1>2, <1>3 DEF Client, CancelWorkflow, CancelRun, CancelTask, RetryTask, Rescue, Recover
  <1>4. CASE LoseLease \/ Superseded \/ UNCHANGED vars
    BY <1>4 DEF LoseLease, Superseded, vars
  <1>. QED BY <1>1, <1>2, <1>3, <1>4

\* A cancelled job only ends its workflow: its stages and calls are over.
LEMMA CancelledEnds ==
    ASSUME TypeInv, WorkInv, job.cause = "cancelled", [Next]_vars
    PROVE  job'.cause = "cancelled" /\ job'.at \in {"handler", "done", "gone"} /\ call' = call
  <1>. USE DEF TypeInv, JobInv, JobOK, JobType, WorkInv, CancelledInv
  <1>1. ASSUME NEW a \in Actors, Stop(a)
        PROVE  job'.cause = "cancelled" /\ job'.at \in {"handler", "done", "gone"}
               /\ call' = call
    BY <1>1 DEF Stop, StopRead, StopNode, StopChildren, StopEnd, Handled
  <1>2. ~ \E c \in Callers : Call(c)
    BY DEF Call, Reserve, Refuse, Send, Charge, ProviderFails, Settle, UnderWay
  <1>3. CASE Client \/ Rescue
    BY <1>1, <1>3 DEF Client, CancelWorkflow, CancelRun, CancelTask, RetryTask, Rescue, Recover,
           Actors
  <1>4. CASE Fault \/ UNCHANGED vars
    BY <1>4 DEF Fault, CancelJob, Working, LoseLease, Superseded, vars
  <1>5. ~(\/ BeginStage \/ StageCalled \/ FinishPlan \/ FinishCheck \/ CreateTasks
          \/ FinishDispatch \/ StartTask \/ StartWork \/ StartTurn \/ GroupCalled
          \/ FinishTurn \/ FinishWork \/ StartHandoff \/ SaveHandoff \/ FinishHandoff)
    BY DEF BeginStage, StageCalled, FinishPlan, Finish, FinishCheck, CreateTasks,
       FinishDispatch, StartTask, StartWork, StartTurn, GroupCalled, FinishTurn, FinishWork,
       StartHandoff, SaveHandoff, FinishHandoff, Step, At
  <1>6. ~(\/ FinishTask \/ EndGroup \/ FinishVerify \/ CreateReviewer \/ StartReview
          \/ FinishReviewTurn \/ FinishReview \/ FinishReviewer \/ FinishFinal \/ Complete)
    BY DEF FinishTask, EndGroup, FinishVerify, CreateReviewer, StartReview, FinishReviewTurn,
       FinishReview, FinishReviewer, FinishFinal, Complete, Step, At
  <1>7. CASE StopOne
    BY <1>7 DEF StopOne
  <1>. QED BY <1>1, <1>2, <1>3, <1>4, <1>5, <1>6, <1>7 DEF Next, Coordinator, Actors

LEMMA StepWork == TypeInv /\ PlaceInv /\ WorkInv /\ [Next]_vars => WorkInv' /\ CauseKept
  <1>. SUFFICES ASSUME TypeInv, PlaceInv, WorkInv, [Next]_vars PROVE WorkInv' /\ CauseKept
    OBVIOUS
  <1>1. CauseKept
    BY CancelledEnds DEF CauseKept
  <1>2. CASE CancelJob
    <2>1. \A c \in Callers : call'[c].at \notin UnderWay
      BY <1>2 DEF CancelJob, Over, UnderWay
    <2>2. job'.at = "handler" /\ job'.group = job.group
      BY <1>2 DEF CancelJob, Raise, TypeInv, JobInv, JobOK, JobType
    <2>. QED BY <1>1, <2>1, <2>2 DEF WorkInv, CancelledInv
  <1>3. CASE FinishDispatch \/ EndGroup
    <2>1. job.cause # "cancelled"
      BY <1>3 DEF WorkInv, CancelledInv, FinishDispatch, Finish, EndGroup, At
    <2>2. /\ job'.cause # "cancelled"
          /\ job'.group = job.group \/ \E left : job'.group = NextGroup(left)
      <3>. USE DEF TypeInv, JobInv, JobOK, JobType, Schedule, Go, Stopped, Raise
      <3>1. CASE FinishDispatch
        BY <2>1, <3>1 DEF FinishDispatch, Finish
      <3>2. CASE EndGroup
        BY <2>1, <3>2 DEF EndGroup
      <3>. QED BY <1>3, <3>1, <3>2
    <2>. QED BY <1>1, <2>2, NextGroupSmall DEF WorkInv, CancelledInv, TypeInv
  <1>4. CASE ~CancelJob /\ ~FinishDispatch /\ ~EndGroup
    <2>1. GroupKept /\ CauseNew
      BY <1>4, StagesKeep, OthersKeep DEF Next, Fault
    <2>2. CancelledInv'
      <3>1. CASE job'.cause = "cancelled"
        BY <2>1, <3>1, CancelledEnds DEF CauseNew, WorkInv, CancelledInv
      <3>. QED BY <3>1 DEF CancelledInv
    <2>. QED BY <1>1, <2>1, <2>2 DEF WorkInv, GroupKept
  <1>. QED BY <1>2, <1>3, <1>4

LEMMA AlwaysWork == Spec => []WorkInv
  <1>1. Init => WorkInv
    BY FS_EmptySet DEF Init, WorkInv, CancelledInv
  <1>. QED BY <1>1, StepWork, AlwaysTypes, AlwaysPlaces, PTL DEF Spec

\* So no more than Parallel calls are under way at once, after a step as before it.
LEMMA FewInFlight ==
    ASSUME PlaceInv', WorkInv', job'.at # "gone"
    PROVE  Cardinality(InFlight') <= Parallel
  <1>1. ASSUME NEW S, IsFiniteSet(S), Cardinality(S) <= Parallel, InFlight' \subseteq S
        PROVE  Cardinality(InFlight') <= Parallel
    <2>1. /\ Cardinality(InFlight') <= Cardinality(S) /\ Cardinality(InFlight') \in Nat
          /\ Cardinality(S) \in Nat
      BY <1>1, FS_Subset, FS_CardinalityType
    <2>. QED BY <1>1, <2>1, PlannedWorkflowAssumption
  <1>2. CASE job'.at = "group"
    <2>1. InFlight' \subseteq job'.group
      BY <1>2 DEF InFlight, PlaceInv, CallsBelong, UnderWay
    <2>. QED BY <1>1, <2>1 DEF WorkInv
  <1>3. CASE job'.at # "group"
    <2>1. InFlight' \subseteq {job'.stage}
      BY <1>3 DEF InFlight, PlaceInv, CallsBelong, UnderWay
    <2>2. IsFiniteSet({job'.stage}) /\ Cardinality({job'.stage}) = 1
      BY FS_Singleton
    <2>3. 1 <= Parallel
      BY PlannedWorkflowAssumption
    <2>. QED BY <1>1, <2>1, <2>2, <2>3
  <1>. QED BY <1>2, <1>3

-----------------------------------------------------------------------------
(* The accounts of the reservations *)
\* What is reserved is what open calls reserved, unless the job was cancelled, and an
\* ended workflow reserves nothing.
MoneyInv ==
    /\ Running => flow.reserved = CallCost * Cardinality(Open) \/ job.cause = "cancelled"
    /\ ~Running => flow.reserved = 0
    /\ WithinBudget

LEMMA Times ==
    ASSUME NEW k \in Nat, NEW n \in Nat
    PROVE  k * n \in Nat /\ k * (n + 1) = k * n + k
  OBVIOUS

LEMMA TimesMonotone ==
    ASSUME NEW k \in Nat, NEW m \in Nat, NEW n \in Nat, m <= n PROVE k * m <= k * n
  <1>1. PICK d \in Nat : n = m + d
    <2>1. n - m \in Nat /\ n = m + (n - m)
      OBVIOUS
    <2>. QED BY <2>1
  <1>2. k * n = k * m + k * d
    BY <1>1
  <1>3. k * m \in Nat /\ k * n \in Nat /\ k * d \in Nat
    BY Times
  <1>. QED BY <1>2, <1>3

LEMMA TimesSum ==
    ASSUME NEW k \in Nat, NEW l \in Nat, NEW n \in Nat PROVE (k + l) * n = k * n + l * n
  OBVIOUS

\* One call more or less, and what it is worth.
LEMMA OneMore ==
    ASSUME NEW S, IsFiniteSet(S), NEW c, c \notin S
    PROVE  \A k \in Nat : k * Cardinality(S \cup {c}) = k * Cardinality(S) + k
  <1>1. Cardinality(S \cup {c}) = Cardinality(S) + 1 /\ Cardinality(S) \in Nat
    BY FS_AddElement, FS_CardinalityType
  <1>. QED BY <1>1, Times

LEMMA OneLess ==
    ASSUME NEW S, IsFiniteSet(S), NEW c \in S
    PROVE  \A k \in Nat : k * Cardinality(S) = k * Cardinality(S \ {c}) + k
  <1>1. IsFiniteSet(S \ {c}) /\ c \notin S \ {c} /\ (S \ {c}) \cup {c} = S
    BY FS_RemoveElement
  <1>. QED BY <1>1, OneMore

LEMMA Worth ==
    /\ IsFiniteSet(Open) /\ IsFiniteSet(InFlight) /\ InFlight \subseteq Open
    /\ Cardinality(Open) \in Nat /\ Cardinality(InFlight) \in Nat
    /\ CallCost * Cardinality(Open) \in Nat /\ CallCost \in Nat
    /\ Exposure \in Nat
  <1>1. IsFiniteSet(Open) /\ IsFiniteSet(InFlight) /\ InFlight \subseteq Open
    BY OpenFinite DEF Open, InFlight
  <1>2. Cardinality(Open) \in Nat /\ Cardinality(InFlight) \in Nat
    BY <1>1, FS_CardinalityType
  <1>3. CallCost \in Nat /\ CallCost + Overrun \in Nat
    BY PlannedWorkflowAssumption
  <1>. QED BY <1>1, <1>2, <1>3, Times DEF Exposure

\* Fewer calls in flight may cost less.
LEMMA FewerExposed ==
    ASSUME InFlight' \subseteq InFlight
    PROVE  Exposure' <= Exposure /\ Exposure' \in Nat /\ Exposure \in Nat
  <1>1. /\ Cardinality(InFlight') <= Cardinality(InFlight)
        /\ Cardinality(InFlight') \in Nat /\ Cardinality(InFlight) \in Nat
    BY Worth, FS_Subset, FS_CardinalityType
  <1>2. CallCost + Overrun \in Nat
    BY PlannedWorkflowAssumption
  <1>. QED BY <1>1, <1>2, Times, TimesMonotone DEF Exposure

\* What the calls in flight may cost is what open calls reserved, and the overrun of
\* each of the few.
LEMMA ExposedLess ==
    ASSUME NEW c, InFlight' = InFlight \cup {c}, Open' = Open \cup {c}, c \notin Open,
           Cardinality(InFlight') <= Parallel
    PROVE  /\ Exposure' <= CallCost * Cardinality(Open') + Overrun * Parallel
           /\ Exposure' \in Nat
  <1>1. IsFiniteSet(Open') /\ InFlight' \subseteq Open'
    BY Worth, FS_AddElement
  <1>2. /\ Cardinality(InFlight') <= Cardinality(Open')
        /\ Cardinality(InFlight') \in Nat /\ Cardinality(Open') \in Nat
    BY <1>1, FS_Subset, FS_CardinalityType
  <1>3. CallCost \in Nat /\ Overrun \in Nat /\ Parallel \in Nat /\ CallCost + Overrun \in Nat
    BY PlannedWorkflowAssumption
  <1>4. Exposure' = CallCost * Cardinality(InFlight') + Overrun * Cardinality(InFlight')
    BY <1>2, <1>3, TimesSum DEF Exposure
  <1>5. CallCost * Cardinality(InFlight') <= CallCost * Cardinality(Open')
    BY <1>2, <1>3, TimesMonotone
  <1>6. Overrun * Cardinality(InFlight') <= Overrun * Parallel
    BY <1>2, <1>3, TimesMonotone
  <1>7. /\ CallCost * Cardinality(InFlight') \in Nat /\ CallCost * Cardinality(Open') \in Nat
        /\ Overrun * Cardinality(InFlight') \in Nat /\ Overrun * Parallel \in Nat
    BY <1>2, <1>3, Times
  <1>. QED BY <1>4, <1>5, <1>6, <1>7

LEMMA MoneySame ==
    ASSUME MoneyInv, CauseKept, Open' = Open, InFlight' = InFlight, run'.spent = run.spent,
           flow'.status = flow.status, flow'.reserved = flow.reserved,
           flow'.calls = flow.calls
    PROVE  MoneyInv'
  BY DEF MoneyInv, CauseKept, WithinBudget, Exposure, Running

\* Calls that begin to wait for a reservation change no account.
LEMMA MoneyReady ==
    ASSUME MoneyInv, CauseKept, \A c \in Callers : call[c].at \notin UnderWay,
           \A c \in Callers : call'[c] = call[c] \/ call'[c] = Ready,
           run'.spent = run.spent, flow'.status = flow.status,
           flow'.reserved = flow.reserved, flow'.calls = flow.calls
    PROVE  MoneyInv'
  <1>1. Open' = Open /\ InFlight' = InFlight
    BY DEF Open, InFlight, UnderWay, Ready
  <1>. QED BY <1>1, MoneySame

\* An ended workflow reserves nothing.
LEMMA MoneyEnds ==
    ASSUME MoneyInv, flow'.status # "running", flow'.reserved = 0, flow'.calls = flow.calls,
           run'.spent = run.spent, InFlight' = InFlight
    PROVE  MoneyInv'
  BY DEF MoneyInv, WithinBudget, Exposure, Running

LEMMA ReleasedOf ==
    ASSUME NEW n \in Nat, flow.reserved \in Nat
    PROVE  /\ flow.reserved = 0 => Released(n) = 0
           /\ \A m \in Nat : flow.reserved = m + n * CallCost => Released(n) = m
  <1>. DEFINE r == n * CallCost
  <1>1. r \in Nat
    BY PlannedWorkflowAssumption
  <1>. HIDE DEF r
  <1>2. Released(n) = IF flow.reserved >= r THEN flow.reserved - r ELSE 0
    BY DEF Released, r
  <1>3. \A m \in Nat : flow.reserved = m + r => Released(n) = m
    BY <1>1, <1>2
  <1>. QED BY <1>1, <1>2, <1>3 DEF r

\* The release of one open call.
LEMMA MoneyReleased ==
    ASSUME TypeInv, MoneyInv, CauseKept, NEW c \in Open, Open' = Open \ {c},
           InFlight' = InFlight, flow' = [flow EXCEPT !.reserved = Released(1)],
           run' = run
    PROVE  MoneyInv'
  <1>1. /\ flow'.status = flow.status /\ flow'.calls = flow.calls
        /\ flow'.reserved = Released(1) /\ flow.reserved \in Nat
    BY DEF TypeInv, RowsOK, FlowOK
  <1>2. WithinBudget'
    BY <1>1 DEF MoneyInv, WithinBudget, Exposure
  <1>3. CASE Running /\ job.cause # "cancelled"
    <2>1. flow.reserved = CallCost * Cardinality(Open \ {c}) + CallCost
      BY <1>3, Worth, OneLess DEF MoneyInv
    <2>2. CallCost * Cardinality(Open \ {c}) \in Nat /\ 1 * CallCost = CallCost
      <3>1. Cardinality(Open \ {c}) \in Nat
        BY Worth, FS_RemoveElement, FS_CardinalityType
      <3>. QED BY <3>1, Times, PlannedWorkflowAssumption
    <2>3. flow'.reserved = CallCost * Cardinality(Open')
      BY <1>1, <2>1, <2>2, ReleasedOf
    <2>. QED BY <1>1, <1>2, <1>3, <2>3 DEF MoneyInv, Running
  <1>4. CASE Running /\ job.cause = "cancelled"
    BY <1>1, <1>2, <1>4 DEF MoneyInv, CauseKept, Running
  <1>5. CASE ~Running
    BY <1>1, <1>2, <1>5, ReleasedOf DEF MoneyInv, Running
  <1>. QED BY <1>3, <1>4, <1>5

\* A call is over and charged: what it cost is no more than what it might have cost.
LEMMA MoneySpent ==
    ASSUME TypeInv, MoneyInv, CauseKept, NEW c \in InFlight, InFlight' = InFlight \ {c},
           Open' = Open, flow' = flow, NEW cost \in 0..(CallCost + Overrun),
           run'.spent = run.spent + cost
    PROVE  MoneyInv'
  <1>1. Exposure = Exposure' + (CallCost + Overrun)
    BY Worth, OneLess, PlannedWorkflowAssumption DEF Exposure
  <1>2. Exposure' \in Nat /\ run.spent \in Nat
    BY FewerExposed DEF TypeInv, RowsOK, RunOK
  <1>3. Overrun * Parallel \in Nat /\ CallCost + Overrun \in Nat
    BY Times, PlannedWorkflowAssumption
  <1>4. run'.spent + Exposure' <= BudgetLimit + Overrun * Parallel
    BY <1>1, <1>2, <1>3, PlannedWorkflowAssumption DEF MoneyInv, WithinBudget
  <1>. QED BY <1>4 DEF MoneyInv, CauseKept, WithinBudget, Running

LEMMA BeginStage_Money ==
    ASSUME TypeInv, PlaceInv, CauseKept, MoneyInv, BeginStage
    PROVE MoneyInv'
  <1>1. \A c \in Callers : call[c].at \notin UnderWay
    BY NoneUnderWay DEF BeginStage, At
  <1>2. \A c \in Callers : call'[c] = call[c] \/ call'[c] = Ready
    BY DEF BeginStage, TypeInv, CallOK
  <1>3. /\ flow'.status = flow.status /\ flow'.reserved = flow.reserved
        /\ flow'.calls = flow.calls /\ run' = run
    BY DEF BeginStage, StartNode, idle, TypeInv, RowsOK, FlowOK
  <1>. QED BY <1>1, <1>2, <1>3, MoneyReady

LEMMA StageCalled_Money ==
    ASSUME TypeInv, PlaceInv, CauseKept, MoneyInv, StageCalled
    PROVE MoneyInv'
  BY MoneySame DEF StageCalled, rows, Open, InFlight, TypeInv, RowsOK, FlowOK

LEMMA FinishPlan_Money ==
    ASSUME TypeInv, PlaceInv, CauseKept, MoneyInv, FinishPlan
    PROVE MoneyInv'
  BY MoneySame DEF FinishPlan, Finish, idle, Open, InFlight, TypeInv, RowsOK, FlowOK

LEMMA FinishCheck_Money ==
    ASSUME TypeInv, PlaceInv, CauseKept, MoneyInv, FinishCheck
    PROVE MoneyInv'
  BY MoneySame DEF FinishCheck, idle, Open, InFlight, TypeInv, RowsOK, FlowOK

LEMMA CreateTasks_Money ==
    ASSUME TypeInv, PlaceInv, CauseKept, MoneyInv, CreateTasks
    PROVE MoneyInv'
  BY MoneySame DEF CreateTasks, Open, InFlight, TypeInv, RowsOK, FlowOK

LEMMA FinishDispatch_Money ==
    ASSUME TypeInv, PlaceInv, CauseKept, MoneyInv, FinishDispatch
    PROVE MoneyInv'
  BY MoneySame DEF FinishDispatch, Finish, idle, Open, InFlight, TypeInv, RowsOK, FlowOK

LEMMA StartTask_Money ==
    ASSUME TypeInv, PlaceInv, CauseKept, MoneyInv, StartTask
    PROVE MoneyInv'
  BY MoneySame DEF StartTask, Open, InFlight, TypeInv, RowsOK, FlowOK

LEMMA StartWork_Money ==
    ASSUME TypeInv, PlaceInv, CauseKept, MoneyInv, StartWork
    PROVE MoneyInv'
  BY MoneySame DEF StartWork, StartNode, idle, Open, InFlight, TypeInv, RowsOK, FlowOK

LEMMA StartTurn_Money ==
    ASSUME TypeInv, PlaceInv, CauseKept, MoneyInv, StartTurn
    PROVE MoneyInv'
  <1>1. \A c \in Callers : call[c].at \notin UnderWay
    BY NoneUnderWay DEF StartTurn, Step, At
  <1>2. \A c \in Callers : call'[c] = call[c] \/ call'[c] = Ready
    BY DEF StartTurn, TypeInv, CallOK
  <1>. QED BY <1>1, <1>2, MoneyReady DEF StartTurn

LEMMA GroupCalled_Money ==
    ASSUME TypeInv, PlaceInv, CauseKept, MoneyInv, GroupCalled
    PROVE MoneyInv'
  BY MoneySame DEF GroupCalled, rows, Open, InFlight, TypeInv, RowsOK, FlowOK

LEMMA FinishTurn_Money ==
    ASSUME TypeInv, PlaceInv, CauseKept, MoneyInv, FinishTurn
    PROVE MoneyInv'
  BY MoneySame DEF FinishTurn, Open, InFlight, TypeInv, RowsOK, FlowOK

LEMMA FinishWork_Money ==
    ASSUME TypeInv, PlaceInv, CauseKept, MoneyInv, FinishWork
    PROVE MoneyInv'
  BY MoneySame DEF FinishWork, idle, Open, InFlight, TypeInv, RowsOK, FlowOK

LEMMA StartHandoff_Money ==
    ASSUME TypeInv, PlaceInv, CauseKept, MoneyInv, StartHandoff
    PROVE MoneyInv'
  BY MoneySame DEF StartHandoff, StartNode, idle, Open, InFlight, TypeInv, RowsOK, FlowOK

LEMMA SaveHandoff_Money ==
    ASSUME TypeInv, PlaceInv, CauseKept, MoneyInv, SaveHandoff
    PROVE MoneyInv'
  BY MoneySame DEF SaveHandoff, Open, InFlight, TypeInv, RowsOK, FlowOK

LEMMA FinishHandoff_Money ==
    ASSUME TypeInv, PlaceInv, CauseKept, MoneyInv, FinishHandoff
    PROVE MoneyInv'
  BY MoneySame DEF FinishHandoff, idle, Open, InFlight, TypeInv, RowsOK, FlowOK

LEMMA FinishTask_Money ==
    ASSUME TypeInv, PlaceInv, CauseKept, MoneyInv, FinishTask
    PROVE MoneyInv'
  BY MoneySame DEF FinishTask, Open, InFlight, TypeInv, RowsOK, FlowOK

LEMMA EndGroup_Money ==
    ASSUME TypeInv, PlaceInv, CauseKept, MoneyInv, EndGroup
    PROVE MoneyInv'
  BY MoneySame DEF EndGroup, rows, Open, InFlight, TypeInv, RowsOK, FlowOK

LEMMA FinishVerify_Money ==
    ASSUME TypeInv, PlaceInv, CauseKept, MoneyInv, FinishVerify
    PROVE MoneyInv'
  BY MoneySame DEF FinishVerify, idle, Open, InFlight, TypeInv, RowsOK, FlowOK

LEMMA CreateReviewer_Money ==
    ASSUME TypeInv, PlaceInv, CauseKept, MoneyInv, CreateReviewer
    PROVE MoneyInv'
  BY MoneySame DEF CreateReviewer, Open, InFlight, TypeInv, RowsOK, FlowOK

LEMMA StartReview_Money ==
    ASSUME TypeInv, PlaceInv, CauseKept, MoneyInv, StartReview
    PROVE MoneyInv'
  <1>1. \A c \in Callers : call[c].at \notin UnderWay
    BY NoneUnderWay DEF StartReview, At
  <1>2. \A c \in Callers : call'[c] = call[c] \/ call'[c] = Ready
    BY DEF StartReview, TypeInv, CallOK
  <1>. QED BY <1>1, <1>2, MoneyReady DEF StartReview

LEMMA FinishReviewTurn_Money ==
    ASSUME TypeInv, PlaceInv, CauseKept, MoneyInv, FinishReviewTurn
    PROVE MoneyInv'
  BY MoneySame DEF FinishReviewTurn, Open, InFlight, TypeInv, RowsOK, FlowOK

LEMMA FinishReview_Money ==
    ASSUME TypeInv, PlaceInv, CauseKept, MoneyInv, FinishReview
    PROVE MoneyInv'
  BY MoneySame DEF FinishReview, idle, Open, InFlight, TypeInv, RowsOK, FlowOK

LEMMA FinishReviewer_Money ==
    ASSUME TypeInv, PlaceInv, CauseKept, MoneyInv, FinishReviewer
    PROVE MoneyInv'
  BY MoneySame DEF FinishReviewer, Open, InFlight, TypeInv, RowsOK, FlowOK

LEMMA FinishFinal_Money ==
    ASSUME TypeInv, PlaceInv, CauseKept, MoneyInv, FinishFinal
    PROVE MoneyInv'
  BY MoneySame DEF FinishFinal, Open, InFlight, TypeInv, RowsOK, FlowOK

LEMMA Complete_Money ==
    ASSUME TypeInv, PlaceInv, CauseKept, MoneyInv, Complete
    PROVE MoneyInv'
  <1>1. CASE Running
    BY <1>1, MoneyEnds DEF Complete, InFlight, TypeInv, RowsOK, FlowOK, RunOK
  <1>2. CASE ~Running
    BY <1>2, MoneySame DEF Complete, Open, InFlight
  <1>. QED BY <1>1, <1>2

LEMMA StopOne_Money ==
    ASSUME TypeInv, PlaceInv, CauseKept, MoneyInv, StopOne
    PROVE MoneyInv'
  BY MoneySame DEF StopOne, Open, InFlight, TypeInv, RowsOK, FlowOK

LEMMA Reserve_Money ==
    ASSUME TypeInv, PlaceInv, WorkInv, WorkInv', PlaceInv', CauseKept, MoneyInv,
           NEW c \in Callers, Reserve(c)
    PROVE MoneyInv'
  <1>1. Open' = Open \cup {c} /\ InFlight' = InFlight \cup {c} /\ c \notin Open
    BY DEF Reserve, Open, InFlight, TypeInv, CallOK, CallType
  <1>2. /\ flow'.status = flow.status /\ flow'.calls = flow.calls + 1
        /\ flow'.reserved = flow.reserved + CallCost /\ run' = run
        /\ flow.calls \in Nat /\ flow.reserved \in Nat /\ run.spent \in Nat
    BY DEF Reserve, TypeInv, RowsOK, FlowOK, RunOK
  <1>3. Running /\ flow.reserved = CallCost * Cardinality(Open)
    BY DEF Reserve, CanReserve, MoneyInv, WorkInv, CancelledInv, UnderWay
  <1>4. CallCost * Cardinality(Open') = CallCost * Cardinality(Open) + CallCost
    BY <1>1, Worth, OneMore
  <1>5. run.spent + flow.reserved + CallCost <= BudgetLimit
    BY DEF Reserve, CanReserve
  <1>6. MaxCalls = 0 \/ flow.calls + 1 <= MaxCalls
    BY <1>2, SMTT(30) DEF Reserve, CanReserve, Affords, Kept, ReviewCalls
  <1>7. run.spent + Exposure' <= BudgetLimit + Overrun * Parallel
    <2>1. job'.at # "gone"
      BY DEF Reserve, Live, Owned
    <2>2. Cardinality(InFlight') <= Parallel
      BY <2>1, FewInFlight
    <2>3. /\ Exposure' <= CallCost * Cardinality(Open') + Overrun * Parallel
          /\ Exposure' \in Nat
      BY <1>1, <2>2, ExposedLess
    <2>4. Overrun * Parallel \in Nat
      BY Times, PlannedWorkflowAssumption
    <2>. DEFINE c0 == CallCost * Cardinality(Open)
                c1 == CallCost * Cardinality(Open')
                op == Overrun * Parallel
    <2>5. /\ c0 \in Nat /\ op \in Nat /\ c1 = c0 + CallCost /\ Exposure' <= c1 + op
          /\ run.spent + c0 + CallCost <= BudgetLimit /\ CallCost \in Nat
      BY <1>3, <1>4, <1>5, <2>3, <2>4, Worth
    <2>. HIDE DEF c0, c1, op
    <2>6. run.spent + Exposure' <= BudgetLimit + op
      BY <1>2, <2>3, <2>5, PlannedWorkflowAssumption
    <2>. QED BY <2>6 DEF op
  <1>. QED BY <1>2, <1>3, <1>4, <1>6, <1>7 DEF MoneyInv, WithinBudget, Running

LEMMA Refuse_Money ==
    ASSUME TypeInv, PlaceInv, CauseKept, MoneyInv, NEW c \in Callers, Refuse(c)
    PROVE MoneyInv'
  BY MoneySame DEF Refuse, Over, rows, Open, InFlight, TypeInv, CallOK, CallType

LEMMA Send_Money ==
    ASSUME TypeInv, PlaceInv, CauseKept, MoneyInv, NEW c \in Callers, Send(c)
    PROVE MoneyInv'
  BY MoneySame DEF Send, rows, Open, InFlight, TypeInv, CallOK, CallType

LEMMA Charge_Money ==
    ASSUME TypeInv, PlaceInv, CauseKept, MoneyInv, NEW c \in Callers, Charge(c)
    PROVE MoneyInv'
  <1>1. Open' = Open /\ InFlight' = InFlight \ {c} /\ c \in InFlight
    BY DEF Charge, Open, InFlight, TypeInv, CallOK, CallType
  <1>2. PICK cost \in Costs : run' = [run EXCEPT !.spent = @ + cost]
    BY DEF Charge
  <1>3. /\ cost \in 0..(CallCost + Overrun) /\ run.spent \in Nat
        /\ run'.spent = run.spent + cost
    BY <1>2, PlannedWorkflowAssumption DEF TypeInv, RowsOK, RunOK
  <1>. QED BY <1>1, <1>3, MoneySpent DEF Charge

LEMMA ProviderFails_Money ==
    ASSUME TypeInv, PlaceInv, CauseKept, MoneyInv, NEW c \in Callers, ProviderFails(c)
    PROVE MoneyInv'
  <1>1. Open' = Open /\ InFlight' = InFlight \ {c} /\ c \in InFlight
    BY DEF ProviderFails, Open, InFlight, TypeInv, CallOK, CallType
  <1>2. PICK cost \in Costs \cup {0} : run' = [run EXCEPT !.spent = @ + cost]
    BY DEF ProviderFails
  <1>3. /\ cost \in 0..(CallCost + Overrun) /\ run.spent \in Nat
        /\ run'.spent = run.spent + cost
    BY <1>2, PlannedWorkflowAssumption DEF TypeInv, RowsOK, RunOK
  <1>. QED BY <1>1, <1>3, MoneySpent DEF ProviderFails

LEMMA Settle_Money ==
    ASSUME TypeInv, PlaceInv, CauseKept, MoneyInv, NEW c \in Callers, Settle(c)
    PROVE MoneyInv'
  <1>1. Open' = Open \ {c} /\ InFlight' = InFlight /\ c \in Open
    BY DEF Settle, Outcome, Over, Open, InFlight, TypeInv, CallOK
  <1>. QED BY <1>1, MoneyReleased DEF Settle

LEMMA StopRead_Money ==
    ASSUME TypeInv, PlaceInv, CauseKept, MoneyInv, NEW a \in Actors, StopRead(a)
    PROVE MoneyInv'
  BY MoneySame DEF StopRead, rows, Open, InFlight, TypeInv, RowsOK, FlowOK

LEMMA StopNode_Money ==
    ASSUME TypeInv, PlaceInv, CauseKept, MoneyInv, NEW a \in Actors, StopNode(a)
    PROVE MoneyInv'
  BY MoneySame DEF StopNode, Open, InFlight, TypeInv, RowsOK, FlowOK

LEMMA StopChildren_Money ==
    ASSUME TypeInv, PlaceInv, CauseKept, MoneyInv, NEW a \in Actors, StopChildren(a)
    PROVE MoneyInv'
  BY MoneySame DEF StopChildren, Open, InFlight, TypeInv, RowsOK, FlowOK

LEMMA StopEnd_Money ==
    ASSUME TypeInv, PlaceInv, CauseKept, MoneyInv, NEW a \in Actors, StopEnd(a)
    PROVE MoneyInv'
  BY MoneyEnds DEF StopEnd, InFlight, TypeInv, RowsOK, FlowOK, RunOK, StopOK, StopType, EndsAs

LEMMA CancelWorkflow_Money ==
    ASSUME TypeInv, PlaceInv, CauseKept, MoneyInv, CancelWorkflow
    PROVE MoneyInv'
  BY MoneySame DEF CancelWorkflow, Open, InFlight, TypeInv, RowsOK, FlowOK

LEMMA CancelRun_Money ==
    ASSUME TypeInv, PlaceInv, CauseKept, MoneyInv, CancelRun
    PROVE MoneyInv'
  BY MoneySame DEF CancelRun, Open, InFlight, TypeInv, RowsOK, FlowOK, RunOK

LEMMA CancelTask_Money ==
    ASSUME TypeInv, PlaceInv, CauseKept, MoneyInv, NEW t \in Owners, CancelTask(t)
    PROVE MoneyInv'
  BY MoneySame DEF CancelTask, Open, InFlight, TypeInv, RowsOK, FlowOK

LEMMA RetryTask_Money ==
    ASSUME TypeInv, PlaceInv, CauseKept, MoneyInv, NEW t \in Owners, RetryTask(t)
    PROVE MoneyInv'
  BY MoneySame DEF RetryTask, Open, InFlight, TypeInv, RowsOK, FlowOK

\* What a cancelled job does not release stays reserved for nobody.
LEMMA CancelJob_Money ==
    ASSUME TypeInv, PlaceInv, CauseKept, MoneyInv, CancelJob
    PROVE MoneyInv'
  <1>1. InFlight' = {}
    BY DEF CancelJob, Over, InFlight
  <1>2. PICK n \in 0..Cardinality(Open) : flow' = [flow EXCEPT !.reserved = Released(n)]
    BY DEF CancelJob
  <1>3. /\ flow'.status = flow.status /\ flow'.calls = flow.calls
        /\ flow'.reserved = Released(n) /\ flow.reserved \in Nat
    BY <1>2 DEF TypeInv, RowsOK, FlowOK
  <1>4. ~Running => flow'.reserved = 0
    BY <1>3, Worth, FS_CardinalityType, ReleasedOf DEF MoneyInv
  <1>5. job'.cause = "cancelled"
    BY DEF CancelJob, Raise, TypeInv, JobInv, JobOK, JobType
  <1>6. run' = run /\ run.spent \in Nat /\ Exposure' <= Exposure /\ Exposure' \in Nat
        /\ Exposure \in Nat
    BY <1>1, FewerExposed DEF CancelJob, TypeInv, RowsOK, RunOK
  <1>7. run'.spent + Exposure' <= BudgetLimit + Overrun * Parallel
    BY <1>6, Times, PlannedWorkflowAssumption DEF MoneyInv, WithinBudget
  <1>. QED BY <1>3, <1>4, <1>5, <1>7 DEF MoneyInv, WithinBudget, Running

LEMMA LoseLease_Money ==
    ASSUME TypeInv, PlaceInv, CauseKept, MoneyInv, LoseLease
    PROVE MoneyInv'
  BY MoneySame DEF LoseLease, rows, Open, InFlight, TypeInv, RowsOK, FlowOK

LEMMA Superseded_Money ==
    ASSUME TypeInv, PlaceInv, CauseKept, MoneyInv, Superseded
    PROVE MoneyInv'
  BY MoneySame DEF Superseded, rows, Open, InFlight, TypeInv, RowsOK, FlowOK

LEMMA Recover_Money ==
    ASSUME TypeInv, PlaceInv, CauseKept, MoneyInv, Recover
    PROVE MoneyInv'
  BY MoneySame DEF Recover, rows, Open, InFlight, TypeInv, RowsOK, FlowOK

LEMMA StepMoney == TypeInv /\ PlaceInv /\ WorkInv /\ MoneyInv /\ [Next]_vars => MoneyInv'
  <1>. SUFFICES ASSUME TypeInv, PlaceInv, WorkInv, MoneyInv, [Next]_vars PROVE MoneyInv'
    OBVIOUS
  <1>0. CauseKept /\ WorkInv' /\ PlaceInv'
    BY StepWork, StepPlaces
  <1>1. CASE Coordinator
    BY <1>0, <1>1, BeginStage_Money, StageCalled_Money, FinishPlan_Money, FinishCheck_Money,
       CreateTasks_Money, FinishDispatch_Money, StartTask_Money, StartWork_Money,
       StartTurn_Money, GroupCalled_Money, FinishTurn_Money, FinishWork_Money,
       StartHandoff_Money, SaveHandoff_Money, FinishHandoff_Money, FinishTask_Money,
       EndGroup_Money, FinishVerify_Money, CreateReviewer_Money, StartReview_Money,
       FinishReviewTurn_Money, FinishReview_Money, FinishReviewer_Money, FinishFinal_Money,
       Complete_Money, StopOne_Money, StopRead_Money, StopNode_Money, StopChildren_Money,
       StopEnd_Money
    DEF Coordinator, Stop, Actors
  <1>2. CASE \E c \in Callers : Call(c)
    BY <1>0, <1>2, Reserve_Money, Refuse_Money, Send_Money, Charge_Money, ProviderFails_Money,
       Settle_Money DEF Call
  <1>3. CASE Client
    BY <1>0, <1>3, CancelWorkflow_Money, CancelRun_Money, CancelTask_Money, RetryTask_Money,
       StopRead_Money, StopNode_Money, StopChildren_Money, StopEnd_Money
    DEF Client, Stop, Actors
  <1>4. CASE Rescue
    BY <1>0, <1>4, Recover_Money, StopRead_Money, StopNode_Money, StopChildren_Money, StopEnd_Money
    DEF Rescue, Stop, Actors
  <1>5. CASE Fault
    BY <1>0, <1>5, CancelJob_Money, LoseLease_Money, Superseded_Money DEF Fault
  <1>6. CASE UNCHANGED vars
    BY <1>0, <1>6, MoneySame DEF vars, rows, Open, InFlight
  <1>. QED BY <1>1, <1>2, <1>3, <1>4, <1>5, <1>6 DEF Next

LEMMA InitMoney == Init => MoneyInv
  <1>. SUFFICES ASSUME Init PROVE MoneyInv
    OBVIOUS
  <1>1. Open = {} /\ InFlight = {}
    BY DEF Init, NoCall, Open, InFlight
  <1>2. \A k \in Nat : k * Cardinality({}) = 0
    BY FS_EmptySet
  <1>3. Exposure = 0 /\ CallCost * Cardinality(Open) = 0
    BY <1>1, <1>2, PlannedWorkflowAssumption DEF Exposure
  <1>4. Overrun * Parallel \in Nat
    BY Times, PlannedWorkflowAssumption
  <1>. QED BY <1>3, <1>4, PlannedWorkflowAssumption
       DEF Init, MoneyInv, WithinBudget, Running

LEMMA AlwaysMoney == Spec => []MoneyInv
  BY InitMoney, StepMoney, AlwaysTypes, AlwaysPlaces, AlwaysWork, PTL DEF Spec

\* However many workers reserve at once, and whatever answers and errors turn out to
\* cost, what is spent and may still be spent exceeds the limit of the Run by at most what
\* Parallel calls may cost beyond their estimates; the calls never exceed theirs
\* (reserve_model_call).
THEOREM NothingOverspent == Spec => []WithinBudget
  <1>1. MoneyInv => WithinBudget
    BY DEF MoneyInv
  <1>. QED BY <1>1, AlwaysMoney, PTL

\* What a running workflow has reserved is what its open calls reserved: nothing leaks
\* and nothing is released twice, but for the job that was cancelled, which then calls no
\* model any more (release_model_cost_reservation).
THEOREM ReservationsMatch == Spec => []ReservedMatches
  <1>1. TypeInv /\ WorkInv /\ MoneyInv => ReservedMatches
    BY DEF MoneyInv, ReservedMatches, WorkInv, CancelledInv, UnderWay, TypeInv, CallOK,
       CallType, CallAt
  <1>. QED BY <1>1, AlwaysTypes, AlwaysWork, AlwaysMoney, PTL

\* An ended workflow stays ended, and no step of it counts a call.
LEMMA EndIsFinal ==
    ASSUME TypeInv, ~Running, [Next]_vars
    PROVE  ~Running' /\ flow'.calls = flow.calls
  <1>. USE DEF Running
  <1>1. ASSUME NEW a \in Actors, Stop(a) PROVE ~Running' /\ flow'.calls = flow.calls
    BY <1>1 DEF Stop, StopRead, StopNode, StopChildren, StopEnd, rows, TypeInv, RowsOK,
           FlowOK, StopOK, StopType, EndsAs
  <1>2. ASSUME NEW c \in Callers, Call(c) PROVE ~Running' /\ flow'.calls = flow.calls
    BY <1>2 DEF Call, Reserve, CanReserve, Refuse, Send, Charge, ProviderFails, Settle, rows,
           TypeInv, RowsOK, FlowOK
  <1>3. CASE Client \/ Rescue \/ Fault \/ UNCHANGED vars
    <2>1. CASE Client
      BY <1>1, <2>1 DEF Client, CancelWorkflow, CancelRun, CancelTask, RetryTask, Actors
    <2>2. CASE Rescue
      BY <1>1, <2>2 DEF Rescue, Recover, rows, Actors
    <2>3. CASE Fault \/ UNCHANGED vars
      BY <2>3 DEF Fault, CancelJob, LoseLease, Superseded, vars, rows, TypeInv, RowsOK, FlowOK
    <2>. QED BY <1>3, <2>1, <2>2, <2>3
  <1>4. CASE Coordinator
    <2>1. CASE \/ BeginStage \/ StageCalled \/ FinishPlan \/ FinishCheck \/ CreateTasks
               \/ FinishDispatch \/ StartTask \/ StartWork \/ StartTurn \/ GroupCalled
      BY <2>1 DEF BeginStage, StageCalled, FinishPlan, FinishCheck, CreateTasks,
             FinishDispatch, Finish, StartTask, StartWork, StartTurn, GroupCalled, rows
    <2>2. CASE \/ FinishTurn \/ FinishWork \/ StartHandoff \/ SaveHandoff \/ FinishHandoff
               \/ FinishTask \/ EndGroup \/ FinishVerify \/ CreateReviewer \/ StartReview
      BY <2>2 DEF FinishTurn, FinishWork, StartHandoff, SaveHandoff, FinishHandoff,
             FinishTask, EndGroup, FinishVerify, CreateReviewer, StartReview, rows
    <2>3. CASE \/ FinishReviewTurn \/ FinishReview \/ FinishReviewer \/ FinishFinal \/ Complete
               \/ StopOne
      BY <2>3 DEF FinishReviewTurn, FinishReview, FinishReviewer, FinishFinal, Complete,
             StopOne
    <2>. QED BY <1>1, <1>4, <2>1, <2>2, <2>3 DEF Coordinator, Actors
  <1>. QED BY <1>2, <1>3, <1>4 DEF Next

\* No call is paid for once the workflow has ended, not even by the sessions of workers
\* whose job was superseded: an ended workflow reserves nothing and counts no call.
THEOREM NothingAfterEnd == Spec => NoCallAfterEnd
  <1>1. TypeInv /\ MoneyInv /\ MoneyInv' /\ [Next]_vars =>
           [~Running => flow'.calls = flow.calls /\ flow'.reserved = 0]_vars
    <2>. SUFFICES ASSUME TypeInv, MoneyInv', [Next]_vars, ~Running
                  PROVE  flow'.calls = flow.calls /\ flow'.reserved = 0
      OBVIOUS
    <2>. QED BY EndIsFinal DEF MoneyInv
  <1>. QED BY <1>1, AlwaysTypes, AlwaysMoney, PTL DEF Spec, NoCallAfterEnd

-----------------------------------------------------------------------------
(* The calls that are kept for the answer *)
\* From a valid plan on, calls are kept for what must still follow.
KeptInv ==
    /\ \/ job.stage \in {"dispatch", "work", "verify"}
       \/ job.stage = "check" /\ job.verdict = "valid"
       => Affords(1 + ReviewCalls)
    /\ job.stage = "review" => ReviewPolicy # "never" /\ Affords(1)
    /\ job.stage = "review" /\ job.at \in {"create", "begin", "turn"} => Affords(2)
    /\ job.stage = "final" /\ job.at = "begin" => Affords(1)
    /\ AnswerAffordable

LEMMA KeptStays ==
    ASSUME KeptInv, flow'.calls = flow.calls, job'.stage = job.stage,
           job'.verdict = job.verdict,
           job'.at = job.at \/ job'.at \notin {"create", "begin", "turn"},
           \A c \in {"review", "final"} :
              call'[c] = call[c] \/ call'[c].at # "ready" \/ call'[c].tries # 0
    PROVE  KeptInv'
  BY DEF KeptInv, AnswerAffordable, Affords, Kept, ReviewCalls

LEMMA BeginStage_Kept ==
    ASSUME TypeInv, PlaceInv, KeptInv, BeginStage
    PROVE KeptInv'
  <1>1. CASE ~Running \/ ~(flow.nodes < MaxNodes)
    <2>1. /\ job'.stage = job.stage /\ job'.verdict = job.verdict
          /\ job'.at \in {"done", "handler"} /\ call' = call /\ flow' = flow
      BY <1>1 DEF BeginStage, StartNode, Raise, Stopped, TypeInv, JobInv, JobOK, JobType
    <2>. QED BY <2>1, KeptStays
  <1>2. CASE Running /\ flow.nodes < MaxNodes
    <2>1. /\ job'.stage = job.stage /\ job'.verdict = job.verdict /\ job.at = "begin"
          /\ job'.at \in {"call", "turn", "tasks", "finish"}
          /\ job'.at = "turn" => job.stage = "review"
          /\ job'.at = "call" => job.stage \in {"plan", "final"}
          /\ call' = IF job'.at = "call" THEN [call EXCEPT ![job.stage] = Ready] ELSE call
      BY <1>2 DEF BeginStage, At, StartNode, TypeInv, JobInv, JobOK, JobType
    <2>2. flow'.calls = flow.calls
      BY <1>2 DEF BeginStage, StartNode, TypeInv, RowsOK, FlowOK
    <2>3. AnswerAffordable'
      BY <2>1, <2>2 DEF KeptInv, AnswerAffordable, Affords, Kept, TypeInv, CallOK, Callers,
             Calling
    <2>. QED BY <2>1, <2>2, <2>3 DEF KeptInv, Affords, ReviewCalls
  <1>. QED BY <1>1, <1>2

LEMMA StageCalled_Kept ==
    ASSUME TypeInv, PlaceInv, KeptInv, StageCalled
    PROVE KeptInv'
  <1>1. /\ job'.stage = job.stage /\ job'.verdict = job.verdict
        /\ job'.at \in {"finish", "done", "handler"}
    BY DEF StageCalled, Raise, Stopped, TypeInv, JobInv, JobOK, JobType
  <1>. QED BY <1>1, KeptStays DEF StageCalled, rows

LEMMA FinishPlan_Kept ==
    ASSUME TypeInv, PlaceInv, KeptInv, FinishPlan
    PROVE KeptInv'
  <1>1. flow' = flow /\ call' = call /\ job.stage = "plan"
    BY DEF FinishPlan, Finish, At
  <1>2. CASE ~Running
    <2>1. job'.stage = job.stage /\ job'.verdict = job.verdict /\ job'.at = "done"
      BY <1>2 DEF FinishPlan, Finish, Stopped, TypeInv, JobInv, JobOK, JobType
    <2>. QED BY <1>1, <2>1, KeptStays
  <1>3. CASE Running
    <2>1. PICK p \in Plans, verdict \in {"valid", "repair", "reject"} :
             /\ job' = [Go("check") EXCEPT !.plan = p, !.verdict = verdict]
             /\ verdict = "valid" => Fits(p)
      BY <1>3 DEF FinishPlan, Finish
    <2>2. job'.stage = "check" /\ job'.verdict = verdict
      BY <2>1 DEF Go, TypeInv, JobInv, JobOK, JobType
    <2>3. verdict = "valid" => Affords(1 + ReviewCalls)
      <3>1. Len(p.order) \in Nat
        BY PlannedWorkflowAssumption
      <3>. QED BY <2>1, <3>1, SMTT(30) DEF Fits, Affords, ReviewCalls, TypeInv, RowsOK, FlowOK
    <2>. QED BY <1>1, <2>2, <2>3 DEF KeptInv, AnswerAffordable, Affords
  <1>. QED BY <1>2, <1>3

LEMMA FinishCheck_Kept ==
    ASSUME TypeInv, PlaceInv, KeptInv, FinishCheck
    PROVE KeptInv'
  <1>1. flow' = flow /\ call' = call /\ job.stage = "check"
    BY DEF FinishCheck, At
  <1>2. CASE Running /\ job.verdict = "valid"
    <2>1. job'.stage = "dispatch"
      BY <1>2 DEF FinishCheck, Go, TypeInv, JobInv, JobOK, JobType
    <2>. QED BY <1>1, <1>2, <2>1 DEF KeptInv, AnswerAffordable, Affords
  <1>3. CASE Running /\ job.verdict = "repair"
    <2>1. job'.stage = "plan"
      BY <1>3 DEF FinishCheck, Go, TypeInv, JobInv, JobOK, JobType
    <2>. QED BY <1>1, <1>3, <2>1 DEF KeptInv, AnswerAffordable, Affords
  <1>4. CASE ~Running \/ job.verdict \notin {"valid", "repair"}
    <2>1. /\ job'.stage = job.stage /\ job'.verdict = job.verdict
          /\ job'.at \in {"done", "handler"}
      BY <1>4 DEF FinishCheck, Stopped, Raise, TypeInv, JobInv, JobOK, JobType
    <2>. QED BY <1>1, <2>1, KeptStays
  <1>. QED BY <1>2, <1>3, <1>4

LEMMA CreateTasks_Kept ==
    ASSUME TypeInv, PlaceInv, KeptInv, CreateTasks
    PROVE KeptInv'
  BY KeptStays DEF CreateTasks, At, Owned, TypeInv, RowsOK, FlowOK, JobInv, JobOK, JobType

LEMMA FinishDispatch_Kept ==
    ASSUME TypeInv, PlaceInv, KeptInv, FinishDispatch
    PROVE KeptInv'
  <1>1. flow' = flow /\ call' = call /\ job.stage = "dispatch"
    BY DEF FinishDispatch, Finish, At
  <1>2. CASE Running
    <2>1. job'.stage \in {"work", "verify"}
      BY <1>2, ScheduleGoes DEF FinishDispatch, Finish
    <2>. QED BY <1>1, <2>1 DEF KeptInv, AnswerAffordable, Affords
  <1>3. CASE ~Running
    <2>1. job'.stage = job.stage /\ job'.verdict = job.verdict /\ job'.at = "done"
      BY <1>3 DEF FinishDispatch, Finish, Stopped, TypeInv, JobInv, JobOK, JobType
    <2>. QED BY <1>1, <2>1, KeptStays
  <1>. QED BY <1>2, <1>3

LEMMA StartTask_Kept ==
    ASSUME TypeInv, PlaceInv, KeptInv, StartTask
    PROVE KeptInv'
  BY KeptStays DEF StartTask, At, Owned, Step, Raise, ThenStep, TypeInv, RowsOK, FlowOK,
         JobInv, JobOK, JobType

LEMMA StartWork_Kept ==
    ASSUME TypeInv, PlaceInv, KeptInv, StartWork
    PROVE KeptInv'
  BY KeptStays, ZenonT(40) DEF StartWork, At, Owned, Step, StartNode, Raise, Stopped,
         ThenStep, idle, TypeInv, RowsOK, FlowOK, JobInv, JobOK, JobType

LEMMA StartTurn_Kept ==
    ASSUME TypeInv, PlaceInv, KeptInv, StartTurn
    PROVE KeptInv'
  <1>1. /\ job'.stage = job.stage /\ job'.verdict = job.verdict
        /\ job'.at \in {"prepare", "group"}
    BY DEF StartTurn, Step, At, TypeInv, JobInv, JobOK, JobType
  <1>2. \A c \in {"review", "final"} : call'[c] = call[c]
    BY DEF StartTurn, Callers, Calling, TypeInv, CallOK, JobInv, JobOK, JobType
  <1>. QED BY <1>1, <1>2, KeptStays DEF StartTurn

LEMMA GroupCalled_Kept ==
    ASSUME TypeInv, PlaceInv, KeptInv, GroupCalled
    PROVE KeptInv'
  BY KeptStays DEF GroupCalled, At, Owned, rows, TypeInv, RowsOK, FlowOK, JobInv, JobOK,
         JobType

LEMMA FinishTurn_Kept ==
    ASSUME TypeInv, PlaceInv, KeptInv, FinishTurn
    PROVE KeptInv'
  BY KeptStays DEF FinishTurn, At, Owned, Step, ThenStep, TypeInv, RowsOK, FlowOK, JobInv,
         JobOK, JobType

LEMMA FinishWork_Kept ==
    ASSUME TypeInv, PlaceInv, KeptInv, FinishWork
    PROVE KeptInv'
  BY KeptStays DEF FinishWork, At, Owned, Step, Stopped, Done, ThenStep, idle, TypeInv,
         RowsOK, FlowOK, JobInv, JobOK, JobType

LEMMA StartHandoff_Kept ==
    ASSUME TypeInv, PlaceInv, KeptInv, StartHandoff
    PROVE KeptInv'
  BY KeptStays, ZenonT(40) DEF StartHandoff, At, Owned, Step, StartNode, Raise, Stopped,
         ThenStep, idle, TypeInv, RowsOK, FlowOK, JobInv, JobOK, JobType

LEMMA SaveHandoff_Kept ==
    ASSUME TypeInv, PlaceInv, KeptInv, SaveHandoff
    PROVE KeptInv'
  BY KeptStays DEF SaveHandoff, At, Owned, Step, ThenStep, TypeInv, RowsOK, FlowOK, JobInv,
         JobOK, JobType

LEMMA FinishHandoff_Kept ==
    ASSUME TypeInv, PlaceInv, KeptInv, FinishHandoff
    PROVE KeptInv'
  BY KeptStays DEF FinishHandoff, At, Owned, Step, Stopped, Done, ThenStep, idle, TypeInv,
         RowsOK, FlowOK, JobInv, JobOK, JobType

LEMMA FinishTask_Kept ==
    ASSUME TypeInv, PlaceInv, KeptInv, FinishTask
    PROVE KeptInv'
  BY KeptStays DEF FinishTask, At, Owned, Step, ThenStep, TypeInv, RowsOK, FlowOK, JobInv,
         JobOK, JobType

LEMMA EndGroup_Kept ==
    ASSUME TypeInv, PlaceInv, KeptInv, EndGroup
    PROVE KeptInv'
  BY EndGroupGoes, KeptStays DEF KeptInv, AnswerAffordable, Affords

LEMMA FinishVerify_Kept ==
    ASSUME TypeInv, PlaceInv, KeptInv, FinishVerify
    PROVE KeptInv'
  <1>1. flow' = flow /\ call' = call /\ job.stage = "verify"
    BY VerifyGoes
  <1>2. Affords(1 + ReviewCalls) /\ flow.calls \in Nat
    BY <1>1 DEF KeptInv, TypeInv, RowsOK, FlowOK
  <1>3. AnswerAffordable'
    BY <1>1 DEF KeptInv, AnswerAffordable, Affords
  <1>. QED BY <1>1, <1>2, <1>3, VerifyGoes DEF KeptInv, Affords, ReviewCalls

LEMMA CreateReviewer_Kept ==
    ASSUME TypeInv, PlaceInv, KeptInv, CreateReviewer
    PROVE KeptInv'
  BY DEF CreateReviewer, KeptInv, AnswerAffordable, Affords, Kept, ReviewCalls, At, Owned,
     TypeInv, RowsOK, FlowOK, JobInv, JobOK, JobType

LEMMA StartReview_Kept ==
    ASSUME TypeInv, PlaceInv, KeptInv, StartReview
    PROVE KeptInv'
  BY DEF StartReview, KeptInv, AnswerAffordable, Affords, Kept, ReviewCalls, At, Owned,
     TypeInv, RowsOK, FlowOK, JobInv, JobOK, JobType

LEMMA FinishReviewTurn_Kept ==
    ASSUME TypeInv, PlaceInv, KeptInv, FinishReviewTurn
    PROVE KeptInv'
  BY KeptStays DEF FinishReviewTurn, At, Owned, TypeInv, RowsOK, FlowOK, JobInv, JobOK,
         JobType

LEMMA FinishReview_Kept ==
    ASSUME TypeInv, PlaceInv, KeptInv, FinishReview
    PROVE KeptInv'
  BY KeptStays DEF FinishReview, At, Owned, Stopped, Done, idle, TypeInv, RowsOK, FlowOK,
         JobInv, JobOK, JobType

LEMMA FinishReviewer_Kept ==
    ASSUME TypeInv, PlaceInv, KeptInv, FinishReviewer
    PROVE KeptInv'
  BY ReviewerGoes DEF KeptInv, AnswerAffordable, Affords

LEMMA FinishFinal_Kept ==
    ASSUME TypeInv, PlaceInv, KeptInv, FinishFinal
    PROVE KeptInv'
  BY ZenonT(40) DEF FinishFinal, KeptInv, AnswerAffordable, Affords, Kept, ReviewCalls, At,
         Owned, Stopped, Done, Go, TypeInv, RowsOK, FlowOK, JobInv, JobOK, JobType

LEMMA Complete_Kept ==
    ASSUME TypeInv, PlaceInv, KeptInv, Complete
    PROVE KeptInv'
  BY KeptStays DEF Complete, At, Owned, Done, TypeInv, RowsOK, FlowOK, JobInv, JobOK, JobType

LEMMA StopOne_Kept ==
    ASSUME TypeInv, PlaceInv, KeptInv, StopOne
    PROVE KeptInv'
  BY KeptStays DEF StopOne, Owned, TypeInv, RowsOK, FlowOK, JobInv, JobOK, JobType

LEMMA Reserve_Kept ==
    ASSUME TypeInv, PlaceInv, KeptInv, NEW c \in Callers, Reserve(c)
    PROVE KeptInv'
  <1>1. /\ flow'.calls = flow.calls + 1 /\ flow.calls \in Nat /\ job' = job
        /\ call'[c].at = "reserved" /\ \A d \in Callers : d # c => call'[d] = call[d]
    BY DEF Reserve, TypeInv, RowsOK, FlowOK, CallOK, CallType
  <1>2. Affords(1 + Kept(c)) /\ call[c].at = "ready" /\ job.at # "gone"
    BY DEF Reserve, CanReserve, Live, Owned
  <1>3. \A d \in Callers : call[d].at = "ready" => d = c \/ c \in job.group
    BY <1>2 DEF PlaceInv, CallsBelong, UnderWay
  <1>4. CASE job.stage = "work" /\ c \in Tasks
    <2>1. Affords(2 + ReviewCalls)
      <3>1. Kept(c) = 1 + ReviewCalls
        BY <1>4, TasksNotCalling DEF Kept, Calling
      <3>2. 1 + (1 + ReviewCalls) = 2 + ReviewCalls
        BY DEF ReviewCalls
      <3>. QED BY <1>2, <3>1, <3>2
    <2>2. \A d \in {"review", "final"} : call'[d].at # "ready"
      <3>1. c \notin Calling /\ job.at = "group"
        BY <1>2, <1>4, TasksNotCalling DEF PlaceInv, CallsBelong, UnderWay
      <3>2. \A d \in Calling : call[d].at # "ready" /\ call'[d] = call[d]
        BY <1>1, <1>2, <3>1, TasksNotCalling DEF PlaceInv, CallsBelong, UnderWay, Callers,
               TypeInv, JobInv, JobOK, JobType
      <3>. QED BY <3>2 DEF Calling
    <2>. QED BY <1>1, <1>4, <2>1, <2>2 DEF KeptInv, AnswerAffordable, Affords, ReviewCalls
  <1>5. CASE job.stage = c /\ c \in Calling /\ job.at = "call"
    <2>1. \A d \in {"review", "final"} : call'[d].at # "ready"
      BY <1>1, <1>2, <1>5 DEF PlaceInv, CallsBelong, UnderWay, Callers, Calling
    <2>2. c = "review" => Affords(2) /\ ReviewPolicy # "never"
      BY <1>2, <1>5 DEF Kept, KeptInv
    <2>. QED BY <1>1, <1>5, <2>1, <2>2 DEF KeptInv, AnswerAffordable, Affords, Calling
  <1>. QED BY <1>2, <1>4, <1>5 DEF PlaceInv, CallsBelong, UnderWay, TypeInv, JobInv, JobOK,
         JobType

LEMMA Refuse_Kept ==
    ASSUME TypeInv, PlaceInv, KeptInv, NEW c \in Callers, Refuse(c)
    PROVE KeptInv'
  BY KeptStays DEF Refuse, Over, rows, TypeInv, RowsOK, FlowOK, CallOK, CallType, Callers,
         Calling

LEMMA Send_Kept ==
    ASSUME TypeInv, PlaceInv, KeptInv, NEW c \in Callers, Send(c)
    PROVE KeptInv'
  BY KeptStays DEF Send, rows, TypeInv, RowsOK, FlowOK, CallOK, CallType, Callers, Calling

LEMMA Charge_Kept ==
    ASSUME TypeInv, PlaceInv, KeptInv, NEW c \in Callers, Charge(c)
    PROVE KeptInv'
  BY KeptStays DEF Charge, TypeInv, RowsOK, FlowOK, CallOK, CallType, Callers, Calling

LEMMA ProviderFails_Kept ==
    ASSUME TypeInv, PlaceInv, KeptInv, NEW c \in Callers, ProviderFails(c)
    PROVE KeptInv'
  BY KeptStays DEF ProviderFails, TypeInv, RowsOK, FlowOK, CallOK, CallType, Callers, Calling

LEMMA Settle_Kept ==
    ASSUME TypeInv, PlaceInv, KeptInv, NEW c \in Callers, Settle(c)
    PROVE KeptInv'
  BY KeptStays DEF Settle, Outcome, Over, TypeInv, RowsOK, FlowOK, CallOK, CallType, Callers,
         Calling

LEMMA StopRead_Kept ==
    ASSUME TypeInv, PlaceInv, KeptInv, NEW a \in Actors, StopRead(a)
    PROVE KeptInv'
  BY KeptStays DEF StopRead, Owned, Handled, rows, TypeInv, RowsOK, FlowOK, JobInv, JobOK,
         JobType

LEMMA StopNode_Kept ==
    ASSUME TypeInv, PlaceInv, KeptInv, NEW a \in Actors, StopNode(a)
    PROVE KeptInv'
  BY KeptStays DEF StopNode, Owned, TypeInv, RowsOK, FlowOK, JobInv, JobOK, JobType

LEMMA StopChildren_Kept ==
    ASSUME TypeInv, PlaceInv, KeptInv, NEW a \in Actors, StopChildren(a)
    PROVE KeptInv'
  BY KeptStays DEF StopChildren, Owned, TypeInv, RowsOK, FlowOK, JobInv, JobOK, JobType

LEMMA StopEnd_Kept ==
    ASSUME TypeInv, PlaceInv, KeptInv, NEW a \in Actors, StopEnd(a)
    PROVE KeptInv'
  BY KeptStays DEF StopEnd, Owned, Handled, TypeInv, RowsOK, FlowOK, JobInv, JobOK, JobType

LEMMA CancelWorkflow_Kept ==
    ASSUME TypeInv, PlaceInv, KeptInv, CancelWorkflow
    PROVE KeptInv'
  BY KeptStays DEF CancelWorkflow, TypeInv, RowsOK, FlowOK, JobInv, JobOK, JobType

LEMMA CancelRun_Kept ==
    ASSUME TypeInv, PlaceInv, KeptInv, CancelRun
    PROVE KeptInv'
  BY KeptStays DEF CancelRun, TypeInv, RowsOK, FlowOK, JobInv, JobOK, JobType

LEMMA CancelTask_Kept ==
    ASSUME TypeInv, PlaceInv, KeptInv, NEW t \in Owners, CancelTask(t)
    PROVE KeptInv'
  BY KeptStays DEF CancelTask, TypeInv, RowsOK, FlowOK, JobInv, JobOK, JobType

LEMMA RetryTask_Kept ==
    ASSUME TypeInv, PlaceInv, KeptInv, NEW t \in Owners, RetryTask(t)
    PROVE KeptInv'
  BY KeptStays DEF RetryTask, TypeInv, RowsOK, FlowOK, JobInv, JobOK, JobType

LEMMA CancelJob_Kept ==
    ASSUME TypeInv, PlaceInv, KeptInv, CancelJob
    PROVE KeptInv'
  <1>1. /\ job'.stage = job.stage /\ job'.verdict = job.verdict /\ job'.at = "handler"
    BY DEF CancelJob, Raise, TypeInv, JobInv, JobOK, JobType
  <1>2. \A c \in Callers : call'[c].at # "ready"
    BY DEF CancelJob, Over, TypeInv, CallOK, CallType, CallAt
  <1>3. flow'.calls = flow.calls
    BY DEF CancelJob, TypeInv, RowsOK, FlowOK
  <1>. QED BY <1>1, <1>2, <1>3, KeptStays DEF Callers, Calling

LEMMA LoseLease_Kept ==
    ASSUME TypeInv, PlaceInv, KeptInv, LoseLease
    PROVE KeptInv'
  BY KeptStays DEF LoseLease, rows, TypeInv, RowsOK, FlowOK, JobInv, JobOK, JobType

LEMMA Superseded_Kept ==
    ASSUME TypeInv, PlaceInv, KeptInv, Superseded
    PROVE KeptInv'
  BY KeptStays DEF Superseded, rows, TypeInv, RowsOK, FlowOK, JobInv, JobOK, JobType

LEMMA Recover_Kept ==
    ASSUME TypeInv, PlaceInv, KeptInv, Recover
    PROVE KeptInv'
  BY KeptStays DEF Recover, rows, TypeInv, RowsOK, FlowOK, JobInv, JobOK, JobType

LEMMA StepKept == TypeInv /\ PlaceInv /\ KeptInv /\ [Next]_vars => KeptInv'
  <1>. SUFFICES ASSUME TypeInv /\ PlaceInv /\ KeptInv, [Next]_vars PROVE KeptInv'
    OBVIOUS
  <1>1. CASE Coordinator
    BY <1>1, BeginStage_Kept, StageCalled_Kept, FinishPlan_Kept, FinishCheck_Kept,
       CreateTasks_Kept, FinishDispatch_Kept, StartTask_Kept, StartWork_Kept, StartTurn_Kept,
       GroupCalled_Kept, FinishTurn_Kept, FinishWork_Kept, StartHandoff_Kept,
       SaveHandoff_Kept, FinishHandoff_Kept, FinishTask_Kept, EndGroup_Kept,
       FinishVerify_Kept, CreateReviewer_Kept, StartReview_Kept, FinishReviewTurn_Kept,
       FinishReview_Kept, FinishReviewer_Kept, FinishFinal_Kept, Complete_Kept, StopOne_Kept,
       StopRead_Kept, StopNode_Kept, StopChildren_Kept, StopEnd_Kept
    DEF Coordinator, Stop, Actors
  <1>2. CASE \E c \in Callers : Call(c)
    BY <1>2, Reserve_Kept, Refuse_Kept, Send_Kept, Charge_Kept, ProviderFails_Kept,
       Settle_Kept DEF Call
  <1>3. CASE Client
    BY <1>3, CancelWorkflow_Kept, CancelRun_Kept, CancelTask_Kept, RetryTask_Kept,
       StopRead_Kept, StopNode_Kept, StopChildren_Kept, StopEnd_Kept
    DEF Client, Stop, Actors
  <1>4. CASE Rescue
    BY <1>4, Recover_Kept, StopRead_Kept, StopNode_Kept, StopChildren_Kept, StopEnd_Kept
    DEF Rescue, Stop, Actors
  <1>5. CASE Fault
    BY <1>5, CancelJob_Kept, LoseLease_Kept, Superseded_Kept DEF Fault
  <1>6. CASE UNCHANGED vars
    BY <1>6 DEF vars, rows, KeptInv, AnswerAffordable, Affords
  <1>. QED BY <1>1, <1>2, <1>3, <1>4, <1>5, <1>6 DEF Next

LEMMA AlwaysKept == Spec => []KeptInv
  <1>1. Init => KeptInv
    BY FS_EmptySet, PlannedWorkflowAssumption DEF Init, NoCall, Callers, Calling, KeptInv,
           AnswerAffordable
  <1>. QED BY <1>1, StepKept, AlwaysTypes, AlwaysPlaces, PTL DEF Spec

\* A review and the answer never lack a call because plans, repairs and workers used it
\* up (_reserved_downstream_calls).
THEOREM AnswerIsPaidFor == Spec => []AnswerAffordable
  <1>1. KeptInv => AnswerAffordable
    BY DEF KeptInv
  <1>. QED BY <1>1, AlwaysKept, PTL

-----------------------------------------------------------------------------
(* The results of a group *)
\* While a group is saved, a good result waits for its turn or has its handoff.
SavedInv ==
    /\ job.at = "save" =>
          \A t \in job.group : call[t].result = "ok" => t \in job.queue \cup handoffs
    /\ job.at = "save" /\ job.queue # {} /\ job.step \in {"submitted", "task"} =>
          Worker \in handoffs
    /\ SiblingsKept

\* A step that leaves the group as it is, and one that does not save a group.
LEMMA SavedSame ==
    ASSUME SavedInv, job' = job, call' = call, handoffs' = handoffs PROVE SavedInv'
  BY DEF SavedInv, SiblingsKept, Worker, First

LEMMA SavedAway ==
    ASSUME job'.at # "save", job'.at = "handler" => job'.cause # "worker" PROVE SavedInv'
  BY DEF SavedInv, SiblingsKept

\* No call is under way while a group is saved or its failure handled.
LEMMA SavedCalls ==
    ASSUME PlaceInv, NEW c \in Callers, call[c].at \in UnderWay, job.at # "gone", job' = job
    PROVE  SavedInv'
  BY SavedAway DEF PlaceInv, CallsBelong

LEMMA SavedHandled ==
    ASSUME TypeInv, SavedInv, NEW a, Handled(a), call' = call, handoffs' = handoffs
    PROVE  SavedInv'
  <1>1. CASE job' = job
    BY <1>1, SavedSame
  <1>2. CASE job' = [job EXCEPT !.at = "done"]
    BY <1>2, SavedAway DEF TypeInv, JobInv, JobOK, JobType
  <1>. QED BY <1>1, <1>2 DEF Handled

LEMMA BeginStage_Saved ==
    ASSUME TypeInv, PlaceInv, SavedInv, BeginStage
    PROVE SavedInv'
  BY SavedAway, ZenonT(40) DEF BeginStage, At, Owned, StartNode, Raise, Stopped, idle,
         TypeInv, RowsOK, FlowOK, JobInv, JobOK, JobType

LEMMA StageCalled_Saved ==
    ASSUME TypeInv, PlaceInv, SavedInv, StageCalled
    PROVE SavedInv'
  BY SavedAway DEF StageCalled, At, Owned, Raise, Stopped, rows, TypeInv, RowsOK, FlowOK,
         JobInv, JobOK, JobType

LEMMA FinishPlan_Saved ==
    ASSUME TypeInv, PlaceInv, SavedInv, FinishPlan
    PROVE SavedInv'
  <1>1. job'.at \in {"begin", "done"}
    BY DEF FinishPlan, Finish, Go, Stopped, TypeInv, JobInv, JobOK, JobType
  <1>. QED BY <1>1, SavedAway

LEMMA FinishCheck_Saved ==
    ASSUME TypeInv, PlaceInv, SavedInv, FinishCheck
    PROVE SavedInv'
  <1>1. \/ job'.at \in {"begin", "done"}
        \/ job'.at = "handler" /\ job'.cause = "plan"
    <2>1. \/ job' = Go("dispatch")
          \/ job' = [Go("plan") EXCEPT !.repaired = TRUE]
          \/ job' = [job EXCEPT !.at = "done"]
          \/ job' = [job EXCEPT !.at = "handler", !.cause = "plan"]
      BY DEF FinishCheck, Stopped, Raise
    <2>2. CASE job' = Go("dispatch") \/ job' = [Go("plan") EXCEPT !.repaired = TRUE]
      BY <2>2 DEF Go, TypeInv, JobInv, JobOK, JobType
    <2>3. CASE job' = [job EXCEPT !.at = "done"]
      BY <2>3 DEF TypeInv, JobInv, JobOK, JobType
    <2>4. CASE job' = [job EXCEPT !.at = "handler", !.cause = "plan"]
      BY <2>4 DEF TypeInv, JobInv, JobOK, JobType
    <2>. QED BY <2>1, <2>2, <2>3, <2>4
  <1>. QED BY <1>1, SavedAway

LEMMA CreateTasks_Saved ==
    ASSUME TypeInv, PlaceInv, SavedInv, CreateTasks
    PROVE SavedInv'
  BY SavedAway DEF CreateTasks, At, Owned, TypeInv, RowsOK, FlowOK, JobInv, JobOK, JobType

LEMMA FinishDispatch_Saved ==
    ASSUME TypeInv, PlaceInv, SavedInv, FinishDispatch
    PROVE SavedInv'
  <1>1. job'.at \in {"begin", "prepare", "done"}
    BY ScheduleGoes DEF FinishDispatch, Finish, Stopped, TypeInv, JobInv, JobOK, JobType
  <1>. QED BY <1>1, SavedAway

LEMMA StartTask_Saved ==
    ASSUME TypeInv, PlaceInv, SavedInv, StartTask
    PROVE SavedInv'
  BY SavedAway DEF StartTask, At, Owned, Step, Raise, ThenStep, TypeInv, RowsOK, FlowOK,
         JobInv, JobOK, JobType

LEMMA StartWork_Saved ==
    ASSUME TypeInv, PlaceInv, SavedInv, StartWork
    PROVE SavedInv'
  BY SavedAway DEF StartWork, At, Owned, Step, StartNode, Raise, Stopped, ThenStep, idle,
         TypeInv, RowsOK, FlowOK, JobInv, JobOK, JobType

LEMMA StartTurn_Saved ==
    ASSUME TypeInv, PlaceInv, SavedInv, StartTurn
    PROVE SavedInv'
  BY SavedAway DEF StartTurn, At, Owned, Step, TypeInv, RowsOK, FlowOK, JobInv, JobOK, JobType

LEMMA GroupCalled_Saved ==
    ASSUME TypeInv, PlaceInv, SavedInv, GroupCalled
    PROVE SavedInv'
  <1>1. /\ call' = call /\ handoffs' = handoffs /\ job'.group = job.group
        /\ job'.queue = {t \in job.group : call[t].result = "ok"}
        /\ job'.at = "save" /\ job'.step = "turn"
    BY DEF GroupCalled, At, rows, TypeInv, JobInv, JobOK, JobType
  <1>. QED BY <1>1 DEF SavedInv, SiblingsKept

LEMMA FinishTurn_Saved ==
    ASSUME TypeInv, PlaceInv, SavedInv, FinishTurn
    PROVE SavedInv'
  <1>1. call' = call /\ handoffs' = handoffs /\ job.at = "save"
    BY DEF FinishTurn, Step, At
  <1>2. \/ /\ job'.at = "save" /\ job'.step = "node"
           /\ job'.group = job.group /\ job'.queue = job.queue
        \/ job'.at = "done"
        \/ job'.at = "handler" /\ job'.cause = "limit"
    <2>1. \/ job' = ThenStep("node")
          \/ job' = [job EXCEPT !.at = "done"]
          \/ job' = [job EXCEPT !.at = "handler", !.cause = "limit"]
      BY DEF FinishTurn
    <2>2. CASE job' = ThenStep("node")
      BY <1>1, <2>2 DEF ThenStep, TypeInv, JobInv, JobOK, JobType
    <2>3. CASE job' = [job EXCEPT !.at = "done"]
      BY <2>3 DEF TypeInv, JobInv, JobOK, JobType
    <2>4. CASE job' = [job EXCEPT !.at = "handler", !.cause = "limit"]
      BY <2>4 DEF TypeInv, JobInv, JobOK, JobType
    <2>. QED BY <2>1, <2>2, <2>3, <2>4
  <1>. QED BY <1>1, <1>2 DEF SavedInv, SiblingsKept

LEMMA FinishWork_Saved ==
    ASSUME TypeInv, PlaceInv, SavedInv, FinishWork
    PROVE SavedInv'
  <1>1. call' = call /\ handoffs' = handoffs /\ job.at = "save"
    BY DEF FinishWork, Step, At, idle
  <1>2. \/ /\ job'.at = "save" /\ job'.step = "submit"
           /\ job'.group = job.group /\ job'.queue = job.queue
        \/ job'.at = "done"
        \/ job'.at = "handler" /\ job'.cause = "limit"
    <2>1. \/ job' = ThenStep("submit")
          \/ job' = [job EXCEPT !.at = "done"]
          \/ job' = [job EXCEPT !.at = "handler", !.cause = "limit"]
      BY DEF FinishWork, Stopped
    <2>2. CASE job' = ThenStep("submit")
      BY <1>1, <2>2 DEF ThenStep, TypeInv, JobInv, JobOK, JobType
    <2>3. CASE job' = [job EXCEPT !.at = "done"]
      BY <2>3 DEF TypeInv, JobInv, JobOK, JobType
    <2>4. CASE job' = [job EXCEPT !.at = "handler", !.cause = "limit"]
      BY <2>4 DEF TypeInv, JobInv, JobOK, JobType
    <2>. QED BY <2>1, <2>2, <2>3, <2>4
  <1>. QED BY <1>1, <1>2 DEF SavedInv, SiblingsKept

LEMMA StartHandoff_Saved ==
    ASSUME TypeInv, PlaceInv, SavedInv, StartHandoff
    PROVE SavedInv'
  <1>1. call' = call /\ handoffs' = handoffs /\ job.at = "save"
    BY DEF StartHandoff, Step, At, idle
  <1>2. \/ /\ job'.at = "save" /\ job'.step = "handoff"
           /\ job'.group = job.group /\ job'.queue = job.queue
        \/ job'.at = "done"
        \/ job'.at = "handler" /\ job'.cause = "limit"
    <2>1. \/ job' = ThenStep("handoff")
          \/ job' = [job EXCEPT !.at = "done"]
          \/ job' = [job EXCEPT !.at = "handler", !.cause = "limit"]
      BY DEF StartHandoff, StartNode, Raise, Stopped
    <2>2. CASE job' = ThenStep("handoff")
      BY <1>1, <2>2 DEF ThenStep, TypeInv, JobInv, JobOK, JobType
    <2>3. CASE job' = [job EXCEPT !.at = "done"]
      BY <2>3 DEF TypeInv, JobInv, JobOK, JobType
    <2>4. CASE job' = [job EXCEPT !.at = "handler", !.cause = "limit"]
      BY <2>4 DEF TypeInv, JobInv, JobOK, JobType
    <2>. QED BY <2>1, <2>2, <2>3, <2>4
  <1>. QED BY <1>1, <1>2 DEF SavedInv, SiblingsKept

LEMMA SaveHandoff_Saved ==
    ASSUME TypeInv, PlaceInv, SavedInv, SaveHandoff
    PROVE SavedInv'
  <1>1. /\ call' = call /\ handoffs' = handoffs \cup {Worker}
        /\ job.at = "save" /\ job'.at = "save"
        /\ job'.group = job.group /\ job'.queue = job.queue /\ job'.plan = job.plan
    BY DEF SaveHandoff, Step, At, ThenStep, TypeInv, JobInv, JobOK, JobType
  <1>2. Worker' = Worker
    BY <1>1 DEF Worker, First
  <1>. QED BY <1>1, <1>2 DEF SavedInv, SiblingsKept

LEMMA FinishHandoff_Saved ==
    ASSUME TypeInv, PlaceInv, SavedInv, FinishHandoff
    PROVE SavedInv'
  <1>1. call' = call /\ handoffs' = handoffs /\ job.at = "save" /\ job.queue # {}
        /\ job.step = "submitted"
    BY DEF FinishHandoff, Step, At, idle
  <1>2. CASE Running
    <2>1. /\ job'.at = "save" /\ job'.group = job.group /\ job'.queue = job.queue
          /\ job'.plan = job.plan
      BY <1>1, <1>2 DEF FinishHandoff, ThenStep, TypeInv, JobInv, JobOK, JobType
    <2>2. Worker' = Worker
      BY <2>1 DEF Worker, First
    <2>. QED BY <1>1, <2>1, <2>2 DEF SavedInv, SiblingsKept
  <1>3. CASE ~Running
    <2>1. job'.at = "done"
      BY <1>3 DEF FinishHandoff, Stopped, TypeInv, JobInv, JobOK, JobType
    <2>. QED BY <2>1, SavedAway
  <1>. QED BY <1>2, <1>3

LEMMA FinishTask_Saved ==
    ASSUME TypeInv, PlaceInv, SavedInv, FinishTask
    PROVE SavedInv'
  <1>1. /\ call' = call /\ handoffs' = handoffs /\ job.at = "save" /\ job.queue # {}
        /\ job.step = "task"
        /\ job'.at = "save" /\ job'.step = "turn" /\ job'.group = job.group
        /\ job'.queue = job.queue \ {Worker}
    BY DEF FinishTask, Step, At, ThenStep, TypeInv, JobInv, JobOK, JobType
  <1>2. Worker \in handoffs
    BY <1>1 DEF SavedInv
  <1>. QED BY <1>1, <1>2 DEF SavedInv, SiblingsKept

LEMMA EndGroup_Saved ==
    ASSUME TypeInv, PlaceInv, SavedInv, EndGroup
    PROVE SavedInv'
  BY EndGroupGoes DEF SavedInv, SiblingsKept

LEMMA FinishVerify_Saved ==
    ASSUME TypeInv, PlaceInv, SavedInv, FinishVerify
    PROVE SavedInv'
  BY VerifyGoes, SavedAway

LEMMA CreateReviewer_Saved ==
    ASSUME TypeInv, PlaceInv, SavedInv, CreateReviewer
    PROVE SavedInv'
  BY SavedAway DEF CreateReviewer, At, Owned, TypeInv, RowsOK, FlowOK, JobInv, JobOK, JobType

LEMMA StartReview_Saved ==
    ASSUME TypeInv, PlaceInv, SavedInv, StartReview
    PROVE SavedInv'
  BY SavedAway DEF StartReview, At, Owned, TypeInv, RowsOK, FlowOK, JobInv, JobOK, JobType

LEMMA FinishReviewTurn_Saved ==
    ASSUME TypeInv, PlaceInv, SavedInv, FinishReviewTurn
    PROVE SavedInv'
  BY SavedSame DEF FinishReviewTurn

LEMMA FinishReview_Saved ==
    ASSUME TypeInv, PlaceInv, SavedInv, FinishReview
    PROVE SavedInv'
  BY SavedAway DEF FinishReview, At, Owned, Stopped, Done, idle, TypeInv, RowsOK, FlowOK,
         JobInv, JobOK, JobType

LEMMA FinishReviewer_Saved ==
    ASSUME TypeInv, PlaceInv, SavedInv, FinishReviewer
    PROVE SavedInv'
  BY ReviewerGoes, SavedAway

LEMMA FinishFinal_Saved ==
    ASSUME TypeInv, PlaceInv, SavedInv, FinishFinal
    PROVE SavedInv'
  BY SavedAway DEF FinishFinal, At, Owned, Stopped, Done, Go, TypeInv, RowsOK, FlowOK, JobInv,
         JobOK, JobType

LEMMA Complete_Saved ==
    ASSUME TypeInv, PlaceInv, SavedInv, Complete
    PROVE SavedInv'
  BY SavedAway DEF Complete, At, Owned, Done, TypeInv, RowsOK, FlowOK, JobInv, JobOK, JobType

LEMMA StopOne_Saved ==
    ASSUME TypeInv, PlaceInv, SavedInv, StopOne
    PROVE SavedInv'
  BY SavedSame DEF StopOne

LEMMA Reserve_Saved ==
    ASSUME TypeInv, PlaceInv, SavedInv, NEW c \in Callers, Reserve(c)
    PROVE SavedInv'
  BY SavedCalls DEF Reserve, Live, Owned, UnderWay

LEMMA Refuse_Saved ==
    ASSUME TypeInv, PlaceInv, SavedInv, NEW c \in Callers, Refuse(c)
    PROVE SavedInv'
  BY SavedCalls DEF Refuse, Live, Owned, rows, UnderWay

LEMMA Send_Saved ==
    ASSUME TypeInv, PlaceInv, SavedInv, NEW c \in Callers, Send(c)
    PROVE SavedInv'
  BY SavedCalls DEF Send, Live, Owned, rows, UnderWay

LEMMA Charge_Saved ==
    ASSUME TypeInv, PlaceInv, SavedInv, NEW c \in Callers, Charge(c)
    PROVE SavedInv'
  BY SavedCalls DEF Charge, Live, Owned, UnderWay

LEMMA ProviderFails_Saved ==
    ASSUME TypeInv, PlaceInv, SavedInv, NEW c \in Callers, ProviderFails(c)
    PROVE SavedInv'
  BY SavedCalls DEF ProviderFails, Live, Owned, UnderWay

LEMMA Settle_Saved ==
    ASSUME TypeInv, PlaceInv, SavedInv, NEW c \in Callers, Settle(c)
    PROVE SavedInv'
  BY SavedCalls DEF Settle, Live, Owned, UnderWay

LEMMA StopRead_Saved ==
    ASSUME TypeInv, PlaceInv, SavedInv, NEW a \in Actors, StopRead(a)
    PROVE SavedInv'
  BY SavedHandled, SavedSame DEF StopRead, rows

LEMMA StopNode_Saved ==
    ASSUME TypeInv, PlaceInv, SavedInv, NEW a \in Actors, StopNode(a)
    PROVE SavedInv'
  BY SavedSame DEF StopNode

LEMMA StopChildren_Saved ==
    ASSUME TypeInv, PlaceInv, SavedInv, NEW a \in Actors, StopChildren(a)
    PROVE SavedInv'
  BY SavedSame DEF StopChildren

LEMMA StopEnd_Saved ==
    ASSUME TypeInv, PlaceInv, SavedInv, NEW a \in Actors, StopEnd(a)
    PROVE SavedInv'
  BY SavedHandled DEF StopEnd

LEMMA CancelWorkflow_Saved ==
    ASSUME TypeInv, PlaceInv, SavedInv, CancelWorkflow
    PROVE SavedInv'
  BY SavedSame DEF CancelWorkflow

LEMMA CancelRun_Saved ==
    ASSUME TypeInv, PlaceInv, SavedInv, CancelRun
    PROVE SavedInv'
  BY SavedSame DEF CancelRun

LEMMA CancelTask_Saved ==
    ASSUME TypeInv, PlaceInv, SavedInv, NEW t \in Owners, CancelTask(t)
    PROVE SavedInv'
  BY SavedSame DEF CancelTask

LEMMA RetryTask_Saved ==
    ASSUME TypeInv, PlaceInv, SavedInv, NEW t \in Owners, RetryTask(t)
    PROVE SavedInv'
  BY SavedSame DEF RetryTask

LEMMA CancelJob_Saved ==
    ASSUME TypeInv, PlaceInv, SavedInv, CancelJob
    PROVE SavedInv'
  BY SavedAway DEF CancelJob, Owned, Raise, TypeInv, RowsOK, FlowOK, JobInv, JobOK, JobType

LEMMA LoseLease_Saved ==
    ASSUME TypeInv, PlaceInv, SavedInv, LoseLease
    PROVE SavedInv'
  BY SavedSame DEF LoseLease, rows

LEMMA Superseded_Saved ==
    ASSUME TypeInv, PlaceInv, SavedInv, Superseded
    PROVE SavedInv'
  BY SavedAway DEF Superseded, rows, TypeInv, RowsOK, FlowOK, JobInv, JobOK, JobType

LEMMA Recover_Saved ==
    ASSUME TypeInv, PlaceInv, SavedInv, Recover
    PROVE SavedInv'
  BY SavedSame DEF Recover, rows

LEMMA StepSaved == TypeInv /\ PlaceInv /\ SavedInv /\ [Next]_vars => SavedInv'
  <1>. SUFFICES ASSUME TypeInv /\ PlaceInv /\ SavedInv, [Next]_vars PROVE SavedInv'
    OBVIOUS
  <1>1. CASE Coordinator
    BY <1>1, BeginStage_Saved, StageCalled_Saved, FinishPlan_Saved, FinishCheck_Saved,
       CreateTasks_Saved, FinishDispatch_Saved, StartTask_Saved, StartWork_Saved,
       StartTurn_Saved, GroupCalled_Saved, FinishTurn_Saved, FinishWork_Saved,
       StartHandoff_Saved, SaveHandoff_Saved, FinishHandoff_Saved, FinishTask_Saved,
       EndGroup_Saved, FinishVerify_Saved, CreateReviewer_Saved, StartReview_Saved,
       FinishReviewTurn_Saved, FinishReview_Saved, FinishReviewer_Saved, FinishFinal_Saved,
       Complete_Saved, StopOne_Saved, StopRead_Saved, StopNode_Saved, StopChildren_Saved,
       StopEnd_Saved
    DEF Coordinator, Stop, Actors
  <1>2. CASE \E c \in Callers : Call(c)
    BY <1>2, Reserve_Saved, Refuse_Saved, Send_Saved, Charge_Saved, ProviderFails_Saved,
       Settle_Saved DEF Call
  <1>3. CASE Client
    BY <1>3, CancelWorkflow_Saved, CancelRun_Saved, CancelTask_Saved, RetryTask_Saved,
       StopRead_Saved, StopNode_Saved, StopChildren_Saved, StopEnd_Saved
    DEF Client, Stop, Actors
  <1>4. CASE Rescue
    BY <1>4, Recover_Saved, StopRead_Saved, StopNode_Saved, StopChildren_Saved, StopEnd_Saved
    DEF Rescue, Stop, Actors
  <1>5. CASE Fault
    BY <1>5, CancelJob_Saved, LoseLease_Saved, Superseded_Saved DEF Fault
  <1>6. CASE UNCHANGED vars
    BY <1>6 DEF vars, rows, SavedInv, SiblingsKept, Worker, First
  <1>. QED BY <1>1, <1>2, <1>3, <1>4, <1>5, <1>6 DEF Next

LEMMA AlwaysSaved == Spec => []SavedInv
  <1>1. Init => SavedInv
    BY FS_EmptySet, PlannedWorkflowAssumption DEF Init, SavedInv, SiblingsKept
  <1>. QED BY <1>1, StepSaved, AlwaysTypes, AlwaysPlaces, PTL DEF Spec

\* When one worker's failure ends the workflow, the results of its successful siblings
\* have their handoffs (_execute_worker_task_groups).
THEOREM GoodResultsKept == Spec => []SiblingsKept
  <1>1. SavedInv => SiblingsKept
    BY DEF SavedInv
  <1>. QED BY <1>1, AlwaysSaved, PTL

-----------------------------------------------------------------------------
(* The answer *)
\* From a passed verification on, every task of the plan has its handoff, and from the
\* answer on the review that the policy asks for is over.
WholeInv ==
    /\ \/ job.stage \in {"final", "end"}
       \/ job.stage = "review" /\ job.verdict # "fail"
       => Planned \subseteq handoffs
    /\ ReviewPolicy = "always" /\ job.stage \in {"final", "end"} =>
          turn[Reviewer] = "completed"
    /\ job.stage = "review" /\ job.at = "tasks" => turn[Reviewer] = "completed"
    /\ flow.status = "completed" => job.stage = "end"

LEMMA WholeSame ==
    ASSUME WholeInv, flow'.status = flow.status \/ flow'.status # "completed",
           job'.stage = job.stage, job'.plan = job.plan, job'.verdict = job.verdict,
           job'.at = job.at \/ job'.at # "tasks" \/ job.stage # "review",
           handoffs \subseteq handoffs',
           turn'[Reviewer] = turn[Reviewer] \/ turn'[Reviewer] = "completed"
    PROVE  WholeInv'
  BY DEF WholeInv, Planned

\* Before the verification nothing is said yet.
LEMMA WholeLater ==
    ASSUME WholeInv, job.stage # "end", flow' = flow,
           job'.stage \notin {"review", "final", "end"}
    PROVE  WholeInv'
  BY DEF WholeInv

LEMMA WholeHandled ==
    ASSUME TypeInv, NEW a, Handled(a)
    PROVE  /\ job'.stage = job.stage /\ job'.plan = job.plan /\ job'.verdict = job.verdict
           /\ job'.at = job.at \/ job'.at # "tasks"
  BY DEF Handled, TypeInv, JobInv, JobOK, JobType

LEMMA WholeChildren ==
    ASSUME TypeInv, NEW as, EndChildren(as), turn[Reviewer] = "completed"
    PROVE  turn'[Reviewer] = "completed"
  BY DEF EndChildren, TypeInv, RowsOK, TurnOK, Owners

LEMMA BeginStage_Whole ==
    ASSUME TypeInv, PlaceInv, WholeInv, BeginStage
    PROVE WholeInv'
  <1>1. /\ job'.stage = job.stage /\ job'.plan = job.plan /\ job'.verdict = job.verdict
        /\ job'.at # "tasks" \/ job.stage # "review"
    BY DEF BeginStage, StartNode, Raise, Stopped, TypeInv, JobInv, JobOK, JobType
  <1>2. flow'.status = flow.status
    BY DEF BeginStage, StartNode, TypeInv, RowsOK, FlowOK
  <1>. QED BY <1>1, <1>2, WholeSame DEF BeginStage, idle

LEMMA StageCalled_Whole ==
    ASSUME TypeInv, PlaceInv, WholeInv, StageCalled
    PROVE WholeInv'
  <1>1. /\ job'.stage = job.stage /\ job'.plan = job.plan /\ job'.verdict = job.verdict
        /\ job'.at # "tasks"
    BY ZenonT(40) DEF StageCalled, Raise, Stopped, TypeInv, JobInv, JobOK, JobType
  <1>. QED BY <1>1, WholeSame DEF StageCalled, rows

LEMMA FinishPlan_Whole ==
    ASSUME TypeInv, PlaceInv, WholeInv, FinishPlan
    PROVE WholeInv'
  <1>1. flow' = flow /\ job.stage = "plan" /\ job'.stage \in {"plan", "check"}
    BY DEF FinishPlan, Finish, At, Go, Stopped, TypeInv, JobInv, JobOK, JobType
  <1>. QED BY <1>1, WholeLater

LEMMA FinishCheck_Whole ==
    ASSUME TypeInv, PlaceInv, WholeInv, FinishCheck
    PROVE WholeInv'
  <1>1. /\ flow' = flow /\ job.stage = "check"
        /\ job'.stage \in {"check", "dispatch", "plan"}
    BY DEF FinishCheck, At, Go, Stopped, Raise, TypeInv, JobInv, JobOK, JobType
  <1>. QED BY <1>1, WholeLater

LEMMA CreateTasks_Whole ==
    ASSUME TypeInv, PlaceInv, WholeInv, CreateTasks
    PROVE WholeInv'
  BY DEF CreateTasks, WholeInv, Planned, At, Owned, TypeInv, RowsOK, FlowOK, JobInv, JobOK,
     JobType

LEMMA FinishDispatch_Whole ==
    ASSUME TypeInv, PlaceInv, WholeInv, FinishDispatch
    PROVE WholeInv'
  <1>1. /\ flow' = flow /\ job.stage = "dispatch"
        /\ job'.stage \in {"dispatch", "work", "verify"}
    BY ScheduleGoes DEF FinishDispatch, Finish, At, Stopped, TypeInv, JobInv, JobOK, JobType
  <1>. QED BY <1>1, WholeLater

LEMMA StartTask_Whole ==
    ASSUME TypeInv, PlaceInv, WholeInv, StartTask
    PROVE WholeInv'
  BY WholeSame DEF StartTask, At, Owned, Step, Raise, ThenStep, TypeInv, RowsOK, FlowOK,
         JobInv, JobOK, JobType

LEMMA StartWork_Whole ==
    ASSUME TypeInv, PlaceInv, WholeInv, StartWork
    PROVE WholeInv'
  BY WholeSame, ZenonT(40) DEF StartWork, At, Owned, Step, StartNode, Raise, Stopped,
         ThenStep, idle, TypeInv, RowsOK, FlowOK, JobInv, JobOK, JobType

LEMMA StartTurn_Whole ==
    ASSUME TypeInv, PlaceInv, WholeInv, StartTurn
    PROVE WholeInv'
  BY DEF StartTurn, WholeInv, Planned, At, Owned, Step, TypeInv, RowsOK, FlowOK, JobInv,
     JobOK, JobType

LEMMA GroupCalled_Whole ==
    ASSUME TypeInv, PlaceInv, WholeInv, GroupCalled
    PROVE WholeInv'
  BY WholeSame DEF GroupCalled, At, Owned, rows, TypeInv, RowsOK, FlowOK, JobInv, JobOK,
         JobType

LEMMA FinishTurn_Whole ==
    ASSUME TypeInv, PlaceInv, WholeInv, FinishTurn
    PROVE WholeInv'
  BY DEF FinishTurn, WholeInv, Planned, At, Owned, Step, ThenStep, TypeInv, RowsOK, FlowOK,
     JobInv, JobOK, JobType

LEMMA FinishWork_Whole ==
    ASSUME TypeInv, PlaceInv, WholeInv, FinishWork
    PROVE WholeInv'
  BY WholeSame DEF FinishWork, At, Owned, Step, Stopped, Done, ThenStep, idle, TypeInv,
         RowsOK, FlowOK, JobInv, JobOK, JobType

LEMMA StartHandoff_Whole ==
    ASSUME TypeInv, PlaceInv, WholeInv, StartHandoff
    PROVE WholeInv'
  BY WholeSame, ZenonT(40) DEF StartHandoff, At, Owned, Step, StartNode, Raise, Stopped,
         ThenStep, idle, TypeInv, RowsOK, FlowOK, JobInv, JobOK, JobType

LEMMA SaveHandoff_Whole ==
    ASSUME TypeInv, PlaceInv, WholeInv, SaveHandoff
    PROVE WholeInv'
  BY WholeSame DEF SaveHandoff, At, Owned, Step, ThenStep, TypeInv, RowsOK, FlowOK, JobInv,
         JobOK, JobType

LEMMA FinishHandoff_Whole ==
    ASSUME TypeInv, PlaceInv, WholeInv, FinishHandoff
    PROVE WholeInv'
  BY WholeSame DEF FinishHandoff, At, Owned, Step, Stopped, Done, ThenStep, idle, TypeInv,
         RowsOK, FlowOK, JobInv, JobOK, JobType

LEMMA FinishTask_Whole ==
    ASSUME TypeInv, PlaceInv, WholeInv, FinishTask
    PROVE WholeInv'
  BY WholeSame DEF FinishTask, At, Owned, Step, ThenStep, TypeInv, RowsOK, FlowOK, JobInv,
         JobOK, JobType

LEMMA EndGroup_Whole ==
    ASSUME TypeInv, PlaceInv, WholeInv, EndGroup
    PROVE WholeInv'
  BY EndGroupGoes, WholeLater

LEMMA FinishVerify_Whole ==
    ASSUME TypeInv, PlaceInv, WholeInv, FinishVerify
    PROVE WholeInv'
  <1>1. job.stage = "verify" /\ flow' = flow /\ handoffs' = handoffs /\ Planned' = Planned
    BY VerifyGoes DEF Planned
  <1>2. Verified => Planned \subseteq handoffs
    BY DEF Verified
  <1>. QED BY <1>1, <1>2, VerifyGoes DEF WholeInv

LEMMA CreateReviewer_Whole ==
    ASSUME TypeInv, PlaceInv, WholeInv, CreateReviewer
    PROVE WholeInv'
  BY DEF CreateReviewer, WholeInv, Planned, At, Owned, TypeInv, RowsOK, FlowOK, JobInv, JobOK,
     JobType

LEMMA StartReview_Whole ==
    ASSUME TypeInv, PlaceInv, WholeInv, StartReview
    PROVE WholeInv'
  BY DEF StartReview, WholeInv, Planned, At, Owned, TypeInv, RowsOK, FlowOK, JobInv, JobOK,
     JobType

LEMMA FinishReviewTurn_Whole ==
    ASSUME TypeInv, PlaceInv, WholeInv, FinishReviewTurn
    PROVE WholeInv'
  BY WholeSame DEF FinishReviewTurn, TypeInv, RowsOK, TurnOK, Owners

LEMMA FinishReview_Whole ==
    ASSUME TypeInv, PlaceInv, WholeInv, FinishReview
    PROVE WholeInv'
  BY ZenonT(40) DEF FinishReview, WholeInv, Planned, At, Owned, Stopped, Done, idle, TypeInv,
         RowsOK, FlowOK, JobInv, JobOK, JobType

LEMMA FinishReviewer_Whole ==
    ASSUME TypeInv, PlaceInv, WholeInv, FinishReviewer
    PROVE WholeInv'
  <1>1. flow' = flow /\ handoffs' = handoffs /\ turn' = turn /\ Planned' = Planned
    BY ReviewerGoes DEF Planned
  <1>. QED BY <1>1, ReviewerGoes DEF WholeInv

LEMMA FinishFinal_Whole ==
    ASSUME TypeInv, PlaceInv, WholeInv, FinishFinal
    PROVE WholeInv'
  BY ZenonT(40) DEF FinishFinal, WholeInv, Planned, At, Owned, Stopped, Done, Go, TypeInv,
         RowsOK, FlowOK, JobInv, JobOK, JobType

LEMMA Complete_Whole ==
    ASSUME TypeInv, PlaceInv, WholeInv, Complete
    PROVE WholeInv'
  BY DEF Complete, WholeInv, Planned, At, Owned, Done, TypeInv, RowsOK, FlowOK, JobInv, JobOK,
     JobType

LEMMA StopOne_Whole ==
    ASSUME TypeInv, PlaceInv, WholeInv, StopOne
    PROVE WholeInv'
  BY WholeSame DEF StopOne, TypeInv, RowsOK, FlowOK

LEMMA Reserve_Whole ==
    ASSUME TypeInv, PlaceInv, WholeInv, NEW c \in Callers, Reserve(c)
    PROVE WholeInv'
  BY WholeSame DEF Reserve, TypeInv, RowsOK, FlowOK

LEMMA Refuse_Whole ==
    ASSUME TypeInv, PlaceInv, WholeInv, NEW c \in Callers, Refuse(c)
    PROVE WholeInv'
  BY WholeSame DEF Refuse, rows, TypeInv, RowsOK, FlowOK

LEMMA Send_Whole ==
    ASSUME TypeInv, PlaceInv, WholeInv, NEW c \in Callers, Send(c)
    PROVE WholeInv'
  BY WholeSame DEF Send, rows, TypeInv, RowsOK, FlowOK

LEMMA Charge_Whole ==
    ASSUME TypeInv, PlaceInv, WholeInv, NEW c \in Callers, Charge(c)
    PROVE WholeInv'
  BY WholeSame DEF Charge, TypeInv, RowsOK, FlowOK

LEMMA ProviderFails_Whole ==
    ASSUME TypeInv, PlaceInv, WholeInv, NEW c \in Callers, ProviderFails(c)
    PROVE WholeInv'
  BY WholeSame DEF ProviderFails, TypeInv, RowsOK, FlowOK

LEMMA Settle_Whole ==
    ASSUME TypeInv, PlaceInv, WholeInv, NEW c \in Callers, Settle(c)
    PROVE WholeInv'
  BY WholeSame DEF Settle, TypeInv, RowsOK, FlowOK

LEMMA StopRead_Whole ==
    ASSUME TypeInv, PlaceInv, WholeInv, NEW a \in Actors, StopRead(a)
    PROVE WholeInv'
  BY WholeHandled, WholeSame DEF StopRead, rows

LEMMA StopNode_Whole ==
    ASSUME TypeInv, PlaceInv, WholeInv, NEW a \in Actors, StopNode(a)
    PROVE WholeInv'
  BY WholeSame DEF StopNode, TypeInv, RowsOK, FlowOK

LEMMA StopChildren_Whole ==
    ASSUME TypeInv, PlaceInv, WholeInv, NEW a \in Actors, StopChildren(a)
    PROVE WholeInv'
  <1>1. turn[Reviewer] = "completed" => turn'[Reviewer] = "completed"
    BY WholeChildren DEF StopChildren
  <1>. QED BY <1>1 DEF StopChildren, WholeInv, Planned

LEMMA StopEnd_Whole ==
    ASSUME TypeInv, PlaceInv, WholeInv, NEW a \in Actors, StopEnd(a)
    PROVE WholeInv'
  <1>1. flow'.status # "completed"
    BY DEF StopEnd, TypeInv, RowsOK, FlowOK, StopOK, StopType, EndsAs
  <1>. QED BY <1>1, WholeHandled, WholeSame DEF StopEnd

LEMMA CancelWorkflow_Whole ==
    ASSUME TypeInv, PlaceInv, WholeInv, CancelWorkflow
    PROVE WholeInv'
  <1>1. turn[Reviewer] = "completed" => turn'[Reviewer] = "completed"
    BY WholeChildren DEF CancelWorkflow
  <1>. QED BY <1>1 DEF CancelWorkflow, WholeInv, Planned

LEMMA CancelRun_Whole ==
    ASSUME TypeInv, PlaceInv, WholeInv, CancelRun
    PROVE WholeInv'
  BY WholeSame DEF CancelRun, TypeInv, RowsOK, FlowOK

LEMMA CancelTask_Whole ==
    ASSUME TypeInv, PlaceInv, WholeInv, NEW t \in Owners, CancelTask(t)
    PROVE WholeInv'
  BY WholeSame DEF CancelTask, TypeInv, RowsOK, FlowOK

LEMMA RetryTask_Whole ==
    ASSUME TypeInv, PlaceInv, WholeInv, NEW t \in Owners, RetryTask(t)
    PROVE WholeInv'
  BY WholeSame DEF RetryTask, TypeInv, RowsOK, FlowOK

LEMMA CancelJob_Whole ==
    ASSUME TypeInv, PlaceInv, WholeInv, CancelJob
    PROVE WholeInv'
  BY WholeSame DEF CancelJob, Owned, Raise, TypeInv, RowsOK, FlowOK, JobInv, JobOK, JobType

LEMMA LoseLease_Whole ==
    ASSUME TypeInv, PlaceInv, WholeInv, LoseLease
    PROVE WholeInv'
  BY WholeSame DEF LoseLease, rows, TypeInv, RowsOK, FlowOK

LEMMA Superseded_Whole ==
    ASSUME TypeInv, PlaceInv, WholeInv, Superseded
    PROVE WholeInv'
  BY WholeSame DEF Superseded, rows, TypeInv, RowsOK, FlowOK, JobInv, JobOK, JobType

LEMMA Recover_Whole ==
    ASSUME TypeInv, PlaceInv, WholeInv, Recover
    PROVE WholeInv'
  BY WholeSame DEF Recover, rows, TypeInv, RowsOK, FlowOK

LEMMA StepWhole == TypeInv /\ PlaceInv /\ WholeInv /\ [Next]_vars => WholeInv'
  <1>. SUFFICES ASSUME TypeInv /\ PlaceInv /\ WholeInv, [Next]_vars PROVE WholeInv'
    OBVIOUS
  <1>1. CASE Coordinator
    BY <1>1, BeginStage_Whole, StageCalled_Whole, FinishPlan_Whole, FinishCheck_Whole,
       CreateTasks_Whole, FinishDispatch_Whole, StartTask_Whole, StartWork_Whole,
       StartTurn_Whole, GroupCalled_Whole, FinishTurn_Whole, FinishWork_Whole,
       StartHandoff_Whole, SaveHandoff_Whole, FinishHandoff_Whole, FinishTask_Whole,
       EndGroup_Whole, FinishVerify_Whole, CreateReviewer_Whole, StartReview_Whole,
       FinishReviewTurn_Whole, FinishReview_Whole, FinishReviewer_Whole, FinishFinal_Whole,
       Complete_Whole, StopOne_Whole, StopRead_Whole, StopNode_Whole, StopChildren_Whole,
       StopEnd_Whole
    DEF Coordinator, Stop, Actors
  <1>2. CASE \E c \in Callers : Call(c)
    BY <1>2, Reserve_Whole, Refuse_Whole, Send_Whole, Charge_Whole, ProviderFails_Whole,
       Settle_Whole DEF Call
  <1>3. CASE Client
    BY <1>3, CancelWorkflow_Whole, CancelRun_Whole, CancelTask_Whole, RetryTask_Whole,
       StopRead_Whole, StopNode_Whole, StopChildren_Whole, StopEnd_Whole
    DEF Client, Stop, Actors
  <1>4. CASE Rescue
    BY <1>4, Recover_Whole, StopRead_Whole, StopNode_Whole, StopChildren_Whole, StopEnd_Whole
    DEF Rescue, Stop, Actors
  <1>5. CASE Fault
    BY <1>5, CancelJob_Whole, LoseLease_Whole, Superseded_Whole DEF Fault
  <1>6. CASE UNCHANGED vars
    BY <1>6 DEF vars, rows, WholeInv, Planned
  <1>. QED BY <1>1, <1>2, <1>3, <1>4, <1>5, <1>6 DEF Next

LEMMA AlwaysWhole == Spec => []WholeInv
  <1>1. Init => WholeInv
    BY FS_EmptySet, PlannedWorkflowAssumption DEF Init, WholeInv, Stages, Calling
  <1>. QED BY <1>1, StepWhole, AlwaysTypes, AlwaysPlaces, PTL DEF Spec

\* A completed workflow has its one answer, a finished review where the policy asks for
\* one, and a handoff of every task of its last plan (complete_workflow).
THEOREM AnswersAreWhole == Spec => []AnswerIsWhole
  <1>1. TypeInv /\ WholeInv => AnswerIsWhole
    BY DEF TypeInv, JobInv, RepliesOK, WholeInv, AnswerIsWhole
  <1>. QED BY <1>1, AlwaysTypes, AlwaysWhole, PTL

=============================================================================
