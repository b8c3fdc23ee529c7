----------------------- MODULE AgentWorkflow_proofs -----------------------
(***************************************************************************)
(* Proofs about AgentWorkflow for any number of workers, rounds, faults    *)
(* and lease versions.  Two arguments meet in them.  What is under the     *)
(* fence is done by the one owner of the live claim, whose place in the    *)
(* loop agrees with the checkpoint (Positions) and with the nodes          *)
(* (Closing).  What is not, the provider call and the tool operation, is   *)
(* guarded by the row saved before it (Sent).                              *)
(***************************************************************************)
EXTENDS AgentWorkflow, TLAPS

-----------------------------------------------------------------------------
(* The inductive invariant *)

\* Where the owner stands within a round: with the call, with the response.
InCall == {"model", "reserved", "dispatch", "provider", "answered", "keep"}
InTool == {"tool", "perform", "effect", "result", "ask", "suspended",
           "progress", "kept"}
InLoop == {"loop", "respond"} \cup InCall \cup InTool

\* Before the answer; at the end of a workflow; inside the handlers.
Unanswered == {"enter", "finish", "final", "deliver"} \cup InLoop
Answered   == {"close", "complete"}
Stopping   == {"stop", "sweep", "end"}

\* A saved completion has a reply that the round admits.
ReplyKnown ==
    \A r \in Rounds : attempts[r].status = "completed" => attempts[r].reply \in Answers(r)

\* What a job knows, owner or not.
Knows(w) ==
    /\ job[w].pc \in {"begin", "enter"} => job[w].round = 1
    /\ job[w].pc = "begin" => job[w].seen = "none"
    /\ job[w].pc \in Stopping => job[w].ending # "none"
    /\ job[w].pc = "sweep" /\ job[w].victim # "none" => nodes[job[w].victim] # "none"
    /\ ~Snapshots => job[w].seen = "none"

\* The owner's place and the checkpoint.
Position(w) ==
    /\ job[w].pc = "enter" => saved.phase = "none"
    /\ job[w].pc \in InLoop => nodes["main"] # "none"
    /\ job[w].pc = "loop" =>
          \/ saved.phase = "none" /\ job[w].round = 1
          \/ saved.phase = "tool_result" /\ job[w].round = saved.round + 1
    /\ job[w].pc \in InCall => saved.phase = "before_model" /\ saved.round = job[w].round
    /\ job[w].pc \in {"answered", "keep"} => attempts[job[w].round].status = "completed"
    /\ job[w].pc \in {"respond"} \cup InTool =>
          saved.phase = "model_response" /\ saved.round = job[w].round
    /\ job[w].pc \in InTool => job[w].round < MaxRounds
    /\ job[w].pc \in {"progress", "kept"} => tools[job[w].round] \in SettledTool

Positions == \A w \in Workers : OwnsClaim(w) => Position(w)

\* The checkpoint and the rows.
Saved ==
    /\ saved.phase = "tool_result" => saved.round < MaxRounds
    /\ nodes["main"] = "none" => saved.phase = "none"
    /\ \A r \in Rounds : attempts[r].status # "none" =>
          saved.phase # "none" /\ r <= saved.round
    /\ saved.phase \in {"model_response", "tool_result"}
          => attempts[saved.round].status = "completed"
    /\ saved.phase = "tool_result" => tools[saved.round] \in SettledTool
    /\ \A q \in Rounds : q < saved.round =>
          attempts[q].status = "completed" /\ tools[q] \in SettledTool

LoopInv == TypeOK /\ ReplyKnown /\ (\A w \in Workers : Knows(w)) /\ Positions /\ Saved

\* What has no row was not sent; whoever saved a row and has not sent it yet is
\* alone in its round.
Performing == {"perform", "effect"}

Sent ==
    /\ AtMostOnce
    /\ \A r \in Rounds : /\ attempts[r].status = "none" => calls[r] = 0
                         /\ tools[r] = "none" => effects[r] = 0
    /\ \A w \in Workers :
          /\ job[w].pc = "dispatch" =>
                attempts[job[w].round].status # "none" /\ calls[job[w].round] = 0
          /\ job[w].pc \in Performing =>
                tools[job[w].round] # "none" /\ effects[job[w].round] = 0
    /\ \A u, w \in Workers : u # w /\ job[u].round = job[w].round =>
          /\ ~(job[u].pc = "dispatch" /\ job[w].pc = "dispatch")
          /\ ~(job[u].pc \in Performing /\ job[w].pc \in Performing)

\* The nodes in their order, the answer, and the owner's place among them.
Place(w) ==
    /\ job[w].pc \in Unanswered => nodes["final"] # "completed"
    /\ job[w].pc \in {"final", "deliver"} => nodes["main"] = "completed"
    /\ job[w].pc \in Answered => nodes["main"] = "completed" /\ nodes["final"] = "completed"
    /\ job[w].pc = "sweep" /\ job[w].victim # "none" => nodes[job[w].victim] # "completed"

Closing ==
    /\ messages = (IF nodes["final"] = "completed" THEN 1 ELSE 0)
    /\ nodes["final"] # "none" => nodes["main"] = "completed"
    /\ nodes["final"] = "completed" => task = "completed"
    /\ \A w \in Workers : OwnsClaim(w) => Place(w)

\* Nobody works under the claim of a completed workflow.
Whole ==
    /\ CompletedIsWhole
    /\ wf.status = "completed" =>
          \A w \in Workers : OwnsClaim(w) => job[w].pc = "idle"

\* An owner that ends the workflow knows of every unknown outcome.
Reports ==
    \A w \in Workers :
        /\ OwnsClaim(w)
        /\ job[w].pc \in {"sweep", "end"}
        /\ \E r \in Rounds : attempts[r].status = "outcome_unknown"
        => job[w].ending = "outcome_unknown"

-----------------------------------------------------------------------------
(* What becomes of a job *)

Others(w) == \A u \in Workers : u # w => job'[u] = job[u]

\* The job stays where it is, is over, falls into the handlers, or goes on to l.
Same(w) ==
    /\ job'[w].pc = job[w].pc /\ job'[w].round = job[w].round
    /\ job'[w].claim = job[w].claim /\ job'[w].ending = job[w].ending
    /\ job'[w].victim = job[w].victim
    /\ job'[w].seen = job[w].seen \/ (Snapshots /\ job[w].pc # "begin")

Gone(w) == job'[w] = NoJob

Fall(w) ==
    /\ job'[w].pc = "stop" /\ job'[w].round = job[w].round
    /\ job'[w].claim = job[w].claim /\ job'[w].ending # "none"
    /\ job'[w].seen = "none"

Go(w, l) ==
    /\ job'[w].pc = l /\ job'[w].round = job[w].round
    /\ job'[w].claim = job[w].claim /\ job'[w].ending = job[w].ending
    /\ job'[w].victim = job[w].victim /\ job'[w].seen = "none"

Turns(w) == job' \in [Workers -> Job] /\ Others(w)

LEMMA BecomeJob ==
    ASSUME NEW w \in Workers, job \in [Workers -> Job], NEW next \in Job,
           Become(w, next)
    PROVE  /\ Turns(w)
           /\ job'[w].pc = next.pc /\ job'[w].round = next.round
           /\ job'[w].claim = next.claim /\ job'[w].ending = next.ending
           /\ job'[w].victim = next.victim /\ job'[w].seen = next.seen
<1> DEFINE k == [next EXCEPT !.cancelling = IF @ = "no" THEN "no" ELSE "due"]
<1>1. k \in Job
  BY DEF Job
<1>2. /\ k.pc = next.pc /\ k.round = next.round /\ k.claim = next.claim
      /\ k.ending = next.ending /\ k.victim = next.victim /\ k.seen = next.seen
  BY DEF Job
<1>3. job' = [job EXCEPT ![w] = k]
  BY DEF Become
<1> HIDE DEF k
<1> QED BY <1>1, <1>2, <1>3 DEF Turns, Others

LEMMA GotoJob ==
    ASSUME NEW w \in Workers, job \in [Workers -> Job], NEW l \in Control, Goto(w, l)
    PROVE  Turns(w) /\ Go(w, l)
<1> DEFINE next == [job[w] EXCEPT !.pc = l, !.seen = "none"]
<1>1. job[w] \in Job
  OBVIOUS
<1>2. next \in Job
  BY <1>1 DEF Job
<1>3. /\ next.pc = l /\ next.round = job[w].round /\ next.claim = job[w].claim
      /\ next.ending = job[w].ending /\ next.victim = job[w].victim
      /\ next.seen = "none"
  BY <1>1 DEF Job
<1>4. Become(w, next)
  BY DEF Goto
<1> HIDE DEF next
<1> QED BY <1>2, <1>3, <1>4, BecomeJob DEF Go

LEMMA IdleJob == NoJob \in Job /\ NoJob.pc = "idle" /\ NoJob.seen = "none"
<1>1. 1 \in Rounds
  BY AgentWorkflowAssumption DEF Rounds
<1>2. 0 \in 0..MaxVersion
  BY AgentWorkflowAssumption
<1> QED BY <1>1, <1>2 DEF NoJob, Job, Control

LEMMA RetireJob ==
    ASSUME NEW w \in Workers, job \in [Workers -> Job], Retire(w)
    PROVE  Turns(w) /\ Gone(w)
BY IdleJob DEF Retire, Turns, Others, Gone

LEMMA RaiseJob ==
    ASSUME NEW w \in Workers, job \in [Workers -> Job], Raise(w)
    PROVE  Turns(w) /\ (Gone(w) \/ Fall(w))
<1>1. CASE ~job[w].caught
  BY <1>1, RetireJob DEF Raise
<1>2. CASE job[w].caught
  <2> DEFINE next == [job[w] EXCEPT !.pc = "stop", !.seen = "none", !.ending = "failed"]
  <2>1. job[w] \in Job
    OBVIOUS
  <2>2. next \in Job
    BY <2>1 DEF Job, Control
  <2>3. /\ next.pc = "stop" /\ next.round = job[w].round /\ next.claim = job[w].claim
        /\ next.ending = "failed" /\ next.seen = "none"
    BY <2>1 DEF Job
  <2>4. Become(w, next)
    BY <1>2 DEF Raise
  <2> HIDE DEF next
  <2> QED BY <2>2, <2>3, <2>4, BecomeJob DEF Fall
<1> QED BY <1>1, <1>2

-----------------------------------------------------------------------------
(* What the steps do *)

\* No row, no call and no operation.
Still == UNCHANGED <<durable, late, client, calls, effects>>

\* Steps by which a job does not get on.
Idle(w) ==
    \/ FencedOut(w) \/ Heartbeat(w) \/ WatchRun(w) \/ Crash(w) \/ Interrupt(w)
    \/ Look(w) \/ Stopped(w) \/ GiveUp(w) \/ BeginFails(w) \/ Suspend(w)
    \/ StopCancelled(w)

Stays(w) ==
    /\ Still /\ Turns(w) /\ faults' \in 0..MaxFaults
    /\ Same(w) \/ Gone(w) \/ (Fall(w) /\ job[w].pc # "idle")

LEMMA IdleStays ==
    ASSUME NEW w \in Workers, TypeOK, \A u \in Workers : Knows(u), Idle(w)
    PROVE  Stays(w)
<1> USE DEF TypeOK
<1> job[w] \in Job
  OBVIOUS
<1> faults \in 0..MaxFaults /\ (faults < MaxFaults => faults + 1 \in 0..MaxFaults)
  BY AgentWorkflowAssumption
<1>1. CASE FencedOut(w)
  BY <1>1, RetireJob DEF FencedOut, Stays, Still, history
<1>2. CASE Heartbeat(w)
  <2> DEFINE k == [job[w] EXCEPT !.cancelling = IF @ = "no" THEN "sent" ELSE @,
                                 !.beating = FALSE]
  <2>1. k \in Job /\ k.pc = job[w].pc /\ k.round = job[w].round
          /\ k.claim = job[w].claim /\ k.ending = job[w].ending
          /\ k.victim = job[w].victim /\ k.seen = job[w].seen
    BY DEF Job
  <2>2. job' = [job EXCEPT ![w] = k]
    BY <1>2 DEF Heartbeat
  <2> HIDE DEF k
  <2>3. Turns(w) /\ Same(w)
    BY <2>1, <2>2 DEF Turns, Others, Same
  <2> QED BY <1>2, <2>3 DEF Heartbeat, Stays, Still, history
<1>3. CASE WatchRun(w) \/ Interrupt(w)
  <2> DEFINE k == [job[w] EXCEPT !.cancelling = "sent"]
  <2>1. k \in Job /\ k.pc = job[w].pc /\ k.round = job[w].round
          /\ k.claim = job[w].claim /\ k.ending = job[w].ending
          /\ k.victim = job[w].victim /\ k.seen = job[w].seen
    BY DEF Job
  <2>2. job' = [job EXCEPT ![w] = k]
    BY <1>3 DEF WatchRun, Interrupt
  <2> HIDE DEF k
  <2>3. Turns(w) /\ Same(w)
    BY <2>1, <2>2 DEF Turns, Others, Same
  <2> QED BY <1>3, <2>3 DEF WatchRun, Interrupt, Stays, Still, history
<1>4. CASE Crash(w)
  BY <1>4, RetireJob DEF Crash, Stays, Still
<1>5. CASE Look(w)
  <2> DEFINE k == [job[w] EXCEPT !.seen = wf.status]
  <2>1. k \in Job /\ k.pc = job[w].pc /\ k.round = job[w].round
          /\ k.claim = job[w].claim /\ k.ending = job[w].ending
          /\ k.victim = job[w].victim
    BY DEF Job
  <2>2. job' = [job EXCEPT ![w] = k] /\ Snapshots /\ job[w].pc # "begin"
    BY <1>5 DEF Look, Reading
  <2> HIDE DEF k
  <2>3. Turns(w) /\ Same(w)
    BY <2>1, <2>2 DEF Turns, Others, Same
  <2> QED BY <1>5, <2>3 DEF Look, Stays, Still, history
<1>6. CASE Stopped(w)
  BY <1>6, RaiseJob DEF Stopped, Stays, Still, history
<1>7. CASE GiveUp(w)
  BY <1>7, RaiseJob DEF GiveUp, Stays, Still, history
<1>8. CASE BeginFails(w)
  <2> DEFINE end == IF Unknown THEN "outcome_unknown" ELSE "failed"
             next == [job[w] EXCEPT !.pc = "stop", !.ending = end]
  <2>0. end \in {"failed", "outcome_unknown"}
    OBVIOUS
  <2> HIDE DEF end
  <2>1. next \in Job /\ next.pc = "stop" /\ next.round = job[w].round
          /\ next.claim = job[w].claim /\ next.ending # "none"
          /\ next.seen = job[w].seen
    BY <2>0 DEF Job, Control
  <2>2. Become(w, next)
    BY <1>8 DEF BeginFails, end
  <2> HIDE DEF next
  <2>3. job[w].seen = "none"
    BY <1>8 DEF BeginFails, Knows
  <2>4. Turns(w) /\ Fall(w)
    BY <2>1, <2>2, <2>3, BecomeJob DEF Fall
  <2> QED BY <1>8, <2>4 DEF BeginFails, Stays, Still, history
<1>9. CASE Suspend(w)
  BY <1>9, RetireJob DEF Suspend, Stays, Still, history
<1>10. CASE StopCancelled(w)
  BY <1>10, RetireJob DEF StopCancelled, Stays, Still, history
<1> QED BY <1>1, <1>2, <1>3, <1>4, <1>5, <1>6, <1>7, <1>8, <1>9, <1>10 DEF Idle

\* Steps by which a job gets on without writing.
Walk(w) ==
    \/ BeginResume(w) \/ BeginNew(w) \/ BeginClose(w) \/ ReuseAttempt(w)
    \/ Reserve(w) \/ CheckPassed(w) \/ Respond(w) \/ ReuseTool(w) \/ StopRead(w)

\* Where a checkpoint is taken up.
TakesUp(w) ==
    /\ job[w].pc = "begin" /\ ~Closable /\ Resumable
    /\ job'[w].claim = job[w].claim /\ job'[w].seen = "none"
    /\ \/ /\ saved.phase = "before_model"
          /\ job'[w].pc = "model" /\ job'[w].round = saved.round
       \/ /\ saved.phase = "model_response"
          /\ job'[w].pc = "respond" /\ job'[w].round = saved.round
       \/ /\ saved.phase = "tool_result"
          /\ job'[w].pc = "loop" /\ job'[w].round = saved.round + 1

\* The handlers have found what runs and how it ends.
Sweeps(w) ==
    /\ job[w].pc = "stop" /\ job'[w].pc = "sweep"
    /\ job'[w].round = job[w].round /\ job'[w].claim = job[w].claim
    /\ job'[w].seen = job[w].seen
    /\ job'[w].ending = Ending(w)
    /\ job'[w].victim # "none" => nodes[job'[w].victim] = "running"

GetsOn(w) ==
    \/ TakesUp(w)
    \/ job[w].pc = "begin" /\ ~Closable /\ ~Resumable /\ Untouched /\ Go(w, "enter")
    \/ job[w].pc = "begin" /\ Closable /\ Go(w, "close")
    \/ job[w].pc = "model" /\ Go(w, "reserved")
    \/ job[w].pc = "model" /\ attempts[job[w].round].status = "completed" /\ Go(w, "keep")
    \/ job[w].pc = "answered" /\ Go(w, "keep")
    \/ job[w].pc = "progress" /\ Go(w, "kept")
    \/ job[w].pc = "respond" /\ Go(w, "finish")
    \/ job[w].pc = "respond" /\ attempts[job[w].round].reply # "text" /\ Go(w, "tool")
    \/ job[w].pc = "tool" /\ tools[job[w].round] \in SettledTool /\ Go(w, "progress")
    \/ Sweeps(w)
    \/ Gone(w) \/ Fall(w)

Walks(w) == Still /\ Turns(w) /\ faults' = faults /\ GetsOn(w) /\ job[w].pc # "idle"

LEMMA EndingKnown ==
    ASSUME NEW w \in Workers, TypeOK, Knows(w), job[w].pc = "stop"
    PROVE  Ending(w) \in {"failed", "cancelled", "outcome_unknown"}
<1>1. job[w] \in Job
  BY DEF TypeOK
<1> QED BY <1>1 DEF Ending, Knows, Stopping, Job

LEMMA WalkWalks ==
    ASSUME NEW w \in Workers, TypeOK, Saved, \A u \in Workers : Knows(u), Walk(w)
    PROVE  Walks(w)
<1> USE DEF TypeOK
<1> job[w] \in Job
  OBVIOUS
<1>1. CASE BeginResume(w)
  <2>1. PICK at \in ResumeAt(w) :
            Become(w, [job[w] EXCEPT !.pc = at[1], !.round = at[2], !.caught = TRUE])
    BY <1>1 DEF BeginResume
  <2> DEFINE next == [job[w] EXCEPT !.pc = at[1], !.round = at[2], !.caught = TRUE]
  <2>2. saved.phase \in {"before_model", "model_response", "tool_result"}
    BY <1>1 DEF BeginResume, Resumable, Phase
  <2>3. \/ saved.phase = "before_model" /\ at = <<"model", saved.round>>
        \/ saved.phase = "model_response" /\ at = <<"respond", saved.round>>
        \/ saved.phase = "tool_result" /\ at = <<"loop", saved.round + 1>>
    BY <2>2 DEF ResumeAt
  <2>4. saved.round \in Rounds /\ (saved.phase = "tool_result" => saved.round + 1 \in Rounds)
    BY AgentWorkflowAssumption DEF Saved, Rounds
  <2>5. at[1] \in Control /\ at[2] \in Rounds
    BY <2>3, <2>4 DEF Control
  <2>6. next \in Job /\ next.pc = at[1] /\ next.round = at[2]
          /\ next.claim = job[w].claim /\ next.seen = job[w].seen
    BY <2>5 DEF Job
  <2>7. Become(w, next)
    BY <2>1
  <2> HIDE DEF next
  <2>8. /\ Turns(w) /\ job'[w].pc = at[1] /\ job'[w].round = at[2]
        /\ job'[w].claim = job[w].claim /\ job'[w].seen = job[w].seen
    BY <2>6, <2>7, BecomeJob
  <2>9. job[w].seen = "none" /\ job[w].pc = "begin" /\ ~Closable /\ Resumable
    BY <1>1 DEF BeginResume, Knows
  <2>10. TakesUp(w)
    BY <2>3, <2>8, <2>9 DEF TakesUp
  <2> QED BY <1>1, <2>8, <2>10 DEF BeginResume, Walks, GetsOn, Still, history
<1>2. CASE BeginNew(w)
  <2> DEFINE next == [job[w] EXCEPT !.pc = "enter", !.caught = TRUE]
  <2>1. next \in Job /\ next.pc = "enter" /\ next.round = job[w].round
          /\ next.claim = job[w].claim /\ next.ending = job[w].ending
          /\ next.victim = job[w].victim /\ next.seen = job[w].seen
    BY DEF Job, Control
  <2>2. Become(w, next)
    BY <1>2 DEF BeginNew
  <2> HIDE DEF next
  <2>3. job[w].seen = "none" /\ job[w].pc = "begin" /\ ~Closable /\ ~Resumable /\ Untouched
    BY <1>2 DEF BeginNew, Knows
  <2>4. Turns(w) /\ Go(w, "enter")
    BY <2>1, <2>2, <2>3, BecomeJob DEF Go
  <2> QED BY <1>2, <2>3, <2>4 DEF BeginNew, Walks, GetsOn, Still, history
<1>3. CASE BeginClose(w)
  <2>1. Turns(w) /\ Go(w, "close")
    BY <1>3, GotoJob DEF BeginClose, Control
  <2> QED BY <1>3, <2>1 DEF BeginClose, Walks, GetsOn, Still, history
<1>4. CASE ReuseAttempt(w)
  <2>1. CASE attempts[job[w].round].status = "completed"
    <3>1. Turns(w) /\ Go(w, "keep")
      BY <1>4, <2>1, GotoJob DEF ReuseAttempt, Control
    <3> QED BY <1>4, <2>1, <3>1 DEF ReuseAttempt, Walks, GetsOn, Still, history
  <2>2. CASE attempts[job[w].round].status # "completed"
    BY <1>4, <2>2, RaiseJob DEF ReuseAttempt, Walks, GetsOn, Still, history
  <2> QED BY <2>1, <2>2
<1>5. CASE Reserve(w)
  <2>1. Turns(w) /\ Go(w, "reserved")
    BY <1>5, GotoJob DEF Reserve, Control
  <2> QED BY <1>5, <2>1 DEF Reserve, Walks, GetsOn, Still, history
<1>6. CASE CheckPassed(w)
  <2>1. /\ Turns(w)
        /\ \/ job[w].pc = "answered" /\ Go(w, "keep")
           \/ job[w].pc = "progress" /\ Go(w, "kept")
    BY <1>6, GotoJob DEF CheckPassed, Control
  <2> QED BY <1>6, <2>1 DEF CheckPassed, Walks, GetsOn, Still, history
<1>7. CASE Respond(w)
  <2>1. /\ Turns(w)
        /\ \/ Go(w, "finish")
           \/ attempts[job[w].round].reply # "text" /\ Go(w, "tool")
    BY <1>7, GotoJob DEF Respond, Control
  <2> QED BY <1>7, <2>1 DEF Respond, Walks, GetsOn, Still, history
<1>8. CASE ReuseTool(w)
  <2>1. CASE tools[job[w].round] \in SettledTool /\ asks[job[w].round] # "cancelled"
    <3>1. Turns(w) /\ Go(w, "progress")
      BY <1>8, <2>1, GotoJob DEF ReuseTool, Control
    <3> QED BY <1>8, <2>1, <3>1 DEF ReuseTool, Walks, GetsOn, Still, history
  <2>2. CASE ~(tools[job[w].round] \in SettledTool /\ asks[job[w].round] # "cancelled")
    BY <1>8, <2>2, RaiseJob DEF ReuseTool, Walks, GetsOn, Still, history
  <2> QED BY <2>1, <2>2
<1>9. CASE StopRead(w)
  <2>1. CASE wf.status \in Ended
    BY <1>9, <2>1, RetireJob DEF StopRead, Walks, GetsOn, Still, history
  <2>2. CASE wf.status \notin Ended
    <3>1. PICK n \in (IF RunningNodes = {} THEN {"none"} ELSE RunningNodes) :
              Become(w, [job[w] EXCEPT !.pc = "sweep", !.victim = n,
                                       !.ending = Ending(w)])
      BY <1>9, <2>2 DEF StopRead
    <3> DEFINE next == [job[w] EXCEPT !.pc = "sweep", !.victim = n, !.ending = Ending(w)]
    <3>2. n \in Node \cup {"none"} /\ (n # "none" => nodes[n] = "running")
      BY DEF RunningNodes
    <3>3. Ending(w) \in {"failed", "cancelled", "outcome_unknown"}
      BY <1>9, EndingKnown DEF StopRead
    <3>4. next \in Job /\ next.pc = "sweep" /\ next.round = job[w].round
            /\ next.claim = job[w].claim /\ next.ending = Ending(w)
            /\ next.victim = n /\ next.seen = job[w].seen
      BY <3>2, <3>3 DEF Job, Control
    <3>5. Become(w, next)
      BY <3>1
    <3> HIDE DEF next
    <3>6. Turns(w) /\ Sweeps(w)
      BY <1>9, <3>2, <3>4, <3>5, BecomeJob DEF StopRead, Sweeps
    <3> QED BY <1>9, <3>6 DEF StopRead, Walks, GetsOn, Still, history
  <2> QED BY <2>1, <2>2
<1> QED BY <1>1, <1>2, <1>3, <1>4, <1>5, <1>6, <1>7, <1>8, <1>9 DEF Walk

\* The owner saves its tool call, or its attempt.
ToolStep(w) ==
    /\ OwnsClaim(w) /\ Turns(w)
    /\ UNCHANGED <<wf, run, task, nodes, attempts, asks, saved, messages, late,
                   client, history>>
    /\ \E s \in {"open", "done", "cancelled"} :
        /\ tools' = [tools EXCEPT ![job[w].round] = s]
        /\ \/ /\ job[w].pc = "tool" /\ tools[job[w].round] = "none"
              /\ Go(w, "perform")
           \/ job[w].pc = "perform" /\ (Go(w, "effect") \/ Go(w, "ask"))
           \/ /\ job[w].pc \in {"perform", "effect", "result", "ask", "suspended"}
              /\ s \in SettledTool
              /\ Go(w, "progress") \/ Gone(w) \/ Fall(w)

AttemptStep(w) ==
    /\ OwnsClaim(w) /\ Turns(w)
    /\ UNCHANGED <<wf, run, task, nodes, tools, asks, saved, messages, late,
                   client, history>>
    /\ \/ /\ job[w].pc = "reserved" /\ attempts[job[w].round].status = "none"
          /\ attempts' = [attempts EXCEPT ![job[w].round].status = "started"]
          /\ Go(w, "dispatch")
       \/ /\ job[w].pc = "provider"
          /\ \E reply \in Answers(job[w].round) :
                attempts' = [attempts EXCEPT ![job[w].round] =
                                [status |-> "completed", reply |-> reply]]
          /\ Go(w, "answered")
       \/ /\ job[w].pc \in {"dispatch", "provider"}
          /\ \E status \in {"failed", "outcome_unknown"} :
                attempts' = [attempts EXCEPT ![job[w].round].status = status]
          /\ Gone(w) \/ Fall(w)

\* The owner, or another, leaves at an await.
CancelStep(w) ==
    /\ Turns(w) /\ (Gone(w) \/ Fall(w)) /\ job[w].pc # "idle"
    /\ UNCHANGED <<wf, run, task, nodes, asks, saved, messages, late, client, history>>
    /\ \/ UNCHANGED attempts
       \/ /\ OwnsClaim(w) /\ job[w].pc \in {"dispatch", "provider"}
          /\ \E status \in {"cancelled", "outcome_unknown"} :
                attempts' = [attempts EXCEPT ![job[w].round].status = status]
    /\ \/ UNCHANGED tools
       \/ /\ OwnsClaim(w)
          /\ job[w].pc \in {"perform", "effect", "result", "ask", "suspended"}
          /\ tools' = [tools EXCEPT ![job[w].round] = "cancelled"]

SavesTool(w) ==
    \/ RequestTool(w) \/ DenyTool(w) \/ AllowTool(w) \/ SaveResult(w)
    \/ ToolTimesOut(w) \/ AskRefused(w)

SavesAttempt(w) == StartAttempt(w) \/ Answer(w) \/ AttemptFails(w)

LEMMA SavesToolStep ==
    ASSUME NEW w \in Workers, TypeOK, SavesTool(w)
    PROVE  ToolStep(w)
<1> USE DEF TypeOK
<1>1. CASE RequestTool(w)
  <2>1. Turns(w) /\ Go(w, "perform")
    BY <1>1, GotoJob DEF RequestTool, Control
  <2> QED BY <1>1, <2>1 DEF RequestTool, SaveTool, ToolStep
<1>2. CASE DenyTool(w)
  <2>1. Turns(w) /\ Go(w, "progress")
    BY <1>2, GotoJob DEF DenyTool, Control
  <2> QED BY <1>2, <2>1 DEF DenyTool, SaveTool, ToolStep, SettledTool
<1>3. CASE AllowTool(w)
  <2>1. Turns(w) /\ (Go(w, "ask") \/ Go(w, "effect"))
    BY <1>3, GotoJob DEF AllowTool, Control
  <2> QED BY <1>3, <2>1 DEF AllowTool, SaveTool, ToolStep
<1>4. CASE SaveResult(w)
  <2>1. Turns(w) /\ (Go(w, "progress") \/ Gone(w) \/ Fall(w))
    BY <1>4, GotoJob, RaiseJob DEF SaveResult, Control
  <2> QED BY <1>4, <2>1 DEF SaveResult, SaveTool, ToolStep, SettledTool
<1>5. CASE AskRefused(w)
  <2>1. Turns(w) /\ Go(w, "progress")
    BY <1>5, GotoJob DEF AskRefused, Control
  <2> QED BY <1>5, <2>1 DEF AskRefused, SaveTool, ToolStep, SettledTool
<1>6. CASE ToolTimesOut(w)
  <2>1. CASE /\ job[w].pc \in {"effect", "ask", "suspended"}
             /\ SaveTool(w, "done")
             /\ Goto(w, "progress")
    <3>1. Turns(w) /\ Go(w, "progress")
      BY <2>1, GotoJob DEF Control
    <3> QED BY <2>1, <3>1 DEF SaveTool, ToolStep, SettledTool
  <2>2. CASE /\ job[w].pc \in {"perform", "effect", "result", "ask", "suspended"}
             /\ SaveTool(w, "cancelled")
             /\ Raise(w)
    <3>1. Turns(w) /\ (Gone(w) \/ Fall(w))
      BY <2>2, RaiseJob
    <3> QED BY <2>2, <3>1 DEF SaveTool, ToolStep, SettledTool
  <2> QED BY <1>6, <2>1, <2>2 DEF ToolTimesOut
<1> QED BY <1>1, <1>2, <1>3, <1>4, <1>5, <1>6 DEF SavesTool

LEMMA SavesAttemptStep ==
    ASSUME NEW w \in Workers, TypeOK, SavesAttempt(w)
    PROVE  AttemptStep(w)
<1> USE DEF TypeOK
<1>1. CASE StartAttempt(w)
  <2>1. Turns(w) /\ Go(w, "dispatch")
    BY <1>1, GotoJob DEF StartAttempt, Control
  <2> QED BY <1>1, <2>1 DEF StartAttempt, Unsent, AttemptStep
<1>2. CASE Answer(w)
  <2>1. Turns(w) /\ Go(w, "answered")
    BY <1>2, GotoJob DEF Answer, Control
  <2> QED BY <1>2, <2>1 DEF Answer, AttemptStep
<1>3. CASE AttemptFails(w)
  <2>1. Turns(w) /\ (Gone(w) \/ Fall(w))
    BY <1>3, RaiseJob DEF AttemptFails
  <2>2. \E status \in {"failed", "outcome_unknown"} :
            attempts' = [attempts EXCEPT ![job[w].round].status = status]
    BY <1>3 DEF AttemptFails
  <2> QED BY <1>3, <2>1, <2>2 DEF AttemptFails, AttemptStep
<1> QED BY <1>1, <1>2, <1>3 DEF SavesAttempt

LEMMA CancelledStep ==
    ASSUME NEW w \in Workers, TypeOK, Cancelled(w)
    PROVE  CancelStep(w)
<1> USE DEF TypeOK
<1> job[w] \in Job /\ job[w].round \in Rounds
  BY DEF Job
<1>1. Turns(w) /\ (Gone(w) \/ Fall(w))
  <2>1. CASE ~job[w].caught
    BY <2>1, RetireJob DEF Cancelled
  <2>2. CASE job[w].caught
    <3> DEFINE k == [job[w] EXCEPT !.pc = "stop", !.seen = "none",
                                   !.ending = "cancelled", !.cancelling = "no"]
    <3>1. k \in Job /\ k.pc = "stop" /\ k.round = job[w].round
            /\ k.claim = job[w].claim /\ k.ending = "cancelled" /\ k.seen = "none"
      BY DEF Job, Control
    <3>2. job' = [job EXCEPT ![w] = k]
      BY <2>2 DEF Cancelled
    <3> HIDE DEF k
    <3> QED BY <3>1, <3>2 DEF Turns, Others, Fall
  <2> QED BY <2>1, <2>2
<1>2. \/ UNCHANGED attempts
      \/ /\ OwnsClaim(w) /\ job[w].pc \in {"dispatch", "provider"}
         /\ \E status \in {"cancelled", "outcome_unknown"} :
               attempts' = [attempts EXCEPT ![job[w].round].status = status]
  <2>1. CASE OwnsClaim(w)
    <3>1. PICK status \in AfterCancel(w) :
              attempts' = [attempts EXCEPT ![job[w].round].status = status]
      BY <2>1 DEF Cancelled
    <3>2. CASE job[w].pc \in {"dispatch", "provider"} /\ status \in {"cancelled", "outcome_unknown"}
      BY <2>1, <3>1, <3>2
    <3>3. CASE status = attempts[job[w].round].status
      <4>1. attempts[job[w].round] \in [status : AttemptStatus,
                                        reply : {"none", "text", "tool", "question"}]
        OBVIOUS
      <4> QED BY <3>1, <3>3, <4>1
    <3> QED BY <3>1, <3>2, <3>3 DEF AfterCancel
  <2> QED BY <2>1 DEF Cancelled
<1>3. \/ UNCHANGED tools
      \/ /\ OwnsClaim(w)
         /\ job[w].pc \in {"perform", "effect", "result", "ask", "suspended"}
         /\ tools' = [tools EXCEPT ![job[w].round] = "cancelled"]
  <2>1. CASE OwnsClaim(w) /\ job[w].pc \notin {"perform", "effect", "result", "ask", "suspended"}
    <3>1. tools' = [tools EXCEPT ![job[w].round] = tools[job[w].round]]
      BY <2>1 DEF Cancelled
    <3> QED BY <3>1
  <2>2. CASE OwnsClaim(w) /\ job[w].pc \in {"perform", "effect", "result", "ask", "suspended"}
    BY <2>2 DEF Cancelled
  <2> QED BY <2>1, <2>2 DEF Cancelled
<1> QED BY <1>1, <1>2, <1>3 DEF Cancelled, CancelStep

\* Time, the client and the user.
Outside ==
    \/ Create \/ TimeUp \/ LapseUnheld \/ LapseHeld
    \/ CancelRun \/ CancelForApp \/ CancelStart \/ CancelLate \/ CancelEnd
    \/ CancelDies
    \/ \E r \in Rounds : ReplyToAsk(r) \/ ExpireAsk(r)

OutsideStep ==
    /\ UNCHANGED <<job, attempts, saved, messages, calls, effects>>
    /\ \A n \in Node : \/ nodes'[n] = nodes[n]
                       \/ nodes[n] = "running" /\ nodes'[n] = "cancelled"
    /\ task = "completed" => task' = "completed"
    /\ \A r \in Rounds : tools'[r] = tools[r] \/ tools'[r] \in SettledTool
    /\ \A w \in Workers : OwnsClaim(w)' => OwnsClaim(w)
    /\ wf'.status = "completed" =>
          wf.status = "completed" /\ (run = "completed" => run' = "completed")
    /\ run' = "completed" => run = "completed"

LEMMA CancelAsksDoes ==
    ASSUME TypeOK, CancelAsks
    PROVE  /\ asks' \in [Rounds -> AskStatus] /\ tools' \in [Rounds -> ToolStatus]
           /\ \A r \in Rounds : tools'[r] = tools[r] \/ tools'[r] \in SettledTool
BY DEF TypeOK, CancelAsks, AskStatus, ToolStatus, SettledTool

LEMMA SettleAskDoes ==
    ASSUME TypeOK, NEW r \in Rounds, NEW s \in AskStatus, SettleAsk(r, s)
    PROVE  /\ asks' \in [Rounds -> AskStatus] /\ tools' \in [Rounds -> ToolStatus]
           /\ \A q \in Rounds : tools'[q] = tools[q] \/ tools'[q] \in SettledTool
           /\ wf' \in [status : WorkflowStatus, owner : Workers \cup {NoWorker},
                       version : 0..MaxVersion, lease : {"none", "live", "expired"}]
           /\ wf'.owner = NoWorker /\ wf'.status = "running"
<1>1. NextVersion \in 0..MaxVersion
  BY AgentWorkflowAssumption DEF NextVersion, TypeOK
<1>2. wf' = Requeued
  BY DEF SettleAsk
<1>3. /\ wf' \in [status : WorkflowStatus, owner : Workers \cup {NoWorker},
                  version : 0..MaxVersion, lease : {"none", "live", "expired"}]
      /\ wf'.owner = NoWorker /\ wf'.status = "running"
  BY <1>1, <1>2 DEF Requeued, WorkflowStatus
<1>4. /\ asks' \in [Rounds -> AskStatus] /\ tools' \in [Rounds -> ToolStatus]
      /\ \A q \in Rounds : tools'[q] = tools[q] \/ tools'[q] \in SettledTool
  BY DEF SettleAsk, TypeOK, ToolStatus, SettledTool
<1> QED BY <1>3, <1>4

LEMMA OutsideDoes ==
    ASSUME TypeOK, Outside
    PROVE  TypeOK' /\ OutsideStep
<1> USE DEF TypeOK
<1> DEFINE Rows == [status : WorkflowStatus, owner : Workers \cup {NoWorker},
                    version : 0..MaxVersion, lease : {"none", "live", "expired"}]
<1>0. faults \in 0..MaxFaults /\ (faults < MaxFaults => faults + 1 \in 0..MaxFaults)
  BY AgentWorkflowAssumption
<1>1. CASE Create
  <2>1. wf' \in Rows /\ wf'.status = "pending" /\ wf'.owner = wf.owner
          /\ wf'.version = wf.version /\ wf'.lease = wf.lease
    BY <1>1 DEF Create, WorkflowStatus
  <2> QED BY <1>1, <2>1 DEF Create, OutsideStep, OwnsClaim, RunStatus, rounds, history
<1>2. CASE TimeUp
  BY <1>2 DEF TimeUp, OutsideStep, OwnsClaim, durable, rounds, history
<1>3. CASE LapseUnheld \/ LapseHeld
  <2>1. wf' \in Rows /\ wf'.status = wf.status /\ wf'.owner = wf.owner
          /\ wf'.version = wf.version /\ wf'.lease = "expired"
    BY <1>3 DEF LapseUnheld, LapseHeld
  <2> QED BY <1>0, <1>3, <2>1
           DEF LapseUnheld, LapseHeld, OutsideStep, OwnsClaim, rounds, history
<1>4. CASE CancelRun
  <2>1. EndRun /\ CancelAsks
    BY <1>4 DEF CancelRun, EndRun
  <2>2. task' \in TaskStatus /\ run' \in RunStatus /\ run # "completed"
          /\ run' # "completed" /\ (task = "completed" => task' = "completed")
    BY <2>1 DEF EndRun, TaskStatus, RunStatus
  <2> QED BY <1>4, <2>1, <2>2, CancelAsksDoes DEF CancelRun, OutsideStep, OwnsClaim, history
<1>5. CASE CancelForApp
  <2>1. /\ task' \in TaskStatus /\ run' \in RunStatus
        /\ run # "completed" /\ run' # "completed"
        /\ (task = "completed" => task' = "completed")
        /\ asks' \in [Rounds -> AskStatus] /\ tools' \in [Rounds -> ToolStatus]
        /\ \A r \in Rounds : tools'[r] = tools[r] \/ tools'[r] \in SettledTool
    <3>1. CASE EndRun
      <4>1. CancelAsks
        BY <3>1 DEF EndRun
      <4> QED BY <3>1, <4>1, CancelAsksDoes DEF EndRun, TaskStatus, RunStatus
    <3>2. CASE RunCancelled /\ UNCHANGED <<run, task, asks, tools>>
      BY <3>2 DEF RunCancelled
    <3> QED BY <1>5, <3>1, <3>2 DEF CancelForApp
  <2>2. client' \in [pc : {"idle", "app", "closing"}, run : RunStatus \cup {"none"}]
    BY <1>5, <2>1 DEF CancelForApp
  <2> QED BY <1>5, <2>1, <2>2 DEF CancelForApp, OutsideStep, OwnsClaim, history
<1>6. CASE CancelStart
  <2>1. nodes' \in [Node -> NodeStatus]
          /\ \A n \in Node : \/ nodes'[n] = nodes[n]
                             \/ nodes[n] = "running" /\ nodes'[n] = "cancelled"
    BY <1>6 DEF CancelStart, RunningNodes, NodeStatus
  <2>2. client' \in [pc : {"idle", "app", "closing"}, run : RunStatus \cup {"none"}]
    BY <1>6 DEF CancelStart
  <2> QED BY <1>6, <2>1, <2>2 DEF CancelStart, OutsideStep, OwnsClaim, rounds, history
<1>7. CASE CancelLate
  BY <1>7 DEF CancelLate, NoRequest, OutsideStep, OwnsClaim, durable, rounds, history
<1>8. CASE CancelEnd
  <2>1. wf' \in Rows /\ wf'.status = "cancelled" /\ wf'.owner = wf.owner
          /\ wf'.version = wf.version /\ wf'.lease = wf.lease
    BY <1>8 DEF CancelEnd, WorkflowStatus
  <2>2. CancelAsks /\ run' \in RunStatus /\ (run' = "completed" => run = "completed")
    BY <1>8 DEF CancelEnd, RunStatus
  <2> QED BY <1>8, <2>1, <2>2, CancelAsksDoes
           DEF CancelEnd, NoRequest, OutsideStep, OwnsClaim, history
<1>9. CASE CancelDies
  BY <1>0, <1>9 DEF CancelDies, NoRequest, OutsideStep, OwnsClaim, durable, rounds
<1>10. ASSUME NEW r \in Rounds, ReplyToAsk(r) \/ ExpireAsk(r)
       PROVE  TypeOK' /\ OutsideStep
  <2>1. ASSUME NEW s \in {"resolved", "expired"}, SettleAsk(r, s)
        PROVE  TypeOK' /\ OutsideStep
    <3>1. s \in AskStatus
      BY DEF AskStatus
    <3>2. \A w \in Workers : ~OwnsClaim(w)'
      BY <2>1, <3>1, SettleAskDoes, AgentWorkflowAssumption DEF OwnsClaim
    <3> QED BY <2>1, <3>1, <3>2, SettleAskDoes DEF SettleAsk, OutsideStep, history
  <2>2. CASE /\ asks[r] = "pending"
             /\ run # "running"
             /\ CancelAsks
             /\ UNCHANGED <<wf, run, task, nodes, attempts, saved, messages, late, job,
                            client, history>>
    BY <2>2, CancelAsksDoes DEF OutsideStep, OwnsClaim, history
  <2> QED BY <1>10, <2>1, <2>2 DEF ReplyToAsk, ExpireAsk
<1> QED BY <1>1, <1>2, <1>3, <1>4, <1>5, <1>6, <1>7, <1>8, <1>9, <1>10 DEF Outside

-----------------------------------------------------------------------------
(* The owner *)

\* The fence's columns of the row, and the claim w works under.
FenceKept(w) ==
    /\ wf'.owner = wf.owner /\ wf'.version = wf.version /\ wf'.lease = wf.lease
    /\ job'[w].claim = job[w].claim \/ Gone(w)

LEMMA OwnerStays ==
    ASSUME NEW w \in Workers, Turns(w), FenceKept(w),
           NEW u \in Workers, OwnsClaim(u)', job'[u].pc # "idle"
    PROVE  OwnsClaim(u)
BY IdleJob DEF Turns, Others, FenceKept, Gone, OwnsClaim

\* There is one: where the owner w acts, no other owns anything.
LEMMA OneOwner ==
    ASSUME NEW w \in Workers, Turns(w), FenceKept(w), OwnsClaim(w),
           NEW u \in Workers, OwnsClaim(u)', job'[u].pc # "idle"
    PROVE  u = w
BY OwnerStays DEF OwnsClaim

Onward == Control \ {"begin", "enter", "stop", "sweep", "end"}

LEMMA KnowsAfter ==
    ASSUME NEW w \in Workers, \A u \in Workers : Knows(u), Turns(w),
           TypeOK, \A n \in Node : nodes[n] # "none" => nodes'[n] # "none",
           \/ Same(w) \/ Gone(w) \/ Fall(w)
           \/ job'[w].pc \in Onward /\ job'[w].seen = "none"
    PROVE  \A u \in Workers : Knows(u)'
<1> TAKE u \in Workers
<1> Knows(u)
  OBVIOUS
<1> job[u] \in Job /\ job[w] \in Job
  BY DEF TypeOK
<1>1. CASE u # w
  BY <1>1 DEF Turns, Others, Knows, Job
<1>2. CASE u = w /\ Same(w)
  <2>1. Knows(w)
    OBVIOUS
  <2> QED BY <1>2, <2>1 DEF Same, Knows, Job
<1>3. CASE u = w /\ Gone(w)
  BY <1>3, IdleJob DEF Gone, Knows, Stopping
<1>4. CASE u = w /\ Fall(w)
  BY <1>4 DEF Fall, Knows, Stopping
<1>5. CASE u = w /\ job'[w].pc \in Onward /\ job'[w].seen = "none"
  BY <1>5 DEF Onward, Knows, Stopping
<1> QED BY <1>1, <1>2, <1>3, <1>4, <1>5

LEMMA GoOnward ==
    ASSUME NEW w \in Workers, NEW l \in Onward, Go(w, l)
    PROVE  job'[w].pc \in Onward /\ job'[w].seen = "none"
BY DEF Go

LEMMA StillTyped ==
    ASSUME TypeOK, Still, faults' \in 0..MaxFaults, job' \in [Workers -> Job]
    PROVE  TypeOK'
BY DEF TypeOK, Still, durable, rounds

-----------------------------------------------------------------------------
(* The loop and its checkpoint *)

LEMMA LoopOutside ==
    ASSUME LoopInv, Outside
    PROVE  LoopInv'
<1>1. TypeOK' /\ OutsideStep
  BY OutsideDoes DEF LoopInv
<1>2. ReplyKnown'
  BY <1>1 DEF LoopInv, ReplyKnown, OutsideStep, Answers
<1>3. \A n \in Node : (nodes'[n] = "none" <=> nodes[n] = "none")
  BY <1>1 DEF OutsideStep
<1>4. \A w \in Workers : Knows(w)'
  <2> TAKE w \in Workers
  <2>1. Knows(w) /\ job[w] \in Job
    BY DEF LoopInv, TypeOK
  <2> QED BY <1>1, <1>3, <2>1 DEF OutsideStep, Knows, Job
<1>5. Positions'
  <2> SUFFICES ASSUME NEW w \in Workers, OwnsClaim(w)'
               PROVE  Position(w)'
    BY DEF Positions
  <2>1. Position(w) /\ job[w] \in Job
    BY <1>1 DEF LoopInv, Positions, OutsideStep, TypeOK
  <2>2. tools[job[w].round] \in SettledTool => tools'[job[w].round] \in SettledTool
    BY <1>1, <2>1 DEF OutsideStep, Job
  <2> QED BY <1>1, <1>3, <2>1, <2>2 DEF OutsideStep, Position, Node
<1>6. Saved'
  <2>1. Saved /\ saved.round \in Rounds
    BY DEF LoopInv, TypeOK
  <2>2. \A r \in Rounds : tools[r] \in SettledTool => tools'[r] \in SettledTool
    BY <1>1 DEF OutsideStep
  <2> QED BY <1>1, <1>3, <2>1, <2>2 DEF OutsideStep, Saved, Node
<1> QED BY <1>1, <1>2, <1>4, <1>5, <1>6 DEF LoopInv

LEMMA SavedStill ==
    ASSUME Saved, ReplyKnown, Still
    PROVE  Saved' /\ ReplyKnown'
BY DEF Saved, ReplyKnown, Still, durable, rounds, Answers

LEMMA LoopStays ==
    ASSUME NEW w \in Workers, LoopInv, Stays(w)
    PROVE  LoopInv'
<1>1. TypeOK'
  BY StillTyped DEF LoopInv, Stays, Turns
<1>2. Saved' /\ ReplyKnown'
  BY SavedStill DEF LoopInv, Stays
<1>3. \A u \in Workers : Knows(u)'
  BY KnowsAfter DEF LoopInv, Stays, Still, durable
<1>4. Positions'
  <2> SUFFICES ASSUME NEW u \in Workers, OwnsClaim(u)'
               PROVE  Position(u)'
    BY DEF Positions
  <2>1. FenceKept(w)
    BY DEF Stays, Still, durable, FenceKept, Same, Fall
  <2>2. CASE job'[u].pc \in {"idle", "stop"}
    BY <2>2 DEF Position, InLoop, InCall, InTool
  <2>3. CASE job'[u].pc \notin {"idle", "stop"}
    <3>1. Position(u)
      BY <2>1, <2>3, OwnerStays DEF LoopInv, Positions, Stays
    <3>2. job'[u].pc = job[u].pc /\ job'[u].round = job[u].round
      BY <2>3, IdleJob DEF Stays, Turns, Others, Same, Gone, Fall
    <3> QED BY <3>1, <3>2 DEF Position, Stays, Still, durable, rounds
  <2> QED BY <2>2, <2>3
<1> QED BY <1>1, <1>2, <1>3, <1>4 DEF LoopInv

LEMMA LoopWalks ==
    ASSUME NEW w \in Workers, LoopInv, Walks(w)
    PROVE  LoopInv'
<1> job[w] \in Job /\ job[w].round \in Rounds /\ saved.round \in Rounds
  BY DEF LoopInv, TypeOK, Job
<1>1. TypeOK'
  <2>1. faults' \in 0..MaxFaults
    BY DEF LoopInv, TypeOK, Walks
  <2> QED BY <2>1, StillTyped DEF LoopInv, Walks, Turns
<1>2. Saved' /\ ReplyKnown'
  BY SavedStill DEF LoopInv, Walks
<1>3. \A u \in Workers : Knows(u)'
  <2>1. CASE TakesUp(w)
    <3>1. job'[w].pc \in Onward /\ job'[w].seen = "none"
      BY <2>1 DEF TakesUp, Onward, Control
    <3> QED BY <3>1, KnowsAfter DEF LoopInv, Walks, Still, durable
  <2>2. CASE Go(w, "enter") /\ job[w].pc = "begin"
    <3> TAKE u \in Workers
    <3>1. Knows(u) /\ Knows(w) /\ nodes' = nodes
      BY DEF LoopInv, Walks, Still, durable
    <3> QED BY <2>2, <3>1 DEF Knows, Go, Walks, Turns, Others, Stopping
  <2>3. CASE Sweeps(w)
    <3> TAKE u \in Workers
    <3>1. Knows(u) /\ Knows(w) /\ nodes' = nodes
      BY DEF LoopInv, Walks, Still, durable
    <3>2. job'[w].ending # "none"
      BY <2>3, <3>1, EndingKnown DEF LoopInv, Sweeps
    <3> QED BY <2>3, <3>1, <3>2 DEF Knows, Sweeps, Walks, Turns, Others, Stopping
  <2>4. CASE Gone(w) \/ Fall(w) \/ \E l \in Onward : Go(w, l)
    BY <2>4, KnowsAfter, GoOnward DEF LoopInv, Walks, Still, durable
  <2> QED BY <2>1, <2>2, <2>3, <2>4 DEF Walks, GetsOn, Onward, Control
<1>4. Positions'
  <2> SUFFICES ASSUME NEW u \in Workers, OwnsClaim(u)', job'[u].pc # "idle"
               PROVE  Position(u)'
    BY DEF Positions, Position, InLoop, InCall, InTool
  <2>1. FenceKept(w)
    BY DEF Walks, GetsOn, Still, durable, FenceKept, Go, Fall, TakesUp, Sweeps
  <2>2. Position(u)
    BY <2>1, OwnerStays DEF LoopInv, Positions, Walks
  <2>3. CASE u # w
    BY <2>2, <2>3 DEF Position, Walks, Turns, Others, Still, durable, rounds
  <2>4. CASE u = w
    <3> USE DEF Walks, Still, durable, rounds
    <3>1. CASE TakesUp(w)
      <4>1. nodes["main"] # "none"
        BY <3>1 DEF TakesUp, Resumable
      <4> QED BY <2>4, <3>1, <4>1 DEF TakesUp, Position, InLoop, InCall, InTool
    <3>2. CASE job[w].pc = "begin" /\ ~Resumable /\ Untouched /\ Go(w, "enter")
      <4>1. saved.phase = "none"
        BY <3>2 DEF Resumable, Untouched, LoopInv, Saved, Node
      <4> QED BY <2>4, <3>2, <4>1 DEF Go, Position, InLoop, InCall, InTool
    <3>3. CASE job[w].pc = "model" /\ Go(w, "reserved")
      BY <2>2, <2>4, <3>3 DEF Go, Position, InLoop, InCall, InTool
    <3>4. CASE /\ job[w].pc = "model" /\ attempts[job[w].round].status = "completed"
               /\ Go(w, "keep")
      BY <2>2, <2>4, <3>4 DEF Go, Position, InLoop, InCall, InTool
    <3>5. CASE job[w].pc = "answered" /\ Go(w, "keep")
      BY <2>2, <2>4, <3>5 DEF Go, Position, InLoop, InCall, InTool
    <3>6. CASE job[w].pc = "progress" /\ Go(w, "kept")
      BY <2>2, <2>4, <3>6 DEF Go, Position, InLoop, InCall, InTool
    <3>7. CASE job[w].pc = "respond" /\ attempts[job[w].round].reply # "text" /\ Go(w, "tool")
      <4>1. saved.phase = "model_response" /\ saved.round = job[w].round
              /\ nodes["main"] # "none"
        BY <2>2, <2>4, <3>7 DEF Position, InLoop
      <4>2. attempts[job[w].round].reply \in Answers(job[w].round)
        BY <4>1 DEF LoopInv, Saved, ReplyKnown
      <4>3. job[w].round < MaxRounds
        BY <3>7, <4>2 DEF Answers
      <4> QED BY <2>4, <3>7, <4>1, <4>3 DEF Go, Position, InLoop, InCall, InTool
    <3>8. CASE /\ job[w].pc = "tool" /\ tools[job[w].round] \in SettledTool
               /\ Go(w, "progress")
      BY <2>2, <2>4, <3>8 DEF Go, Position, InLoop, InCall, InTool
    <3>9. CASE Go(w, "close") \/ Go(w, "finish") \/ Sweeps(w) \/ Gone(w) \/ Fall(w)
      BY <2>4, <3>9, IdleJob
         DEF Go, Sweeps, Gone, Fall, Position, InLoop, InCall, InTool
    <3> QED BY <3>1, <3>2, <3>3, <3>4, <3>5, <3>6, <3>7, <3>8, <3>9 DEF GetsOn
  <2> QED BY <2>3, <2>4
<1> QED BY <1>1, <1>2, <1>3, <1>4 DEF LoopInv

LEMMA LoopTool ==
    ASSUME NEW w \in Workers, LoopInv, ToolStep(w)
    PROVE  LoopInv'
<1> job[w] \in Job /\ job[w].round \in Rounds /\ saved.round \in Rounds
  BY DEF LoopInv, TypeOK, Job
<1>0. PICK s \in {"open", "done", "cancelled"} :
        /\ tools' = [tools EXCEPT ![job[w].round] = s]
        /\ \/ /\ job[w].pc = "tool" /\ tools[job[w].round] = "none"
              /\ Go(w, "perform")
           \/ job[w].pc = "perform" /\ (Go(w, "effect") \/ Go(w, "ask"))
           \/ /\ job[w].pc \in {"perform", "effect", "result", "ask", "suspended"}
              /\ s \in SettledTool
              /\ Go(w, "progress") \/ Gone(w) \/ Fall(w)
  BY DEF ToolStep
<1>1. TypeOK'
  <2>1. tools' \in [Rounds -> ToolStatus]
    BY <1>0 DEF LoopInv, TypeOK, ToolStatus
  <2> QED BY <2>1 DEF LoopInv, TypeOK, ToolStep, Turns, history
<1>2. Position(w)
  BY DEF LoopInv, Positions, ToolStep
<1>3. saved.phase = "model_response" /\ saved.round = job[w].round
        /\ nodes["main"] # "none" /\ job[w].round < MaxRounds
  BY <1>0, <1>2 DEF Position, InTool, InLoop
<1>4. Saved'
  <2>1. \A q \in Rounds : q < saved.round => tools'[q] = tools[q]
    BY <1>0, <1>3 DEF LoopInv, TypeOK, Rounds
  <2> QED BY <1>3, <2>1 DEF LoopInv, Saved, ToolStep
<1>5. ReplyKnown'
  BY DEF LoopInv, ReplyKnown, ToolStep, Answers
<1>6. \A u \in Workers : Knows(u)'
  <2>1. Gone(w) \/ Fall(w) \/ \E l \in Onward : Go(w, l)
    BY <1>0 DEF Onward, Control
  <2> QED BY <2>1, KnowsAfter, GoOnward DEF LoopInv, ToolStep
<1>7. Positions'
  <2> SUFFICES ASSUME NEW u \in Workers, OwnsClaim(u)', job'[u].pc # "idle"
               PROVE  Position(u)'
    BY DEF Positions, Position, InLoop, InCall, InTool
  <2>1. FenceKept(w)
    BY <1>0 DEF ToolStep, FenceKept, Go, Fall
  <2>2. u = w
    BY <2>1, OneOwner DEF ToolStep
  <2>3. CASE Go(w, "perform") \/ Go(w, "effect") \/ Go(w, "ask")
    BY <1>3, <2>2, <2>3 DEF Go, ToolStep, Position, InLoop, InCall, InTool
  <2>4. CASE Go(w, "progress") /\ s \in SettledTool
    <3>1. tools'[job[w].round] \in SettledTool
      BY <1>0, <2>4 DEF LoopInv, TypeOK
    <3> QED BY <1>3, <2>2, <2>4, <3>1 DEF Go, ToolStep, Position, InLoop, InCall, InTool
  <2>5. CASE Gone(w) \/ Fall(w)
    BY <2>2, <2>5, IdleJob DEF Gone, Fall, Position, InLoop, InCall, InTool
  <2> QED BY <1>0, <2>3, <2>4, <2>5
<1> QED BY <1>1, <1>4, <1>5, <1>6, <1>7 DEF LoopInv

LEMMA LoopAttempt ==
    ASSUME NEW w \in Workers, LoopInv, AttemptStep(w)
    PROVE  LoopInv'
<1> DEFINE Attempt == [status : AttemptStatus, reply : {"none", "text", "tool", "question"}]
<1> DEFINE j == job[w].round
<1> job[w] \in Job /\ j \in Rounds /\ saved.round \in Rounds /\ attempts \in [Rounds -> Attempt]
  BY DEF LoopInv, TypeOK, Job
<1>1. Position(w)
  BY DEF LoopInv, Positions, AttemptStep
<1>2. /\ saved.phase = "before_model" /\ saved.round = j /\ nodes["main"] # "none"
      /\ job[w].pc \in {"reserved", "dispatch", "provider"}
  BY <1>1 DEF AttemptStep, Position, InCall, InLoop
<1>3. /\ attempts' \in [Rounds -> Attempt]
      /\ \A q \in Rounds : q # j => attempts'[q] = attempts[q]
      /\ attempts'[j].status = "completed" => attempts'[j].reply \in Answers(j)
      /\ \/ attempts'[j].status = "started" /\ Go(w, "dispatch")
         \/ attempts'[j].status = "completed" /\ Go(w, "answered")
         \/ Gone(w) \/ Fall(w)
  <2>0. attempts[j] \in Attempt
    OBVIOUS
  <2>1. CASE /\ attempts' = [attempts EXCEPT ![j].status = "started"]
             /\ Go(w, "dispatch")
    BY <2>0, <2>1 DEF AttemptStatus
  <2>2. CASE /\ \E reply \in Answers(j) :
                    attempts' = [attempts EXCEPT ![j] =
                                    [status |-> "completed", reply |-> reply]]
             /\ Go(w, "answered")
    BY <2>0, <2>2 DEF AttemptStatus, Answers
  <2>3. CASE /\ \E status \in {"failed", "outcome_unknown"} :
                    attempts' = [attempts EXCEPT ![j].status = status]
             /\ Gone(w) \/ Fall(w)
    BY <2>0, <2>3 DEF AttemptStatus
  <2> QED BY <2>1, <2>2, <2>3 DEF AttemptStep
<1>4. TypeOK'
  BY <1>3 DEF LoopInv, TypeOK, AttemptStep, Turns, history
<1>5. ReplyKnown'
  BY <1>3 DEF LoopInv, ReplyKnown, Answers
<1>6. Saved'
  BY <1>2, <1>3 DEF LoopInv, Saved, AttemptStep, Rounds
<1>7. \A u \in Workers : Knows(u)'
  <2>1. Gone(w) \/ Fall(w) \/ \E l \in Onward : Go(w, l)
    BY <1>3 DEF Onward, Control
  <2> QED BY <2>1, KnowsAfter, GoOnward DEF LoopInv, AttemptStep
<1>8. Positions'
  <2> SUFFICES ASSUME NEW u \in Workers, OwnsClaim(u)', job'[u].pc # "idle"
               PROVE  Position(u)'
    BY DEF Positions, Position, InLoop, InCall, InTool
  <2>1. FenceKept(w)
    BY <1>3 DEF AttemptStep, FenceKept, Go, Fall
  <2>2. u = w
    BY <2>1, OneOwner DEF AttemptStep
  <2>3. CASE Go(w, "dispatch") \/ (Go(w, "answered") /\ attempts'[j].status = "completed")
    BY <1>2, <2>2, <2>3 DEF Go, AttemptStep, Position, InLoop, InCall, InTool
  <2>4. CASE Gone(w) \/ Fall(w)
    BY <2>2, <2>4, IdleJob DEF Gone, Fall, Position, InLoop, InCall, InTool
  <2> QED BY <1>3, <2>3, <2>4
<1> QED BY <1>4, <1>5, <1>6, <1>7, <1>8 DEF LoopInv

LEMMA LoopCancel ==
    ASSUME NEW w \in Workers, LoopInv, CancelStep(w)
    PROVE  LoopInv'
<1> DEFINE Attempt == [status : AttemptStatus, reply : {"none", "text", "tool", "question"}]
<1> DEFINE j == job[w].round
<1> job[w] \in Job /\ j \in Rounds /\ saved.round \in Rounds /\ attempts \in [Rounds -> Attempt]
  BY DEF LoopInv, TypeOK, Job
<1>1. \/ attempts' = attempts
      \/ /\ saved.phase = "before_model" /\ saved.round = j
         /\ attempts' \in [Rounds -> Attempt]
         /\ \A q \in Rounds : q # j => attempts'[q] = attempts[q]
         /\ attempts'[j].status # "completed"
  <2>1. CASE /\ OwnsClaim(w) /\ job[w].pc \in {"dispatch", "provider"}
             /\ \E status \in {"cancelled", "outcome_unknown"} :
                   attempts' = [attempts EXCEPT ![j].status = status]
    <3>1. attempts[j] \in Attempt
      OBVIOUS
    <3>2. Position(w)
      BY <2>1 DEF LoopInv, Positions
    <3> QED BY <2>1, <3>1, <3>2 DEF AttemptStatus, Position, InCall
  <2> QED BY <2>1 DEF CancelStep
<1>2. \/ tools' = tools
      \/ /\ tools' \in [Rounds -> ToolStatus]
         /\ \A q \in Rounds : tools'[q] = tools[q] \/ tools'[q] \in SettledTool
  <2>1. CASE tools' = [tools EXCEPT ![j] = "cancelled"]
    BY <2>1 DEF LoopInv, TypeOK, ToolStatus, SettledTool
  <2> QED BY <2>1 DEF CancelStep
<1>3. TypeOK'
  BY <1>1, <1>2 DEF LoopInv, TypeOK, CancelStep, Turns, history
<1>4. ReplyKnown'
  BY <1>1 DEF LoopInv, ReplyKnown, Answers
<1>5. Saved'
  <2>1. \A q \in Rounds : tools[q] \in SettledTool => tools'[q] \in SettledTool
    BY <1>2
  <2>2. CASE attempts' = attempts
    BY <2>1, <2>2 DEF LoopInv, Saved, CancelStep
  <2>3. CASE /\ saved.phase = "before_model" /\ saved.round = j
             /\ \A q \in Rounds : q # j => attempts'[q] = attempts[q]
    BY <2>1, <2>3 DEF LoopInv, Saved, CancelStep, Rounds
  <2> QED BY <1>1, <2>2, <2>3
<1>6. \A u \in Workers : Knows(u)'
  BY KnowsAfter DEF LoopInv, CancelStep
<1>7. Positions'
  <2> SUFFICES ASSUME NEW u \in Workers, OwnsClaim(u)', job'[u].pc # "idle"
               PROVE  Position(u)'
    BY DEF Positions, Position, InLoop, InCall, InTool
  <2>1. FenceKept(w)
    BY DEF CancelStep, FenceKept, Fall
  <2>2. CASE u = w
    BY <2>2, IdleJob DEF CancelStep, Gone, Fall, Position, InLoop, InCall, InTool
  <2>3. CASE u # w
    <3>1. OwnsClaim(u) /\ job'[u] = job[u] /\ Position(u)
      BY <2>1, <2>3, OwnerStays DEF LoopInv, Positions, CancelStep, Turns, Others
    <3>2. ~OwnsClaim(w)
      BY <2>3, <3>1 DEF OwnsClaim
    <3>3. attempts' = attempts /\ tools' = tools
      BY <3>2 DEF CancelStep
    <3> QED BY <3>1, <3>3 DEF CancelStep, Position
  <2> QED BY <2>2, <2>3
<1> QED BY <1>3, <1>4, <1>5, <1>6, <1>7 DEF LoopInv

\* The owner saves a checkpoint.
Saves(w) == NextRound(w) \/ KeepResponse(w) \/ KeepResult(w)

CheckpointStep(w) ==
    /\ OwnsClaim(w) /\ Turns(w) /\ FenceKept(w)
    /\ UNCHANGED <<wf, run, task, nodes, attempts, tools, asks, messages, late, client,
                   calls, effects, faults>>
    /\ \/ /\ job[w].pc = "loop" /\ Go(w, "model")
          /\ saved' = [phase |-> "before_model", round |-> job[w].round]
       \/ /\ job[w].pc = "keep" /\ Go(w, "respond")
          /\ saved' = [phase |-> "model_response", round |-> job[w].round]
       \/ /\ job[w].pc = "kept" /\ job'[w].pc = "loop"
          /\ job'[w].round = job[w].round + 1 /\ (~Snapshots => job'[w].seen = "none")
          /\ saved' = [phase |-> "tool_result", round |-> job[w].round]

LEMMA SavesStep ==
    ASSUME NEW w \in Workers, LoopInv, Saves(w)
    PROVE  CheckpointStep(w)
<1> DEFINE j == job[w].round
<1> job \in [Workers -> Job] /\ job[w] \in Job /\ j \in Rounds
  BY DEF LoopInv, TypeOK, Job
<1>0. /\ OwnsClaim(w) /\ Position(w)
      /\ UNCHANGED <<wf, run, task, nodes, attempts, tools, asks, messages, late, client,
                     calls, effects, faults>>
  BY DEF LoopInv, Positions, Saves, NextRound, KeepResponse, KeepResult, Running, rounds,
         history
<1>1. CASE NextRound(w)
  <2>1. Turns(w) /\ Go(w, "model")
    BY <1>1, GotoJob DEF NextRound, Control
  <2> QED BY <1>0, <1>1, <2>1 DEF NextRound, Checkpoint, CheckpointStep, FenceKept, Go
<1>2. CASE KeepResponse(w)
  <2>1. Turns(w) /\ Go(w, "respond")
    BY <1>2, GotoJob DEF KeepResponse, Control
  <2> QED BY <1>0, <1>2, <2>1 DEF KeepResponse, Checkpoint, CheckpointStep, FenceKept, Go
<1>3. CASE KeepResult(w)
  <2> DEFINE next == [job[w] EXCEPT !.pc = "loop", !.round = @ + 1]
  <2>1. j + 1 \in Rounds
    BY <1>0, <1>3, AgentWorkflowAssumption DEF KeepResult, Position, InTool, Rounds
  <2>2. next \in Job /\ next.pc = "loop" /\ next.round = j + 1
          /\ next.claim = job[w].claim /\ next.seen = job[w].seen
    BY <2>1 DEF Job, Control
  <2>3. Become(w, next)
    BY <1>3 DEF KeepResult
  <2>4. ~Snapshots => job[w].seen = "none"
    BY DEF LoopInv, Knows
  <2> HIDE DEF next
  <2>5. /\ Turns(w) /\ job'[w].pc = "loop" /\ job'[w].round = j + 1
        /\ job'[w].claim = job[w].claim /\ (~Snapshots => job'[w].seen = "none")
    BY <2>2, <2>3, <2>4, BecomeJob
  <2> QED BY <1>0, <1>3, <2>5 DEF KeepResult, Checkpoint, CheckpointStep, FenceKept
<1> QED BY <1>1, <1>2, <1>3 DEF Saves

LEMMA LoopCheckpoint ==
    ASSUME NEW w \in Workers, LoopInv, CheckpointStep(w)
    PROVE  LoopInv'
<1> DEFINE j == job[w].round
<1> job \in [Workers -> Job] /\ job[w] \in Job /\ j \in Rounds /\ saved.round \in Rounds
  BY DEF LoopInv, TypeOK, Job
<1>0. /\ OwnsClaim(w) /\ Position(w) /\ Turns(w) /\ FenceKept(w)
      /\ UNCHANGED <<wf, run, task, nodes, rounds, messages, late, client, history>>
  BY DEF LoopInv, Positions, CheckpointStep, rounds, history
<1>1. \/ /\ job[w].pc = "loop" /\ saved' = [phase |-> "before_model", round |-> j]
         /\ Go(w, "model")
      \/ /\ job[w].pc = "keep" /\ saved' = [phase |-> "model_response", round |-> j]
         /\ Go(w, "respond")
      \/ /\ job[w].pc = "kept" /\ saved' = [phase |-> "tool_result", round |-> j]
         /\ job'[w].pc = "loop" /\ job'[w].round = j + 1
         /\ (~Snapshots => job'[w].seen = "none")
  BY DEF CheckpointStep
<1>2. TypeOK'
  <2>1. saved' \in [phase : Phase, round : Rounds]
    BY <1>1 DEF Phase
  <2> QED BY <1>0, <1>1, <2>1 DEF LoopInv, TypeOK, Turns, rounds, history
<1>3. ReplyKnown'
  BY <1>0 DEF LoopInv, ReplyKnown, rounds, Answers
<1>4. Saved'
  <2> USE <1>0 DEF rounds, LoopInv, Saved
  <2>1. CASE job[w].pc = "loop" /\ saved' = [phase |-> "before_model", round |-> j]
    BY <2>1 DEF Position, InLoop, Rounds
  <2>2. CASE job[w].pc = "keep" /\ saved' = [phase |-> "model_response", round |-> j]
    BY <2>2 DEF Position, InLoop, InCall
  <2>3. CASE job[w].pc = "kept" /\ saved' = [phase |-> "tool_result", round |-> j]
    BY <2>3 DEF Position, InLoop, InTool
  <2> QED BY <1>1, <2>1, <2>2, <2>3
<1>5. \A u \in Workers : Knows(u)'
  <2> TAKE u \in Workers
  <2>1. Knows(u) /\ nodes' = nodes
    BY <1>0 DEF LoopInv
  <2> QED BY <1>0, <1>1, <2>1 DEF Knows, Go, Turns, Others, Stopping
<1>6. Positions'
  <2> SUFFICES ASSUME NEW u \in Workers, OwnsClaim(u)', job'[u].pc # "idle"
               PROVE  Position(u)'
    BY DEF Positions, Position, InLoop, InCall, InTool
  <2>1. FenceKept(w)
    BY <1>0
  <2>2. u = w
    BY <1>0, <2>1, OneOwner
  <2>3. nodes'["main"] # "none"
    BY <1>0, <1>1 DEF Position, InLoop, InCall, InTool
  <2>4. CASE /\ job[w].pc = "loop" /\ saved' = [phase |-> "before_model", round |-> j]
             /\ Go(w, "model")
    BY <2>2, <2>3, <2>4 DEF Go, Position, InLoop, InCall, InTool
  <2>5. CASE /\ job[w].pc = "keep" /\ saved' = [phase |-> "model_response", round |-> j]
             /\ Go(w, "respond")
    BY <2>2, <2>3, <2>5 DEF Go, Position, InLoop, InCall, InTool
  <2>6. CASE /\ saved' = [phase |-> "tool_result", round |-> j]
             /\ job'[w].pc = "loop" /\ job'[w].round = j + 1
    BY <2>2, <2>3, <2>6 DEF Position, InLoop, InCall, InTool
  <2> QED BY <1>1, <2>4, <2>5, <2>6
<1> QED BY <1>2, <1>3, <1>4, <1>5, <1>6 DEF LoopInv

\* The owner saves a node; the last one with the end of workflow and Run.
SavesNode(w) ==
    \/ Enter(w) \/ FinishMain(w) \/ StartFinal(w) \/ Deliver(w)
    \/ StartCompletion(w) \/ Complete(w)

NodeStep(w) ==
    /\ Running(w) /\ Turns(w) /\ UNCHANGED <<rounds, saved, late, client, history>>
    /\ \/ /\ job[w].pc = "enter" /\ Go(w, "loop")
          /\ \/ /\ nodes["main"] = "none" /\ task' = "running"
                /\ nodes' = [nodes EXCEPT !["main"] = "running"]
             \/ nodes["main"] # "none" /\ UNCHANGED <<nodes, task>>
          /\ UNCHANGED <<wf, run, messages>>
       \/ /\ job[w].pc = "finish" /\ Go(w, "final")
          /\ nodes' = [nodes EXCEPT !["main"] = "completed"]
          /\ UNCHANGED <<wf, run, task, messages>>
       \/ /\ job[w].pc = "final" /\ Go(w, "deliver") /\ nodes["final"] = "none"
          /\ nodes' = [nodes EXCEPT !["final"] = "running"] /\ task' = "completed"
          /\ UNCHANGED <<wf, run, messages>>
       \/ /\ job[w].pc \in {"final", "deliver"} /\ Go(w, "close")
          /\ nodes' = [nodes EXCEPT !["final"] = "completed"] /\ task' = "completed"
          /\ messages' = messages + 1
          /\ UNCHANGED <<wf, run>>
       \/ /\ job[w].pc = "close" /\ Go(w, "complete") /\ nodes["completion"] = "none"
          /\ nodes' = [nodes EXCEPT !["completion"] = "running"]
          /\ UNCHANGED <<wf, run, task, messages>>
       \/ /\ job[w].pc \in {"close", "complete"} /\ Gone(w)
          /\ nodes' = [nodes EXCEPT !["completion"] = "completed"]
          /\ wf' = [wf EXCEPT !.status = "completed"] /\ run' = "completed"
          /\ UNCHANGED <<task, messages>>

LEMMA SavesNodeStep ==
    ASSUME NEW w \in Workers, TypeOK, SavesNode(w)
    PROVE  NodeStep(w)
<1> USE DEF TypeOK
<1>1. CASE Enter(w)
  <2>1. Turns(w) /\ Go(w, "loop")
    BY <1>1, GotoJob DEF Enter, Control
  <2> QED BY <1>1, <2>1 DEF Enter, NodeStep
<1>2. CASE FinishMain(w)
  <2>1. Turns(w) /\ Go(w, "final")
    BY <1>2, GotoJob DEF FinishMain, Control
  <2> QED BY <1>2, <2>1 DEF FinishMain, SaveNode, NodeStep
<1>3. CASE StartFinal(w)
  <2>1. Turns(w) /\ Go(w, "deliver")
    BY <1>3, GotoJob DEF StartFinal, Control
  <2> QED BY <1>3, <2>1 DEF StartFinal, SaveNode, NodeStep
<1>4. CASE Deliver(w)
  <2>1. Turns(w) /\ Go(w, "close")
    BY <1>4, GotoJob DEF Deliver, Control
  <2> QED BY <1>4, <2>1 DEF Deliver, SaveNode, NodeStep
<1>5. CASE StartCompletion(w)
  <2>1. Turns(w) /\ Go(w, "complete")
    BY <1>5, GotoJob DEF StartCompletion, Control
  <2> QED BY <1>5, <2>1 DEF StartCompletion, SaveNode, NodeStep
<1>6. CASE Complete(w)
  <2>1. Turns(w) /\ Gone(w)
    BY <1>6, RetireJob DEF Complete
  <2> QED BY <1>6, <2>1 DEF Complete, SaveNode, NodeStep
<1> QED BY <1>1, <1>2, <1>3, <1>4, <1>5, <1>6 DEF SavesNode

LEMMA NodeKept ==
    ASSUME NEW w \in Workers, TypeOK, NodeStep(w)
    PROVE  /\ nodes' \in [Node -> NodeStatus]
           /\ \A n \in Node : nodes[n] # "none" => nodes'[n] # "none"
           /\ FenceKept(w)
           /\ Gone(w) \/ \E l \in Onward : Go(w, l)
<1> USE DEF TypeOK
<1>1. CASE job[w].pc = "enter"
  BY <1>1 DEF NodeStep, NodeStatus, Node, FenceKept, Go, Onward, Control
<1>2. CASE job[w].pc # "enter"
  <2>1. PICK n \in Node, s \in {"running", "completed"} : nodes' = [nodes EXCEPT ![n] = s]
    BY <1>2 DEF NodeStep, Node
  <2>2. /\ nodes' \in [Node -> NodeStatus]
        /\ \A m \in Node : nodes[m] # "none" => nodes'[m] # "none"
    BY <2>1 DEF NodeStatus
  <2>3. wf'.owner = wf.owner /\ wf'.version = wf.version /\ wf'.lease = wf.lease
    BY <1>2 DEF NodeStep
  <2>4. Gone(w) \/ \E l \in Onward : Go(w, l)
    BY <1>2 DEF NodeStep, Onward, Control
  <2> QED BY <2>2, <2>3, <2>4 DEF FenceKept, Go
<1> QED BY <1>1, <1>2

LEMMA LoopNode ==
    ASSUME NEW w \in Workers, LoopInv, NodeStep(w)
    PROVE  LoopInv'
<1> job[w] \in Job /\ TypeOK
  BY DEF LoopInv, TypeOK
<1>1. OwnsClaim(w) /\ Position(w)
  BY DEF LoopInv, Positions, NodeStep, Running
<1>2. TypeOK'
  <2>1. task' \in TaskStatus /\ run' \in RunStatus /\ messages' \in Nat
    BY DEF NodeStep, TypeOK, TaskStatus, RunStatus
  <2>2. wf' \in [status : WorkflowStatus, owner : Workers \cup {NoWorker},
                 version : 0..MaxVersion, lease : {"none", "live", "expired"}]
    <3>1. wf' = wf \/ wf' = [wf EXCEPT !.status = "completed"]
      BY DEF NodeStep
    <3> QED BY <3>1 DEF TypeOK, WorkflowStatus
  <2> QED BY <2>1, <2>2, NodeKept DEF NodeStep, TypeOK, Turns, rounds, history
<1>3. ReplyKnown'
  BY DEF LoopInv, ReplyKnown, NodeStep, rounds, Answers
<1>4. Saved'
  <2>1. nodes'["main"] = "none" => saved.phase = "none"
    BY NodeKept DEF LoopInv, Saved, Node
  <2> QED BY <2>1 DEF LoopInv, Saved, NodeStep, rounds
<1>5. \A u \in Workers : Knows(u)'
  BY NodeKept, KnowsAfter, GoOnward DEF LoopInv, NodeStep
<1>6. Positions'
  <2> SUFFICES ASSUME NEW u \in Workers, OwnsClaim(u)', job'[u].pc # "idle"
               PROVE  Position(u)'
    BY DEF Positions, Position, InLoop, InCall, InTool
  <2>1. u = w
    BY <1>1, NodeKept, OneOwner DEF NodeStep
  <2>2. CASE job[w].pc = "enter"
    <3>1. job[w].round = 1 /\ saved.phase = "none"
      BY <1>1, <2>2 DEF LoopInv, Knows, Position
    <3>2. nodes'["main"] # "none"
      BY <2>2 DEF NodeStep, TypeOK, Node
    <3>3. Go(w, "loop") /\ saved' = saved
      BY <2>2 DEF NodeStep
    <3> QED BY <2>1, <3>1, <3>2, <3>3 DEF Go, Position, InLoop, InCall, InTool
  <2>3. CASE job[w].pc # "enter"
    <3>1. job'[w].pc \in {"idle", "final", "deliver", "close", "complete"}
      BY <2>3, IdleJob DEF NodeStep, Go, Gone
    <3> QED BY <2>1, <3>1 DEF Position, InLoop, InCall, InTool
  <2> QED BY <2>2, <2>3
<1> QED BY <1>2, <1>3, <1>4, <1>5, <1>6 DEF LoopInv

\* The call and the operation, under no fence.
CallStep(w) ==
    /\ Turns(w) /\ UNCHANGED <<durable, late, client, faults>>
    /\ \/ /\ job[w].pc = "dispatch" /\ Go(w, "provider")
          /\ calls' = [calls EXCEPT ![job[w].round] = @ + 1]
          /\ UNCHANGED effects
       \/ /\ job[w].pc = "effect" /\ Go(w, "result")
          /\ effects' = [effects EXCEPT ![job[w].round] = @ + 1]
          /\ UNCHANGED calls

LEMMA CallsStep ==
    ASSUME NEW w \in Workers, TypeOK, Dispatch(w) \/ PerformTool(w)
    PROVE  CallStep(w)
<1> USE DEF TypeOK
<1>1. CASE Dispatch(w)
  <2>1. Turns(w) /\ Go(w, "provider")
    BY <1>1, GotoJob DEF Dispatch, Control
  <2> QED BY <1>1, <2>1 DEF Dispatch, CallStep
<1>2. CASE PerformTool(w)
  <2>1. Turns(w) /\ Go(w, "result")
    BY <1>2, GotoJob DEF PerformTool, Control
  <2> QED BY <1>2, <2>1 DEF PerformTool, CallStep
<1> QED BY <1>1, <1>2

LEMMA LoopCall ==
    ASSUME NEW w \in Workers, LoopInv, CallStep(w)
    PROVE  LoopInv'
<1> job[w] \in Job /\ job[w].round \in Rounds
  BY DEF LoopInv, TypeOK, Job
<1>1. TypeOK'
  <2>1. calls \in [Rounds -> Nat] /\ effects \in [Rounds -> Nat]
    BY DEF LoopInv, TypeOK
  <2>2. calls' \in [Rounds -> Nat]
    <3>1. CASE calls' = calls
      BY <2>1, <3>1
    <3>2. CASE calls' = [calls EXCEPT ![job[w].round] = @ + 1]
      BY <2>1, <3>2
    <3> QED BY <3>1, <3>2 DEF CallStep
  <2>3. effects' \in [Rounds -> Nat]
    <3>1. CASE effects' = effects
      BY <2>1, <3>1
    <3>2. CASE effects' = [effects EXCEPT ![job[w].round] = @ + 1]
      BY <2>1, <3>2
    <3> QED BY <3>1, <3>2 DEF CallStep
  <2>4. job' \in [Workers -> Job] /\ UNCHANGED <<durable, late, client, faults>>
    BY DEF CallStep, Turns
  <2> QED BY <2>2, <2>3, <2>4 DEF LoopInv, TypeOK, durable, rounds
<1>2. ReplyKnown' /\ Saved'
  BY DEF LoopInv, ReplyKnown, Saved, CallStep, durable, rounds, Answers
<1>3. \A u \in Workers : Knows(u)'
  <2>1. \E l \in Onward : Go(w, l)
    BY DEF CallStep, Onward, Control
  <2> QED BY <2>1, KnowsAfter, GoOnward DEF LoopInv, CallStep, durable
<1>4. Positions'
  <2> SUFFICES ASSUME NEW u \in Workers, OwnsClaim(u)', job'[u].pc # "idle"
               PROVE  Position(u)'
    BY DEF Positions, Position, InLoop, InCall, InTool
  <2>1. FenceKept(w)
    BY DEF CallStep, FenceKept, Go, durable
  <2>2. Position(u)
    BY <2>1, OwnerStays DEF LoopInv, Positions, CallStep
  <2>3. CASE u # w
    BY <2>2, <2>3 DEF Position, CallStep, Turns, Others, durable, rounds
  <2>4. CASE u = w
    BY <2>2, <2>4 DEF CallStep, Go, Position, InLoop, InCall, InTool, durable, rounds
  <2> QED BY <2>3, <2>4
<1> QED BY <1>1, <1>2, <1>3, <1>4 DEF LoopInv

LEMMA AskJob ==
    ASSUME NEW w \in Workers, TypeOK, Ask(w)
    PROVE  Turns(w) /\ Go(w, "suspended")
BY GotoJob DEF Ask, TypeOK, Control

LEMMA LoopAsk ==
    ASSUME NEW w \in Workers, LoopInv, Ask(w)
    PROVE  LoopInv'
<1> job[w] \in Job /\ job[w].round \in Rounds /\ saved.round \in Rounds
  BY DEF LoopInv, TypeOK, Job
<1>1. Turns(w) /\ Go(w, "suspended")
  BY AskJob DEF LoopInv
<1>2. /\ OwnsClaim(w) /\ Position(w) /\ job[w].pc = "ask"
      /\ UNCHANGED <<run, task, nodes, attempts, saved, messages, late, client, history>>
  BY DEF LoopInv, Positions, Ask
<1>3. /\ wf' \in [status : WorkflowStatus, owner : Workers \cup {NoWorker},
                  version : 0..MaxVersion, lease : {"none", "live", "expired"}]
      /\ wf'.owner = wf.owner /\ wf'.version = wf.version /\ wf'.lease = wf.lease
  BY DEF LoopInv, TypeOK, Ask, WorkflowStatus
<1>4. TypeOK'
  <2>1. tools' \in [Rounds -> ToolStatus] /\ asks' \in [Rounds -> AskStatus]
    BY DEF LoopInv, TypeOK, Ask, ToolStatus, AskStatus
  <2> QED BY <1>1, <1>2, <1>3, <2>1 DEF LoopInv, TypeOK, Turns, history
<1>5. ReplyKnown'
  BY <1>2 DEF LoopInv, ReplyKnown, Answers
<1>6. saved.phase = "model_response" /\ saved.round = job[w].round
        /\ nodes["main"] # "none" /\ job[w].round < MaxRounds
  BY <1>2 DEF Position, InTool, InLoop
<1>7. Saved'
  <2>1. \A q \in Rounds : q < saved.round => tools'[q] = tools[q]
    BY <1>6 DEF LoopInv, TypeOK, Rounds, Ask
  <2> QED BY <1>2, <1>6, <2>1 DEF LoopInv, Saved
<1>8. \A u \in Workers : Knows(u)'
  <2>1. "suspended" \in Onward
    BY DEF Onward, Control
  <2> QED BY <1>1, <1>2, <2>1, KnowsAfter, GoOnward DEF LoopInv
<1>9. Positions'
  <2> SUFFICES ASSUME NEW u \in Workers, OwnsClaim(u)', job'[u].pc # "idle"
               PROVE  Position(u)'
    BY DEF Positions, Position, InLoop, InCall, InTool
  <2>1. FenceKept(w)
    BY <1>1, <1>3 DEF FenceKept, Go
  <2>2. u = w
    BY <1>1, <1>2, <2>1, OneOwner
  <2> QED BY <1>1, <1>2, <1>6, <2>2 DEF Go, Position, InLoop, InCall, InTool
<1> QED BY <1>4, <1>5, <1>7, <1>8, <1>9 DEF LoopInv

\* The owner ends a node, then workflow and Run.
EndStep(w) ==
    /\ OwnsClaim(w) /\ Turns(w)
    /\ UNCHANGED <<attempts, saved, messages, task, late, client, history>>
    /\ \/ /\ job[w].pc = "sweep" /\ Go(w, "end")
          /\ nodes' = [n \in Node |-> IF n = job[w].victim THEN job[w].ending ELSE nodes[n]]
          /\ UNCHANGED <<wf, run, tools, asks>>
       \/ /\ job[w].pc = "end" /\ Gone(w)
          /\ wf' = [wf EXCEPT !.status = job[w].ending]
          /\ run' \in {"cancelled", "failed"}
          /\ CancelAsks \/ UNCHANGED <<asks, tools>>
          /\ UNCHANGED nodes

LEMMA EndsStep ==
    ASSUME NEW w \in Workers, TypeOK, EndNode(w) \/ EndWorkflow(w)
    PROVE  EndStep(w)
<1> USE DEF TypeOK
<1>1. CASE EndNode(w)
  <2>1. Turns(w) /\ Go(w, "end")
    BY <1>1, GotoJob DEF EndNode, Control
  <2> QED BY <1>1, <2>1 DEF EndNode, EndStep, rounds
<1>2. CASE EndWorkflow(w)
  <2>1. Turns(w) /\ Gone(w)
    BY <1>2, RetireJob DEF EndWorkflow
  <2> QED BY <1>2, <2>1 DEF EndWorkflow, EndStep
<1> QED BY <1>1, <1>2

LEMMA EndStepKeeps ==
    ASSUME NEW w \in Workers, LoopInv, EndStep(w)
    PROVE  /\ TypeOK' /\ FenceKept(w)
           /\ \A n \in Node : nodes[n] # "none" => nodes'[n] # "none"
           /\ nodes'["main"] = "none" => nodes["main"] = "none"
           /\ \A r \in Rounds : tools'[r] = tools[r] \/ tools'[r] \in SettledTool
<1> job[w] \in Job /\ Knows(w) /\ TypeOK
  BY DEF LoopInv, TypeOK
<1>1. job[w].ending \in {"failed", "cancelled", "outcome_unknown"}
  BY DEF EndStep, Knows, Stopping, Job
<1>2. CASE /\ job[w].pc = "sweep" /\ Go(w, "end")
           /\ nodes' = [n \in Node |-> IF n = job[w].victim THEN job[w].ending ELSE nodes[n]]
           /\ UNCHANGED <<wf, run, tools, asks>>
  <2>1. nodes' \in [Node -> NodeStatus]
          /\ \A n \in Node : nodes'[n] # "none" \/ nodes'[n] = nodes[n]
    BY <1>1, <1>2 DEF TypeOK, NodeStatus
  <2> QED BY <1>2, <2>1 DEF TypeOK, EndStep, Turns, FenceKept, Go, Node, history
<1>3. CASE /\ job[w].pc = "end" /\ Gone(w)
           /\ wf' = [wf EXCEPT !.status = job[w].ending]
           /\ run' \in {"cancelled", "failed"}
           /\ CancelAsks \/ UNCHANGED <<asks, tools>>
           /\ UNCHANGED nodes
  <2>1. /\ wf' \in [status : WorkflowStatus, owner : Workers \cup {NoWorker},
                    version : 0..MaxVersion, lease : {"none", "live", "expired"}]
        /\ wf'.owner = wf.owner /\ wf'.version = wf.version /\ wf'.lease = wf.lease
    BY <1>1, <1>3 DEF TypeOK, WorkflowStatus
  <2>2. /\ asks' \in [Rounds -> AskStatus] /\ tools' \in [Rounds -> ToolStatus]
        /\ \A r \in Rounds : tools'[r] = tools[r] \/ tools'[r] \in SettledTool
    BY <1>3, CancelAsksDoes DEF TypeOK
  <2>3. run' \in RunStatus
    BY <1>3 DEF RunStatus
  <2> QED BY <1>3, <2>1, <2>2, <2>3 DEF TypeOK, EndStep, Turns, FenceKept, history
<1> QED BY <1>2, <1>3 DEF EndStep

LEMMA LoopEnds ==
    ASSUME NEW w \in Workers, LoopInv, EndStep(w)
    PROVE  LoopInv'
<1>1. ReplyKnown'
  BY DEF LoopInv, ReplyKnown, EndStep, Answers
<1>2. Saved'
  <2>1. \A r \in Rounds : tools[r] \in SettledTool => tools'[r] \in SettledTool
    BY EndStepKeeps
  <2> QED BY <2>1, EndStepKeeps DEF LoopInv, Saved, EndStep, TypeOK
<1>3. \A u \in Workers : Knows(u)'
  <2>1. CASE Gone(w)
    BY <2>1, EndStepKeeps, KnowsAfter DEF LoopInv, EndStep
  <2>2. CASE Go(w, "end") /\ job[w].pc = "sweep"
    <3> TAKE u \in Workers
    <3>1. Knows(u) /\ Knows(w) /\ job[u] \in Job
      BY DEF LoopInv, TypeOK
    <3>2. \A n \in Node : nodes[n] # "none" => nodes'[n] # "none"
      BY EndStepKeeps
    <3>3. CASE u = w
      BY <2>2, <3>1, <3>3 DEF Knows, Go, Stopping
    <3>4. CASE u # w
      BY <3>1, <3>2, <3>4 DEF Knows, EndStep, Turns, Others, Job
    <3> QED BY <3>3, <3>4
  <2> QED BY <2>1, <2>2 DEF EndStep
<1>4. Positions'
  <2> SUFFICES ASSUME NEW u \in Workers, OwnsClaim(u)', job'[u].pc # "idle"
               PROVE  Position(u)'
    BY DEF Positions, Position, InLoop, InCall, InTool
  <2>1. u = w
    BY EndStepKeeps, OneOwner DEF EndStep
  <2> QED BY <2>1, IdleJob DEF EndStep, Go, Gone, Position, InLoop, InCall, InTool
<1> QED BY <1>1, <1>2, <1>3, <1>4, EndStepKeeps DEF LoopInv

LEMMA ClaimJob ==
    ASSUME NEW w \in Workers, TypeOK, Claim(w)
    PROVE  /\ TypeOK' /\ Turns(w) /\ job'[w].pc = "begin" /\ job'[w].round = 1
           /\ job'[w].seen = "none"
<1> USE DEF TypeOK
<1> DEFINE k == [NoJob EXCEPT !.pc = "begin", !.beating = TRUE, !.claim = NextVersion]
<1>1. NextVersion \in 0..MaxVersion
  BY AgentWorkflowAssumption DEF NextVersion
<1>2. k \in Job /\ k.pc = "begin" /\ k.round = 1 /\ k.seen = "none"
  BY <1>1, IdleJob DEF NoJob, Job, Control
<1>3. job' = [job EXCEPT ![w] = k]
  BY DEF Claim
<1> HIDE DEF k
<1>4. /\ job' \in [Workers -> Job] /\ Others(w) /\ job'[w].pc = "begin"
      /\ job'[w].round = 1 /\ job'[w].seen = "none"
  BY <1>2, <1>3 DEF Others
<1>5. wf' \in [status : WorkflowStatus, owner : Workers \cup {NoWorker},
               version : 0..MaxVersion, lease : {"none", "live", "expired"}]
  BY <1>1 DEF Claim, WorkflowStatus
<1> QED BY <1>4, <1>5 DEF Claim, Turns, rounds, history

LEMMA LoopClaim ==
    ASSUME NEW w \in Workers, LoopInv, Claim(w)
    PROVE  LoopInv'
<1>1. ReplyKnown' /\ Saved'
  BY DEF LoopInv, ReplyKnown, Saved, Claim, rounds, Answers
<1>2. \A u \in Workers : Knows(u)'
  <2> TAKE u \in Workers
  <2>1. Knows(u) /\ nodes' = nodes
    BY DEF LoopInv, Claim
  <2> QED BY <2>1, ClaimJob DEF LoopInv, Knows, Turns, Others, Stopping
<1>3. Positions'
  <2> SUFFICES ASSUME NEW u \in Workers, OwnsClaim(u)'
               PROVE  Position(u)'
    BY DEF Positions
  <2>1. u = w
    BY DEF OwnsClaim, Claim
  <2> QED BY <2>1, ClaimJob DEF LoopInv, Position, InLoop, InCall, InTool
<1> QED BY <1>1, <1>2, <1>3, ClaimJob DEF LoopInv

-----------------------------------------------------------------------------
(* Every step *)

StepOf(w) ==
    \/ Stays(w) \/ Walks(w) \/ ToolStep(w) \/ AttemptStep(w) \/ CancelStep(w)
    \/ CheckpointStep(w) \/ NodeStep(w) \/ CallStep(w) \/ Ask(w) \/ EndStep(w)
    \/ Claim(w)

LEMMA EveryStep ==
    ASSUME LoopInv, Next
    PROVE  Outside \/ \E w \in Workers : StepOf(w)
<1>1. CASE Outside
  BY <1>1
<1>2. ASSUME NEW w \in Workers, Work(w) \/ Crash(w) \/ Interrupt(w)
      PROVE  StepOf(w)
  <2>1. CASE Idle(w)
    BY <2>1, IdleStays DEF LoopInv, StepOf
  <2>2. CASE Walk(w)
    BY <2>2, WalkWalks DEF LoopInv, StepOf
  <2>3. CASE SavesTool(w)
    BY <2>3, SavesToolStep DEF LoopInv, StepOf
  <2>4. CASE SavesAttempt(w)
    BY <2>4, SavesAttemptStep DEF LoopInv, StepOf
  <2>5. CASE Cancelled(w)
    BY <2>5, CancelledStep DEF LoopInv, StepOf
  <2>6. CASE SavesNode(w)
    BY <2>6, SavesNodeStep DEF LoopInv, StepOf
  <2>7. CASE Dispatch(w) \/ PerformTool(w)
    BY <2>7, CallsStep DEF LoopInv, StepOf
  <2>8. CASE EndNode(w) \/ EndWorkflow(w)
    BY <2>8, EndsStep DEF LoopInv, StepOf
  <2>9. CASE Saves(w) \/ Ask(w) \/ Claim(w)
    BY <2>9, SavesStep DEF StepOf
  <2> QED BY <1>2, <2>1, <2>2, <2>3, <2>4, <2>5, <2>6, <2>7, <2>8, <2>9
           DEF Work, Proceed, Idle, Walk, SavesTool, SavesAttempt, SavesNode, Saves
<1> QED BY <1>1, <1>2 DEF Next, Outside

LEMMA Unchanged ==
    ASSUME UNCHANGED vars
    PROVE  UNCHANGED <<wf, run, task, nodes, attempts, tools, asks, saved, messages,
                       late, job, client, calls, effects, faults>>
BY DEF vars, durable, rounds, history

LEMMA LoopInit == Init => LoopInv
<1> SUFFICES ASSUME Init PROVE LoopInv
  OBVIOUS
<1> USE AgentWorkflowAssumption DEF Init
<1>1. 1 \in Rounds /\ 0 \in 0..MaxVersion /\ 0 \in 0..MaxFaults
  BY DEF Rounds
<1>2. /\ wf \in [status : WorkflowStatus, owner : Workers \cup {NoWorker},
                 version : 0..MaxVersion, lease : {"none", "live", "expired"}]
      /\ run \in RunStatus /\ task \in TaskStatus /\ nodes \in [Node -> NodeStatus]
      /\ saved \in [phase : Phase, round : Rounds]
      /\ client \in [pc : {"idle", "app", "closing"}, run : RunStatus \cup {"none"}]
      /\ job \in [Workers -> Job]
  BY <1>1, IdleJob
     DEF WorkflowStatus, RunStatus, TaskStatus, NodeStatus, Phase, NoRequest
<1>3. /\ attempts \in [Rounds -> [status : AttemptStatus,
                                  reply : {"none", "text", "tool", "question"}]]
      /\ tools \in [Rounds -> ToolStatus] /\ asks \in [Rounds -> AskStatus]
      /\ calls \in [Rounds -> Nat] /\ effects \in [Rounds -> Nat] /\ messages \in Nat
  BY DEF NoAttempt, AttemptStatus, ToolStatus, AskStatus
<1>4. TypeOK
  BY <1>1, <1>2, <1>3 DEF TypeOK
<1>5. ReplyKnown /\ Saved
  BY <1>1 DEF ReplyKnown, Saved, NoAttempt, Rounds, Node
<1>6. \A w \in Workers : Knows(w)
  BY IdleJob DEF Knows, Stopping
<1>7. Positions
  BY DEF Positions, OwnsClaim
<1> QED BY <1>4, <1>5, <1>6, <1>7 DEF LoopInv

LEMMA LoopNext ==
    ASSUME LoopInv, [Next]_vars
    PROVE  LoopInv'
<1>1. CASE Outside
  BY <1>1, LoopOutside
<1>2. ASSUME NEW w \in Workers, StepOf(w)
      PROVE  LoopInv'
  BY <1>2, LoopStays, LoopWalks, LoopTool, LoopAttempt, LoopCancel, LoopCheckpoint,
     LoopNode, LoopCall, LoopAsk, LoopEnds, LoopClaim DEF StepOf
<1>3. CASE UNCHANGED vars
  <2> USE <1>3, Unchanged
  <2>1. TypeOK'
    BY DEF LoopInv, TypeOK
  <2>2. ReplyKnown' /\ Saved'
    BY DEF LoopInv, ReplyKnown, Saved, Answers
  <2>3. \A w \in Workers : Knows(w)'
    BY DEF LoopInv, Knows
  <2>4. Positions'
    BY DEF LoopInv, Positions, Position, OwnsClaim
  <2> QED BY <2>1, <2>2, <2>3, <2>4 DEF LoopInv
<1> QED BY <1>1, <1>2, <1>3, EveryStep

\* Type correctness, for any number of workers, rounds and faults.
THEOREM TypeCorrect == Spec => []TypeOK
<1>1. LoopInv => TypeOK
  BY DEF LoopInv
<1> QED BY <1>1, LoopInit, LoopNext, PTL DEF Spec

-----------------------------------------------------------------------------
(* Nothing is sent or performed twice *)

\* A step that calls nothing, drops no row, and after which its job is not about
\* to send, or stands where it stood.
LEMMA SentFrame ==
    ASSUME TypeOK, Sent, NEW w \in Workers, Turns(w), UNCHANGED <<calls, effects>>,
           \A r \in Rounds : attempts'[r].status = "none" => attempts[r].status = "none",
           \A r \in Rounds : tools'[r] = "none" => tools[r] = "none",
           \/ job'[w].pc \notin {"dispatch"} \cup Performing
           \/ job'[w].pc = job[w].pc /\ job'[w].round = job[w].round
    PROVE  Sent'
<1>1. \A u \in Workers : job[u] \in Job /\ job[u].round \in Rounds
  BY DEF TypeOK, Job
<1>2. AtMostOnce'
  BY DEF Sent, AtMostOnce
<1>3. \A r \in Rounds : /\ attempts'[r].status = "none" => calls'[r] = 0
                        /\ tools'[r] = "none" => effects'[r] = 0
  BY DEF Sent
<1>4. \A u \in Workers : \/ job'[u].pc \notin {"dispatch"} \cup Performing
                         \/ job'[u].pc = job[u].pc /\ job'[u].round = job[u].round
  BY DEF Turns, Others
<1>5. \A u \in Workers :
        /\ job'[u].pc = "dispatch" =>
              attempts'[job'[u].round].status # "none" /\ calls'[job'[u].round] = 0
        /\ job'[u].pc \in Performing =>
              tools'[job'[u].round] # "none" /\ effects'[job'[u].round] = 0
  BY <1>1, <1>4 DEF Sent
<1>6. \A u, v \in Workers : u # v /\ job'[u].round = job'[v].round =>
        /\ ~(job'[u].pc = "dispatch" /\ job'[v].pc = "dispatch")
        /\ ~(job'[u].pc \in Performing /\ job'[v].pc \in Performing)
  BY <1>4 DEF Sent
<1> QED BY <1>2, <1>3, <1>5, <1>6 DEF Sent

LEMMA SentTool ==
    ASSUME NEW w \in Workers, LoopInv, Sent, ToolStep(w)
    PROVE  Sent'
<1> DEFINE j == job[w].round
<1> \A u \in Workers : job[u] \in Job /\ job[u].round \in Rounds
  BY DEF LoopInv, TypeOK, Job
<1>1. PICK s \in {"open", "done", "cancelled"} : tools' = [tools EXCEPT ![j] = s]
  BY DEF ToolStep
<1>2. /\ UNCHANGED <<attempts, calls, effects>> /\ Turns(w)
      /\ \A r \in Rounds : tools'[r] = "none" => tools[r] = "none"
      /\ tools'[j] # "none"
  BY <1>1 DEF LoopInv, TypeOK, ToolStep, history
<1>3. CASE job'[w].pc \notin {"dispatch"} \cup Performing
  BY <1>2, <1>3, SentFrame DEF LoopInv
<1>4. CASE /\ job'[w].round = j
           /\ \/ job[w].pc = "tool" /\ tools[j] = "none" /\ job'[w].pc = "perform"
              \/ job[w].pc = "perform" /\ job'[w].pc = "effect"
  <2>1. effects[j] = 0
    BY <1>4 DEF Sent, Performing
  <2>2. \A u \in Workers : u # w => job'[u] = job[u]
    BY <1>2 DEF Turns, Others
  <2>3. \A u \in Workers : u # w /\ job[u].round = j => job[u].pc \notin Performing
    BY <1>4 DEF Sent, Performing
  <2>4. \A u \in Workers :
          /\ job'[u].pc = "dispatch" =>
                attempts'[job'[u].round].status # "none" /\ calls'[job'[u].round] = 0
          /\ job'[u].pc \in Performing =>
                tools'[job'[u].round] # "none" /\ effects'[job'[u].round] = 0
    <3> TAKE u \in Workers
    <3>1. CASE u = w
      BY <1>2, <1>4, <2>1, <3>1 DEF Performing
    <3>2. CASE u # w
      BY <1>2, <2>2, <3>2 DEF Sent
    <3> QED BY <3>1, <3>2
  <2>5. \A u, v \in Workers : u # v /\ job'[u].round = job'[v].round =>
          /\ ~(job'[u].pc = "dispatch" /\ job'[v].pc = "dispatch")
          /\ ~(job'[u].pc \in Performing /\ job'[v].pc \in Performing)
    BY <1>4, <2>2, <2>3 DEF Sent
  <2> QED BY <1>2, <2>4, <2>5 DEF Sent, AtMostOnce
<1> QED BY <1>3, <1>4, IdleJob DEF ToolStep, Go, Gone, Fall, Performing

LEMMA SentAttempt ==
    ASSUME NEW w \in Workers, LoopInv, Sent, AttemptStep(w)
    PROVE  Sent'
<1> DEFINE j == job[w].round
<1> \A u \in Workers : job[u] \in Job /\ job[u].round \in Rounds
  BY DEF LoopInv, TypeOK, Job
<1>1. /\ UNCHANGED <<tools, calls, effects>> /\ Turns(w)
      /\ \A r \in Rounds : attempts'[r].status = "none" => attempts[r].status = "none"
      /\ attempts'[j].status # "none"
  <2>1. attempts[j] \in [status : AttemptStatus, reply : {"none", "text", "tool", "question"}]
    BY DEF LoopInv, TypeOK
  <2>2. \/ \E status \in {"started", "failed", "outcome_unknown"} :
                attempts' = [attempts EXCEPT ![j].status = status]
        \/ \E reply \in Answers(j) :
                attempts' = [attempts EXCEPT ![j] = [status |-> "completed", reply |-> reply]]
    BY DEF AttemptStep
  <2>3. /\ \A r \in Rounds : r # j => attempts'[r] = attempts[r]
        /\ attempts'[j].status # "none"
    <3>1. ASSUME NEW status \in {"started", "failed", "outcome_unknown"},
                 attempts' = [attempts EXCEPT ![j].status = status]
          PROVE  /\ \A r \in Rounds : r # j => attempts'[r] = attempts[r]
                 /\ attempts'[j].status # "none"
      BY <2>1, <3>1 DEF LoopInv, TypeOK
    <3>2. ASSUME NEW reply \in Answers(j),
                 attempts' = [attempts EXCEPT ![j] = [status |-> "completed", reply |-> reply]]
          PROVE  /\ \A r \in Rounds : r # j => attempts'[r] = attempts[r]
                 /\ attempts'[j].status # "none"
      BY <3>2 DEF LoopInv, TypeOK
    <3> QED BY <2>2, <3>1, <3>2
  <2> QED BY <2>3 DEF AttemptStep, history
<1>2. CASE job'[w].pc \notin {"dispatch"} \cup Performing
  BY <1>1, <1>2, SentFrame DEF LoopInv
<1>3. CASE Go(w, "dispatch") /\ attempts[j].status = "none"
  <2>1. calls[j] = 0 /\ job'[w].pc = "dispatch" /\ job'[w].round = j
    BY <1>3 DEF Sent, Go
  <2>2. \A u \in Workers : u # w => job'[u] = job[u]
    BY <1>1 DEF Turns, Others
  <2>3. \A u \in Workers : u # w /\ job[u].round = j => job[u].pc # "dispatch"
    BY <1>3 DEF Sent
  <2>4. \A u \in Workers :
          /\ job'[u].pc = "dispatch" =>
                attempts'[job'[u].round].status # "none" /\ calls'[job'[u].round] = 0
          /\ job'[u].pc \in Performing =>
                tools'[job'[u].round] # "none" /\ effects'[job'[u].round] = 0
    <3> TAKE u \in Workers
    <3>1. CASE u = w
      BY <1>1, <2>1, <3>1 DEF Performing
    <3>2. CASE u # w
      BY <1>1, <2>2, <3>2 DEF Sent
    <3> QED BY <3>1, <3>2
  <2>5. \A u, v \in Workers : u # v /\ job'[u].round = job'[v].round =>
          /\ ~(job'[u].pc = "dispatch" /\ job'[v].pc = "dispatch")
          /\ ~(job'[u].pc \in Performing /\ job'[v].pc \in Performing)
    BY <2>1, <2>2, <2>3 DEF Sent, Performing
  <2> QED BY <1>1, <2>4, <2>5 DEF Sent, AtMostOnce
<1> QED BY <1>2, <1>3, IdleJob DEF AttemptStep, Go, Gone, Fall, Performing

LEMMA SentCall ==
    ASSUME NEW w \in Workers, LoopInv, Sent, CallStep(w)
    PROVE  Sent'
<1> DEFINE j == job[w].round
<1>0. /\ \A u \in Workers : job[u] \in Job /\ job[u].round \in Rounds
      /\ calls \in [Rounds -> Nat] /\ effects \in [Rounds -> Nat]
  BY DEF LoopInv, TypeOK, Job
<1>1. /\ UNCHANGED <<attempts, tools>> /\ Turns(w) /\ job'[w].pc \in {"provider", "result"}
      /\ \A u \in Workers : u # w => job'[u] = job[u]
  BY DEF CallStep, durable, rounds, Turns, Others, Go
<1>2. \A u, v \in Workers : u # v /\ job'[u].round = job'[v].round =>
        /\ ~(job'[u].pc = "dispatch" /\ job'[v].pc = "dispatch")
        /\ ~(job'[u].pc \in Performing /\ job'[v].pc \in Performing)
  BY <1>1 DEF Sent, Performing
<1>3. CASE /\ job[w].pc = "dispatch" /\ calls' = [calls EXCEPT ![j] = @ + 1]
           /\ UNCHANGED effects
  <2>1. calls[j] = 0 /\ attempts[j].status # "none"
    BY <1>3 DEF Sent
  <2>2. AtMostOnce'
    BY <1>0, <1>3, <2>1 DEF Sent, AtMostOnce
  <2>3. \A r \in Rounds : /\ attempts'[r].status = "none" => calls'[r] = 0
                          /\ tools'[r] = "none" => effects'[r] = 0
    BY <1>0, <1>1, <1>3, <2>1 DEF Sent
  <2>4. \A u \in Workers : u # w /\ job[u].pc = "dispatch" => job[u].round # j
    BY <1>3 DEF Sent
  <2>5. \A u \in Workers :
          /\ job'[u].pc = "dispatch" =>
                attempts'[job'[u].round].status # "none" /\ calls'[job'[u].round] = 0
          /\ job'[u].pc \in Performing =>
                tools'[job'[u].round] # "none" /\ effects'[job'[u].round] = 0
    <3> TAKE u \in Workers
    <3>1. CASE u = w
      BY <1>1, <3>1 DEF Performing
    <3>2. CASE u # w
      BY <1>0, <1>1, <1>3, <2>4, <3>2 DEF Sent
    <3> QED BY <3>1, <3>2
  <2> QED BY <1>2, <2>2, <2>3, <2>5 DEF Sent
<1>4. CASE /\ job[w].pc = "effect" /\ effects' = [effects EXCEPT ![j] = @ + 1]
           /\ UNCHANGED calls
  <2>1. effects[j] = 0 /\ tools[j] # "none"
    BY <1>4 DEF Sent, Performing
  <2>2. AtMostOnce'
    BY <1>0, <1>4, <2>1 DEF Sent, AtMostOnce
  <2>3. \A r \in Rounds : /\ attempts'[r].status = "none" => calls'[r] = 0
                          /\ tools'[r] = "none" => effects'[r] = 0
    BY <1>0, <1>1, <1>4, <2>1 DEF Sent
  <2>4. \A u \in Workers : u # w /\ job[u].pc \in Performing => job[u].round # j
    BY <1>4 DEF Sent, Performing
  <2>5. \A u \in Workers :
          /\ job'[u].pc = "dispatch" =>
                attempts'[job'[u].round].status # "none" /\ calls'[job'[u].round] = 0
          /\ job'[u].pc \in Performing =>
                tools'[job'[u].round] # "none" /\ effects'[job'[u].round] = 0
    <3> TAKE u \in Workers
    <3>1. CASE u = w
      BY <1>1, <3>1 DEF Performing
    <3>2. CASE u # w
      BY <1>0, <1>1, <1>4, <2>4, <3>2 DEF Sent
    <3> QED BY <3>1, <3>2
  <2> QED BY <1>2, <2>2, <2>3, <2>5 DEF Sent
<1> QED BY <1>3, <1>4 DEF CallStep

LEMMA SentNext ==
    ASSUME LoopInv, Sent, [Next]_vars
    PROVE  Sent'
<1> TypeOK
  BY DEF LoopInv
<1>1. CASE Outside
  <2>1. OutsideStep
    BY <1>1, OutsideDoes
  <2>2. \A r \in Rounds : tools'[r] = "none" => tools[r] = "none"
    BY <2>1 DEF OutsideStep, SettledTool
  <2>3. \A w \in Workers : job[w].round \in Rounds
    BY DEF TypeOK, Job
  <2> QED BY <2>1, <2>2, <2>3 DEF OutsideStep, Sent, AtMostOnce
<1>2. ASSUME NEW w \in Workers, StepOf(w)
      PROVE  Sent'
  <2>1. CASE ToolStep(w)
    BY <2>1, SentTool
  <2>2. CASE AttemptStep(w)
    BY <2>2, SentAttempt
  <2>3. CASE CallStep(w)
    BY <2>3, SentCall
  <2>4. CASE Stays(w) \/ Walks(w)
    <3>1. UNCHANGED <<attempts, tools, calls, effects>> /\ Turns(w)
      BY <2>4 DEF Stays, Walks, Still, durable, rounds
    <3>2. \/ job'[w].pc \notin {"dispatch"} \cup Performing
          \/ job'[w].pc = job[w].pc /\ job'[w].round = job[w].round
      BY <2>4, IdleJob
         DEF Stays, Walks, GetsOn, TakesUp, Sweeps, Same, Gone, Fall, Go, Performing
    <3> QED BY <3>1, <3>2, SentFrame
  <2>5. CASE CancelStep(w)
    <3>1. UNCHANGED <<calls, effects>> /\ Turns(w) /\ (Gone(w) \/ Fall(w))
      BY <2>5 DEF CancelStep, history
    <3>2. \A r \in Rounds : attempts'[r].status = "none" => attempts[r].status = "none"
      <4>1. ASSUME NEW status \in {"cancelled", "outcome_unknown"},
                   attempts' = [attempts EXCEPT ![job[w].round].status = status]
            PROVE  \A r \in Rounds :
                      attempts'[r].status = "none" => attempts[r].status = "none"
        <5>1. \A r \in Rounds : attempts[r] \in
                 [status : AttemptStatus, reply : {"none", "text", "tool", "question"}]
          BY DEF TypeOK
        <5> QED BY <4>1, <5>1 DEF TypeOK
      <4> QED BY <2>5, <4>1 DEF CancelStep
    <3>3. \A r \in Rounds : tools'[r] = "none" => tools[r] = "none"
      <4>1. CASE tools' = [tools EXCEPT ![job[w].round] = "cancelled"]
        BY <4>1 DEF TypeOK
      <4> QED BY <2>5, <4>1 DEF CancelStep
    <3>4. job'[w].pc \notin {"dispatch"} \cup Performing
      BY <3>1, IdleJob DEF Gone, Fall, Performing
    <3> QED BY <3>1, <3>2, <3>3, <3>4, SentFrame
  <2>6. CASE CheckpointStep(w)
    <3>1. /\ UNCHANGED <<attempts, tools, calls, effects>> /\ Turns(w)
          /\ job'[w].pc \notin {"dispatch"} \cup Performing
      BY <2>6 DEF CheckpointStep, Go, Performing
    <3> QED BY <3>1, SentFrame
  <2>7. CASE NodeStep(w)
    <3>1. UNCHANGED <<attempts, tools, calls, effects>> /\ Turns(w)
      BY <2>7 DEF NodeStep, rounds, history
    <3>2. job'[w].pc \notin {"dispatch"} \cup Performing
      BY <2>7, IdleJob DEF NodeStep, Go, Gone, Performing
    <3> QED BY <3>1, <3>2, SentFrame
  <2>8. CASE Ask(w)
    <3>1. UNCHANGED <<attempts, calls, effects>> /\ Turns(w) /\ Go(w, "suspended")
      BY <2>8, AskJob DEF Ask, history
    <3>2. \A r \in Rounds : tools'[r] = "none" => tools[r] = "none"
      BY <2>8 DEF Ask, TypeOK
    <3>3. job'[w].pc \notin {"dispatch"} \cup Performing
      BY <3>1 DEF Go, Performing
    <3> QED BY <3>1, <3>2, <3>3, SentFrame
  <2>9. CASE EndStep(w)
    <3>1. UNCHANGED <<attempts, calls, effects>> /\ Turns(w)
      BY <2>9 DEF EndStep, history
    <3>2. \A r \in Rounds : tools'[r] = "none" => tools[r] = "none"
      BY <2>9, EndStepKeeps DEF SettledTool
    <3>3. job'[w].pc \notin {"dispatch"} \cup Performing
      BY <2>9, IdleJob DEF EndStep, Go, Gone, Performing
    <3> QED BY <3>1, <3>2, <3>3, SentFrame
  <2>10. CASE Claim(w)
    <3>1. UNCHANGED <<attempts, tools, calls, effects>>
      BY <2>10 DEF Claim, rounds, history
    <3>2. Turns(w) /\ job'[w].pc \notin {"dispatch"} \cup Performing
      BY <2>10, ClaimJob DEF Performing
    <3> QED BY <3>1, <3>2, SentFrame
  <2> QED BY <1>2, <2>1, <2>2, <2>3, <2>4, <2>5, <2>6, <2>7, <2>8, <2>9, <2>10 DEF StepOf
<1>3. CASE UNCHANGED vars
  BY <1>3, Unchanged DEF Sent, AtMostOnce
<1> QED BY <1>1, <1>2, <1>3, EveryStep

LEMMA SentInit == Init => Sent
BY IdleJob DEF Init, Sent, AtMostOnce, Performing

\* No round is sent to the provider twice and no operation performed twice,
\* whatever crashes and takeovers happen: what is not fenced is preceded by a
\* row that is saved under the fence and never saved again
\* (general_agent_orchestrator.py, agent_file_tool_service.py).
THEOREM CalledOnce == Spec => []AtMostOnce
<1>1. LoopInv /\ Sent => AtMostOnce
  BY DEF Sent
<1>2. Init => LoopInv /\ Sent
  BY LoopInit, SentInit
<1>3. LoopInv /\ Sent /\ [Next]_vars => (LoopInv /\ Sent)'
  BY LoopNext, SentNext
<1> QED BY <1>1, <1>2, <1>3, PTL DEF Spec

\* A checkpoint speaks only of what is saved and stands before its round's call
\* (workflow_execution_state_service.py, save_loop_checkpoint).
THEOREM CheckpointHolds == Spec => []CheckpointHonest
<1>1. LoopInv /\ Sent => CheckpointHonest
  <2> SUFFICES ASSUME LoopInv, Sent PROVE CheckpointHonest
    OBVIOUS
  <2>1. saved.round \in Rounds /\ calls \in [Rounds -> Nat]
    BY DEF LoopInv, TypeOK
  <2>2. \A r \in Rounds : calls[r] > 0 => saved.phase # "none" /\ saved.round >= r
    BY <2>1 DEF LoopInv, Saved, Sent, Rounds
  <2>3. \A q \in 1..(saved.round - 1) : q \in Rounds /\ q < saved.round
    BY <2>1, AgentWorkflowAssumption DEF Rounds
  <2> QED BY <2>2, <2>3 DEF LoopInv, Saved, CheckpointHonest
<1>2. Init => LoopInv /\ Sent
  BY LoopInit, SentInit
<1>3. LoopInv /\ Sent /\ [Next]_vars => (LoopInv /\ Sent)'
  BY LoopNext, SentNext
<1> QED BY <1>1, <1>2, <1>3, PTL DEF Spec

-----------------------------------------------------------------------------
(* The nodes and the answer *)

\* A step that leaves nodes, task and messages alone.
LEMMA ClosingFrame ==
    ASSUME Closing, NEW w \in Workers, Turns(w), FenceKept(w),
           UNCHANGED <<nodes, messages, task>>,
           OwnsClaim(w) => Place(w)'
    PROVE  Closing'
<1> SUFFICES ASSUME NEW u \in Workers, OwnsClaim(u)', job'[u].pc # "idle"
             PROVE  Place(u)'
  BY DEF Closing, Place, Unanswered, Answered, InLoop, InCall, InTool
<1>1. OwnsClaim(u)
  BY OwnerStays
<1>2. CASE u = w
  BY <1>1, <1>2
<1>3. CASE u # w
  BY <1>1, <1>3 DEF Closing, Place, Turns, Others
<1> QED BY <1>2, <1>3

LEMMA ClosingLoop ==
    ASSUME NEW w \in Workers, LoopInv, Closing,
           \/ Stays(w) \/ Walks(w) \/ ToolStep(w) \/ AttemptStep(w) \/ CancelStep(w)
           \/ CheckpointStep(w) \/ CallStep(w) \/ Ask(w)
    PROVE  Closing'
<1> TypeOK /\ job[w] \in Job /\ (OwnsClaim(w) => Place(w))
  BY DEF LoopInv, TypeOK, Closing
<1> USE DEF Place, Unanswered, Answered, InLoop, InCall, InTool
<1>1. CASE Stays(w)
  <2>1. Turns(w) /\ FenceKept(w) /\ UNCHANGED <<nodes, messages, task>>
    BY <1>1 DEF Stays, Still, durable, FenceKept, Same, Fall
  <2>2. OwnsClaim(w) => Place(w)'
    BY <1>1, IdleJob DEF Stays, Still, durable, Same, Gone, Fall
  <2> QED BY <2>1, <2>2, ClosingFrame
<1>2. CASE Walks(w)
  <2>1. Turns(w) /\ FenceKept(w) /\ UNCHANGED <<nodes, messages, task>>
    BY <1>2 DEF Walks, GetsOn, Still, durable, FenceKept, Go, Fall, TakesUp, Sweeps
  <2>2. ASSUME OwnsClaim(w) PROVE Place(w)'
    <3>1. CASE TakesUp(w)
      <4>1. nodes["final"] # "completed"
        BY <3>1 DEF TakesUp, Closable, Closing
      <4> QED BY <2>1, <3>1, <4>1 DEF TakesUp
    <3>2. CASE job[w].pc = "begin" /\ ~Closable /\ Go(w, "enter")
      BY <2>1, <3>2 DEF Go, Closable, Closing
    <3>3. CASE Closable /\ Go(w, "close")
      BY <2>1, <3>3 DEF Go, Closable
    <3>4. CASE Sweeps(w)
      BY <2>1, <3>4 DEF Sweeps
    <3>5. CASE Gone(w) \/ Fall(w)
      BY <3>5, IdleJob DEF Gone, Fall
    <3>6. CASE /\ job[w].pc \in {"model", "answered", "progress", "respond", "tool"}
               /\ \/ Go(w, "reserved") \/ Go(w, "keep") \/ Go(w, "kept")
                  \/ Go(w, "finish") \/ Go(w, "tool") \/ Go(w, "progress")
      BY <2>1, <2>2, <3>6 DEF Go
    <3> QED BY <1>2, <3>1, <3>2, <3>3, <3>4, <3>5, <3>6 DEF Walks, GetsOn
  <2> QED BY <2>1, <2>2, ClosingFrame
<1>3. CASE ToolStep(w)
  <2>1. /\ Turns(w) /\ FenceKept(w) /\ UNCHANGED <<nodes, messages, task>>
        /\ job[w].pc \in InTool
        /\ job'[w].pc \in InTool \cup {"idle", "stop"}
    BY <1>3, IdleJob DEF ToolStep, FenceKept, Go, Gone, Fall
  <2> QED BY <2>1, ClosingFrame
<1>4. CASE AttemptStep(w)
  <2>1. /\ Turns(w) /\ FenceKept(w) /\ UNCHANGED <<nodes, messages, task>>
        /\ job[w].pc \in InCall
        /\ job'[w].pc \in InCall \cup {"idle", "stop"}
    BY <1>4, IdleJob DEF AttemptStep, FenceKept, Go, Gone, Fall
  <2> QED BY <2>1, ClosingFrame
<1>5. CASE CancelStep(w)
  <2>1. /\ Turns(w) /\ FenceKept(w) /\ UNCHANGED <<nodes, messages, task>>
        /\ job'[w].pc \in {"idle", "stop"}
    BY <1>5, IdleJob DEF CancelStep, FenceKept, Gone, Fall
  <2> QED BY <2>1, ClosingFrame
<1>6. CASE CheckpointStep(w)
  <2>1. /\ Turns(w) /\ FenceKept(w) /\ UNCHANGED <<nodes, messages, task>>
        /\ job[w].pc \in {"loop"} \cup InCall \cup InTool
        /\ job'[w].pc \in {"model", "respond", "loop"}
    BY <1>6 DEF CheckpointStep, Go
  <2> QED BY <2>1, ClosingFrame
<1>7. CASE CallStep(w)
  <2>1. /\ Turns(w) /\ FenceKept(w) /\ UNCHANGED <<nodes, messages, task>>
        /\ job[w].pc \in InCall \cup InTool
        /\ job'[w].pc \in InCall \cup InTool
    BY <1>7 DEF CallStep, durable, FenceKept, Go
  <2> QED BY <2>1, ClosingFrame
<1>8. CASE Ask(w)
  <2>1. Turns(w) /\ Go(w, "suspended")
    BY <1>8, AskJob
  <2>2. FenceKept(w) /\ UNCHANGED <<nodes, messages, task>> /\ job[w].pc = "ask"
    BY <1>8, <2>1 DEF Ask, FenceKept, Go, TypeOK
  <2> QED BY <2>1, <2>2, ClosingFrame DEF Go
<1> QED BY <1>1, <1>2, <1>3, <1>4, <1>5, <1>6, <1>7, <1>8

LEMMA ClosingNode ==
    ASSUME NEW w \in Workers, LoopInv, Closing, NodeStep(w)
    PROVE  Closing'
<1> TypeOK /\ job[w] \in Job
  BY DEF LoopInv, TypeOK
<1>1. OwnsClaim(w) /\ Place(w)
  BY DEF Closing, NodeStep, Running
<1>2. ASSUME NEW u \in Workers, OwnsClaim(u)', job'[u].pc # "idle"
      PROVE  u = w
  BY <1>1, <1>2, NodeKept, OneOwner DEF NodeStep
<1>3. SUFFICES
        /\ messages' = (IF nodes'["final"] = "completed" THEN 1 ELSE 0)
        /\ nodes'["final"] # "none" => nodes'["main"] = "completed"
        /\ nodes'["final"] = "completed" => task' = "completed"
        /\ Place(w)'
  BY <1>2 DEF Closing, Place, Unanswered, Answered, InLoop, InCall, InTool
<1> USE <1>1 DEF Closing, Place, Unanswered, Answered, InLoop, InCall, InTool, Node, TypeOK
<1>4. CASE /\ job[w].pc = "enter" /\ Go(w, "loop")
           /\ \/ /\ nodes["main"] = "none" /\ task' = "running"
                 /\ nodes' = [nodes EXCEPT !["main"] = "running"]
              \/ nodes["main"] # "none" /\ UNCHANGED <<nodes, task>>
           /\ UNCHANGED <<wf, run, messages>>
  BY <1>4 DEF Go
<1>5. CASE /\ job[w].pc = "finish" /\ Go(w, "final")
           /\ nodes' = [nodes EXCEPT !["main"] = "completed"]
           /\ UNCHANGED <<wf, run, task, messages>>
  BY <1>5 DEF Go
<1>6. CASE /\ job[w].pc = "final" /\ Go(w, "deliver") /\ nodes["final"] = "none"
           /\ nodes' = [nodes EXCEPT !["final"] = "running"] /\ task' = "completed"
           /\ UNCHANGED <<wf, run, messages>>
  BY <1>6 DEF Go
<1>7. CASE /\ job[w].pc \in {"final", "deliver"} /\ Go(w, "close")
           /\ nodes' = [nodes EXCEPT !["final"] = "completed"] /\ task' = "completed"
           /\ messages' = messages + 1
           /\ UNCHANGED <<wf, run>>
  BY <1>7 DEF Go
<1>8. CASE /\ job[w].pc = "close" /\ Go(w, "complete") /\ nodes["completion"] = "none"
           /\ nodes' = [nodes EXCEPT !["completion"] = "running"]
           /\ UNCHANGED <<wf, run, task, messages>>
  BY <1>8 DEF Go
<1>9. CASE /\ job[w].pc \in {"close", "complete"} /\ Gone(w)
           /\ nodes' = [nodes EXCEPT !["completion"] = "completed"]
           /\ UNCHANGED <<task, messages>>
  BY <1>9, IdleJob DEF Gone
<1> QED BY <1>4, <1>5, <1>6, <1>7, <1>8, <1>9 DEF NodeStep

LEMMA ClosingEnds ==
    ASSUME NEW w \in Workers, LoopInv, Closing, EndStep(w)
    PROVE  Closing'
<1> job[w] \in Job /\ TypeOK
  BY DEF LoopInv, TypeOK
<1>1. OwnsClaim(w) /\ Place(w) /\ Knows(w)
  BY DEF LoopInv, Closing, EndStep
<1>2. Place(w)' /\ \A u \in Workers : OwnsClaim(u)' /\ job'[u].pc # "idle" => u = w
  BY EndStepKeeps, OneOwner, IdleJob
     DEF EndStep, Go, Gone, Place, Unanswered, Answered, InLoop, InCall, InTool
<1>3. CASE nodes' = nodes
  BY <1>2, <1>3 DEF Closing, EndStep, Place, Unanswered, Answered, InLoop, InCall, InTool
<1>4. CASE /\ job[w].pc = "sweep"
           /\ nodes' = [n \in Node |-> IF n = job[w].victim THEN job[w].ending ELSE nodes[n]]
  <2>1. job[w].ending \in {"failed", "cancelled", "outcome_unknown"}
    BY <1>1, <1>4 DEF Knows, Stopping, Job
  <2>2. job[w].victim \in Node => nodes[job[w].victim] \notin {"none", "completed"}
    BY <1>1, <1>4 DEF Knows, Place, Node
  <2>3. /\ nodes'["final"] = "completed" <=> nodes["final"] = "completed"
        /\ nodes'["final"] # "none" => nodes["final"] # "none"
        /\ nodes["main"] = "completed" => nodes'["main"] = "completed"
    BY <1>4, <2>1, <2>2 DEF Node
  <2> QED BY <1>2, <2>3
           DEF Closing, EndStep, Place, Unanswered, Answered, InLoop, InCall, InTool
<1> QED BY <1>3, <1>4 DEF EndStep

LEMMA ClosingNext ==
    ASSUME LoopInv, Closing, [Next]_vars
    PROVE  Closing'
<1>1. CASE Outside
  <2>1. OutsideStep
    BY <1>1, OutsideDoes DEF LoopInv
  <2>2. \A n \in Node : /\ nodes'[n] = "completed" <=> nodes[n] = "completed"
                        /\ nodes'[n] = "none" <=> nodes[n] = "none"
    BY <2>1 DEF OutsideStep
  <2>3. \A w \in Workers : job[w].victim \in Node \cup {"none"}
    BY DEF LoopInv, TypeOK, Job
  <2> QED BY <2>1, <2>2, <2>3 DEF OutsideStep, Closing, Place, Node
<1>2. ASSUME NEW w \in Workers, StepOf(w)
      PROVE  Closing'
  <2>1. CASE Claim(w)
    <3>1. \A u \in Workers : OwnsClaim(u)' => u = w
      BY <2>1 DEF Claim, OwnsClaim
    <3> QED BY <2>1, <3>1, ClaimJob
             DEF LoopInv, Claim, Closing, Place, Unanswered, Answered, InLoop, InCall, InTool
  <2> QED BY <1>2, <2>1, ClosingLoop, ClosingNode, ClosingEnds DEF StepOf
<1>3. CASE UNCHANGED vars
  BY <1>3, Unchanged DEF Closing, Place, OwnsClaim
<1> QED BY <1>1, <1>2, <1>3, EveryStep

LEMMA ClosingInit == Init => Closing
BY DEF Init, Closing, Node, OwnsClaim

\* The answer message and the completed final node appear together, once, also
\* when another worker finishes what one began: a job comes to the answer only
\* where the nodes say that there is none (agent_runtime, _complete_workflow).
THEOREM AnsweredOnce == Spec => []OneAnswer
<1>1. LoopInv /\ Closing => OneAnswer
  BY DEF Closing, OneAnswer
<1>2. Init => LoopInv /\ Closing
  BY LoopInit, ClosingInit
<1>3. LoopInv /\ Closing /\ [Next]_vars => (LoopInv /\ Closing)'
  BY LoopNext, ClosingNext
<1> QED BY <1>1, <1>2, <1>3, PTL DEF Spec

LEMMA WholeNode ==
    ASSUME NEW w \in Workers, LoopInv, Closing, Whole, NodeStep(w)
    PROVE  Whole'
<1> TypeOK /\ OwnsClaim(w) /\ Place(w)
  BY DEF LoopInv, Closing, NodeStep, Running
<1>1. CASE wf' = wf
  <2>1. job[w].pc # "idle"
    BY DEF NodeStep
  <2> QED BY <1>1, <2>1 DEF Whole, CompletedIsWhole
<1>2. CASE /\ job[w].pc \in {"close", "complete"} /\ Gone(w)
           /\ nodes' = [nodes EXCEPT !["completion"] = "completed"]
           /\ wf' = [wf EXCEPT !.status = "completed"] /\ run' = "completed"
           /\ UNCHANGED <<task, messages>>
  <2>1. nodes["main"] = "completed" /\ nodes["final"] = "completed"
    BY <1>2 DEF Place, Answered
  <2>2. \A n \in Node : nodes'[n] = "completed"
    BY <1>2, <2>1 DEF TypeOK, Node
  <2>3. task' = "completed" /\ messages' = 1
    BY <1>2, <2>1 DEF Closing
  <2>4. \A u \in Workers : OwnsClaim(u)' => job'[u].pc = "idle"
    <3> SUFFICES ASSUME NEW u \in Workers, OwnsClaim(u)', job'[u].pc # "idle" PROVE FALSE
      OBVIOUS
    <3>1. u = w
      BY NodeKept, OneOwner DEF NodeStep
    <3> QED BY <1>2, <3>1, IdleJob DEF Gone
  <2> QED BY <1>2, <2>2, <2>3, <2>4 DEF Whole, CompletedIsWhole
<1> QED BY <1>1, <1>2 DEF NodeStep

LEMMA WholeNext ==
    ASSUME LoopInv, Closing, Whole, [Next]_vars
    PROVE  Whole'
<1> TypeOK
  BY DEF LoopInv
<1>1. CASE Outside
  <2>1. OutsideStep
    BY <1>1, OutsideDoes
  <2>2. \A n \in Node : nodes[n] = "completed" => nodes'[n] = "completed"
    BY <2>1 DEF OutsideStep
  <2> QED BY <2>1, <2>2 DEF OutsideStep, Whole, CompletedIsWhole
<1>2. ASSUME NEW w \in Workers, StepOf(w)
      PROVE  Whole'
  <2>1. CASE Stays(w) \/ Walks(w) \/ CancelStep(w) \/ CallStep(w)
    <3>1. /\ UNCHANGED <<wf, run, task, nodes, messages>> /\ Turns(w) /\ FenceKept(w)
          /\ job[w].pc = "idle" => job'[w].pc = "idle"
      <4>1. CASE Stays(w)
        BY <4>1, IdleJob DEF Stays, Still, durable, FenceKept, Same, Gone, Fall
      <4>2. CASE Walks(w)
        BY <4>2 DEF Walks, GetsOn, TakesUp, Sweeps, Still, durable, FenceKept, Fall, Go
      <4>3. CASE CancelStep(w)
        BY <4>3 DEF CancelStep, FenceKept, Fall
      <4>4. CASE CallStep(w)
        BY <4>4 DEF CallStep, durable, FenceKept, Go
      <4> QED BY <2>1, <4>1, <4>2, <4>3, <4>4
    <3>2. wf'.status = "completed" =>
              \A u \in Workers : OwnsClaim(u)' => job'[u].pc = "idle"
      <4> SUFFICES ASSUME wf'.status = "completed", NEW u \in Workers, OwnsClaim(u)',
                          job'[u].pc # "idle"
                   PROVE  FALSE
        OBVIOUS
      <4>1. OwnsClaim(u)
        BY <3>1, OwnerStays
      <4>2. job[u].pc = "idle"
        BY <3>1, <4>1 DEF Whole
      <4> QED BY <3>1, <4>2 DEF Turns, Others
    <3> QED BY <3>1, <3>2 DEF Whole, CompletedIsWhole
  <2>2. CASE ToolStep(w) \/ AttemptStep(w) \/ CheckpointStep(w)
    <3>1. OwnsClaim(w) /\ job[w].pc # "idle" /\ wf' = wf
      BY <2>2 DEF ToolStep, AttemptStep, CheckpointStep
    <3> QED BY <3>1 DEF Whole, CompletedIsWhole
  <2>3. CASE Ask(w) \/ Claim(w)
    <3>1. wf'.status # "completed"
      BY <2>3 DEF Ask, Claim, TypeOK
    <3> QED BY <3>1 DEF Whole, CompletedIsWhole
  <2>4. CASE EndStep(w)
    <3>1. OwnsClaim(w) /\ job[w].pc # "idle" /\ job[w] \in Job
      BY <2>4 DEF EndStep, TypeOK
    <3>2. wf' = wf \/ wf'.status = job[w].ending
      BY <2>4 DEF EndStep, TypeOK
    <3>3. wf'.status # "completed"
      BY <3>1, <3>2 DEF Whole, Job
    <3> QED BY <3>3 DEF Whole, CompletedIsWhole
  <2> QED BY <1>2, <2>1, <2>2, <2>3, <2>4, WholeNode DEF StepOf
<1>3. CASE UNCHANGED vars
  BY <1>3, Unchanged DEF Whole, CompletedIsWhole, OwnsClaim
<1> QED BY <1>1, <1>2, <1>3, EveryStep

\* A completed workflow is whole: Run, task, every node, and one answer, with
\* stale snapshots or without (workflow_execution_state_service.py,
\* complete_workflow).
THEOREM CompletedWhole == Spec => []CompletedIsWhole
<1>1. Whole => CompletedIsWhole
  BY DEF Whole
<1>2. Init => LoopInv /\ Closing /\ Whole
  <2>1. Init => Whole
    BY DEF Init, Whole, CompletedIsWhole
  <2> QED BY <2>1, LoopInit, ClosingInit
<1>3. LoopInv /\ Closing /\ Whole /\ [Next]_vars => (LoopInv /\ Closing /\ Whole)'
  BY LoopNext, ClosingNext, WholeNext
<1> QED BY <1>1, <1>2, <1>3, PTL DEF Spec

-----------------------------------------------------------------------------
(* How a workflow ends *)

LEMMA ReportsNext ==
    ASSUME LoopInv, Reports, [Next]_vars
    PROVE  Reports'
<1> TypeOK
  BY DEF LoopInv
<1>1. CASE Outside
  <2>1. OutsideStep
    BY <1>1, OutsideDoes
  <2> QED BY <2>1 DEF OutsideStep, Reports
<1>2. ASSUME NEW w \in Workers, StepOf(w),
             NEW u \in Workers, OwnsClaim(u)', job'[u].pc \in {"sweep", "end"},
             \E r \in Rounds : attempts'[r].status = "outcome_unknown"
      PROVE  job'[u].ending = "outcome_unknown"
  <2>1. CASE Stays(w) \/ Walks(w)
    <3>1. UNCHANGED attempts /\ Turns(w) /\ FenceKept(w)
      BY <2>1 DEF Stays, Walks, GetsOn, TakesUp, Sweeps, Still, durable, rounds,
                  FenceKept, Same, Fall, Go
    <3>2. OwnsClaim(u)
      BY <1>2, <3>1, OwnerStays
    <3>3. CASE u # w
      BY <1>2, <3>1, <3>2, <3>3 DEF Reports, Turns, Others
    <3>4. CASE u = w /\ Same(w)
      BY <1>2, <3>1, <3>2, <3>4 DEF Reports, Same
    <3>5. CASE u = w /\ Sweeps(w)
      BY <1>2, <3>1, <3>5 DEF Sweeps, Ending
    <3>6. CASE u = w /\ ~Same(w) /\ ~Sweeps(w)
      BY <1>2, <2>1, <3>6, IdleJob DEF Stays, Walks, GetsOn, TakesUp, Gone, Fall, Go
    <3> QED BY <3>3, <3>4, <3>5, <3>6
  <2>2. CASE ToolStep(w) \/ AttemptStep(w) \/ NodeStep(w) \/ Ask(w)
    <3>1. /\ OwnsClaim(w) /\ Turns(w) /\ FenceKept(w)
          /\ job'[w].pc \notin {"sweep", "end"}
      <4>1. CASE ToolStep(w) \/ AttemptStep(w)
        BY <4>1, IdleJob DEF ToolStep, AttemptStep, FenceKept, Go, Gone, Fall
      <4>2. CASE NodeStep(w)
        BY <4>2, IdleJob, NodeKept DEF NodeStep, Running, Go, Gone
      <4>3. CASE Ask(w)
        BY <4>3, AskJob DEF Ask, TypeOK, FenceKept, Go
      <4> QED BY <2>2, <4>1, <4>2, <4>3
    <3>2. u = w
      BY <1>2, <3>1, OneOwner
    <3> QED BY <1>2, <3>1, <3>2
  <2>3. CASE CancelStep(w)
    <3>1. Turns(w) /\ FenceKept(w) /\ job'[w].pc \notin {"sweep", "end"}
      BY <2>3, IdleJob DEF CancelStep, FenceKept, Gone, Fall
    <3>2. OwnsClaim(u) /\ u # w
      BY <1>2, <3>1, OwnerStays
    <3>3. ~OwnsClaim(w) /\ job'[u] = job[u]
      BY <3>1, <3>2 DEF OwnsClaim, Turns, Others
    <3>4. attempts' = attempts
      BY <2>3, <3>3 DEF CancelStep
    <3> QED BY <1>2, <3>2, <3>3, <3>4 DEF Reports
  <2>4. CASE CheckpointStep(w) \/ CallStep(w)
    <3>1. /\ Turns(w) /\ UNCHANGED <<wf, attempts>>
          /\ job'[w].pc \notin {"sweep", "end"}
      BY <2>4 DEF CheckpointStep, CallStep, Go, durable, rounds
    <3>2. job'[u] = job[u]
      BY <1>2, <3>1 DEF Turns, Others
    <3> QED BY <1>2, <3>1, <3>2 DEF Reports, OwnsClaim
  <2>5. CASE EndStep(w)
    <3>1. u = w
      BY <1>2, <2>5, EndStepKeeps, OneOwner DEF EndStep
    <3>2. OwnsClaim(w) /\ job[w].pc = "sweep" /\ Go(w, "end") /\ attempts' = attempts
      BY <1>2, <2>5, <3>1, IdleJob DEF EndStep, Gone
    <3> QED BY <1>2, <3>1, <3>2 DEF Reports, Go
  <2>6. CASE Claim(w)
    <3>1. u = w
      BY <1>2, <2>6 DEF Claim, OwnsClaim
    <3> QED BY <1>2, <2>6, <3>1, ClaimJob
  <2> QED BY <1>2, <2>1, <2>2, <2>3, <2>4, <2>5, <2>6 DEF StepOf
<1>3. CASE UNCHANGED vars
  BY <1>3, Unchanged DEF Reports, OwnsClaim
<1> QED BY <1>1, <1>2, <1>3, EveryStep DEF Reports

\* The step by which a worker ends a workflow reports an unknown outcome.
UnknownStep ==
    \A w \in Workers :
        (/\ job[w].pc = "end" /\ job'[w].pc = "idle" /\ wf'.status # wf.status
         /\ \E r \in Rounds : attempts[r].status = "outcome_unknown")
            => wf'.status = "outcome_unknown"

LEMMA UnknownKept ==
    ASSUME LoopInv, Reports, [Next]_vars
    PROVE  UnknownStep
<1> TypeOK
  BY DEF LoopInv
<1> SUFFICES ASSUME NEW w \in Workers, job[w].pc = "end", job'[w].pc = "idle",
                    wf'.status # wf.status,
                    \E r \in Rounds : attempts[r].status = "outcome_unknown"
             PROVE  wf'.status = "outcome_unknown"
  BY DEF UnknownStep
<1>1. CASE Outside
  <2>1. job' = job
    BY <1>1, OutsideDoes DEF OutsideStep
  <2> QED BY <2>1
<1>2. ASSUME NEW u \in Workers, StepOf(u)
      PROVE  wf'.status = "outcome_unknown"
  <2>1. u = w
    <3> SUFFICES ASSUME u # w PROVE FALSE
      OBVIOUS
    <3>1. Turns(u) \/ \E k : job' = [job EXCEPT ![u] = k]
      BY <1>2 DEF StepOf, Stays, Walks, ToolStep, AttemptStep, CancelStep, NodeStep,
                  CallStep, EndStep, CheckpointStep, Ask, Claim, Goto, Become
    <3>2. job'[w] = job[w]
      BY <3>1 DEF Turns, Others, TypeOK
    <3> QED BY <3>2
  <2>2. EndStep(w)
    BY <1>2, <2>1
       DEF StepOf, Stays, Walks, ToolStep, AttemptStep, CancelStep, NodeStep, CallStep,
           CheckpointStep, Ask, Claim, Still, durable
  <2>3. OwnsClaim(w) /\ wf' = [wf EXCEPT !.status = job[w].ending]
    BY <2>2 DEF EndStep
  <2> QED BY <2>3 DEF Reports, TypeOK
<1>3. CASE UNCHANGED vars
  BY <1>3, Unchanged
<1> QED BY <1>1, <1>2, <1>3, EveryStep

\* A workflow whose provider outcome nobody knows is not ended by its worker as
\* plainly failed or cancelled: the saved attempts decide, and they cannot change
\* under the owner between its look and its commit
\* (workflow_execution_state_service.py, fail_workflow, cancel_workflow).
THEOREM UnknownReported == Spec => UnknownIsReported
<1>1. Init => LoopInv /\ Reports
  <2>1. Init => Reports
    BY DEF Init, Reports, OwnsClaim
  <2> QED BY <2>1, LoopInit
<1>2. LoopInv /\ Reports /\ [Next]_vars => (LoopInv /\ Reports)'
  BY LoopNext, ReportsNext
<1>3. LoopInv /\ Reports /\ [Next]_vars => [UnknownStep]_vars
  BY UnknownKept
<1> QED BY <1>1, <1>2, <1>3, PTL DEF Spec, UnknownIsReported, UnknownStep

\* The Run of a workflow that has ended, or that a client is cancelling, is closed.
Closed ==
    wf.status \in Ended \/ client.run # "none" => run \notin {"pending", "running"}

LEMMA ClosedOutside ==
    ASSUME TypeOK, Closed, Outside
    PROVE  /\ Closed'
           /\ wf.status \in Ended => wf'.status \in Ended
<1> USE DEF Closed
<1>1. CASE Create
  BY <1>1 DEF Create, Ended, TypeOK
<1>2. CASE TimeUp \/ CancelLate \/ CancelDies
  BY <1>2 DEF TimeUp, CancelLate, CancelDies, NoRequest, durable
<1>3. CASE LapseUnheld \/ LapseHeld
  <2>1. wf'.status = wf.status
    BY <1>3 DEF LapseUnheld, LapseHeld, TypeOK
  <2> QED BY <1>3, <2>1 DEF LapseUnheld, LapseHeld
<1>4. CASE CancelRun
  BY <1>4 DEF CancelRun, EndRun
<1>5. CASE CancelForApp
  <2>1. run' \notin {"pending", "running"} /\ wf' = wf
    BY <1>5 DEF CancelForApp, EndRun, RunCancelled
  <2> QED BY <2>1
<1>6. CASE CancelStart
  <2>1. client'.run = client.run /\ UNCHANGED <<wf, run>>
    BY <1>6 DEF CancelStart, TypeOK
  <2> QED BY <2>1
<1>7. CASE CancelEnd
  <2>1. wf'.status = "cancelled"
    BY <1>7 DEF CancelEnd, TypeOK
  <2>2. run' \notin {"pending", "running"}
    BY <1>7 DEF CancelEnd
  <2> QED BY <2>1, <2>2 DEF Ended
<1>8. ASSUME NEW r \in Rounds, ReplyToAsk(r) \/ ExpireAsk(r)
      PROVE  /\ Closed'
             /\ wf.status \in Ended => wf'.status \in Ended
  <2>1. ASSUME NEW s \in {"resolved", "expired"}, SettleAsk(r, s)
        PROVE  /\ Closed'
               /\ wf.status \in Ended => wf'.status \in Ended
    <3>1. wf.status \notin Ended /\ client.run = "none" /\ UNCHANGED client
      BY <2>1 DEF SettleAsk
    <3>2. wf'.status \notin Ended
      BY <2>1 DEF SettleAsk, Requeued, Ended
    <3> QED BY <3>1, <3>2
  <2> QED BY <1>8, <2>1 DEF ReplyToAsk, ExpireAsk
<1> QED BY <1>1, <1>2, <1>3, <1>4, <1>5, <1>6, <1>7, <1>8 DEF Outside

LEMMA ClosedNext ==
    ASSUME LoopInv, Closed, [Next]_vars
    PROVE  /\ Closed'
           /\ wf.status \in Ended => wf'.status \in Ended
<1> TypeOK
  BY DEF LoopInv
<1>1. CASE Outside
  BY <1>1, ClosedOutside
<1>2. ASSUME NEW w \in Workers, StepOf(w)
      PROVE  /\ Closed'
             /\ wf.status \in Ended => wf'.status \in Ended
  <2>1. CASE NodeStep(w) \/ EndStep(w)
    <3>1. /\ client' = client
          /\ \/ UNCHANGED <<wf, run>>
             \/ wf'.status \in Ended /\ run' \notin {"pending", "running"}
      <4>1. CASE NodeStep(w)
        BY <4>1 DEF NodeStep, TypeOK, Ended
      <4>2. CASE EndStep(w)
        <5>1. job[w].pc = "end" => job[w].ending \in Ended
          BY DEF LoopInv, TypeOK, Job, Knows, Stopping, Ended
        <5> QED BY <4>2, <5>1 DEF EndStep, TypeOK
      <4> QED BY <2>1, <4>1, <4>2
    <3> QED BY <3>1 DEF Closed
  <2>2. CASE Ask(w)
    <3>1. run = "running" /\ UNCHANGED <<run, client>> /\ wf'.status = "waiting_for_input"
      BY <2>2 DEF Ask, TypeOK
    <3> QED BY <3>1 DEF Closed, Ended
  <2>3. CASE Claim(w)
    BY <2>3 DEF Claim, Claimable, Closed, Ended
  <2>4. CASE ~(NodeStep(w) \/ EndStep(w) \/ Ask(w) \/ Claim(w))
    <3>1. UNCHANGED <<wf, run, client>>
      BY <1>2, <2>4
         DEF StepOf, Stays, Walks, ToolStep, AttemptStep, CancelStep, CallStep,
             CheckpointStep, Still, durable
    <3> QED BY <3>1 DEF Closed
  <2> QED BY <2>1, <2>2, <2>3, <2>4
<1>3. CASE UNCHANGED vars
  BY <1>3, Unchanged DEF Closed
<1> QED BY <1>1, <1>2, <1>3, EveryStep

\* A step of an ended workflow: it stays ended, and whoever still carries it on
\* believed that it runs and is the last who does.
LastWrite ==
    wf.status \in Ended =>
        /\ wf'.status \in Ended
        /\ Advances =>
            /\ \E w \in Workers : OwnsClaim(w) /\ job[w].seen = "running"
            /\ \A w \in Workers : OwnsClaim(w)' => View(w)' # "running"

LEMMA LateNode ==
    ASSUME NEW w \in Workers, TypeOK, wf.status \in Ended, wf'.status \in Ended,
           NodeStep(w)
    PROVE  /\ OwnsClaim(w) /\ job[w].seen = "running"
           /\ \A u \in Workers : OwnsClaim(u)' => View(u)' # "running"
<1>1. OwnsClaim(w) /\ job[w].seen = "running"
  BY DEF NodeStep, Running, View, Ended
<1>2. wf'.owner = w /\ job'[w].seen = "none"
  <2>1. FenceKept(w) /\ (Gone(w) \/ \E l \in Onward : Go(w, l))
    BY NodeKept
  <2> QED BY <1>1, <2>1, IdleJob DEF FenceKept, OwnsClaim, Gone, Go
<1>3. ASSUME NEW u \in Workers, OwnsClaim(u)'
      PROVE  View(u)' # "running"
  <2>1. u = w
    BY <1>2, <1>3 DEF OwnsClaim
  <2> QED BY <1>2, <2>1 DEF View, Ended
<1> QED BY <1>1, <1>3

LEMMA LastKept ==
    ASSUME LoopInv, Closed, [Next]_vars
    PROVE  LastWrite
<1> SUFFICES ASSUME wf.status \in Ended, Advances
             PROVE  /\ \E w \in Workers : OwnsClaim(w) /\ job[w].seen = "running"
                    /\ \A w \in Workers : OwnsClaim(w)' => View(w)' # "running"
  BY ClosedNext DEF LastWrite
<1> TypeOK
  BY DEF LoopInv
<1>1. CASE Outside
  <2>1. ~Advances
    BY <1>1, OutsideDoes DEF OutsideStep, Advances
  <2> QED BY <2>1
<1>2. ASSUME NEW w \in Workers, StepOf(w)
      PROVE  NodeStep(w)
  <2>1. CASE EndStep(w)
    <3>1. job[w] \in Job /\ Knows(w)
      BY DEF LoopInv, TypeOK
    <3>2. messages' = messages /\ (run' = "completed" => run = "completed")
      BY <2>1 DEF EndStep
    <3>3. CASE nodes' = nodes
      BY <3>2, <3>3 DEF Advances
    <3>4. CASE /\ job[w].pc = "sweep"
               /\ nodes' = [n \in Node |-> IF n = job[w].victim THEN job[w].ending
                                                                ELSE nodes[n]]
      <4>1. job[w].ending \in {"failed", "cancelled", "outcome_unknown"}
        BY <3>1, <3>4 DEF Knows, Stopping, Job
      <4>2. job[w].victim \in Node => nodes[job[w].victim] # "none"
        BY <3>1, <3>4 DEF Knows, Node
      <4>3. \A n \in Node : /\ nodes[n] = "none" => nodes'[n] = "none"
                            /\ nodes'[n] = "completed" => nodes[n] = "completed"
        BY <3>4, <4>1, <4>2
      <4> QED BY <3>2, <4>3 DEF Advances
    <3> QED BY <2>1, <3>3, <3>4 DEF EndStep
  <2>2. CASE ~EndStep(w) /\ ~NodeStep(w)
    <3>1. UNCHANGED <<messages, run, nodes>>
      BY <1>2, <2>2
         DEF StepOf, Stays, Walks, ToolStep, AttemptStep, CancelStep, CallStep,
             CheckpointStep, Ask, Claim, Still, durable
    <3> QED BY <3>1 DEF Advances
  <2> QED BY <2>1, <2>2
<1>3. CASE UNCHANGED vars
  BY <1>3, Unchanged DEF Advances
<1> QED BY <1>1, <1>2, <1>3, EveryStep, LateNode, ClosedNext

\* Once a workflow has ended it is never taken up again, and only an owner that
\* read before the end still writes for it, in one last transaction: with stale
\* snapshots or without (workflow_execution_state_service.py,
\* ensure_workflow_running).
THEOREM LateWrites == Spec => LateWriteIsLast
<1>1. Init => LoopInv /\ Closed
  <2>1. Init => Closed
    BY DEF Init, Closed, Ended, NoRequest
  <2> QED BY <2>1, LoopInit
<1>2. LoopInv /\ Closed /\ [Next]_vars => (LoopInv /\ Closed)'
  BY LoopNext, ClosedNext
<1>3. LoopInv /\ Closed /\ [Next]_vars => [LastWrite]_vars
  BY LastKept
<1> QED BY <1>1, <1>2, <1>3, PTL DEF Spec, LateWriteIsLast, LastWrite

=============================================================================
