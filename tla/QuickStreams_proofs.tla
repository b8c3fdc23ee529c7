-------------------------- MODULE QuickStreams_proofs --------------------------
(***************************************************************************)
(* Proofs about QuickStreams for every number of workers, rounds, deltas   *)
(* and faults, every page size, and both kinds of turn.  A step of the     *)
(* turn is a step of QuickTurn, so that the invariants of QuickTurn_proofs *)
(* hold here.  What is added: an execution that is over stays over and     *)
(* gets no end it did not have; and what an observer that has only ever    *)
(* read the log, page by page, can know of that.                           *)
(***************************************************************************)
EXTENDS QuickStreams, QuickTurn_proofs

-----------------------------------------------------------------------------
(* What is over stays over *)

Ends == {"completed", "failed"}

\* The end of the turn is in the log.
EndSaved == \E s \in Slots : events[s] \in Ends

\* Nobody works under the claim any more.
NobodyAtWork == \A w \in Workers : OwnsClaim(w) => pc[w] = "idle"

\* An execution that is over has a Run that is, and its log has its end unless none can
\* come: the Run was cancelled, or the last owner is gone.
OverInv ==
    /\ exec.status \in Released =>
          /\ run \notin {"pending", "running"}
          /\ EndSaved \/ run = "cancelled" \/ NobodyAtWork
    /\ exec.status = "waiting_for_input" => run = "running"

-----------------------------------------------------------------------------
(* What the observer knows *)

\* What it has shown is saved, and holds no end unless it stopped there.
ShownSaved ==
    /\ viewer.cursor # 0 => events[viewer.cursor] # "none"
    /\ viewer.end \notin Ends =>
          \A s \in Slots : s <= viewer.cursor => events[s] \notin Ends
    /\ viewer.pc # "end" => viewer.end = "none"

\* An execution it has seen to be over is over; and if it says so itself, no end came.
SeenOver ==
    /\ ~viewer.open => exec.status \in Released
    /\ viewer.end = "over" => exec.status \in Released /\ ~EndSaved

\* The rest of its page is saved; and the last page of an execution that is over reaches
\* the first end there is.
PageSaved ==
    viewer.pc = "deliver" =>
        /\ viewer.left > 0 =>
              /\ viewer.cursor + viewer.left \in Slots
              /\ events[viewer.cursor + viewer.left] # "none"
        /\ ~viewer.full /\ ~viewer.open =>
              \A s \in Slots : s > viewer.cursor /\ events[s] \in Ends =>
                 \E t \in Slots : /\ viewer.cursor < t /\ t <= viewer.cursor + viewer.left
                                  /\ events[t] \in Ends

ViewerInv == ShownSaved /\ SeenOver /\ PageSaved

TurnInv == TInv /\ SettledInv /\ LogPrefix /\ OwnerAtEnd /\ OverInv

StreamsInv == TurnInv /\ StreamsTypeOK /\ FinalResponseKept /\ ViewerInv

-----------------------------------------------------------------------------
(* The turn goes on as in QuickTurn *)

\* Neither the writer of drafts nor the observer changes anything of the turn.
LEMMA TurnOrStutter ==
    ASSUME [StreamsNext]_<<vars, streams>> PROVE [Next]_vars
BY DEF StreamsNext, TurnStep, DraftSeen, DraftStored, LinkDraft, ReadStatus, ReadEvents,
   DeliverEvent, EndPage, Reconnect

\* A saved event is never replaced.
LEMMA EventsGrow ==
    ASSUME TInv, [Next]_vars, NEW s \in Slots, events[s] # "none"
    PROVE events'[s] = events[s]
<1>1. CASE ~ \E w \in Workers : Publish(w)
  BY <1>1, OnlyPublishSaves
<1>2. ASSUME NEW w \in Workers, Publish(w) PROVE events'[s] = events[s]
  BY <1>2 DEF Publish, TInv, TypeOK, RowsOK
<1> QED BY <1>1, <1>2

\* An execution that is over is not resumed; one that waits has a live Run; and one is
\* over only when its Run is.
LEMMA OutsideOver ==
    ASSUME TInv, OverInv, Outside
    PROVE /\ exec.status \in Released => exec'.status \in Released
          /\ exec'.status \in Released => run' \notin {"pending", "running"}
          /\ exec'.status = "waiting_for_input" => run' = "running"
          /\ exec'.status \in Released /\ exec.status \notin Released
                => run' = "cancelled"
<1> USE DEF TInv, TypeOK, RowsOK, OverInv, Released
<1> DEFINE Goal ==
       /\ exec.status \in Released => exec'.status \in Released
       /\ exec'.status \in Released => run' \notin {"pending", "running"}
       /\ exec'.status = "waiting_for_input" => run' = "running"
       /\ exec'.status \in Released /\ exec.status \notin Released
             => run' = "cancelled"
<1>1. CASE Accept
  BY <1>1 DEF Accept
<1>2. CASE CancelRun
  BY <1>2, NoAskLeft DEF CancelRun
<1>3. CASE LapseUnheld \/ LapseHeld
  BY <1>3 DEF LapseUnheld, LapseHeld
<1>4. ASSUME NEW r \in Rounds, NEW status \in {"resolved", "expired"},
             SettleAsk(r, status)
      PROVE Goal
  BY <1>4 DEF SettleAsk, Answerable, ResumedExec
<1>5. ASSUME NEW r \in Rounds, ExpireAsk(r), ~SettleAsk(r, "expired") PROVE Goal
  <2>1. CancelAsks /\ run # "running" /\ UNCHANGED run
    BY <1>5 DEF ExpireAsk
  <2> QED BY <2>1, NoAskLeft
<1>6. CASE UNCHANGED vars
  BY <1>6 DEF vars, durable
<1> QED BY <1>1, <1>2, <1>3, <1>4, <1>5, <1>6 DEF Outside, ReplyToAsk

LEMMA WorkerOver ==
    ASSUME TInv, OverInv, NEW w \in Workers,
           Quiet(w) \/ SavesTool(w) \/ SavesAttempt(w) \/ Commits(w)
    PROVE /\ exec.status \in Released => exec'.status \in Released
          /\ exec'.status \in Released => run' \notin {"pending", "running"}
          /\ exec'.status = "waiting_for_input" => run' = "running"
          /\ exec'.status \in Released /\ exec.status \notin Released
                => FinishInterrupted(w) \/ (Publish(w) /\ note[w] \in Ends)
          /\ run = "cancelled" => run' = "cancelled"
<1> USE DEF TInv, TypeOK, RowsOK, LocalsOK, OverInv, Released, Ends
<1>1. CASE Quiet(w) \/ SavesTool(w) \/ SavesAttempt(w) \/ Cancelled(w)
  BY <1>1, TurnGoesOn
<1>2. CASE Claim(w)
  BY <1>2 DEF Claim, Claimable
<1>3. CASE StartRun(w)
  BY <1>3 DEF StartRun
<1>4. CASE Ask(w)
  BY <1>4 DEF Ask
<1>5. CASE Publish(w)
  <2>1. note[w] \in {"delta", "completed", "failed"} /\ run # "cancelled"
    BY <1>5 DEF Publish, Positions, RunTakesEvents
  <2>2. CASE note[w] = "delta"
    BY <1>5, <2>2 DEF Publish
  <2>3. CASE note[w] # "delta"
    <3>1. run' = note[w] /\ exec'.status = note[w]
      BY <1>5, <2>3 DEF Publish
    <3> QED BY <1>5, <2>1, <2>3, <3>1
  <2> QED BY <2>2, <2>3
<1>6. CASE FinishInterrupted(w)
  <2>1. exec'.status = EndStatus(w) /\ run' = RunAfter(w)
    BY <1>6 DEF FinishInterrupted
  <2> QED BY <1>6, <2>1 DEF EndStatus, RunAfter
<1> QED BY <1>1, <1>2, <1>3, <1>4, <1>5, <1>6 DEF Commits

\* Once an execution is over and its log has no end, nothing is added to the log.
LEMMA NothingToCome ==
    ASSUME TInv, OverInv, [Next]_vars, exec.status \in Released, ~EndSaved
    PROVE UNCHANGED events
<1> SUFFICES ASSUME NEW w \in Workers, Publish(w) PROVE FALSE
  BY OnlyPublishSaves
<1> QED BY DEF Publish, RunTakesEvents, OverInv, NobodyAtWork

\* Nobody takes up an execution that is over and has nobody at work.
LEMMA NobodyReturns ==
    ASSUME TInv, NobodyAtWork, exec.status \in Released, [Next]_vars
    PROVE NobodyAtWork'
<1> SUFFICES ASSUME NEW v \in Workers, OwnsClaim(v)', pc'[v] # "idle" PROVE FALSE
  BY DEF NobodyAtWork
<1>1. ~Claim(v)
  BY DEF Claim, Claimable, Released
<1>2. ~ \E w \in Workers : Publish(w)
  BY DEF Publish, NobodyAtWork
<1>3. pc[v] # "idle" /\ OwnsClaim(v)
  BY <1>1, <1>2, WayToOwn
<1> QED BY <1>3 DEF NobodyAtWork

LEMMA OverStep ==
    ASSUME TInv, OverInv, [Next]_vars
    PROVE OverInv' /\ (exec.status \in Released => exec'.status \in Released)
<1> USE DEF TInv, TypeOK, RowsOK, LocalsOK
<1>1. /\ exec.status \in Released => exec'.status \in Released
      /\ exec'.status \in Released => run' \notin {"pending", "running"}
      /\ exec'.status = "waiting_for_input" => run' = "running"
  BY OutsideOver, WorkerOver, StepKinds
<1>2. ASSUME exec'.status \in Released
      PROVE EndSaved' \/ run' = "cancelled" \/ NobodyAtWork'
  <2>1. CASE EndSaved
    BY <2>1, EventsGrow DEF EndSaved, Ends
  <2>2. CASE exec.status \in Released /\ run = "cancelled"
    <3>1. run' = "cancelled"
      <4>1. CASE Outside
        BY <2>2, <4>1
        DEF Outside, Accept, CancelRun, LapseUnheld, LapseHeld, ReplyToAsk, ExpireAsk,
           SettleAsk, vars, durable
      <4> QED BY <2>2, <4>1, WorkerOver, StepKinds
    <3> QED BY <3>1
  <2>3. CASE exec.status \in Released /\ NobodyAtWork
    BY <2>3, NobodyReturns
  <2>4. CASE exec.status \notin Released
    <3>1. CASE Outside
      BY <1>2, <2>4, <3>1, OutsideOver
    <3>2. ASSUME NEW w \in Workers,
                 FinishInterrupted(w) \/ (Publish(w) /\ note[w] \in Ends)
          PROVE EndSaved' \/ NobodyAtWork'
      <4>1. CASE Publish(w) /\ note[w] \in Ends
        <5>1. seq[w] + 1 \in Slots /\ events'[seq[w] + 1] = note[w]
          BY <4>1, QuickTurnAssumption DEF Publish, Slots, MaxEvents
        <5> QED BY <4>1, <5>1 DEF EndSaved
      <4>2. CASE FinishInterrupted(w)
        <5>1. OwnsClaim(w) /\ exec'.owner = exec.owner /\ pc'[w] = "idle"
          BY <4>2 DEF FinishInterrupted, Retire
        <5> QED BY <5>1 DEF NobodyAtWork, OwnsClaim
      <4> QED BY <3>2, <4>1, <4>2
    <3> QED BY <1>2, <2>4, <3>1, <3>2, WorkerOver, StepKinds
  <2> QED BY <2>1, <2>2, <2>3, <2>4 DEF OverInv
<1> QED BY <1>1, <1>2 DEF OverInv

LEMMA TurnInvStep ==
    ASSUME TurnInv, [Next]_vars PROVE TurnInv'
BY TInvStep, SettledStep, LogStep, OverStep DEF TurnInv

-----------------------------------------------------------------------------
(* The final response *)

\* A round is completed, and its final response linked, in the step that takes the
\* answer of a round that was sent; a late draft is refused by the status it asks for.
LEMMA FinalStep ==
    ASSUME TurnInv, FinalResponseKept, [StreamsNext]_<<vars, streams>>
    PROVE FinalResponseKept'
<1> SUFFICES ASSUME NEW r \in Rounds, attempts'[r].status = "completed"
             PROVE body'[r] = "final"
  BY DEF FinalResponseKept
<1>1. CASE TurnStep
  <2>1. [Next]_vars
    BY <1>1 DEF TurnStep
  <2>2. CASE attempts[r].status = "completed"
    BY <1>1, <2>2 DEF TurnStep, FinalResponseKept
  <2>3. CASE attempts[r].status # "completed"
    <3>1. PICK w \in Workers :
             /\ round[w] = r
             /\ \/ StartAttempt(w) /\ attempts[r].status = "none"
                \/ Sent(w) /\ ~Sent(w)'
      BY <2>1, <2>3, AttemptChange DEF TurnInv
    <3>2. ~StartAttempt(w)
      BY <3>1 DEF StartAttempt, NoAttempt, TurnInv, TInv, TypeOK, RowsOK
    <3>3. attempts[r].status = "started"
      BY <3>1, <3>2 DEF TurnInv, SettledInv, SentAlone
    <3> QED BY <1>1, <3>3 DEF TurnStep
  <2> QED BY <2>2, <2>3
<1>2. ASSUME NEW w \in Workers, LinkDraft(w) PROVE body'[r] = "final"
  <2>1. UNCHANGED attempts
    BY <1>2 DEF LinkDraft, vars, durable
  <2> QED BY <1>2, <2>1 DEF LinkDraft, FinalResponseKept
<1>3. CASE UNCHANGED <<attempts, body>>
  BY <1>3 DEF FinalResponseKept
<1> QED
  BY <1>1, <1>2, <1>3
  DEF StreamsNext, DraftSeen, DraftStored, ReadStatus, ReadEvents, DeliverEvent, EndPage,
     Reconnect, streams, vars, durable

-----------------------------------------------------------------------------
(* Pages of the log *)

\* What is saved after position c has no gap: a page of n events ends with a saved one,
\* and no event is later than a page that takes them all.
LEMMA PageOfLog ==
    ASSUME TInv, LogPrefix, NEW c \in 0..MaxEvents, NEW n \in Nat,
           n <= Cardinality(Later(c))
    PROVE /\ n > 0 => c + n \in Slots /\ events[c + n] # "none"
          /\ n = Cardinality(Later(c)) =>
                \A s \in Slots : s > c /\ events[s] # "none" => s <= c + n
<1> USE QuickTurnAssumption DEF MaxEvents, Slots
<1>1. IsFiniteSet(Later(c)) /\ Cardinality(Later(c)) \in Nat
  <2>1. IsFiniteSet(1..(MaxDeltas + 2))
    BY FS_Interval
  <2>2. Later(c) \subseteq 1..(MaxDeltas + 2)
    BY DEF Later
  <2> QED BY <2>1, <2>2, FS_Subset, FS_CardinalityType
<1>2. ASSUME n > 0, ~(c + n \in Slots /\ events[c + n] # "none") PROVE FALSE
  <2>1. Later(c) \subseteq (c + 1)..(c + n - 1)
    <3> SUFFICES ASSUME NEW s \in Slots, s > c, events[s] # "none", s >= c + n
                 PROVE FALSE
      BY DEF Later
    <3>1. c + n \in 1..s /\ c + n \in Slots
      BY <1>2
    <3>2. events[c + n] # "none"
      BY <3>1 DEF LogPrefix
    <3> QED BY <1>2, <3>1, <3>2
  <2>2. /\ IsFiniteSet((c + 1)..(c + n - 1))
        /\ Cardinality((c + 1)..(c + n - 1)) = n - 1
    <3> DEFINE a == c + 1
               b == c + n - 1
    <3>1. a \in Int /\ b \in Int /\ (IF a > b THEN 0 ELSE b - a + 1) = n - 1
      BY <1>2
    <3>2. IsFiniteSet(a..b) /\ Cardinality(a..b) = IF a > b THEN 0 ELSE b - a + 1
      <4> HIDE DEF a, b
      <4> QED BY <3>1, FS_Interval
    <3> QED BY <3>1, <3>2
  <2>3. Cardinality(Later(c)) <= n - 1
    BY <2>1, <2>2, FS_Subset
  <2> QED BY <1>1, <2>3
<1>3. ASSUME n = Cardinality(Later(c)), NEW s \in Slots, s > c, events[s] # "none",
             s > c + n
      PROVE FALSE
  <2>1. (c + 1)..s \subseteq Later(c)
    BY <1>3 DEF Later, LogPrefix
  <2>2. Cardinality((c + 1)..s) = s - c
    BY <1>3, FS_Interval
  <2>3. s - c <= n
    BY <1>1, <1>3, <2>1, <2>2, FS_Subset
  <2> QED BY <1>3, <2>3
<1> QED BY <1>2, <1>3

\* The next event of a page is the one after the last shown.
LEMMA NextIsNext ==
    ASSUME TInv, LogPrefix, StreamsTypeOK, PageSaved,
           viewer.pc = "deliver", viewer.left > 0
    PROVE /\ NextEvent = viewer.cursor + 1
          /\ viewer.cursor + 1 \in Slots
          /\ events[viewer.cursor + 1] # "none"
<1> DEFINE c == viewer.cursor
<1> USE QuickTurnAssumption DEF MaxEvents, Slots
<1>1. c \in Nat /\ viewer.left \in Nat
  BY QuickStreamsAssumption DEF StreamsTypeOK
<1>2. c + viewer.left \in Slots /\ events[c + viewer.left] # "none"
  BY DEF PageSaved
<1>3. c + 1 \in Slots /\ c + 1 \in 1..(c + viewer.left)
  BY <1>1, <1>2
<1>4. events[c + 1] # "none"
  BY <1>2, <1>3 DEF LogPrefix
<1>5. c + 1 \in Later(c) /\ \A t \in Later(c) : c + 1 <= t
  BY <1>1, <1>3, <1>4 DEF Later
<1>6. \A s \in Later(c) : (\A t \in Later(c) : s <= t) => s = c + 1
  <2> SUFFICES ASSUME NEW s \in Later(c), s <= c + 1 PROVE s = c + 1
    BY <1>5
  <2>1. s \in Nat /\ s > c
    BY DEF Later
  <2> QED BY <1>1, <2>1
<1>7. NextEvent = c + 1
  BY <1>5, <1>6 DEF NextEvent
<1> QED BY <1>3, <1>4, <1>7

-----------------------------------------------------------------------------
(* The observer *)

\* A step of the turn adds to the log behind what was shown and read, and no end to the
\* log of an execution that was seen to be over.
LEMMA ViewerMeanwhile ==
    ASSUME TurnInv, StreamsTypeOK, ViewerInv, [Next]_vars, UNCHANGED viewer
    PROVE ViewerInv'
<1> USE QuickTurnAssumption DEF TurnInv, ViewerInv, MaxEvents, Slots
<1>1. viewer.cursor \in Nat /\ viewer.cursor <= MaxEvents
  BY DEF StreamsTypeOK
<1>2. exec.status \in Released => exec'.status \in Released
  BY OverStep
<1>3. exec.status \in Released /\ ~EndSaved => ~EndSaved'
  BY NothingToCome DEF EndSaved
<1>4. ShownSaved'
  <2>1. viewer.cursor # 0 => events'[viewer.cursor] # "none"
    BY <1>1, EventsGrow DEF ShownSaved
  <2>2. ASSUME viewer.end \notin Ends, NEW s \in Slots, s <= viewer.cursor
        PROVE events'[s] \notin Ends
    <3>1. events[s] # "none"
      BY <1>1, <2>2 DEF ShownSaved, LogPrefix
    <3> QED BY <2>2, <3>1, EventsGrow DEF ShownSaved
  <2> QED BY <2>1, <2>2 DEF ShownSaved
<1>5. SeenOver'
  BY <1>2, <1>3 DEF SeenOver
<1>6. PageSaved'
  <2> SUFFICES ASSUME viewer.pc = "deliver"
               PROVE PageSaved'
    BY DEF PageSaved
  <2>1. viewer.left > 0 => /\ viewer.cursor + viewer.left \in Slots
                           /\ events'[viewer.cursor + viewer.left] # "none"
    BY EventsGrow DEF PageSaved
  <2>2. ASSUME ~viewer.full, ~viewer.open, NEW s \in Slots, s > viewer.cursor,
               events'[s] \in Ends
        PROVE \E t \in Slots : /\ viewer.cursor < t /\ t <= viewer.cursor + viewer.left
                               /\ events'[t] \in Ends
    <3>1. EndSaved
      BY <1>3, <2>2 DEF SeenOver, EndSaved
    <3>2. PICK e \in Slots : events[e] \in Ends
      BY <3>1 DEF EndSaved
    <3>3. e > viewer.cursor
      BY <1>1, <3>2 DEF ShownSaved, Ends
    <3>4. PICK t \in Slots : /\ viewer.cursor < t /\ t <= viewer.cursor + viewer.left
                             /\ events[t] \in Ends
      BY <2>2, <3>2, <3>3 DEF PageSaved
    <3>5. events'[t] = events[t]
      BY <3>4, EventsGrow DEF Ends
    <3> QED BY <3>4, <3>5
  <2> QED BY <2>1, <2>2 DEF PageSaved
<1> QED BY <1>4, <1>5, <1>6

\* What the observer reads and shows, while the turn stands still.
LEMMA ObserverMoves ==
    ASSUME TurnInv, StreamsTypeOK, ViewerInv, UNCHANGED vars,
           ReadStatus \/ ReadEvents \/ DeliverEvent \/ EndPage \/ Reconnect
    PROVE ViewerInv' /\ (viewer'.cursor > viewer.cursor => viewer'.cursor = viewer.cursor + 1)
<1> USE QuickTurnAssumption, QuickStreamsAssumption
    DEF TurnInv, ViewerInv, MaxEvents, Slots, StreamsTypeOK
<1> DEFINE Shown == viewer'.cursor > viewer.cursor => viewer'.cursor = viewer.cursor + 1
<1>0. UNCHANGED <<events, exec>>
  BY DEF vars, durable
<1>1. CASE ReadStatus
  <2>1. ~viewer'.open => exec.status \in Released
    BY <1>1 DEF ReadStatus, Open, Released, TInv, TypeOK, RowsOK, ExecStatus
  <2> QED BY <1>0, <1>1, <2>1
     DEF ReadStatus, ShownSaved, SeenOver, PageSaved, EndSaved
<1>2. CASE ReadEvents
  <2>1. PICK n \in 0..PageSize :
          /\ \/ n = Cardinality(Later(viewer.cursor))
             \/ n = PageSize /\ n < Cardinality(Later(viewer.cursor))
          /\ viewer' = [viewer EXCEPT !.pc = "deliver", !.left = n, !.full = n = PageSize]
    BY <1>2 DEF ReadEvents
  <2>2. Cardinality(Later(viewer.cursor)) \in Nat
    <3>1. IsFiniteSet(1..(MaxDeltas + 2)) /\ Later(viewer.cursor) \subseteq 1..(MaxDeltas + 2)
      BY FS_Interval DEF Later
    <3> QED BY <3>1, FS_Subset, FS_CardinalityType
  <2>3. n <= Cardinality(Later(viewer.cursor))
        /\ (n # PageSize => n = Cardinality(Later(viewer.cursor)))
    BY <2>1, <2>2
  <2>4. /\ n > 0 => viewer.cursor + n \in Slots /\ events[viewer.cursor + n] # "none"
        /\ n # PageSize =>
              \A s \in Slots : s > viewer.cursor /\ events[s] # "none"
                                   => s <= viewer.cursor + n
    BY <2>3, PageOfLog
  <2>5. /\ viewer'.pc = "deliver" /\ viewer'.left = n /\ viewer'.full = (n = PageSize)
        /\ viewer'.cursor = viewer.cursor /\ viewer'.open = viewer.open
        /\ viewer'.end = viewer.end /\ viewer.pc = "events"
    BY <1>2, <2>1 DEF ReadEvents
  <2>6. PageSaved'
    BY <1>0, <2>4, <2>5 DEF PageSaved, Ends
  <2> QED BY <1>0, <2>5, <2>6 DEF ShownSaved, SeenOver, EndSaved
<1>3. CASE DeliverEvent
  <2>1. /\ NextEvent = viewer.cursor + 1 /\ viewer.cursor + 1 \in Slots
        /\ events[viewer.cursor + 1] # "none" /\ viewer.pc = "deliver" /\ viewer.left > 0
    BY <1>3, NextIsNext DEF DeliverEvent
  <2>2. /\ viewer'.cursor = viewer.cursor + 1 /\ viewer'.left = viewer.left - 1
        /\ viewer'.full = viewer.full /\ viewer'.open = viewer.open
        /\ events[viewer.cursor + 1] \in Ends =>
              viewer'.pc = "end" /\ viewer'.end \in Ends
        /\ events[viewer.cursor + 1] \notin Ends =>
              viewer'.pc = viewer.pc /\ viewer'.end = viewer.end
    BY <1>3, <2>1 DEF DeliverEvent, Ends
  <2>3. viewer.end = "none" /\ viewer.cursor \in Nat /\ viewer.left \in Nat
    BY <2>1 DEF ShownSaved
  <2>4. ShownSaved'
    <3>1. \A s \in Slots : s <= viewer.cursor + 1 => s <= viewer.cursor \/ s = viewer.cursor + 1
      BY <2>3
    <3> QED BY <1>0, <2>1, <2>2, <2>3, <3>1 DEF ShownSaved, Ends
  <2>5. SeenOver'
    BY <1>0, <2>2, <2>3 DEF SeenOver, EndSaved, Ends
  <2>6. PageSaved'
    <3> SUFFICES ASSUME viewer'.pc = "deliver" PROVE PageSaved'
      BY DEF PageSaved
    <3>1. events[viewer.cursor + 1] \notin Ends
      BY <2>2
    <3>2. viewer'.cursor + viewer'.left = viewer.cursor + viewer.left
      BY <2>2, <2>3
    <3>3. ASSUME viewer'.left > 0
          PROVE /\ viewer'.cursor + viewer'.left \in Slots
                /\ events'[viewer'.cursor + viewer'.left] # "none"
      BY <1>0, <2>1, <2>2, <2>3, <3>2 DEF PageSaved
    <3>4. ASSUME ~viewer'.full, ~viewer'.open, NEW s \in Slots, s > viewer'.cursor,
                 events'[s] \in Ends
          PROVE \E t \in Slots : /\ viewer'.cursor < t /\ t <= viewer'.cursor + viewer'.left
                                 /\ events'[t] \in Ends
      <4>1. ~viewer.full /\ ~viewer.open /\ s > viewer.cursor /\ events[s] \in Ends
        BY <1>0, <2>2, <2>3, <3>4
      <4>2. PICK t \in Slots : /\ viewer.cursor < t /\ t <= viewer.cursor + viewer.left
                               /\ events[t] \in Ends
        BY <2>1, <4>1 DEF PageSaved
      <4>3. t # viewer.cursor + 1
        BY <3>1, <4>2
      <4>4. viewer.cursor + 1 < t
        BY <2>3, <4>2, <4>3
      <4> QED BY <1>0, <2>2, <3>2, <4>2, <4>4
    <3> QED BY <3>3, <3>4 DEF PageSaved
  <2> QED BY <2>2, <2>4, <2>5, <2>6
<1>4. CASE EndPage
  <2>1. /\ viewer.pc = "deliver" /\ viewer.left = 0 /\ viewer.end = "none"
        /\ viewer'.cursor = viewer.cursor /\ viewer'.open = viewer.open
        /\ viewer'.pc \in {"end", "status"}
        /\ viewer'.pc = "status" => viewer'.end = "none"
        /\ viewer'.end \in {"none", "over"}
        /\ viewer'.end = "over" => ~viewer.full /\ ~viewer.open
    BY <1>4 DEF EndPage, EndedBeforePage, ShownSaved
  <2>2. ~viewer.full /\ ~viewer.open => ~EndSaved
    <3> SUFFICES ASSUME ~viewer.full, ~viewer.open, NEW s \in Slots, events[s] \in Ends
                 PROVE FALSE
      BY DEF EndSaved
    <3>1. viewer.cursor \in Nat /\ s > viewer.cursor
      BY <2>1 DEF ShownSaved, Ends
    <3>2. PICK t \in Slots : viewer.cursor < t /\ t <= viewer.cursor + viewer.left
      BY <2>1, <3>1 DEF PageSaved
    <3> QED BY <2>1, <3>1, <3>2
  <2>3. ShownSaved'
    BY <1>0, <2>1 DEF ShownSaved, Ends
  <2>4. SeenOver'
    BY <1>0, <2>1, <2>2 DEF SeenOver, EndSaved
  <2> QED BY <2>1, <2>3, <2>4 DEF PageSaved
<1>5. CASE Reconnect
  <2>1. PICK n \in {0, viewer.cursor} :
           /\ n # 0 => viewer.end \notin {"completed", "failed"}
           /\ viewer' = [NoViewer EXCEPT !.cursor = n]
    BY <1>5 DEF Reconnect
  <2>2. /\ viewer'.cursor = n /\ viewer'.open = TRUE /\ viewer'.pc = "status"
        /\ viewer'.end = "none"
    BY <2>1 DEF NoViewer
  <2>3. ShownSaved'
    BY <1>0, <2>1, <2>2 DEF ShownSaved, Ends
  <2> QED BY <2>2, <2>3 DEF SeenOver, PageSaved
<1> QED BY <1>1, <1>2, <1>3, <1>4, <1>5

LEMMA StreamsTypes ==
    ASSUME StreamsInv, TypeOK', [StreamsNext]_<<vars, streams>> PROVE StreamsTypeOK'
<1> USE QuickTurnAssumption, QuickStreamsAssumption DEF StreamsTypeOK, MaxEvents, Slots
<1> USE DEF StreamsInv
<1>1. CASE TurnStep
  BY <1>1 DEF TurnStep
<1>2. ASSUME NEW w \in Workers, DraftSeen(w) \/ DraftStored(w) \/ LinkDraft(w)
      PROVE StreamsTypeOK'
  BY <1>2 DEF DraftSeen, DraftStored, LinkDraft
<1>3. CASE ReadStatus
  <2>1. Open \in BOOLEAN
    BY DEF Open
  <2> QED BY <1>3, <2>1 DEF ReadStatus
<1>4. CASE ReadEvents
  BY <1>4 DEF ReadEvents
<1>5. CASE DeliverEvent
  <2>1. NextEvent = viewer.cursor + 1 /\ viewer.cursor + 1 \in 1..(MaxDeltas + 2)
    BY <1>5, NextIsNext DEF DeliverEvent, TurnInv, ViewerInv
  <2>2. viewer.left - 1 \in 0..PageSize
    BY <1>5 DEF DeliverEvent
  <2>3. UNCHANGED <<body, writer>>
    BY <1>5 DEF DeliverEvent
  <2>4. PICK l \in {"deliver", "end"}, e \in {viewer.end, "completed", "failed"} :
           viewer' = [viewer EXCEPT !.cursor = viewer.cursor + 1, !.left = @ - 1,
                                    !.pc = l, !.end = e]
    BY <1>5, <2>1 DEF DeliverEvent
  <2>5. /\ viewer' = [pc |-> l, cursor |-> viewer.cursor + 1, left |-> viewer.left - 1,
                      full |-> viewer.full, open |-> viewer.open, end |-> e]
        /\ e \in {"none", "completed", "failed", "over"}
    BY <2>4
  <2> QED BY <2>1, <2>2, <2>3, <2>5
<1>6. CASE EndPage
  BY <1>6 DEF EndPage
<1>7. CASE Reconnect
  <2>1. PICK n \in {0, viewer.cursor} : viewer' = [NoViewer EXCEPT !.cursor = n]
    BY <1>7 DEF Reconnect
  <2>2. viewer' = [pc |-> "status", cursor |-> n, left |-> 0, full |-> FALSE,
                   open |-> TRUE, end |-> "none"]
    BY <2>1 DEF NoViewer
  <2>3. UNCHANGED <<body, writer>> /\ n \in 0..MaxEvents
    BY <1>7, <2>1 DEF Reconnect
  <2> QED BY <2>2, <2>3
<1>8. CASE UNCHANGED <<vars, streams>>
  BY <1>8 DEF streams
<1> QED BY <1>1, <1>2, <1>3, <1>4, <1>5, <1>6, <1>7, <1>8 DEF StreamsNext

LEMMA StreamsStep ==
    ASSUME StreamsInv, [StreamsNext]_<<vars, streams>>
    PROVE StreamsInv' /\ (viewer'.cursor > viewer.cursor => viewer'.cursor = viewer.cursor + 1)
<1> USE DEF StreamsInv
<1>1. [Next]_vars
  BY TurnOrStutter
<1>2. TurnInv' /\ FinalResponseKept' /\ StreamsTypeOK'
  BY <1>1, TurnInvStep, FinalStep, StreamsTypes DEF TurnInv, TInv
<1>3. CASE UNCHANGED viewer
  <2>1. viewer.cursor \in Nat
    BY QuickTurnAssumption DEF StreamsTypeOK, MaxEvents
  <2> QED BY <1>1, <1>2, <1>3, <2>1, ViewerMeanwhile
<1>4. CASE ReadStatus \/ ReadEvents \/ DeliverEvent \/ EndPage \/ Reconnect
  <2>1. UNCHANGED vars
    BY <1>4 DEF ReadStatus, ReadEvents, DeliverEvent, EndPage, Reconnect
  <2> QED BY <1>2, <1>4, <2>1, ObserverMoves
<1> QED BY <1>3, <1>4
     DEF StreamsNext, TurnStep, DraftSeen, DraftStored, LinkDraft, streams

LEMMA StreamsStart == StreamsInit => StreamsInv
<1> SUFFICES ASSUME StreamsInit PROVE StreamsInv
  OBVIOUS
<1>1. TInv
  BY TInvInit DEF StreamsInit
<1>2. SettledInv /\ LogPrefix /\ OwnerAtEnd /\ OverInv
  BY DEF StreamsInit, Init, SettledInv, SentAlone, Sent, AnswerSaved, AskAlone, Asking,
     LogPrefix, OwnerAtEnd, OverInv, Released
<1>3. StreamsTypeOK
  BY <1>1, QuickTurnAssumption, QuickStreamsAssumption
  DEF StreamsInit, StreamsTypeOK, TInv, NoViewer, MaxEvents
<1>4. FinalResponseKept
  BY DEF StreamsInit, Init, FinalResponseKept, NoAttempt
<1>5. ViewerInv
  BY QuickTurnAssumption DEF StreamsInit, NoViewer, ViewerInv, ShownSaved, SeenOver, PageSaved, Slots, MaxEvents
<1> QED BY <1>1, <1>2, <1>3, <1>4, <1>5 DEF StreamsInv, TurnInv

\* The strengthening is inductive.
LEMMA StreamsInductive == StreamsSpec => []StreamsInv
BY StreamsStart, StreamsStep, PTL DEF StreamsSpec

\* The linked bodies, the draft writers and the observer stay well formed, together with
\* the turn they belong to (model_stream_progress_store.py, quick_response_observer.py).
THEOREM StreamsTypeCorrect == StreamsSpec => []StreamsTypeOK
<1>1. StreamsInv => StreamsTypeOK
  BY DEF StreamsInv
<1> QED BY <1>1, StreamsInductive, PTL

\* A completed attempt leads to its final response, although drafts are saved outside the
\* fence, by workers that may have lost their lease, and arrive after the completion
\* (model_stream_progress_store.py).
THEOREM FinalKept == StreamsSpec => []FinalResponseKept
<1>1. StreamsInv => FinalResponseKept
  BY DEF StreamsInv
<1> QED BY <1>1, StreamsInductive, PTL

\* An observer that ends the stream by itself has missed no end: it reads the status
\* before the events, an execution that is over gets no end later, and the last page it
\* reads reaches every end there is (quick_response_observer.py).
THEOREM NoneMissed == StreamsSpec => []NoEndIsMissed
<1>1. StreamsInv => NoEndIsMissed
  BY DEF StreamsInv, ViewerInv, SeenOver, EndSaved, Ends, NoEndIsMissed
<1> QED BY <1>1, StreamsInductive, PTL

\* An observer skips no event and shows none twice, whatever the size of its pages and
\* however the log grows between two of them (quick_response_observer.py).
THEOREM AllShown == StreamsSpec => EveryEventShown
<1> DEFINE ShownStep == viewer'.cursor > viewer.cursor => viewer'.cursor = viewer.cursor + 1
<1>1. StreamsInv /\ [StreamsNext]_<<vars, streams>> => [ShownStep]_viewer
  BY StreamsStep
<1> QED BY <1>1, StreamsInductive, PTL DEF StreamsSpec, EveryEventShown
=============================================================================
