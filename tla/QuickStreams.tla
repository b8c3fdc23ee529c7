---------------------------- MODULE QuickStreams ----------------------------
(***************************************************************************)
(* What runs next to a quick reply (module QuickTurn) without the database *)
(* lease that fences it: the writer that saves drafts of an answer while   *)
(* it streams (services/model_stream_progress_store.py), through a session *)
(* of its own, and an observer that replays the saved events to a browser  *)
(* (services/quick_response_observer.py), which disconnects at will.       *)
(***************************************************************************)
EXTENDS QuickTurn, FiniteSets

CONSTANT PageSize   \* events an observer reads at once (100 in the code)

ASSUME QuickStreamsAssumption == PageSize \in Nat \ {0}

VARIABLES
    body,     \* round -> what raw_response_uri of its attempt leads to
    writer,   \* worker -> where the draft writer of its provider call stands
    viewer    \* the observer: cursor, rest of its page, the status it read, its end

streams == <<body, writer, viewer>>

NoViewer == [pc |-> "status", cursor |-> 0, left |-> 0, full |-> FALSE,
             open |-> TRUE, end |-> "none"]

\* Type correctness.
StreamsTypeOK ==
    /\ TypeOK
    /\ body \in [Rounds -> {"none", "draft", "final"}]
    /\ writer \in [Workers -> {"idle", "seen", "stored"}]
    /\ viewer \in [pc : {"status", "events", "deliver", "end"}, cursor : 0..MaxEvents,
                   left : 0..PageSize, full : BOOLEAN, open : BOOLEAN,
                   end : {"none", "completed", "failed", "over"}]

StreamsInit ==
    /\ Init
    /\ body = [r \in Rounds |-> "none"]
    /\ writer = [w \in Workers |-> "idle"]
    /\ viewer = NoViewer

-----------------------------------------------------------------------------
(* The writer of drafts *)

Streaming(w) == pc[w] = "provider"

\* save_inflight_progress: a first look at the attempt, in a transaction of its own.
DraftSeen(w) ==
    /\ Streaming(w)
    /\ writer[w] = "idle"
    /\ attempts[round[w]].status = "started"
    /\ writer' = [writer EXCEPT ![w] = "seen"]
    /\ UNCHANGED <<vars, body, viewer>>

\* The rolling object of the attempt is replaced.
DraftStored(w) ==
    /\ Streaming(w)
    /\ writer[w] = "seen"
    /\ writer' = [writer EXCEPT ![w] = "stored"]
    /\ UNCHANGED <<vars, body, viewer>>

\* Mutated update: the attempt's status is not asked for again.
LinkDraftAlways(w) ==
    /\ writer[w] = "stored"
    /\ writer' = [writer EXCEPT ![w] = "idle"]
    /\ body' = [body EXCEPT ![round[w]] = "draft"]
    /\ UNCHANGED <<vars, viewer>>

\* The conditional UPDATE.  It may arrive while the call is being left: cancelling
\* the writer does not recall a statement that was sent.
LinkDraft(w) ==
    /\ writer[w] = "stored"
    /\ writer' = [writer EXCEPT ![w] = "idle"]
    /\ body' = [r \in Rounds |-> IF r = round[w] /\ attempts[r].status = "started"
                                 THEN "draft" ELSE body[r]]
    /\ UNCHANGED <<vars, viewer>>

\* A step of the turn.  A completion or failure links the final response; leaving
\* the call ends its writer, unless an update of its own is in flight.
TurnStep ==
    /\ Next
    /\ body' = [r \in Rounds |->
                  IF attempts[r].status = "started"
                     /\ attempts'[r].status \in {"completed", "failed"}
                  THEN "final" ELSE body[r]]
    /\ writer' = [w \in Workers |->
                    IF \/ pc'[w] = "idle" \/ round'[w] # round[w]
                       \/ writer[w] = "seen" /\ pc'[w] # "provider"
                    THEN "idle" ELSE writer[w]]
    /\ UNCHANGED viewer

-----------------------------------------------------------------------------
(* The observer *)

Open == exec.status \in {"queued", "running", "waiting_for_input"}

Later(n) == {s \in Slots : s > n /\ events[s] # "none"}

ReadStatus ==
    /\ viewer.pc = "status"
    /\ exec.status # "absent"
    /\ viewer' = [viewer EXCEPT !.pc = "events", !.open = Open]
    /\ UNCHANGED <<vars, body, writer>>

\* The next PageSize events in order of their sequence, after the status was read.
ReadEvents ==
    /\ viewer.pc = "events"
    /\ \E n \in 0..PageSize :
          /\ \/ n = Cardinality(Later(viewer.cursor))
             \/ n = PageSize /\ n < Cardinality(Later(viewer.cursor))
          /\ viewer' = [viewer EXCEPT !.pc = "deliver", !.left = n, !.full = n = PageSize]
    /\ UNCHANGED <<vars, body, writer>>

\* Mutated cursor: it moves to the newest saved event.
NextEventNewest == CHOOSE s \in Later(viewer.cursor) : \A t \in Later(viewer.cursor) : t <= s

NextEvent == CHOOSE s \in Later(viewer.cursor) : \A t \in Later(viewer.cursor) : s <= t

\* One event of the page; a completed or failed one ends the stream.
DeliverEvent ==
    /\ viewer.pc = "deliver"
    /\ viewer.left > 0
    /\ viewer' = [viewer EXCEPT !.cursor = NextEvent, !.left = @ - 1,
                     !.pc = IF events[NextEvent] \in {"completed", "failed"} THEN "end" ELSE @,
                     !.end = IF events[NextEvent] \in {"completed", "failed"}
                             THEN events[NextEvent] ELSE @]
    /\ UNCHANGED <<vars, body, writer>>

\* Mutated decision: the status is read again after the events.
EndedBeforePageLate == ~Open

\* What the status was when the page was read.
EndedBeforePage == ~viewer.open

\* A full page is followed by another read; after the last one of an execution that
\* is over the observer says so itself.
EndPage ==
    /\ viewer.pc = "deliver"
    /\ viewer.left = 0
    /\ viewer' = IF ~viewer.full /\ EndedBeforePage
                 THEN [viewer EXCEPT !.pc = "end", !.end = "over"]
                 ELSE [viewer EXCEPT !.pc = "status"]
    /\ UNCHANGED <<vars, body, writer>>

\* The browser goes away and comes back, from the start or from where it was.
Reconnect ==
    /\ viewer # NoViewer
    /\ \E n \in {0, viewer.cursor} :
          /\ n # 0 => viewer.end \notin {"completed", "failed"}
          /\ viewer' = [NoViewer EXCEPT !.cursor = n]
    /\ UNCHANGED <<vars, body, writer>>

StreamsNext ==
    \/ TurnStep
    \/ \E w \in Workers : DraftSeen(w) \/ DraftStored(w) \/ LinkDraft(w)
    \/ ReadStatus \/ ReadEvents \/ DeliverEvent \/ EndPage \/ Reconnect

StreamsSpec == StreamsInit /\ [][StreamsNext]_<<vars, streams>>

-----------------------------------------------------------------------------
(* Properties *)

\* A completed attempt leads to its final response: a draft that is still being
\* saved, also one of a worker that lost its lease, never takes its place.
FinalResponseKept ==
    \A r \in Rounds : attempts[r].status = "completed" => body[r] = "final"

\* An observer that ends the stream by itself does so only for an execution whose
\* log holds no end it has not shown: no answer is presented as a failure.
NoEndIsMissed ==
    viewer.end = "over" =>
        \A s \in Slots : s > viewer.cursor => events[s] \notin {"completed", "failed"}

\* An observer skips no event and shows none twice, whatever the size of a page.
EveryEventShown ==
    [][viewer'.cursor > viewer.cursor => viewer'.cursor = viewer.cursor + 1]_viewer
=============================================================================
