---------------------------- MODULE ReplyPromise ----------------------------
(***************************************************************************)
(* What a durable quick reply promises to the one who asked, whoever works *)
(* on it: a log that only grows, at its end and while the turn is open;    *)
(* one outcome; and an answer message with the completion only.  There are *)
(* no workers, leases, crashes or takeovers here: module QuickTurn is      *)
(* shown to implement this.                                                *)
(***************************************************************************)
EXTENDS Naturals

CONSTANT Slots      \* sequence numbers of the log

VARIABLES
    outcome,   \* open, completed, failed or cancelled
    log,       \* sequence -> kind of event
    answers    \* assistant messages

promise == <<outcome, log, answers>>

Init ==
    /\ outcome = "open"
    /\ log = [s \in Slots |-> "none"]
    /\ answers = 0

\* kind becomes the event after the last one.
Extend(kind) ==
    \E s \in Slots :
        /\ log[s] = "none"
        /\ \A t \in Slots : t < s => log[t] # "none"
        /\ \A t \in Slots : t > s => log[t] = "none"
        /\ log' = [log EXCEPT ![s] = kind]

Say ==
    /\ outcome = "open"
    /\ Extend("delta")
    /\ UNCHANGED <<outcome, answers>>

Complete ==
    /\ outcome = "open"
    /\ outcome' = "completed"
    /\ Extend("completed")
    /\ answers' \in {answers, answers + 1}

Fail ==
    /\ outcome = "open"
    /\ outcome' = "failed"
    /\ Extend("failed") \/ UNCHANGED log
    /\ UNCHANGED answers

Cancel ==
    /\ outcome = "open"
    /\ outcome' = "cancelled"
    /\ UNCHANGED <<log, answers>>

Next == Say \/ Complete \/ Fail \/ Cancel

Spec == Init /\ [][Next]_promise
=============================================================================
