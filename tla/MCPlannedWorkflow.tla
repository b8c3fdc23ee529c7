--------------------------- MODULE MCPlannedWorkflow ---------------------------
(* PlannedWorkflow on small instances. *)
EXTENDS PlannedWorkflow

CONSTANTS a, b

OneTask == [order |-> <<a>>, needs |-> [t \in {a} |-> {}]]
AtOnce  == [order |-> <<a, b>>, needs |-> [t \in {a, b} |-> {}]]
InTurn  == [order |-> <<a, b>>, needs |-> [t \in {a, b} |-> IF t = b THEN {a} ELSE {}]]

AllPlans == {OneTask, AtOnce, InTurn}
OnePlan  == {AtOnce}
=============================================================================
