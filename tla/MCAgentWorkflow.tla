-------------------------- MODULE MCAgentWorkflow --------------------------
(* Bounded instances of AgentWorkflow for TLC.                             *)
EXTENDS AgentWorkflow, TLC

\* Workers are interchangeable; used in runs without liveness.
WorkerSymmetry == Permutations(Workers)
=============================================================================
