--------------------------- MODULE MCCmasWorkflow ---------------------------
(* Model checking of CmasWorkflow: every stage of every workflow has a call *)
(* and an agent of its own.                                                 *)
EXTENDS CmasWorkflow

StageCalls == Workflows \X Stages
============================================================================
