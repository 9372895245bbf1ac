------------------------------- MODULE MCWorkflowRun -------------------------------
(* Instances of WorkflowRun for TLC: the third run does not fit an int, and of three  *)
(* runs two are listed.                                                               *)
EXTENDS WorkflowRun
================================================================================
