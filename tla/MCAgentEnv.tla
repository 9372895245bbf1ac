-------------------------------- MODULE MCAgentEnv --------------------------------
(* Instances of AgentEnv for TLC.                                                  *)
EXTENDS AgentEnv
================================================================================
