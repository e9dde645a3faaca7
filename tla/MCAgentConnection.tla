-------------------------- MODULE MCAgentConnection --------------------------
(* AgentConnection for TLC.                                                  *)
EXTENDS AgentConnection
=============================================================================
