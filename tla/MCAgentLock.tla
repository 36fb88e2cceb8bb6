----------------------------- MODULE MCAgentLock -----------------------------
(* Small instances of AgentLock: two runs and two connects of one agent.   *)
EXTENDS AgentLock
=============================================================================
