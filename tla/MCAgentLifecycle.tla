-------------------------- MODULE MCAgentLifecycle --------------------------
(* Instances of AgentLifecycle: the attempts at one id are model values. *)
EXTENDS AgentLifecycle
=============================================================================
