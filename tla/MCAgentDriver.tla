--------------------------- MODULE MCAgentDriver ---------------------------
(* The instances of AgentDriver that TLC checks: messages, calls and the user's *)
(* cause are model values or strings of the configurations.                    *)
EXTENDS AgentDriver
=============================================================================
