---------------------------- MODULE MCToolCalls ----------------------------
(* The instance of ToolCalls that TLC checks. *)
EXTENDS ToolCalls

\* The wrappers of the first call may delegate a second time.
FirstRetries == [c \in Call |-> IF c = 1 THEN 2 ELSE 1]
=============================================================================
