---------------------------- MODULE ToolAnswers ----------------------------
(***************************************************************************)
(* What one assistant step promises about its tool calls, as the model and  *)
(* a replaying reader see it in the session log: calls are recorded and      *)
(* answered in the order the model requested them, each exactly once, and a *)
(* step that fails still answers every request before it closes.            *)
(*                                                                         *)
(* Events: tool/call and tool/result of the step (tool-calls.ts), and the    *)
(* recovery results the failing step appends (session/src/repair.ts).       *)
(***************************************************************************)
EXTENDS Naturals

CONSTANT Count      \* number of calls in the assistant message

Call == 1..Count

VARIABLES
    called,         \* calls with a tool/call event
    answered,       \* calls with a tool/result event
    closing         \* the step failed: only recovery results may follow

answers == <<called, answered, closing>>

\* Every call the model requested before c is in events.
InOrder(c, events) == c \notin events /\ 1..(c - 1) \subseteq events

AnswersInit == called = {} /\ answered = {} /\ closing = FALSE

Record(c) ==
    /\ ~closing
    /\ InOrder(c, called)
    /\ called' = called \union {c}
    /\ UNCHANGED <<answered, closing>>

Answer(c) ==
    /\ ~closing
    /\ c \in called /\ InOrder(c, answered)
    /\ answered' = answered \union {c}
    /\ UNCHANGED <<called, closing>>

\* A call that cancellation kept from starting gets its pair of events at once.
Skip(c) ==
    /\ ~closing
    /\ InOrder(c, called) /\ InOrder(c, answered)
    /\ called' = called \union {c}
    /\ answered' = answered \union {c}
    /\ UNCHANGED closing

Fail == ~closing /\ closing' = TRUE /\ UNCHANGED <<called, answered>>

\* A recovery result: for a recorded call, or for one that never started.
Recover(c) ==
    /\ closing
    /\ InOrder(c, answered)
    /\ answered' = answered \union {c}
    /\ UNCHANGED <<called, closing>>

AnswersNext ==
    \/ \E c \in Call : Record(c) \/ Answer(c) \/ Skip(c) \/ Recover(c)
    \/ Fail

AnswersSpec == AnswersInit /\ [][AnswersNext]_answers
=============================================================================
