---------------------------- MODULE SessionTrace ----------------------------
(***************************************************************************)
(* The grammar every session log must follow: the relational invariant of  *)
(* the session package (packages/core/session/src/invariant.ts), which      *)
(* folds the committed events of one session into a trace and rejects an    *)
(* event whose turn, step or call does not fit.                             *)
(*                                                                         *)
(* One action is one accepted event of the five kinds that move the trace;  *)
(* every other kind leaves the trace alone and is a stuttering step.  The    *)
(* sequence number is left out: Session.append assigns log.length, so the    *)
(* "seq must strictly increase" check cannot tell two producers apart.       *)
(***************************************************************************)
EXTENDS Naturals

CONSTANT Calls      \* tool call identities

\* The trace writes null for a boundary that is not open; turns and steps count from 1.
NotOpen == 0

VARIABLES
    openTurn,       \* turn whose turn/end is outstanding, or NotOpen
    openStep,       \* step whose step/end is outstanding, or NotOpen
    nextTurn,       \* number the next turn/start must carry
    nextStep,       \* number the next step/start must carry
    pendingCalls    \* calls recorded by tool/call whose tool/result is outstanding

trace == <<openTurn, openStep, nextTurn, nextStep, pendingCalls>>

TraceTypeOK ==
    /\ openTurn \in Nat /\ openStep \in Nat
    /\ nextTurn \in Nat \ {0} /\ nextStep \in Nat \ {0}
    /\ pendingCalls \subseteq Calls

TraceInit ==
    /\ openTurn = NotOpen /\ openStep = NotOpen
    /\ nextTurn = 1 /\ nextStep = 1
    /\ pendingCalls = {}

\* turn/start: no turn may be open, and the turn carries the next number.
TurnStarts ==
    /\ openTurn = NotOpen
    /\ openTurn' = nextTurn
    /\ nextStep' = 1
    /\ UNCHANGED <<openStep, nextTurn, pendingCalls>>

\* turn/end: closes the open turn, which has no open step.
TurnEnds ==
    /\ openTurn # NotOpen /\ openStep = NotOpen
    /\ openTurn' = NotOpen
    /\ nextTurn' = nextTurn + 1
    /\ UNCHANGED <<openStep, nextStep, pendingCalls>>

\* step/start: inside the open turn, after the previous step has closed.
StepStarts ==
    /\ openTurn # NotOpen /\ openStep = NotOpen
    /\ openStep' = nextStep
    /\ UNCHANGED <<openTurn, nextTurn, nextStep, pendingCalls>>

\* step/end: forgets the calls of the step it closes.
StepEnds ==
    /\ openTurn # NotOpen /\ openStep # NotOpen
    /\ openStep' = NotOpen
    /\ nextStep' = nextStep + 1
    /\ pendingCalls' = {}
    /\ UNCHANGED <<openTurn, nextTurn>>

\* tool/call: inside the open step.
CallRecorded(c) ==
    /\ openTurn # NotOpen /\ openStep # NotOpen
    /\ pendingCalls' = pendingCalls \union {c}
    /\ UNCHANGED <<openTurn, openStep, nextTurn, nextStep>>

\* tool/result: inside the open step, and for a recorded call.  A result that
\* carries TOOL_NOT_STARTED answers a call that was never recorded; it leaves
\* the trace alone and is a stuttering step.
ResultRecorded(c) ==
    /\ openTurn # NotOpen /\ openStep # NotOpen
    /\ c \in pendingCalls
    /\ pendingCalls' = pendingCalls \ {c}
    /\ UNCHANGED <<openTurn, openStep, nextTurn, nextStep>>

TraceNext ==
    \/ TurnStarts \/ TurnEnds
    \/ StepStarts \/ StepEnds
    \/ \E c \in Calls : CallRecorded(c) \/ ResultRecorded(c)

TraceSpec == TraceInit /\ [][TraceNext]_trace
=============================================================================
